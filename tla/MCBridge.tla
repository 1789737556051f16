------------------------------ MODULE MCBridge ------------------------------
(***************************************************************************)
(* A small instance of Bridge: Alice and Bob are in the directory.         *)
(***************************************************************************)
EXTENDS Bridge

Line(type, who, id) == [type |-> type, who |-> who, id |-> id]
Blank == Line("Blank", {}, 0)

\* A message to Alice and a blank line; contacts that are added twice; raw data
\* that is no hex before a message.
MCInputs ==
    {<<Line("SendMessage", {"alice"}, 1), Blank, Line("SendMessage", {"alice"}, 2)>>,
     <<Line("AddContacts", {"alice"}, 1), Line("AddContacts", {"alice"}, 2),
       Line("AddContacts", {"bob"}, 3)>>,
     <<Line("SendRawInvalid", {"alice"}, 1), Blank, Line("SendMessage", {"bob"}, 2)>>}

\* For the answers, a line that makes Alice a contact while her message waits
MCInput == {<<Line("SendMessage", {"alice"}, 1)>>}

\* A message from Alice and one from a group she is in
MCMessages ==
    {[sender |-> "alice", id |-> 1, group |-> FALSE],
     [sender |-> "alice", id |-> 2, group |-> TRUE]}
=============================================================================

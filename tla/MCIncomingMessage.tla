-------------------------- MODULE MCIncomingMessage --------------------------
(***************************************************************************)
(* A small instance of IncomingMessage: Alice may be a contact, Bob is one *)
(* to create, Carol is not registered, Dave is blocked; *PUSH and *HELP    *)
(* are special.                                                            *)
(***************************************************************************)
EXTENDS IncomingMessage

Box(sender, id, nonce, type) ==
    [sender |-> sender, receiver |-> "user", id |-> id, nonce |-> nonce, fault |-> "None",
     serverAck |-> TRUE, type |-> type, nickname |-> "unchanged"]

\* Alice sends a text, and the same message again under another nonce.
Text   == [Box("alice", 1, 1, "Text") EXCEPT !.nickname = "nick"]
Again  == Box("alice", 1, 2, "Text")
Second == Box("alice", 2, 3, "Text")
Receipt == Box("alice", 3, 4, "DeliveryReceipt")
Group  == [Box("alice", 4, 5, "GroupText") EXCEPT !.nickname = "nick"]
New    == Box("bob", 1, 6, "Text")
NewGroup == Box("bob", 2, 7, "GroupText")
Invalid == Box("carol", 1, 8, "Text")
Resume == Box("*PUSH", 1, 9, "WebSessionResume")
Help   == Box("*HELP", 1, 10, "Text")
Own    == Box("user", 1, 11, "Text")
Broken == [Box("alice", 5, 12, "Text") EXCEPT !.fault = "Payload"]
Garbled == [Box("alice", 6, 13, "Text") EXCEPT !.fault = "Content"]
Other  == [Box("alice", 7, 14, "Text") EXCEPT !.receiver = "bob"]
Typing == [Box("alice", 8, 15, "WebSessionResume") EXCEPT !.serverAck = FALSE]
PushText == Box("*PUSH", 2, 16, "Text")
Unwanted == Box("dave", 1, 17, "Text")

MCMessages ==
    {Text, Again, Second, Receipt, Group, New, NewGroup, Invalid, Resume, Help, Own, Broken,
     Garbled, Other, Typing, PushText, Unwanted}

\* What the server holds when the device connects
MCMailboxes ==
    {{Text, Again, Second}, {Text, Receipt, New}, {New, NewGroup, Invalid}, {Group, Typing, New},
     {Resume, Help, Own}, {Broken, Garbled, Other}, {PushText, Unwanted, NewGroup}}

\* Alice is a direct contact, a group contact or not a contact.
Book(alice) ==
    [s \in Senders |-> IF s = "alice" THEN alice ELSE Absent]
MCAddressBooks == {Book(Absent), Book(Contact("Direct", "none")), Book(Contact("Group", "none"))}
=============================================================================

--------------------------- MODULE NominatedChannel ---------------------------
(***************************************************************************)
(* What the rendezvous protocol promises: the nominator chooses one path,  *)
(* once; the nominee learns that choice and no other; and what either end  *)
(* sends from then on reaches the other in order, each message once.       *)
(* Messages are numbered in the order they are sent.                       *)
(***************************************************************************)
EXTENDS Naturals, Sequences

CONSTANTS Pids, NoPid

VARIABLES
    chosen,     \* the path the nominator has nominated, or NoPid
    learnt,     \* the path the nominee knows to be nominated, or NoPid
    sent,       \* what the two ends have sent ...
    received    \* ... and received: functions of the two ends

channelVars == <<chosen, learnt, sent, received>>

Ends == {"nominator", "nominee"}
Peer(end) == IF end = "nominator" THEN "nominee" ELSE "nominator"
Knows(end) == IF end = "nominator" THEN chosen # NoPid ELSE learnt # NoPid

Init ==
    /\ chosen = NoPid
    /\ learnt = NoPid
    /\ sent = [end \in Ends |-> 0]
    /\ received = [end \in Ends |-> <<>>]

Choose(pid) ==
    /\ chosen = NoPid
    /\ chosen' = pid
    /\ UNCHANGED <<learnt, sent, received>>

Learn ==
    /\ chosen # NoPid /\ learnt = NoPid
    /\ learnt' = chosen
    /\ UNCHANGED <<chosen, sent, received>>

Send(end) ==
    /\ Knows(end)
    /\ sent' = [sent EXCEPT ![end] = @ + 1]
    /\ UNCHANGED <<chosen, learnt, received>>

Receive(end) ==
    LET next == Len(received[end]) + 1
    IN  /\ Knows(end)
        /\ next <= sent[Peer(end)]
        /\ received' = [received EXCEPT ![end] = Append(@, next)]
        /\ UNCHANGED <<chosen, learnt, sent>>

Next ==
    \/ \E pid \in Pids : Choose(pid)
    \/ Learn
    \/ \E end \in Ends : Send(end) \/ Receive(end)

Spec == Init /\ [][Next]_channelVars
=============================================================================

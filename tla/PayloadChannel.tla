---------------------------- MODULE PayloadChannel ----------------------------
(***************************************************************************)
(* What the payload phase of the chat server protocol promises: payloads   *)
(* arrive in the order they were sent, none twice, none left out, in both  *)
(* directions, until an end stops; and while the client has not stopped,   *)
(* every payload of the server does arrive.                                *)
(***************************************************************************)
EXTENDS Naturals, Sequences

CONSTANTS Incoming, Outgoing   \* payloads from and to the server

VARIABLES sentDown, gotDown, clientStopped,  \* server to client
          sentUp, gotUp, serverStopped       \* client to server

vars == <<sentDown, gotDown, clientStopped, sentUp, gotUp, serverStopped>>

Init ==
    /\ sentDown = <<>> /\ gotDown = <<>> /\ clientStopped = FALSE
    /\ sentUp = <<>> /\ gotUp = <<>> /\ serverStopped = FALSE

SendDown ==
    /\ ~serverStopped
    /\ \E payload \in Incoming : sentDown' = Append(sentDown, payload)
    /\ UNCHANGED <<gotDown, clientStopped, sentUp, gotUp, serverStopped>>

SendUp ==
    /\ ~clientStopped
    /\ \E payload \in Outgoing : sentUp' = Append(sentUp, payload)
    /\ UNCHANGED <<sentDown, gotDown, clientStopped, gotUp, serverStopped>>

DeliverDown ==
    /\ ~clientStopped
    /\ Len(gotDown) < Len(sentDown)
    /\ gotDown' = Append(gotDown, sentDown[Len(gotDown) + 1])
    /\ UNCHANGED <<sentDown, clientStopped, sentUp, gotUp, serverStopped>>

DeliverUp ==
    /\ ~serverStopped
    /\ Len(gotUp) < Len(sentUp)
    /\ gotUp' = Append(gotUp, sentUp[Len(gotUp) + 1])
    /\ UNCHANGED <<sentDown, gotDown, clientStopped, sentUp, serverStopped>>

StopClient ==
    /\ clientStopped' = TRUE
    /\ UNCHANGED <<sentDown, gotDown, sentUp, gotUp, serverStopped>>

StopServer ==
    /\ serverStopped' = TRUE
    /\ UNCHANGED <<sentDown, gotDown, clientStopped, sentUp, gotUp>>

Next == SendDown \/ SendUp \/ DeliverDown \/ DeliverUp \/ StopClient \/ StopServer

Spec == Init /\ [][Next]_vars /\ WF_vars(DeliverDown)
=============================================================================

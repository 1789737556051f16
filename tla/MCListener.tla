----------------------------- MODULE MCListener -----------------------------
(* Two envelopes that meet: a question that is delivered twice, a question  *)
(* and a command, a member who writes and leaves, small talk and a command, *)
(* an echo that is delivered twice, an echo and what is ignored.            *)
EXTENDS Listener

CONSTANTS m1, m2

Deliveries == {<<m1, 1>>, <<m1, 2>>, <<m2, 1>>}
Twice(of) == [envelope \in Deliveries |-> IF Message(envelope) = m1 THEN of ELSE "nothing"]
Pair(first, second) ==
    [envelope \in Deliveries |->
        IF envelope = <<m1, 1>> THEN first ELSE IF envelope = <<m2, 1>> THEN second ELSE "nothing"]

MCScenarios == {Twice("ask"), Pair("ask", "groupCommand"), Pair("groupAsk", "groupLeave"),
                Pair("groupChat", "approve"), Twice("echo"), Pair("echo", "ignored")}
Questions == {Twice("ask")}
TwoAtOnce == {Pair("groupLeave", "groupChat"), Pair("approve", "approve")}
=============================================================================

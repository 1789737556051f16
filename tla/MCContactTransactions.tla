------------------------ MODULE MCContactTransactions ------------------------
(***************************************************************************)
(* Two devices of one group, linked or not, two contacts, and tasks that   *)
(* touch one contact or both.                                              *)
(***************************************************************************)
EXTENDS ContactTransactions

CONSTANTS d1, d2, a, b, v1, v2

Contact(identity, value) == [identity |-> identity, value |-> value]

\* The group knows no contact, one of them, or both.
MCGroups ==
    {[i \in Identities |-> IF i \in known THEN v1 ELSE Absent] : known \in {{}, {a}, {a, b}}}

MCLinks == {{d1, d2}, {}}

MCBatches == {<<Contact(a, v1)>>, <<Contact(b, v2), Contact(a, v2)>>}
=============================================================================

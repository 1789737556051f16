--------------------- MODULE ContactTransactionsProofs ---------------------
(***************************************************************************)
(* Proofs about ContactTransactions: its variables keep their shape, a     *)
(* transaction protects what it was begun for, and the devices of a group  *)
(* agree on their contacts.                                                *)
(*                                                                         *)
(* A device's phase says how far its request for the transaction has come: *)
(* it is in the outbox, or answered in the inbox, and which reflected      *)
(* messages may stand before or behind the answer.  From the phases follow *)
(* where reflected messages can be at all, and so what a device's contacts *)
(* will be once it has applied everything it was sent.                     *)
(***************************************************************************)
EXTENDS ContactTransactions, FiniteSetTheorems, WellFoundedInduction, TLAPS

-----------------------------------------------------------------------------
(* The inductive invariant                                                 *)

\* The answers that a task waits for
Responses == {"BeginTransactionAck", "TransactionRejected", "CommitTransactionAck"}

NoResponse(in) == \A k \in 1 .. Len(in) : in[k].type \notin Responses

NoReflect(in) == \A k \in 1 .. Len(in) : in[k].type # "Reflect"

\* The only response is at position k.
OnlyResponse(in, k, type) ==
    /\ in[k].type = type
    /\ \A l \in 1 .. Len(in) : l # k => in[l].type \notin Responses

\* Reflected messages and the commit behind them
Committing(out) ==
    /\ out # <<>>
    /\ out[Len(out)].type = "CommitTransaction"
    /\ \A k \in 1 .. Len(out) - 1 : out[k].type = "Reflect"

Asks(out) == Len(out) = 1 /\ out[1].type = "BeginTransaction"

\* A device that waits for the answer to BeginTransaction: it is asking, was
\* rejected, or holds the transaction.  In the last case nothing more is reflected
\* to it.
Begins(out, in, holds) ==
    \/ Asks(out) /\ NoResponse(in) /\ ~holds
    \/ /\ out = <<>> /\ ~holds
       /\ \E k \in 1 .. Len(in) : OnlyResponse(in, k, "TransactionRejected")
    \/ /\ out = <<>> /\ holds
       /\ \E k \in 1 .. Len(in) :
             /\ OnlyResponse(in, k, "BeginTransactionAck")
             /\ \A l \in k .. Len(in) : in[l].type # "Reflect"

\* A device that waits for the end of its transaction: it holds it and has
\* applied all that was reflected to it, until the commit is acknowledged.
Commits(out, in, holds) ==
    \/ Committing(out) /\ NoResponse(in) /\ NoReflect(in) /\ holds
    \/ /\ out = <<>> /\ ~holds
       /\ \E k \in 1 .. Len(in) :
             /\ OnlyResponse(in, k, "CommitTransactionAck")
             /\ \A l \in 1 .. k : in[l].type # "Reflect"

\* How far a device's request has come, given the state of its task
Phase(state, out, in, holds) ==
    /\ state \in {"Done", "InitOrTransactionRejected"} =>
          out = <<>> /\ NoResponse(in) /\ ~holds
    /\ state = "BeginTransaction" => Begins(out, in, holds)
    /\ state \in {"AbortTransaction", "ReflectAndCommit"} => Commits(out, in, holds)
    /\ state = "Error" => out = <<>> \/ Asks(out) \/ (Committing(out) /\ holds)

PhaseOf(d) ==
    IF d \in Linked
    THEN Phase(task[d].state, outbox[d], inbox[d], holder = d)
    ELSE /\ task[d].state \in {"Done", "Error"}
         /\ outbox[d] = <<>> /\ inbox[d] = <<>> /\ holder # d

PhasesFit == \A d \in Devices : PhaseOf(d)

\* The last write of a contact among the first n messages, or what was stored
\* before them, is one of V.
Writes(message, identity) == message.type = "Reflect" /\ message.identity = identity

EndsIn(in, n, identity, stored, V) ==
    /\ (\A k \in 1 .. n : ~Writes(in[k], identity)) => stored \in V
    /\ \A k \in 1 .. n :
          (Writes(in[k], identity) /\ \A l \in k + 1 .. n : ~Writes(in[l], identity))
              => in[k].value \in V

\* Each update in an inbox finds its contact once the messages before it are applied.
UpdatesFit(in, store) ==
    \A k \in 1 .. Len(in) :
        (in[k].type = "Reflect" /\ in[k].action = "Update")
            => EndsIn(in, k - 1, in[k].identity, store[in[k].identity], Values)

\* The linked devices end with the same contacts, whatever their values: those of
\* known.  What is reflected is about contacts that they know.
Present(known, identity) == IF identity \in known THEN Values ELSE {Absent}

Knows(known, in, store) ==
    \A i \in Identities : EndsIn(in, Len(in), i, store[i], Present(known, i))

SendsKnown(known, out) ==
    \A k \in 1 .. Len(out) :
        out[k].type = "Reflect" => out[k].identity \in known /\ out[k].value \in Values

BatchKnown(t, store) ==
    t.state = "ReflectAndCommit" =>
        \A k \in 1 .. Len(t.batch) : store[t.batch[k].identity] # Absent

ReflectedFits ==
    /\ \E known \in SUBSET Identities : \A d \in Linked :
          Knows(known, inbox[d], contacts[d]) /\ SendsKnown(known, outbox[d])
    /\ \A d \in Linked :
          UpdatesFit(inbox[d], contacts[d]) /\ BatchKnown(task[d], contacts[d])

\* What a committing device has not sent yet is the end of its batch.
Remaining(batch, out) ==
    /\ Len(out) <= Len(batch) + 1
    /\ \A k \in 1 .. Len(out) - 1 :
          LET contact == batch[Len(batch) + 1 - Len(out) + k]
          IN  out[k].identity = contact.identity /\ out[k].value = contact.value

\* Unless a transaction broke off the linked devices end with the same values: a
\* device that commits counts with its batch stored, and the contacts it is about
\* to reflect do not count.
StoredAs(t, store, identity) ==
    IF t.state = "ReflectAndCommit" /\ Holds(t.batch, identity)
    THEN ValueIn(t.batch, identity)
    ELSE store[identity]

AgreesOn(group, in, store, t, out) ==
    \A i \in Identities :
        \/ \E k \in 1 .. Len(out) : Writes(out[k], i)
        \/ EndsIn(in, Len(in), i, StoredAs(t, store, i), {group[i]})

InOrder(t, out) ==
    IF t.state = "ReflectAndCommit"
    THEN out # <<>> => Remaining(t.batch, out)
    ELSE NoReflect(out)

Agreement ==
    ~torn =>
        /\ \E group \in [Identities -> Values \cup {Absent}] : \A d \in Linked :
              AgreesOn(group, inbox[d], contacts[d], task[d], outbox[d])
        /\ \A d \in Linked : InOrder(task[d], outbox[d])

TransactionInv == TypeOK /\ PhasesFit /\ ReflectedFits /\ Agreement

-----------------------------------------------------------------------------
(* What a sequence holds at some of its positions                          *)

\* Every non-empty set of numbers has a least element: the strict subsets of finite
\* sets are well-founded, and a number is one with the set of those up to it.
LEMMA Least ==
    ASSUME NEW N \in SUBSET Nat, N # {}
    PROVE  \E m \in N : \A n \in N : m <= n
<1> DEFINE T == {0 .. n : n \in N}
<1>1. IsWellFoundedOn(StrictSubsetOrdering(Nat), FiniteSubsetsOf(Nat))
  BY FS_StrictSubsetOrderingWellFounded
<1>2. T \subseteq FiniteSubsetsOf(Nat)
  <2>1. \A n \in N : IsFiniteSet(0 .. n) /\ 0 .. n \in SUBSET Nat
    BY FS_Interval
  <2>2. QED
    BY <2>1 DEF FiniteSubsetsOf
<1>3. T # {}
  OBVIOUS
<1> HIDE DEF T
<1>4. PICK x \in T : \A y \in T : ~(<<y, x>> \in StrictSubsetOrdering(Nat))
  BY <1>1, <1>2, <1>3, WFMin
<1>5. PICK m \in N : x = 0 .. m
  BY DEF T
<1>6. ASSUME NEW n \in N, n < m
      PROVE  FALSE
  <2>1. 0 .. n \in T
    BY DEF T
  <2>2. 0 .. n \subseteq 0 .. m /\ m \notin 0 .. n /\ m \in 0 .. m
    BY <1>6
  <2>3. <<0 .. n, 0 .. m>> \in StrictSubsetOrdering(Nat)
    BY <2>2 DEF StrictSubsetOrdering
  <2>4. QED
    BY <1>4, <1>5, <2>1, <2>3
<1>7. QED
  BY <1>6

\* Induction: a set that holds 0 and with a number below n the next one holds all
\* numbers up to n.
LEMMA UpTo ==
    ASSUME NEW n \in Nat, NEW S,
           0 \in S,
           \A i \in 0 .. n - 1 : i \in S => i + 1 \in S
    PROVE  0 .. n \subseteq S
<1> SUFFICES ASSUME NEW bad \in 0 .. n, bad \notin S
             PROVE  FALSE
  OBVIOUS
<1> DEFINE N == {i \in 0 .. n : i \notin S}
<1>1. N \in SUBSET Nat /\ N # {}
  OBVIOUS
<1> HIDE DEF N
<1>2. PICK m \in N : \A k \in N : m <= k
  BY <1>1, Least
<1>3. m \in 0 .. n /\ m \notin S /\ m # 0
  BY <1>2 DEF N
<1>4. m - 1 \in S
  BY <1>2, <1>3 DEF N
<1>5. QED
  BY <1>3, <1>4

\* The definition of Kept has a solution.
KeptTo(s, positions, n, kept) ==
    kept = [k \in 0 .. n |->
               IF k = 0 THEN <<>>
               ELSE IF k \in positions THEN Append(kept[k - 1], s[k]) ELSE kept[k - 1]]

\* The recursion behind Kept has a solution, up to any position.
LEMMA KeptIsDefined ==
    ASSUME NEW s, Len(s) \in Nat, NEW positions
    PROVE  \E kept : KeptTo(s, positions, Len(s), kept) /\ Kept(s, positions) = kept[Len(s)]
<1> DEFINE S == {n \in 0 .. Len(s) : \E kept : KeptTo(s, positions, n, kept)}
<1>1. 0 \in S
  <2>1. KeptTo(s, positions, 0, [k \in 0 .. 0 |-> <<>>])
    BY DEF KeptTo
  <2>2. QED
    BY <2>1
<1>2. ASSUME NEW n \in 0 .. Len(s) - 1, n \in S
      PROVE  n + 1 \in S
  <2>1. PICK kept : KeptTo(s, positions, n, kept)
    BY <1>2
  <2> DEFINE next == IF n + 1 \in positions THEN Append(kept[n], s[n + 1]) ELSE kept[n]
             longer == [k \in 0 .. n + 1 |-> IF k <= n THEN kept[k] ELSE next]
  <2>2. \A k \in 0 .. n :
           kept[k] = IF k = 0 THEN <<>>
                     ELSE IF k \in positions THEN Append(kept[k - 1], s[k]) ELSE kept[k - 1]
    BY <2>1 DEF KeptTo
  <2>3. \A k \in 0 .. n + 1 :
           longer[k] = IF k = 0 THEN <<>>
                       ELSE IF k \in positions THEN Append(longer[k - 1], s[k])
                            ELSE longer[k - 1]
    BY <2>2
  <2>4. KeptTo(s, positions, n + 1, longer)
    BY <2>3 DEF KeptTo
  <2> HIDE DEF longer
  <2>5. QED
    BY <2>4
<1> HIDE DEF S
<1>3. Len(s) \in S
  BY <1>1, <1>2, UpTo, 0 .. Len(s) \subseteq S
<1>4. \E kept : KeptTo(s, positions, Len(s), kept)
  BY <1>3 DEF S
<1>5. KeptTo(s, positions, Len(s), CHOOSE kept : KeptTo(s, positions, Len(s), kept))
  BY <1>4
<1>6. Kept(s, positions) = (CHOOSE kept : KeptTo(s, positions, Len(s), kept))[Len(s)]
  BY DEF Kept, KeptTo
<1>7. QED
  BY <1>5, <1>6

\* The kept elements are those at the positions, in their order.  Their number only
\* reaches that of all if every position counts.
Picks(s, positions, n, part, f) ==
    /\ f \in [1 .. Len(part) -> positions \cap (1 .. n)]
    /\ \A k \in 1 .. Len(part) : part[k] = s[f[k]]
    /\ \A j, k \in 1 .. Len(part) : j < k => f[j] < f[k]
    /\ \A p \in positions \cap (1 .. n) : \E k \in 1 .. Len(part) : f[k] = p
    /\ Len(part) <= n
    /\ Len(part) = n => 1 .. n \subseteq positions

\* One more position adds its element or leaves the part alone.
LEMMA PicksOneMore ==
    ASSUME NEW E, NEW s \in Seq(E), NEW positions, NEW n \in 0 .. Len(s) - 1,
           NEW part \in Seq(E), NEW f, Picks(s, positions, n, part, f)
    PROVE  IF n + 1 \in positions
           THEN \E g : Picks(s, positions, n + 1, Append(part, s[n + 1]), g)
           ELSE Picks(s, positions, n + 1, part, f)
<1>1. CASE n + 1 \in positions
  <2> DEFINE more == Append(part, s[n + 1])
             g == [k \in 1 .. Len(part) + 1 |-> IF k <= Len(part) THEN f[k] ELSE n + 1]
  <2>1. n \in Nat /\ Len(part) \in Nat /\ Len(more) = Len(part) + 1
    <3>1. Len(s) \in Nat
      OBVIOUS
    <3>2. QED
      BY <3>1
  <2>2. /\ \A k \in 1 .. Len(part) : more[k] = part[k]
        /\ more[Len(part) + 1] = s[n + 1]
    OBVIOUS
  <2>3. /\ \A k \in 1 .. Len(part) : f[k] \in positions /\ f[k] \in 1 .. n /\ g[k] = f[k]
        /\ g[Len(part) + 1] = n + 1
    <3>1. \A k \in 1 .. Len(part) : f[k] \in positions \cap (1 .. n)
      BY DEF Picks
    <3>2. QED
      BY <3>1, <2>1
  <2>4. /\ DOMAIN g = 1 .. Len(part) + 1
        /\ g = [k \in 1 .. Len(part) + 1 |-> g[k]]
    OBVIOUS
  <2> HIDE DEF more, g
  <2>5. g \in [1 .. Len(more) -> positions \cap (1 .. n + 1)]
    <3>1. ASSUME NEW k \in 1 .. Len(part) + 1
          PROVE  g[k] \in positions /\ g[k] \in 1 .. n + 1
      <4>1. CASE k <= Len(part)
        BY <4>1, <2>1, <2>3
      <4>2. CASE k = Len(part) + 1
        BY <4>2, <1>1, <2>1, <2>3
      <4>3. QED
        BY <4>1, <4>2, <2>1
    <3>2. QED
      BY <3>1, <2>1, <2>4
  <2>6. \A k \in 1 .. Len(more) : more[k] = s[g[k]]
    BY <2>1, <2>2, <2>3 DEF Picks
  <2>7. \A j, k \in 1 .. Len(more) : j < k => g[j] < g[k]
    <3>1. ASSUME NEW j \in 1 .. Len(part), NEW k \in 1 .. Len(part) + 1, j < k
          PROVE  g[j] < g[k]
      <4>1. CASE k <= Len(part)
        <5>1. f[j] < f[k]
          BY <3>1, <4>1, <2>1 DEF Picks
        <5>2. QED
          BY <4>1, <5>1, <2>1, <2>3
      <4>2. CASE k = Len(part) + 1
        BY <4>2, <2>1, <2>3
      <4>3. QED
        BY <4>1, <4>2, <2>1
    <3>2. QED
      BY <3>1, <2>1
  <2>8. ASSUME NEW p \in positions \cap (1 .. n + 1)
        PROVE  \E k \in 1 .. Len(more) : g[k] = p
    <3>1. CASE p = n + 1
      BY <3>1, <2>1, <2>3
    <3>2. CASE p # n + 1
      <4>1. p \in positions \cap (1 .. n)
        BY <3>2, <2>1
      <4>2. PICK k \in 1 .. Len(part) : f[k] = p
        BY <4>1 DEF Picks
      <4>3. k \in 1 .. Len(more) /\ g[k] = p
        BY <4>2, <2>1, <2>3
      <4>4. QED
        BY <4>3
    <3>3. QED
      BY <3>1, <3>2
  <2>9. Len(more) <= n + 1 /\ (Len(more) = n + 1 => 1 .. n + 1 \subseteq positions)
    BY <1>1, <2>1 DEF Picks
  <2>10. Picks(s, positions, n + 1, more, g)
    BY <2>5, <2>6, <2>7, <2>8, <2>9 DEF Picks
  <2>11. QED
    BY <1>1, <2>10 DEF more
<1>2. CASE n + 1 \notin positions
  <2>1. positions \cap (1 .. n + 1) = positions \cap (1 .. n)
    BY <1>2
  <2>2. QED
    BY <1>2, <2>1 DEF Picks
<1>3. QED
  BY <1>1, <1>2

\* What is kept is a sequence of the same elements, picked from the positions.
LEMMA KeptPicks ==
    ASSUME NEW E, NEW s \in Seq(E), NEW positions
    PROVE  /\ Kept(s, positions) \in Seq(E)
           /\ \E f : Picks(s, positions, Len(s), Kept(s, positions), f)
<1>1. PICK kept : KeptTo(s, positions, Len(s), kept) /\ Kept(s, positions) = kept[Len(s)]
  BY KeptIsDefined
<1>2. \A k \in 0 .. Len(s) :
         kept[k] = IF k = 0 THEN <<>>
                   ELSE IF k \in positions THEN Append(kept[k - 1], s[k]) ELSE kept[k - 1]
  BY <1>1 DEF KeptTo
<1> DEFINE S == {n \in 0 .. Len(s) :
                    kept[n] \in Seq(E) /\ \E f : Picks(s, positions, n, kept[n], f)}
<1>3. 0 \in S
  <2>1. 0 \in 0 .. Len(s) /\ kept[0] = <<>> /\ <<>> \in Seq(E)
    <3>1. Len(s) \in Nat
      OBVIOUS
    <3>2. QED
      BY <1>2, <3>1
  <2>2. Picks(s, positions, 0, <<>>, [k \in 1 .. 0 |-> 0])
    BY DEF Picks
  <2>3. QED
    BY <2>1, <2>2
<1>4. ASSUME NEW n \in 0 .. Len(s) - 1, n \in S
      PROVE  n + 1 \in S
  <2>1. PICK f : Picks(s, positions, n, kept[n], f)
    BY <1>4
  <2>2. kept[n + 1] = IF n + 1 \in positions THEN Append(kept[n], s[n + 1]) ELSE kept[n]
    BY <1>2
  <2>3. s[n + 1] \in E /\ kept[n] \in Seq(E)
    BY <1>4
  <2>4. kept[n + 1] \in Seq(E)
    BY <2>2, <2>3
  <2>5. \E g : Picks(s, positions, n + 1, kept[n + 1], g)
    BY <2>1, <2>2, <2>3, PicksOneMore
  <2>6. QED
    BY <2>4, <2>5
<1> HIDE DEF S
<1>5. Len(s) \in S
  BY <1>3, <1>4, UpTo, 0 .. Len(s) \subseteq S
<1>6. QED
  BY <1>1, <1>5 DEF S

-----------------------------------------------------------------------------
(* What an inbox does to the contacts of its device                        *)

\* Of the first n messages the first m of a part leave out none that writes the contact.
PartFor(identity, s, n, part, m, f) ==
    /\ \A k \in 1 .. m : f[k] \in 1 .. n /\ part[k] = s[f[k]]
    /\ \A j, k \in 1 .. m : j < k => f[j] < f[k]
    /\ \A p \in 1 .. n : Writes(s[p], identity) => \E k \in 1 .. m : f[k] = p

\* A part that has all the writes of a contact, in their order, ends the same.
LEMMA EndsInPart ==
    ASSUME NEW s, NEW n \in Nat, NEW part, NEW m \in Nat, NEW f,
           NEW identity, NEW stored, NEW V,
           PartFor(identity, s, n, part, m, f),
           EndsIn(s, n, identity, stored, V)
    PROVE  EndsIn(part, m, identity, stored, V)
<1> USE DEF PartFor
<1>1. ASSUME \A k \in 1 .. m : ~Writes(part[k], identity)
      PROVE  stored \in V
  <2>1. \A p \in 1 .. n : ~Writes(s[p], identity)
    BY <1>1
  <2>2. QED
    BY <2>1 DEF EndsIn
<1>2. ASSUME NEW k \in 1 .. m, Writes(part[k], identity),
             \A l \in k + 1 .. m : ~Writes(part[l], identity)
      PROVE  part[k].value \in V
  <2>1. f[k] \in 1 .. n /\ Writes(s[f[k]], identity)
    BY <1>2
  <2>2. ASSUME NEW p \in f[k] + 1 .. n, Writes(s[p], identity)
        PROVE  FALSE
    <3>1. p \in 1 .. n /\ f[k] < p
      BY <2>1
    <3>2. PICK l \in 1 .. m : f[l] = p
      BY <2>2, <3>1
    <3>3. ~(l < k) /\ l # k
      BY <3>1, <3>2, <2>1
    <3>4. l \in k + 1 .. m
      BY <3>3
    <3>5. QED
      BY <1>2, <2>2, <3>2, <3>4
  <2>3. s[f[k]].value \in V
    BY <2>1, <2>2 DEF EndsIn
  <2>4. QED
    BY <2>3
<1>3. QED
  BY <1>1, <1>2 DEF EndsIn

\* Taking the first message applies it to what is stored.
LEMMA EndsInTail ==
    ASSUME NEW E, NEW s \in Seq(E), s # <<>>, NEW n \in 1 .. Len(s),
           NEW identity, NEW stored, NEW V,
           EndsIn(s, n, identity, stored, V)
    PROVE  EndsIn(Tail(s), n - 1, identity,
                  IF Writes(Head(s), identity) THEN Head(s).value ELSE stored, V)
<1> DEFINE rest == Tail(s)
<1>1. /\ Len(s) \in Nat /\ Head(s) = s[1] /\ Len(rest) = Len(s) - 1
      /\ \A k \in 1 .. n - 1 : rest[k] = s[k + 1] /\ k + 1 \in 1 .. n
  OBVIOUS
<1> HIDE DEF rest
<1>2. ASSUME \A k \in 1 .. n - 1 : ~Writes(rest[k], identity)
      PROVE  (IF Writes(Head(s), identity) THEN Head(s).value ELSE stored) \in V
  <2>1. \A k \in 2 .. n : k - 1 \in 1 .. n - 1 /\ k = (k - 1) + 1
    OBVIOUS
  <2>2. \A k \in 2 .. n : ~Writes(s[k], identity)
    BY <1>1, <1>2, <2>1
  <2>3. 1 \in 1 .. n /\ 1 + 1 = 2 /\ \A k \in 1 .. n : k = 1 \/ k \in 2 .. n
    OBVIOUS
  <2>4. QED
    BY <1>1, <2>2, <2>3 DEF EndsIn
<1>3. ASSUME NEW k \in 1 .. n - 1, Writes(rest[k], identity),
             \A l \in k + 1 .. n - 1 : ~Writes(rest[l], identity)
      PROVE  rest[k].value \in V
  <2>1. \A l \in (k + 1) + 1 .. n : l - 1 \in k + 1 .. n - 1 /\ l - 1 \in 1 .. n - 1
                                    /\ l = (l - 1) + 1
    OBVIOUS
  <2>2. \A l \in (k + 1) + 1 .. n : ~Writes(s[l], identity)
    BY <1>1, <1>3, <2>1
  <2>3. QED
    BY <1>1, <1>3, <2>2 DEF EndsIn
<1>4. QED
  BY <1>2, <1>3 DEF EndsIn, rest

\* What the first messages end with does not depend on those behind them.
LEMMA EndsInAppended ==
    ASSUME NEW E, NEW s \in Seq(E), NEW message \in E, NEW n \in 0 .. Len(s),
           NEW identity, NEW stored, NEW V,
           EndsIn(s, n, identity, stored, V)
    PROVE  EndsIn(Append(s, message), n, identity, stored, V)
<1>1. \A k \in 1 .. n : Append(s, message)[k] = s[k]
  <2>1. Len(s) \in Nat
    OBVIOUS
  <2>2. QED
    BY <2>1
<1>2. \A k \in 1 .. n : \A l \in k + 1 .. n : l \in 1 .. n
  OBVIOUS
<1>3. QED
  BY <1>1, <1>2 DEF EndsIn

\* A message that does not write the contact changes nothing at the end.
LEMMA EndsInOther ==
    ASSUME NEW E, NEW s \in Seq(E), NEW message \in E,
           NEW identity, NEW stored, NEW V,
           ~Writes(message, identity),
           EndsIn(s, Len(s), identity, stored, V)
    PROVE  EndsIn(Append(s, message), Len(Append(s, message)), identity, stored, V)
<1> DEFINE more == Append(s, message)
<1>1. /\ Len(s) \in Nat /\ Len(more) = Len(s) + 1 /\ more[Len(s) + 1] = message
      /\ \A k \in 1 .. Len(s) : more[k] = s[k]
  OBVIOUS
<1> HIDE DEF more
<1>2. \A k \in 1 .. Len(s) + 1 : k \in 1 .. Len(s) \/ k = Len(s) + 1
  BY <1>1
<1>3. \A k \in 1 .. Len(s) : \A l \in k + 1 .. Len(s) : l \in k + 1 .. Len(s) + 1
  BY <1>1
<1>4. ASSUME NEW k \in 1 .. Len(s), Writes(s[k], identity),
             \A l \in k + 1 .. Len(s) + 1 : ~Writes(more[l], identity)
      PROVE  s[k].value \in V
  <2>1. \A l \in k + 1 .. Len(s) : l \in 1 .. Len(s)
    BY <1>1
  <2>2. \A l \in k + 1 .. Len(s) : ~Writes(s[l], identity)
    BY <1>1, <1>3, <1>4, <2>1
  <2>3. QED
    BY <1>4, <2>2 DEF EndsIn
<1>5. QED
  BY <1>1, <1>2, <1>4 DEF EndsIn, more

\* A message that writes the contact decides the end.
LEMMA EndsInWrite ==
    ASSUME NEW E, NEW s \in Seq(E), NEW message \in E,
           NEW identity, NEW stored, NEW V,
           Writes(message, identity), message.value \in V
    PROVE  EndsIn(Append(s, message), Len(Append(s, message)), identity, stored, V)
<1> DEFINE more == Append(s, message)
<1>1. /\ Len(s) \in Nat /\ Len(more) = Len(s) + 1 /\ more[Len(s) + 1] = message
  OBVIOUS
<1> HIDE DEF more
<1>2. \A k \in 1 .. Len(s) + 1 : k # Len(s) + 1 => Len(s) + 1 \in k + 1 .. Len(s) + 1
  BY <1>1
<1>3. Len(s) + 1 \in 1 .. Len(s) + 1
  BY <1>1
<1>4. QED
  BY <1>1, <1>2, <1>3 DEF EndsIn, more

\* Nothing is written by an inbox without reflected messages.
LEMMA EndsInQuiet ==
    ASSUME NEW in, NEW n \in Nat, \A k \in 1 .. n : in[k].type # "Reflect",
           NEW identity, NEW stored, NEW V
    PROVE  EndsIn(in, n, identity, stored, V) <=> stored \in V
BY DEF EndsIn, Writes

\* What was stored only matters as far as it is one of V.
LEMMA EndsInStored ==
    ASSUME NEW in, NEW n, NEW identity, NEW stored, NEW other, NEW V,
           stored \in V => other \in V,
           EndsIn(in, n, identity, stored, V)
    PROVE  EndsIn(in, n, identity, other, V)
BY DEF EndsIn

\* A message of type Reflect has the fields of one.
LEMMA ReflectedMessage ==
    ASSUME NEW message \in Answers \cup Requests, message.type = "Reflect"
    PROVE  /\ message \in Reflected
           /\ message.identity \in Identities
           /\ message.value \in Values \cup {Absent}
BY DEF Answers, Requests, Reflected

\* What is stored once a message has been applied
After(store, message, next) ==
    \A i \in Identities :
        next[i] = IF Writes(message, i) THEN message.value ELSE store[i]

\* The updates of an inbox go on to fit when its first message is taken and applied.
LEMMA TailFits ==
    ASSUME NEW in \in Seq(Answers), in # <<>>, NEW store, NEW next,
           After(store, Head(in), next),
           UpdatesFit(in, store)
    PROVE  UpdatesFit(Tail(in), next)
<1> USE DEF After
<1> DEFINE rest == Tail(in)
<1>1. /\ Len(in) \in Nat /\ Len(rest) = Len(in) - 1
      /\ \A k \in 1 .. Len(in) - 1 :
            rest[k] = in[k + 1] /\ k + 1 \in 1 .. Len(in) /\ in[k + 1] \in Answers
  OBVIOUS
<1> HIDE DEF rest
<1>2. ASSUME NEW k \in 1 .. Len(rest), rest[k].type = "Reflect", rest[k].action = "Update"
      PROVE  EndsIn(rest, k - 1, rest[k].identity, next[rest[k].identity], Values)
  <2> DEFINE i == rest[k].identity
  <2>1. i \in Identities
    BY <1>1, <1>2, ReflectedMessage
  <2>2. EndsIn(in, (k + 1) - 1, i, store[i], Values)
    BY <1>1, <1>2 DEF UpdatesFit
  <2>3. (k + 1) - 1 = k /\ k \in 1 .. Len(in)
    BY <1>1
  <2>4. EndsIn(in, k, i, store[i], Values)
    BY <2>2, <2>3
  <2>5. EndsIn(rest, k - 1, i, IF Writes(Head(in), i) THEN Head(in).value ELSE store[i],
               Values)
    BY <2>3, <2>4, EndsInTail DEF rest
  <2>6. QED
    BY <2>1, <2>5
<1>3. QED
  BY <1>2 DEF UpdatesFit, rest

\* So they do when another message arrives, if it fits as well.
LEMMA AppendedFits ==
    ASSUME NEW in \in Seq(Answers), NEW message \in Answers, NEW store,
           UpdatesFit(in, store),
           (message.type = "Reflect" /\ message.action = "Update")
               => EndsIn(in, Len(in), message.identity, store[message.identity], Values)
    PROVE  UpdatesFit(Append(in, message), store)
<1> DEFINE more == Append(in, message)
<1>1. /\ Len(in) \in Nat /\ Len(more) = Len(in) + 1 /\ more[Len(in) + 1] = message
      /\ \A k \in 1 .. Len(in) : more[k] = in[k] /\ k - 1 \in 0 .. Len(in)
  OBVIOUS
<1> HIDE DEF more
<1>2. ASSUME NEW k \in 1 .. Len(more), more[k].type = "Reflect", more[k].action = "Update"
      PROVE  EndsIn(more, k - 1, more[k].identity, store[more[k].identity], Values)
  <2>1. CASE k \in 1 .. Len(in)
    <3>1. EndsIn(in, k - 1, in[k].identity, store[in[k].identity], Values)
      BY <1>1, <1>2, <2>1 DEF UpdatesFit
    <3>2. EndsIn(more, k - 1, in[k].identity, store[in[k].identity], Values)
      BY <1>1, <2>1, <3>1, EndsInAppended DEF more
    <3>3. QED
      BY <1>1, <2>1, <3>2
  <2>2. CASE k = Len(in) + 1
    <3>1. k - 1 = Len(in) /\ Len(in) \in 0 .. Len(in)
      BY <1>1, <2>2
    <3>2. EndsIn(in, Len(in), message.identity, store[message.identity], Values)
      BY <1>1, <1>2, <2>2
    <3>3. EndsIn(more, Len(in), message.identity, store[message.identity], Values)
      BY <3>1, <3>2, EndsInAppended DEF more
    <3>4. QED
      BY <1>1, <2>2, <3>1, <3>3
  <2>3. QED
    BY <1>1, <2>1, <2>2
<1>3. QED
  BY <1>2 DEF UpdatesFit, more

\* A change of an inbox that concerns no reflected message
ReflectsIn(in) == {k \in 1 .. Len(in) : in[k].type = "Reflect"}

Quiet(in, next) ==
    \/ next = in
    \/ \E message \in Answers : message.type # "Reflect" /\ next = Append(in, message)
    \/ in # <<>> /\ Head(in).type # "Reflect" /\ next = Tail(in)
    \/ next = Kept(in, ReflectsIn(in))

\* After a lost connection the reflected messages still end the same.
LEMMA KeptEnds ==
    ASSUME NEW in \in Seq(Answers), NEW identity, NEW stored, NEW V,
           EndsIn(in, Len(in), identity, stored, V)
    PROVE  LET part == Kept(in, ReflectsIn(in))
           IN  EndsIn(part, Len(part), identity, stored, V)
<1> DEFINE part == Kept(in, ReflectsIn(in))
<1>1. part \in Seq(Answers) /\ \E f : Picks(in, ReflectsIn(in), Len(in), part, f)
  BY KeptPicks
<1> HIDE DEF part
<1>2. PICK f : Picks(in, ReflectsIn(in), Len(in), part, f)
  BY <1>1
<1>3. Len(in) \in Nat /\ Len(part) \in Nat
  BY <1>1
<1>4. f \in [1 .. Len(part) -> 1 .. Len(in)]
  BY <1>2, <1>3 DEF Picks
<1>5. \A p \in 1 .. Len(in) : Writes(in[p], identity) => \E k \in 1 .. Len(part) : f[k] = p
  BY <1>2 DEF Picks, Writes, ReflectsIn
<1>6. /\ \A k \in 1 .. Len(part) : f[k] \in 1 .. Len(in) /\ part[k] = in[f[k]]
      /\ \A j, k \in 1 .. Len(part) : j < k => f[j] < f[k]
  BY <1>2, <1>4 DEF Picks
<1>7. PartFor(identity, in, Len(in), part, Len(part), f)
  BY <1>5, <1>6 DEF PartFor
<1>8. EndsIn(part, Len(part), identity, stored, V)
  BY <1>3, <1>7, EndsInPart
<1>9. QED
  BY <1>8 DEF part

\* After a lost connection each update still finds its contact.
LEMMA KeptFits ==
    ASSUME NEW in \in Seq(Answers), NEW store, UpdatesFit(in, store)
    PROVE  UpdatesFit(Kept(in, ReflectsIn(in)), store)
<1> DEFINE part == Kept(in, ReflectsIn(in))
<1>1. part \in Seq(Answers) /\ \E f : Picks(in, ReflectsIn(in), Len(in), part, f)
  BY KeptPicks
<1> HIDE DEF part
<1>2. PICK f : Picks(in, ReflectsIn(in), Len(in), part, f)
  BY <1>1
<1>3. Len(in) \in Nat /\ Len(part) \in Nat
  BY <1>1
<1>4. /\ f \in [1 .. Len(part) -> 1 .. Len(in)]
      /\ \A k \in 1 .. Len(part) : part[k] = in[f[k]]
      /\ \A j, k \in 1 .. Len(part) : j < k => f[j] < f[k]
      /\ \A p \in ReflectsIn(in) \cap (1 .. Len(in)) : \E k \in 1 .. Len(part) : f[k] = p
  BY <1>2, <1>3 DEF Picks
<1>5. ASSUME NEW k \in 1 .. Len(part), part[k].type = "Reflect", part[k].action = "Update"
      PROVE  EndsIn(part, k - 1, part[k].identity, store[part[k].identity], Values)
  <2> DEFINE i == part[k].identity
             n == f[k] - 1
             m == k - 1
  <2>1. /\ f[k] \in 1 .. Len(in) /\ n \in Nat /\ m \in Nat
        /\ \A j \in 1 .. m : j \in 1 .. Len(part) /\ j < k
    BY <1>3, <1>4
  <2>2. EndsIn(in, n, i, store[i], Values)
    BY <1>4, <1>5, <2>1 DEF UpdatesFit
  <2>3. ASSUME NEW j \in 1 .. m
        PROVE  f[j] \in 1 .. n /\ part[j] = in[f[j]]
    <3>1. j \in 1 .. Len(part) /\ f[j] \in 1 .. Len(in) /\ f[j] < f[k] /\ part[j] = in[f[j]]
      BY <1>4, <2>1
    <3>2. QED
      BY <2>1, <3>1
  <2>4. \A j, l \in 1 .. m : j < l => f[j] < f[l]
    BY <1>4, <2>1
  <2>5. ASSUME NEW p \in 1 .. n, Writes(in[p], i)
        PROVE  \E j \in 1 .. m : f[j] = p
    <3>1. p \in ReflectsIn(in) \cap (1 .. Len(in)) /\ p < f[k]
      BY <2>1, <2>5 DEF Writes, ReflectsIn
    <3>2. PICK j \in 1 .. Len(part) : f[j] = p
      BY <1>4, <3>1
    <3>3. j # k /\ ~(k < j)
      BY <1>4, <3>1, <3>2, <2>1
    <3>4. j \in 1 .. m
      BY <3>3, <1>3
    <3>5. QED
      BY <3>2, <3>4
  <2>6. PartFor(i, in, n, part, m, f)
    BY <2>3, <2>4, <2>5 DEF PartFor
  <2> HIDE DEF n, m, i
  <2>7. EndsIn(part, m, i, store[i], Values)
    BY <2>1, <2>2, <2>6, EndsInPart
  <2>8. QED
    BY <2>7 DEF m, i
<1>6. QED
  BY <1>5 DEF UpdatesFit, part

\* A quiet change of an inbox does not change what it ends with.
LEMMA QuietEnds ==
    ASSUME NEW in \in Seq(Answers), NEW next, Quiet(in, next),
           NEW identity, NEW stored, NEW V,
           EndsIn(in, Len(in), identity, stored, V)
    PROVE  EndsIn(next, Len(next), identity, stored, V)
<1>1. CASE next = in
  BY <1>1
<1>2. ASSUME NEW message \in Answers, message.type # "Reflect", next = Append(in, message)
      PROVE  EndsIn(next, Len(next), identity, stored, V)
  BY <1>2, EndsInOther DEF Writes
<1>3. CASE in # <<>> /\ Head(in).type # "Reflect" /\ next = Tail(in)
  <2>1. Len(in) \in 1 .. Len(in) /\ Len(next) = Len(in) - 1
    BY <1>3
  <2>2. ~Writes(Head(in), identity)
    BY <1>3 DEF Writes
  <2>3. EndsIn(next, Len(in) - 1, identity, stored, V)
    BY <1>3, <2>1, <2>2, EndsInTail
  <2>4. QED
    BY <2>1, <2>3
<1>4. CASE next = Kept(in, ReflectsIn(in))
  BY <1>4, KeptEnds
<1>5. QED
  BY <1>1, <1>2, <1>3, <1>4 DEF Quiet

\* A quiet change of an inbox leaves each update its contact.
LEMMA QuietFits ==
    ASSUME NEW in \in Seq(Answers), NEW next, Quiet(in, next),
           NEW store, UpdatesFit(in, store)
    PROVE  UpdatesFit(next, store)
<1>1. CASE next = in
  BY <1>1
<1>2. ASSUME NEW message \in Answers, message.type # "Reflect", next = Append(in, message)
      PROVE  UpdatesFit(next, store)
  BY <1>2, AppendedFits
<1>3. CASE in # <<>> /\ Head(in).type # "Reflect" /\ next = Tail(in)
  BY <1>3, TailFits DEF Writes, After
<1>4. CASE next = Kept(in, ReflectsIn(in))
  BY <1>4, KeptFits
<1>5. QED
  BY <1>1, <1>2, <1>3, <1>4 DEF Quiet

-----------------------------------------------------------------------------
(* Phases                                                                  *)

\* The elements of a sequence with one more at its end
LEMMA Appended ==
    ASSUME NEW E, NEW s \in Seq(E), NEW message \in E
    PROVE  /\ Append(s, message) \in Seq(E)
           /\ Len(s) \in Nat
           /\ Len(Append(s, message)) = Len(s) + 1
           /\ Append(s, message)[Len(s) + 1] = message
           /\ \A k \in 1 .. Len(s) : Append(s, message)[k] = s[k]
           /\ \A k \in 1 .. Len(s) + 1 : k \in 1 .. Len(s) \/ k = Len(s) + 1
<1>1. Len(s) \in Nat
  OBVIOUS
<1>2. QED
  BY <1>1

\* The elements of a sequence without its first
LEMMA Taken ==
    ASSUME NEW E, NEW s \in Seq(E), s # <<>>
    PROVE  /\ Tail(s) \in Seq(E)
           /\ Len(s) \in Nat \ {0}
           /\ Head(s) = s[1] /\ Head(s) \in E
           /\ Len(Tail(s)) = Len(s) - 1
           /\ \A k \in 1 .. Len(s) - 1 : Tail(s)[k] = s[k + 1]
           /\ \A k \in 1 .. Len(s) - 1 : k + 1 \in 1 .. Len(s)
           /\ \A k \in 1 .. Len(s) : k = 1 \/ k - 1 \in 1 .. Len(s) - 1
<1>1. Len(s) \in Nat
  OBVIOUS
<1>2. QED
  BY <1>1

\* An answer comes to an inbox without one.
LEMMA Responds ==
    ASSUME NEW in \in Seq(Answers), NEW message \in Answers, NoResponse(in)
    PROVE  LET more == Append(in, message)
           IN  /\ message.type \notin Responses => NoResponse(more)
               /\ OnlyResponse(more, Len(more), message.type)
               /\ NoReflect(in) /\ message.type # "Reflect" => NoReflect(more)
BY Appended DEF NoResponse, NoReflect, OnlyResponse

\* A message that is no answer leaves the phase alone, at either end of the inbox;
\* a reflected one comes only to a device that does not hold the transaction.
LEMMA PhaseAppended ==
    ASSUME NEW in \in Seq(Answers), NEW message \in Answers,
           message.type \notin Responses,
           NEW state, NEW out, NEW holds \in BOOLEAN,
           message.type = "Reflect" => ~holds,
           Phase(state, out, in, holds)
    PROVE  Phase(state, out, Append(in, message), holds)
<1> DEFINE more == Append(in, message)
<1>1. /\ Len(in) \in Nat /\ Len(more) = Len(in) + 1 /\ more[Len(in) + 1] = message
      /\ \A k \in 1 .. Len(in) : more[k] = in[k]
      /\ \A k \in 1 .. Len(in) + 1 : k \in 1 .. Len(in) \/ k = Len(in) + 1
  BY Appended
<1> HIDE DEF more
<1>2. NoResponse(in) => NoResponse(more)
  BY <1>1 DEF NoResponse
<1>3. NoReflect(in) /\ message.type # "Reflect" => NoReflect(more)
  BY <1>1 DEF NoReflect
<1>4. ASSUME NEW k \in 1 .. Len(in), NEW type \in Responses, OnlyResponse(in, k, type)
      PROVE  /\ k \in 1 .. Len(more) /\ OnlyResponse(more, k, type)
             /\ (\A l \in 1 .. k : in[l].type # "Reflect")
                   => \A l \in 1 .. k : more[l].type # "Reflect"
             /\ (\A l \in k .. Len(in) : in[l].type # "Reflect") /\ message.type # "Reflect"
                   => \A l \in k .. Len(more) : more[l].type # "Reflect"
  <2>1. k \in 1 .. Len(more) /\ OnlyResponse(more, k, type)
    BY <1>1, <1>4 DEF OnlyResponse
  <2>2. \A l \in 1 .. k : l \in 1 .. Len(in)
    BY <1>1
  <2>3. \A l \in k .. Len(more) : l \in 1 .. Len(more) /\ (l # Len(in) + 1 => l \in k .. Len(in))
    BY <1>1
  <2>4. QED
    BY <1>1, <2>1, <2>2, <2>3
<1>5. Begins(out, in, holds) => Begins(out, more, holds)
  BY <1>2, <1>4 DEF Begins, Responses
<1>6. Commits(out, in, holds) => Commits(out, more, holds)
  BY <1>2, <1>3, <1>4 DEF Commits, Responses
<1>7. QED
  BY <1>2, <1>5, <1>6 DEF Phase, more

\* Taking a message that is no response does not change the phase.
LEMMA PhaseTaken ==
    ASSUME NEW in \in Seq(Answers), in # <<>>, Head(in).type \notin Responses,
           NEW state, NEW out, NEW holds \in BOOLEAN,
           Phase(state, out, in, holds)
    PROVE  Phase(state, out, Tail(in), holds)
<1> DEFINE rest == Tail(in)
<1>1. /\ Len(in) \in Nat \ {0} /\ Head(in) = in[1] /\ Len(rest) = Len(in) - 1
      /\ \A k \in 1 .. Len(in) - 1 : rest[k] = in[k + 1]
      /\ \A k \in 1 .. Len(in) - 1 : k + 1 \in 1 .. Len(in)
      /\ \A k \in 1 .. Len(in) : k = 1 \/ k - 1 \in 1 .. Len(in) - 1
  BY Taken
<1> HIDE DEF rest
<1>2. NoResponse(in) => NoResponse(rest)
  BY <1>1 DEF NoResponse
<1>3. NoReflect(in) => NoReflect(rest)
  BY <1>1 DEF NoReflect
<1>4. ASSUME NEW k \in 1 .. Len(in), NEW type \in Responses, OnlyResponse(in, k, type)
      PROVE  \E m \in 1 .. Len(rest) :
                /\ OnlyResponse(rest, m, type)
                /\ (\A l \in 1 .. k : in[l].type # "Reflect")
                      => \A l \in 1 .. m : rest[l].type # "Reflect"
                /\ (\A l \in k .. Len(in) : in[l].type # "Reflect")
                      => \A l \in m .. Len(rest) : rest[l].type # "Reflect"
  <2>1. k # 1
    BY <1>1, <1>4 DEF OnlyResponse
  <2>2. k - 1 \in 1 .. Len(rest) /\ rest[k - 1] = in[k] /\ (k - 1) + 1 = k
    BY <1>1, <2>1
  <2>3. OnlyResponse(rest, k - 1, type)
    BY <1>1, <1>4, <2>2 DEF OnlyResponse
  <2>4. \A l \in 1 .. k - 1 : l \in 1 .. Len(rest) /\ l + 1 \in 1 .. k
    BY <1>1
  <2>5. \A l \in k - 1 .. Len(rest) : l \in 1 .. Len(rest) /\ l + 1 \in k .. Len(in)
    BY <1>1, <2>2
  <2>6. QED
    BY <1>1, <2>2, <2>3, <2>4, <2>5
<1>5. Begins(out, in, holds) => Begins(out, rest, holds)
  BY <1>2, <1>4 DEF Begins, Responses
<1>6. Commits(out, in, holds) => Commits(out, rest, holds)
  BY <1>2, <1>3, <1>4 DEF Commits, Responses
<1>7. QED
  BY <1>2, <1>5, <1>6 DEF Phase, rest

\* Among the messages that wait for a lost device there is no response.
LEMMA KeptResponds ==
    ASSUME NEW in \in Seq(Answers)
    PROVE  NoResponse(Kept(in, ReflectsIn(in))) /\ Kept(in, ReflectsIn(in)) \in Seq(Answers)
<1> DEFINE part == Kept(in, ReflectsIn(in))
<1>1. part \in Seq(Answers) /\ \E f : Picks(in, ReflectsIn(in), Len(in), part, f)
  BY KeptPicks
<1> HIDE DEF part
<1>2. PICK f : Picks(in, ReflectsIn(in), Len(in), part, f)
  BY <1>1
<1>3. \A k \in 1 .. Len(part) : f[k] \in ReflectsIn(in) /\ part[k] = in[f[k]]
  BY <1>2 DEF Picks
<1>4. NoResponse(part)
  BY <1>3 DEF NoResponse, ReflectsIn, Responses
<1>5. QED
  BY <1>1, <1>4 DEF part

States == {"InitOrTransactionRejected", "BeginTransaction", "AbortTransaction",
           "ReflectAndCommit", "Done", "Error"}

\* What stands in an outbox, and that it asks or holds the transaction
LEMMA OutboxInPhase ==
    ASSUME NEW state \in States, NEW out, out # <<>>, NEW in, NEW holds,
           Phase(state, out, in, holds)
    PROVE  /\ \/ Asks(out) /\ state \in {"BeginTransaction", "Error"}
              \/ /\ Committing(out) /\ holds
                 /\ state \in {"AbortTransaction", "ReflectAndCommit", "Error"}
           /\ state # "Error" => NoResponse(in)
           /\ state = "BeginTransaction" => ~holds
           /\ state \in {"AbortTransaction", "ReflectAndCommit"} => NoReflect(in)
BY DEF Phase, Begins, Commits, States

\* The response to BeginTransaction is taken: no other is on its way.
LEMMA BeginTaken ==
    ASSUME NEW in \in Seq(Answers), in # <<>>, NEW out, NEW holds,
           Begins(out, in, holds), Head(in).type \in Responses
    PROVE  /\ out = <<>> /\ NoResponse(Tail(in))
           /\ Head(in).type = "BeginTransactionAck" =>
                 holds /\ NoReflect(in) /\ NoReflect(Tail(in))
           /\ Head(in).type = "TransactionRejected" => ~holds
<1> DEFINE rest == Tail(in)
<1>1. /\ Len(in) \in Nat \ {0} /\ Head(in) = in[1] /\ Len(rest) = Len(in) - 1
      /\ \A k \in 1 .. Len(in) - 1 : rest[k] = in[k + 1]
      /\ \A k \in 1 .. Len(in) - 1 : k + 1 \in 1 .. Len(in)
  BY Taken
<1> HIDE DEF rest
<1>2. 1 \in 1 .. Len(in)
  BY <1>1
<1>3. ~NoResponse(in)
  BY <1>1, <1>2 DEF NoResponse
<1>4. ASSUME NEW k \in 1 .. Len(in), NEW type, OnlyResponse(in, k, type)
      PROVE  k = 1 /\ Head(in).type = type /\ NoResponse(rest)
  <2>1. k = 1
    BY <1>1, <1>2, <1>4 DEF OnlyResponse
  <2>2. \A l \in 1 .. Len(rest) : l + 1 # 1
    BY <1>1
  <2>3. QED
    BY <1>1, <1>4, <2>1, <2>2 DEF OnlyResponse, NoResponse
<1>5. CASE /\ out = <<>> /\ ~holds
           /\ \E k \in 1 .. Len(in) : OnlyResponse(in, k, "TransactionRejected")
  BY <1>4, <1>5 DEF rest
<1>6. CASE /\ out = <<>> /\ holds
           /\ \E k \in 1 .. Len(in) :
                 /\ OnlyResponse(in, k, "BeginTransactionAck")
                 /\ \A l \in k .. Len(in) : in[l].type # "Reflect"
  <2>1. NoReflect(in)
    BY <1>4, <1>6 DEF NoReflect
  <2>2. NoReflect(rest)
    BY <1>1, <2>1 DEF NoReflect
  <2>3. QED
    BY <1>4, <1>6, <2>1, <2>2 DEF rest
<1>7. QED
  BY <1>3, <1>5, <1>6 DEF Begins

\* The response to CommitTransaction is taken: no other is on its way, and the
\* transaction has ended.
LEMMA CommitTaken ==
    ASSUME NEW in \in Seq(Answers), in # <<>>, NEW out, NEW holds,
           Commits(out, in, holds), Head(in).type \in Responses
    PROVE  out = <<>> /\ NoResponse(Tail(in)) /\ ~holds
<1> DEFINE rest == Tail(in)
<1>1. /\ Len(in) \in Nat \ {0} /\ Head(in) = in[1] /\ Len(rest) = Len(in) - 1
      /\ \A k \in 1 .. Len(in) - 1 : rest[k] = in[k + 1]
      /\ \A k \in 1 .. Len(in) - 1 : k + 1 \in 1 .. Len(in)
  BY Taken
<1> HIDE DEF rest
<1>2. 1 \in 1 .. Len(in)
  BY <1>1
<1>3. ~NoResponse(in)
  BY <1>1, <1>2 DEF NoResponse
<1>4. ASSUME NEW k \in 1 .. Len(in), NEW type, OnlyResponse(in, k, type)
      PROVE  NoResponse(rest)
  <2>1. k = 1
    BY <1>1, <1>2, <1>4 DEF OnlyResponse
  <2>2. \A l \in 1 .. Len(rest) : l + 1 # 1
    BY <1>1
  <2>3. QED
    BY <1>1, <1>4, <2>1, <2>2 DEF OnlyResponse, NoResponse
<1>5. QED
  BY <1>3, <1>4 DEF Commits, rest

\* The mediator takes a message from an outbox.
LEMMA OutboxTaken ==
    ASSUME NEW out \in Seq(Requests), out # <<>>
    PROVE  /\ Asks(out) => Head(out).type = "BeginTransaction" /\ Tail(out) = <<>>
           /\ Committing(out) => \/ /\ Head(out).type = "Reflect"
                                    /\ Committing(Tail(out))
                                 \/ /\ Head(out).type = "CommitTransaction"
                                    /\ Len(out) = 1 /\ Tail(out) = <<>>
           /\ Head(out).type # "Reflect" /\ (Asks(out) \/ Committing(out)) => NoReflect(out)
<1> DEFINE rest == Tail(out)
<1>1. /\ Len(out) \in Nat \ {0} /\ Head(out) = out[1] /\ Len(rest) = Len(out) - 1
      /\ rest \in Seq(Requests)
      /\ \A k \in 1 .. Len(out) - 1 : rest[k] = out[k + 1]
      /\ \A k \in 1 .. Len(out) - 1 : k + 1 \in 1 .. Len(out)
  BY Taken
<1>2. rest = <<>> <=> Len(out) = 1
  BY <1>1
<1> HIDE DEF rest
<1>3. ASSUME Committing(out), Len(out) > 1
      PROVE  Head(out).type = "Reflect" /\ Committing(rest)
  <2>1. Head(out).type = "Reflect"
    BY <1>1, <1>3 DEF Committing
  <2>2. rest[Len(rest)] = out[Len(out)] /\ rest # <<>>
    BY <1>1, <1>2, <1>3
  <2>3. \A k \in 1 .. Len(rest) - 1 :
           k + 1 \in 1 .. Len(out) - 1 /\ k \in 1 .. Len(out) - 1
    BY <1>1
  <2>4. \A k \in 1 .. Len(rest) - 1 : rest[k].type = "Reflect"
    BY <1>1, <1>3, <2>3 DEF Committing
  <2>5. QED
    BY <1>3, <2>1, <2>2, <2>4 DEF Committing
<1>4. ASSUME Committing(out), Len(out) = 1
      PROVE  Head(out).type = "CommitTransaction" /\ rest = <<>> /\ NoReflect(out)
  BY <1>1, <1>2, <1>4 DEF Committing, NoReflect
<1>5. ASSUME Asks(out)
      PROVE  Head(out).type = "BeginTransaction" /\ rest = <<>> /\ NoReflect(out)
  BY <1>1, <1>2, <1>5 DEF Asks, NoReflect
<1>6. Len(out) = 1 \/ Len(out) > 1
  BY <1>1
<1>7. QED
  BY <1>3, <1>4, <1>5, <1>6 DEF rest

-----------------------------------------------------------------------------
(* Steps that reflect and store nothing                                    *)

\* A task goes on, or one that is not reflecting does; its outbox keeps what it was
\* about to reflect.
Still(t, out, next, sends, broken) ==
    \/ /\ next.state = t.state /\ next.batch = t.batch
       /\ sends = out \/ (NoReflect(out) /\ sends = <<>>)
    \/ /\ next.state # "ReflectAndCommit" /\ (t.state # "ReflectAndCommit" \/ broken)
       /\ sends = out \/ NoReflect(sends)

\* What such a change preserves of the batch and the outbox
LEMMA StillKeeps ==
    ASSUME NEW t, NEW out, NEW next, NEW sends, NEW broken,
           Still(t, out, next, sends, broken)
    PROVE  /\ \A known : SendsKnown(known, out) => SendsKnown(known, sends)
           /\ \A store : BatchKnown(t, store) => BatchKnown(next, store)
           /\ ~broken /\ InOrder(t, out) => InOrder(next, sends)
<1>1. NoReflect(<<>>) /\ \A known : SendsKnown(known, <<>>)
  BY DEF NoReflect, SendsKnown
<1>2. \A known : NoReflect(sends) => SendsKnown(known, sends)
  BY DEF NoReflect, SendsKnown
<1>3. \A known : SendsKnown(known, out) => SendsKnown(known, sends)
  BY <1>1, <1>2 DEF Still
<1>4. \A store : BatchKnown(t, store) => BatchKnown(next, store)
  BY DEF Still, BatchKnown
<1>5. ~broken /\ InOrder(t, out) => InOrder(next, sends)
  BY <1>1 DEF Still, InOrder
<1>6. QED
  BY <1>3, <1>4, <1>5

\* Such a change leaves a device in agreement.
LEMMA StillAgrees ==
    ASSUME NEW t, NEW out, NEW next, NEW sends, NEW broken, ~broken,
           Still(t, out, next, sends, broken), InOrder(t, out),
           NEW in \in Seq(Answers), NEW more, Quiet(in, more),
           NEW store, NEW group, AgreesOn(group, in, store, t, out)
    PROVE  AgreesOn(group, more, store, next, sends)
<1> SUFFICES ASSUME NEW i \in Identities, ~ \E k \in 1 .. Len(sends) : Writes(sends[k], i)
             PROVE  EndsIn(more, Len(more), i, StoredAs(next, store, i), {group[i]})
  BY DEF AgreesOn
<1>1. StoredAs(next, store, i) = StoredAs(t, store, i)
  BY DEF Still, StoredAs
<1>2. ~ \E k \in 1 .. Len(out) : Writes(out[k], i)
  BY DEF Still, InOrder, NoReflect, Writes
<1>3. EndsIn(in, Len(in), i, StoredAs(t, store, i), {group[i]})
  BY <1>2 DEF AgreesOn
<1>4. QED
  BY <1>1, <1>3, QuietEnds

\* A step that only changes devices in this way keeps them in agreement.
LEMMA StillStep ==
    ASSUME TransactionInv, Linked' = Linked, torn => torn',
           \A d \in Linked :
               /\ contacts'[d] = contacts[d]
               /\ Quiet(inbox[d], inbox'[d])
               /\ Still(task[d], outbox[d], task'[d], outbox'[d], torn')
    PROVE  ReflectedFits' /\ Agreement'
<1> USE DEF TransactionInv
<1>1. \A d \in Linked : d \in Devices /\ inbox[d] \in Seq(Answers)
  BY DEF TypeOK, Linked
<1>2. PICK known \in SUBSET Identities : \A d \in Linked :
         Knows(known, inbox[d], contacts[d]) /\ SendsKnown(known, outbox[d])
  BY DEF ReflectedFits
<1>3. \A d \in Linked : Knows(known, inbox'[d], contacts[d])
  BY <1>1, <1>2, QuietEnds DEF Knows
<1>4. \A d \in Linked : SendsKnown(known, outbox'[d])
  BY <1>2, StillKeeps
<1>5. \A d \in Linked : UpdatesFit(inbox'[d], contacts[d])
  BY <1>1, QuietFits DEF ReflectedFits
<1>6. \A d \in Linked : BatchKnown(task'[d], contacts[d])
  BY StillKeeps DEF ReflectedFits
<1>7. ReflectedFits'
  BY <1>3, <1>4, <1>5, <1>6 DEF ReflectedFits
<1>8. ASSUME ~torn'
      PROVE  /\ \E group \in [Identities -> Values \cup {Absent}] : \A d \in Linked :
                   AgreesOn(group, inbox'[d], contacts[d], task'[d], outbox'[d])
             /\ \A d \in Linked : InOrder(task'[d], outbox'[d])
  <2>1. /\ \E group \in [Identities -> Values \cup {Absent}] : \A d \in Linked :
              AgreesOn(group, inbox[d], contacts[d], task[d], outbox[d])
        /\ \A d \in Linked : InOrder(task[d], outbox[d])
    BY <1>8 DEF Agreement
  <2>2. PICK group \in [Identities -> Values \cup {Absent}] : \A d \in Linked :
           AgreesOn(group, inbox[d], contacts[d], task[d], outbox[d])
    BY <2>1
  <2>3. ASSUME NEW d \in Linked
        PROVE  AgreesOn(group, inbox'[d], contacts[d], task'[d], outbox'[d])
    BY <1>1, <1>8, <2>1, <2>2, StillAgrees
  <2>4. \A d \in Linked : InOrder(task'[d], outbox'[d])
    BY <1>8, <2>1, StillKeeps
  <2>5. QED
    BY <2>3, <2>4
<1>9. Agreement'
  BY <1>8 DEF Agreement
<1>10. QED
  BY <1>7, <1>9

-----------------------------------------------------------------------------
(* Every step keeps the invariant.                                         *)

\* The messages that carry nothing but their type
LEMMA Messages ==
    /\ Message("BeginTransaction") \in Requests
    /\ Message("BeginTransaction").type = "BeginTransaction"
    /\ Message("CommitTransaction") \in Requests
    /\ Message("CommitTransaction").type = "CommitTransaction"
    /\ \A type \in {"BeginTransactionAck", "TransactionRejected", "TransactionEnded",
                    "CommitTransactionAck"} :
          Message(type) \in Answers /\ Message(type).type = type
BY DEF Message, Requests, Answers

\* A device apart from the one that acts only ever receives a message.
Receiving(d) ==
    /\ task'[d] = task[d] /\ outbox'[d] = outbox[d] /\ (holder' = d) = (holder = d)
    /\ \/ inbox'[d] = inbox[d]
       \/ /\ d \in Linked
          /\ \E message \in Answers :
                /\ message.type \notin Responses
                /\ message.type = "Reflect" => holder # d
                /\ inbox'[d] = Append(inbox[d], message)

\* A step that takes one device to a new phase and lets the others at most receive
LEMMA StepFits ==
    ASSUME TransactionInv, NEW d \in Devices, Linked' = Linked,
           \A e \in Devices : e # d => Receiving(e),
           PhaseOf(d)'
    PROVE  PhasesFit'
<1> SUFFICES ASSUME NEW e \in Devices, e # d
             PROVE  PhaseOf(e)'
  BY DEF PhasesFit
<1>1. PhaseOf(e) /\ inbox[e] \in Seq(Answers)
  BY DEF TransactionInv, PhasesFit, TypeOK
<1>2. Receiving(e)
  OBVIOUS
<1>3. CASE inbox'[e] = inbox[e]
  BY <1>1, <1>2, <1>3 DEF PhaseOf, Receiving
<1>4. ASSUME e \in Linked,
             NEW message \in Answers, message.type \notin Responses,
             message.type = "Reflect" => holder # e,
             inbox'[e] = Append(inbox[e], message)
      PROVE  PhaseOf(e)'
  <2>1. Phase(task[e].state, outbox[e], inbox[e], holder = e)
    BY <1>1, <1>4 DEF PhaseOf
  <2>2. Phase(task[e].state, outbox[e], Append(inbox[e], message), holder = e)
    BY <1>1, <1>4, <2>1, PhaseAppended
  <2>3. QED
    BY <1>2, <1>4, <2>2 DEF PhaseOf, Receiving
<1>5. QED
  BY <1>2, <1>3, <1>4 DEF Receiving

\* A step of one device that reflects and stores nothing
LEMMA QuietStep ==
    ASSUME TransactionInv, TypeOK', NEW d \in Devices,
           Linked' = Linked, torn => torn',
           \A e \in Linked : contacts'[e] = contacts[e],
           \A e \in Devices : e # d => Receiving(e) /\ Quiet(inbox[e], inbox'[e]),
           PhaseOf(d)',
           Quiet(inbox[d], inbox'[d]),
           Still(task[d], outbox[d], task'[d], outbox'[d], torn')
    PROVE  TransactionInv'
<1>1. PhasesFit'
  BY StepFits
<1>2. \A e \in Linked :
         /\ Quiet(inbox[e], inbox'[e])
         /\ Still(task[e], outbox[e], task'[e], outbox'[e], torn')
  BY DEF Receiving, Still, Linked
<1>3. ReflectedFits' /\ Agreement'
  BY <1>2, StillStep
<1>4. QED
  BY <1>1, <1>3 DEF TransactionInv

\* The first poll, of a task that is new or was rejected
AnyTasks ==
    [kind : {"Create", "Update"}, batch : Seq(Contacts), state : States \cup {"Init"},
     expected : SUBSET Nat, acked : SUBSET Nat]

\* A task in another of its states is still a task.
LEMMA Becomes ==
    ASSUME NEW t \in AnyTasks, NEW state \in States
    PROVE  /\ [t EXCEPT !.state = state] \in Tasks
           /\ [t EXCEPT !.state = state].state = state
           /\ [t EXCEPT !.state = state].batch = t.batch
BY DEF AnyTasks, Tasks, States

\* The first poll of a task, or that after a rejection
LEMMA FirstPoll ==
    ASSUME TransactionInv, NEW d \in Linked, NEW t \in AnyTasks,
           task[d].state \in {"Done", "InitOrTransactionRejected"},
           PollInitOrTransactionRejected(d, t)
    PROVE  /\ task' \in [Devices -> Tasks] /\ outbox' \in [Devices -> Seq(Requests)]
           /\ \A e \in Devices : e # d => task'[e] = task[e] /\ outbox'[e] = outbox[e]
           /\ Still(task[d], outbox[d], task'[d], outbox'[d], torn')
           /\ \A in : NoResponse(in) => Phase(task'[d].state, outbox'[d], in, FALSE)
<1>1. d \in Devices /\ task \in [Devices -> Tasks] /\ outbox \in [Devices -> Seq(Requests)]
  BY DEF Linked, TransactionInv, TypeOK
<1>2. outbox[d] = <<>>
  BY <1>1 DEF TransactionInv, PhasesFit, PhaseOf, Phase
<1>3. ASSUME NEW state \in {"Done", "Error"}, Become(d, [t EXCEPT !.state = state]),
             UNCHANGED outbox
      PROVE  /\ task' \in [Devices -> Tasks] /\ task'[d].state = state
             /\ \A e \in Devices : e # d => task'[e] = task[e] /\ outbox'[e] = outbox[e]
             /\ Still(task[d], outbox[d], task'[d], outbox'[d], torn')
             /\ \A in : NoResponse(in) => Phase(task'[d].state, outbox'[d], in, FALSE)
  <2>1. task' \in [Devices -> Tasks] /\ task'[d].state = state
    BY <1>1, <1>3, Becomes DEF Become, States
  <2>2. \A e \in Devices : e # d => task'[e] = task[e] /\ outbox'[e] = outbox[e]
    BY <1>1, <1>3 DEF Become
  <2>3. Still(task[d], outbox[d], task'[d], outbox'[d], torn')
    BY <1>3, <2>1 DEF Still
  <2>4. \A in : NoResponse(in) => Phase(task'[d].state, outbox'[d], in, FALSE)
    BY <1>2, <1>3, <2>1 DEF Phase
  <2>5. QED
    BY <2>1, <2>2, <2>3, <2>4
<1>4. ASSUME Become(d, [t EXCEPT !.state = "BeginTransaction"]),
             Send(d, <<Message("BeginTransaction")>>)
      PROVE  /\ task' \in [Devices -> Tasks] /\ outbox' \in [Devices -> Seq(Requests)]
             /\ \A e \in Devices : e # d => task'[e] = task[e] /\ outbox'[e] = outbox[e]
             /\ Still(task[d], outbox[d], task'[d], outbox'[d], torn')
             /\ \A in : NoResponse(in) => Phase(task'[d].state, outbox'[d], in, FALSE)
  <2>1. task' \in [Devices -> Tasks] /\ task'[d].state = "BeginTransaction"
    BY <1>1, <1>4, Becomes DEF Become, States
  <2>2. outbox'[d] = <<Message("BeginTransaction")>>
    BY <1>1, <1>2, <1>4, Messages DEF Send
  <2>3. outbox' \in [Devices -> Seq(Requests)]
    <3>1. outbox[d] \o <<Message("BeginTransaction")>> \in Seq(Requests)
      BY <1>1, Messages
    <3>2. QED
      BY <1>1, <1>4, <3>1 DEF Send
  <2>4. \A e \in Devices : e # d => task'[e] = task[e] /\ outbox'[e] = outbox[e]
    BY <1>1, <1>4 DEF Become, Send
  <2>5. Asks(outbox'[d]) /\ NoReflect(outbox'[d])
    BY <2>2, Messages DEF Asks, NoReflect
  <2>6. Still(task[d], outbox[d], task'[d], outbox'[d], torn')
    BY <2>1, <2>5 DEF Still
  <2>7. \A in : NoResponse(in) => Phase(task'[d].state, outbox'[d], in, FALSE)
    BY <2>1, <2>5 DEF Phase, Begins
  <2>8. QED
    BY <2>1, <2>3, <2>4, <2>6, <2>7
<1>5. QED
  BY <1>1, <1>3, <1>4 DEF PollInitOrTransactionRejected

\* A new task has its kind and its batch; a device without one is done.
LEMMA NewTasks ==
    ASSUME NEW kind \in {"Create", "Update"}, NEW batch \in Seq(Contacts)
    PROVE  /\ NewTask(kind, batch) \in AnyTasks
           /\ NewTask(kind, batch).kind = kind /\ NewTask(kind, batch).batch = batch
           /\ NoTask \in Tasks /\ NoTask.state = "Done"
<1>1. <<>> \in Seq(Contacts) /\ "Create" \in {"Create", "Update"}
  OBVIOUS
<1>2. \A k \in {"Create", "Update"}, b \in Seq(Contacts) :
         /\ NewTask(k, b) \in AnyTasks
         /\ NewTask(k, b).kind = k /\ NewTask(k, b).batch = b
  BY DEF NewTask, AnyTasks, States
<1>3. NewTask("Create", <<>>) \in AnyTasks
  BY <1>1, <1>2
<1>4. NoTask \in Tasks /\ NoTask.state = "Done"
  BY <1>3, Becomes DEF NoTask, States
<1>5. QED
  BY <1>2, <1>4

\* The contacts of a batch that are stored are contacts.
LEMMA PartsOfBatch ==
    ASSUME TypeOK, NEW d \in Devices, NEW batch \in Seq(Contacts)
    PROVE  /\ Missing(d, batch) \in Seq(Contacts) /\ Existing(d, batch) \in Seq(Contacts)
           /\ Updatable(d, batch) \in Seq(Contacts)
           /\ Len(Existing(d, batch)) = Len(batch) =>
                 \A k \in 1 .. Len(batch) : Has(d, batch[k].identity)
           /\ \A k \in 1 .. Len(Existing(d, batch)) : Has(d, Existing(d, batch)[k].identity)
           /\ (\A k \in 1 .. Len(batch) : Has(d, batch[k].identity)) =>
                 Missing(d, batch) = <<>> /\ Updatable(d, batch) = batch
<1> DEFINE there == {k \in 1 .. Len(batch) : Has(d, batch[k].identity)}
           lacks == {k \in 1 .. Len(batch) : ~Has(d, batch[k].identity)}
           first == {n \in 1 .. Len(batch) : \A k \in 1 .. n : Has(d, batch[k].identity)}
<1>1. Len(batch) \in Nat /\ 1 .. Len(batch) \subseteq Nat
  OBVIOUS
<1>2. /\ Existing(d, batch) \in Seq(Contacts)
      /\ \E f : Picks(batch, there, Len(batch), Existing(d, batch), f)
  BY KeptPicks DEF Existing
<1>3. /\ Missing(d, batch) \in Seq(Contacts)
      /\ \E f : Picks(batch, lacks, Len(batch), Missing(d, batch), f)
  BY KeptPicks DEF Missing
<1>4. Len(Existing(d, batch)) = Len(batch) =>
         \A k \in 1 .. Len(batch) : Has(d, batch[k].identity)
  BY <1>2 DEF Picks
<1>5. \A k \in 1 .. Len(Existing(d, batch)) : Has(d, Existing(d, batch)[k].identity)
  BY <1>2 DEF Picks
<1>6. ASSUME \A k \in 1 .. Len(batch) : Has(d, batch[k].identity)
      PROVE  Missing(d, batch) = <<>>
  <2>1. \A k \in 1 .. Len(Missing(d, batch)) : FALSE
    BY <1>3, <1>6 DEF Picks
  <2>2. Len(Missing(d, batch)) \in Nat
    BY <1>3
  <2>3. Len(Missing(d, batch)) = 0
    BY <2>1, <2>2
  <2>4. QED
    BY <1>3, <2>3
<1>7. /\ IsFiniteSet(1 .. Len(batch)) /\ Cardinality(1 .. Len(batch)) = Len(batch)
      /\ first \in SUBSET (1 .. Len(batch))
  <2>1. ASSUME NEW n \in Nat
        PROVE  IsFiniteSet(1 .. n) /\ Cardinality(1 .. n) = n
    BY FS_Interval
  <2>2. QED
    BY <1>1, <2>1
<1>8. Cardinality(first) \in Nat /\ Cardinality(first) <= Len(batch)
  BY <1>7, FS_Subset, FS_CardinalityType
<1>9. Updatable(d, batch) = SubSeq(batch, 1, Cardinality(first))
  BY DEF Updatable
<1>10. Updatable(d, batch) \in Seq(Contacts)
  <2>1. ASSUME NEW n \in 0 .. Len(batch)
        PROVE  SubSeq(batch, 1, n) \in Seq(Contacts)
    OBVIOUS
  <2>2. Cardinality(first) \in 0 .. Len(batch)
    BY <1>1, <1>8
  <2> HIDE DEF first
  <2>3. QED
    BY <1>9, <2>1, <2>2
<1>11. ASSUME \A k \in 1 .. Len(batch) : Has(d, batch[k].identity)
       PROVE  Updatable(d, batch) = batch
  <2>1. \A n \in 1 .. Len(batch) : \A k \in 1 .. n : k \in 1 .. Len(batch)
    BY <1>1
  <2>2. first = 1 .. Len(batch)
    BY <1>11, <2>1
  <2>3. Updatable(d, batch) = SubSeq(batch, 1, Len(batch))
    BY <1>7, <1>9, <2>2
  <2>4. QED
    BY <2>3
<1>12. QED
  BY <1>2, <1>3, <1>4, <1>5, <1>6, <1>10, <1>11

\* Of a batch that names a contact, the value is that of its last naming.
LEMMA LastOfBatch ==
    ASSUME NEW batch \in Seq(Contacts), NEW identity, Holds(batch, identity)
    PROVE  \E k \in 1 .. Len(batch) :
              /\ batch[k].identity = identity
              /\ \A l \in k + 1 .. Len(batch) : batch[l].identity # identity
              /\ ValueIn(batch, identity) = batch[k].value
<1> DEFINE Distances == {n \in Nat : \E k \in 1 .. Len(batch) :
                             batch[k].identity = identity /\ n = Len(batch) - k}
<1>1. Len(batch) \in Nat
  OBVIOUS
<1>2. Distances \in SUBSET Nat /\ Distances # {}
  <2>1. PICK k \in 1 .. Len(batch) : batch[k].identity = identity
    BY DEF Holds
  <2>2. Len(batch) - k \in Nat
    BY <1>1
  <2>3. Len(batch) - k \in Distances
    BY <2>1, <2>2
  <2>4. QED
    BY <2>3
<1> HIDE DEF Distances
<1>3. PICK m \in Distances : \A n \in Distances : m <= n
  BY <1>2, Least
<1>4. PICK k \in 1 .. Len(batch) : batch[k].identity = identity /\ m = Len(batch) - k
  BY <1>3 DEF Distances
<1>5. ASSUME NEW l \in k + 1 .. Len(batch), batch[l].identity = identity
      PROVE  FALSE
  <2>1. l \in 1 .. Len(batch) /\ Len(batch) - l \in Nat /\ Len(batch) - l < m
    BY <1>1, <1>4
  <2>2. Len(batch) - l \in Distances
    BY <1>5, <2>1 DEF Distances
  <2>3. QED
    BY <1>1, <1>3, <1>4, <2>1, <2>2
<1> DEFINE Is(j) == /\ batch[j].identity = identity
                    /\ \A l \in j + 1 .. Len(batch) : batch[l].identity # identity
<1>6. Is(k)
  BY <1>4, <1>5
<1>7. ASSUME NEW j \in 1 .. Len(batch), Is(j)
      PROVE  j = k
  <2>1. ~(j < k)
    BY <1>4, <1>7, <1>1
  <2>2. ~(k < j)
    BY <1>6, <1>7, <1>1
  <2>3. QED
    BY <2>1, <2>2, <1>1
<1>8. (CHOOSE j \in 1 .. Len(batch) : Is(j)) = k
  BY <1>6, <1>7
<1>9. ValueIn(batch, identity) = batch[k].value
  BY <1>8 DEF ValueIn
<1>10. QED
  BY <1>6, <1>9

\* A store with a batch stored is a store.
LEMMA StoreTypes ==
    ASSUME TypeOK, NEW d \in Devices, NEW batch \in Seq(Contacts)
    PROVE  Store(d, batch) \in [Identities -> Values \cup {Absent}]
<1>1. \A i \in Identities : contacts[d][i] \in Values \cup {Absent}
  BY DEF TypeOK
<1>2. ASSUME NEW i \in Identities, Holds(batch, i)
      PROVE  ValueIn(batch, i) \in Values
  <2>1. PICK k \in 1 .. Len(batch) : ValueIn(batch, i) = batch[k].value
    BY <1>2, LastOfBatch
  <2>2. batch[k] \in Contacts
    OBVIOUS
  <2>3. QED
    BY <2>1, <2>2 DEF Contacts
<1>3. QED
  BY <1>1, <1>2 DEF Store

\* A task is started: asks for the transaction, or is done without multi-device.
LEMMA StartKeeps ==
    ASSUME TransactionInv, NEW d \in Devices, NEW kind \in {"Create", "Update"},
           NEW batch \in Batches, Start(d, kind, batch)
    PROVE  TransactionInv'
<1> DEFINE t == NewTask(kind, batch)
<1> USE DEF TransactionInv
<1>1. batch \in Seq(Contacts)
  BY TransactionAssumption DEF Contacts
<1>2. t \in AnyTasks /\ t.kind = kind /\ t.batch = batch
  BY <1>1, NewTasks
<1> HIDE DEF t
<1>3. task[d].state = "Done" /\ started[d] < MaxTasks
      /\ started' = [started EXCEPT ![d] = @ + 1]
      /\ UNCHANGED <<reflectId, inbox, holder, peers, faults, torn>>
  BY DEF Start
<1>4. Linked' = Linked
  BY <1>3 DEF Linked
<1>5. started' \in [Devices -> 0 .. MaxTasks]
  BY <1>3, TransactionAssumption DEF TypeOK
<1>6. CASE d \in Linked
  <2>1. PollInitOrTransactionRejected(d, t) /\ UNCHANGED contacts
    BY <1>6 DEF Start, t
  <2>2. /\ task' \in [Devices -> Tasks] /\ outbox' \in [Devices -> Seq(Requests)]
        /\ \A e \in Devices : e # d => task'[e] = task[e] /\ outbox'[e] = outbox[e]
        /\ Still(task[d], outbox[d], task'[d], outbox'[d], torn')
        /\ \A in : NoResponse(in) => Phase(task'[d].state, outbox'[d], in, FALSE)
    BY <1>2, <1>3, <1>6, <2>1, FirstPoll
  <2>3. TypeOK'
    BY <1>3, <1>5, <2>1, <2>2 DEF TypeOK
  <2>4. NoResponse(inbox[d]) /\ holder # d
    BY <1>3, <1>6 DEF PhasesFit, PhaseOf, Phase
  <2>5. PhaseOf(d)'
    <3>1. Phase(task'[d].state, outbox'[d], inbox'[d], FALSE)
      BY <1>3, <2>2, <2>4
    <3>2. (holder' = d) = FALSE
      BY <1>3, <2>4
    <3>3. QED
      BY <1>4, <1>6, <3>1, <3>2 DEF PhaseOf
  <2>6. \A e \in Devices : Quiet(inbox[e], inbox'[e])
    BY <1>3 DEF Quiet
  <2>7. \A e \in Devices : e # d => Receiving(e)
    BY <1>3, <2>2 DEF Receiving
  <2>8. QED
    BY <1>3, <1>4, <2>1, <2>2, <2>3, <2>5, <2>6, <2>7, QuietStep
<1>7. CASE d \notin Linked
  <2> DEFINE stored == IF kind = "Create" THEN Missing(d, batch) ELSE Updatable(d, batch)
             state == IF kind = "Update" /\ stored # batch THEN "Error" ELSE "Done"
  <2>1. /\ contacts' = [contacts EXCEPT ![d] = Store(d, stored)]
        /\ Become(d, [t EXCEPT !.state = state]) /\ UNCHANGED outbox
    BY <1>2, <1>7 DEF Start, StartUnlinked, t
  <2>2. stored \in Seq(Contacts)
    BY <1>1, PartsOfBatch
  <2>3. state \in {"Done", "Error"}
    OBVIOUS
  <2> HIDE DEF stored, state
  <2>4. /\ contacts' \in [Devices -> [Identities -> Values \cup {Absent}]]
        /\ \A e \in Devices : e # d => contacts'[e] = contacts[e]
    BY <2>1, <2>2, StoreTypes DEF TypeOK
  <2>5. /\ task' \in [Devices -> Tasks] /\ task'[d].state = state
        /\ \A e \in Devices : e # d => task'[e] = task[e]
    <3>1. state \in States
      BY <2>3 DEF States
    <3>2. QED
      BY <1>2, <2>1, <3>1, Becomes DEF Become, TypeOK
  <2>6. TypeOK'
    BY <1>3, <1>5, <2>1, <2>4, <2>5 DEF TypeOK
  <2>7. PhaseOf(d)'
    BY <1>3, <1>4, <1>7, <2>1, <2>3, <2>5 DEF PhasesFit, PhaseOf
  <2>8. \A e \in Devices : Quiet(inbox[e], inbox'[e])
    BY <1>3 DEF Quiet
  <2>9. \A e \in Devices : e # d => Receiving(e)
    BY <1>3, <2>1, <2>5 DEF Receiving
  <2>10. task[d].state # "ReflectAndCommit" /\ task'[d].state # "ReflectAndCommit"
    BY <1>3, <2>3, <2>5
  <2>11. Still(task[d], outbox[d], task'[d], outbox'[d], torn')
    BY <2>1, <2>10 DEF Still
  <2>12. \A e \in Linked : contacts'[e] = contacts[e]
    BY <1>7, <2>4 DEF Linked
  <2>13. QED
    BY <1>3, <1>4, <2>6, <2>7, <2>8, <2>9, <2>11, <2>12, QuietStep
<1>8. QED
  BY <1>6, <1>7

\* A device that takes a message is linked and takes it from its own inbox only.
LEMMA Consumes ==
    ASSUME TransactionInv, NEW d \in Devices, inbox[d] # <<>>, Consume(d)
    PROVE  /\ d \in Linked /\ Phase(task[d].state, outbox[d], inbox[d], holder = d)
           /\ inbox[d] \in Seq(Answers) /\ Head(inbox[d]) \in Answers
           /\ inbox' \in [Devices -> Seq(Answers)]
           /\ inbox'[d] = Tail(inbox[d])
           /\ \A e \in Devices : e # d => inbox'[e] = inbox[e]
           /\ task[d] \in AnyTasks
<1>1. d \in Linked /\ Phase(task[d].state, outbox[d], inbox[d], holder = d)
  BY DEF TransactionInv, PhasesFit, PhaseOf
<1>2. inbox \in [Devices -> Seq(Answers)] /\ inbox[d] \in Seq(Answers)
  BY DEF TransactionInv, TypeOK
<1>3. Tail(inbox[d]) \in Seq(Answers) /\ Head(inbox[d]) \in Answers
  BY <1>2, Taken
<1>4. task[d] \in AnyTasks
  BY DEF TransactionInv, TypeOK, Tasks, AnyTasks, States
<1>5. QED
  BY <1>1, <1>2, <1>3, <1>4 DEF Consume

\* The end of a transaction lets a rejected task ask again.
LEMMA TransactionEndedKeeps ==
    ASSUME TransactionInv, NEW d \in Devices, PollTransactionEnded(d)
    PROVE  TransactionInv'
<1> USE DEF TransactionInv
<1>1. /\ inbox[d] # <<>> /\ Head(inbox[d]).type = "TransactionEnded" /\ Consume(d)
      /\ UNCHANGED <<contacts, reflectId, holder, counters, torn>>
  BY DEF PollTransactionEnded, Receives
<1>2. UNCHANGED <<started, peers, faults>>
  BY <1>1 DEF counters
<1>3. /\ d \in Linked /\ Phase(task[d].state, outbox[d], inbox[d], holder = d)
      /\ inbox[d] \in Seq(Answers)
      /\ inbox' \in [Devices -> Seq(Answers)] /\ inbox'[d] = Tail(inbox[d])
      /\ \A e \in Devices : e # d => inbox'[e] = inbox[e]
      /\ task[d] \in AnyTasks
  BY <1>1, Consumes
<1>4. Phase(task[d].state, outbox[d], inbox'[d], holder = d)
  BY <1>1, <1>3, PhaseTaken DEF Responses
<1>5. Linked' = Linked
  BY <1>1 DEF Linked
<1>6. \A e \in Devices : Quiet(inbox[e], inbox'[e])
  BY <1>1, <1>3 DEF Quiet
<1>7. /\ task' \in [Devices -> Tasks] /\ outbox' \in [Devices -> Seq(Requests)]
      /\ \A e \in Devices : e # d => task'[e] = task[e] /\ outbox'[e] = outbox[e]
      /\ Still(task[d], outbox[d], task'[d], outbox'[d], torn')
      /\ Phase(task'[d].state, outbox'[d], inbox'[d], holder = d)
  <2>1. CASE task[d].state = "InitOrTransactionRejected"
    <3>1. PollInitOrTransactionRejected(d, task[d])
      BY <2>1 DEF PollTransactionEnded, Retry
    <3>2. NoResponse(inbox'[d]) /\ (holder = d) = FALSE
      BY <1>4, <2>1 DEF Phase
    <3>3. /\ task' \in [Devices -> Tasks] /\ outbox' \in [Devices -> Seq(Requests)]
          /\ \A e \in Devices : e # d => task'[e] = task[e] /\ outbox'[e] = outbox[e]
          /\ Still(task[d], outbox[d], task'[d], outbox'[d], torn')
          /\ \A in : NoResponse(in) => Phase(task'[d].state, outbox'[d], in, FALSE)
      BY <1>3, <2>1, <3>1, FirstPoll
    <3>4. QED
      BY <3>2, <3>3
  <2>2. CASE task[d].state # "InitOrTransactionRejected"
    <3>1. UNCHANGED <<task, outbox>>
      BY <2>2 DEF PollTransactionEnded, Retry
    <3>2. QED
      BY <1>4, <3>1 DEF TypeOK, Still
  <2>3. QED
    BY <2>1, <2>2
<1>8. TypeOK'
  BY <1>1, <1>2, <1>3, <1>7 DEF TypeOK
<1>9. PhaseOf(d)'
  BY <1>1, <1>3, <1>5, <1>7 DEF PhaseOf
<1>10. \A e \in Devices : e # d => Receiving(e)
  BY <1>1, <1>3, <1>7 DEF Receiving
<1>11. QED
  BY <1>1, <1>5, <1>6, <1>7, <1>8, <1>9, <1>10, QuietStep

\* The acknowledgement of a reflected message is noted.
LEMMA ReflectAckKeeps ==
    ASSUME TransactionInv, NEW d \in Devices, ReceiveReflectAck(d)
    PROVE  TransactionInv'
<1> USE DEF TransactionInv
<1>1. /\ inbox[d] # <<>> /\ Head(inbox[d]).type = "ReflectAck" /\ Consume(d)
      /\ Become(d, [task[d] EXCEPT !.acked = @ \cup {Head(inbox[d]).id}])
      /\ UNCHANGED <<contacts, reflectId, outbox, holder, torn>>
      /\ UNCHANGED <<started, peers, faults>>
  BY DEF ReceiveReflectAck, Receives, counters
<1>2. /\ d \in Linked /\ Phase(task[d].state, outbox[d], inbox[d], holder = d)
      /\ inbox[d] \in Seq(Answers) /\ Head(inbox[d]) \in Answers
      /\ inbox' \in [Devices -> Seq(Answers)] /\ inbox'[d] = Tail(inbox[d])
      /\ \A e \in Devices : e # d => inbox'[e] = inbox[e]
  BY <1>1, Consumes
<1>3. Phase(task[d].state, outbox[d], inbox'[d], holder = d)
  BY <1>1, <1>2, PhaseTaken DEF Responses
<1>4. Linked' = Linked
  BY <1>1 DEF Linked
<1>5. \A e \in Devices : Quiet(inbox[e], inbox'[e])
  BY <1>1, <1>2 DEF Quiet
<1>6. Head(inbox[d]).id \in Nat
  BY <1>1, <1>2 DEF Answers, Reflected
<1>7. /\ task' \in [Devices -> Tasks]
      /\ task'[d].state = task[d].state /\ task'[d].batch = task[d].batch
      /\ \A e \in Devices : e # d => task'[e] = task[e]
  <2>1. [task[d] EXCEPT !.acked = @ \cup {Head(inbox[d]).id}] \in Tasks
    BY <1>6 DEF TypeOK, Tasks
  <2>2. task \in [Devices -> Tasks] /\ task[d] \in Tasks
    BY DEF TypeOK
  <2>3. QED
    BY <1>1, <2>1, <2>2 DEF Become, Tasks
<1>8. TypeOK'
  BY <1>1, <1>2, <1>7 DEF TypeOK
<1>9. PhaseOf(d)'
  BY <1>1, <1>2, <1>3, <1>4, <1>7 DEF PhaseOf
<1>10. \A e \in Devices : e # d => Receiving(e)
  BY <1>1, <1>2, <1>7 DEF Receiving
<1>11. Still(task[d], outbox[d], task'[d], outbox'[d], torn')
  BY <1>1, <1>7 DEF Still
<1>12. QED
  BY <1>1, <1>4, <1>5, <1>8, <1>9, <1>10, <1>11, QuietStep

\* The obsolete transaction has been committed.
LEMMA AbortedKeeps ==
    ASSUME TransactionInv, NEW d \in Devices, PollAbortTransaction(d)
    PROVE  TransactionInv'
<1> USE DEF TransactionInv
<1>1. /\ inbox[d] # <<>> /\ Head(inbox[d]).type = "CommitTransactionAck" /\ Consume(d)
      /\ task[d].state = "AbortTransaction"
      /\ Become(d, [task[d] EXCEPT !.state = "Done"])
      /\ UNCHANGED <<contacts, reflectId, outbox, holder, torn>>
      /\ UNCHANGED <<started, peers, faults>>
  BY DEF PollAbortTransaction, Receives, counters
<1>2. /\ d \in Linked /\ Phase(task[d].state, outbox[d], inbox[d], holder = d)
      /\ inbox[d] \in Seq(Answers)
      /\ inbox' \in [Devices -> Seq(Answers)] /\ inbox'[d] = Tail(inbox[d])
      /\ \A e \in Devices : e # d => inbox'[e] = inbox[e]
      /\ task[d] \in AnyTasks
  BY <1>1, Consumes
<1>3. outbox[d] = <<>> /\ NoResponse(inbox'[d]) /\ holder # d
  BY <1>1, <1>2, CommitTaken DEF Phase, Responses
<1>4. Linked' = Linked
  BY <1>1 DEF Linked
<1>5. \A e \in Devices : Quiet(inbox[e], inbox'[e])
  BY <1>1, <1>2 DEF Quiet
<1>6. /\ task' \in [Devices -> Tasks] /\ task'[d].state = "Done"
      /\ \A e \in Devices : e # d => task'[e] = task[e]
  BY <1>1, <1>2, Becomes DEF Become, TypeOK, States
<1>7. TypeOK'
  BY <1>1, <1>2, <1>6 DEF TypeOK
<1>8. PhaseOf(d)'
  BY <1>1, <1>2, <1>3, <1>4, <1>6 DEF PhaseOf, Phase
<1>9. \A e \in Devices : e # d => Receiving(e)
  BY <1>1, <1>2, <1>6 DEF Receiving
<1>10. Still(task[d], outbox[d], task'[d], outbox'[d], torn')
  BY <1>1, <1>6 DEF Still
<1>11. QED
  BY <1>1, <1>4, <1>5, <1>7, <1>8, <1>9, <1>10, QuietStep

\* A task that is polled too early fails, and may leave its transaction open.
LEMMA PollEarlyKeeps ==
    ASSUME TransactionInv, NEW d \in Devices, PollEarly(d)
    PROVE  TransactionInv'
<1> USE DEF TransactionInv
<1>1. /\ task[d].state \in {"BeginTransaction", "AbortTransaction", "ReflectAndCommit"}
      /\ faults < MaxFaults /\ faults' = faults + 1
      /\ Become(d, [task[d] EXCEPT !.state = "Error"])
      /\ torn' = (torn \/ task[d].state = "ReflectAndCommit")
      /\ UNCHANGED <<contacts, reflectId, outbox, inbox, holder, started, peers>>
  BY DEF PollEarly, mediatorVars
<1>2. d \in Linked /\ Phase(task[d].state, outbox[d], inbox[d], holder = d)
  BY <1>1 DEF PhasesFit, PhaseOf
<1>3. outbox[d] = <<>> \/ Asks(outbox[d]) \/ (Committing(outbox[d]) /\ holder = d)
  BY <1>1, <1>2 DEF Phase, Begins, Commits
<1>4. Linked' = Linked
  BY <1>1 DEF Linked
<1>5. \A e \in Devices : Quiet(inbox[e], inbox'[e])
  BY <1>1 DEF Quiet
<1>6. /\ task' \in [Devices -> Tasks] /\ task'[d].state = "Error"
      /\ \A e \in Devices : e # d => task'[e] = task[e]
  <2>1. task[d] \in AnyTasks
    BY DEF TypeOK, Tasks, AnyTasks, States
  <2>2. QED
    BY <1>1, <2>1, Becomes DEF Become, TypeOK, States
<1>7. TypeOK'
  BY <1>1, <1>6, TransactionAssumption DEF TypeOK
<1>8. PhaseOf(d)'
  BY <1>1, <1>2, <1>3, <1>4, <1>6 DEF PhaseOf, Phase
<1>9. \A e \in Devices : e # d => Receiving(e)
  BY <1>1, <1>6 DEF Receiving
<1>10. Still(task[d], outbox[d], task'[d], outbox'[d], torn')
  BY <1>1, <1>6 DEF Still
<1>11. QED
  BY <1>1, <1>4, <1>5, <1>7, <1>8, <1>9, <1>10, QuietStep

\* What a device has seen when the answer to its BeginTransaction arrives: unless it
\* is rejected it holds the transaction and has nothing left to apply.
LEMMA BeginAnswered ==
    ASSUME TransactionInv, NEW d \in Devices, task[d].state = "BeginTransaction",
           inbox[d] # <<>>, Head(inbox[d]).type \in Responses, Consume(d)
    PROVE  /\ d \in Linked /\ outbox[d] = <<>>
           /\ inbox[d] \in Seq(Answers)
           /\ inbox' \in [Devices -> Seq(Answers)] /\ inbox'[d] = Tail(inbox[d])
           /\ \A e \in Devices : e # d => inbox'[e] = inbox[e]
           /\ \A e \in Devices : Quiet(inbox[e], inbox'[e])
           /\ task[d] \in AnyTasks
           /\ NoResponse(inbox'[d])
           /\ Head(inbox[d]).type = "BeginTransactionAck" =>
                 holder = d /\ NoReflect(inbox[d]) /\ NoReflect(inbox'[d])
           /\ Head(inbox[d]).type = "TransactionRejected" => holder # d
<1>1. /\ d \in Linked /\ Phase(task[d].state, outbox[d], inbox[d], holder = d)
      /\ inbox[d] \in Seq(Answers)
      /\ inbox' \in [Devices -> Seq(Answers)] /\ inbox'[d] = Tail(inbox[d])
      /\ \A e \in Devices : e # d => inbox'[e] = inbox[e]
      /\ task[d] \in AnyTasks
  BY Consumes
<1>2. Begins(outbox[d], inbox[d], holder = d)
  BY <1>1 DEF Phase
<1>3. /\ outbox[d] = <<>> /\ NoResponse(Tail(inbox[d]))
      /\ Head(inbox[d]).type = "BeginTransactionAck" =>
            holder = d /\ NoReflect(inbox[d]) /\ NoReflect(Tail(inbox[d]))
      /\ Head(inbox[d]).type = "TransactionRejected" => holder # d
  BY <1>1, <1>2, BeginTaken
<1>4. \A e \in Devices : Quiet(inbox[e], inbox'[e])
  BY <1>1 DEF Quiet, Responses
<1>5. QED
  BY <1>1, <1>3, <1>4

\* A rejection, and a precondition that does not hold after the acknowledgement
LEMMA NotBegunKeeps ==
    ASSUME TransactionInv, NEW d \in Devices, task[d].state = "BeginTransaction",
           inbox[d] # <<>>, Consume(d),
           UNCHANGED <<contacts, reflectId, holder, counters, torn>>,
           \/ Head(inbox[d]).type = "TransactionRejected" /\ BeginRejected(d)
           \/ Head(inbox[d]).type = "BeginTransactionAck" /\ Abort(d)
           \/ /\ Head(inbox[d]).type = "BeginTransactionAck"
              /\ Become(d, [task[d] EXCEPT !.state = "Error"])
              /\ UNCHANGED <<reflectId, outbox>>
    PROVE  TransactionInv'
<1> USE DEF TransactionInv
<1>1. /\ Head(inbox[d]).type \in Responses
      /\ UNCHANGED <<contacts, reflectId, holder, torn>>
      /\ UNCHANGED <<started, peers, faults>>
  BY DEF Responses, counters
<1>2. /\ d \in Linked /\ outbox[d] = <<>>
      /\ inbox[d] \in Seq(Answers)
      /\ inbox' \in [Devices -> Seq(Answers)] /\ inbox'[d] = Tail(inbox[d])
      /\ \A e \in Devices : e # d => inbox'[e] = inbox[e]
      /\ \A e \in Devices : Quiet(inbox[e], inbox'[e])
      /\ task[d] \in AnyTasks
      /\ NoResponse(inbox'[d])
      /\ Head(inbox[d]).type = "BeginTransactionAck" =>
            holder = d /\ NoReflect(inbox[d]) /\ NoReflect(inbox'[d])
      /\ Head(inbox[d]).type = "TransactionRejected" => holder # d
  BY <1>1, BeginAnswered
<1>3. Linked' = Linked
  BY <1>1 DEF Linked
<1>4. /\ outbox \in [Devices -> Seq(Requests)] /\ task \in [Devices -> Tasks]
  BY DEF TypeOK
<1>5. ASSUME NEW state \in States \ {"ReflectAndCommit"},
             Become(d, [task[d] EXCEPT !.state = state]),
             outbox' \in [Devices -> Seq(Requests)], NoReflect(outbox'[d]),
             \A e \in Devices : e # d => outbox'[e] = outbox[e],
             Phase(state, outbox'[d], inbox'[d], holder = d)
      PROVE  TransactionInv'
  <2>1. /\ task' \in [Devices -> Tasks] /\ task'[d].state = state
        /\ \A e \in Devices : e # d => task'[e] = task[e]
    BY <1>2, <1>4, <1>5, Becomes DEF Become
  <2>2. TypeOK'
    BY <1>1, <1>2, <1>5, <2>1 DEF TypeOK
  <2>3. PhaseOf(d)'
    BY <1>1, <1>2, <1>3, <1>5, <2>1 DEF PhaseOf
  <2>4. \A e \in Devices : e # d => Receiving(e)
    BY <1>1, <1>2, <1>5, <2>1 DEF Receiving
  <2>5. Still(task[d], outbox[d], task'[d], outbox'[d], torn')
    BY <1>5, <2>1 DEF Still
  <2>6. QED
    BY <1>1, <1>2, <1>3, <2>2, <2>3, <2>4, <2>5, QuietStep
<1>6. CASE Head(inbox[d]).type = "TransactionRejected" /\ BeginRejected(d)
  <2>1. /\ Become(d, [task[d] EXCEPT !.state = "InitOrTransactionRejected"])
        /\ UNCHANGED outbox
    BY <1>6 DEF BeginRejected
  <2>2. NoReflect(outbox'[d])
    BY <1>2, <2>1 DEF NoReflect
  <2>3. Phase("InitOrTransactionRejected", outbox'[d], inbox'[d], holder = d)
    BY <1>2, <1>6, <2>1 DEF Phase
  <2>4. "InitOrTransactionRejected" \in States \ {"ReflectAndCommit"}
    BY DEF States
  <2>5. QED
    BY <1>4, <1>5, <2>1, <2>2, <2>3, <2>4
<1>7. CASE Head(inbox[d]).type = "BeginTransactionAck" /\ Abort(d)
  <2>1. /\ Become(d, [task[d] EXCEPT !.state = "AbortTransaction"])
        /\ outbox' = [outbox EXCEPT ![d] = @ \o <<Message("CommitTransaction")>>]
    BY <1>7 DEF Abort, Send
  <2>2. outbox'[d] = <<Message("CommitTransaction")>>
    BY <1>2, <1>4, <2>1, Messages
  <2>3. NoReflect(outbox'[d]) /\ Committing(outbox'[d])
    BY <2>2, Messages DEF NoReflect, Committing
  <2>4. outbox' \in [Devices -> Seq(Requests)] /\ \A e \in Devices : e # d => outbox'[e] = outbox[e]
    <3>1. outbox[d] \o <<Message("CommitTransaction")>> \in Seq(Requests)
      BY <1>4, Messages
    <3>2. QED
      BY <1>4, <2>1, <3>1
  <2>5. Phase("AbortTransaction", outbox'[d], inbox'[d], holder = d)
    BY <1>2, <1>7, <2>3 DEF Phase, Commits
  <2>6. "AbortTransaction" \in States \ {"ReflectAndCommit"}
    BY DEF States
  <2>7. QED
    BY <1>5, <2>1, <2>3, <2>4, <2>5, <2>6
<1>8. CASE /\ Head(inbox[d]).type = "BeginTransactionAck"
           /\ Become(d, [task[d] EXCEPT !.state = "Error"])
           /\ UNCHANGED <<reflectId, outbox>>
  <2>1. NoReflect(outbox'[d])
    BY <1>2, <1>8 DEF NoReflect
  <2>2. Phase("Error", outbox'[d], inbox'[d], holder = d)
    BY <1>2, <1>8 DEF Phase
  <2>3. "Error" \in States \ {"ReflectAndCommit"}
    BY DEF States
  <2>4. QED
    BY <1>4, <1>5, <1>8, <2>1, <2>2, <2>3
<1>9. QED
  BY <1>6, <1>7, <1>8

\* A lost connection ends the transaction; what is reflected still waits in order.
LEMMA DisconnectKeeps ==
    ASSUME TransactionInv, NEW d \in Devices, Disconnect(d)
    PROVE  TransactionInv'
<1> USE DEF TransactionInv
<1>1. /\ IF task[d].state = "Error" THEN UNCHANGED faults
         ELSE faults < MaxFaults /\ faults' = faults + 1
      /\ task' = [task EXCEPT ![d] = NoTask]
      /\ reflectId' = [reflectId EXCEPT ![d] = IF d \in Linked THEN 0 ELSE NoContext]
      /\ outbox' = [outbox EXCEPT ![d] = <<>>]
      /\ holder' = IF holder = d THEN Nobody ELSE holder
      /\ inbox' = [e \in Devices |->
                      IF e = d THEN Kept(inbox[e], ReflectsIn(inbox[e]))
                      ELSE IF holder = d /\ e \in Linked
                      THEN Append(inbox[e], Message("TransactionEnded"))
                      ELSE inbox[e]]
      /\ torn' = (torn \/ task[d].state = "ReflectAndCommit")
      /\ UNCHANGED <<contacts, started, peers>>
  BY DEF Disconnect, ReflectsIn
<1>2. /\ task \in [Devices -> Tasks] /\ reflectId \in [Devices -> Nat \cup {NoContext}]
      /\ outbox \in [Devices -> Seq(Requests)] /\ inbox \in [Devices -> Seq(Answers)]
      /\ \A e \in Devices : inbox[e] \in Seq(Answers)
  BY DEF TypeOK
<1>3. NoResponse(inbox'[d]) /\ inbox'[d] \in Seq(Answers)
  BY <1>1, <1>2, KeptResponds
<1>4. Linked' = Linked
  <2>1. NoContext # 0
    BY TransactionAssumption
  <2>2. \A e \in Devices : reflectId'[e] # NoContext <=> reflectId[e] # NoContext
    BY <1>1, <1>2, <2>1 DEF Linked
  <2>3. QED
    BY <2>2 DEF Linked
<1>5. /\ Message("TransactionEnded") \in Answers
      /\ Message("TransactionEnded").type = "TransactionEnded"
  BY Messages
<1>6. \A e \in Devices : e # d => Receiving(e)
  <2>1. Nobody \notin Devices
    BY TransactionAssumption
  <2>2. QED
    BY <1>1, <1>2, <1>5, <2>1 DEF Receiving, Responses
<1>7. \A e \in Devices : Quiet(inbox[e], inbox'[e])
  BY <1>1, <1>5 DEF Quiet
<1>8. TypeOK'
  <2>1. task' \in [Devices -> Tasks]
    BY <1>1, <1>2, NewTasks, <<>> \in Seq(Contacts), "Create" \in {"Create", "Update"}
  <2>2. outbox' \in [Devices -> Seq(Requests)]
    BY <1>1, <1>2
  <2>3. reflectId' \in [Devices -> Nat \cup {NoContext}]
    BY <1>1, <1>2
  <2>4. inbox' \in [Devices -> Seq(Answers)]
    <3>1. \A e \in Devices : Append(inbox[e], Message("TransactionEnded")) \in Seq(Answers)
      BY <1>2, <1>5
    <3>2. QED
      BY <1>1, <1>2, <1>3, <3>1
  <2>5. faults' \in 0 .. MaxFaults /\ torn' \in BOOLEAN /\ holder' \in Devices \cup {Nobody}
    BY <1>1, TransactionAssumption DEF TypeOK
  <2>6. QED
    BY <1>1, <2>1, <2>2, <2>3, <2>4, <2>5 DEF TypeOK
<1>9. task'[d].state = "Done" /\ outbox'[d] = <<>> /\ holder' # d
  <2>1. NoTask.state = "Done"
    BY NewTasks, <<>> \in Seq(Contacts), "Create" \in {"Create", "Update"}
  <2>2. task'[d] = NoTask /\ outbox'[d] = <<>>
    BY <1>1, <1>2
  <2>3. holder' # d
    BY <1>1, TransactionAssumption
  <2>4. QED
    BY <2>1, <2>2, <2>3
<1>10. PhaseOf(d)'
  <2>1. CASE d \in Linked
    BY <1>3, <1>4, <1>9, <2>1 DEF PhaseOf, Phase
  <2>2. CASE d \notin Linked
    <3>1. inbox[d] = <<>>
      BY <2>2 DEF PhasesFit, PhaseOf
    <3>2. inbox'[d] = <<>>
      <4>1. Kept(<<>>, ReflectsIn(<<>>)) = <<>>
        <5>1. <<>> \in Seq(Answers)
          OBVIOUS
        <5>2. \A s \in Seq(Answers) : Len(s) <= 0 => s = <<>>
          OBVIOUS
        <5>3. Len(Kept(<<>>, ReflectsIn(<<>>))) <= Len(<<>>)
          BY <5>1, KeptPicks DEF Picks
        <5>4. QED
          BY <5>1, <5>2, <5>3, KeptResponds, Len(<<>>) = 0
      <4>2. QED
        BY <1>1, <3>1, <4>1
    <3>3. QED
      BY <1>4, <1>9, <2>2, <3>2 DEF PhaseOf
  <2>3. QED
    BY <2>1, <2>2
<1>11. Still(task[d], outbox[d], task'[d], outbox'[d], torn')
  <2>1. NoReflect(outbox'[d])
    BY <1>9 DEF NoReflect
  <2>2. task[d].state # "ReflectAndCommit" \/ torn'
    BY <1>1
  <2>3. QED
    BY <1>9, <2>1, <2>2 DEF Still
<1>12. QED
  BY <1>1, <1>4, <1>6, <1>7, <1>8, <1>10, <1>11, QuietStep

\* To concatenate one message is to append it.
LEMMA ConcatOne ==
    ASSUME NEW E, NEW s \in Seq(E), NEW message \in E
    PROVE  s \o <<message>> = Append(s, message) /\ s \o <<>> = s
OBVIOUS

\* The mediator takes the first message of an outbox and puts its answers into the
\* inboxes.
LEMMA Serving ==
    ASSUME TransactionInv, NEW d \in Devices, outbox[d] # <<>>, Served(d)
    PROVE  /\ d \in Linked /\ Phase(task[d].state, outbox[d], inbox[d], holder = d)
           /\ task[d].state \in States
           /\ outbox[d] \in Seq(Requests) /\ Head(outbox[d]) \in Requests
           /\ outbox' \in [Devices -> Seq(Requests)]
           /\ outbox'[d] = Tail(outbox[d])
           /\ \A e \in Devices : e # d => outbox'[e] = outbox[e]
           /\ \A e \in Devices : inbox[e] \in Seq(Answers)
<1>1. d \in Linked /\ Phase(task[d].state, outbox[d], inbox[d], holder = d)
  BY DEF TransactionInv, PhasesFit, PhaseOf
<1>2. /\ outbox \in [Devices -> Seq(Requests)] /\ outbox[d] \in Seq(Requests)
      /\ \A e \in Devices : inbox[e] \in Seq(Answers)
      /\ task[d].state \in States
  BY DEF TransactionInv, TypeOK, Tasks, States
<1>3. Tail(outbox[d]) \in Seq(Requests) /\ Head(outbox[d]) \in Requests
  BY <1>2, Taken
<1>4. QED
  BY <1>1, <1>2, <1>3 DEF Served

\* The mediator gives the transaction to one device and rejects the others.
LEMMA ServeBeginKeeps ==
    ASSUME TransactionInv, NEW d \in Devices, ServeBegin(d)
    PROVE  TransactionInv'
<1> USE DEF TransactionInv
<1> DEFINE answer == Message(IF holder = Nobody THEN "BeginTransactionAck"
                             ELSE "TransactionRejected")
<1>1. /\ outbox[d] # <<>> /\ Head(outbox[d]).type = "BeginTransaction" /\ Served(d)
      /\ holder' = IF holder = Nobody THEN d ELSE holder
      /\ inbox' = [e \in Devices |->
                      IF e = d THEN inbox[e] \o <<answer>>
                      ELSE IF e \in Linked THEN inbox[e] \o <<>> ELSE inbox[e]]
      /\ UNCHANGED <<contacts, task, reflectId, torn>>
      /\ UNCHANGED <<started, peers, faults>>
  BY DEF ServeBegin, Serves, Answer, deviceVars, counters
<1>2. /\ answer \in Answers
      /\ answer.type = IF holder = Nobody THEN "BeginTransactionAck" ELSE "TransactionRejected"
  BY Messages
<1> HIDE DEF answer
<1>3. /\ d \in Linked /\ Phase(task[d].state, outbox[d], inbox[d], holder = d)
      /\ task[d].state \in States
      /\ outbox[d] \in Seq(Requests)
      /\ outbox' \in [Devices -> Seq(Requests)] /\ outbox'[d] = Tail(outbox[d])
      /\ \A e \in Devices : e # d => outbox'[e] = outbox[e]
      /\ \A e \in Devices : inbox[e] \in Seq(Answers)
  BY <1>1, Serving
<1>4. /\ Asks(outbox[d]) /\ outbox'[d] = <<>> /\ NoReflect(outbox[d])
      /\ task[d].state \in {"BeginTransaction", "Error"}
      /\ task[d].state = "BeginTransaction" => NoResponse(inbox[d]) /\ holder # d
  <2>1. \/ Asks(outbox[d]) /\ task[d].state \in {"BeginTransaction", "Error"}
        \/ Committing(outbox[d])
    BY <1>1, <1>3, OutboxInPhase
  <2>2. ~Committing(outbox[d])
    BY <1>1, <1>3, OutboxTaken
  <2>3. task[d].state = "BeginTransaction" => NoResponse(inbox[d]) /\ holder # d
    BY <1>1, <1>3, OutboxInPhase
  <2>4. QED
    BY <1>1, <1>3, <2>1, <2>2, <2>3, OutboxTaken
<1>5. Linked' = Linked
  BY <1>1 DEF Linked
<1>6. inbox'[d] = Append(inbox[d], answer) /\ \A e \in Devices : e # d => inbox'[e] = inbox[e]
  BY <1>1, <1>2, <1>3, ConcatOne
<1>7. TypeOK'
  <2>1. ASSUME NEW e \in Devices
        PROVE  inbox'[e] \in Seq(Answers)
    <3>1. inbox[e] \in Seq(Answers) /\ Append(inbox[e], answer) \in Seq(Answers)
      BY <1>2, <1>3
    <3>2. QED
      BY <1>6, <3>1
  <2>2. inbox' \in [Devices -> Seq(Answers)]
    BY <1>1, <2>1
  <2>3. QED
    BY <1>1, <1>3, <2>2 DEF TypeOK
<1>8. \A e \in Devices : e # d => Receiving(e)
  <2>1. Nobody \notin Devices
    BY TransactionAssumption
  <2>2. ASSUME NEW e \in Devices, e # d
        PROVE  (holder' = e) = (holder = e)
    BY <1>1, <2>1, <2>2
  <2>3. QED
    BY <1>1, <1>3, <1>6, <2>2 DEF Receiving
<1>9. \A e \in Devices : Quiet(inbox[e], inbox'[e])
  BY <1>2, <1>6 DEF Quiet
<1>10. Phase(task[d].state, <<>>, Append(inbox[d], answer), holder' = d)
  <2>1. CASE task[d].state = "Error"
    BY <2>1 DEF Phase
  <2>2. CASE task[d].state = "BeginTransaction"
    <3> DEFINE more == Append(inbox[d], answer)
    <3>1. OnlyResponse(more, Len(more), answer.type)
      BY <1>2, <1>3, <1>4, <2>2, Responds
    <3>2. /\ Len(more) \in 1 .. Len(more) /\ more[Len(more)] = answer
          /\ \A l \in Len(more) .. Len(more) : l = Len(more)
      BY <1>2, <1>3, Appended
    <3>3. answer.type # "Reflect"
      BY <1>2
    <3> HIDE DEF more
    <3>4. CASE holder = Nobody
      <4>1. Begins(<<>>, more, TRUE)
        BY <1>2, <3>1, <3>2, <3>3, <3>4 DEF Begins
      <4>2. (holder' = d) = TRUE
        BY <1>1, <3>4
      <4>3. QED
        BY <2>2, <4>1, <4>2 DEF Phase, more
    <3>5. CASE holder # Nobody
      <4>1. Begins(<<>>, more, FALSE)
        BY <1>2, <3>1, <3>2, <3>5 DEF Begins
      <4>2. (holder' = d) = FALSE
        BY <1>1, <1>4, <2>2, <3>5
      <4>3. QED
        BY <2>2, <4>1, <4>2 DEF Phase, more
    <3>6. QED
      BY <3>4, <3>5
  <2>3. QED
    BY <1>4, <2>1, <2>2
<1>11. PhaseOf(d)'
  BY <1>1, <1>3, <1>4, <1>5, <1>6, <1>10 DEF PhaseOf
<1>12. Still(task[d], outbox[d], task'[d], outbox'[d], torn')
  BY <1>1, <1>4 DEF Still
<1>13. QED
  BY <1>1, <1>5, <1>7, <1>8, <1>9, <1>11, <1>12, QuietStep

\* The mediator ends the transaction of the device that holds it.
LEMMA ServeCommitKeeps ==
    ASSUME TransactionInv, NEW d \in Devices, ServeCommit(d)
    PROVE  TransactionInv'
<1> USE DEF TransactionInv
<1> DEFINE answer == Message("CommitTransactionAck")
           ended == Message("TransactionEnded")
<1>1. /\ outbox[d] # <<>> /\ Head(outbox[d]).type = "CommitTransaction" /\ Served(d)
      /\ holder' = IF holder = d THEN Nobody ELSE holder
      /\ inbox' = [e \in Devices |->
                      IF e = d THEN inbox[e] \o <<answer>>
                      ELSE IF e \in Linked THEN inbox[e] \o <<ended>> ELSE inbox[e]]
      /\ UNCHANGED <<contacts, task, reflectId, torn>>
      /\ UNCHANGED <<started, peers, faults>>
  BY DEF ServeCommit, Serves, Answer, deviceVars, counters
<1>2. /\ answer \in Answers /\ answer.type = "CommitTransactionAck"
      /\ ended \in Answers /\ ended.type = "TransactionEnded"
  BY Messages
<1> HIDE DEF answer, ended
<1>3. /\ d \in Linked /\ Phase(task[d].state, outbox[d], inbox[d], holder = d)
      /\ task[d].state \in States
      /\ outbox[d] \in Seq(Requests)
      /\ outbox' \in [Devices -> Seq(Requests)] /\ outbox'[d] = Tail(outbox[d])
      /\ \A e \in Devices : e # d => outbox'[e] = outbox[e]
      /\ \A e \in Devices : inbox[e] \in Seq(Answers)
  BY <1>1, Serving
<1>4. /\ Committing(outbox[d]) /\ outbox'[d] = <<>> /\ NoReflect(outbox[d]) /\ holder = d
      /\ task[d].state \in {"AbortTransaction", "ReflectAndCommit", "Error"}
      /\ task[d].state # "Error" => NoResponse(inbox[d]) /\ NoReflect(inbox[d])
  <2>1. \/ Asks(outbox[d])
        \/ /\ Committing(outbox[d]) /\ holder = d
           /\ task[d].state \in {"AbortTransaction", "ReflectAndCommit", "Error"}
    BY <1>1, <1>3, OutboxInPhase
  <2>2. ~Asks(outbox[d])
    BY <1>1, <1>3, OutboxTaken
  <2>3. task[d].state # "Error" => NoResponse(inbox[d]) /\ NoReflect(inbox[d])
    BY <1>1, <1>3, <2>1, <2>2, OutboxInPhase
  <2>4. QED
    BY <1>1, <1>3, <2>1, <2>2, <2>3, OutboxTaken
<1>5. Linked' = Linked
  BY <1>1 DEF Linked
<1>6. /\ inbox'[d] = Append(inbox[d], answer)
      /\ \A e \in Devices : e # d =>
            inbox'[e] = IF e \in Linked THEN Append(inbox[e], ended) ELSE inbox[e]
  <2>1. \A e \in Devices : /\ inbox[e] \o <<answer>> = Append(inbox[e], answer)
                           /\ inbox[e] \o <<ended>> = Append(inbox[e], ended)
    BY <1>2, <1>3, ConcatOne
  <2>2. QED
    BY <1>1, <2>1
<1>7. TypeOK'
  <2>1. ASSUME NEW e \in Devices
        PROVE  inbox'[e] \in Seq(Answers)
    <3>1. inbox[e] \in Seq(Answers) /\ Append(inbox[e], answer) \in Seq(Answers)
      BY <1>2, <1>3
    <3>2. Append(inbox[e], ended) \in Seq(Answers)
      BY <1>2, <1>3
    <3>3. QED
      BY <1>6, <3>1, <3>2
  <2>2. inbox' \in [Devices -> Seq(Answers)]
    BY <1>1, <2>1
  <2>3. QED
    BY <1>1, <1>3, <2>2 DEF TypeOK
<1>8. \A e \in Devices : e # d => Receiving(e)
  <2>1. Nobody \notin Devices
    BY TransactionAssumption
  <2>2. ASSUME NEW e \in Devices, e # d
        PROVE  (holder' = e) = (holder = e)
    BY <1>1, <2>1, <2>2
  <2>3. ended.type \notin Responses /\ ended.type # "Reflect"
    BY <1>2 DEF Responses
  <2>4. QED
    BY <1>1, <1>2, <1>3, <1>6, <2>2, <2>3 DEF Receiving
<1>9. \A e \in Devices : Quiet(inbox[e], inbox'[e])
  BY <1>2, <1>6 DEF Quiet
<1>10. Phase(task[d].state, <<>>, Append(inbox[d], answer), FALSE)
  <2>1. CASE task[d].state = "Error"
    BY <2>1 DEF Phase
  <2>2. CASE task[d].state \in {"AbortTransaction", "ReflectAndCommit"}
    <3> DEFINE more == Append(inbox[d], answer)
    <3>1. OnlyResponse(more, Len(more), answer.type) /\ NoReflect(more)
      BY <1>2, <1>3, <1>4, <2>2, Responds
    <3>2. Len(more) \in 1 .. Len(more)
      BY <1>2, <1>3, Appended
    <3> HIDE DEF more
    <3>3. Commits(<<>>, more, FALSE)
      BY <1>2, <3>1, <3>2 DEF Commits, NoReflect
    <3>4. QED
      BY <2>2, <3>3 DEF Phase, more
  <2>3. QED
    BY <1>4, <2>1, <2>2
<1>11. PhaseOf(d)'
  <2>1. (holder' = d) = FALSE
    BY <1>1, <1>4, TransactionAssumption
  <2>2. QED
    BY <1>1, <1>3, <1>4, <1>5, <1>6, <1>10, <2>1 DEF PhaseOf
<1>12. Still(task[d], outbox[d], task'[d], outbox'[d], torn')
  BY <1>1, <1>4 DEF Still
<1>13. QED
  BY <1>1, <1>5, <1>7, <1>8, <1>9, <1>11, <1>12, QuietStep

\* A step that changes one device only
LEMMA LocalStep ==
    ASSUME TransactionInv, NEW d \in Linked, Linked' = Linked,
           \A e \in Linked : e # d =>
               /\ inbox'[e] = inbox[e] /\ outbox'[e] = outbox[e]
               /\ contacts'[e] = contacts[e] /\ task'[e] = task[e],
           \A known \in SUBSET Identities :
               Knows(known, inbox[d], contacts[d]) /\ SendsKnown(known, outbox[d]) =>
               Knows(known, inbox'[d], contacts'[d]) /\ SendsKnown(known, outbox'[d]),
           UpdatesFit(inbox'[d], contacts'[d]),
           BatchKnown(task'[d], contacts'[d]),
           torn => torn',
           ~torn' => InOrder(task'[d], outbox'[d]),
           \A group :
               (~torn' /\ AgreesOn(group, inbox[d], contacts[d], task[d], outbox[d])) =>
               AgreesOn(group, inbox'[d], contacts'[d], task'[d], outbox'[d])
    PROVE  ReflectedFits' /\ Agreement'
<1> USE DEF TransactionInv
<1>1. PICK known \in SUBSET Identities : \A e \in Linked :
         Knows(known, inbox[e], contacts[e]) /\ SendsKnown(known, outbox[e])
  BY DEF ReflectedFits
<1>2. \A e \in Linked : Knows(known, inbox'[e], contacts'[e]) /\ SendsKnown(known, outbox'[e])
  BY <1>1
<1>3. \A e \in Linked : UpdatesFit(inbox'[e], contacts'[e]) /\ BatchKnown(task'[e], contacts'[e])
  BY DEF ReflectedFits
<1>4. ReflectedFits'
  BY <1>2, <1>3 DEF ReflectedFits
<1>5. ASSUME ~torn'
      PROVE  /\ \E group \in [Identities -> Values \cup {Absent}] : \A e \in Linked :
                   AgreesOn(group, inbox'[e], contacts'[e], task'[e], outbox'[e])
             /\ \A e \in Linked : InOrder(task'[e], outbox'[e])
  <2>1. /\ \E group \in [Identities -> Values \cup {Absent}] : \A e \in Linked :
              AgreesOn(group, inbox[e], contacts[e], task[e], outbox[e])
        /\ \A e \in Linked : InOrder(task[e], outbox[e])
    BY <1>5 DEF Agreement
  <2>2. PICK group \in [Identities -> Values \cup {Absent}] : \A e \in Linked :
           AgreesOn(group, inbox[e], contacts[e], task[e], outbox[e])
    BY <2>1
  <2>3. \A e \in Linked : AgreesOn(group, inbox'[e], contacts'[e], task'[e], outbox'[e])
    BY <1>5, <2>2
  <2>4. QED
    BY <1>5, <2>1, <2>3
<1>6. Agreement'
  BY <1>5 DEF Agreement
<1>7. QED
  BY <1>4, <1>6

\* A reflected message moves from the inbox into the contacts.
LEMMA ApplyReflectedKeeps ==
    ASSUME TransactionInv, NEW d \in Devices, ApplyReflected(d)
    PROVE  TransactionInv'
<1> USE DEF TransactionInv
<1> DEFINE message == Head(inbox[d])
<1>1. /\ inbox[d] # <<>> /\ message.type = "Reflect" /\ Consume(d)
      /\ contacts' = [contacts EXCEPT ![d] = Applied(contacts[d], message)]
      /\ UNCHANGED <<task, reflectId, outbox, holder, torn>>
      /\ UNCHANGED <<started, peers, faults>>
  BY DEF ApplyReflected, Receives, counters
<1>2. /\ d \in Linked /\ Phase(task[d].state, outbox[d], inbox[d], holder = d)
      /\ inbox[d] \in Seq(Answers) /\ message \in Answers
      /\ inbox' \in [Devices -> Seq(Answers)] /\ inbox'[d] = Tail(inbox[d])
      /\ \A e \in Devices : e # d => inbox'[e] = inbox[e]
  BY <1>1, Consumes
<1>3. message.identity \in Identities /\ message.value \in Values \cup {Absent}
  BY <1>1, <1>2, ReflectedMessage
<1>4. /\ Len(inbox[d]) \in 1 .. Len(inbox[d]) /\ Len(inbox'[d]) = Len(inbox[d]) - 1
      /\ 1 \in 1 .. Len(inbox[d]) /\ message = inbox[d][1] /\ Len(inbox[d]) \in Nat
  BY <1>1, <1>2, Taken
<1> HIDE DEF message
<1>5. Phase(task[d].state, outbox[d], inbox'[d], holder = d)
  BY <1>1, <1>2, PhaseTaken DEF Responses, message
<1>6. task[d].state # "ReflectAndCommit"
  <2>1. ASSUME NEW k \in 1 .. Len(inbox[d]), \A l \in 1 .. k : inbox[d][l].type # "Reflect"
        PROVE  FALSE
    <3>1. 1 \in 1 .. k
      OBVIOUS
    <3>2. QED
      BY <1>1, <1>4, <2>1, <3>1
  <2>2. ~NoReflect(inbox[d])
    BY <1>1, <1>4 DEF NoReflect
  <2>3. QED
    BY <1>2, <2>1, <2>2 DEF Phase, Commits
<1>7. Linked' = Linked
  BY <1>1 DEF Linked
<1>8. /\ contacts' \in [Devices -> [Identities -> Values \cup {Absent}]]
      /\ \A e \in Devices : e # d => contacts'[e] = contacts[e]
      /\ \A i \in Identities :
            contacts'[d][i] = IF Writes(message, i) THEN message.value ELSE contacts[d][i]
  <2>1. contacts \in [Devices -> [Identities -> Values \cup {Absent}]]
    BY DEF TypeOK
  <2>2. Applied(contacts[d], message) \in [Identities -> Values \cup {Absent}]
    BY <1>3, <2>1 DEF Applied
  <2>3. contacts'[d] = Applied(contacts[d], message)
    BY <1>1, <2>1
  <2>4. \A i \in Identities :
           contacts'[d][i] = IF Writes(message, i) THEN message.value ELSE contacts[d][i]
    BY <1>1, <1>3, <2>1, <2>3 DEF Applied, Writes
  <2>5. QED
    BY <1>1, <2>1, <2>2, <2>4
<1>9. TypeOK'
  BY <1>1, <1>2, <1>8 DEF TypeOK
<1>10. PhasesFit'
  <2>1. PhaseOf(d)'
    BY <1>1, <1>2, <1>5, <1>7 DEF PhaseOf
  <2>2. \A e \in Devices : e # d => Receiving(e)
    BY <1>1, <1>2 DEF Receiving
  <2>3. QED
    BY <1>7, <2>1, <2>2, StepFits
<1>11. ASSUME NEW i \in Identities, NEW V,
              EndsIn(inbox[d], Len(inbox[d]), i, contacts[d][i], V)
       PROVE  EndsIn(inbox'[d], Len(inbox'[d]), i, contacts'[d][i], V)
  <2>1. EndsIn(Tail(inbox[d]), Len(inbox[d]) - 1, i,
               IF Writes(message, i) THEN message.value ELSE contacts[d][i], V)
    BY <1>1, <1>2, <1>4, <1>11, EndsInTail DEF message
  <2>2. QED
    BY <1>2, <1>4, <1>8, <2>1
<1>12. UpdatesFit(inbox'[d], contacts'[d])
  <2>1. UpdatesFit(inbox[d], contacts[d])
    BY <1>2 DEF ReflectedFits
  <2>2. After(contacts[d], Head(inbox[d]), contacts'[d])
    BY <1>8 DEF message, After
  <2>3. UpdatesFit(Tail(inbox[d]), contacts'[d])
    BY <1>1, <1>2, <2>1, <2>2, TailFits
  <2>4. QED
    BY <1>2, <2>3
<1>13. \A known \in SUBSET Identities :
          Knows(known, inbox[d], contacts[d]) => Knows(known, inbox'[d], contacts'[d])
  BY <1>11 DEF Knows
<1>14. BatchKnown(task'[d], contacts'[d])
  BY <1>1, <1>6 DEF BatchKnown
<1>15. ~torn' => InOrder(task'[d], outbox'[d])
  BY <1>1, <1>2 DEF Agreement
<1>16. ASSUME NEW group, AgreesOn(group, inbox[d], contacts[d], task[d], outbox[d])
       PROVE  AgreesOn(group, inbox'[d], contacts'[d], task'[d], outbox'[d])
  <2>1. \A i \in Identities : StoredAs(task[d], contacts[d], i) = contacts[d][i]
                              /\ StoredAs(task[d], contacts'[d], i) = contacts'[d][i]
    BY <1>6 DEF StoredAs
  <2>2. QED
    BY <1>1, <1>11, <1>16, <2>1 DEF AgreesOn
<1>17. ReflectedFits' /\ Agreement'
  <2>1. \A e \in Linked : e # d =>
               /\ inbox'[e] = inbox[e] /\ outbox'[e] = outbox[e]
               /\ contacts'[e] = contacts[e] /\ task'[e] = task[e]
    BY <1>1, <1>2, <1>8 DEF Linked
  <2>2. QED
    BY <1>1, <1>2, <1>7, <1>12, <1>13, <1>14, <1>15, <1>16, <2>1, LocalStep
<1>18. QED
  BY <1>9, <1>10, <1>17

\* Only the device that holds the transaction reflects.
LEMMA OthersAreQuiet ==
    ASSUME TransactionInv, NEW d \in Linked, holder # d
    PROVE  NoReflect(outbox[d])
<1>1. Phase(task[d].state, outbox[d], inbox[d], holder = d)
  BY DEF TransactionInv, PhasesFit, PhaseOf, Linked
<1>2. outbox[d] \in Seq(Requests) /\ task[d].state \in States
  BY DEF TransactionInv, TypeOK, Linked, Tasks, States
<1>3. CASE outbox[d] = <<>>
  BY <1>3 DEF NoReflect
<1>4. CASE outbox[d] # <<>>
  <2>1. Asks(outbox[d])
    BY <1>1, <1>2, <1>4, OutboxInPhase
  <2>2. Head(outbox[d]).type = "BeginTransaction"
    BY <1>2, <1>4, <2>1, OutboxTaken
  <2>3. QED
    BY <1>2, <1>4, <2>1, <2>2, OutboxTaken
<1>5. QED
  BY <1>3, <1>4

\* A transaction of a peer reaches every linked device while no device reflects:
\* the group changes with it.
LEMMA PeerTransactionKeeps ==
    ASSUME TransactionInv, NEW identity \in Identities, NEW value \in Values \cup {Absent},
           PeerTransaction(identity, value)
    PROVE  TransactionInv'
<1> USE DEF TransactionInv
<1> DEFINE message == Reflect(0, IF value = Absent THEN "Delete" ELSE "Create",
                              [identity |-> identity, value |-> value])
<1>1. /\ holder = Nobody /\ peers < MaxPeers /\ peers' = peers + 1
      /\ inbox' = [d \in Devices |->
                      IF d \in Linked THEN Append(inbox[d], message) ELSE inbox[d]]
      /\ UNCHANGED <<contacts, task, reflectId, outbox, holder, started, faults, torn>>
  BY DEF PeerTransaction, deviceVars
<1>2. /\ message \in Answers /\ message.type = "Reflect" /\ message.action # "Update"
      /\ message.identity = identity /\ message.value = value
  BY DEF Reflect, Answers, Reflected
<1> HIDE DEF message
<1>3. \A d \in Devices : /\ inbox[d] \in Seq(Answers)
                         /\ contacts[d] \in [Identities -> Values \cup {Absent}]
  BY DEF TypeOK
<1>4. \A d \in Linked : d \in Devices /\ inbox'[d] = Append(inbox[d], message)
  BY <1>1 DEF Linked
<1>5. Linked' = Linked
  BY <1>1 DEF Linked
<1>6. TypeOK'
  <2>1. ASSUME NEW d \in Devices
        PROVE  inbox'[d] \in Seq(Answers)
    <3>1. inbox[d] \in Seq(Answers) /\ Append(inbox[d], message) \in Seq(Answers)
      BY <1>2, <1>3
    <3>2. QED
      BY <1>1, <3>1
  <2>2. inbox' \in [Devices -> Seq(Answers)]
    BY <1>1, <2>1
  <2>3. QED
    BY <1>1, <2>2, TransactionAssumption DEF TypeOK
<1>7. \A d \in Linked : holder # d /\ NoReflect(outbox[d])
  BY <1>1, OthersAreQuiet, TransactionAssumption DEF Linked
<1>8. PhasesFit'
  <2>1. ASSUME NEW d \in Devices
        PROVE  PhaseOf(d)'
    <3>1. CASE d \in Linked
      <4>1. Phase(task[d].state, outbox[d], inbox[d], holder = d)
        BY <3>1 DEF PhasesFit, PhaseOf
      <4>2. Phase(task[d].state, outbox[d], Append(inbox[d], message), holder = d)
        BY <1>2, <1>3, <1>7, <3>1, <4>1, PhaseAppended DEF Responses
      <4>3. QED
        BY <1>1, <1>4, <1>5, <3>1, <4>2 DEF PhaseOf
    <3>2. CASE d \notin Linked
      BY <1>1, <1>5, <3>2 DEF PhasesFit, PhaseOf
    <3>3. QED
      BY <3>1, <3>2
  <2>2. QED
    BY <2>1 DEF PhasesFit
<1>9. ASSUME NEW d \in Linked, NEW i \in Identities, NEW stored, NEW V, NEW U,
             EndsIn(inbox[d], Len(inbox[d]), i, stored, V),
             IF i = identity THEN value \in U ELSE U = V
      PROVE  EndsIn(inbox'[d], Len(inbox'[d]), i, stored, U)
  <2>1. inbox[d] \in Seq(Answers) /\ inbox'[d] = Append(inbox[d], message)
    BY <1>3, <1>4
  <2>2. CASE i = identity
    BY <1>2, <1>9, <2>1, <2>2, EndsInWrite DEF Writes
  <2>3. CASE i # identity
    BY <1>2, <1>9, <2>1, <2>3, EndsInOther DEF Writes
  <2>4. QED
    BY <2>2, <2>3
<1>10. ReflectedFits'
  <2>1. PICK known \in SUBSET Identities : \A d \in Linked :
           Knows(known, inbox[d], contacts[d]) /\ SendsKnown(known, outbox[d])
    BY DEF ReflectedFits
  <2> DEFINE after == IF value = Absent THEN known \ {identity} ELSE known \cup {identity}
  <2>2. /\ after \in SUBSET Identities /\ value \in Present(after, identity)
        /\ \A i \in Identities : i # identity => Present(after, i) = Present(known, i)
    BY DEF Present
  <2> HIDE DEF after
  <2>3. \A d \in Linked : Knows(after, inbox'[d], contacts[d])
    BY <1>9, <2>1, <2>2 DEF Knows
  <2>4. \A d \in Linked : SendsKnown(after, outbox[d])
    BY <1>7 DEF NoReflect, SendsKnown
  <2>5. \A d \in Linked : UpdatesFit(inbox'[d], contacts[d])
    BY <1>2, <1>3, <1>4, AppendedFits DEF ReflectedFits
  <2>6. QED
    BY <1>1, <1>5, <2>2, <2>3, <2>4, <2>5 DEF ReflectedFits
<1>11. ASSUME ~torn
       PROVE  /\ \E group \in [Identities -> Values \cup {Absent}] : \A d \in Linked :
                    AgreesOn(group, inbox'[d], contacts[d], task[d], outbox[d])
              /\ \A d \in Linked : InOrder(task[d], outbox[d])
  <2>1. /\ \E group \in [Identities -> Values \cup {Absent}] : \A d \in Linked :
              AgreesOn(group, inbox[d], contacts[d], task[d], outbox[d])
        /\ \A d \in Linked : InOrder(task[d], outbox[d])
    BY <1>11 DEF Agreement
  <2>2. PICK group \in [Identities -> Values \cup {Absent}] : \A d \in Linked :
           AgreesOn(group, inbox[d], contacts[d], task[d], outbox[d])
    BY <2>1
  <2> DEFINE after == [group EXCEPT ![identity] = value]
  <2>3. /\ after \in [Identities -> Values \cup {Absent}] /\ after[identity] = value
        /\ \A i \in Identities : i # identity => after[i] = group[i]
    OBVIOUS
  <2> HIDE DEF after
  <2>4. ASSUME NEW d \in Linked, NEW i \in Identities
        PROVE  EndsIn(inbox'[d], Len(inbox'[d]), i, StoredAs(task[d], contacts[d], i), {after[i]})
    <3>1. EndsIn(inbox[d], Len(inbox[d]), i, StoredAs(task[d], contacts[d], i), {group[i]})
      BY <1>7, <2>2 DEF AgreesOn, NoReflect, Writes
    <3>2. IF i = identity THEN value \in {after[i]} ELSE {after[i]} = {group[i]}
      BY <2>3
    <3>3. QED
      BY <1>9, <3>1, <3>2
  <2>5. \A d \in Linked : AgreesOn(after, inbox'[d], contacts[d], task[d], outbox[d])
    BY <2>4 DEF AgreesOn
  <2>6. QED
    BY <2>1, <2>3, <2>5
<1>12. Agreement'
  BY <1>1, <1>5, <1>11 DEF Agreement
<1>13. QED
  BY <1>6, <1>8, <1>10, <1>12

\* The last message that reflects a contact carries what its device stores.
LEMMA LastIsStored ==
    ASSUME NEW batch \in Seq(Contacts), NEW out \in Seq(Requests), out # <<>>,
           Committing(out), Head(out).type = "Reflect", Remaining(batch, out),
           ~ \E k \in 1 .. Len(Tail(out)) : Writes(Tail(out)[k], Head(out).identity)
    PROVE  /\ Holds(batch, Head(out).identity)
           /\ ValueIn(batch, Head(out).identity) = Head(out).value
<1> DEFINE i == Head(out).identity
           rest == Tail(out)
           p == Len(batch) + 2 - Len(out)
<1>1. /\ Len(out) \in Nat \ {0} /\ Head(out) = out[1] /\ Len(rest) = Len(out) - 1
      /\ \A k \in 1 .. Len(out) - 1 : rest[k] = out[k + 1]
      /\ Len(batch) \in Nat
  BY Taken
<1> HIDE DEF rest
<1>2. Len(out) # 1 /\ Len(out) <= Len(batch) + 1
  BY <1>1 DEF Committing, Remaining
<1>3. p \in 1 .. Len(batch) /\ 1 \in 1 .. Len(out) - 1
  BY <1>1, <1>2
<1>4. Len(batch) + 1 - Len(out) + 1 = p
  BY <1>1
<1>5. out[1].identity = batch[p].identity /\ out[1].value = batch[p].value
  BY <1>3, <1>4 DEF Remaining
<1>6. Holds(batch, i)
  BY <1>1, <1>3, <1>5 DEF Holds
<1>7. PICK k \in 1 .. Len(batch) :
          /\ batch[k].identity = i
          /\ \A l \in k + 1 .. Len(batch) : batch[l].identity # i
          /\ ValueIn(batch, i) = batch[k].value
  BY <1>6, LastOfBatch
<1>8. ~(k < p)
  BY <1>1, <1>3, <1>5, <1>7
<1>9. ASSUME p < k
      PROVE  FALSE
  <2> DEFINE j == k + Len(out) - Len(batch) - 1
  <2>1. j \in 2 .. Len(out) - 1 /\ Len(batch) + 1 - Len(out) + j = k
    BY <1>1, <1>2, <1>9
  <2> HIDE DEF j
  <2>2. j \in 1 .. Len(out) - 1
    BY <2>1
  <2>3. out[j].identity = batch[k].identity
    BY <2>1, <2>2 DEF Remaining
  <2>4. out[j].type = "Reflect"
    BY <2>2 DEF Committing
  <2>5. j - 1 \in 1 .. Len(rest) /\ j - 1 \in 1 .. Len(out) - 1 /\ (j - 1) + 1 = j
    BY <1>1, <2>1
  <2>6. Writes(rest[j - 1], i)
    BY <1>1, <1>7, <2>3, <2>4, <2>5 DEF Writes
  <2>7. QED
    BY <2>5, <2>6 DEF rest
<1>10. k = p
  BY <1>1, <1>3, <1>8, <1>9
<1>11. QED
  BY <1>1, <1>5, <1>6, <1>7, <1>10

\* What remains to be sent is the end of the batch, with one message less too.
LEMMA RemainingTail ==
    ASSUME NEW batch \in Seq(Contacts), NEW out \in Seq(Requests), out # <<>>,
           Remaining(batch, out)
    PROVE  Remaining(batch, Tail(out))
<1> DEFINE rest == Tail(out)
<1>1. /\ Len(out) \in Nat \ {0} /\ Len(rest) = Len(out) - 1
      /\ \A k \in 1 .. Len(out) - 1 : rest[k] = out[k + 1]
      /\ Len(batch) \in Nat
  BY Taken
<1> HIDE DEF rest
<1>2. Len(rest) <= Len(batch) + 1
  BY <1>1 DEF Remaining
<1>3. \A k \in 1 .. Len(rest) - 1 :
         /\ k + 1 \in 1 .. Len(out) - 1 /\ k \in 1 .. Len(out) - 1
         /\ Len(batch) + 1 - Len(rest) + k = Len(batch) + 1 - Len(out) + (k + 1)
  BY <1>1
<1>4. QED
  BY <1>1, <1>2, <1>3 DEF Remaining, rest

\* The mediator forwards a message: the last one of its contact decides for all.
LEMMA ServeReflectKeeps ==
    ASSUME TransactionInv, NEW d \in Devices, ServeReflect(d)
    PROVE  TransactionInv'
<1> USE DEF TransactionInv
<1> DEFINE message == Head(outbox[d])
           ack == [type |-> "ReflectAck", id |-> message.id]
           answers == {<<>>, <<ack>>}
<1>1. /\ outbox[d] # <<>> /\ message.type = "Reflect" /\ Served(d)
      /\ \E answer \in answers :
            inbox' = [e \in Devices |->
                         IF e = d THEN inbox[e] \o answer
                         ELSE IF e \in Linked THEN inbox[e] \o <<message>> ELSE inbox[e]]
      /\ faults' \in 0 .. MaxFaults
      /\ UNCHANGED <<contacts, task, reflectId, holder, started, peers, torn>>
  <2>1. /\ outbox[d] # <<>> /\ message.type = "Reflect" /\ Served(d)
        /\ UNCHANGED <<contacts, task, reflectId, holder, started, peers, torn>>
    BY DEF ServeReflect, Serves, deviceVars
  <2>2. \/ Answer(d, <<ack>>, <<message>>) /\ UNCHANGED faults
        \/ faults < MaxFaults /\ faults' = faults + 1 /\ Answer(d, <<>>, <<message>>)
    BY DEF ServeReflect
  <2>3. faults' \in 0 .. MaxFaults
    BY <2>2, TransactionAssumption DEF TypeOK
  <2>4. QED
    BY <2>1, <2>2, <2>3 DEF Answer
<1>2. /\ d \in Linked /\ Phase(task[d].state, outbox[d], inbox[d], holder = d)
      /\ task[d].state \in States
      /\ outbox[d] \in Seq(Requests) /\ message \in Requests
      /\ outbox' \in [Devices -> Seq(Requests)] /\ outbox'[d] = Tail(outbox[d])
      /\ \A e \in Devices : e # d => outbox'[e] = outbox[e]
      /\ \A e \in Devices : inbox[e] \in Seq(Answers)
  BY <1>1, Serving
<1>3. /\ message \in Reflected /\ message \in Answers /\ message.identity \in Identities
      /\ message.id \in Nat
      /\ message.value \in Values \cup {Absent}
      /\ ack \in Answers /\ ack.type = "ReflectAck"
  <2>1. message \in Reflected /\ message.identity \in Identities
        /\ message.value \in Values \cup {Absent}
    BY <1>1, <1>2, ReflectedMessage
  <2>2. message.id \in Nat
    BY <2>1 DEF Reflected
  <2>3. QED
    BY <2>1, <2>2 DEF Answers
<1>4. /\ Committing(outbox[d]) /\ holder = d /\ Committing(outbox'[d])
      /\ task[d].state \in {"AbortTransaction", "ReflectAndCommit", "Error"}
      /\ task[d].state # "Error" => NoResponse(inbox[d]) /\ NoReflect(inbox[d])
  <2>1. \/ Asks(outbox[d])
        \/ /\ Committing(outbox[d]) /\ holder = d
           /\ task[d].state \in {"AbortTransaction", "ReflectAndCommit", "Error"}
    BY <1>1, <1>2, OutboxInPhase
  <2>2. ~Asks(outbox[d])
    BY <1>1, <1>2, OutboxTaken
  <2>3. task[d].state # "Error" => NoResponse(inbox[d]) /\ NoReflect(inbox[d])
    BY <1>1, <1>2, <2>1, <2>2, OutboxInPhase
  <2>4. Committing(outbox'[d])
    BY <1>1, <1>2, <2>1, <2>2, OutboxTaken
  <2>5. QED
    BY <2>1, <2>2, <2>3, <2>4
<1> HIDE DEF ack
<1>5. /\ inbox'[d] = inbox[d] \/ inbox'[d] = Append(inbox[d], ack)
      /\ \A e \in Devices : e # d =>
            inbox'[e] = IF e \in Linked THEN Append(inbox[e], message) ELSE inbox[e]
  <2>1. \A e \in Devices : /\ inbox[e] \o <<ack>> = Append(inbox[e], ack)
                           /\ inbox[e] \o <<message>> = Append(inbox[e], message)
                           /\ inbox[e] \o <<>> = inbox[e]
    BY <1>2, <1>3, ConcatOne
  <2>2. QED
    BY <1>1, <2>1
<1> HIDE DEF message, answers
<1>6. Linked' = Linked /\ \A e \in Linked : e \in Devices
  BY <1>1 DEF Linked
<1>7. TypeOK'
  <2>1. ASSUME NEW e \in Devices
        PROVE  inbox'[e] \in Seq(Answers)
    <3>1. inbox[e] \in Seq(Answers) /\ Append(inbox[e], message) \in Seq(Answers)
          /\ Append(inbox[e], ack) \in Seq(Answers)
      BY <1>2, <1>3
    <3>2. QED
      BY <1>5, <3>1
  <2>2. inbox' \in [Devices -> Seq(Answers)]
    BY <1>1, <2>1
  <2>3. QED
    BY <1>1, <1>2, <2>2 DEF TypeOK
<1>8. Phase(task[d].state, outbox'[d], inbox[d], holder = d)
  <2>1. task[d].state # "Error" => Commits(outbox'[d], inbox[d], holder = d)
    BY <1>4 DEF Commits
  <2>2. QED
    BY <1>4, <2>1 DEF Phase
<1>9. Phase(task[d].state, outbox'[d], inbox'[d], holder = d)
  <2>1. ack.type \notin Responses /\ ack.type # "Reflect"
    BY <1>3 DEF Responses
  <2>2. Phase(task[d].state, outbox'[d], Append(inbox[d], ack), holder = d)
    BY <1>2, <1>3, <1>8, <2>1, PhaseAppended
  <2>3. QED
    BY <1>5, <1>8, <2>2
<1>10. PhasesFit'
  <2>1. PhaseOf(d)'
    BY <1>1, <1>2, <1>6, <1>9 DEF PhaseOf
  <2>2. \A e \in Devices : e # d => Receiving(e)
    BY <1>1, <1>2, <1>3, <1>4, <1>5 DEF Receiving, Responses
  <2>3. QED
    BY <1>6, <2>1, <2>2, StepFits
<1>11. Quiet(inbox[d], inbox'[d])
  BY <1>3, <1>5 DEF Quiet
<1>12. ASSUME NEW e \in Linked, e # d, NEW i \in Identities, NEW stored, NEW V, NEW U,
              EndsIn(inbox[e], Len(inbox[e]), i, stored, V),
              IF i = message.identity THEN message.value \in U ELSE U = V
       PROVE  EndsIn(inbox'[e], Len(inbox'[e]), i, stored, U)
  <2>1. inbox[e] \in Seq(Answers) /\ inbox'[e] = Append(inbox[e], message)
    BY <1>2, <1>5, <1>6, <1>12
  <2>2. CASE i = message.identity
    <3>1. Writes(message, i) /\ message.value \in U
      BY <1>1, <1>12, <2>2 DEF Writes
    <3>2. QED
      BY <1>3, <2>1, <3>1, EndsInWrite
  <2>3. CASE i # message.identity
    BY <1>3, <1>12, <2>1, <2>3, EndsInOther DEF Writes
  <2>4. QED
    BY <2>2, <2>3
<1>13. /\ Len(outbox[d]) \in Nat \ {0} /\ message = outbox[d][1]
       /\ Len(outbox'[d]) = Len(outbox[d]) - 1
       /\ \A k \in 1 .. Len(outbox[d]) - 1 :
             outbox'[d][k] = outbox[d][k + 1] /\ k + 1 \in 1 .. Len(outbox[d])
       /\ \A k \in 1 .. Len(outbox[d]) : k = 1 \/ k - 1 \in 1 .. Len(outbox[d]) - 1
  BY <1>1, <1>2, Taken DEF message
<1>14. ReflectedFits'
  <2>1. PICK known \in SUBSET Identities : \A e \in Linked :
           Knows(known, inbox[e], contacts[e]) /\ SendsKnown(known, outbox[e])
    BY DEF ReflectedFits
  <2>2. message.identity \in known /\ message.value \in Values
    BY <1>1, <1>2, <1>13, <2>1 DEF SendsKnown
  <2>3. Present(known, message.identity) = Values
    BY <2>2 DEF Present
  <2>4. \A e \in Linked : Knows(known, inbox'[e], contacts[e])
    <3>1. Knows(known, inbox'[d], contacts[d])
      BY <1>2, <1>6, <1>11, <2>1, QuietEnds DEF Knows
    <3>2. ASSUME NEW e \in Linked, e # d, NEW i \in Identities
          PROVE  EndsIn(inbox'[e], Len(inbox'[e]), i, contacts[e][i], Present(known, i))
      <4>1. EndsIn(inbox[e], Len(inbox[e]), i, contacts[e][i], Present(known, i))
        BY <2>1 DEF Knows
      <4>2. QED
        BY <1>12, <2>2, <2>3, <3>2, <4>1
    <3>3. QED
      BY <3>1, <3>2 DEF Knows
  <2>5. \A e \in Linked : SendsKnown(known, outbox'[e])
    <3>1. SendsKnown(known, outbox'[d])
      BY <1>2, <1>13, <2>1 DEF SendsKnown
    <3>2. QED
      BY <1>2, <1>6, <2>1, <3>1
  <2>6. ASSUME NEW e \in Linked
        PROVE  UpdatesFit(inbox'[e], contacts[e])
    <3>1. UpdatesFit(inbox[e], contacts[e]) /\ inbox[e] \in Seq(Answers)
      BY <1>2, <1>6 DEF ReflectedFits
    <3>2. CASE e = d
      BY <1>11, <3>1, <3>2, QuietFits
    <3>3. CASE e # d
      <4>1. EndsIn(inbox[e], Len(inbox[e]), message.identity, contacts[e][message.identity],
                   Values)
        BY <1>3, <2>1, <2>3 DEF Knows
      <4>2. UpdatesFit(Append(inbox[e], message), contacts[e])
        BY <1>3, <3>1, <4>1, AppendedFits
      <4>3. QED
        BY <1>5, <1>6, <3>3, <4>2
    <3>4. QED
      BY <3>2, <3>3
  <2>7. QED
    BY <1>1, <1>6, <2>4, <2>5, <2>6 DEF ReflectedFits
<1>15. ASSUME ~torn
       PROVE  /\ \E group \in [Identities -> Values \cup {Absent}] : \A e \in Linked :
                    AgreesOn(group, inbox'[e], contacts[e], task[e], outbox'[e])
              /\ \A e \in Linked : InOrder(task[e], outbox'[e])
  <2>1. /\ \E group \in [Identities -> Values \cup {Absent}] : \A e \in Linked :
              AgreesOn(group, inbox[e], contacts[e], task[e], outbox[e])
        /\ \A e \in Linked : InOrder(task[e], outbox[e])
    BY <1>15 DEF Agreement
  <2>2. PICK group \in [Identities -> Values \cup {Absent}] : \A e \in Linked :
           AgreesOn(group, inbox[e], contacts[e], task[e], outbox[e])
    BY <2>1
  <2> DEFINE after == [group EXCEPT ![message.identity] = message.value]
  <2>3. /\ after \in [Identities -> Values \cup {Absent}]
        /\ after[message.identity] = message.value
        /\ \A i \in Identities : i # message.identity => after[i] = group[i]
    BY <1>3
  <2> HIDE DEF after
  <2>4. /\ task[d].state = "ReflectAndCommit" /\ task[d].batch \in Seq(Contacts)
        /\ Remaining(task[d].batch, outbox[d])
    <3>1. ~NoReflect(outbox[d])
      BY <1>1, <1>13 DEF NoReflect
    <3>2. task[d].batch \in Seq(Contacts)
      BY <1>2, <1>6 DEF TypeOK, Tasks
    <3>3. QED
      BY <1>1, <1>2, <2>1, <3>1, <3>2 DEF InOrder
  <2>5. ASSUME NEW e \in Linked, e # d, NEW i \in Identities
        PROVE  EndsIn(inbox'[e], Len(inbox'[e]), i, StoredAs(task[e], contacts[e], i), {after[i]})
    <3>1. NoReflect(outbox[e])
      BY <1>4, <2>5, OthersAreQuiet
    <3>2. EndsIn(inbox[e], Len(inbox[e]), i, StoredAs(task[e], contacts[e], i), {group[i]})
      BY <2>2, <3>1 DEF AgreesOn, NoReflect, Writes
    <3>3. IF i = message.identity THEN message.value \in {after[i]} ELSE {after[i]} = {group[i]}
      BY <2>3
    <3>4. QED
      BY <1>12, <2>5, <3>2, <3>3
  <2>6. ASSUME NEW i \in Identities, ~ \E k \in 1 .. Len(outbox'[d]) : Writes(outbox'[d][k], i)
        PROVE  EndsIn(inbox'[d], Len(inbox'[d]), i, StoredAs(task[d], contacts[d], i), {after[i]})
    <3>1. CASE i = message.identity
      <4>1. StoredAs(task[d], contacts[d], i) = message.value
        BY <1>1, <1>2, <1>4, <2>4, <2>6, <3>1, LastIsStored DEF StoredAs, message
      <4>2. \A k \in 1 .. Len(inbox[d]) : inbox[d][k].type # "Reflect"
        BY <1>4, <2>4 DEF NoReflect
      <4>3. Len(inbox[d]) \in Nat /\ inbox[d] \in Seq(Answers)
        BY <1>2, <1>6
      <4>4. EndsIn(inbox[d], Len(inbox[d]), i, message.value, {after[i]})
        BY <2>3, <3>1, <4>2, <4>3, EndsInQuiet
      <4>5. QED
        BY <1>11, <4>1, <4>3, <4>4, QuietEnds
    <3>2. CASE i # message.identity
      <4>1. ~ \E k \in 1 .. Len(outbox[d]) : Writes(outbox[d][k], i)
        <5>1. ASSUME NEW k \in 1 .. Len(outbox[d]), Writes(outbox[d][k], i)
              PROVE  FALSE
          <6>1. k # 1
            BY <1>13, <3>2, <5>1 DEF Writes
          <6>2. k - 1 \in 1 .. Len(outbox'[d]) /\ outbox'[d][k - 1] = outbox[d][k]
            BY <1>13, <6>1
          <6>3. QED
            BY <2>6, <5>1, <6>2
        <5>2. QED
          BY <5>1
      <4>2. EndsIn(inbox[d], Len(inbox[d]), i, StoredAs(task[d], contacts[d], i), {after[i]})
        BY <1>2, <2>2, <2>3, <3>2, <4>1 DEF AgreesOn
      <4>3. QED
        BY <1>2, <1>6, <1>11, <4>2, QuietEnds
    <3>3. QED
      BY <3>1, <3>2
  <2>7. \A e \in Linked : AgreesOn(after, inbox'[e], contacts[e], task[e], outbox'[e])
    BY <2>5, <2>6 DEF AgreesOn
  <2>8. \A e \in Linked : InOrder(task[e], outbox'[e])
    <3>1. InOrder(task[d], outbox'[d])
      BY <1>1, <1>2, <2>4, RemainingTail DEF InOrder
    <3>2. QED
      BY <1>2, <1>6, <2>1, <3>1
  <2>9. QED
    BY <2>3, <2>7, <2>8
<1>16. Agreement'
  BY <1>1, <1>6, <1>15 DEF Agreement
<1>17. QED
  BY <1>7, <1>10, <1>14, <1>16

\* What a batch reflects: its contacts in order, and the commit behind them
LEMMA BatchReflected ==
    ASSUME NEW kind \in {"Create", "Update"}, NEW batch \in Seq(Contacts), NEW first \in Nat
    PROVE  LET out == ReflectAndCommit(kind, batch, first)
           IN  /\ out \in Seq(Requests) /\ Len(out) = Len(batch) + 1
               /\ Committing(out) /\ Remaining(batch, out)
               /\ \A k \in 1 .. Len(batch) :
                     /\ out[k].type = "Reflect"
                     /\ out[k].identity = batch[k].identity
                     /\ out[k].value = batch[k].value
               /\ out[Len(batch) + 1].type = "CommitTransaction"
<1> DEFINE reflects == [k \in 1 .. Len(batch) |-> Reflect(first + k - 1, kind, batch[k])]
           out == ReflectAndCommit(kind, batch, first)
<1>1. Len(batch) \in Nat
  OBVIOUS
<1>2. ASSUME NEW k \in 1 .. Len(batch)
      PROVE  /\ reflects[k] \in Requests /\ reflects[k].type = "Reflect"
             /\ reflects[k].identity = batch[k].identity
             /\ reflects[k].value = batch[k].value
             /\ batch[k].value \in Values
  <2>1. batch[k] \in Contacts /\ first + k - 1 \in Nat
    BY <1>1
  <2>2. batch[k].identity \in Identities /\ batch[k].value \in Values
    BY <2>1 DEF Contacts
  <2>3. reflects[k] = Reflect(first + k - 1, kind, batch[k])
    OBVIOUS
  <2>4. Reflect(first + k - 1, kind, batch[k]) \in Reflected
    BY <2>1, <2>2 DEF Reflect, Reflected
  <2>5. QED
    BY <2>2, <2>3, <2>4 DEF Requests, Reflect
<1>3. reflects \in Seq(Requests) /\ Len(reflects) = Len(batch)
  BY <1>1, <1>2
<1>4. out = Append(reflects, Message("CommitTransaction"))
  BY <1>3, Messages, ConcatOne DEF ReflectAndCommit
<1> HIDE DEF reflects, out
<1>5. /\ out \in Seq(Requests) /\ Len(out) = Len(batch) + 1
      /\ out[Len(batch) + 1] = Message("CommitTransaction")
      /\ \A k \in 1 .. Len(batch) : out[k] = reflects[k]
  BY <1>3, <1>4, Messages, Appended
<1>6. \A k \in 1 .. Len(batch) :
         /\ out[k].type = "Reflect"
         /\ out[k].identity = batch[k].identity
         /\ out[k].value = batch[k].value
  BY <1>2, <1>5
<1>7. Committing(out)
  <2>1. out # <<>> /\ Len(out) - 1 = Len(batch)
    BY <1>1, <1>5
  <2>2. QED
    BY <1>5, <1>6, <2>1, Messages DEF Committing
<1>8. Remaining(batch, out)
  <2>1. /\ Len(out) <= Len(batch) + 1
        /\ \A k \in 1 .. Len(out) - 1 :
              k \in 1 .. Len(batch) /\ Len(batch) + 1 - Len(out) + k = k
    BY <1>1, <1>5
  <2>2. QED
    BY <1>6, <2>1 DEF Remaining
<1>9. QED
  BY <1>5, <1>6, <1>7, <1>8, Messages DEF out

\* The transaction is acknowledged and the batch reflected: every contact of it is
\* known to the device, and so to the others.
LEMMA BeginReflectingKeeps ==
    ASSUME TransactionInv, NEW d \in Devices, task[d].state = "BeginTransaction",
           inbox[d] # <<>>, Head(inbox[d]).type = "BeginTransactionAck", Consume(d),
           UNCHANGED <<contacts, holder, counters, torn>>,
           PreconditionAfterAck(d) = "Continue", BeginReflecting(d)
    PROVE  TransactionInv'
<1> USE DEF TransactionInv
<1> DEFINE batch == Affected(d, task[d])
           out == ReflectAndCommit(task[d].kind, batch, reflectId[d])
<1>1. UNCHANGED <<contacts, holder, torn>> /\ UNCHANGED <<started, peers, faults>>
  BY DEF counters
<1>2. /\ d \in Linked /\ outbox[d] = <<>>
      /\ inbox[d] \in Seq(Answers)
      /\ inbox' \in [Devices -> Seq(Answers)] /\ inbox'[d] = Tail(inbox[d])
      /\ \A e \in Devices : e # d => inbox'[e] = inbox[e]
      /\ Quiet(inbox[d], inbox'[d])
      /\ NoResponse(inbox'[d])
      /\ holder = d /\ NoReflect(inbox[d]) /\ NoReflect(inbox'[d])
  BY BeginAnswered DEF Responses
<1>3. /\ task[d] \in Tasks /\ task[d].kind \in {"Create", "Update"}
      /\ task[d].batch \in Seq(Contacts)
      /\ task \in [Devices -> Tasks] /\ reflectId \in [Devices -> Nat \cup {NoContext}]
      /\ outbox \in [Devices -> Seq(Requests)]
      /\ reflectId[d] \in Nat
      /\ contacts[d] \in [Identities -> Values \cup {Absent}]
  BY <1>2 DEF TypeOK, Tasks, Linked
<1>4. /\ batch \in Seq(Contacts)
      /\ \A k \in 1 .. Len(batch) : Has(d, batch[k].identity)
  <2>1. CASE task[d].kind = "Create"
    BY <1>3, <2>1, PartsOfBatch DEF Affected
  <2>2. CASE task[d].kind = "Update"
    <3>1. Len(Existing(d, task[d].batch)) = Len(task[d].batch)
      BY <2>2 DEF PreconditionAfterAck, Precondition
    <3>2. QED
      BY <1>3, <2>2, <3>1, PartsOfBatch DEF Affected
  <2>3. QED
    BY <1>3, <2>1, <2>2
<1>5. /\ Become(d, [task[d] EXCEPT !.state    = "ReflectAndCommit",
                                   !.batch    = batch,
                                   !.expected = ReflectIds(reflectId[d], Len(batch))])
      /\ reflectId' = [reflectId EXCEPT ![d] = @ + Len(batch)]
      /\ outbox' = [outbox EXCEPT ![d] = @ \o out]
  BY DEF BeginReflecting, Send
<1> HIDE DEF batch
<1>6. /\ out \in Seq(Requests) /\ Len(out) = Len(batch) + 1
      /\ Committing(out) /\ Remaining(batch, out)
      /\ \A k \in 1 .. Len(batch) :
            /\ out[k].type = "Reflect"
            /\ out[k].identity = batch[k].identity
            /\ out[k].value = batch[k].value
      /\ out[Len(batch) + 1].type = "CommitTransaction"
  BY <1>3, <1>4, BatchReflected
<1> HIDE DEF out
<1>7. Len(batch) \in Nat /\ \A k \in 1 .. Len(out) : k \in 1 .. Len(batch) \/ k = Len(batch) + 1
  BY <1>4, <1>6
<1>8. /\ outbox' \in [Devices -> Seq(Requests)] /\ outbox'[d] = out
      /\ \A e \in Devices : e # d => outbox'[e] = outbox[e]
  <2>1. <<>> \o out = out
    BY <1>6
  <2>2. outbox'[d] = out
    BY <1>2, <1>3, <1>5, <2>1
  <2>3. QED
    BY <1>3, <1>5, <1>6, <2>2
<1>9. /\ task' \in [Devices -> Tasks]
      /\ task'[d].state = "ReflectAndCommit" /\ task'[d].batch = batch
      /\ \A e \in Devices : e # d => task'[e] = task[e]
  <2> DEFINE next == [task[d] EXCEPT !.state    = "ReflectAndCommit",
                                     !.batch    = batch,
                                     !.expected = ReflectIds(reflectId[d], Len(batch))]
  <2>1. ReflectIds(reflectId[d], Len(batch)) \in SUBSET Nat
    BY <1>3, <1>7 DEF ReflectIds
  <2>2. next \in Tasks /\ next.state = "ReflectAndCommit" /\ next.batch = batch
    BY <1>3, <1>4, <2>1 DEF Tasks
  <2>3. task' = [task EXCEPT ![d] = next]
    BY <1>5 DEF Become
  <2> HIDE DEF next
  <2>4. QED
    BY <1>3, <2>2, <2>3
<1>10. /\ reflectId' \in [Devices -> Nat \cup {NoContext}]
       /\ Linked' = Linked
  <2>1. reflectId[d] + Len(batch) \in Nat /\ NoContext \notin Nat
    BY <1>3, <1>7, TransactionAssumption
  <2>2. \A e \in Devices : reflectId'[e] # NoContext <=> reflectId[e] # NoContext
    BY <1>3, <1>5, <2>1
  <2>3. Linked' = Linked
    BY <2>2 DEF Linked
  <2>4. QED
    BY <1>3, <1>5, <2>1, <2>3
<1>11. TypeOK'
  BY <1>1, <1>2, <1>8, <1>9, <1>10 DEF TypeOK
<1>12. PhasesFit'
  <2>1. Commits(out, inbox'[d], TRUE)
    BY <1>2, <1>6 DEF Commits
  <2>2. Phase("ReflectAndCommit", out, inbox'[d], TRUE)
    BY <2>1 DEF Phase
  <2>3. (holder' = d) = TRUE
    BY <1>1, <1>2
  <2>4. PhaseOf(d)'
    BY <1>2, <1>8, <1>9, <1>10, <2>2, <2>3 DEF PhaseOf
  <2>5. \A e \in Devices : e # d => Receiving(e)
    BY <1>1, <1>2, <1>8, <1>9 DEF Receiving
  <2>6. QED
    BY <1>10, <2>4, <2>5, StepFits
<1>13. ASSUME NEW known \in SUBSET Identities, Knows(known, inbox[d], contacts[d])
       PROVE  Knows(known, inbox'[d], contacts[d]) /\ SendsKnown(known, out)
  <2>1. Knows(known, inbox'[d], contacts[d])
    BY <1>2, <1>13, QuietEnds DEF Knows
  <2>2. ASSUME NEW k \in 1 .. Len(batch)
        PROVE  batch[k].identity \in known /\ batch[k].value \in Values
    <3> DEFINE i == batch[k].identity
    <3>1. i \in Identities /\ batch[k].value \in Values
      <4>1. batch[k] \in Contacts
        BY <1>4
      <4>2. QED
        BY <4>1 DEF Contacts
    <3>2. contacts[d][i] # Absent
      BY <1>4 DEF Has
    <3> HIDE DEF i
    <3>3. EndsIn(inbox[d], Len(inbox[d]), i, contacts[d][i], Present(known, i))
      BY <1>13, <3>1 DEF Knows
    <3>4. /\ Len(inbox[d]) \in Nat
          /\ \A l \in 1 .. Len(inbox[d]) : inbox[d][l].type # "Reflect"
      BY <1>2 DEF NoReflect
    <3>5. contacts[d][i] \in Present(known, i)
      BY <3>3, <3>4, EndsInQuiet
    <3>6. i \in known
      BY <3>2, <3>5 DEF Present
    <3>7. QED
      BY <3>1, <3>6 DEF i
  <2>3. SendsKnown(known, out)
    BY <1>6, <1>7, <2>2 DEF SendsKnown
  <2>4. QED
    BY <2>1, <2>3
<1>14. UpdatesFit(inbox'[d], contacts[d])
  BY <1>2, QuietFits DEF ReflectedFits
<1>15. BatchKnown(task'[d], contacts[d])
  BY <1>4, <1>9 DEF BatchKnown, Has
<1>16. InOrder(task'[d], outbox'[d])
  BY <1>6, <1>8, <1>9 DEF InOrder
<1>17. ASSUME NEW group, AgreesOn(group, inbox[d], contacts[d], task[d], outbox[d])
       PROVE  AgreesOn(group, inbox'[d], contacts[d], task'[d], outbox'[d])
  <2>1. SUFFICES ASSUME NEW i \in Identities, ~ \E k \in 1 .. Len(out) : Writes(out[k], i)
                 PROVE  EndsIn(inbox'[d], Len(inbox'[d]), i, StoredAs(task'[d], contacts[d], i),
                               {group[i]})
    BY <1>8 DEF AgreesOn
  <2>2. ~Holds(batch, i)
    <3>1. \A k \in 1 .. Len(batch) : k \in 1 .. Len(out)
      BY <1>6, <1>7
    <3>2. QED
      BY <1>6, <2>1, <3>1 DEF Holds, Writes
  <2>3. /\ StoredAs(task'[d], contacts[d], i) = contacts[d][i]
        /\ StoredAs(task[d], contacts[d], i) = contacts[d][i]
    BY <1>9, <2>2 DEF StoredAs
  <2>4. EndsIn(inbox[d], Len(inbox[d]), i, contacts[d][i], {group[i]})
    BY <1>2, <1>17, <2>3 DEF AgreesOn
  <2>5. EndsIn(inbox'[d], Len(inbox'[d]), i, contacts[d][i], {group[i]})
    BY <1>2, <2>4, QuietEnds
  <2>6. QED
    BY <2>3, <2>5
<1>18. ReflectedFits' /\ Agreement'
  <2>1. \A e \in Linked : e # d =>
               /\ inbox'[e] = inbox[e] /\ outbox'[e] = outbox[e]
               /\ contacts'[e] = contacts[e] /\ task'[e] = task[e]
    BY <1>1, <1>2, <1>8, <1>9 DEF Linked
  <2>2. \A known \in SUBSET Identities :
           Knows(known, inbox[d], contacts[d]) /\ SendsKnown(known, outbox[d]) =>
           Knows(known, inbox'[d], contacts'[d]) /\ SendsKnown(known, outbox'[d])
    BY <1>1, <1>8, <1>13
  <2>3. /\ UpdatesFit(inbox'[d], contacts'[d]) /\ BatchKnown(task'[d], contacts'[d])
        /\ torn' = torn /\ InOrder(task'[d], outbox'[d]) /\ d \in Linked
    BY <1>1, <1>2, <1>14, <1>15, <1>16
  <2>4. \A group :
           AgreesOn(group, inbox[d], contacts[d], task[d], outbox[d]) =>
           AgreesOn(group, inbox'[d], contacts'[d], task'[d], outbox'[d])
    BY <1>1, <1>17
  <2>5. Linked' = Linked
    BY <1>10
  <2>6. QED
    BY <2>1, <2>2, <2>3, <2>4, <2>5, LocalStep
<1>19. QED
  BY <1>11, <1>12, <1>18

\* What a commit stores: nothing or the whole batch, whose contacts are all known.
LEMMA CommittedStore ==
    ASSUME TransactionInv, NEW d \in Linked, task[d].state = "ReflectAndCommit",
           NEW stored \in {<<>>, task[d].batch}
    PROVE  /\ task[d].batch \in Seq(Contacts)
           /\ Store(d, stored) \in [Identities -> Values \cup {Absent}]
           /\ \A i \in Identities :
                 \/ Store(d, stored)[i] = contacts[d][i]
                 \/ Store(d, stored)[i] \in Values /\ contacts[d][i] # Absent
           /\ \A i \in Identities :
                 Store(d, task[d].batch)[i] = StoredAs(task[d], contacts[d], i)
<1> USE DEF TransactionInv
<1>1. d \in Devices /\ task[d] \in Tasks
  BY DEF TypeOK, Linked
<1>2. task[d].batch \in Seq(Contacts) /\ stored \in Seq(Contacts)
  <2>1. task[d].batch \in Seq(Contacts)
    BY <1>1 DEF Tasks
  <2>2. <<>> \in Seq(Contacts)
    OBVIOUS
  <2>3. stored = <<>> \/ stored = task[d].batch
    OBVIOUS
  <2>4. QED
    BY <2>1, <2>2, <2>3
<1>3. Store(d, stored) \in [Identities -> Values \cup {Absent}]
  BY <1>1, <1>2, StoreTypes
<1>4. \A k \in 1 .. Len(stored) : contacts[d][stored[k].identity] # Absent
  BY <1>2 DEF ReflectedFits, BatchKnown
<1>5. ASSUME NEW i \in Identities, Holds(stored, i)
      PROVE  ValueIn(stored, i) \in Values /\ contacts[d][i] # Absent
  <2>1. PICK k \in 1 .. Len(stored) :
           stored[k].identity = i /\ ValueIn(stored, i) = stored[k].value
    BY <1>2, <1>5, LastOfBatch
  <2>2. stored[k] \in Contacts
    BY <1>2
  <2>3. stored[k].value \in Values
    BY <2>2 DEF Contacts
  <2>4. QED
    BY <1>4, <2>1, <2>3
<1>6. \A i \in Identities :
         Store(d, stored)[i] = IF Holds(stored, i) THEN ValueIn(stored, i) ELSE contacts[d][i]
  BY DEF Store
<1>7. \A i \in Identities : Store(d, task[d].batch)[i] = StoredAs(task[d], contacts[d], i)
  BY DEF Store, StoredAs
<1>8. QED
  BY <1>2, <1>3, <1>5, <1>6, <1>7

\* The commit is acknowledged: what is stored is what the others were sent.
LEMMA CommittedKeeps ==
    ASSUME TransactionInv, NEW d \in Devices, PollReflectAndCommitTransaction(d)
    PROVE  TransactionInv'
<1> DEFINE batch  == task[d].batch
           stored == IF ~AllAcknowledged(task[d]) THEN <<>>
                     ELSE IF task[d].kind = "Create" THEN Missing(d, batch)
                     ELSE Updatable(d, batch)
           ok     == AllAcknowledged(task[d]) /\ stored = batch
           state  == IF ok THEN "Done" ELSE "Error"
           store  == Store(d, stored)
<1> USE DEF TransactionInv
<1>1. /\ inbox[d] # <<>> /\ Head(inbox[d]).type = "CommitTransactionAck" /\ Consume(d)
      /\ task[d].state = "ReflectAndCommit"
      /\ contacts' = [contacts EXCEPT ![d] = store]
      /\ Become(d, [task[d] EXCEPT !.state = state])
      /\ torn' = (torn \/ ~ok)
      /\ UNCHANGED <<reflectId, outbox, holder>> /\ UNCHANGED <<started, peers, faults>>
  BY DEF PollReflectAndCommitTransaction, Receives, counters
<1>2. /\ d \in Linked /\ Phase(task[d].state, outbox[d], inbox[d], holder = d)
      /\ inbox[d] \in Seq(Answers)
      /\ inbox' \in [Devices -> Seq(Answers)] /\ inbox'[d] = Tail(inbox[d])
      /\ \A e \in Devices : e # d => inbox'[e] = inbox[e]
      /\ task[d] \in AnyTasks
  BY <1>1, Consumes
<1>3. outbox[d] = <<>> /\ NoResponse(inbox'[d]) /\ holder # d
  BY <1>1, <1>2, CommitTaken DEF Phase, Responses
<1>4. Linked' = Linked
  BY <1>1 DEF Linked
<1>5. Quiet(inbox[d], inbox'[d])
  BY <1>1, <1>2 DEF Quiet
<1>6. batch \in Seq(Contacts) /\ \A k \in 1 .. Len(batch) : Has(d, batch[k].identity)
  <2>1. task[d] \in Tasks
    BY DEF TypeOK
  <2>2. batch \in Seq(Contacts)
    BY <2>1 DEF Tasks
  <2>3. QED
    BY <1>1, <1>2, <2>2 DEF ReflectedFits, BatchKnown, Has
<1>7. stored \in {<<>>, batch}
  BY <1>6, PartsOfBatch
<1>8. ok => stored = batch
  OBVIOUS
<1>9. state \in {"Done", "Error"} /\ (state = "Error" => ~ok) /\ ok \in BOOLEAN
  OBVIOUS
<1> HIDE DEF stored, ok, state
<1>10. /\ store \in [Identities -> Values \cup {Absent}]
       /\ \A i \in Identities :
             store[i] = contacts[d][i] \/ (store[i] \in Values /\ contacts[d][i] # Absent)
       /\ ok => \A i \in Identities : store[i] = StoredAs(task[d], contacts[d], i)
  BY <1>1, <1>2, <1>7, <1>8, CommittedStore
<1> HIDE DEF store, batch
<1>11. /\ contacts' \in [Devices -> [Identities -> Values \cup {Absent}]]
       /\ contacts'[d] = store
       /\ \A e \in Devices : e # d => contacts'[e] = contacts[e]
  BY <1>1, <1>10 DEF TypeOK
<1>12. /\ task' \in [Devices -> Tasks] /\ task'[d].state = state
       /\ \A e \in Devices : e # d => task'[e] = task[e]
  <2>1. state \in States
    BY <1>9 DEF States
  <2>2. QED
    BY <1>1, <1>2, <2>1, Becomes DEF Become, TypeOK
<1>13. torn' \in BOOLEAN /\ (torn => torn') /\ (~torn' => ~torn /\ ok)
  BY <1>1, <1>9 DEF TypeOK
<1>14. TypeOK'
  BY <1>1, <1>2, <1>11, <1>12, <1>13 DEF TypeOK
<1>15. PhasesFit'
  <2>1. (holder' = d) = FALSE
    BY <1>1, <1>3
  <2>2. outbox'[d] = <<>>
    BY <1>1, <1>3
  <2>3. Phase(state, <<>>, inbox'[d], FALSE)
    BY <1>3, <1>9 DEF Phase
  <2>4. PhaseOf(d)'
    BY <1>2, <1>4, <1>12, <2>1, <2>2, <2>3 DEF PhaseOf
  <2>5. \A e \in Devices : e # d => Receiving(e)
    BY <1>1, <1>2, <1>12 DEF Receiving
  <2>6. QED
    BY <1>4, <2>4, <2>5, StepFits
<1>16. ASSUME NEW known \in SUBSET Identities, Knows(known, inbox[d], contacts[d])
       PROVE  Knows(known, inbox'[d], store)
  <2>1. ASSUME NEW i \in Identities
        PROVE  EndsIn(inbox'[d], Len(inbox'[d]), i, store[i], Present(known, i))
    <3>1. EndsIn(inbox'[d], Len(inbox'[d]), i, contacts[d][i], Present(known, i))
      BY <1>2, <1>5, <1>16, QuietEnds DEF Knows
    <3>2. contacts[d][i] \in Present(known, i) => store[i] \in Present(known, i)
      BY <1>10 DEF Present
    <3>3. QED
      BY <3>1, <3>2, EndsInStored
  <2>2. QED
    BY <2>1 DEF Knows
<1>17. UpdatesFit(inbox'[d], store)
  <2>1. UpdatesFit(inbox'[d], contacts[d])
    BY <1>2, <1>5, QuietFits DEF ReflectedFits
  <2>2. ASSUME NEW k \in 1 .. Len(inbox'[d]),
               inbox'[d][k].type = "Reflect", inbox'[d][k].action = "Update"
        PROVE  EndsIn(inbox'[d], k - 1, inbox'[d][k].identity,
                      store[inbox'[d][k].identity], Values)
    <3> DEFINE i == inbox'[d][k].identity
    <3>1. i \in Identities
      <4>1. inbox'[d][k] \in Answers
        BY <1>2
      <4>2. QED
        BY <2>2, <4>1, ReflectedMessage
    <3>2. EndsIn(inbox'[d], k - 1, i, contacts[d][i], Values)
      BY <2>1, <2>2 DEF UpdatesFit
    <3> HIDE DEF i
    <3>3. contacts[d][i] \in Values => store[i] \in Values
      BY <1>10, <3>1
    <3>4. EndsIn(inbox'[d], k - 1, i, store[i], Values)
      BY <3>2, <3>3, EndsInStored
    <3>5. QED
      BY <3>4 DEF i
  <2>3. QED
    BY <2>2 DEF UpdatesFit
<1>18. BatchKnown(task'[d], store)
  BY <1>9, <1>12 DEF BatchKnown
<1>19. InOrder(task'[d], outbox'[d])
  BY <1>1, <1>3, <1>9, <1>12 DEF InOrder, NoReflect
<1>20. ASSUME NEW group, ok,
              AgreesOn(group, inbox[d], contacts[d], task[d], outbox[d])
       PROVE  AgreesOn(group, inbox'[d], store, task'[d], outbox'[d])
  <2>1. ASSUME NEW i \in Identities
        PROVE  EndsIn(inbox'[d], Len(inbox'[d]), i, StoredAs(task'[d], store, i), {group[i]})
    <3>1. EndsIn(inbox[d], Len(inbox[d]), i, StoredAs(task[d], contacts[d], i), {group[i]})
      BY <1>3, <1>20 DEF AgreesOn
    <3>2. StoredAs(task[d], contacts[d], i) = store[i]
      BY <1>10, <1>20
    <3>3. StoredAs(task'[d], store, i) = store[i]
      BY <1>9, <1>12 DEF StoredAs
    <3>4. EndsIn(inbox'[d], Len(inbox'[d]), i, store[i], {group[i]})
      BY <1>2, <1>5, <3>1, <3>2, QuietEnds
    <3>5. QED
      BY <3>3, <3>4
  <2>2. QED
    BY <2>1 DEF AgreesOn
<1>21. ReflectedFits' /\ Agreement'
  <2>1. \A e \in Linked : e # d =>
               /\ inbox'[e] = inbox[e] /\ outbox'[e] = outbox[e]
               /\ contacts'[e] = contacts[e] /\ task'[e] = task[e]
    BY <1>1, <1>2, <1>11, <1>12 DEF Linked
  <2>2. \A known \in SUBSET Identities :
           Knows(known, inbox[d], contacts[d]) /\ SendsKnown(known, outbox[d]) =>
           Knows(known, inbox'[d], contacts'[d]) /\ SendsKnown(known, outbox'[d])
    BY <1>1, <1>11, <1>16
  <2>3. /\ UpdatesFit(inbox'[d], contacts'[d]) /\ BatchKnown(task'[d], contacts'[d])
        /\ InOrder(task'[d], outbox'[d]) /\ d \in Linked
    BY <1>2, <1>11, <1>17, <1>18, <1>19
  <2>4. \A group :
           (~torn' /\ AgreesOn(group, inbox[d], contacts[d], task[d], outbox[d])) =>
           AgreesOn(group, inbox'[d], contacts'[d], task'[d], outbox'[d])
    BY <1>11, <1>13, <1>20
  <2>5. QED
    BY <1>4, <1>13, <2>1, <2>2, <2>3, <2>4, LocalStep
<1>22. QED
  BY <1>14, <1>15, <1>21

\* The response to BeginTransaction: reflect, abort, fail or wait
LEMMA PollBeginTransactionKeeps ==
    ASSUME TransactionInv, NEW d \in Devices, PollBeginTransaction(d)
    PROVE  TransactionInv'
<1>1. /\ task[d].state = "BeginTransaction" /\ inbox[d] # <<>> /\ Consume(d)
      /\ UNCHANGED <<contacts, holder, counters, torn>>
  BY DEF PollBeginTransaction, Receives
<1>2. CASE Head(inbox[d]).type = "TransactionRejected" /\ BeginRejected(d)
  <2>1. UNCHANGED <<contacts, reflectId, holder, counters, torn>>
    BY <1>1, <1>2 DEF BeginRejected
  <2>2. QED
    BY <1>1, <1>2, <2>1, NotBegunKeeps
<1>3. CASE Head(inbox[d]).type = "BeginTransactionAck" /\ BeginAcknowledged(d)
  <2>1. CASE PreconditionAfterAck(d) = "Continue"
    <3>1. BeginReflecting(d)
      BY <1>3, <2>1 DEF BeginAcknowledged
    <3>2. QED
      BY <1>1, <1>3, <2>1, <3>1, BeginReflectingKeeps
  <2>2. CASE PreconditionAfterAck(d) = "Abort"
    <3>1. Abort(d)
      BY <1>3, <2>2 DEF BeginAcknowledged
    <3>2. UNCHANGED <<contacts, reflectId, holder, counters, torn>>
      BY <1>1, <3>1 DEF Abort
    <3>3. QED
      BY <1>1, <1>3, <3>1, <3>2, NotBegunKeeps
  <2>3. CASE PreconditionAfterAck(d) \notin {"Continue", "Abort"}
    <3>1. /\ Become(d, [task[d] EXCEPT !.state = "Error"])
          /\ UNCHANGED <<reflectId, outbox>>
      BY <1>3, <2>3 DEF BeginAcknowledged
    <3>2. UNCHANGED <<contacts, reflectId, holder, counters, torn>>
      BY <1>1, <3>1
    <3>3. QED
      BY <1>1, <1>3, <3>1, <3>2, NotBegunKeeps
  <2>4. QED
    BY <2>1, <2>2, <2>3
<1>4. QED
  BY <1>2, <1>3 DEF PollBeginTransaction, Receives

-----------------------------------------------------------------------------
(* The invariant holds                                                     *)

\* The devices start with the same contacts and nothing on its way.
LEMMA InitHolds ==
    ASSUME Init
    PROVE  TransactionInv
<1>1. PICK group \in Groups : contacts = [d \in Devices |-> group]
  BY DEF Init
<1>2. group \in [Identities -> Values \cup {Absent}]
  BY TransactionAssumption
<1>3. PICK linked \in Links :
         reflectId = [d \in Devices |-> IF d \in linked THEN 0 ELSE NoContext]
  BY DEF Init
<1>4. NoTask \in Tasks /\ NoTask.state = "Done"
  <2>1. <<>> \in Seq(Contacts)
    OBVIOUS
  <2>2. QED
    BY <2>1, NewTasks
<1>5. /\ task = [d \in Devices |-> NoTask]
      /\ outbox = [d \in Devices |-> <<>>] /\ inbox = [d \in Devices |-> <<>>]
      /\ holder = Nobody /\ started = [d \in Devices |-> 0]
      /\ peers = 0 /\ faults = 0 /\ torn = FALSE
  BY DEF Init
<1> HIDE DEF NoTask
<1>6. TypeOK
  <2>1. /\ <<>> \in Seq(Requests) /\ <<>> \in Seq(Answers)
        /\ 0 \in 0 .. MaxTasks /\ 0 \in 0 .. MaxPeers /\ 0 \in 0 .. MaxFaults
    BY TransactionAssumption
  <2>2. reflectId \in [Devices -> Nat \cup {NoContext}]
    BY <1>3
  <2>3. QED
    BY <1>1, <1>2, <1>4, <1>5, <2>1, <2>2 DEF TypeOK
<1>7. \A d \in Devices : outbox[d] = <<>> /\ inbox[d] = <<>> /\ task[d].state = "Done"
  BY <1>4, <1>5
<1>8. \A d \in Devices : holder # d
  BY <1>5, TransactionAssumption
<1>9. PhasesFit
  BY <1>7, <1>8 DEF PhasesFit, PhaseOf, Phase, NoResponse
<1>10. ASSUME NEW d \in Linked
       PROVE  /\ contacts[d] = group /\ outbox[d] = <<>> /\ inbox[d] = <<>>
              /\ task[d].state = "Done"
  BY <1>1, <1>7 DEF Linked
<1>11. \A d \in Linked : \A V, i :
          EndsIn(inbox[d], Len(inbox[d]), i, contacts[d][i], V) <=> group[i] \in V
  <2>1. ASSUME NEW d \in Linked, NEW V, NEW i
        PROVE  EndsIn(inbox[d], Len(inbox[d]), i, contacts[d][i], V) <=> group[i] \in V
    <3>1. inbox[d] = <<>> /\ Len(inbox[d]) = 0 /\ contacts[d] = group
      BY <1>10
    <3>2. QED
      BY <3>1 DEF EndsIn
  <2>2. QED
    BY <2>1
<1>12. ReflectedFits
  <2> DEFINE known == {i \in Identities : group[i] # Absent}
  <2>1. \A i \in Identities : group[i] \in Present(known, i)
    BY <1>2 DEF Present
  <2> HIDE DEF known
  <2>2. \A d \in Linked : Knows(known, inbox[d], contacts[d])
    BY <1>11, <2>1 DEF Knows
  <2>3. \A d \in Linked :
           /\ SendsKnown(known, outbox[d])
           /\ UpdatesFit(inbox[d], contacts[d]) /\ BatchKnown(task[d], contacts[d])
    BY <1>10 DEF SendsKnown, UpdatesFit, BatchKnown
  <2>4. known \in SUBSET Identities
    BY DEF known
  <2>5. QED
    BY <2>2, <2>3, <2>4 DEF ReflectedFits
<1>13. Agreement
  <2>1. \A d \in Linked : AgreesOn(group, inbox[d], contacts[d], task[d], outbox[d])
    <3>1. ASSUME NEW d \in Linked, NEW i \in Identities
          PROVE  EndsIn(inbox[d], Len(inbox[d]), i, StoredAs(task[d], contacts[d], i),
                        {group[i]})
      <4>1. StoredAs(task[d], contacts[d], i) = contacts[d][i]
        BY <1>10 DEF StoredAs
      <4>2. EndsIn(inbox[d], Len(inbox[d]), i, contacts[d][i], {group[i]})
        BY <1>11
      <4>3. QED
        BY <4>1, <4>2
    <3>2. QED
      BY <3>1 DEF AgreesOn
  <2>2. \A d \in Linked : InOrder(task[d], outbox[d])
    BY <1>10 DEF InOrder, NoReflect
  <2>3. QED
    BY <1>2, <2>1, <2>2 DEF Agreement
<1>14. QED
  BY <1>6, <1>9, <1>12, <1>13 DEF TransactionInv

\* A step that changes nothing
LEMMA StutterKeeps ==
    ASSUME TransactionInv, UNCHANGED vars
    PROVE  TransactionInv'
<1>1. /\ contacts' = contacts /\ task' = task /\ reflectId' = reflectId
      /\ outbox' = outbox /\ inbox' = inbox /\ holder' = holder
      /\ started' = started /\ peers' = peers /\ faults' = faults /\ torn' = torn
  BY DEF vars, deviceVars, mediatorVars, counters
<1>2. Linked' = Linked
  BY <1>1 DEF Linked
<1>3. TypeOK'
  BY <1>1 DEF TransactionInv, TypeOK
<1>4. PhasesFit'
  BY <1>1, <1>2 DEF TransactionInv, PhasesFit, PhaseOf
<1>5. ReflectedFits'
  BY <1>1, <1>2 DEF TransactionInv, ReflectedFits
<1>6. Agreement'
  BY <1>1, <1>2 DEF TransactionInv, Agreement
<1>7. QED
  BY <1>3, <1>4, <1>5, <1>6 DEF TransactionInv

\* Every step keeps the invariant.
LEMMA StepKeeps ==
    ASSUME TransactionInv, [Next]_vars
    PROVE  TransactionInv'
<1>1. ASSUME NEW d \in Devices, Deliver(d)
      PROVE  TransactionInv'
  BY <1>1, TransactionEndedKeeps, PollBeginTransactionKeeps, ReflectAckKeeps, AbortedKeeps,
     CommittedKeeps, ApplyReflectedKeeps DEF Deliver
<1>2. ASSUME NEW d \in Devices, Serve(d)
      PROVE  TransactionInv'
  BY <1>2, ServeBeginKeeps, ServeReflectKeeps, ServeCommitKeeps DEF Serve
<1>3. ASSUME NEW d \in Devices,
             \E kind \in {"Create", "Update"}, batch \in Batches : Start(d, kind, batch)
      PROVE  TransactionInv'
  BY <1>3, StartKeeps
<1>4. CASE Next
  BY <1>1, <1>2, <1>3, <1>4, PollEarlyKeeps, DisconnectKeeps, PeerTransactionKeeps DEF Next
<1>5. CASE UNCHANGED vars
  BY <1>5, StutterKeeps
<1>6. QED
  BY <1>4, <1>5

\* However requests, rejections, acknowledgements, lost connections and reflected
\* messages interleave, each device's request is in one phase, and every linked device
\* will know the same contacts.
THEOREM TransactionInvariant == Spec => []TransactionInv
<1>1. Init => TransactionInv
  BY InitHolds
<1>2. TransactionInv /\ [Next]_vars => TransactionInv'
  BY StepKeeps
<1>3. QED
  BY <1>1, <1>2, PTL DEF Spec

\* Every variable keeps its shape; no task is left in its initial state by its first
\* poll (create.rs and update.rs, poll).
THEOREM TypesAreKept == Spec => []TypeOK
<1>1. TransactionInv => TypeOK
  BY DEF TransactionInv
<1>2. QED
  BY <1>1, TransactionInvariant, PTL

\* A device reflects and commits only while the transaction is its own, and the update
\* of a contact reaches only devices that know the contact (begin.rs,
\* poll_begin_transaction; update.rs, "All of the contacts must exist").
THEOREM TransactionsAreProtected == Spec => []TransactionsProtect
<1>1. TransactionInv => ReflectsOnlyInTransaction
  <2> SUFFICES ASSUME TransactionInv, NEW d \in Devices,
                      task[d].state \in {"ReflectAndCommit", "AbortTransaction"},
                      NEW k \in 1 .. Len(outbox[d]), outbox[d][k].type # "BeginTransaction"
               PROVE  holder = d
    BY DEF ReflectsOnlyInTransaction
  <2>1. outbox[d] # <<>>
    OBVIOUS
  <2>2. Phase(task[d].state, outbox[d], inbox[d], holder = d)
    BY DEF TransactionInv, PhasesFit, PhaseOf
  <2>3. QED
    BY <2>1, <2>2 DEF Phase, Commits
<1>2. TransactionInv => UpdatesKnownContact
  <2> SUFFICES ASSUME TransactionInv, NEW d \in Devices,
                      inbox[d] # <<>>, Head(inbox[d]).type = "Reflect",
                      Head(inbox[d]).action = "Update"
               PROVE  Has(d, Head(inbox[d]).identity)
    BY DEF UpdatesKnownContact, Receives
  <2> DEFINE i == Head(inbox[d]).identity
  <2>1. d \in Linked /\ inbox[d] \in Seq(Answers)
    BY DEF TransactionInv, TypeOK, PhasesFit, PhaseOf
  <2>2. Len(inbox[d]) \in Nat \ {0} /\ Head(inbox[d]) = inbox[d][1]
    BY <2>1, Taken
  <2>3. UpdatesFit(inbox[d], contacts[d])
    BY <2>1 DEF TransactionInv, ReflectedFits
  <2>4. EndsIn(inbox[d], 0, i, contacts[d][i], Values)
    BY <2>2, <2>3 DEF UpdatesFit
  <2>5. contacts[d][i] \in Values
    BY <2>4 DEF EndsIn
  <2>6. QED
    BY <2>5, TransactionAssumption DEF Has
<1>3. QED
  BY <1>1, <1>2, TransactionInvariant, PTL DEF TransactionsProtect

\* Linked devices that have nothing left to apply and no commit to wait for agree on
\* the contacts, unless a transaction broke off between reflecting and storing
\* (create.rs and update.rs; transaction/mod.rs).
THEOREM DevicesConverge == Spec => []Converge
<1>1. ASSUME TransactionInv, ~torn,
             NEW group \in [Identities -> Values \cup {Absent}], NEW d \in Linked,
             AgreesOn(group, inbox[d], contacts[d], task[d], outbox[d]),
             Settled(d)
      PROVE  contacts[d] = group
  <2>1. inbox[d] \in Seq(Answers) /\ contacts[d] \in [Identities -> Values \cup {Absent}]
    BY <1>1 DEF TransactionInv, TypeOK, Linked
  <2>2. NoReflect(outbox[d])
    BY <1>1 DEF TransactionInv, Agreement, InOrder, Settled
  <2>3. ASSUME NEW i \in Identities
        PROVE  contacts[d][i] = group[i]
    <3>1. EndsIn(inbox[d], Len(inbox[d]), i, StoredAs(task[d], contacts[d], i), {group[i]})
      BY <1>1, <2>2 DEF AgreesOn, NoReflect, Writes
    <3>2. StoredAs(task[d], contacts[d], i) = contacts[d][i]
      BY <1>1 DEF StoredAs, Settled
    <3>3. EndsIn(inbox[d], Len(inbox[d]), i, contacts[d][i], {group[i]})
      BY <3>1, <3>2
    <3>4. Len(inbox[d]) \in Nat
      BY <2>1
    <3>5. \A k \in 1 .. Len(inbox[d]) : inbox[d][k].type # "Reflect"
      BY <1>1 DEF Settled
    <3>6. contacts[d][i] \in {group[i]}
      BY <3>3, <3>4, <3>5, EndsInQuiet
    <3>7. QED
      BY <3>6
  <2>4. QED
    BY <1>1, <2>1, <2>3
<1>2. TransactionInv => Converge
  <2> SUFFICES ASSUME TransactionInv, ~torn, NEW d \in Linked, NEW e \in Linked,
                      Settled(d), Settled(e)
               PROVE  contacts[d] = contacts[e]
    BY DEF Converge
  <2>1. PICK group \in [Identities -> Values \cup {Absent}] : \A f \in Linked :
           AgreesOn(group, inbox[f], contacts[f], task[f], outbox[f])
    BY DEF TransactionInv, Agreement
  <2>2. contacts[d] = group /\ contacts[e] = group
    BY <1>1, <2>1
  <2>3. QED
    BY <2>2
<1>3. QED
  BY <1>2, TransactionInvariant, PTL

-----------------------------------------------------------------------------
(* What a task stores                                                      *)

\* What is missing is not there: to create it leaves what is there alone.
LEMMA CreateSpares ==
    ASSUME TypeOK, NEW d \in Devices, NEW batch \in Seq(Contacts),
           NEW i \in Identities, Has(d, i)
    PROVE  Store(d, Missing(d, batch))[i] = contacts[d][i]
<1> DEFINE lacks == {k \in 1 .. Len(batch) : ~Has(d, batch[k].identity)}
<1>1. PICK f : Picks(batch, lacks, Len(batch), Missing(d, batch), f)
  BY KeptPicks DEF Missing
<1>2. \A k \in 1 .. Len(Missing(d, batch)) : ~Has(d, Missing(d, batch)[k].identity)
  BY <1>1 DEF Picks
<1>3. ~Holds(Missing(d, batch), i)
  BY <1>2 DEF Holds
<1>4. QED
  BY <1>3 DEF Store

\* Nothing to store leaves the contacts as they are.
LEMMA StoreNothing ==
    ASSUME TypeOK, NEW d \in Devices
    PROVE  Store(d, <<>>) = contacts[d]
<1>1. contacts[d] \in [Identities -> Values \cup {Absent}]
  BY DEF TypeOK
<1>2. \A i \in Identities : Store(d, <<>>)[i] = contacts[d][i]
  BY DEF Store, Holds
<1>3. Store(d, <<>>) = [i \in Identities |-> Store(d, <<>>)[i]]
  BY DEF Store
<1>4. QED
  BY <1>1, <1>2, <1>3

\* The steps that change the contacts of a device
LEMMA WhoStores ==
    ASSUME TypeOK, [Next]_vars, NEW d \in Devices, contacts'[d] # contacts[d]
    PROVE  \/ \E kind \in {"Create", "Update"}, batch \in Batches :
                 d \notin Linked /\ Start(d, kind, batch)
           \/ PollReflectAndCommitTransaction(d)
           \/ ApplyReflected(d)
<1>1. contacts' # contacts
  OBVIOUS
<1>2. \A e \in Devices : \A store : contacts' = [contacts EXCEPT ![e] = store] => e = d
  BY DEF TypeOK
<1>3. PICK e \in Devices :
         \/ \E kind \in {"Create", "Update"}, batch \in Batches : Start(e, kind, batch)
         \/ Deliver(e) \/ PollEarly(e) \/ Disconnect(e) \/ Serve(e)
         \/ \E identity \in Identities, value \in Values \cup {Absent} :
               PeerTransaction(identity, value)
  BY <1>1 DEF Next, vars, deviceVars
<1>4. ~PollEarly(e) /\ ~Disconnect(e) /\ ~Serve(e)
  BY <1>1 DEF PollEarly, Disconnect, Serve, ServeBegin, ServeReflect, ServeCommit, deviceVars
<1>5. ~ \E identity \in Identities, value \in Values \cup {Absent} :
           PeerTransaction(identity, value)
  BY <1>1 DEF PeerTransaction, deviceVars
<1>6. CASE Deliver(e)
  <2>1. PollReflectAndCommitTransaction(e) \/ ApplyReflected(e)
    BY <1>1, <1>6 DEF Deliver, PollTransactionEnded, PollBeginTransaction, ReceiveReflectAck,
       PollAbortTransaction
  <2>2. \E store : contacts' = [contacts EXCEPT ![e] = store]
    BY <2>1 DEF PollReflectAndCommitTransaction, ApplyReflected
  <2>3. QED
    BY <1>2, <2>1, <2>2
<1>7. ASSUME NEW kind \in {"Create", "Update"}, NEW batch \in Batches, Start(e, kind, batch)
      PROVE  e = d /\ d \notin Linked
  <2>1. e \notin Linked /\ StartUnlinked(e, NewTask(kind, batch))
    BY <1>1, <1>7 DEF Start
  <2>2. \E store : contacts' = [contacts EXCEPT ![e] = store]
    BY <2>1 DEF StartUnlinked
  <2>3. QED
    BY <1>2, <2>1, <2>2
<1>8. QED
  BY <1>3, <1>4, <1>5, <1>6, <1>7

\* What a task stores was acknowledged, and creating contacts overwrites none that
\* another device created while the task waited for its transaction (reflect.rs, poll;
\* create.rs, add_contacts).
THEOREM TasksStoreSafely == Spec => StoresSafely
<1>1. ASSUME TransactionInv, [Next]_vars, NEW d \in Linked,
             task[d].state = "ReflectAndCommit", contacts'[d] # contacts[d]
      PROVE  task[d].expected \subseteq task[d].acked
  <2>1. d \in Devices /\ TypeOK
    BY <1>1 DEF Linked, TransactionInv
  <2>2. ~ \E kind \in {"Create", "Update"}, batch \in Batches :
             d \notin Linked /\ Start(d, kind, batch)
    OBVIOUS
  <2>3. ~ApplyReflected(d)
    <3> SUFFICES ASSUME inbox[d] # <<>>, Head(inbox[d]).type = "Reflect"
                 PROVE  FALSE
      BY DEF ApplyReflected, Receives
    <3>1. inbox[d] \in Seq(Answers) /\ Phase(task[d].state, outbox[d], inbox[d], holder = d)
      BY <1>1, <2>1 DEF TransactionInv, TypeOK, PhasesFit, PhaseOf
    <3>2. Commits(outbox[d], inbox[d], holder = d)
      BY <1>1, <3>1 DEF Phase
    <3>3. Head(inbox[d]) = inbox[d][1] /\ Len(inbox[d]) \in Nat \ {0}
      BY <3>1, Taken
    <3>4. ~NoReflect(inbox[d])
      BY <3>3 DEF NoReflect
    <3>5. PICK k \in 1 .. Len(inbox[d]) : \A l \in 1 .. k : inbox[d][l].type # "Reflect"
      BY <3>2, <3>4 DEF Commits
    <3>6. QED
      BY <3>3, <3>5
  <2>4. PollReflectAndCommitTransaction(d)
    BY <1>1, <2>1, <2>2, <2>3, WhoStores
  <2>5. ~AllAcknowledged(task[d]) => contacts' = [contacts EXCEPT ![d] = Store(d, <<>>)]
    BY <2>4 DEF PollReflectAndCommitTransaction
  <2>6. ~AllAcknowledged(task[d]) => contacts'[d] = contacts[d]
    BY <2>1, <2>5, StoreNothing DEF TypeOK
  <2>7. QED
    BY <1>1, <2>6 DEF AllAcknowledged
<1>2. ASSUME TransactionInv, [Next]_vars, NEW d \in Devices, NEW i \in Identities,
             Has(d, i), contacts'[d][i] # contacts[d][i], task'[d] # task[d]
      PROVE  task'[d].kind = "Update"
  <2>1. TypeOK /\ contacts'[d] # contacts[d]
    BY <1>2 DEF TransactionInv
  <2>2. ASSUME NEW batch \in Seq(Contacts),
               \/ contacts' = [contacts EXCEPT ![d] = Store(d, Missing(d, batch))]
               \/ contacts' = [contacts EXCEPT ![d] = Store(d, <<>>)]
        PROVE  FALSE
    <3>1. contacts'[d] = Store(d, Missing(d, batch)) \/ contacts'[d] = contacts[d]
      BY <2>1, <2>2, StoreNothing DEF TypeOK
    <3>2. QED
      BY <1>2, <2>1, <3>1, CreateSpares
  <2>3. ASSUME NEW kind \in {"Create", "Update"}, NEW batch \in Batches, d \notin Linked,
               Start(d, kind, batch)
        PROVE  task'[d].kind = "Update"
    <3>1. batch \in Seq(Contacts)
      BY TransactionAssumption DEF Contacts
    <3>2. StartUnlinked(d, NewTask(kind, batch))
      BY <2>3 DEF Start
    <3>3. NewTask(kind, batch).kind = kind /\ NewTask(kind, batch).batch = batch
      BY DEF NewTask
    <3>4. kind = "Update"
      BY <2>2, <3>1, <3>2, <3>3 DEF StartUnlinked
    <3>5. \E state : task' = [task EXCEPT ![d] = [NewTask(kind, batch) EXCEPT !.state = state]]
      BY <3>2 DEF StartUnlinked, Become
    <3>6. \A state : [NewTask(kind, batch) EXCEPT !.state = state].kind = kind
      BY DEF NewTask
    <3>7. QED
      BY <2>1, <3>4, <3>5, <3>6 DEF TypeOK
  <2>4. ASSUME PollReflectAndCommitTransaction(d)
        PROVE  task'[d].kind = "Update"
    <3>1. task[d] \in Tasks
      BY <2>1 DEF TypeOK
    <3>2. task[d].batch \in Seq(Contacts) /\ task[d].kind \in {"Create", "Update"}
      BY <3>1 DEF Tasks
    <3>3. task[d].kind = "Update"
      BY <2>2, <2>4, <3>2 DEF PollReflectAndCommitTransaction
    <3>4. \E state : task' = [task EXCEPT ![d] = [task[d] EXCEPT !.state = state]]
      BY <2>4 DEF PollReflectAndCommitTransaction, Become
    <3>5. \A state : [task[d] EXCEPT !.state = state].kind = task[d].kind
      BY <3>1 DEF Tasks
    <3>6. QED
      BY <2>1, <3>3, <3>4, <3>5 DEF TypeOK
  <2>5. ~ApplyReflected(d)
    BY <1>2 DEF ApplyReflected
  <2>6. QED
    BY <1>2, <2>1, <2>3, <2>4, <2>5, WhoStores
<1>3. TransactionInv /\ [Next]_vars =>
         [\A d \in Linked :
             (task[d].state = "ReflectAndCommit" /\ contacts'[d] # contacts[d])
                 => task[d].expected \subseteq task[d].acked]_vars
  BY <1>1
<1>4. TransactionInv /\ [Next]_vars =>
         [\A d \in Devices, i \in Identities :
             (/\ Has(d, i)
              /\ contacts'[d][i] # contacts[d][i]
              /\ task'[d] # task[d])
                 => task'[d].kind = "Update"]_vars
  BY <1>2
<1>5. QED
  BY <1>3, <1>4, TransactionInvariant, PTL
     DEF Spec, StoresSafely, StoresOnlyAcknowledged, CreateNeverOverwrites

=============================================================================

------------------------------ MODULE D2mProofs ------------------------------
(***************************************************************************)
(* Proofs about D2mProtocol, for every value of its constants: its types,  *)
(* that what either side sends arrives, once, in order and in the state it *)
(* is meant for, and that the app only runs a transaction while it holds   *)
(* the lock of the device group.                                           *)
(*                                                                         *)
(* The codec comes first: each payload's datagram decodes to it again.     *)
(* Then the argument counts places: what the client has not handled yet is *)
(* what the mediator has sent from a place on, and what the mediator has   *)
(* not received is what the client has created from a place on.            *)
(***************************************************************************)
EXTENDS D2mProtocol, FiniteSetTheorems, SequenceTheorems, WellFoundedInduction, TLAPS

-----------------------------------------------------------------------------
(* Recursion over numbers                                                  *)

\* Every non-empty set of numbers has a least element: the strict subsets of finite
\* sets are well-founded, and a number is one with the set of those up to it.
LEMMA Least ==
    ASSUME NEW N \in SUBSET Nat, N # {}
    PROVE  \E m \in N : \A n \in N : m <= n
<1> DEFINE T == {0 .. n : n \in N}
<1>1. IsWellFoundedOn(StrictSubsetOrdering(Nat), FiniteSubsetsOf(Nat))
  BY FS_StrictSubsetOrderingWellFounded
<1>2. T \subseteq FiniteSubsetsOf(Nat)
  <2>1. \A n \in N : IsFiniteSet(0 .. n) /\ 0 .. n \in SUBSET Nat
    BY FS_Interval
  <2>2. QED
    BY <2>1 DEF FiniteSubsetsOf
<1>3. T # {}
  OBVIOUS
<1> HIDE DEF T
<1>4. PICK x \in T : \A y \in T : ~(<<y, x>> \in StrictSubsetOrdering(Nat))
  BY <1>1, <1>2, <1>3, WFMin
<1>5. PICK m \in N : x = 0 .. m
  BY DEF T
<1>6. ASSUME NEW n \in N, n < m
      PROVE  FALSE
  <2>1. 0 .. n \in T
    BY DEF T
  <2>2. 0 .. n \subseteq 0 .. m /\ m \notin 0 .. n /\ m \in 0 .. m
    BY <1>6
  <2>3. <<0 .. n, 0 .. m>> \in StrictSubsetOrdering(Nat)
    BY <2>2 DEF StrictSubsetOrdering
  <2>4. QED
    BY <1>4, <1>5, <2>1, <2>3
<1>7. QED
  BY <1>6

\* Induction: a set that holds 0 and with a number below n the next one holds all
\* numbers up to n.
LEMMA UpTo ==
    ASSUME NEW n \in Nat, NEW S,
           0 \in S,
           \A i \in 0 .. n - 1 : i \in S => i + 1 \in S
    PROVE  0 .. n \subseteq S
<1> SUFFICES ASSUME NEW bad \in 0 .. n, bad \notin S
             PROVE  FALSE
  OBVIOUS
<1> DEFINE N == {i \in 0 .. n : i \notin S}
<1>1. N \in SUBSET Nat /\ N # {}
  OBVIOUS
<1> HIDE DEF N
<1>2. PICK m \in N : \A k \in N : m <= k
  BY <1>1, Least
<1>3. m \in 0 .. n /\ m \notin S /\ m # 0
  BY <1>2 DEF N
<1>4. m - 1 \in S
  BY <1>2, <1>3 DEF N
<1>5. QED
  BY <1>3, <1>4

-----------------------------------------------------------------------------
(* Integers                                                                *)

\* What is left of a value is its recursive definition (ToLe).
RestTo(value, n, rest) ==
    rest = [i \in 1 .. n |-> IF i = 1 THEN value ELSE rest[i - 1] \div 256]

\* The recursion behind Rest has a solution.
LEMMA RestIsDefined ==
    ASSUME NEW value \in Nat, NEW length \in Nat
    PROVE  RestTo(value, length, Rest(value, length))
<1> DEFINE S == {n \in 0 .. length : \E rest : RestTo(value, n, rest)}
<1>1. 0 \in S
  <2>1. RestTo(value, 0, [i \in 1 .. 0 |-> 0])
    BY DEF RestTo
  <2>2. QED
    BY <2>1
<1>2. ASSUME NEW n \in 0 .. length - 1, n \in S
      PROVE  n + 1 \in S
  <2>1. PICK rest : RestTo(value, n, rest)
    BY <1>2
  <2> DEFINE next == IF n = 0 THEN value ELSE rest[n] \div 256
             longer == [i \in 1 .. n + 1 |-> IF i <= n THEN rest[i] ELSE next]
  <2>2. \A i \in 1 .. n : rest[i] = IF i = 1 THEN value ELSE rest[i - 1] \div 256
    BY <2>1 DEF RestTo
  <2>3. \A i \in 1 .. n + 1 : longer[i] = IF i = 1 THEN value ELSE longer[i - 1] \div 256
    BY <2>2
  <2>4. RestTo(value, n + 1, longer)
    BY <2>3 DEF RestTo
  <2> HIDE DEF longer
  <2>5. QED
    BY <2>4
<1> HIDE DEF S
<1>3. length \in S
  BY <1>1, <1>2, UpTo, 0 .. length \subseteq S
<1>4. \E rest : RestTo(value, length, rest)
  BY <1>3 DEF S
<1>5. RestTo(value, length, CHOOSE rest : RestTo(value, length, rest))
  BY <1>4
<1>6. Rest(value, length) = CHOOSE rest : RestTo(value, length, rest)
  BY DEF Rest, RestTo
<1>7. QED
  BY <1>5, <1>6

\* What is left of a value is numbers, each a 256th of the one before.
LEMMA RestValues ==
    ASSUME NEW value \in Nat, NEW length \in Nat \ {0}
    PROVE  /\ \A i \in 1 .. length : Rest(value, length)[i] \in Nat
           /\ Rest(value, length)[1] = value
           /\ \A i \in 2 .. length :
                Rest(value, length)[i] = Rest(value, length)[i - 1] \div 256
<1> DEFINE rest == Rest(value, length)
           S == {k \in 0 .. length - 1 : rest[k + 1] \in Nat}
<1>1. RestTo(value, length, rest)
  BY RestIsDefined
<1> HIDE DEF rest
<1>2. \A i \in 1 .. length : rest[i] = IF i = 1 THEN value ELSE rest[i - 1] \div 256
  BY <1>1 DEF RestTo
<1>3. 0 \in S
  BY <1>2
<1>4. ASSUME NEW k \in 0 .. (length - 1) - 1, k \in S
      PROVE  k + 1 \in S
  <2>1. rest[k + 2] = rest[k + 1] \div 256 /\ rest[k + 1] \in Nat
    BY <1>2, <1>4
  <2>2. rest[k + 2] \in Nat
    BY <2>1
  <2>3. QED
    BY <2>2
<1> HIDE DEF S
<1>5. 0 .. length - 1 \subseteq S
  BY <1>3, <1>4, UpTo
<1>6. \A i \in 1 .. length : rest[i] \in Nat
  <2> TAKE i \in 1 .. length
  <2>1. i - 1 \in S
    BY <1>5
  <2>2. QED
    BY <2>1 DEF S
<1>7. QED
  BY <1>2, <1>6 DEF rest

\* The bytes of a value.
LEMMA ToLeBytes ==
    ASSUME NEW value \in Nat, NEW length \in Nat \ {0}
    PROVE  /\ ToLe(value, length) \in Seq(Nat)
           /\ Len(ToLe(value, length)) = length
           /\ \A i \in 1 .. length : ToLe(value, length)[i] = Rest(value, length)[i] % 256
<1>1. \A i \in 1 .. length : Rest(value, length)[i] % 256 \in Nat
  BY RestValues
<1>2. QED
  BY <1>1 DEF ToLe

\* What the bytes from each place on stand for.
ValueFrom(bytes, first, value) ==
    value = [i \in first .. Len(bytes) + 1 |->
                IF i > Len(bytes) THEN 0 ELSE bytes[i] + 256 * value[i + 1]]

\* The recursion behind FromLe has a solution.
LEMMA FromLeIsDefined ==
    ASSUME NEW bytes, Len(bytes) \in Nat
    PROVE  \E value : ValueFrom(bytes, 1, value) /\ FromLe(bytes) = value[1]
<1> DEFINE S == {k \in 0 .. Len(bytes) : \E value : ValueFrom(bytes, Len(bytes) + 1 - k, value)}
<1>1. 0 \in S
  <2>1. ValueFrom(bytes, Len(bytes) + 1, [i \in Len(bytes) + 1 .. Len(bytes) + 1 |-> 0])
    BY DEF ValueFrom
  <2>2. QED
    BY <2>1
<1>2. ASSUME NEW k \in 0 .. Len(bytes) - 1, k \in S
      PROVE  k + 1 \in S
  <2> DEFINE first == Len(bytes) + 1 - k
  <2>1. PICK value : ValueFrom(bytes, first, value)
    BY <1>2
  <2> DEFINE longer == [i \in first - 1 .. Len(bytes) + 1 |->
                           IF i >= first THEN value[i]
                           ELSE bytes[first - 1] + 256 * value[first]]
  <2>2. \A i \in first .. Len(bytes) + 1 :
           value[i] = IF i > Len(bytes) THEN 0 ELSE bytes[i] + 256 * value[i + 1]
    BY <2>1 DEF ValueFrom
  <2>3. \A i \in first - 1 .. Len(bytes) + 1 :
           longer[i] = IF i > Len(bytes) THEN 0 ELSE bytes[i] + 256 * longer[i + 1]
    BY <2>2
  <2>4. longer = [i \in first - 1 .. Len(bytes) + 1 |-> longer[i]]
    OBVIOUS
  <2>5. first - 1 = Len(bytes) + 1 - (k + 1)
    OBVIOUS
  <2> HIDE DEF longer, first
  <2>6. ValueFrom(bytes, first - 1, longer)
    BY <2>3, <2>4 DEF ValueFrom
  <2>7. QED
    BY <2>5, <2>6
<1> HIDE DEF S
<1>3. Len(bytes) \in S
  BY <1>1, <1>2, UpTo, 0 .. Len(bytes) \subseteq S
<1>4. \E value : ValueFrom(bytes, 1, value)
  BY <1>3 DEF S
<1>5. ValueFrom(bytes, 1, CHOOSE value : ValueFrom(bytes, 1, value))
  BY <1>4
<1>6. FromLe(bytes) = (CHOOSE value : ValueFrom(bytes, 1, value))[1]
  BY DEF FromLe, ValueFrom
<1>7. QED
  BY <1>5, <1>6

\* A single byte stands for itself.
LEMMA FromLeByte ==
    ASSUME NEW byte \in Nat
    PROVE  FromLe(<<byte>>) = byte
<1>1. PICK value : ValueFrom(<<byte>>, 1, value) /\ FromLe(<<byte>>) = value[1]
  BY FromLeIsDefined
<1>2. \A i \in 1 .. 2 : value[i] = IF i > 1 THEN 0 ELSE <<byte>>[i] + 256 * value[i + 1]
  BY <1>1 DEF ValueFrom
<1>3. value[2] = 0
  BY <1>2
<1>4. value[1] = byte + 256 * value[2]
  BY <1>2
<1>5. QED
  BY <1>1, <1>3, <1>4

\* A value survives its bytes, when it fits them (to_le_bytes, from_le_bytes).
LEMMA IntegerSurvives ==
    ASSUME NEW value, NEW length \in Nat \ {0}, FitsIn(value, length)
    PROVE  FromLe(ToLe(value, length)) = value
<1> DEFINE bytes == ToLe(value, length)
           rest  == Rest(value, length)
<1>1. /\ value \in Nat
      /\ rest[length] < 256
  BY DEF FitsIn
<1>2. /\ \A i \in 1 .. length : rest[i] \in Nat
      /\ rest[1] = value
      /\ \A i \in 2 .. length : rest[i] = rest[i - 1] \div 256
  BY <1>1, RestValues
<1>3. Len(bytes) = length /\ \A i \in 1 .. length : bytes[i] = rest[i] % 256
  BY <1>1, ToLeBytes
<1> HIDE DEF bytes, rest
<1>4. PICK of : ValueFrom(bytes, 1, of) /\ FromLe(bytes) = of[1]
  BY <1>3, FromLeIsDefined
<1>5. \A i \in 1 .. length + 1 : of[i] = IF i > length THEN 0 ELSE bytes[i] + 256 * of[i + 1]
  BY <1>3, <1>4 DEF ValueFrom
<1> DEFINE S == {k \in 0 .. length - 1 : of[length - k] = rest[length - k]}
<1>6. 0 \in S
  <2>1. of[length + 1] = 0
    BY <1>5
  <2>2. of[length] = bytes[length] + 256 * of[length + 1]
    BY <1>5
  <2>3. bytes[length] = rest[length]
    <3>1. \A x \in 0 .. 255 : x % 256 = x
      OBVIOUS
    <3>2. length \in 1 .. length
      OBVIOUS
    <3>3. rest[length] \in Nat /\ bytes[length] = rest[length] % 256
      BY <1>2, <1>3, <3>2
    <3>4. rest[length] \in 0 .. 255
      BY <1>1, <3>3
    <3>5. QED
      BY <3>1, <3>3, <3>4
  <2>4. QED
    BY <1>2, <2>1, <2>2, <2>3
<1>7. ASSUME NEW k \in 0 .. (length - 1) - 1, k \in S
      PROVE  k + 1 \in S
  <2> DEFINE i == length - k - 1
  <2>1. i \in 1 .. length - 1 /\ i + 1 = length - k
    OBVIOUS
  <2>2. of[i + 1] = rest[i + 1]
    BY <1>7, <2>1
  <2> HIDE DEF i
  <2>3. of[i] = bytes[i] + 256 * of[i + 1]
    BY <1>5, <2>1
  <2>4. rest[i + 1] = rest[i] \div 256 /\ bytes[i] = rest[i] % 256 /\ rest[i] \in Nat
    BY <1>2, <1>3, <2>1
  <2>5. rest[i] = (rest[i] % 256) + 256 * (rest[i] \div 256)
    BY <2>4
  <2>6. of[i] = rest[i]
    BY <2>2, <2>3, <2>4, <2>5
  <2>7. QED
    BY <2>6 DEF i
<1> HIDE DEF S
<1>8. length - 1 \in S
  BY <1>6, <1>7, UpTo, 0 .. length - 1 \subseteq S
<1>9. of[1] = rest[1]
  BY <1>8 DEF S
<1>10. QED
  BY <1>2, <1>4, <1>9 DEF bytes

-----------------------------------------------------------------------------
(* Readers                                                                 *)

At(buffer, offset) == [buffer |-> buffer, offset |-> offset]

\* Chaining after an operation that succeeded.
LEMMA DoneFields ==
    ASSUME NEW value, NEW reader
    PROVE  /\ Done(value, reader).ok = TRUE
           /\ Done(value, reader).value = value
           /\ Done(value, reader).reader = reader
BY DEF Done

LEMMA WithDone ==
    ASSUME NEW value, NEW reader, NEW other
    PROVE  With(Done(value, reader), other) = Done(other, reader)
BY DEF With, Done

LEMMA ThenDone ==
    ASSUME NEW value, NEW reader, NEW next
    PROVE  Then(Done(value, reader), next) = next
BY DoneFields DEF Then

\* What is read is the slice behind the offset, which moves on (ByteReader::read).
LEMMA ReadValue ==
    ASSUME NEW buffer, Len(buffer) \in Nat, NEW offset \in Nat, NEW length \in Nat,
           offset + length <= Len(buffer)
    PROVE  Read(At(buffer, offset), length) =
               Done(SubSeq(buffer, offset + 1, offset + length), At(buffer, offset + length))
<1>1. Skip(At(buffer, offset), length) = Done(<<>>, At(buffer, offset + length))
  BY DEF Skip, At
<1>2. At(buffer, offset).offset = offset /\ At(buffer, offset).buffer = buffer
  BY DEF At
<1>3. ReadRange(At(buffer, offset), length) =
          Done(<<offset, offset + length>>, At(buffer, offset + length))
  BY <1>1, <1>2, WithDone DEF ReadRange
<1>4. Slice(buffer, <<offset, offset + length>>) = SubSeq(buffer, offset + 1, offset + length)
  BY DEF Slice
<1> DEFINE range == <<offset, offset + length>>
           after == At(buffer, offset + length)
<1>5. Read(At(buffer, offset), length) =
          With(Done(range, after), Slice(buffer, Done(range, after).value))
  BY <1>2, <1>3 DEF Read
<1>6. Done(range, after).value = range
  BY DoneFields
<1>7. QED
  BY <1>4, <1>5, <1>6, WithDone

\* A slice that reaches past the end fails.
LEMMA SkipValue ==
    ASSUME NEW buffer, Len(buffer) \in Nat, NEW offset \in Nat, NEW length \in Nat,
           offset + length <= Len(buffer)
    PROVE  Skip(At(buffer, offset), length) = Done(<<>>, At(buffer, offset + length))
BY DEF Skip, At

\* All that is left is the slice up to the end.
LEMMA RemainingValue ==
    ASSUME NEW buffer, Len(buffer) \in Nat, NEW offset \in 0 .. Len(buffer)
    PROVE  ReadRemaining(At(buffer, offset)) =
               Done(SubSeq(buffer, offset + 1, Len(buffer)), At(buffer, Len(buffer)))
<1>1. Remaining(At(buffer, offset)) = Len(buffer) - offset
  BY DEF Remaining, At
<1>2. offset + (Len(buffer) - offset) = Len(buffer) /\ Len(buffer) - offset \in Nat
  OBVIOUS
<1>3. QED
  BY <1>1, <1>2, ReadValue DEF ReadRemaining

\* An integer is what its slice stands for.
LEMMA IntValue ==
    ASSUME NEW buffer, Len(buffer) \in Nat, NEW offset \in Nat, NEW length \in Nat,
           offset + length <= Len(buffer)
    PROVE  ReadInt(At(buffer, offset), length) =
               Done(FromLe(SubSeq(buffer, offset + 1, offset + length)),
                    At(buffer, offset + length))
<1> DEFINE slice == SubSeq(buffer, offset + 1, offset + length)
           after == At(buffer, offset + length)
<1>1. Read(At(buffer, offset), length) = Done(slice, after)
  BY ReadValue
<1>2. Done(slice, after).value = slice
  BY DoneFields
<1>3. ReadInt(At(buffer, offset), length) =
          With(Done(slice, after), FromLe(Done(slice, after).value))
  BY <1>1 DEF ReadInt
<1>4. QED
  BY <1>2, <1>3, WithDone

\* Where the integers end, by their lengths.
EndTo(lengths, n, end) == end = [i \in 0 .. n |-> IF i = 0 THEN 0 ELSE end[i - 1] + lengths[i]]

\* The recursion in ReadInts has a solution.
LEMMA EndIsDefined ==
    ASSUME NEW lengths, Len(lengths) \in Nat
    PROVE  \E end : EndTo(lengths, Len(lengths), end)
<1> DEFINE S == {n \in 0 .. Len(lengths) : \E end : EndTo(lengths, n, end)}
<1>1. 0 \in S
  <2>1. EndTo(lengths, 0, [i \in 0 .. 0 |-> 0])
    BY DEF EndTo
  <2>2. QED
    BY <2>1
<1>2. ASSUME NEW n \in 0 .. Len(lengths) - 1, n \in S
      PROVE  n + 1 \in S
  <2>1. PICK end : EndTo(lengths, n, end)
    BY <1>2
  <2> DEFINE longer == [i \in 0 .. n + 1 |-> IF i <= n THEN end[i] ELSE end[n] + lengths[n + 1]]
  <2>2. \A i \in 0 .. n : end[i] = IF i = 0 THEN 0 ELSE end[i - 1] + lengths[i]
    BY <2>1 DEF EndTo
  <2>3. \A i \in 0 .. n + 1 : longer[i] = IF i = 0 THEN 0 ELSE longer[i - 1] + lengths[i]
    BY <2>2
  <2>4. EndTo(lengths, n + 1, longer)
    BY <2>3 DEF EndTo
  <2> HIDE DEF longer
  <2>5. QED
    BY <2>4
<1> HIDE DEF S
<1>3. Len(lengths) \in S
  BY <1>1, <1>2, UpTo, 0 .. Len(lengths) \subseteq S
<1>4. QED
  BY <1>3 DEF S

\* Integers are what the slices of their lengths stand for.
IntsTo(buffer, offset, lengths, n, to, values) ==
    /\ EndTo(lengths, n, to)
    /\ values = [i \in DOMAIN lengths |-> values[i]]
    /\ \A i \in DOMAIN lengths :
         values[i] = FromLe(SubSeq(SubSeq(buffer, offset + 1, offset + to[n]),
                                   to[i - 1] + 1, to[i]))
    /\ ReadInts(At(buffer, offset), lengths) = Done(values, At(buffer, offset + to[n]))

LEMMA IntsValue ==
    ASSUME NEW buffer, Len(buffer) \in Nat, NEW offset \in Nat, NEW lengths, NEW n \in Nat,
           Len(lengths) = n,
           NEW end, EndTo(lengths, n, end), end[n] \in Nat, offset + end[n] <= Len(buffer)
    PROVE  \E to, values : IntsTo(buffer, offset, lengths, n, to, values)
<1> DEFINE to == CHOOSE f : EndTo(lengths, n, f)
<1>1. EndTo(lengths, n, to)
  BY EndIsDefined
<1>2. n = Len(lengths)
  OBVIOUS
<1>3. ReadInts(At(buffer, offset), lengths) =
        With(Read(At(buffer, offset), to[n]),
             [i \in DOMAIN lengths |->
                 FromLe(SubSeq(Read(At(buffer, offset), to[n]).value, to[i - 1] + 1, to[i]))])
  BY <1>2 DEF ReadInts, EndTo
<1> HIDE DEF to
<1> DEFINE S == {k \in 0 .. n : to[k] = end[k]}
<1>4. \A f : EndTo(lengths, n, f) =>
         \A i \in 0 .. n : f[i] = IF i = 0 THEN 0 ELSE f[i - 1] + lengths[i]
  BY DEF EndTo
<1>5. \A i \in 0 .. n : /\ to[i] = IF i = 0 THEN 0 ELSE to[i - 1] + lengths[i]
                        /\ end[i] = IF i = 0 THEN 0 ELSE end[i - 1] + lengths[i]
  BY <1>1, <1>4
<1>6. 0 \in S
  BY <1>5
<1>7. ASSUME NEW k \in 0 .. n - 1, k \in S
      PROVE  k + 1 \in S
  BY <1>5, <1>7
<1> HIDE DEF S
<1>8. n \in S
  BY <1>6, <1>7, UpTo, 0 .. n \subseteq S
<1>9. to[n] = end[n]
  BY <1>8 DEF S
<1>10. Read(At(buffer, offset), to[n]) =
         Done(SubSeq(buffer, offset + 1, offset + to[n]), At(buffer, offset + to[n]))
  BY <1>9, ReadValue
<1> DEFINE slice == SubSeq(buffer, offset + 1, offset + to[n])
           after == At(buffer, offset + to[n])
           values == [i \in DOMAIN lengths |-> FromLe(SubSeq(slice, to[i - 1] + 1, to[i]))]
<1>11. Done(slice, after).value = slice
  BY DoneFields
<1>12. ReadInts(At(buffer, offset), lengths) = With(Done(slice, after), values)
  BY <1>3, <1>10, <1>11
<1>13. ReadInts(At(buffer, offset), lengths) = Done(values, after)
  BY <1>12, WithDone
<1>14. /\ values = [i \in DOMAIN lengths |-> values[i]]
       /\ \A i \in DOMAIN lengths :
            values[i] = FromLe(SubSeq(slice, to[i - 1] + 1, to[i]))
  OBVIOUS
<1> HIDE DEF values
<1>15. IntsTo(buffer, offset, lengths, n, to, values)
  BY <1>1, <1>13, <1>14 DEF IntsTo
<1>16. QED
  BY <1>15

\* The bytes between two offsets.
Holds(buffer, from, to, bytes) == SubSeq(buffer, from + 1, to) = bytes

\* The two integers of an acknowledgement, and the three of the header of a message.
LEMMA TwoIntsValue ==
    ASSUME NEW buffer, Len(buffer) \in Nat, NEW offset \in Nat, NEW a \in Nat, NEW b \in Nat,
           offset + a + b <= Len(buffer),
           NEW slice, Holds(buffer, offset, offset + a + b, slice)
    PROVE  ReadInts(At(buffer, offset), <<a, b>>) =
               Done(<<FromLe(SubSeq(slice, 1, a)), FromLe(SubSeq(slice, a + 1, a + b))>>,
                    At(buffer, offset + a + b))
<1> DEFINE end == [i \in 0 .. 2 |-> IF i = 0 THEN 0 ELSE IF i = 1 THEN a ELSE a + b]
<1>1. end = [i \in 0 .. 2 |-> IF i = 0 THEN 0 ELSE end[i - 1] + <<a, b>>[i]]
  OBVIOUS
<1>2. EndTo(<<a, b>>, 2, end) /\ end[2] = a + b
  BY <1>1 DEF EndTo
<1>0. Len(<<a, b>>) = 2 /\ 2 \in Nat /\ end[2] \in Nat /\ offset + end[2] <= Len(buffer)
  OBVIOUS
<1> HIDE DEF end
<1> DEFINE lengths == <<a, b>>
<1> HIDE DEF lengths
<1>11. Len(lengths) = 2 /\ EndTo(lengths, 2, end)
  BY <1>0, <1>2 DEF lengths
<1>12. PICK to, values : IntsTo(buffer, offset, lengths, 2, to, values)
  BY <1>0, <1>11, IntsValue
<1>3. /\ EndTo(<<a, b>>, 2, to)
      /\ values = [i \in DOMAIN <<a, b>> |-> values[i]]
      /\ \A i \in DOMAIN <<a, b>> :
           values[i] = FromLe(SubSeq(SubSeq(buffer, offset + 1, offset + to[2]),
                                     to[i - 1] + 1, to[i]))
      /\ ReadInts(At(buffer, offset), <<a, b>>) = Done(values, At(buffer, offset + to[2]))
  BY <1>12 DEF IntsTo, lengths
<1>4. \A i \in 0 .. 2 : to[i] = IF i = 0 THEN 0 ELSE to[i - 1] + <<a, b>>[i]
  BY <1>3 DEF EndTo
<1>5. to[0] = 0 /\ to[1] = to[0] + a /\ to[2] = to[1] + b
  BY <1>4
<1>6. to[0] = 0 /\ to[1] = a /\ to[2] = a + b
  BY <1>5
<1>13. slice = SubSeq(buffer, offset + 1, offset + (a + b))
  BY DEF Holds
<1>7. values =
          <<FromLe(SubSeq(slice, to[0] + 1, to[1])), FromLe(SubSeq(slice, to[1] + 1, to[2]))>>
  <2>1. values = [i \in 1 .. 2 |-> values[i]]
    BY <1>3, DOMAIN <<a, b>> = 1 .. 2
  <2>2. \A i \in 1 .. 2 : values[i] = FromLe(SubSeq(slice, to[i - 1] + 1, to[i]))
    BY <1>3, <1>6, <1>13, DOMAIN <<a, b>> = 1 .. 2
  <2>3. values[1] = FromLe(SubSeq(slice, to[0] + 1, to[1]))
    BY <2>2
  <2>4. values[2] = FromLe(SubSeq(slice, to[1] + 1, to[2]))
    BY <2>2
  <2>5. values = <<values[1], values[2]>>
    BY <2>1
  <2>6. QED
    BY <2>3, <2>4, <2>5
<1>8. 0 + 1 = 1 /\ offset + (a + b) = offset + a + b
  OBVIOUS
<1>9. QED
  BY <1>3, <1>6, <1>7, <1>8

LEMMA ThreeIntsValue ==
    ASSUME NEW buffer, Len(buffer) \in Nat, NEW offset \in Nat,
           NEW a \in Nat, NEW b \in Nat, NEW c \in Nat,
           offset + a + b + c <= Len(buffer),
           NEW slice, Holds(buffer, offset, offset + a + b + c, slice)
    PROVE  ReadInts(At(buffer, offset), <<a, b, c>>) =
               Done(<<FromLe(SubSeq(slice, 1, a)), FromLe(SubSeq(slice, a + 1, a + b)),
                      FromLe(SubSeq(slice, a + b + 1, a + b + c))>>,
                    At(buffer, offset + a + b + c))
<1> DEFINE end == [i \in 0 .. 3 |->
                     IF i = 0 THEN 0 ELSE IF i = 1 THEN a ELSE IF i = 2 THEN a + b ELSE a + b + c]
<1>1. end = [i \in 0 .. 3 |-> IF i = 0 THEN 0 ELSE end[i - 1] + <<a, b, c>>[i]]
  OBVIOUS
<1>2. EndTo(<<a, b, c>>, 3, end) /\ end[3] = a + b + c
  BY <1>1 DEF EndTo
<1>0. Len(<<a, b, c>>) = 3 /\ 3 \in Nat /\ end[3] \in Nat /\ offset + end[3] <= Len(buffer)
  OBVIOUS
<1> HIDE DEF end
<1> DEFINE lengths == <<a, b, c>>
<1> HIDE DEF lengths
<1>11. Len(lengths) = 3 /\ EndTo(lengths, 3, end)
  BY <1>0, <1>2 DEF lengths
<1>12. PICK to, values : IntsTo(buffer, offset, lengths, 3, to, values)
  BY <1>0, <1>11, IntsValue
<1>3. /\ EndTo(<<a, b, c>>, 3, to)
      /\ values = [i \in DOMAIN <<a, b, c>> |-> values[i]]
      /\ \A i \in DOMAIN <<a, b, c>> :
           values[i] = FromLe(SubSeq(SubSeq(buffer, offset + 1, offset + to[3]),
                                     to[i - 1] + 1, to[i]))
      /\ ReadInts(At(buffer, offset), <<a, b, c>>) = Done(values, At(buffer, offset + to[3]))
  BY <1>12 DEF IntsTo, lengths
<1>4. \A i \in 0 .. 3 : to[i] = IF i = 0 THEN 0 ELSE to[i - 1] + <<a, b, c>>[i]
  BY <1>3 DEF EndTo
<1>5. to[0] = 0 /\ to[1] = to[0] + a /\ to[2] = to[1] + b /\ to[3] = to[2] + c
  BY <1>4
<1>6. to[0] = 0 /\ to[1] = a /\ to[2] = a + b /\ to[3] = a + b + c
  BY <1>5
<1>13. slice = SubSeq(buffer, offset + 1, offset + (a + b + c))
  BY DEF Holds
<1>7. values =
          <<FromLe(SubSeq(slice, to[0] + 1, to[1])), FromLe(SubSeq(slice, to[1] + 1, to[2])),
            FromLe(SubSeq(slice, to[2] + 1, to[3]))>>
  <2>1. values = [i \in 1 .. 3 |-> values[i]]
    BY <1>3, DOMAIN <<a, b, c>> = 1 .. 3
  <2>2. \A i \in 1 .. 3 : values[i] = FromLe(SubSeq(slice, to[i - 1] + 1, to[i]))
    BY <1>3, <1>6, <1>13, DOMAIN <<a, b, c>> = 1 .. 3
  <2>3. values[1] = FromLe(SubSeq(slice, to[0] + 1, to[1]))
    BY <2>2
  <2>4. values[2] = FromLe(SubSeq(slice, to[1] + 1, to[2]))
    BY <2>2
  <2>5. values[3] = FromLe(SubSeq(slice, to[2] + 1, to[3]))
    BY <2>2
  <2>6. values = <<values[1], values[2], values[3]>>
    BY <2>1
  <2>7. QED
    BY <2>3, <2>4, <2>5, <2>6
<1>8. 0 + 1 = 1 /\ offset + (a + b + c) = offset + a + b + c
  OBVIOUS
<1>9. QED
  BY <1>3, <1>6, <1>7, <1>8

-----------------------------------------------------------------------------
(* Writers                                                                 *)

\* A piece of a sequence, between what is in front of it and what is behind it.
LEMMA Piece ==
    ASSUME NEW front \in Seq(Nat), NEW piece \in Seq(Nat), NEW rear \in Seq(Nat)
    PROVE  SubSeq(front \o (piece \o rear), Len(front) + 1, Len(front) + Len(piece)) = piece
<1>1. CASE piece = <<>>
  BY <1>1, SubSeqEmpty
<1>2. CASE piece # <<>>
  <2> DEFINE rest == piece \o rear
             n == Len(front)
             m == Len(piece)
  <2>1. n \in Nat /\ m \in Nat \ {0} /\ rest \in Seq(Nat) /\ Len(rest) \in Nat /\ Len(rest) >= m
    BY <1>2, ConcatProperties, LenProperties, EmptySeq
  <2> HIDE DEF rest, n, m
  <2>2. n + 1 \in n + 1 .. n + Len(rest) /\ n + m \in n + 1 .. n + Len(rest)
    BY <2>1
  <2>3. SubSeq(front \o rest, n + 1, n + m) = SubSeq(rest, (n + 1) - n, (n + m) - n)
    BY <2>1, <2>2, SubSeqOfConcat2 DEF n
  <2>4. (n + 1) - n = 1 /\ (n + m) - n = m /\ 1 \in 1 .. m /\ m \in 1 .. m
    BY <2>1
  <2>5. SubSeq(rest, 1, m) = SubSeq(piece, 1, m)
    BY <2>4, SubSeqOfConcat1 DEF rest, m
  <2>6. SubSeq(piece, 1, m) = piece
    BY SubSeqFull DEF m
  <2>7. QED
    BY <2>3, <2>4, <2>5, <2>6 DEF rest, n, m
<1>3. QED
  BY <1>1, <1>2

\* A writer over a vector that has written these bytes.
Written(bytes) == [buffer |-> bytes, offset |-> Len(bytes), extends |-> TRUE]

\* It appends what is written next (ByteWriter over a Vec).
LEMMA WriteAppends ==
    ASSUME NEW written \in Seq(Nat), NEW bytes \in Seq(Nat)
    PROVE  Write(Written(written), bytes) = Written(written \o bytes)
<1> DEFINE end == Len(written) + Len(bytes)
           zeros == [i \in 1 .. (IF end > Len(written) THEN end - Len(written) ELSE 0) |-> 0]
           buffer == written \o zeros
<1>1. zeros \in Seq(Nat) /\ Len(zeros) = Len(bytes)
  OBVIOUS
<1> HIDE DEF zeros
<1>2. buffer \in Seq(Nat) /\ Len(buffer) = end
  <2>1. \A s, t \in Seq(Nat) : s \o t \in Seq(Nat) /\ Len(s \o t) = Len(s) + Len(t)
    BY ConcatProperties
  <2>2. written \o zeros \in Seq(Nat) /\ Len(written \o zeros) = Len(written) + Len(zeros)
    BY <1>1, <2>1
  <2>3. QED
    BY <1>1, <2>2
<1>3. SubSeq(buffer, 1, Len(written)) = written
  <2>1. SubSeq(<<>> \o (written \o zeros), Len(<<>>) + 1, Len(<<>>) + Len(written)) = written
    BY <1>1, EmptySeq, Piece
  <2>2. <<>> \o buffer = buffer
    BY <1>2, ConcatEmptySeq
  <2>3. Len(<<>>) = 0 /\ Len(written) \in Nat
    BY EmptySeq, LenProperties
  <2>4. 0 + 1 = 1 /\ 0 + Len(written) = Len(written)
    BY <2>3
  <2>5. QED
    BY <2>1, <2>2, <2>3, <2>4
<1>4. SubSeq(buffer, end + 1, Len(buffer)) = <<>>
  BY <1>2
<1>5. ZeroFilled(written, end) = buffer
  BY DEF ZeroFilled, zeros
<1>6. Written(written).offset = Len(written) /\ Written(written).buffer = written
      /\ Written(written).extends = TRUE
  BY DEF Written
<1>7. Fits(Written(written), Len(bytes))
  BY <1>6 DEF Fits
<1> HIDE DEF buffer, end
<1>8. Write(Written(written), bytes) =
          [Written(written) EXCEPT
               !.buffer = SubSeq(buffer, 1, Len(written)) \o bytes
                              \o SubSeq(buffer, end + 1, Len(buffer)),
               !.offset = end]
  BY <1>5, <1>6, <1>7 DEF Write, end
<1>9. SubSeq(buffer, 1, Len(written)) \o bytes \o SubSeq(buffer, end + 1, Len(buffer)) =
          written \o bytes
  <2>1. (written \o bytes) \o <<>> = written \o bytes
    BY ConcatProperties, ConcatEmptySeq
  <2>2. QED
    BY <1>3, <1>4, <2>1
<1>10. Write(Written(written), bytes) =
          [Written(written) EXCEPT !.buffer = written \o bytes, !.offset = end]
  BY <1>8, <1>9
<1>11. end = Len(written \o bytes)
  BY DEF end
<1>12. QED
  BY <1>10, <1>11 DEF Written

\* What the writers are after each part.
AfterTo(writer, parts, n, after) ==
    after = [i \in 0 .. n |-> IF i = 0 THEN writer ELSE Write(after[i - 1], parts[i])]

\* The recursion in WriteAll has a solution.
LEMMA AfterIsDefined ==
    ASSUME NEW writer, NEW parts, Len(parts) \in Nat
    PROVE  \E after : AfterTo(writer, parts, Len(parts), after)
                      /\ WriteAll(writer, parts) = after[Len(parts)]
<1> DEFINE S == {n \in 0 .. Len(parts) : \E after : AfterTo(writer, parts, n, after)}
<1>1. 0 \in S
  <2>1. AfterTo(writer, parts, 0, [i \in 0 .. 0 |-> writer])
    BY DEF AfterTo
  <2>2. QED
    BY <2>1
<1>2. ASSUME NEW n \in 0 .. Len(parts) - 1, n \in S
      PROVE  n + 1 \in S
  <2>1. PICK after : AfterTo(writer, parts, n, after)
    BY <1>2
  <2> DEFINE longer ==
        [i \in 0 .. n + 1 |-> IF i <= n THEN after[i] ELSE Write(after[n], parts[n + 1])]
  <2>2. \A i \in 0 .. n : after[i] = IF i = 0 THEN writer ELSE Write(after[i - 1], parts[i])
    BY <2>1 DEF AfterTo
  <2>3. \A i \in 0 .. n + 1 :
           longer[i] = IF i = 0 THEN writer ELSE Write(longer[i - 1], parts[i])
    BY <2>2
  <2>4. AfterTo(writer, parts, n + 1, longer)
    BY <2>3 DEF AfterTo
  <2> HIDE DEF longer
  <2>5. QED
    BY <2>4
<1> HIDE DEF S
<1>3. Len(parts) \in S
  BY <1>1, <1>2, UpTo, 0 .. Len(parts) \subseteq S
<1>4. \E after : AfterTo(writer, parts, Len(parts), after)
  BY <1>3 DEF S
<1>5. AfterTo(writer, parts, Len(parts),
              CHOOSE after : AfterTo(writer, parts, Len(parts), after))
  BY <1>4
<1>6. WriteAll(writer, parts) =
          (CHOOSE after : AfterTo(writer, parts, Len(parts), after))[Len(parts)]
  BY DEF WriteAll, AfterTo
<1>7. QED
  BY <1>5, <1>6

\* Each part is appended to what has been written before it.
LEMMA PartsAppended ==
    ASSUME NEW parts, NEW n \in Nat, NEW after, AfterTo(VecWriter, parts, n, after)
    PROVE  /\ after[0] = Written(<<>>)
           /\ \A k \in 0 .. n - 1 : \A written \in Seq(Nat) :
                after[k] = Written(written) /\ parts[k + 1] \in Seq(Nat) =>
                    after[k + 1] = Written(written \o parts[k + 1])
<1>1. \A k \in 0 .. n : after[k] = IF k = 0 THEN VecWriter ELSE Write(after[k - 1], parts[k])
  BY DEF AfterTo
<1>2. after[0] = Written(<<>>)
  <2>1. after[0] = VecWriter
    BY <1>1
  <2>2. Len(<<>>) = 0
    OBVIOUS
  <2>3. QED
    BY <2>1, <2>2 DEF VecWriter, Written
<1>3. ASSUME NEW k \in 0 .. n - 1, NEW written \in Seq(Nat),
             after[k] = Written(written), parts[k + 1] \in Seq(Nat)
      PROVE  after[k + 1] = Written(written \o parts[k + 1])
  <2>1. after[k + 1] = Write(after[k], parts[k + 1])
    BY <1>1
  <2>2. QED
    BY <1>3, <2>1, WriteAppends
<1>4. QED
  BY <1>2, <1>3

\* The header of a datagram: its type, and three reserved bytes.
Header(type) == <<type, 0, 0, 0>>

LEMMA HeaderType ==
    ASSUME NEW type \in Nat
    PROVE  /\ Header(type) \in Seq(Nat) /\ Len(Header(type)) = 4
           /\ <<type>> \in Seq(Nat) /\ Reserved \in Seq(Nat)
           /\ (<<>> \o <<type>>) \o Reserved = Header(type)
<1>1. Header(type) \in Seq(Nat) /\ Len(Header(type)) = 4
  BY DEF Header
<1>2. <<type>> \in Seq(Nat) /\ Reserved \in Seq(Nat)
  BY DEF Reserved
<1>3. <<>> \o <<type>> = <<type>>
  BY <1>2, ConcatEmptySeq
<1>4. <<type>> \o <<0, 0, 0>> = <<type, 0, 0, 0>>
  <2> DEFINE s == <<type>> \o <<0, 0, 0>>
             t == <<type, 0, 0, 0>>
  <2>1. s \in Seq(Nat) /\ t \in Seq(Nat) /\ Len(s) = 4 /\ Len(t) = 4
    OBVIOUS
  <2>2. s[1] = t[1] /\ s[2] = t[2] /\ s[3] = t[3] /\ s[4] = t[4]
    OBVIOUS
  <2> HIDE DEF s, t
  <2>3. \A i \in 1 .. 4 : s[i] = t[i]
    BY <2>2
  <2>4. s = t
    BY <2>1, <2>3, SeqEqual
  <2>5. QED
    BY <2>4 DEF s, t
<1>5. QED
  BY <1>1, <1>2, <1>3, <1>4 DEF Header, Reserved

\* What has been written after these many parts, for parts behind a header.
WritesOn(parts, after) ==
    /\ WriteAll(VecWriter, parts) = after[Len(parts)]
    /\ \A k \in 2 .. Len(parts) - 1 : \A written \in Seq(Nat) :
         after[k] = Written(written) /\ parts[k + 1] \in Seq(Nat) =>
             after[k + 1] = Written(written \o parts[k + 1])

LEMMA PartsWritten ==
    ASSUME NEW type \in Nat, NEW parts, Len(parts) \in Nat, Len(parts) >= 2,
           parts[1] = <<type>>, parts[2] = Reserved
    PROVE  \E after : WritesOn(parts, after) /\ after[2] = Written(Header(type))
<1> DEFINE n == Len(parts)
<1>1. PICK after : AfterTo(VecWriter, parts, n, after) /\ WriteAll(VecWriter, parts) = after[n]
  BY AfterIsDefined
<1>2. n \in Nat /\ n >= 2
  OBVIOUS
<1> HIDE DEF n
<1>3. /\ after[0] = Written(<<>>)
      /\ \A k \in 0 .. n - 1 : \A written \in Seq(Nat) :
           after[k] = Written(written) /\ parts[k + 1] \in Seq(Nat) =>
               after[k + 1] = Written(written \o parts[k + 1])
  BY <1>1, <1>2, PartsAppended
<1>4. after[1] = Written(<<>> \o <<type>>)
  <2>1. 0 \in 0 .. n - 1 /\ <<>> \in Seq(Nat) /\ 0 + 1 = 1
    BY <1>2
  <2>2. parts[0 + 1] \in Seq(Nat)
    BY <2>1, HeaderType
  <2>3. after[0 + 1] = Written(<<>> \o parts[0 + 1])
    BY <1>3, <2>1, <2>2
  <2>4. QED
    BY <2>1, <2>3
<1>5. after[2] = Written((<<>> \o <<type>>) \o Reserved)
  <2> DEFINE first == <<>> \o <<type>>
  <2>1. 1 \in 0 .. n - 1 /\ first \in Seq(Nat) /\ 1 + 1 = 2 /\ after[1] = Written(first)
    BY <1>2, <1>4
  <2> HIDE DEF first
  <2>2. parts[1 + 1] \in Seq(Nat)
    BY <2>1, HeaderType
  <2>3. after[1 + 1] = Written(first \o parts[1 + 1])
    BY <1>3, <2>1, <2>2
  <2>4. QED
    BY <2>1, <2>3 DEF first
<1>6. after[2] = Written(Header(type))
  BY <1>5, HeaderType
<1>7. WritesOn(parts, after)
  BY <1>1, <1>2, <1>3 DEF n, WritesOn
<1>8. QED
  BY <1>6, <1>7

\* A datagram with one part, with two parts, and with five parts (EncodeReflect).
LEMMA OnePart ==
    ASSUME NEW type \in Nat, NEW body \in Seq(Nat)
    PROVE  EncodeToDatagram(type, <<body>>) =
               Header(type) \o body
<1> DEFINE parts == <<<<type>>, Reserved>> \o <<body>>
<1>1. /\ Len(parts) = 3
      /\ parts[1] = <<type>> /\ parts[2] = Reserved
      /\ parts[3] = body
  OBVIOUS
<1>2. EncodeToDatagram(type, <<body>>) = WriteAll(VecWriter, parts).buffer
  BY DEF EncodeToDatagram
<1> HIDE DEF parts
<1>0. Len(parts) \in Nat /\ Len(parts) >= 2
  BY <1>1
<1>3. PICK after : WritesOn(parts, after) /\ after[2] = Written(Header(type))
  BY <1>0, <1>1, PartsWritten
<1>4. \A k \in 2 .. 2 : \A written \in Seq(Nat) :
         after[k] = Written(written) => after[k + 1] = Written(written \o parts[k + 1])
  <2>1. \A k \in 2 .. 2 : parts[k + 1] \in Seq(Nat)
    BY <1>1
  <2>2. QED
    BY <1>1, <1>3, <2>1 DEF WritesOn
<1>5. \A s, t \in Seq(Nat) : s \o t \in Seq(Nat)
  BY ConcatProperties
<1>6. after[2] = Written(Header(type)) /\ Header(type) \in Seq(Nat)
  BY <1>3, HeaderType
<1> DEFINE w3 == Header(type) \o body
<1>7. after[3] = Written(w3) /\ w3 \in Seq(Nat)
  <2>1. 2 \in 2 .. 2 /\ 2 + 1 = 3
    OBVIOUS
  <2>2. after[2 + 1] = Written(Header(type) \o parts[2 + 1])
    BY <1>4, <1>6, <2>1
  <2>3. QED
    BY <1>1, <1>5, <1>6, <2>1, <2>2
<1> HIDE DEF w3
<1>8. EncodeToDatagram(type, <<body>>) = w3
  <2>1. EncodeToDatagram(type, <<body>>) = Written(w3).buffer
    BY <1>1, <1>2, <1>3, <1>7 DEF WritesOn
  <2>2. QED
    BY <2>1 DEF Written
<1>9. QED
  BY <1>8 DEF w3

LEMMA TwoParts ==
    ASSUME NEW type \in Nat, NEW a \in Seq(Nat), NEW b \in Seq(Nat)
    PROVE  EncodeToDatagram(type, <<a, b>>) =
               (Header(type) \o a) \o b
<1> DEFINE parts == <<<<type>>, Reserved>> \o <<a, b>>
<1>1. /\ Len(parts) = 4
      /\ parts[1] = <<type>> /\ parts[2] = Reserved
      /\ parts[3] = a /\ parts[4] = b
  OBVIOUS
<1>2. EncodeToDatagram(type, <<a, b>>) = WriteAll(VecWriter, parts).buffer
  BY DEF EncodeToDatagram
<1> HIDE DEF parts
<1>0. Len(parts) \in Nat /\ Len(parts) >= 2
  BY <1>1
<1>3. PICK after : WritesOn(parts, after) /\ after[2] = Written(Header(type))
  BY <1>0, <1>1, PartsWritten
<1>4. \A k \in 2 .. 3 : \A written \in Seq(Nat) :
         after[k] = Written(written) => after[k + 1] = Written(written \o parts[k + 1])
  <2>1. \A k \in 2 .. 3 : parts[k + 1] \in Seq(Nat)
    BY <1>1
  <2>2. QED
    BY <1>1, <1>3, <2>1 DEF WritesOn
<1>5. \A s, t \in Seq(Nat) : s \o t \in Seq(Nat)
  BY ConcatProperties
<1>6. after[2] = Written(Header(type)) /\ Header(type) \in Seq(Nat)
  BY <1>3, HeaderType
<1> DEFINE w3 == Header(type) \o a
<1>7. after[3] = Written(w3) /\ w3 \in Seq(Nat)
  <2>1. 2 \in 2 .. 3 /\ 2 + 1 = 3
    OBVIOUS
  <2>2. after[2 + 1] = Written(Header(type) \o parts[2 + 1])
    BY <1>4, <1>6, <2>1
  <2>3. QED
    BY <1>1, <1>5, <1>6, <2>1, <2>2
<1> HIDE DEF w3
<1> DEFINE w4 == w3 \o b
<1>8. after[4] = Written(w4) /\ w4 \in Seq(Nat)
  <2>1. 3 \in 2 .. 3 /\ 3 + 1 = 4
    OBVIOUS
  <2>2. after[3 + 1] = Written(w3 \o parts[3 + 1])
    BY <1>4, <1>7, <2>1
  <2>3. QED
    BY <1>1, <1>5, <1>7, <2>1, <2>2
<1> HIDE DEF w4
<1>9. EncodeToDatagram(type, <<a, b>>) = w4
  <2>1. EncodeToDatagram(type, <<a, b>>) = Written(w4).buffer
    BY <1>1, <1>2, <1>3, <1>8 DEF WritesOn
  <2>2. QED
    BY <2>1 DEF Written
<1>10. QED
  BY <1>9 DEF w3, w4

LEMMA FiveParts ==
    ASSUME NEW type \in Nat, NEW a \in Seq(Nat), NEW b \in Seq(Nat),
           NEW c \in Seq(Nat), NEW d \in Seq(Nat), NEW e \in Seq(Nat)
    PROVE  EncodeToDatagram(type, <<a, b, c, d, e>>) =
               ((((Header(type) \o a) \o b) \o c) \o d) \o e
<1> DEFINE parts == <<<<type>>, Reserved>> \o <<a, b, c, d, e>>
<1>1. /\ Len(parts) = 7
      /\ parts[1] = <<type>> /\ parts[2] = Reserved
      /\ parts[3] = a /\ parts[4] = b /\ parts[5] = c /\ parts[6] = d /\ parts[7] = e
  OBVIOUS
<1>2. EncodeToDatagram(type, <<a, b, c, d, e>>) = WriteAll(VecWriter, parts).buffer
  BY DEF EncodeToDatagram
<1> HIDE DEF parts
<1>0. Len(parts) \in Nat /\ Len(parts) >= 2
  BY <1>1
<1>3. PICK after : WritesOn(parts, after) /\ after[2] = Written(Header(type))
  BY <1>0, <1>1, PartsWritten
<1>4. \A k \in 2 .. 6 : \A written \in Seq(Nat) :
         after[k] = Written(written) => after[k + 1] = Written(written \o parts[k + 1])
  <2>1. \A k \in 2 .. 6 : parts[k + 1] \in Seq(Nat)
    BY <1>1
  <2>2. QED
    BY <1>1, <1>3, <2>1 DEF WritesOn
<1>5. \A s, t \in Seq(Nat) : s \o t \in Seq(Nat)
  BY ConcatProperties
<1>6. after[2] = Written(Header(type)) /\ Header(type) \in Seq(Nat)
  BY <1>3, HeaderType
<1> DEFINE w3 == Header(type) \o a
<1>7. after[3] = Written(w3) /\ w3 \in Seq(Nat)
  <2>1. 2 \in 2 .. 6 /\ 2 + 1 = 3
    OBVIOUS
  <2>2. after[2 + 1] = Written(Header(type) \o parts[2 + 1])
    BY <1>4, <1>6, <2>1
  <2>3. QED
    BY <1>1, <1>5, <1>6, <2>1, <2>2
<1> HIDE DEF w3
<1> DEFINE w4 == w3 \o b
<1>8. after[4] = Written(w4) /\ w4 \in Seq(Nat)
  <2>1. 3 \in 2 .. 6 /\ 3 + 1 = 4
    OBVIOUS
  <2>2. after[3 + 1] = Written(w3 \o parts[3 + 1])
    BY <1>4, <1>7, <2>1
  <2>3. QED
    BY <1>1, <1>5, <1>7, <2>1, <2>2
<1> HIDE DEF w4
<1> DEFINE w5 == w4 \o c
<1>9. after[5] = Written(w5) /\ w5 \in Seq(Nat)
  <2>1. 4 \in 2 .. 6 /\ 4 + 1 = 5
    OBVIOUS
  <2>2. after[4 + 1] = Written(w4 \o parts[4 + 1])
    BY <1>4, <1>8, <2>1
  <2>3. QED
    BY <1>1, <1>5, <1>8, <2>1, <2>2
<1> HIDE DEF w5
<1> DEFINE w6 == w5 \o d
<1>10. after[6] = Written(w6) /\ w6 \in Seq(Nat)
  <2>1. 5 \in 2 .. 6 /\ 5 + 1 = 6
    OBVIOUS
  <2>2. after[5 + 1] = Written(w5 \o parts[5 + 1])
    BY <1>4, <1>9, <2>1
  <2>3. QED
    BY <1>1, <1>5, <1>9, <2>1, <2>2
<1> HIDE DEF w6
<1> DEFINE w7 == w6 \o e
<1>11. after[7] = Written(w7) /\ w7 \in Seq(Nat)
  <2>1. 6 \in 2 .. 6 /\ 6 + 1 = 7
    OBVIOUS
  <2>2. after[6 + 1] = Written(w6 \o parts[6 + 1])
    BY <1>4, <1>10, <2>1
  <2>3. QED
    BY <1>1, <1>5, <1>10, <2>1, <2>2
<1> HIDE DEF w7
<1>12. EncodeToDatagram(type, <<a, b, c, d, e>>) = w7
  <2>1. EncodeToDatagram(type, <<a, b, c, d, e>>) = Written(w7).buffer
    BY <1>1, <1>2, <1>3, <1>11 DEF WritesOn
  <2>2. QED
    BY <2>1 DEF Written
<1>13. QED
  BY <1>12 DEF w3, w4, w5, w6, w7

-----------------------------------------------------------------------------
(* What the client decodes                                                 *)

\* The container of a datagram: the type, and a reader behind the header.
LEMMA ContainerDecoded ==
    ASSUME NEW type \in Nat, NEW body \in Seq(Nat)
    PROVE  LET datagram == Header(type) \o body
           IN /\ Len(datagram) = 4 + Len(body) /\ datagram \in Seq(Nat)
              /\ SubSeq(datagram, 5, Len(datagram)) = body
              /\ datagram[1] = type
              /\ DecodeContainer(datagram) = Done(type, At(datagram, 4))
<1> DEFINE datagram == Header(type) \o body
<1>0. Header(type) \in Seq(Nat) /\ Len(Header(type)) = 4
  BY HeaderType
<1>1. Len(datagram) = 4 + Len(body) /\ datagram \in Seq(Nat) /\ Len(body) \in Nat
  <2>1. datagram \in Seq(Nat) /\ Len(datagram) = Len(Header(type)) + Len(body)
    BY <1>0, ConcatProperties
  <2>2. Len(body) \in Nat
    BY LenProperties
  <2>3. QED
    BY <1>0, <2>1, <2>2
<1>2. datagram[1] = type
  <2>1. 1 \in 1 .. Len(Header(type)) + Len(body) /\ 1 <= Len(Header(type))
    BY <1>1, HeaderType
  <2>2. datagram[1] = Header(type)[1]
    BY <2>1, HeaderType, ConcatProperties
  <2>3. QED
    BY <2>2 DEF Header
<1>3. SubSeq(datagram, 5, Len(datagram)) = body
  <2>1. body \o <<>> = body /\ <<>> \in Seq(Nat)
    BY ConcatEmptySeq
  <2>2. SubSeq(Header(type) \o (body \o <<>>), Len(Header(type)) + 1,
               Len(Header(type)) + Len(body)) = body
    BY <2>1, HeaderType, Piece
  <2>3. Len(Header(type)) + 1 = 5 /\ Len(Header(type)) + Len(body) = Len(datagram)
    BY <1>1, HeaderType
  <2>4. QED
    BY <2>1, <2>2, <2>3
<1> HIDE DEF datagram
<1>4. SubSeq(datagram, 1, 1) = <<type>>
  <2>1. \A i \in 1 .. 1 : datagram[i] \in Nat
    BY <1>2
  <2>2. SubSeq(datagram, 1, 1) \in Seq(Nat) /\ Len(SubSeq(datagram, 1, 1)) = 1
    BY <2>1, SubSeqProperties
  <2>3. SubSeq(datagram, 1, 1)[1] = type
    BY <1>1, <1>2
  <2> DEFINE s == SubSeq(datagram, 1, 1)
  <2> HIDE DEF s
  <2>4. s \in Seq(Nat) /\ Len(s) = 1 /\ s[1] = type => s = <<type>>
    OBVIOUS
  <2>5. QED
    BY <2>2, <2>3, <2>4 DEF s
<1>5. ReadInt(At(datagram, 0), 1) = Done(type, At(datagram, 1))
  <2>1. ReadInt(At(datagram, 0), 1) =
            Done(FromLe(SubSeq(datagram, 0 + 1, 0 + 1)), At(datagram, 0 + 1))
    BY <1>1, IntValue
  <2>2. 0 + 1 = 1
    OBVIOUS
  <2>3. QED
    BY <1>4, <2>1, <2>2, FromLeByte
<1>6. Skip(At(datagram, 1), 3) = Done(<<>>, At(datagram, 4))
  <2>1. 1 + 3 <= Len(datagram) /\ 1 + 3 = 4
    BY <1>1
  <2>2. Skip(At(datagram, 1), 3) = Done(<<>>, At(datagram, 1 + 3))
    BY <1>1, <2>1, SkipValue
  <2>3. QED
    BY <2>1, <2>2
<1>7. Len(Reserved) = 3 /\ Reader(datagram) = At(datagram, 0)
  BY DEF Reserved, Reader, At
<1>8. DecodeContainer(datagram) =
          Then(Done(type, At(datagram, 1)),
               With(Skip(Done(type, At(datagram, 1)).reader, Len(Reserved)),
                    Done(type, At(datagram, 1)).value))
  BY <1>5, <1>7 DEF DecodeContainer
<1>9. DecodeContainer(datagram) =
          Then(Done(type, At(datagram, 1)), With(Done(<<>>, At(datagram, 4)), type))
  <2>1. Done(type, At(datagram, 1)).reader = At(datagram, 1)
        /\ Done(type, At(datagram, 1)).value = type
    BY DoneFields
  <2>2. Skip(Done(type, At(datagram, 1)).reader, Len(Reserved)) = Done(<<>>, At(datagram, 4))
    BY <1>6, <1>7, <2>1
  <2>3. QED
    BY <1>8, <2>1, <2>2
<1>10. DecodeContainer(datagram) = Done(type, At(datagram, 4))
  BY <1>9, WithDone, ThenDone
<1>11. QED
  BY <1>1, <1>2, <1>3, <1>10 DEF datagram

\* What is left behind the header is the body.
LEMMA BodyRemains ==
    ASSUME NEW type \in Nat, NEW body \in Seq(Nat)
    PROVE  LET datagram == Header(type) \o body
           IN ReadRemaining(At(datagram, 4)) = Done(body, At(datagram, Len(datagram)))
<1> DEFINE datagram == Header(type) \o body
<1>1. /\ Len(datagram) = 4 + Len(body) /\ Len(body) \in Nat
      /\ SubSeq(datagram, 5, Len(datagram)) = body
  BY ContainerDecoded, LenProperties
<1> HIDE DEF datagram
<1>2. Len(datagram) \in Nat /\ 4 \in 0 .. Len(datagram) /\ 4 + 1 = 5
  BY <1>1
<1>3. ReadRemaining(At(datagram, 4)) =
          Done(SubSeq(datagram, 4 + 1, Len(datagram)), At(datagram, Len(datagram)))
  BY <1>2, RemainingValue
<1>4. QED
  BY <1>1, <1>2, <1>3 DEF datagram

\* A protobuf message with the right number of fields is its fields.
LEMMA ProtobufDecoded ==
    ASSUME NEW type \in Nat, NEW body \in Seq(Nat)
    PROVE  LET datagram == Header(type) \o body
           IN DecodeProtobuf(Len(body), At(datagram, 4)) = Done(body, At(datagram, Len(datagram)))
<1> DEFINE datagram == Header(type) \o body
           left == Done(body, At(datagram, Len(datagram)))
<1>1. ReadRemaining(At(datagram, 4)) = left
  BY BodyRemains
<1>2. left.value = body
  BY DoneFields
<1> HIDE DEF datagram, left
<1>3. DecodeProtobuf(Len(body), At(datagram, 4)) = left
  BY <1>1, <1>2 DEF DecodeProtobuf
<1>4. QED
  BY <1>3 DEF datagram, left

\* The hello of the server (DecodeServerHello).
LEMMA ServerHelloDecoded ==
    ASSUME NEW version \in Nat
    PROVE  DecodeServerHello(EncodeByMediator([kind |-> "ServerHello", version |-> version])) =
               Decoded([kind |-> "ServerHello", version |-> version])
<1> DEFINE body == <<version, 1>>
           datagram == Header(16) \o body
           container == Done(16, At(datagram, 4))
           message == Done(body, At(datagram, Len(datagram)))
<1>1. EncodeByMediator([kind |-> "ServerHello", version |-> version]) = datagram
  BY DEF EncodeByMediator, Header
<1>2. body \in Seq(Nat) /\ Len(body) = 2 /\ body[1] = version /\ body[2] = 1
  OBVIOUS
<1> HIDE DEF body
<1>3. DecodeContainer(datagram) = container
  BY <1>2, ContainerDecoded
<1>4. DecodeProtobuf(2, At(datagram, 4)) = message
  BY <1>2, ProtobufDecoded
<1>5. /\ container.ok = TRUE /\ container.value = 16 /\ container.reader = At(datagram, 4)
      /\ message.ok = TRUE /\ message.value = body
  <2>1. container.ok = TRUE /\ container.value = 16 /\ container.reader = At(datagram, 4)
    BY DEF Done
  <2>2. message.ok = TRUE /\ message.value = body
    BY DoneFields
  <2>3. QED
    BY <2>1, <2>2
<1> HIDE DEF datagram, container, message
<1>6. DecodeServerHello(datagram) =
          DecodeSpecific(ServerHelloType, container,
             IF message.ok /\ message.value[2] # 1 THEN DecodingError("InvalidMessage")
             ELSE DecodedWith(message, LAMBDA fields :
                                  [kind |-> "ServerHello", version |-> fields[1]]))
  BY <1>3, <1>4, <1>5 DEF DecodeServerHello
<1>7. DecodedWith(message, LAMBDA fields : [kind |-> "ServerHello", version |-> fields[1]]) =
          Decoded([kind |-> "ServerHello", version |-> version])
  BY <1>2, <1>5 DEF DecodedWith
<1>8. DecodeServerHello(datagram) =
          DecodeSpecific(16, container, Decoded([kind |-> "ServerHello", version |-> version]))
  BY <1>2, <1>5, <1>6, <1>7 DEF ServerHelloType
<1>9. QED
  BY <1>1, <1>5, <1>8 DEF DecodeSpecific

\* The information the server sends when the handshake is over (DecodeServerInfo).
LEMMA ServerInfoDecoded ==
    DecodeServerInfo(EncodeByMediator([kind |-> "ServerInfo", queue |-> 1])).error = "none"
<1> DEFINE body == <<1>>
           datagram == Header(18) \o body
           container == Done(18, At(datagram, 4))
           message == Done(body, At(datagram, Len(datagram)))
<1>1. EncodeByMediator([kind |-> "ServerInfo", queue |-> 1]) = datagram
  BY DEF EncodeByMediator, Header
<1>2. body \in Seq(Nat) /\ Len(body) = 1
  OBVIOUS
<1> HIDE DEF body
<1>3. DecodeContainer(datagram) = container
  BY <1>2, ContainerDecoded
<1>4. DecodeProtobuf(1, At(datagram, 4)) = message
  BY <1>2, ProtobufDecoded
<1>5. /\ container.ok = TRUE /\ container.value = 18 /\ container.reader = At(datagram, 4)
      /\ message.ok = TRUE
  <2>1. container.ok = TRUE /\ container.value = 18 /\ container.reader = At(datagram, 4)
    BY DEF Done
  <2>2. message.ok = TRUE
    BY DEF Done
  <2>3. QED
    BY <2>1, <2>2
<1> HIDE DEF datagram, container, message
<1> DEFINE decoded == DecodedWith(message, LAMBDA fields :
                                    [kind |-> "ServerInfo", queue |-> fields[1]])
<1>6. DecodeServerInfo(datagram) = DecodeSpecific(ServerInfoType, container, decoded)
  BY <1>3, <1>4, <1>5 DEF DecodeServerInfo
<1>7. decoded.error = "none"
  BY <1>5 DEF DecodedWith, Decoded
<1> HIDE DEF decoded
<1>8. DecodeServerInfo(datagram) = decoded
  BY <1>5, <1>6 DEF DecodeSpecific, ServerInfoType
<1>9. QED
  BY <1>1, <1>7, <1>8

\* The pieces at the start and at the end of a sequence.
LEMMA FirstPiece ==
    ASSUME NEW piece \in Seq(Nat), NEW rear \in Seq(Nat)
    PROVE  SubSeq(piece \o rear, 1, Len(piece)) = piece
<1>1. SubSeq(<<>> \o (piece \o rear), Len(<<>>) + 1, Len(<<>>) + Len(piece)) = piece
  BY EmptySeq, Piece
<1>2. <<>> \o (piece \o rear) = piece \o rear
  <2>1. piece \o rear \in Seq(Nat)
    BY ConcatProperties
  <2>2. QED
    BY <2>1, ConcatEmptySeq
<1>3. Len(<<>>) = 0 /\ Len(piece) \in Nat
  BY EmptySeq, LenProperties
<1>4. 0 + 1 = 1 /\ 0 + Len(piece) = Len(piece)
  BY <1>3
<1>5. QED
  BY <1>1, <1>2, <1>3, <1>4

LEMMA LastPiece ==
    ASSUME NEW front \in Seq(Nat), NEW piece \in Seq(Nat)
    PROVE  SubSeq(front \o piece, Len(front) + 1, Len(front) + Len(piece)) = piece
<1>1. piece \o <<>> = piece /\ <<>> \in Seq(Nat)
  BY ConcatEmptySeq
<1>2. SubSeq(front \o (piece \o <<>>), Len(front) + 1, Len(front) + Len(piece)) = piece
  BY <1>1, Piece
<1>3. QED
  BY <1>1, <1>2

LEMMA Concatenation ==
    ASSUME NEW s \in Seq(Nat), NEW t \in Seq(Nat)
    PROVE  s \o t \in Seq(Nat) /\ Len(s \o t) = Len(s) + Len(t)
BY ConcatProperties

\* No two kinds of payload have one type.
LEMMA KindOfType ==
    ASSUME NEW kind \in DOMAIN IncomingType
    PROVE  (CHOOSE k \in DOMAIN IncomingType : IncomingType[k] = IncomingType[kind]) = kind
<1>1. \A k \in DOMAIN IncomingType : IncomingType[k] = IncomingType[kind] => k = kind
  BY DEF IncomingType
<1>2. QED
  BY <1>1

LEMMA TypesAreNumbers == \A kind \in DOMAIN IncomingType : IncomingType[kind] \in Nat
BY DEF IncomingType

\* Behind the handshake the type tells what follows (IncomingPayload::decode).
LEMMA TypeDecoded ==
    ASSUME NEW type \in Nat, NEW body \in Seq(Nat)
    PROVE  DecodeIncoming(Header(type) \o body) = DecodeOfType(type, At(Header(type) \o body, 4))
<1> DEFINE datagram == Header(type) \o body
           container == Done(type, At(datagram, 4))
<1>1. DecodeContainer(datagram) = container
  BY ContainerDecoded
<1>2. container.ok = TRUE /\ container.value = type /\ container.reader = At(datagram, 4)
  BY DoneFields
<1> HIDE DEF datagram, container
<1>3. DecodeIncoming(datagram) = DecodeOfType(type, At(datagram, 4))
  BY <1>1, <1>2 DEF DecodeIncoming
<1>4. QED
  BY <1>3 DEF datagram

LEMMA KindDecoded ==
    ASSUME NEW kind \in DOMAIN IncomingType, NEW body \in Seq(Nat)
    PROVE  LET datagram == Header(IncomingType[kind]) \o body
           IN DecodeIncoming(datagram) = DecodeOfKind(kind, At(datagram, 4))
<1> DEFINE type == IncomingType[kind]
           datagram == Header(type) \o body
<1>1. type \in Nat
  BY TypesAreNumbers
<1>2. DecodeIncoming(datagram) = DecodeOfType(type, At(datagram, 4))
  BY <1>1, TypeDecoded
<1> HIDE DEF datagram
<1>3. DecodeOfType(type, At(datagram, 4)) = DecodeOfKind(kind, At(datagram, 4))
  BY KindOfType DEF DecodeOfType
<1>4. QED
  BY <1>2, <1>3 DEF datagram

\* A protobuf message (ReflectionQueueDry, BeginTransactionAck and the like).
LEMMA MessageDecoded ==
    ASSUME NEW kind \in DOMAIN FieldsOf, NEW fields \in Seq(Nat), Len(fields) = FieldsOf[kind]
    PROVE  DecodeIncoming(Header(IncomingType[kind]) \o fields) =
               Decoded([kind |-> kind, fields |-> fields])
<1> DEFINE datagram == Header(IncomingType[kind]) \o fields
           message == Done(fields, At(datagram, Len(datagram)))
<1>1. kind \in DOMAIN IncomingType /\ kind \notin {"Proxy", "ReflectAck", "Reflected"}
  BY DEF IncomingType, FieldsOf
<1>2. IncomingType[kind] \in Nat
  BY <1>1, TypesAreNumbers
<1>3. DecodeIncoming(datagram) = DecodeOfKind(kind, At(datagram, 4))
  BY <1>1, KindDecoded
<1>4. DecodeProtobuf(FieldsOf[kind], At(datagram, 4)) = message
  BY <1>2, ProtobufDecoded
<1>5. message.ok = TRUE /\ message.value = fields
  BY DoneFields
<1> HIDE DEF datagram, message
<1>6. DecodeOfKind(kind, At(datagram, 4)) =
          DecodedWith(message, LAMBDA f : [kind |-> kind, fields |-> f])
  BY <1>1, <1>4 DEF DecodeOfKind
<1>7. DecodedWith(message, LAMBDA f : [kind |-> kind, fields |-> f]) =
          Decoded([kind |-> kind, fields |-> fields])
  BY <1>5 DEF DecodedWith
<1>8. QED
  BY <1>3, <1>6, <1>7 DEF datagram

\* Data from the chat server.
LEMMA ProxyDecoded ==
    ASSUME NEW data \in Seq(Nat)
    PROVE  DecodeIncoming(Header(0) \o data) = Decoded([kind |-> "Proxy", data |-> data])
<1> DEFINE datagram == Header(0) \o data
           left == Done(data, At(datagram, Len(datagram)))
<1>1. "Proxy" \in DOMAIN IncomingType /\ IncomingType["Proxy"] = 0
  BY DEF IncomingType
<1>2. DecodeIncoming(datagram) = DecodeOfKind("Proxy", At(datagram, 4))
  BY <1>1, KindDecoded
<1>3. ReadRemaining(At(datagram, 4)) = left
  BY BodyRemains
<1>4. left.value = data
  BY DoneFields
<1> HIDE DEF datagram, left
<1>5. DecodeOfKind("Proxy", At(datagram, 4)) = Decoded([kind |-> "Proxy", data |-> data])
  BY <1>3, <1>4 DEF DecodeOfKind
<1>6. QED
  BY <1>2, <1>5 DEF datagram

\* A payload of a type the client does not know.
LEMMA UnknownDecoded ==
    ASSUME NEW type \in Nat \ KnownTypes, NEW body \in Seq(Nat)
    PROVE  DecodeIncoming(Header(type) \o body) =
               Decoded([kind |-> "UnknownPayload", type |-> type, length |-> Len(body)])
<1> DEFINE datagram == Header(type) \o body
<1>1. DecodeIncoming(datagram) = DecodeOfType(type, At(datagram, 4))
  BY TypeDecoded
<1>2. Len(datagram) = 4 + Len(body) /\ Len(body) \in Nat
  BY ContainerDecoded, LenProperties
<1> HIDE DEF datagram
<1>3. Remaining(At(datagram, 4)) = Len(body)
  BY <1>2 DEF Remaining, At
<1>4. ~ \E k \in DOMAIN IncomingType : IncomingType[k] = type
  BY DEF KnownTypes
<1>5. QED
  BY <1>1, <1>3, <1>4 DEF DecodeOfType, datagram

\* Sequences of a length, and those put together from them.
Bytes(n) == {s \in Seq(Nat) : Len(s) = n}

LEMMA Joined ==
    ASSUME NEW m, NEW n, NEW s \in Bytes(m), NEW t \in Bytes(n)
    PROVE  s \o t \in Bytes(m + n)
<1>1. s \in Seq(Nat) /\ Len(s) = m /\ t \in Seq(Nat) /\ Len(t) = n
  BY DEF Bytes
<1>2. s \o t \in Seq(Nat) /\ Len(s \o t) = Len(s) + Len(t)
  BY <1>1, ConcatProperties
<1>3. QED
  BY <1>1, <1>2 DEF Bytes

LEMMA Associative ==
    ASSUME NEW s \in Seq(Nat), NEW t \in Seq(Nat), NEW u \in Seq(Nat)
    PROVE  (s \o t) \o u = s \o (t \o u)
BY ConcatAssociative

LEMMA BytesAreNumbers == \A n : Bytes(n) \subseteq Seq(Nat)
BY DEF Bytes

\* The pieces of a sequence, given how long they are.
LEMMA PieceAt ==
    ASSUME NEW l, NEW m, NEW front \in Bytes(l), NEW piece \in Bytes(m), NEW rear \in Seq(Nat)
    PROVE  SubSeq(front \o (piece \o rear), l + 1, l + m) = piece
<1>1. front \in Seq(Nat) /\ Len(front) = l /\ piece \in Seq(Nat) /\ Len(piece) = m
  BY DEF Bytes
<1>2. SubSeq(front \o (piece \o rear), Len(front) + 1, Len(front) + Len(piece)) = piece
  BY <1>1, Piece
<1>3. QED
  BY <1>1, <1>2

LEMMA FirstPieceAt ==
    ASSUME NEW m, NEW piece \in Bytes(m), NEW rear \in Seq(Nat)
    PROVE  SubSeq(piece \o rear, 1, m) = piece
<1>1. piece \in Seq(Nat) /\ Len(piece) = m
  BY DEF Bytes
<1>2. SubSeq(piece \o rear, 1, Len(piece)) = piece
  BY <1>1, FirstPiece
<1>3. QED
  BY <1>1, <1>2

LEMMA LastPieceAt ==
    ASSUME NEW l, NEW m, NEW front \in Bytes(l), NEW piece \in Bytes(m)
    PROVE  SubSeq(front \o piece, l + 1, l + m) = piece
<1>1. front \in Seq(Nat) /\ Len(front) = l /\ piece \in Seq(Nat) /\ Len(piece) = m
  BY DEF Bytes
<1>2. SubSeq(front \o piece, Len(front) + 1, Len(front) + Len(piece)) = piece
  BY <1>1, LastPiece
<1>3. QED
  BY <1>1, <1>2

LEMMA HeaderBytes == \A type \in Nat : Header(type) \in Bytes(4)
BY HeaderType DEF Bytes

LEMMA IntegerBytes ==
    ASSUME NEW value \in Nat, NEW length \in Nat \ {0}
    PROVE  ToLe(value, length) \in Bytes(length)
BY ToLeBytes DEF Bytes

\* Integers whose bytes follow each other.
LEMMA TwoIntsAt ==
    ASSUME NEW buffer, Len(buffer) \in Nat, NEW from \in Nat, NEW a \in Nat, NEW b \in Nat,
           from + a + b <= Len(buffer), NEW s \in Bytes(a), NEW t \in Bytes(b),
           Holds(buffer, from, from + a + b, s \o t)
    PROVE  ReadInts(At(buffer, from), <<a, b>>) =
               Done(<<FromLe(s), FromLe(t)>>, At(buffer, from + a + b))
<1> DEFINE slice == s \o t
<1>1. t \in Seq(Nat)
  BY BytesAreNumbers
<1>2. SubSeq(slice, 1, a) = s
  BY <1>1, FirstPieceAt
<1>3. SubSeq(slice, a + 1, a + b) = t
  BY LastPieceAt
<1> HIDE DEF slice
<1>4. ReadInts(At(buffer, from), <<a, b>>) =
          Done(<<FromLe(SubSeq(slice, 1, a)), FromLe(SubSeq(slice, a + 1, a + b))>>,
               At(buffer, from + a + b))
  BY TwoIntsValue DEF slice
<1>5. QED
  BY <1>2, <1>3, <1>4

LEMMA ThreeIntsAt ==
    ASSUME NEW buffer, Len(buffer) \in Nat, NEW from \in Nat,
           NEW a \in Nat, NEW b \in Nat, NEW c \in Nat, from + a + b + c <= Len(buffer),
           NEW s \in Bytes(a), NEW t \in Bytes(b), NEW u \in Bytes(c),
           Holds(buffer, from, from + a + b + c, s \o (t \o u))
    PROVE  ReadInts(At(buffer, from), <<a, b, c>>) =
               Done(<<FromLe(s), FromLe(t), FromLe(u)>>, At(buffer, from + a + b + c))
<1> DEFINE rest == t \o u
           front == s \o t
           slice == s \o rest
<1>1. s \in Seq(Nat) /\ t \in Seq(Nat) /\ u \in Seq(Nat)
  BY BytesAreNumbers
<1>2. rest \in Seq(Nat) /\ front \in Bytes(a + b)
  BY <1>1, Joined, Concatenation
<1>3. slice = front \o u
  <2>1. (s \o t) \o u = s \o (t \o u)
    BY <1>1, Associative
  <2>2. QED
    BY <2>1
<1>4. SubSeq(slice, 1, a) = s
  <2> HIDE DEF rest
  <2>1. QED
    BY <1>2, FirstPieceAt
<1>5. SubSeq(slice, a + 1, a + b) = t
  <2>1. s \in Bytes(a) /\ t \in Bytes(b) /\ u \in Seq(Nat)
    BY <1>1
  <2>2. SubSeq(s \o (t \o u), a + 1, a + b) = t
    BY <2>1, PieceAt, Zenon
  <2>3. QED
    BY <2>2
<1> HIDE DEF front, slice
<1>6. SubSeq(slice, a + b + 1, a + b + c) = u
  BY <1>2, <1>3, LastPieceAt
<1>7. Holds(buffer, from, from + a + b + c, slice)
  BY DEF slice
<1>8. ReadInts(At(buffer, from), <<a, b, c>>) =
          Done(<<FromLe(SubSeq(slice, 1, a)), FromLe(SubSeq(slice, a + 1, a + b)),
                 FromLe(SubSeq(slice, a + b + 1, a + b + c))>>,
               At(buffer, from + a + b + c))
  BY <1>7, ThreeIntsValue
<1>9. QED
  BY <1>4, <1>5, <1>6, <1>8

\* An acknowledgement of a reflected message (ReflectAck::decode).
LEMMA ReflectAckDecoded ==
    ASSUME NEW id, FitsIn(id, 4), NEW timestamp, FitsIn(timestamp, 8)
    PROVE  DecodeIncoming(Header(129) \o (<<0, 0, 0, 0>> \o ToLe(id, 4) \o ToLe(timestamp, 8))) =
               Decoded([kind |-> "ReflectAck", id |-> id, timestamp |-> timestamp])
<1> DEFINE zeros == <<0, 0, 0, 0>>
           i == ToLe(id, 4)
           t == ToLe(timestamp, 8)
           head == Header(129)
           body == (zeros \o i) \o t
           datagram == head \o body
           value == <<id, timestamp>>
<1>0. /\ 4 \in Nat \ {0} /\ 8 \in Nat \ {0} /\ 20 \in Nat /\ 129 \in Nat
      /\ 4 + 4 = 8 /\ 4 + 8 = 12 /\ 8 + 12 = 20 /\ 8 + 1 = 9
  OBVIOUS
<1>1. id \in Nat /\ timestamp \in Nat
  BY DEF FitsIn
<1>2. i \in Bytes(4) /\ t \in Bytes(8)
  BY <1>0, <1>1, IntegerBytes
<1>3. FromLe(i) = id /\ FromLe(t) = timestamp
  BY <1>0, IntegerSurvives
<1>4. zeros \in Bytes(4) /\ head \in Bytes(4)
  <2>1. zeros \in Bytes(4)
    BY DEF Bytes
  <2>2. QED
    BY <1>0, <2>1, HeaderBytes
<1>5. head = Header(129)
  OBVIOUS
<1> HIDE DEF zeros, i, t, head
<1>6. zeros \o i \in Bytes(4 + 4) /\ head \o zeros \in Bytes(4 + 4) /\ i \o t \in Bytes(4 + 8)
  BY <1>2, <1>4, Joined
<1>7. zeros \o i \in Bytes(8) /\ head \o zeros \in Bytes(8) /\ i \o t \in Bytes(12)
  BY <1>0, <1>6
<1> DEFINE front == head \o zeros
           rear == i \o t
<1>8. body = zeros \o rear
  <2>1. zeros \in Seq(Nat) /\ i \in Seq(Nat) /\ t \in Seq(Nat)
    BY <1>2, <1>4, BytesAreNumbers
  <2>2. QED
    BY <2>1, Associative
<1> HIDE DEF rear
<1>9. front \o rear = head \o (zeros \o rear) /\ rear \in Bytes(12)
  <2>1. rear \in Bytes(12)
    BY <1>7 DEF rear
  <2>2. head \in Seq(Nat) /\ zeros \in Seq(Nat) /\ rear \in Seq(Nat)
    BY <1>4, <2>1, BytesAreNumbers
  <2>3. QED
    BY <2>1, <2>2, Associative
<1>10. datagram = front \o rear /\ front \in Bytes(8) /\ rear \in Bytes(12)
  BY <1>7, <1>8, <1>9
<1> HIDE DEF front
<1> HIDE DEF datagram
<1>11. datagram \in Bytes(20)
  <2>1. front \o rear \in Bytes(8 + 12)
    BY <1>10, Joined
  <2>2. QED
    BY <1>0, <1>10, <2>1
<1>12. SubSeq(datagram, 8 + 1, 8 + 12) = rear
  BY <1>10, LastPieceAt
<1>13. DecodeIncoming(datagram) = DecodeOfKind("ReflectAck", At(datagram, 4))
  <2>1. "ReflectAck" \in DOMAIN IncomingType /\ IncomingType["ReflectAck"] = 129
    BY DEF IncomingType
  <2>2. body \in Seq(Nat)
    <3>1. (zeros \o i) \o t \in Bytes(8 + 8)
      BY <1>2, <1>7, Joined
    <3>2. QED
      BY <3>1 DEF Bytes
  <2> HIDE DEF body
  <2>3. DecodeIncoming(Header(129) \o body) = DecodeOfKind("ReflectAck", At(Header(129) \o body, 4))
    BY <2>1, <2>2, KindDecoded
  <2>4. QED
    BY <1>5, <2>3 DEF datagram
<1> HIDE DEF body
<1>24. Len(datagram) = 20
  BY <1>11 DEF Bytes
<1>14. Skip(At(datagram, 4), 4) = Done(<<>>, At(datagram, 8))
  <2>1. Len(datagram) \in Nat /\ 4 + 4 <= Len(datagram) /\ 4 \in Nat
    BY <1>24
  <2>2. Skip(At(datagram, 4), 4) = Done(<<>>, At(datagram, 4 + 4))
    BY <2>1, SkipValue
  <2>3. QED
    BY <1>0, <2>2
<1>15. ReadInts(At(datagram, 8), <<4, 8>>) =
           Done(<<FromLe(i), FromLe(t)>>, At(datagram, 8 + 4 + 8))
  <2>1. /\ Len(datagram) \in Nat /\ 8 + 4 + 8 <= Len(datagram) /\ 4 \in Nat /\ 8 \in Nat
        /\ 8 + 12 = 8 + 4 + 8
    BY <1>24
  <2>2. Holds(datagram, 8, 8 + 4 + 8, i \o t)
    BY <1>12, <2>1 DEF rear, Holds
  <2>3. QED
    BY <1>2, <2>1, <2>2, TwoIntsAt
<1> DEFINE reserved == Done(<<>>, At(datagram, 8))
           ints == Done(value, At(datagram, 8 + 4 + 8))
<1>16. ReadInts(At(datagram, 8), <<4, 8>>) = ints
  BY <1>3, <1>15
<1>17. reserved.reader = At(datagram, 8) /\ Then(reserved, ints) = ints
  <2>1. Then(reserved, ints) = ints
    BY ThenDone
  <2>2. QED
    BY <2>1, DoneFields
<1>18. ints.ok = TRUE /\ ints.value = value
  BY DoneFields
<1>19. value[1] = id /\ value[2] = timestamp
  OBVIOUS
<1> HIDE DEF reserved, ints, value
<1>20. DecodeReflectAck(At(datagram, 4)) =
          DecodedWith(ints, LAMBDA v : [kind |-> "ReflectAck", id |-> v[1], timestamp |-> v[2]])
  BY <1>14, <1>16, <1>17 DEF DecodeReflectAck, reserved
<1>21. DecodeReflectAck(At(datagram, 4)) =
          Decoded([kind |-> "ReflectAck", id |-> id, timestamp |-> timestamp])
  BY <1>18, <1>19, <1>20 DEF DecodedWith
<1>22. DecodeOfKind("ReflectAck", At(datagram, 4)) = DecodeReflectAck(At(datagram, 4))
  BY DEF DecodeOfKind
<1>23. QED
  BY <1>5, <1>13, <1>21, <1>22 DEF datagram, body, head, zeros, i, t

\* The header of a reflected message and what follows it, put together.
LEMMA ReflectedBytes ==
    ASSUME NEW head \in Bytes(4), NEW z \in Bytes(2), NEW f \in Bytes(2), NEW i \in Bytes(4),
           NEW t \in Bytes(8), NEW e \in Seq(Nat)
    PROVE  LET datagram == head \o ((((z \o f) \o i) \o t) \o e)
           IN /\ datagram = head \o (z \o ((f \o (i \o t)) \o e))
              /\ (((z \o f) \o i) \o t) \o e \in Seq(Nat)
              /\ Len(datagram) = 20 + Len(e)
              /\ Holds(datagram, 6, 6 + 2 + 4 + 8, f \o (i \o t))
<1> DEFINE mid == f \o (i \o t)
           rest == mid \o e
           front == head \o z
<1>1. /\ head \in Seq(Nat) /\ z \in Seq(Nat) /\ f \in Seq(Nat) /\ i \in Seq(Nat)
      /\ t \in Seq(Nat)
  BY BytesAreNumbers
<1>2. i \o t \in Seq(Nat) /\ f \o i \in Seq(Nat) /\ z \o f \in Seq(Nat)
  BY <1>1, Concatenation
<1>3. mid \in Bytes(14)
  <2>1. i \o t \in Bytes(4 + 8)
    BY Joined
  <2>2. i \o t \in Bytes(12)
    BY <2>1, 4 + 8 = 12
  <2>3. f \o (i \o t) \in Bytes(2 + 12)
    BY <2>2, Joined
  <2>4. QED
    BY <2>3, 2 + 12 = 14
<1>4. ((z \o f) \o i) \o t = z \o mid
  <2>1. (z \o f) \o i = z \o (f \o i)
    <3>1. z \in Seq(Nat) /\ f \in Seq(Nat) /\ i \in Seq(Nat)
      BY <1>1
    <3>2. QED
      BY <3>1, Associative
  <2>2. (z \o (f \o i)) \o t = z \o ((f \o i) \o t)
    <3>1. z \in Seq(Nat) /\ f \o i \in Seq(Nat) /\ t \in Seq(Nat)
      BY <1>1, <1>2
    <3>2. QED
      BY <3>1, Associative
  <2>3. (f \o i) \o t = mid
    <3>1. f \in Seq(Nat) /\ i \in Seq(Nat) /\ t \in Seq(Nat)
      BY <1>1
    <3>2. QED
      BY <3>1, Associative
  <2>4. QED
    BY <2>1, <2>2, <2>3
<1> HIDE DEF mid
<1>5. mid \in Seq(Nat) /\ rest \in Seq(Nat)
  <2>1. mid \in Seq(Nat)
    BY <1>3, BytesAreNumbers
  <2>2. QED
    BY <2>1, Concatenation
<1>6. (z \o mid) \o e = z \o rest
  <2>1. z \in Seq(Nat) /\ mid \in Seq(Nat) /\ e \in Seq(Nat)
    BY <1>1, <1>5
  <2>2. (z \o mid) \o e = z \o (mid \o e)
    BY <2>1, Associative
  <2>3. QED
    BY <2>2
<1> HIDE DEF rest
<1>7. head \o (z \o rest) = front \o rest
  <2>1. head \in Seq(Nat) /\ z \in Seq(Nat) /\ rest \in Seq(Nat)
    BY <1>1, <1>5
  <2>2. (head \o z) \o rest = head \o (z \o rest)
    BY <2>1, Associative
  <2>3. QED
    BY <2>2
<1>8. front \in Bytes(6)
  <2>1. head \o z \in Bytes(4 + 2)
    BY Joined
  <2>2. QED
    BY <2>1, 4 + 2 = 6
<1> HIDE DEF front
<1>9. Len(front \o rest) = 20 + Len(e)
  <2>1. Len(rest) = Len(mid) + Len(e) /\ Len(front \o rest) = Len(front) + Len(rest)
    <3>1. front \in Seq(Nat)
      BY <1>8, BytesAreNumbers
    <3>2. QED
      BY <1>5, <3>1, Concatenation DEF rest
  <2>2. Len(front) = 6 /\ Len(mid) = 14 /\ Len(e) \in Nat
    BY <1>3, <1>8, LenProperties DEF Bytes
  <2>3. QED
    BY <2>1, <2>2
<1>10. SubSeq(front \o (mid \o e), 6 + 1, 6 + 14) = mid
  <2>1. front \in Bytes(6) /\ mid \in Bytes(14) /\ e \in Seq(Nat)
    BY <1>3, <1>8
  <2>2. QED
    BY <2>1, PieceAt, Zenon
<1>11. SubSeq(front \o rest, 6 + 1, 6 + 2 + 4 + 8) = mid
  BY <1>10, 6 + 14 = 6 + 2 + 4 + 8 DEF rest
<1>12. z \o rest \in Seq(Nat)
  BY <1>1, <1>5, Concatenation
<1> DEFINE body == (((z \o f) \o i) \o t) \o e
<1>13. body = z \o rest
  BY <1>4, <1>6
<1> HIDE DEF body
<1>14. head \o body = front \o rest
  BY <1>7, <1>13
<1>15. /\ head \o body = head \o (z \o (mid \o e))
       /\ body \in Seq(Nat)
       /\ Len(head \o body) = 20 + Len(e)
       /\ SubSeq(head \o body, 6 + 1, 6 + 2 + 4 + 8) = mid
  BY <1>9, <1>11, <1>12, <1>13, <1>14 DEF rest
<1>16. QED
  BY <1>15 DEF body, mid, Holds

\* The integers in the header of a reflected message.
LEMMA ReflectedHeader ==
    ASSUME NEW datagram, Len(datagram) \in Nat, Len(datagram) >= 20,
           NEW f \in Bytes(2), NEW i \in Bytes(4), NEW t \in Bytes(8),
           Holds(datagram, 6, 6 + 2 + 4 + 8, f \o (i \o t))
    PROVE  ReadInts(At(datagram, 6), <<2, 4, 8>>) =
               Done(<<FromLe(f), FromLe(i), FromLe(t)>>, At(datagram, 6 + 2 + 4 + 8))
<1>1. 6 + 2 + 4 + 8 <= Len(datagram)
  OBVIOUS
<1>2. QED
  BY <1>1, ThreeIntsAt, SMT

\* A reflected message, of which the header arrives as it was sent (Reflected::decode).
DecodesWithHeader(datagram, flags, id, timestamp) ==
    \E left : DecodeIncoming(datagram) =
                Decoded([kind |-> "Reflected", flags |-> flags, id |-> id,
                         timestamp |-> timestamp, envelope |-> left])

LEMMA ReflectedDecoded ==
    ASSUME NEW flags, FitsIn(flags, 2), NEW id, FitsIn(id, 4),
           NEW timestamp, FitsIn(timestamp, 8), NEW envelope \in Seq(Nat), envelope # <<>>
    PROVE  DecodesWithHeader(Header(130) \o (<<16, 0>> \o ToLe(flags, 2) \o ToLe(id, 4)
                                                \o ToLe(timestamp, 8) \o envelope),
                             flags, id, timestamp)
<1> DEFINE z == <<16, 0>>
           f == ToLe(flags, 2)
           i == ToLe(id, 4)
           t == ToLe(timestamp, 8)
           head == Header(130)
           body == (((z \o f) \o i) \o t) \o envelope
           datagram == head \o body
           value == <<flags, id, timestamp>>
<1>0. /\ 2 \in Nat \ {0} /\ 4 \in Nat \ {0} /\ 8 \in Nat \ {0} /\ 130 \in Nat
      /\ 4 + 1 = 5 /\ 5 + 1 = 6 /\ 5 + 16 = 21
  OBVIOUS
<1>1. flags \in Nat /\ id \in Nat /\ timestamp \in Nat
  BY DEF FitsIn
<1>2. f \in Bytes(2) /\ i \in Bytes(4) /\ t \in Bytes(8)
  BY <1>0, <1>1, IntegerBytes
<1>3. FromLe(f) = flags /\ FromLe(i) = id /\ FromLe(t) = timestamp
  BY <1>0, IntegerSurvives
<1>4. z \in Bytes(2) /\ head \in Bytes(4)
  <2>1. z \in Bytes(2)
    BY DEF Bytes
  <2>2. QED
    BY <1>0, <2>1, HeaderBytes
<1>5. head = Header(130) /\ z = <<16, 0>>
  OBVIOUS
<1> HIDE DEF z, f, i, t, head
<1>6. /\ datagram = head \o (z \o ((f \o (i \o t)) \o envelope))
      /\ body \in Seq(Nat)
      /\ Len(datagram) = 20 + Len(envelope)
      /\ Holds(datagram, 6, 6 + 2 + 4 + 8, f \o (i \o t))
  BY <1>2, <1>4, ReflectedBytes
<1>7. Len(datagram) \in Nat /\ Len(datagram) >= 21
  <2>1. Len(envelope) \in Nat /\ Len(envelope) # 0
    BY LenProperties, EmptySeq
  <2> HIDE DEF datagram
  <2>2. QED
    BY <1>6, <2>1
<1>8. DecodeIncoming(datagram) = DecodeReflected(At(datagram, 4))
  <2> HIDE DEF body
  <2>1. "Reflected" \in DOMAIN IncomingType /\ IncomingType["Reflected"] = 130
    BY DEF IncomingType
  <2>2. DecodeIncoming(Header(130) \o body) = DecodeOfKind("Reflected", At(Header(130) \o body, 4))
    BY <1>6, <2>1, KindDecoded
  <2>3. DecodeIncoming(datagram) = DecodeOfKind("Reflected", At(datagram, 4))
    BY <1>5, <2>2
  <2>4. DecodeOfKind("Reflected", At(datagram, 4)) = DecodeReflected(At(datagram, 4))
    BY DEF DecodeOfKind
  <2>5. QED
    BY <2>3, <2>4
<1>9. SubSeq(datagram, 4 + 1, 4 + 1) = <<16>>
  <2> DEFINE rest == (f \o (i \o t)) \o envelope
             first == <<16>>
             second == <<0>>
  <2>1. rest \in Seq(Nat) /\ first \in Bytes(1) /\ second \in Seq(Nat)
    <3>1. f \in Seq(Nat) /\ i \in Seq(Nat) /\ t \in Seq(Nat)
      BY <1>2, BytesAreNumbers
    <3>2. i \o t \in Seq(Nat)
      BY <3>1, Concatenation
    <3>3. f \o (i \o t) \in Seq(Nat)
      BY <3>1, <3>2, Concatenation
    <3>4. rest \in Seq(Nat)
      BY <3>3, Concatenation
    <3>5. QED
      BY <3>4 DEF Bytes
  <2>2. z = first \o second
    BY <1>5
  <2> HIDE DEF rest, first, second
  <2>3. z \o rest = first \o (second \o rest)
    <3>1. first \in Seq(Nat)
      BY <2>1, BytesAreNumbers
    <3>2. QED
      BY <2>1, <2>2, <3>1, Associative
  <2>4. second \o rest \in Seq(Nat)
    BY <2>1, Concatenation
  <2>5. SubSeq(head \o (first \o (second \o rest)), 4 + 1, 4 + 1) = first
    <3>1. head \in Bytes(4) /\ first \in Bytes(1) /\ second \o rest \in Seq(Nat)
      BY <1>4, <2>1, <2>4
    <3>2. QED
      BY <3>1, PieceAt, Zenon
  <2>6. datagram = head \o (first \o (second \o rest))
    BY <1>6, <2>3 DEF rest
  <2>7. QED
    BY <2>5, <2>6 DEF first
<1> HIDE DEF body, datagram
<1> DEFINE length == Done(16, At(datagram, 5))
           reserved == Done(<<>>, At(datagram, 6))
           ints == Done(value, At(datagram, 6 + 2 + 4 + 8))
           skipped == Done(<<>>, At(datagram, 21))
           left == SubSeq(datagram, 21 + 1, Len(datagram))
           remaining == Done(left, At(datagram, Len(datagram)))
<1>10. ReadInt(At(datagram, 4), 1) = length
  <2>1. 4 + 1 <= Len(datagram) /\ 4 \in Nat /\ 1 \in Nat /\ 16 \in Nat
    BY <1>7
  <2>2. ReadInt(At(datagram, 4), 1) =
            Done(FromLe(SubSeq(datagram, 4 + 1, 4 + 1)), At(datagram, 4 + 1))
    BY <1>7, <2>1, IntValue
  <2>3. FromLe(<<16>>) = 16
    BY <2>1, FromLeByte
  <2>4. QED
    BY <1>0, <1>9, <2>2, <2>3
<1>11. Skip(RunAt(At(datagram, 5), 0).reader, 1) = reserved
  <2>1. RunAt(At(datagram, 5), 0) = Done(<<>>, At(datagram, 5))
    BY <1>7 DEF RunAt, At
  <2>2. RunAt(At(datagram, 5), 0).reader = At(datagram, 5)
    BY <2>1 DEF Done
  <2>3. 5 + 1 <= Len(datagram) /\ 5 \in Nat /\ 1 \in Nat
    BY <1>7
  <2>4. Skip(At(datagram, 5), 1) = Done(<<>>, At(datagram, 5 + 1))
    BY <1>7, <2>3, SkipValue
  <2>5. QED
    BY <1>0, <2>2, <2>4
<1>12. ReadInts(At(datagram, 6), <<2, 4, 8>>) = ints
  <2>1. Len(datagram) >= 20
    BY <1>7
  <2>2. ReadInts(At(datagram, 6), <<2, 4, 8>>) =
            Done(<<FromLe(f), FromLe(i), FromLe(t)>>, At(datagram, 6 + 2 + 4 + 8))
    BY <1>2, <1>6, <1>7, <2>1, ReflectedHeader
  <2>3. QED
    BY <1>3, <2>2
<1>13. Skip(At(datagram, 5), 16) = skipped
  <2>1. 5 + 16 <= Len(datagram) /\ 5 \in Nat /\ 16 \in Nat
    BY <1>7
  <2>2. Skip(At(datagram, 5), 16) = Done(<<>>, At(datagram, 5 + 16))
    BY <1>7, <2>1, SkipValue
  <2>3. QED
    BY <1>0, <2>2
<1>14. ReadRemaining(At(datagram, 21)) = remaining
  <2>1. 21 \in 0 .. Len(datagram)
    BY <1>7
  <2>2. QED
    BY <1>7, <2>1, RemainingValue
<1>15. /\ length.ok = TRUE /\ length.value = 16 /\ length.reader = At(datagram, 5)
       /\ reserved.reader = At(datagram, 6) /\ skipped.reader = At(datagram, 21)
  BY DEF Done
<1>16. ints.ok = TRUE /\ ints.value = value /\ remaining.ok = TRUE /\ remaining.value = left
  BY DoneFields
<1>17. Then(reserved, ints) = ints
  BY ThenDone
<1>18. Then(skipped, remaining) = remaining
  BY ThenDone
<1>19. value[1] = flags /\ value[2] = id /\ value[3] = timestamp
  OBVIOUS
<1> HIDE DEF length, reserved, ints, skipped, left, remaining, value
<1>20. DecodeReflected(At(datagram, 4)) = DecodeBehindLength(At(datagram, 5), 16)
  BY <1>10, <1>15 DEF DecodeReflected
<1>21. DecodeHeader(At(datagram, 5)) = ints
  BY <1>11, <1>12, <1>15, <1>17 DEF DecodeHeader
<1>22. DecodeEnvelope(At(datagram, 5), 16) = remaining
  BY <1>13, <1>14, <1>15, <1>18 DEF DecodeEnvelope
<1>27. ~(16 < MinHeaderLength)
  BY DEF MinHeaderLength
<1>24. DecodeBehindLength(At(datagram, 5), 16) =
           Decoded([kind |-> "Reflected", flags |-> flags, id |-> id,
                    timestamp |-> timestamp, envelope |-> left])
  BY <1>16, <1>19, <1>21, <1>22, <1>27 DEF DecodeBehindLength, DecodedWith
<1>25. DecodeIncoming(datagram) =
           Decoded([kind |-> "Reflected", flags |-> flags, id |-> id,
                    timestamp |-> timestamp, envelope |-> left])
  BY <1>8, <1>20, <1>24
<1>26. DecodesWithHeader(datagram, flags, id, timestamp)
  BY <1>25 DEF DecodesWithHeader
<1>28. QED
  BY <1>26 DEF datagram, body, head, z, f, i, t

\* A byte fits every integer.
LEMMA ByteFits ==
    ASSUME NEW value \in 0 .. 255, NEW length \in Nat \ {0}
    PROVE  FitsIn(value, length)
<1> DEFINE rest == Rest(value, length)
           S == {k \in 0 .. length - 1 : rest[k + 1] \in 0 .. 255}
<1>0. value \in Nat
  OBVIOUS
<1>1. /\ rest[1] = value
      /\ \A i \in 2 .. length : rest[i] = rest[i - 1] \div 256
  BY <1>0, RestValues
<1> HIDE DEF rest
<1>2. 0 \in S
  BY <1>1
<1>3. ASSUME NEW k \in 0 .. (length - 1) - 1, k \in S
      PROVE  k + 1 \in S
  <2>1. rest[k + 2] = rest[k + 1] \div 256 /\ rest[k + 1] \in 0 .. 255
    BY <1>1, <1>3
  <2>2. \A x \in 0 .. 255 : x \div 256 = 0
    OBVIOUS
  <2>3. rest[k + 2] = 0
    BY <2>1, <2>2
  <2>4. QED
    BY <2>3
<1> HIDE DEF S
<1>4. length - 1 \in S
  BY <1>2, <1>3, UpTo, 0 .. length - 1 \subseteq S
<1>5. rest[length] < 256
  BY <1>4 DEF S
<1>6. QED
  BY <1>5 DEF FitsIn, rest

\* What the mediator may send behind the handshake: what it pushes, and its answers.
Sendable(payload) ==
    \/ payload \in PushedPayloads /\ WellFormed(payload)
    \/ /\ payload \in [kind : DOMAIN FieldsOf, fields : Seq(Nat)]
       /\ Len(payload.fields) = FieldsOf[payload.kind]

\* Its datagram decodes to it again, but for the envelope of a reflected message.
Decodable(payload) ==
    LET decoded == DecodeIncoming(EncodeByMediator(payload))
    IN /\ decoded.error = "none"
       /\ decoded.payload.kind = payload.kind
       /\ WithoutEnvelope(decoded.payload) = WithoutEnvelope(payload)

LEMMA DecodedFields ==
    ASSUME NEW payload PROVE Decoded(payload).error = "none" /\ Decoded(payload).payload = payload
BY DEF Decoded

\* What decodes to itself is decodable.
LEMMA Unchanged ==
    ASSUME NEW payload, DecodeIncoming(EncodeByMediator(payload)) = Decoded(payload)
    PROVE  Decodable(payload)
BY DecodedFields DEF Decodable

LEMMA SendableDecoded ==
    ASSUME NEW p, Sendable(p)
    PROVE  Decodable(p)
<1>1. CASE p \in [kind : {"Proxy"}, data : Seq(Nat)]
  <2>1. p = [kind |-> "Proxy", data |-> p.data] /\ p.data \in Seq(Nat) /\ p.kind = "Proxy"
    BY <1>1
  <2>2. EncodeByMediator(p) = Header(0) \o p.data
    BY <2>1 DEF EncodeByMediator, Header
  <2>3. DecodeIncoming(Header(0) \o p.data) = Decoded([kind |-> "Proxy", data |-> p.data])
    BY <2>1, ProxyDecoded
  <2>4. DecodeIncoming(EncodeByMediator(p)) = Decoded(p)
    BY <2>1, <2>2, <2>3
  <2>5. QED
    BY <2>4, Unchanged
<1>2. CASE p \in [kind : {"UnknownPayload"}, type : Nat \ KnownTypes, length : Nat]
  <2>1. /\ p = [kind |-> "UnknownPayload", type |-> p.type, length |-> p.length]
        /\ p.type \in Nat \ KnownTypes /\ p.length \in Nat /\ p.kind = "UnknownPayload"
    BY <1>2
  <2> DEFINE body == ToLe(0, p.length)
  <2>2. EncodeByMediator(p) = Header(p.type) \o body
    BY <2>1 DEF EncodeByMediator, Header
  <2>3. body \in Seq(Nat) /\ Len(body) = p.length
    <3>1. CASE p.length = 0
      BY <3>1 DEF ToLe
    <3>2. CASE p.length # 0
      <4>1. 0 \in Nat /\ p.length \in Nat \ {0}
        BY <2>1, <3>2
      <4>2. QED
        BY <4>1, ToLeBytes
    <3>3. QED
      BY <3>1, <3>2
  <2> HIDE DEF body
  <2>4. DecodeIncoming(Header(p.type) \o body) =
            Decoded([kind |-> "UnknownPayload", type |-> p.type, length |-> Len(body)])
    BY <2>1, <2>3, UnknownDecoded
  <2>5. DecodeIncoming(EncodeByMediator(p)) = Decoded(p)
    BY <2>1, <2>2, <2>3, <2>4
  <2>6. QED
    BY <2>5, Unchanged
<1>3. CASE p \in [kind : {"ReflectAck"}, id : Nat, timestamp : Nat] /\ WellFormed(p)
  <2>1. /\ p = [kind |-> "ReflectAck", id |-> p.id, timestamp |-> p.timestamp]
        /\ p.kind = "ReflectAck"
    BY <1>3
  <2>2. FitsIn(p.id, 4) /\ FitsIn(p.timestamp, 8)
    BY <1>3, <2>1 DEF WellFormed
  <2>3. EncodeByMediator(p) =
            Header(129) \o (<<0, 0, 0, 0>> \o ToLe(p.id, 4) \o ToLe(p.timestamp, 8))
    BY <2>1 DEF EncodeByMediator, Header
  <2>4. DecodeIncoming(EncodeByMediator(p)) =
            Decoded([kind |-> "ReflectAck", id |-> p.id, timestamp |-> p.timestamp])
    BY <2>2, <2>3, ReflectAckDecoded
  <2>5. DecodeIncoming(EncodeByMediator(p)) = Decoded(p)
    BY <2>1, <2>4
  <2>6. QED
    BY <2>5, Unchanged
<1>4. CASE /\ p \in [kind : {"Reflected"}, flags : Nat, id : Nat, timestamp : Nat,
                     envelope : Seq(Nat) \ {<<>>}]
           /\ WellFormed(p)
  <2>1. /\ p = [kind |-> "Reflected", flags |-> p.flags, id |-> p.id,
                timestamp |-> p.timestamp, envelope |-> p.envelope]
        /\ p.kind = "Reflected" /\ p.envelope \in Seq(Nat) /\ p.envelope # <<>>
    BY <1>4
  <2>2. FitsIn(p.flags, 2) /\ FitsIn(p.id, 4) /\ FitsIn(p.timestamp, 8)
    BY <1>4, <2>1 DEF WellFormed
  <2>3. EncodeByMediator(p) =
            Header(130) \o (<<16, 0>> \o ToLe(p.flags, 2) \o ToLe(p.id, 4)
                              \o ToLe(p.timestamp, 8) \o p.envelope)
    BY <2>1 DEF EncodeByMediator, Header
  <2>4. DecodesWithHeader(Header(130) \o (<<16, 0>> \o ToLe(p.flags, 2) \o ToLe(p.id, 4)
                                             \o ToLe(p.timestamp, 8) \o p.envelope),
                          p.flags, p.id, p.timestamp)
    <3>1. /\ FitsIn(p.flags, 2) /\ FitsIn(p.id, 4) /\ FitsIn(p.timestamp, 8)
          /\ p.envelope \in Seq(Nat) /\ p.envelope # <<>>
      BY <2>1, <2>2
    <3>2. QED
      BY <3>1, ReflectedDecoded
  <2>8. PICK left : DecodeIncoming(EncodeByMediator(p)) =
                      Decoded([kind |-> "Reflected", flags |-> p.flags, id |-> p.id,
                               timestamp |-> p.timestamp, envelope |-> left])
    BY <2>3, <2>4 DEF DecodesWithHeader
  <2> DEFINE q == [kind |-> "Reflected", flags |-> p.flags, id |-> p.id,
                   timestamp |-> p.timestamp, envelope |-> left]
             none == [kind |-> "Reflected", flags |-> p.flags, id |-> p.id,
                      timestamp |-> p.timestamp, envelope |-> <<>>]
  <2>5. q.kind = p.kind /\ WithoutEnvelope(q) = WithoutEnvelope(p)
    <3>1. WithoutEnvelope(q) = none
      BY DEF WithoutEnvelope
    <3>2. WithoutEnvelope(p) = none
      <4>1. WithoutEnvelope([kind |-> "Reflected", flags |-> p.flags, id |-> p.id,
                             timestamp |-> p.timestamp, envelope |-> p.envelope]) = none
        BY DEF WithoutEnvelope
      <4>2. QED
        BY <2>1, <4>1
    <3>3. QED
      BY <2>1, <3>1, <3>2
  <2> HIDE DEF q
  <2>6. DecodeIncoming(EncodeByMediator(p)) = Decoded(q)
    BY <2>8 DEF q
  <2>7. QED
    BY <2>5, <2>6, DecodedFields DEF Decodable
<1>5. CASE /\ p \in [kind : DOMAIN FieldsOf, fields : Seq(Nat)]
           /\ Len(p.fields) = FieldsOf[p.kind]
  <2>1. /\ p = [kind |-> p.kind, fields |-> p.fields]
        /\ p.kind \in DOMAIN FieldsOf /\ p.fields \in Seq(Nat)
    BY <1>5
  <2>2. /\ p.kind \notin {"ServerHello", "ServerInfo", "Malformed", "UnknownPayload", "Proxy"}
        /\ p.kind \notin {"ReflectAck", "Reflected"}
    BY <2>1 DEF FieldsOf
  <2>3. EncodeByMediator(p) = Header(IncomingType[p.kind]) \o p.fields
    BY <2>2 DEF EncodeByMediator, Header
  <2>4. DecodeIncoming(EncodeByMediator(p)) = Decoded([kind |-> p.kind, fields |-> p.fields])
    BY <1>5, <2>1, <2>3, MessageDecoded
  <2>5. DecodeIncoming(EncodeByMediator(p)) = Decoded(p)
    BY <2>1, <2>4
  <2>6. QED
    BY <2>5, Unchanged
<1>6. CASE p \in [kind : PushedKinds, fields : Seq(Nat)] /\ WellFormed(p)
  <2>1. p.kind \in PushedKinds /\ PushedKinds \subseteq DOMAIN FieldsOf
    BY <1>6 DEF PushedKinds, FieldsOf
  <2>2. p \in [kind : DOMAIN FieldsOf, fields : Seq(Nat)]
    BY <1>6, <2>1
  <2>3. Len(p.fields) = FieldsOf[p.kind]
    BY <1>6, <2>1 DEF WellFormed
  <2>4. QED
    BY <1>5, <2>2, <2>3
<1>7. QED
  BY <1>1, <1>2, <1>3, <1>4, <1>5, <1>6 DEF Sendable, PushedPayloads

\* The answers of the mediator are sendable.
LEMMA AnswersSendable ==
    /\ \A payload \in Pushes : Sendable(payload)
    /\ Sendable(Reflected(1))
    /\ \A kind \in {"ReflectionQueueDry", "BeginTransactionAck", "CommitTransactionAck"} :
         Sendable(Empty(kind))
    /\ \A kind \in {"TransactionRejected", "TransactionEnded"} : Sendable(HeldBy(kind))
<1>1. \A payload \in Pushes : Sendable(payload)
  BY D2mAssumption DEF Sendable
<1>2. Sendable(Reflected(1))
  <2>1. Reflected(1) \in PushedPayloads
    BY DEF Reflected, PushedPayloads
  <2>2. FitsIn(0, 2) /\ FitsIn(1, 4) /\ FitsIn(3, 8)
    BY ByteFits
  <2>3. WellFormed(Reflected(1))
    BY <2>2 DEF WellFormed, Reflected, PushedKinds
  <2>4. QED
    BY <2>1, <2>3 DEF Sendable
<1>3. ASSUME NEW kind \in {"ReflectionQueueDry", "BeginTransactionAck", "CommitTransactionAck"}
      PROVE  Sendable(Empty(kind))
  BY DEF Sendable, Empty, FieldsOf
<1>4. ASSUME NEW kind \in {"TransactionRejected", "TransactionEnded"}
      PROVE  Sendable(HeldBy(kind))
  BY DEF Sendable, HeldBy, FieldsOf
<1>5. QED
  BY <1>1, <1>2, <1>3, <1>4

\* Nothing is known of a datagram that is none but that decoding it fails.
LEMMA MalformedFails ==
    ASSUME NEW d \in Malformed
    PROVE  /\ EncodeByMediator(MalformedPayload(d)) = d
           /\ DecodeIncoming(d).error # "none"
           /\ DecodeServerInfo(d).error # "none"
<1>1. EncodeByMediator(MalformedPayload(d)) = d
  BY DEF EncodeByMediator, MalformedPayload
<1>2. DecodeIncoming(d).error # "none"
  BY D2mAssumption
<1>3. DecodeServerInfo(d).error # "none"
  <2> DEFINE container == DecodeContainer(d)
             decoded == DecodedWith(DecodeProtobuf(1, container.reader), LAMBDA fields :
                                        [kind |-> "ServerInfo", queue |-> fields[1]])
  <2>1. DecodeServerInfo(d) = DecodeSpecific(18, container, decoded)
    BY DEF DecodeServerInfo, ServerInfoType
  <2> HIDE DEF decoded
  <2>2. CASE ~container.ok
    BY <2>1, <2>2 DEF DecodeSpecific, DecodingError
  <2>3. CASE container.value # 18
    BY <2>1, <2>3 DEF DecodeSpecific, DecodingError
  <2>4. CASE container.ok /\ container.value = 18
    <3>1. DecodeIncoming(d) = DecodeOfType(18, container.reader)
      BY <2>4 DEF DecodeIncoming
    <3>2. ~ \E k \in DOMAIN IncomingType : IncomingType[k] = 18
      BY DEF IncomingType
    <3>3. DecodeOfType(18, container.reader).error = "none"
      BY <3>2 DEF DecodeOfType, Decoded
    <3>4. QED
      BY <1>2, <3>1, <3>3
  <2>5. QED
    BY <2>2, <2>3, <2>4
<1>4. QED
  BY <1>1, <1>2, <1>3

-----------------------------------------------------------------------------
(* What taking a datagram leads to                                         *)

Hello(version) == [kind |-> "ServerHello", version |-> version]
Info == [kind |-> "ServerInfo", queue |-> 1]
IsMalformed(payload) == \E d \in Malformed : payload = MalformedPayload(d)

\* The payloads that are handed to the app.
HandedPayloads == {DecodeIncoming(d).payload : d \in DatagramsToClient}

Aborts(next) == \E error : error # "none" /\ next = Abort(error)

Greets(next, version) ==
    \E chosen \in MinVersion .. MaxVersion :
      /\ chosen <= version
      /\ next = Advance("AwaitingServerInfo",
                        [NoInstruction EXCEPT !.update = "AwaitingServerInfo",
                                              !.datagrams = <<EncodeClientHello(chosen)>>])

Opens(next) == next = Advance("PostHandshake", [NoInstruction EXCEPT !.update = "PostHandshake"])

\* What is handed out is what was sent, but for the envelope.
HandedFor(handed, payload) ==
    /\ handed \in HandedPayloads
    /\ handed.kind = payload.kind
    /\ WithoutEnvelope(handed) = WithoutEnvelope(payload)

HandsOut(next, payload) ==
    \E handed : /\ HandedFor(handed, payload)
                /\ next = Advance("PostHandshake", [NoInstruction EXCEPT !.payloads = <<handed>>])

LEMMA PollsAre ==
    ASSUME NEW d \in DatagramsToClient
    PROVE  /\ PollDatagram.AwaitingServerHello[d] = PollAwaitingServerHello(d)
           /\ PollDatagram.AwaitingServerInfo[d] = PollAwaitingServerInfo(d)
           /\ PollDatagram.PostHandshake[d] = PollPostHandshake(d)
BY DEF PollDatagram

LEMMA PollHello ==
    ASSUME NEW version \in ServerVersions
    PROVE  LET next == PollDatagram.AwaitingServerHello[EncodeByMediator(Hello(version))]
           IN Aborts(next) \/ Greets(next, version)
<1> DEFINE d == EncodeByMediator(Hello(version))
           next == PollAwaitingServerHello(d)
           chosen == IF version < MaxVersion THEN version ELSE MaxVersion
<1>1. version \in Nat /\ MinVersion \in Nat /\ MaxVersion \in Nat /\ MinVersion <= MaxVersion
  BY D2mAssumption
<1>2. DecodeServerHello(d) = Decoded(Hello(version))
  BY <1>1, ServerHelloDecoded DEF Hello
<1>3. d \in DatagramsToClient
  BY DEF Hello, DatagramsToClient, PayloadsToClient
<1>4. PollDatagram.AwaitingServerHello[d] = next
  BY <1>3, PollsAre
<1>5. DecodeServerHello(d).error = "none" /\ DecodeServerHello(d).payload.version = version
  BY <1>2, DecodedFields DEF Hello
<1> HIDE DEF d
<1>6. CASE version < MinVersion
  <2>1. next = Abort("UnsupportedVersion")
    BY <1>5, <1>6 DEF PollAwaitingServerHello
  <2>2. Aborts(next)
    BY <2>1 DEF Aborts
  <2>3. QED
    BY <1>4, <2>2 DEF d
<1>7. CASE ~(version < MinVersion)
  <2>1. next = Advance("AwaitingServerInfo",
                       [NoInstruction EXCEPT !.update = "AwaitingServerInfo",
                                             !.datagrams = <<EncodeClientHello(chosen)>>])
    BY <1>5, <1>7 DEF PollAwaitingServerHello
  <2>2. chosen \in MinVersion .. MaxVersion /\ chosen <= version
    BY <1>1, <1>7
  <2> HIDE DEF next, chosen
  <2>3. Greets(next, version)
    BY <2>1, <2>2 DEF Greets
  <2>4. QED
    BY <1>4, <2>3 DEF d
<1>8. QED
  BY <1>6, <1>7

LEMMA PollInfo ==
    ASSUME NEW payload, payload = Info \/ IsMalformed(payload)
    PROVE  LET next == PollDatagram.AwaitingServerInfo[EncodeByMediator(payload)]
           IN IF payload = Info THEN Opens(next) ELSE Aborts(next)
<1> DEFINE d == EncodeByMediator(payload)
           next == PollDatagram.AwaitingServerInfo[d]
<1>1. payload \in PayloadsToClient
  BY DEF Info, IsMalformed, PayloadsToClient
<1>2. d \in DatagramsToClient
  BY <1>1 DEF DatagramsToClient
<1>3. next = PollAwaitingServerInfo(d)
  BY <1>2, PollsAre
<1>4. CASE payload = Info
  <2>1. DecodeServerInfo(d).error = "none"
    BY <1>4, ServerInfoDecoded DEF Info
  <2> HIDE DEF d
  <2>2. Opens(PollAwaitingServerInfo(d))
    BY <2>1 DEF PollAwaitingServerInfo, Opens
  <2>3. QED
    BY <1>3, <1>4, <2>2 DEF d
<1>5. CASE payload # Info
  <2>1. PICK m \in Malformed : payload = MalformedPayload(m)
    BY <1>5 DEF IsMalformed
  <2>2. d = m /\ DecodeServerInfo(m).error # "none"
    BY <2>1, MalformedFails
  <2> HIDE DEF d
  <2>3. Aborts(PollAwaitingServerInfo(d))
    BY <2>2 DEF PollAwaitingServerInfo, Aborts
  <2>4. QED
    BY <1>3, <1>5, <2>3 DEF d
<1>6. QED
  BY <1>4, <1>5

LEMMA PollLater ==
    ASSUME NEW payload \in PayloadsToClient, Sendable(payload) \/ IsMalformed(payload)
    PROVE  LET next == PollDatagram.PostHandshake[EncodeByMediator(payload)]
           IN Aborts(next) \/ HandsOut(next, payload)
<1> DEFINE d == EncodeByMediator(payload)
           next == PollDatagram.PostHandshake[d]
           handed == DecodeIncoming(d).payload
<1>1. d \in DatagramsToClient
  BY DEF DatagramsToClient
<1>2. next = PollPostHandshake(d)
  BY <1>1, PollsAre
<1>3. handed \in HandedPayloads
  BY <1>1 DEF HandedPayloads
<1>4. CASE Sendable(payload)
  <2>1. Decodable(payload)
    BY <1>4, SendableDecoded
  <2>2. DecodeIncoming(d).error = "none" /\ HandedFor(handed, payload)
    BY <1>3, <2>1 DEF Decodable, HandedFor
  <2> HIDE DEF d
  <2>3. PollPostHandshake(d) =
            Advance("PostHandshake", [NoInstruction EXCEPT !.payloads = <<handed>>])
    BY <2>2 DEF PollPostHandshake
  <2> HIDE DEF handed
  <2>4. HandsOut(PollPostHandshake(d), payload)
    BY <2>2, <2>3 DEF HandsOut
  <2>5. QED
    BY <1>2, <2>4 DEF d
<1>5. CASE IsMalformed(payload)
  <2>1. PICK m \in Malformed : payload = MalformedPayload(m)
    BY <1>5 DEF IsMalformed
  <2>2. d = m /\ DecodeIncoming(m).error # "none"
    BY <2>1, MalformedFails
  <2> HIDE DEF d
  <2>3. Aborts(PollPostHandshake(d))
    BY <2>2 DEF PollPostHandshake, Aborts
  <2>4. QED
    BY <1>2, <2>3 DEF d
<1>6. QED
  BY <1>4, <1>5

-----------------------------------------------------------------------------
(* What the mediator decodes                                               *)

\* What is smaller fits as well.
LEMMA FitsBelow ==
    ASSUME NEW value, NEW length \in Nat \ {0}, FitsIn(value, length), NEW less \in 0 .. value
    PROVE  FitsIn(less, length)
<1> DEFINE most == Rest(value, length)
           rest == Rest(less, length)
           S == {k \in 0 .. length - 1 : rest[k + 1] <= most[k + 1]}
<1>0. value \in Nat /\ less \in Nat /\ less <= value /\ most[length] < 256
  BY DEF FitsIn
<1>1. /\ \A i \in 1 .. length : most[i] \in Nat
      /\ most[1] = value
      /\ \A i \in 2 .. length : most[i] = most[i - 1] \div 256
  BY <1>0, RestValues
<1>2. /\ \A i \in 1 .. length : rest[i] \in Nat
      /\ rest[1] = less
      /\ \A i \in 2 .. length : rest[i] = rest[i - 1] \div 256
  BY <1>0, RestValues
<1> HIDE DEF most, rest
<1>3. 0 \in S
  BY <1>0, <1>1, <1>2
<1>4. ASSUME NEW k \in 0 .. (length - 1) - 1, k \in S
      PROVE  k + 1 \in S
  <2>1. /\ rest[k + 2] = rest[k + 1] \div 256 /\ most[k + 2] = most[k + 1] \div 256
        /\ rest[k + 1] <= most[k + 1] /\ rest[k + 1] \in Nat /\ most[k + 1] \in Nat
    BY <1>1, <1>2, <1>4
  <2>2. \A x, y \in Nat : x <= y => x \div 256 <= y \div 256
    OBVIOUS
  <2>3. rest[k + 2] <= most[k + 2]
    BY <2>1, <2>2
  <2>4. QED
    BY <2>3
<1> HIDE DEF S
<1>5. length - 1 \in S
  BY <1>3, <1>4, UpTo, 0 .. length - 1 \subseteq S
<1>6. rest[length] < 256
  <2>1. rest[length] <= most[length] /\ rest[length] \in Nat /\ most[length] \in Nat
    BY <1>1, <1>2, <1>5 DEF S
  <2>2. QED
    BY <1>0, <2>1
<1>7. QED
  BY <1>0, <1>6 DEF FitsIn, rest

\* The mediator decodes the type and the body of a datagram.
IsDatagram(datagram, type, body) == datagram = Header(type) \o body

LEMMA RequestBody ==
    ASSUME NEW type \in Nat, NEW body \in Seq(Nat), NEW datagram, IsDatagram(datagram, type, body)
    PROVE  DecodeByMediator(datagram) = DecodeRequest(type, body)
<1>1. datagram[1] = type /\ SubSeq(datagram, 5, Len(datagram)) = body
  BY ContainerDecoded DEF IsDatagram
<1>2. QED
  BY <1>1 DEF DecodeByMediator

LEMMA OnePartBody ==
    ASSUME NEW type \in Nat, NEW body \in Seq(Nat)
    PROVE  DecodeByMediator(EncodeToDatagram(type, <<body>>)) = DecodeRequest(type, body)
<1>1. IsDatagram(EncodeToDatagram(type, <<body>>), type, body)
  BY OnePart DEF IsDatagram
<1>2. QED
  BY <1>1, RequestBody

\* No two kinds of payload have one type.
LEMMA KindOfOutgoing ==
    \A kind \in DOMAIN OutgoingType : KindOfRequest(OutgoingType[kind]) = kind
<1> TAKE kind \in DOMAIN OutgoingType
<1>1. \A k \in DOMAIN OutgoingType : OutgoingType[k] = OutgoingType[kind] => k = kind
  BY DEF OutgoingType
<1>2. QED
  BY <1>1 DEF KindOfRequest

LEMMA KindsOfRequests ==
    /\ KindOfRequest(64) = "BeginTransaction"
    /\ KindOfRequest(66) = "CommitTransaction"
    /\ KindOfRequest(128) = "Reflect"
<1>1. /\ "BeginTransaction" \in DOMAIN OutgoingType /\ OutgoingType["BeginTransaction"] = 64
      /\ "CommitTransaction" \in DOMAIN OutgoingType /\ OutgoingType["CommitTransaction"] = 66
      /\ "Reflect" \in DOMAIN OutgoingType /\ OutgoingType["Reflect"] = 128
  BY DEF OutgoingType
<1>2. QED
  BY <1>1, KindOfOutgoing

LEMMA ClientHelloReceived ==
    ASSUME NEW version \in Nat
    PROVE  DecodeByMediator(EncodeClientHello(version)) =
               [kind |-> "ClientHello", version |-> version]
<1> DEFINE body == <<version>>
<1>1. body \in Seq(Nat) /\ body[1] = version /\ 17 \in Nat
  OBVIOUS
<1> HIDE DEF body
<1>2. EncodeClientHello(version) = EncodeToDatagram(17, <<body>>)
  BY DEF EncodeClientHello, ClientHelloType, body
<1>3. DecodeByMediator(EncodeClientHello(version)) = DecodeRequest(17, body)
  BY <1>1, <1>2, OnePartBody
<1>4. DecodeRequest(17, body) = [kind |-> "ClientHello", version |-> version]
  BY <1>1 DEF DecodeRequest
<1>5. QED
  BY <1>3, <1>4

LEMMA ProxiedReceived == DecodeByMediator(EncodeOutgoing(Proxied)) = Proxied
<1> DEFINE body == <<7>>
<1>1. body \in Seq(Nat) /\ 0 \in Nat
  OBVIOUS
<1>2. EncodeOutgoing(Proxied) = EncodeToDatagram(0, <<body>>)
  BY DEF EncodeOutgoing, Proxied, OutgoingType
<1>3. Proxied = [kind |-> "Proxy", data |-> body]
  BY DEF Proxied
<1> HIDE DEF body
<1>4. DecodeByMediator(EncodeOutgoing(Proxied)) = DecodeRequest(0, body)
  BY <1>1, <1>2, OnePartBody
<1>5. DecodeRequest(0, body) = [kind |-> "Proxy", data |-> body]
  BY DEF DecodeRequest
<1>6. QED
  BY <1>3, <1>4, <1>5

LEMMA CommitReceived == DecodeByMediator(EncodeOutgoing(CommitTransaction)) = CommitTransaction
<1> DEFINE body == <<>>
<1>1. body \in Seq(Nat) /\ 66 \in Nat
  OBVIOUS
<1>2. EncodeOutgoing(CommitTransaction) = EncodeToDatagram(66, <<body>>)
  BY DEF EncodeOutgoing, CommitTransaction, OutgoingType
<1>3. CommitTransaction = [kind |-> "CommitTransaction", fields |-> body]
  BY DEF CommitTransaction
<1> HIDE DEF body
<1>4. DecodeByMediator(EncodeOutgoing(CommitTransaction)) = DecodeRequest(66, body)
  BY <1>1, <1>2, OnePartBody
<1>5. DecodeRequest(66, body) = [kind |-> KindOfRequest(66), fields |-> body]
  BY DEF DecodeRequest
<1>6. QED
  BY <1>3, <1>4, <1>5, KindsOfRequests

LEMMA BeginReceived == DecodeByMediator(EncodeOutgoing(BeginTransaction)) = BeginTransaction
<1> DEFINE a == <<1>>
           b == <<0>>
           head == Header(64)
           body == a \o b
           datagram == EncodeToDatagram(64, <<a, b>>)
<1>1. a \in Seq(Nat) /\ b \in Seq(Nat) /\ 64 \in Nat
  OBVIOUS
<1>2. body[1] = 1 /\ body[2] = 0
  OBVIOUS
<1>3. EncodeOutgoing(BeginTransaction) = datagram
  BY DEF EncodeOutgoing, EncodeBeginTransaction, BeginTransaction, Scope, OutgoingType
<1> HIDE DEF a, b
<1>4. IsDatagram(datagram, 64, body)
  <2>1. datagram = (Header(64) \o a) \o b
    BY <1>1, TwoParts
  <2>2. head \in Seq(Nat)
    BY <1>1, HeaderType
  <2> HIDE DEF head
  <2>3. (head \o a) \o b = head \o (a \o b)
    BY <1>1, <2>2, Associative
  <2>4. QED
    BY <2>1, <2>3 DEF head, IsDatagram
<1>5. body \in Seq(Nat)
  BY <1>1, Concatenation
<1> HIDE DEF body, datagram
<1>6. DecodeByMediator(datagram) = DecodeRequest(64, body)
  BY <1>1, <1>4, <1>5, RequestBody
<1>7. DecodeRequest(64, body) =
          [kind |-> KindOfRequest(64), scope |-> <<body[1]>>, ttl |-> body[2]]
  BY DEF DecodeRequest
<1>8. QED
  BY <1>2, <1>3, <1>6, <1>7, KindsOfRequests DEF BeginTransaction, Scope

\* What is reflected, in the order it is written.
Grouped(s, t, u) == (s \o t) \o u = s \o (t \o u)

LEMMA AllGrouped == \A S : \A s, t, u \in Seq(S) : Grouped(s, t, u)
BY ConcatAssociative DEF Grouped

LEMMA AllJoined == \A s, t \in Seq(Nat) : s \o t \in Seq(Nat)
BY Concatenation

Regrouped(head, z, f, i, e) ==
    LET body == ((z \o f) \o i) \o e
    IN /\ (((head \o z) \o f) \o i) \o e = head \o body
       /\ body = z \o (f \o (i \o e))
       /\ body = (z \o f) \o (i \o e)
       /\ body \in Seq(Nat)

FivePartsOf(type, a, b, c, d, e) ==
    EncodeToDatagram(type, <<a, b, c, d, e>>) = ((((Header(type) \o a) \o b) \o c) \o d) \o e

LEMMA AllFiveParts ==
    \A type \in Nat : \A a, b, c, d, e \in Seq(Nat) : FivePartsOf(type, a, b, c, d, e)
BY FiveParts DEF FivePartsOf

LEMMA ReflectBytes ==
    ASSUME NEW head, NEW z, NEW f, NEW i, NEW e,
           {head, z, f, i, e} \subseteq Seq(Nat)
    PROVE  Regrouped(head, z, f, i, e)
<1>1. {head, z, f, i, e, z \o f, (z \o f) \o i, i \o e, ((z \o f) \o i) \o e} \subseteq Seq(Nat)
  <2>1. z \o f \in Seq(Nat) /\ i \o e \in Seq(Nat)
    BY AllJoined, Zenon
  <2>2. (z \o f) \o i \in Seq(Nat)
    BY <2>1, AllJoined, Zenon
  <2>3. ((z \o f) \o i) \o e \in Seq(Nat)
    BY <2>2, AllJoined, Zenon
  <2>4. QED
    BY <2>1, <2>2, <2>3, Zenon
<1>2. /\ Grouped(head, z, f) /\ Grouped(head, z \o f, i) /\ Grouped(head, (z \o f) \o i, e)
      /\ Grouped(z \o f, i, e) /\ Grouped(z, f, i \o e)
  BY <1>1, AllGrouped, Zenon
<1>3. (((head \o z) \o f) \o i) \o e = head \o (((z \o f) \o i) \o e)
  BY <1>2, Zenon DEF Grouped
<1>4. ((z \o f) \o i) \o e = (z \o f) \o (i \o e)
  BY <1>2, Zenon DEF Grouped
<1>5. (z \o f) \o (i \o e) = z \o (f \o (i \o e))
  BY <1>2, Zenon DEF Grouped
<1>6. QED
  BY <1>1, <1>3, <1>4, <1>5, Zenon DEF Regrouped

LEMMA ReflectReceived ==
    ASSUME NEW id, FitsIn(id, 4)
    PROVE  DecodeByMediator(EncodeOutgoing(Reflect(id))) = Reflect(id)
<1> DEFINE a == <<8>>
           b == <<0>>
           f == ToLe(1, 2)
           i == ToLe(id, 4)
           e == <<5, 6>>
           z == a \o b
           body == ((z \o f) \o i) \o e
           datagram == EncodeToDatagram(128, <<a, b, f, i, e>>)
<1>0. /\ 2 \in Nat \ {0} /\ 4 \in Nat \ {0} /\ 128 \in Nat /\ 1 \in Nat /\ id \in Nat
      /\ 2 + 1 = 3 /\ 2 + 2 = 4 /\ 4 + 1 = 5 /\ 4 + 4 = 8 /\ 8 + 1 = 9 /\ 8 + 2 = 10
  BY DEF FitsIn
<1>1. a \in Seq(Nat) /\ b \in Seq(Nat) /\ e \in Bytes(2) /\ z \in Bytes(2) /\ z[1] = 8
  BY DEF Bytes
<1>2. f \in Bytes(2) /\ i \in Bytes(4)
  BY <1>0, IntegerBytes
<1>3. FromLe(f) = 1 /\ FromLe(i) = id
  <2>1. FitsIn(1, 2)
    BY ByteFits
  <2>2. QED
    BY <1>0, <2>1, IntegerSurvives
<1>4. EncodeOutgoing(Reflect(id)) = datagram
  BY DEF EncodeOutgoing, EncodeReflect, Reflect, OutgoingType, ReflectHeaderLength,
         EphemeralMarker
<1>5. Reflect(id) = [kind |-> "Reflect", flags |-> 1, id |-> id, envelope |-> e]
  BY DEF Reflect, EphemeralMarker
<1> HIDE DEF f, i, e
<1>6. f \in Seq(Nat) /\ i \in Seq(Nat) /\ e \in Seq(Nat) /\ z \in Seq(Nat)
  BY <1>1, <1>2, BytesAreNumbers
<1> DEFINE head == Header(128)
<1>7. head \in Seq(Nat) /\ (head \o a) \o b = head \o z
  <2>1. head \in Seq(Nat)
    BY <1>0, HeaderType
  <2> HIDE DEF head
  <2>2. head \in Seq(Nat) /\ a \in Seq(Nat) /\ b \in Seq(Nat)
    BY <1>1, <2>1
  <2> HIDE DEF a, b
  <2>3. (head \o a) \o b = head \o (a \o b)
    BY <2>2, Associative
  <2>4. QED
    BY <2>1, <2>3
<1> HIDE DEF a, b
<1>8. datagram = ((((head \o a) \o b) \o f) \o i) \o e
  <2>1. /\ 128 \in Nat /\ a \in Seq(Nat) /\ b \in Seq(Nat) /\ f \in Seq(Nat) /\ i \in Seq(Nat)
        /\ e \in Seq(Nat)
    BY <1>0, <1>1, <1>6
  <2>2. FivePartsOf(128, a, b, f, i, e)
    BY <2>1, AllFiveParts, Zenon
  <2>3. QED
    BY <2>2, Zenon DEF FivePartsOf
<1> HIDE DEF head, datagram
<1>9. /\ (((head \o z) \o f) \o i) \o e = head \o body
      /\ body = z \o (f \o (i \o e))
      /\ body = (z \o f) \o (i \o e)
      /\ body \in Seq(Nat)
  <2> HIDE DEF z
  <2>1. {head, z, f, i, e} \subseteq Seq(Nat)
    BY <1>6, <1>7, Zenon
  <2>2. Regrouped(head, z, f, i, e)
    BY <2>1, ReflectBytes, Zenon
  <2>3. QED
    BY <2>2, Zenon DEF Regrouped
<1> HIDE DEF z
<1>10. IsDatagram(datagram, 128, body)
  BY <1>7, <1>8, <1>9 DEF IsDatagram, head
<1>11. i \o e \in Seq(Nat) /\ f \o (i \o e) \in Seq(Nat)
  <2>1. i \o e \in Seq(Nat)
    BY <1>6, Concatenation
  <2>2. QED
    BY <1>6, <2>1, Concatenation
<1>12. z \o f \in Bytes(4)
  <2>1. z \o f \in Bytes(2 + 2)
    BY <1>1, <1>2, Joined
  <2>2. QED
    BY <1>0, <2>1
<1>13. (z \o f) \o i \in Bytes(8)
  <2>1. (z \o f) \o i \in Bytes(4 + 4)
    BY <1>2, <1>12, Joined
  <2>2. QED
    BY <1>0, <2>1
<1>14. SubSeq(body, 3, 4) = f
  <2>1. SubSeq(z \o (f \o (i \o e)), 2 + 1, 2 + 2) = f
    <3> DEFINE rear == i \o e
    <3>1. z \in Bytes(2) /\ f \in Bytes(2) /\ rear \in Seq(Nat)
      BY <1>1, <1>2, <1>11
    <3> HIDE DEF rear
    <3>2. SubSeq(z \o (f \o rear), 2 + 1, 2 + 2) = f
      BY <3>1, PieceAt, Zenon
    <3>3. QED
      BY <3>2 DEF rear
  <2>2. QED
    BY <1>0, <1>9, <2>1
<1>15. SubSeq(body, 5, 8) = i
  <2>1. SubSeq((z \o f) \o (i \o e), 4 + 1, 4 + 4) = i
    <3> DEFINE front == z \o f
    <3>1. front \in Bytes(4) /\ i \in Bytes(4) /\ e \in Seq(Nat)
      BY <1>2, <1>6, <1>12
    <3> HIDE DEF front
    <3>2. SubSeq(front \o (i \o e), 4 + 1, 4 + 4) = i
      BY <3>1, PieceAt, Zenon
    <3>3. QED
      BY <3>2 DEF front
  <2>2. QED
    BY <1>0, <1>9, <2>1
<1>16. SubSeq(body, 9, Len(body)) = e
  <2> DEFINE front == (z \o f) \o i
  <2>1. front \in Bytes(8) /\ e \in Bytes(2)
    BY <1>1, <1>13
  <2> HIDE DEF front
  <2>2. SubSeq(front \o e, 8 + 1, 8 + 2) = e
    BY <2>1, LastPieceAt
  <2>3. front \o e \in Bytes(8 + 2)
    BY <2>1, Joined
  <2>4. Len(front \o e) = 8 + 2
    BY <2>3 DEF Bytes
  <2>5. QED
    BY <1>0, <2>2, <2>4 DEF front
<1>17. body[1] = 8
  <2> DEFINE rest == f \o (i \o e)
  <2>1. z \in Seq(Nat) /\ Len(z) = 2 /\ rest \in Seq(Nat)
    BY <1>1, <1>11 DEF Bytes
  <2>2. Len(rest) \in Nat
    BY <2>1, LenProperties
  <2> HIDE DEF rest
  <2>3. 1 \in 1 .. Len(z) + Len(rest) /\ 1 <= Len(z)
    BY <2>1, <2>2
  <2>4. (z \o rest)[1] = z[1]
    BY <2>1, <2>3, ConcatProperties
  <2>5. QED
    BY <1>1, <1>9, <2>4 DEF rest
<1> HIDE DEF body
<1>18. DecodeByMediator(datagram) = DecodeRequest(128, body)
  BY <1>0, <1>9, <1>10, RequestBody
<1>19. DecodeRequest(128, body) =
          [kind |-> KindOfRequest(128), flags |-> FromLe(SubSeq(body, 3, 4)),
           id |-> FromLe(SubSeq(body, 5, 8)),
           envelope |-> SubSeq(body, body[1] + 1, Len(body))]
  BY DEF DecodeRequest
<1>20. body[1] + 1 = 9
  BY <1>0, <1>17
<1>21. DecodeRequest(128, body) = [kind |-> "Reflect", flags |-> 1, id |-> id, envelope |-> e]
  BY <1>3, <1>14, <1>15, <1>16, <1>19, <1>20, KindsOfRequests
<1>22. QED
  BY <1>4, <1>5, <1>18, <1>21

\* What the client sends decodes to what it was made from.
LEMMA RequestsDecoded ==
    /\ \A payload \in PayloadsFromClient : RequestOf[DatagramOf[payload]] = payload
    /\ \A version \in MinVersion .. MaxVersion :
         RequestOf[EncodeClientHello(version)] = [kind |-> "ClientHello", version |-> version]
<1>1. ASSUME NEW payload \in PayloadsFromClient
      PROVE  RequestOf[DatagramOf[payload]] = payload
  <2>1. DatagramOf[payload] = EncodeOutgoing(payload)
    BY DEF DatagramOf
  <2>2. DecodeByMediator(EncodeOutgoing(payload)) = payload
    <3>1. CASE payload = Proxied
      BY <3>1, ProxiedReceived
    <3>2. CASE payload = BeginTransaction
      BY <3>2, BeginReceived
    <3>3. CASE payload = CommitTransaction
      BY <3>3, CommitReceived
    <3>4. ASSUME NEW id \in 1 .. MaxReflectId, payload = Reflect(id)
          PROVE  DecodeByMediator(EncodeOutgoing(payload)) = payload
      <4>1. FitsIn(MaxReflectId, 4) /\ 4 \in Nat \ {0} /\ id \in 0 .. MaxReflectId
        BY D2mAssumption
      <4>2. FitsIn(id, 4)
        BY <4>1, FitsBelow
      <4>3. QED
        BY <3>4, <4>2, ReflectReceived
    <3>5. QED
      BY <3>1, <3>2, <3>3, <3>4 DEF PayloadsFromClient
  <2>3. RequestOf[DatagramOf[payload]] = DecodeByMediator(DatagramOf[payload])
    BY DEF RequestOf
  <2>4. QED
    BY <2>1, <2>2, <2>3
<1>2. ASSUME NEW version \in MinVersion .. MaxVersion
      PROVE  RequestOf[EncodeClientHello(version)] = [kind |-> "ClientHello", version |-> version]
  <2>1. version \in Nat
    BY D2mAssumption
  <2>2. RequestOf[EncodeClientHello(version)] = DecodeByMediator(EncodeClientHello(version))
    BY DEF RequestOf
  <2>3. QED
    BY <2>1, <2>2, ClientHelloReceived
<1>3. QED
  BY <1>1, <1>2

-----------------------------------------------------------------------------
(* What is on its way                                                      *)

\* The stream holds what was sent, from a place on.
Follows(stream, from, s) ==
    /\ from + Len(stream) = Len(s)
    /\ \A i \in 1 .. Len(stream) : stream[i] = EncodeByMediator(s[from + i])

LEMMA TailOfJoined ==
    ASSUME NEW S, NEW s \in Seq(S), NEW t \in Seq(S), s # <<>>
    PROVE  Tail(s \o t) = Tail(s) \o t /\ Head(s \o t) = Head(s)
<1> DEFINE st == s \o t
<1>1. Len(s) \in Nat /\ Len(t) \in Nat /\ Len(s) > 0
  BY EmptySeq, LenProperties
<1>2. /\ st \in Seq(S) /\ Len(st) = Len(s) + Len(t)
      /\ \A i \in 1 .. Len(s) + Len(t) : st[i] = IF i <= Len(s) THEN s[i] ELSE t[i - Len(s)]
  BY ConcatProperties
<1> HIDE DEF st
<1>3. st # <<>>
  BY <1>1, <1>2
<1>4. /\ Tail(st) \in Seq(S) /\ Len(Tail(st)) = Len(st) - 1
      /\ \A i \in 1 .. Len(Tail(st)) : Tail(st)[i] = st[i + 1]
  BY <1>2, <1>3, HeadTailProperties
<1>5. /\ Tail(s) \in Seq(S) /\ Len(Tail(s)) = Len(s) - 1
      /\ \A i \in 1 .. Len(Tail(s)) : Tail(s)[i] = s[i + 1]
  BY HeadTailProperties
<1> DEFINE ts == Tail(s)
           front == Tail(st)
           back == ts \o t
<1>6. /\ back \in Seq(S) /\ Len(back) = Len(ts) + Len(t)
      /\ \A i \in 1 .. Len(ts) + Len(t) :
           back[i] = IF i <= Len(ts) THEN ts[i] ELSE t[i - Len(ts)]
  BY <1>5, ConcatProperties
<1>7. front \in Seq(S) /\ Len(front) = Len(s) + Len(t) - 1 /\ Len(ts) = Len(s) - 1
  BY <1>2, <1>4, <1>5
<1>8. ASSUME NEW i \in 1 .. Len(front)
      PROVE  front[i] = back[i]
  <2>1. front[i] = st[i + 1] /\ i + 1 \in 1 .. Len(s) + Len(t)
    BY <1>1, <1>2, <1>4, <1>7
  <2>2. CASE i <= Len(ts)
    <3>1. back[i] = ts[i] /\ ts[i] = s[i + 1] /\ i + 1 <= Len(s)
      BY <1>1, <1>5, <1>6, <1>7, <2>2
    <3>2. QED
      BY <1>2, <2>1, <3>1
  <2>3. CASE ~(i <= Len(ts))
    <3>1. back[i] = t[i - Len(ts)] /\ ~(i + 1 <= Len(s))
      BY <1>1, <1>6, <1>7, <2>3
    <3>2. st[i + 1] = t[i + 1 - Len(s)] /\ i - Len(ts) = i + 1 - Len(s)
      BY <1>1, <1>2, <1>7, <2>1, <3>1
    <3>3. QED
      BY <2>1, <3>1, <3>2
  <2>4. QED
    BY <2>2, <2>3
<1>9. Len(front) = Len(back)
  BY <1>1, <1>6, <1>7
<1> HIDE DEF front, back, ts
<1>10. front = back
  BY <1>6, <1>7, <1>8, <1>9, SeqEqual
<1>11. Head(st) = Head(s)
  <2>1. Head(st) = st[1] /\ Head(s) = s[1]
    OBVIOUS
  <2>2. st[1] = s[1]
    BY <1>1, <1>2
  <2>3. QED
    BY <2>1, <2>2
<1>12. QED
  BY <1>10, <1>11 DEF front, back, ts, st

\* Some are moved from one end of a place to the other.
AllMoved(S, s, t, n) ==
    /\ SubSeq(t, 1, n) \in Seq(S) /\ SubSeq(t, n + 1, Len(t)) \in Seq(S)
    /\ SubSeq(t, 1, n) # <<>>
    /\ (s \o SubSeq(t, 1, n)) \o SubSeq(t, n + 1, Len(t)) = s \o t

LEMMA Moved ==
    ASSUME NEW S, NEW s \in Seq(S), NEW t \in Seq(S), NEW n \in 1 .. Len(t)
    PROVE  AllMoved(S, s, t, n)
<1> DEFINE a == SubSeq(t, 1, n)
           b == SubSeq(t, n + 1, Len(t))
<1>1. Len(t) \in Nat /\ n \in Nat /\ n >= 1 /\ n <= Len(t)
  BY LenProperties
<1>2. \A i \in 1 .. Len(t) : t[i] \in S
  BY ElementOfSeq
<1>3. a \in Seq(S) /\ Len(a) = n
  <2>1. \A i \in 1 .. n : t[i] \in S
    BY <1>1, <1>2
  <2>2. a \in Seq(S) /\ Len(a) = IF 1 <= n THEN n - 1 + 1 ELSE 0
    BY <1>1, <2>1, SubSeqProperties
  <2>3. QED
    BY <1>1, <2>2
<1>4. b \in Seq(S)
  <2>1. \A i \in n + 1 .. Len(t) : t[i] \in S
    BY <1>1, <1>2
  <2>2. n + 1 \in Int /\ Len(t) \in Int
    BY <1>1
  <2>3. QED
    BY <2>1, <2>2, SubSeqProperties
<1>5. a \o b = t
  <2>1. 1 \in 1 .. Len(t) + 1 /\ n \in 1 - 1 .. Len(t) /\ Len(t) \in n .. Len(t)
    BY <1>1
  <2>2. a \o b = SubSeq(t, 1, Len(t))
    BY <2>1, ConcatAdjacentSubSeq
  <2>3. QED
    BY <2>2, SubSeqFull
<1> HIDE DEF a, b
<1>6. (s \o a) \o b = s \o (a \o b)
  <2>1. Grouped(s, a, b)
    BY <1>3, <1>4, AllGrouped, Zenon
  <2>2. QED
    BY <2>1, Zenon DEF Grouped
<1>7. a # <<>>
  BY <1>1, <1>3
<1>8. QED
  BY <1>3, <1>4, <1>5, <1>6, <1>7 DEF a, b, AllMoved

\* The first one is taken.
LEMMA FollowsTaken ==
    ASSUME NEW S, NEW stream \in Seq(S), NEW s, Len(s) \in Nat, NEW from \in Nat,
           Follows(stream, from, s), stream # <<>>
    PROVE  /\ Head(stream) = EncodeByMediator(s[from + 1])
           /\ from + 1 <= Len(s)
           /\ Follows(Tail(stream), from + 1, s)
<1> DEFINE rest == Tail(stream)
<1>1. Len(stream) \in Nat /\ Len(stream) > 0
  BY EmptySeq
<1>2. /\ rest \in Seq(S) /\ Len(rest) = Len(stream) - 1
      /\ \A i \in 1 .. Len(rest) : rest[i] = stream[i + 1]
  BY HeadTailProperties
<1>3. Head(stream) = stream[1]
  OBVIOUS
<1> HIDE DEF rest
<1>4. /\ from + Len(stream) = Len(s)
      /\ \A i \in 1 .. Len(stream) : stream[i] = EncodeByMediator(s[from + i])
  BY DEF Follows
<1>5. Head(stream) = EncodeByMediator(s[from + 1])
  BY <1>1, <1>3, <1>4
<1>6. ASSUME NEW i \in 1 .. Len(rest)
      PROVE  rest[i] = EncodeByMediator(s[(from + 1) + i])
  <2>1. i + 1 \in 1 .. Len(stream) /\ from + (i + 1) = (from + 1) + i
    BY <1>1, <1>2
  <2>2. rest[i] = stream[i + 1]
    BY <1>2
  <2>3. stream[i + 1] = EncodeByMediator(s[from + (i + 1)])
    BY <1>4, <2>1
  <2>4. QED
    BY <2>1, <2>2, <2>3
<1>7. (from + 1) + Len(rest) = Len(s) /\ from + 1 <= Len(s)
  BY <1>1, <1>2, <1>4
<1>8. Follows(rest, from + 1, s)
  BY <1>6, <1>7 DEF Follows
<1>9. QED
  BY <1>5, <1>7, <1>8 DEF rest

\* More is sent.
LEMMA FollowsSent ==
    ASSUME NEW S, NEW stream \in Seq(S), NEW T, NEW s \in Seq(T), NEW more \in Seq(T),
           NEW new \in Seq(S), new = [i \in DOMAIN more |-> EncodeByMediator(more[i])],
           NEW from \in Nat, Follows(stream, from, s)
    PROVE  Follows(stream \o new, from, s \o more)
<1> DEFINE all == s \o more
           longer == stream \o new
<1>1. Len(stream) \in Nat /\ Len(s) \in Nat /\ Len(more) \in Nat /\ DOMAIN more = 1 .. Len(more)
  BY LenProperties
<1>2. Len(new) = Len(more) /\ \A i \in 1 .. Len(more) : new[i] = EncodeByMediator(more[i])
  <2>1. DOMAIN new = 1 .. Len(more) /\ DOMAIN new = 1 .. Len(new) /\ Len(new) \in Nat
    BY <1>1, LenProperties
  <2>2. QED
    BY <1>1, <2>1
<1>3. /\ Len(all) = Len(s) + Len(more)
      /\ \A i \in 1 .. Len(s) + Len(more) :
           all[i] = IF i <= Len(s) THEN s[i] ELSE more[i - Len(s)]
  BY ConcatProperties
<1>4. /\ Len(longer) = Len(stream) + Len(new)
      /\ \A i \in 1 .. Len(stream) + Len(new) :
           longer[i] = IF i <= Len(stream) THEN stream[i] ELSE new[i - Len(stream)]
  BY ConcatProperties
<1> HIDE DEF all, longer
<1>5. /\ from + Len(stream) = Len(s)
      /\ \A i \in 1 .. Len(stream) : stream[i] = EncodeByMediator(s[from + i])
  BY DEF Follows
<1>6. ASSUME NEW i \in 1 .. Len(longer)
      PROVE  longer[i] = EncodeByMediator(all[from + i])
  <2>1. from + i \in 1 .. Len(s) + Len(more) /\ i \in 1 .. Len(stream) + Len(new)
    BY <1>1, <1>2, <1>4, <1>5
  <2>2. CASE i <= Len(stream)
    <3>1. longer[i] = stream[i] /\ stream[i] = EncodeByMediator(s[from + i])
      BY <1>1, <1>4, <1>5, <2>1, <2>2
    <3>2. from + i <= Len(s)
      BY <1>1, <1>5, <2>2
    <3>3. all[from + i] = s[from + i]
      BY <1>3, <2>1, <3>2
    <3>4. QED
      BY <3>1, <3>3
  <2>3. CASE ~(i <= Len(stream))
    <3>1. longer[i] = new[i - Len(stream)]
      BY <1>4, <2>1, <2>3
    <3>2. i - Len(stream) \in 1 .. Len(more) /\ ~(from + i <= Len(s))
          /\ from + i - Len(s) = i - Len(stream)
      <4> DEFINE l == Len(stream)
                 m == Len(more)
      <4>1. /\ l \in Nat /\ m \in Nat /\ Len(s) = from + l /\ Len(new) = m
            /\ i \in 1 .. l + Len(new) /\ ~(i <= l)
        BY <1>1, <1>2, <1>5, <2>1, <2>3
      <4> HIDE DEF l, m
      <4>2. i \in Nat /\ i > l /\ i <= l + m
        BY <4>1
      <4>3. QED
        BY <4>1, <4>2 DEF l, m
    <3>3. new[i - Len(stream)] = EncodeByMediator(more[i - Len(stream)])
      BY <1>2, <3>2
    <3>4. all[from + i] = more[from + i - Len(s)]
      BY <1>3, <2>1, <3>2
    <3>5. QED
      BY <3>1, <3>2, <3>3, <3>4
  <2>4. QED
    BY <2>2, <2>3
<1>7. from + Len(longer) = Len(all)
  <2> DEFINE l == Len(stream)
             m == Len(more)
  <2>1. /\ l \in Nat /\ m \in Nat /\ Len(s) = from + l
        /\ Len(longer) = l + m /\ Len(all) = Len(s) + m
    BY <1>1, <1>2, <1>3, <1>4, <1>5
  <2> HIDE DEF l, m
  <2>2. QED
    BY <2>1
<1>8. QED
  BY <1>6, <1>7 DEF Follows, all, longer

-----------------------------------------------------------------------------
(* What a poll does                                                        *)

PollAborts(p) ==
    \E error : /\ error # "none"
               /\ Poll(p) = [protocol |-> [state |-> "Error", error |-> error, datagrams |-> <<>>],
                             instruction |-> NoInstruction]

PollAdvances(p, state, instruction) ==
    Poll(p) = [protocol |-> [state |-> state, error |-> "none", datagrams |-> Tail(p.datagrams)],
               instruction |-> instruction]

PollGreets(p, version) ==
    \E chosen \in MinVersion .. MaxVersion :
      /\ chosen <= version
      /\ PollAdvances(p, "AwaitingServerInfo",
                      [update |-> "AwaitingServerInfo", payloads |-> <<>>,
                       datagrams |-> <<EncodeClientHello(chosen)>>])

PollOpens(p) ==
    PollAdvances(p, "PostHandshake",
                 [update |-> "PostHandshake", payloads |-> <<>>, datagrams |-> <<>>])

PollHandsOut(p, payload) ==
    \E handed : /\ HandedFor(handed, payload)
                /\ PollAdvances(p, "PostHandshake",
                                [update |-> "None", payloads |-> <<handed>>, datagrams |-> <<>>])

LEMMA PollTakes ==
    ASSUME NEW p, p.state # "Error", p.datagrams # <<>>
    PROVE  LET next == PollDatagram[p.state][Head(p.datagrams)]
           IN Poll(p) = [protocol |-> [state |-> next.state, error |-> next.error,
                                       datagrams |-> BufferAfter(p, next.state)],
                         instruction |-> next.instruction]
BY DEF Poll

LEMMA PollLeadsTo ==
    ASSUME NEW p, p.state # "Error", p.datagrams # <<>>,
           NEW next, next = PollDatagram[p.state][Head(p.datagrams)]
    PROVE  /\ Aborts(next) => PollAborts(p)
           /\ \A version : Greets(next, version) => PollGreets(p, version)
           /\ Opens(next) => PollOpens(p)
           /\ \A payload : HandsOut(next, payload) => PollHandsOut(p, payload)
<1>1. Poll(p) = [protocol |-> [state |-> next.state, error |-> next.error,
                               datagrams |-> BufferAfter(p, next.state)],
                 instruction |-> next.instruction]
  BY PollTakes
<1>2. ASSUME Aborts(next)
      PROVE  PollAborts(p)
  <2>1. PICK error : error # "none" /\ next = Abort(error)
    BY <1>2 DEF Aborts
  <2>2. next.state = "Error" /\ next.error = error /\ next.instruction = NoInstruction
    BY <2>1 DEF Abort
  <2>3. Poll(p) = [protocol |-> [state |-> "Error", error |-> error, datagrams |-> <<>>],
                   instruction |-> NoInstruction]
    BY <1>1, <2>2 DEF BufferAfter
  <2>4. QED
    BY <2>1, <2>3 DEF PollAborts
<1>3. ASSUME NEW state, state # "Error", NEW instruction, next = Advance(state, instruction)
      PROVE  PollAdvances(p, state, instruction)
  <2>1. next.state = state /\ next.error = "none" /\ next.instruction = instruction
    BY <1>3 DEF Advance
  <2>2. QED
    BY <1>1, <1>3, <2>1 DEF BufferAfter, PollAdvances
<1>4. ASSUME NEW version, Greets(next, version)
      PROVE  PollGreets(p, version)
  <2>1. PICK chosen \in MinVersion .. MaxVersion :
          /\ chosen <= version
          /\ next = Advance("AwaitingServerInfo",
                            [NoInstruction EXCEPT !.update = "AwaitingServerInfo",
                                                  !.datagrams = <<EncodeClientHello(chosen)>>])
    BY <1>4 DEF Greets
  <2>2. [NoInstruction EXCEPT !.update = "AwaitingServerInfo",
                              !.datagrams = <<EncodeClientHello(chosen)>>] =
            [update |-> "AwaitingServerInfo", payloads |-> <<>>,
             datagrams |-> <<EncodeClientHello(chosen)>>]
    <3> DEFINE hello == <<EncodeClientHello(chosen)>>
    <3> HIDE DEF hello
    <3>1. [NoInstruction EXCEPT !.update = "AwaitingServerInfo"] =
              [update |-> "AwaitingServerInfo", payloads |-> <<>>, datagrams |-> <<>>]
      BY DEF NoInstruction
    <3>2. [[update |-> "AwaitingServerInfo", payloads |-> <<>>, datagrams |-> <<>>]
             EXCEPT !.datagrams = hello] =
              [update |-> "AwaitingServerInfo", payloads |-> <<>>, datagrams |-> hello]
      OBVIOUS
    <3>3. [NoInstruction EXCEPT !.update = "AwaitingServerInfo", !.datagrams = hello] =
              [update |-> "AwaitingServerInfo", payloads |-> <<>>, datagrams |-> hello]
      BY <3>1, <3>2
    <3>4. QED
      BY <3>3 DEF hello
  <2>3. PollAdvances(p, "AwaitingServerInfo",
                     [update |-> "AwaitingServerInfo", payloads |-> <<>>,
                      datagrams |-> <<EncodeClientHello(chosen)>>])
    BY <1>3, <2>1, <2>2
  <2>4. QED
    BY <2>1, <2>3 DEF PollGreets
<1>5. ASSUME Opens(next)
      PROVE  PollOpens(p)
  <2>1. next = Advance("PostHandshake", [NoInstruction EXCEPT !.update = "PostHandshake"])
    BY <1>5 DEF Opens
  <2>2. [NoInstruction EXCEPT !.update = "PostHandshake"] =
            [update |-> "PostHandshake", payloads |-> <<>>, datagrams |-> <<>>]
    BY DEF NoInstruction
  <2>3. QED
    BY <1>3, <2>1, <2>2 DEF PollOpens
<1>6. ASSUME NEW payload, HandsOut(next, payload)
      PROVE  PollHandsOut(p, payload)
  <2>1. PICK handed :
          /\ HandedFor(handed, payload)
          /\ next = Advance("PostHandshake", [NoInstruction EXCEPT !.payloads = <<handed>>])
    BY <1>6 DEF HandsOut
  <2>2. [NoInstruction EXCEPT !.payloads = <<handed>>] =
            [update |-> "None", payloads |-> <<handed>>, datagrams |-> <<>>]
    BY DEF NoInstruction
  <2>3. PollAdvances(p, "PostHandshake",
                     [update |-> "None", payloads |-> <<handed>>, datagrams |-> <<>>])
    BY <1>3, <2>1, <2>2
  <2>4. QED
    BY <2>1, <2>3 DEF PollHandsOut
<1>7. QED
  BY <1>2, <1>4, <1>5, <1>6

-----------------------------------------------------------------------------
(* The inductive invariant                                                 *)

RequestsFromClient ==
    PayloadsFromClient
    \cup {[kind |-> "ClientHello", version |-> version] : version \in MinVersion .. MaxVersion}

DatagramsFromClient ==
    {DatagramOf[payload] : payload \in PayloadsFromClient}
    \cup {EncodeClientHello(version) : version \in MinVersion .. MaxVersion}

TypesOfClient ==
    /\ protocol = [state |-> protocol.state, error |-> protocol.error,
                   datagrams |-> protocol.datagrams]
    /\ protocol.state \in ProtocolStates /\ protocol.datagrams \in Seq(DatagramsToClient)
    /\ protocol.state = "Error" <=> protocol.error # "none"
    /\ protocol.state = "Error" => protocol.datagrams = <<>> /\ runner = Closed
    /\ runner \in [at : {"handshake", "poll", "send", "select", "closed"},
                   payload : Seq(HandedPayloads)]
    /\ runner.at \in {"poll", "send", "select"} => protocol.state = "PostHandshake"
    /\ Len(runner.payload) = (IF runner.at = "send" THEN 1 ELSE 0)

TypesOfApp ==
    /\ incoming \in Seq(HandedPayloads) /\ Len(incoming) <= QueueCapacity
    /\ handled \in Seq(HandedPayloads)
    /\ outgoing \in Seq(PayloadsFromClient) /\ Len(outgoing) <= QueueCapacity
    /\ app \in [transaction : {"None", "Blocked", "AwaitingBeginAck", "Running",
                               "AwaitingCommitAck"},
                reflectId : 0 .. MaxReflectId, send : Seq(PayloadsFromClient)]
    /\ Len(app.send) <= 1

TypesOfMediator ==
    /\ mediator \in [at : {"hello", "open", "closed"}, version : ServerVersions,
                     lock : {"none", "client", "other"}]
    /\ sent \in Seq(PayloadsToClient)
    /\ toClient \in Seq(DatagramsToClient)
    /\ toMediator \in Seq(DatagramsFromClient)

\* The hello comes first, then the info, then all else; what is malformed may come
\* instead or in between.
Sent ==
    /\ Len(sent) >= 1 /\ sent[1] = Hello(mediator.version)
    /\ \A i \in 2 .. Len(sent) :
         IsMalformed(sent[i]) \/ IF sent[i] = Info THEN sent[2] # Info \/ i = 2
                                 ELSE i > 2 /\ Sendable(sent[i])
    /\ mediator.at = "hello" =>
         mediator.lock # "client" /\ \A i \in 2 .. Len(sent) : IsMalformed(sent[i])
    /\ mediator.at = "open" => Len(sent) >= 2

Arrived ==
    /\ protocol.state # "Error" =>
         Follows(protocol.datagrams \o toClient, Taken + Len(HandedOut), sent)
    /\ Len(HandedOut) > 0 => 2 + Len(HandedOut) <= Len(sent)
    /\ \A i \in 1 .. Len(HandedOut) : HandedFor(HandedOut[i], sent[2 + i])
    /\ protocol.state \in {"AwaitingServerHello", "AwaitingServerInfo"} =>
         HandedOut = <<>> /\ runner.at \in {"handshake", "closed"}
    /\ protocol.state = "PostHandshake" =>
         runner.at # "handshake" /\ Len(sent) >= 2 /\ sent[2] = Info

\* All requests, those on their way included, are what was created, but for the hello.
Mapped(stream) == [i \in DOMAIN stream |-> RequestOf[stream[i]]]
Requested == requests \o Mapped(toMediator)

HelloAt(h) ==
    /\ h \in 1 .. Len(Requested)
    /\ \E version \in MinVersion .. mediator.version :
         Requested[h] = [kind |-> "ClientHello", version |-> version]
    /\ Len(Requested) = Len(created) + 1
    /\ \A i \in 1 .. Len(created) :
         Requested[IF i < h THEN i ELSE i + 1] = created[i]
         /\ (i < h => created[i].kind = "Proxy")

Requests ==
    \/ /\ protocol.state \in {"AwaitingServerHello", "Error"}
       /\ Len(Requested) = Len(created)
       /\ \A i \in 1 .. Len(created) : Requested[i] = created[i] /\ created[i].kind = "Proxy"
    \/ protocol.state # "AwaitingServerHello" /\ \E h \in 1 .. Len(Requested) : HelloAt(h)

TypesOfRequests ==
    created \in Seq(PayloadsFromClient) /\ requests \in Seq(RequestsFromClient)

\* What the mediator is still to receive.
Waiting == Mapped(toMediator) \o (outgoing \o app.send)

Unhandled(i) == i \in 3 + Len(handled) .. Len(sent) /\ sent[i].kind = "BeginTransactionAck"
Committing(i) == i \in 1 .. Len(Waiting) /\ Waiting[i].kind = "CommitTransaction"

\* Who may take the transaction for running: an acknowledgement to begin, the app, and
\* a request to commit are one at a time, and only while the client holds the lock.
Lock ==
    /\ mediator.lock # "client" =>
         app.transaction # "Running" /\ (\A i : ~Unhandled(i)) /\ (\A i : ~Committing(i))
    /\ \A i, j : Unhandled(i) /\ Unhandled(j) => i = j
    /\ \A i, j : Committing(i) /\ Committing(j) => i = j
    /\ \A i : Unhandled(i) => app.transaction # "Running" /\ \A j : ~Committing(j)
    /\ \A i : Committing(i) => app.transaction # "Running"
-----------------------------------------------------------------------------
(* What the steps of the runner that poll do                               *)

Stream == protocol.datagrams \o toClient

\* The first datagram of all that is on its way is taken.
Takes ==
    /\ protocol'.datagrams \in Seq(DatagramsToClient) /\ toClient' \in Seq(DatagramsToClient)
    /\ Stream # <<>> /\ protocol'.datagrams \o toClient' = Tail(Stream)

Advances(state) ==
    /\ protocol' = [state |-> state, error |-> "none", datagrams |-> protocol'.datagrams]
    /\ Takes

Breaks ==
    /\ \E error : error # "none"
                  /\ protocol' = [state |-> "Error", error |-> error, datagrams |-> <<>>]
    /\ runner' = Closed /\ toClient' \in Seq(DatagramsToClient) /\ toMediator' = toMediator

Greet ==
    /\ protocol.state = "AwaitingServerHello" /\ Advances("AwaitingServerInfo")
    /\ runner' = runner
    /\ \E version \in MinVersion .. MaxVersion :
         version <= mediator.version
         /\ toMediator' = toMediator \o <<EncodeClientHello(version)>>

Open ==
    /\ protocol.state = "AwaitingServerInfo" /\ Advances("PostHandshake")
    /\ Len(sent) >= 2 /\ sent[2] = Info
    /\ runner' = Payload("poll") /\ toMediator' = toMediator

HandOut ==
    /\ protocol.state = "PostHandshake" /\ Advances("PostHandshake")
    /\ \E handed : /\ HandedFor(handed, sent[3 + Len(HandedOut)])
                   /\ runner' = [at |-> "send", payload |-> <<handed>>]
    /\ toMediator' = toMediator

\* What a poll leads to depends on which payload is taken.
LEMMA Polled ==
    ASSUME TypesOfMediator, Sent, NEW k \in 1 .. Len(sent),
           NEW p, p.datagrams # <<>>, Head(p.datagrams) = EncodeByMediator(sent[k])
    PROVE  /\ p.state = "AwaitingServerHello" /\ k = 1 =>
                PollAborts(p) \/ PollGreets(p, mediator.version)
           /\ p.state = "AwaitingServerInfo" /\ k = 2 =>
                PollAborts(p) \/ (PollOpens(p) /\ sent[2] = Info)
           /\ p.state = "PostHandshake" /\ k > 2 /\ sent[2] = Info =>
                PollAborts(p) \/ PollHandsOut(p, sent[k])
<1> DEFINE payload == sent[k]
<1>1. payload \in PayloadsToClient
  <2>1. sent \in Seq(PayloadsToClient)
    BY DEF TypesOfMediator
  <2>2. QED
    BY <2>1, ElementOfSeq
<1>2. ASSUME p.state = "AwaitingServerHello", k = 1
      PROVE  PollAborts(p) \/ PollGreets(p, mediator.version)
  <2> DEFINE next == PollDatagram.AwaitingServerHello[EncodeByMediator(Hello(mediator.version))]
  <2>1. mediator.version \in ServerVersions
    BY DEF TypesOfMediator
  <2>2. Aborts(next) \/ Greets(next, mediator.version)
    BY <2>1, PollHello
  <2>3. sent[1] = Hello(mediator.version)
    BY DEF Sent
  <2>4. next = PollDatagram[p.state][Head(p.datagrams)]
    BY <1>2, <2>3
  <2> HIDE DEF next
  <2>5. p.state # "Error"
    BY <1>2
  <2>6. QED
    BY <2>2, <2>4, <2>5, PollLeadsTo
<1>3. ASSUME p.state = "AwaitingServerInfo", k = 2
      PROVE  PollAborts(p) \/ (PollOpens(p) /\ sent[2] = Info)
  <2> DEFINE next == PollDatagram.AwaitingServerInfo[EncodeByMediator(payload)]
  <2>1. payload = Info \/ IsMalformed(payload)
    BY <1>3 DEF Sent
  <2> HIDE DEF payload
  <2>2. IF payload = Info THEN Opens(next) ELSE Aborts(next)
    BY <2>1, PollInfo
  <2>3. next = PollDatagram[p.state][Head(p.datagrams)]
    BY <1>3 DEF payload
  <2> HIDE DEF next
  <2>4. p.state # "Error"
    BY <1>3
  <2>5. PollAborts(p) \/ (PollOpens(p) /\ payload = Info)
    BY <2>2, <2>3, <2>4, PollLeadsTo
  <2>6. QED
    BY <1>3, <2>5 DEF payload
<1>4. ASSUME p.state = "PostHandshake", k > 2, sent[2] = Info
      PROVE  PollAborts(p) \/ PollHandsOut(p, sent[k])
  <2> DEFINE next == PollDatagram.PostHandshake[EncodeByMediator(payload)]
  <2>1. IsMalformed(payload) \/ Sendable(payload)
    BY <1>4 DEF Sent
  <2> HIDE DEF payload
  <2>2. Aborts(next) \/ HandsOut(next, payload)
    BY <1>1, <2>1, PollLater
  <2>3. next = PollDatagram[p.state][Head(p.datagrams)]
    BY <1>4 DEF payload
  <2> HIDE DEF next
  <2>4. p.state # "Error"
    BY <1>4
  <2>5. PollAborts(p) \/ PollHandsOut(p, payload)
    BY <2>2, <2>3, <2>4, PollLeadsTo
  <2>6. QED
    BY <2>5 DEF payload
<1>5. QED
  BY <1>2, <1>3, <1>4

LEMMA HandshakeDoes ==
    ASSUME TypesOfClient, TypesOfMediator, Sent, Arrived, RunHandshake
    PROVE  Breaks \/ Greet \/ Open
<1>1. PICK n \in 1 .. Len(toClient) :
        LET polled == Poll(AddDatagrams(protocol, SubSeq(toClient, 1, n)))
        IN /\ protocol' = polled.protocol
           /\ toClient' = SubSeq(toClient, n + 1, Len(toClient))
           /\ toMediator' = toMediator \o polled.instruction.datagrams
           /\ runner' = CASE polled.protocol.state = "Error"             -> Closed
                          [] polled.instruction.update = "PostHandshake" -> Payload("poll")
                          [] OTHER                                       -> runner
  BY DEF RunHandshake
<1> DEFINE front == SubSeq(toClient, 1, n)
           back == SubSeq(toClient, n + 1, Len(toClient))
           p == AddDatagrams(protocol, front)
           k == Taken + 1
<1>2. runner.at = "handshake" /\ protocol.state \in {"AwaitingServerHello", "AwaitingServerInfo"}
  <2>1. runner.at = "handshake"
    BY DEF RunHandshake
  <2>2. protocol.state # "PostHandshake"
    BY <2>1 DEF Arrived
  <2>3. protocol.state # "Error"
    BY <2>1 DEF TypesOfClient, Closed
  <2>4. QED
    BY <2>1, <2>2, <2>3 DEF TypesOfClient, ProtocolStates
<1>3. /\ protocol.datagrams \in Seq(DatagramsToClient) /\ toClient \in Seq(DatagramsToClient)
      /\ toMediator \in Seq(DatagramsFromClient)
  BY DEF TypesOfClient, TypesOfMediator
<1>4. /\ front \in Seq(DatagramsToClient) /\ back \in Seq(DatagramsToClient) /\ front # <<>>
      /\ (protocol.datagrams \o front) \o back = Stream
  <2>1. AllMoved(DatagramsToClient, protocol.datagrams, toClient, n)
    BY <1>3, Moved
  <2>2. QED
    BY <2>1 DEF AllMoved, Stream
<1>5. /\ p.state = protocol.state /\ p.datagrams = protocol.datagrams \o front
  <2>1. p = [protocol EXCEPT !.datagrams = @ \o front]
    BY DEF AddDatagrams
  <2> HIDE DEF p, front
  <2>2. QED
    BY <2>1 DEF TypesOfClient
<1> HIDE DEF front, back, p
<1>6. p.datagrams \in Seq(DatagramsToClient) /\ p.datagrams # <<>>
  BY <1>3, <1>4, <1>5, ConcatProperties, ConcatEqualIffEmpty
<1>7. Tail(Stream) = Tail(p.datagrams) \o back /\ Head(Stream) = Head(p.datagrams)
  BY <1>4, <1>5, <1>6, TailOfJoined
<1>8. Stream \in Seq(DatagramsToClient) /\ Stream # <<>>
  <2>1. p.datagrams \o back \in Seq(DatagramsToClient) /\ p.datagrams \o back # <<>>
    BY <1>4, <1>6, ConcatProperties, ConcatEqualIffEmpty
  <2>2. QED
    BY <1>4, <1>5, <2>1
<1>9. k \in 1 .. Len(sent) /\ Head(p.datagrams) = EncodeByMediator(sent[k])
  <2>1. Taken \in Nat /\ Len(HandedOut) = 0 /\ Taken + 0 = Taken
    BY <1>2 DEF Taken, Arrived
  <2>2. Follows(Stream, Taken, sent)
    <3>1. Follows(Stream, Taken + Len(HandedOut), sent)
      BY <1>2 DEF Arrived, Stream
    <3>2. QED
      BY <2>1, <3>1
  <2>3. Len(sent) \in Nat
    BY LenProperties DEF TypesOfMediator
  <2>4. Head(Stream) = EncodeByMediator(sent[Taken + 1]) /\ Taken + 1 <= Len(sent)
    BY <1>8, <2>1, <2>2, <2>3, FollowsTaken
  <2>5. QED
    BY <1>7, <2>1, <2>3, <2>4
<1>10. /\ protocol.state = "AwaitingServerHello" => k = 1
       /\ protocol.state = "AwaitingServerInfo" => k = 2
  BY DEF Taken
<1>11. /\ protocol' = Poll(p).protocol /\ toClient' = back
       /\ toMediator' = toMediator \o Poll(p).instruction.datagrams
       /\ runner' = CASE Poll(p).protocol.state = "Error"             -> Closed
                      [] Poll(p).instruction.update = "PostHandshake" -> Payload("poll")
                      [] OTHER                                        -> runner
  BY <1>1 DEF p, front, back
<1>12. /\ protocol.state = "AwaitingServerHello" =>
            PollAborts(p) \/ PollGreets(p, mediator.version)
       /\ protocol.state = "AwaitingServerInfo" =>
            PollAborts(p) \/ (PollOpens(p) /\ sent[2] = Info)
  <2> HIDE DEF k
  <2>1. QED
    BY <1>5, <1>6, <1>9, <1>10, Polled
<1>13. ASSUME NEW state, NEW instruction, PollAdvances(p, state, instruction)
       PROVE  Advances(state) /\ Poll(p).instruction = instruction /\ Poll(p).protocol.state = state
  <2>1. Poll(p) = [protocol |-> [state |-> state, error |-> "none",
                                 datagrams |-> Tail(p.datagrams)],
                   instruction |-> instruction]
    BY <1>13 DEF PollAdvances
  <2>2. protocol' = [state |-> state, error |-> "none", datagrams |-> Tail(p.datagrams)]
    BY <1>11, <2>1
  <2>3. Tail(p.datagrams) \in Seq(DatagramsToClient)
    BY <1>6, HeadTailProperties
  <2>4. protocol'.datagrams = Tail(p.datagrams)
    BY <2>2
  <2>5. Takes
    BY <1>4, <1>7, <1>8, <1>11, <2>3, <2>4 DEF Takes
  <2>6. QED
    BY <2>1, <2>2, <2>4, <2>5 DEF Advances
<1>14. ASSUME PollAborts(p)
       PROVE  Breaks
  <2>1. PICK error : error # "none"
          /\ Poll(p) = [protocol |-> [state |-> "Error", error |-> error, datagrams |-> <<>>],
                        instruction |-> NoInstruction]
    BY <1>14 DEF PollAborts
  <2>2. protocol' = [state |-> "Error", error |-> error, datagrams |-> <<>>]
        /\ Poll(p).protocol.state = "Error" /\ Poll(p).instruction = NoInstruction
    BY <1>11, <2>1
  <2>3. toMediator' = toMediator
    <3>1. Poll(p).instruction.datagrams = <<>>
      BY <2>2 DEF NoInstruction
    <3>2. QED
      BY <1>3, <1>11, <3>1, ConcatEmptySeq
  <2>4. runner' = Closed
    <3>1. Poll(p).instruction.update = "None"
      BY <2>2 DEF NoInstruction
    <3>2. QED
      BY <1>11, <2>2, <3>1
  <2>5. QED
    BY <1>4, <1>11, <2>1, <2>2, <2>3, <2>4 DEF Breaks
<1>15. ASSUME protocol.state = "AwaitingServerHello", PollGreets(p, mediator.version)
       PROVE  Greet
  <2>1. PICK chosen \in MinVersion .. MaxVersion :
          /\ chosen <= mediator.version
          /\ PollAdvances(p, "AwaitingServerInfo",
                          [update |-> "AwaitingServerInfo", payloads |-> <<>>,
                           datagrams |-> <<EncodeClientHello(chosen)>>])
    BY <1>15 DEF PollGreets
  <2>2. /\ Advances("AwaitingServerInfo") /\ Poll(p).protocol.state = "AwaitingServerInfo"
        /\ Poll(p).instruction.update = "AwaitingServerInfo"
        /\ Poll(p).instruction.datagrams = <<EncodeClientHello(chosen)>>
    BY <1>13, <2>1
  <2>3. runner' = runner
    BY <1>11, <2>2
  <2>4. QED
    BY <1>11, <1>15, <2>1, <2>2, <2>3 DEF Greet
<1>16. ASSUME protocol.state = "AwaitingServerInfo", PollOpens(p), sent[2] = Info
       PROVE  Open
  <2>1. /\ Advances("PostHandshake") /\ Poll(p).protocol.state = "PostHandshake"
        /\ Poll(p).instruction.update = "PostHandshake"
        /\ Poll(p).instruction.datagrams = <<>>
    BY <1>13, <1>16 DEF PollOpens
  <2>2. runner' = Payload("poll")
    BY <1>11, <2>1
  <2>3. toMediator' = toMediator
    BY <1>3, <1>11, <2>1, ConcatEmptySeq
  <2>4. Len(sent) >= 2
    BY <1>9, <1>10, <1>16
  <2>5. QED
    BY <1>16, <2>1, <2>2, <2>3, <2>4 DEF Open
<1>17. QED
  BY <1>2, <1>12, <1>14, <1>15, <1>16

\* Once there is nothing to be polled the runner waits.
Waits ==
    /\ runner' = Payload("select")
    /\ UNCHANGED <<protocol, toClient, toMediator>>

LEMMA HandedOutType ==
    ASSUME TypesOfClient, TypesOfApp
    PROVE  HandedOut \in Seq(HandedPayloads) /\ Len(HandedOut) \in Nat
<1>1. /\ handled \in Seq(HandedPayloads) /\ incoming \in Seq(HandedPayloads)
      /\ runner.payload \in Seq(HandedPayloads)
  BY DEF TypesOfClient, TypesOfApp
<1> DEFINE first == handled \o incoming
<1>2. first \in Seq(HandedPayloads)
  BY <1>1, ConcatProperties
<1> HIDE DEF first
<1>3. first \o runner.payload \in Seq(HandedPayloads)
  BY <1>1, <1>2, ConcatProperties
<1>4. HandedOut \in Seq(HandedPayloads)
  BY <1>3 DEF HandedOut, first
<1>5. QED
  BY <1>4, LenProperties

LEMMA PollDoes ==
    ASSUME TypesOfClient, TypesOfApp, TypesOfMediator, Sent, Arrived, PollPayload
    PROVE  Breaks \/ HandOut \/ Waits
<1> DEFINE k == 3 + Len(HandedOut)
<1>1. /\ protocol' = Poll(protocol).protocol
      /\ runner' = CASE Poll(protocol).protocol.state = "Error" -> Closed
                     [] Poll(protocol).instruction.payloads # <<>> ->
                          [at |-> "send", payload |-> Poll(protocol).instruction.payloads]
                     [] OTHER -> Payload("select")
      /\ runner.at = "poll" /\ toClient' = toClient /\ toMediator' = toMediator
  BY DEF PollPayload
<1>2. protocol.state = "PostHandshake"
  BY <1>1 DEF TypesOfClient
<1>3. /\ protocol.datagrams \in Seq(DatagramsToClient) /\ toClient \in Seq(DatagramsToClient)
      /\ sent \in Seq(PayloadsToClient) /\ Len(sent) \in Nat /\ Len(HandedOut) \in Nat
  BY HandedOutType, LenProperties DEF TypesOfClient, TypesOfMediator
<1>4. CASE protocol.datagrams = <<>>
  <2>1. Poll(protocol) = [protocol |-> protocol, instruction |-> NoInstruction]
    BY <1>4 DEF Poll
  <2>2. /\ Poll(protocol).protocol = protocol
        /\ Poll(protocol).instruction.payloads = <<>>
    BY <2>1 DEF NoInstruction
  <2>3. protocol' = protocol /\ runner' = Payload("select")
    BY <1>1, <1>2, <2>2
  <2>4. QED
    BY <1>1, <2>3 DEF Waits
<1>5. CASE protocol.datagrams # <<>>
  <2>1. Tail(Stream) = Tail(protocol.datagrams) \o toClient
        /\ Head(Stream) = Head(protocol.datagrams)
    BY <1>3, <1>5, TailOfJoined DEF Stream
  <2>2. Stream \in Seq(DatagramsToClient) /\ Stream # <<>>
    BY <1>3, <1>5, ConcatProperties, ConcatEqualIffEmpty DEF Stream
  <2>3. k \in 1 .. Len(sent) /\ Head(protocol.datagrams) = EncodeByMediator(sent[k]) /\ k > 2
    <3> DEFINE from == 2 + Len(HandedOut)
    <3>1. Follows(Stream, from, sent)
      BY <1>2 DEF Arrived, Stream, Taken
    <3>2. from \in Nat /\ from + 1 = k /\ k > 2
      BY <1>3
    <3> HIDE DEF from, k
    <3>3. Head(Stream) = EncodeByMediator(sent[from + 1]) /\ from + 1 <= Len(sent)
      BY <1>3, <2>2, <3>1, <3>2, FollowsTaken
    <3>4. k \in Nat /\ k <= Len(sent)
      BY <3>2, <3>3
    <3>5. QED
      BY <1>3, <2>1, <3>2, <3>3, <3>4
  <2>4. sent[2] = Info
    BY <1>2 DEF Arrived
  <2> HIDE DEF k
  <2>5. PollAborts(protocol) \/ PollHandsOut(protocol, sent[k])
    BY <1>2, <1>5, <2>3, <2>4, Polled
  <2>6. ASSUME PollAborts(protocol)
        PROVE  Breaks
    <3>1. PICK error : error # "none"
            /\ Poll(protocol) =
                 [protocol |-> [state |-> "Error", error |-> error, datagrams |-> <<>>],
                  instruction |-> NoInstruction]
      BY <2>6 DEF PollAborts
    <3>2. protocol' = [state |-> "Error", error |-> error, datagrams |-> <<>>]
          /\ Poll(protocol).protocol.state = "Error"
          /\ Poll(protocol).instruction.payloads = <<>>
      BY <1>1, <3>1 DEF NoInstruction
    <3>3. runner' = Closed
      BY <1>1, <3>2
    <3>4. QED
      BY <1>1, <1>3, <3>1, <3>2, <3>3 DEF Breaks
  <2>7. ASSUME PollHandsOut(protocol, sent[k])
        PROVE  HandOut
    <3>1. PICK handed :
            /\ HandedFor(handed, sent[k])
            /\ PollAdvances(protocol, "PostHandshake",
                            [update |-> "None", payloads |-> <<handed>>, datagrams |-> <<>>])
      BY <2>7 DEF PollHandsOut
    <3> DEFINE rest == Tail(protocol.datagrams)
    <3>2. Poll(protocol) =
              [protocol |-> [state |-> "PostHandshake", error |-> "none", datagrams |-> rest],
               instruction |-> [update |-> "None", payloads |-> <<handed>>, datagrams |-> <<>>]]
      BY <3>1 DEF PollAdvances
    <3>3. rest \in Seq(DatagramsToClient)
      BY <1>3, <1>5, HeadTailProperties
    <3> HIDE DEF rest
    <3>4. /\ protocol' = [state |-> "PostHandshake", error |-> "none", datagrams |-> rest]
          /\ Poll(protocol).protocol.state = "PostHandshake"
          /\ Poll(protocol).instruction.payloads = <<handed>>
      BY <1>1, <3>2
    <3>5. protocol'.datagrams = rest
      BY <3>4
    <3>6. runner' = [at |-> "send", payload |-> <<handed>>]
      <4>1. <<handed>> # <<>>
        OBVIOUS
      <4>2. QED
        BY <1>1, <3>4, <4>1
    <3>7. Takes
      BY <1>1, <1>3, <2>1, <2>2, <3>3, <3>5 DEF Takes, rest
    <3>8. Advances("PostHandshake")
      BY <3>4, <3>5, <3>7 DEF Advances
    <3>9. QED
      BY <1>1, <1>2, <3>1, <3>6, <3>8 DEF HandOut, k
  <2>8. QED
    BY <2>5, <2>6, <2>7
<1>6. QED
  BY <1>4, <1>5

\* Receive only moves datagrams from one place to the other.
LEMMA ReceiveDoes ==
    ASSUME TypesOfClient, TypesOfMediator, Receive
    PROVE  /\ runner.at = "select" /\ runner' = Payload("poll")
           /\ protocol' = [state |-> protocol.state, error |-> protocol.error,
                           datagrams |-> protocol'.datagrams]
           /\ protocol'.datagrams \in Seq(DatagramsToClient)
           /\ toClient' \in Seq(DatagramsToClient)
           /\ protocol'.datagrams \o toClient' = Stream
<1>1. PICK n \in 1 .. Len(toClient) :
        /\ protocol' = AddDatagrams(protocol, SubSeq(toClient, 1, n))
        /\ toClient' = SubSeq(toClient, n + 1, Len(toClient))
  BY DEF Receive
<1> DEFINE front == SubSeq(toClient, 1, n)
           back == SubSeq(toClient, n + 1, Len(toClient))
           all == protocol.datagrams \o front
<1>2. protocol.datagrams \in Seq(DatagramsToClient) /\ toClient \in Seq(DatagramsToClient)
  BY DEF TypesOfClient, TypesOfMediator
<1>3. AllMoved(DatagramsToClient, protocol.datagrams, toClient, n)
  BY <1>2, Moved
<1>4. /\ front \in Seq(DatagramsToClient) /\ back \in Seq(DatagramsToClient)
      /\ all \o back = Stream
  BY <1>3 DEF AllMoved, Stream
<1>5. protocol' = [protocol EXCEPT !.datagrams = @ \o front] /\ toClient' = back
  BY <1>1 DEF AddDatagrams
<1> HIDE DEF front, back
<1>6. all \in Seq(DatagramsToClient)
  BY <1>2, <1>4, ConcatProperties
<1>7. protocol' = [state |-> protocol.state, error |-> protocol.error, datagrams |-> all]
  BY <1>5 DEF TypesOfClient
<1> HIDE DEF all
<1>8. protocol'.datagrams = all
  BY <1>7
<1>9. runner.at = "select" /\ runner' = Payload("poll")
  BY DEF Receive
<1>10. QED
  BY <1>4, <1>5, <1>6, <1>7, <1>8, <1>9

-----------------------------------------------------------------------------
(* What the steps of the mediator do                                       *)

Greeted ==
    /\ mediator.at = "hello" /\ mediator' = [mediator EXCEPT !.at = "open"]
    /\ Send(<<Info, Reflected(1), Empty("ReflectionQueueDry")>>)

Granted ==
    /\ mediator.at = "open" /\ mediator.lock = "none"
    /\ mediator' = [mediator EXCEPT !.lock = "client"]
    /\ Send(<<Empty("BeginTransactionAck")>>)

Rejected ==
    /\ mediator.at = "open" /\ mediator' = mediator
    /\ Send(<<HeldBy("TransactionRejected")>>)

Committed ==
    /\ mediator.at = "open" /\ mediator.lock = "client"
    /\ mediator' = [mediator EXCEPT !.lock = "none"]
    /\ Send(<<Empty("CommitTransactionAck")>>)

Silent ==
    /\ mediator' = mediator \/ mediator' = [mediator EXCEPT !.at = "closed"]
    /\ Send(<<>>)

AnswersTo(request) ==
    \/ Greeted
    \/ request = BeginTransaction /\ (Granted \/ Rejected)
    \/ request = CommitTransaction /\ Committed
    \/ Silent

LEMMA RequestType ==
    ASSUME NEW datagram \in DatagramsFromClient
    PROVE  RequestOf[datagram] \in RequestsFromClient
<1>1. ASSUME NEW payload \in PayloadsFromClient, datagram = DatagramOf[payload]
      PROVE  RequestOf[datagram] \in RequestsFromClient
  BY <1>1, RequestsDecoded DEF RequestsFromClient
<1>2. ASSUME NEW version \in MinVersion .. MaxVersion, datagram = EncodeClientHello(version)
      PROVE  RequestOf[datagram] \in RequestsFromClient
  <2>1. RequestOf[datagram] = [kind |-> "ClientHello", version |-> version]
    BY <1>2, RequestsDecoded
  <2>2. QED
    BY <2>1 DEF RequestsFromClient
<1>3. QED
  BY <1>1, <1>2 DEF DatagramsFromClient

LEMMA AnswerDoes ==
    ASSUME TypesOfMediator, Sent, mediator.at # "closed", NEW request \in RequestsFromClient,
           mediator' = Answer(request).mediator, Send(Answer(request).send)
    PROVE  AnswersTo(request)
<1>1. CASE \E version : request = [kind |-> "ClientHello", version |-> version]
  <2>1. request.kind = "ClientHello"
    BY <1>1
  <2>2. CASE mediator.at = "hello" /\ request.version <= mediator.version
    <3>1. Answer(request) =
              [mediator |-> [mediator EXCEPT !.at = "open"],
               send |-> <<Info, Reflected(1), Empty("ReflectionQueueDry")>>]
      BY <2>1, <2>2 DEF Answer, Info
    <3>2. QED
      BY <2>2, <3>1 DEF AnswersTo, Greeted
  <2>3. CASE ~(mediator.at = "hello" /\ request.version <= mediator.version)
    <3>1. Answer(request) = [mediator |-> [mediator EXCEPT !.at = "closed"], send |-> <<>>]
      BY <2>1, <2>3 DEF Answer
    <3>2. QED
      BY <3>1 DEF AnswersTo, Silent
  <2>4. QED
    BY <2>2, <2>3
<1>2. CASE request = Proxied
  <2>1. request.kind = "Proxy"
    BY <1>2 DEF Proxied
  <2>2. Answer(request) = [mediator |-> mediator, send |-> <<>>]
    BY <2>1 DEF Answer
  <2>3. QED
    BY <2>2 DEF AnswersTo, Silent
<1>3. CASE request = BeginTransaction
  <2>1. request.kind = "BeginTransaction"
    BY <1>3 DEF BeginTransaction
  <2>2. CASE mediator.at = "open" /\ mediator.lock = "none"
    <3>1. Answer(request) = [mediator |-> [mediator EXCEPT !.lock = "client"],
                             send |-> <<Empty("BeginTransactionAck")>>]
      BY <2>1, <2>2 DEF Answer
    <3>2. QED
      BY <1>3, <2>2, <3>1 DEF AnswersTo, Granted
  <2>3. CASE mediator.at = "open" /\ mediator.lock # "none"
    <3>1. Answer(request) = [mediator |-> mediator, send |-> <<HeldBy("TransactionRejected")>>]
      BY <2>1, <2>3 DEF Answer
    <3>2. QED
      BY <1>3, <2>3, <3>1 DEF AnswersTo, Rejected
  <2>4. CASE mediator.at # "open"
    <3>1. Answer(request) = [mediator |-> [mediator EXCEPT !.at = "closed"], send |-> <<>>]
      BY <2>1, <2>4 DEF Answer
    <3>2. QED
      BY <3>1 DEF AnswersTo, Silent
  <2>5. QED
    BY <2>2, <2>3, <2>4
<1>4. CASE request = CommitTransaction
  <2>1. request.kind = "CommitTransaction"
    BY <1>4 DEF CommitTransaction
  <2>2. CASE mediator.lock = "client"
    <3>1. Answer(request) = [mediator |-> [mediator EXCEPT !.lock = "none"],
                             send |-> <<Empty("CommitTransactionAck")>>]
      BY <2>1, <2>2 DEF Answer
    <3>2. mediator.at = "open"
      BY <2>2 DEF TypesOfMediator, Sent
    <3>3. QED
      BY <1>4, <2>2, <3>1, <3>2 DEF AnswersTo, Committed
  <2>3. CASE mediator.lock # "client"
    <3>1. Answer(request) = [mediator |-> [mediator EXCEPT !.at = "closed"], send |-> <<>>]
      BY <2>1, <2>3 DEF Answer
    <3>2. QED
      BY <3>1 DEF AnswersTo, Silent
  <2>4. QED
    BY <2>2, <2>3
<1>5. CASE \E id : request = Reflect(id)
  <2>1. request.kind = "Reflect" /\ request.flags = EphemeralMarker
    BY <1>5 DEF Reflect
  <2>2. CASE mediator.at = "open"
    <3>1. Answer(request) = [mediator |-> mediator, send |-> <<>>]
      BY <2>1, <2>2 DEF Answer
    <3>2. QED
      BY <3>1 DEF AnswersTo, Silent
  <2>3. CASE mediator.at # "open"
    <3>1. Answer(request) = [mediator |-> [mediator EXCEPT !.at = "closed"], send |-> <<>>]
      BY <2>1, <2>3 DEF Answer
    <3>2. QED
      BY <3>1 DEF AnswersTo, Silent
  <2>4. QED
    BY <2>2, <2>3
<1>6. QED
  BY <1>1, <1>2, <1>3, <1>4, <1>5 DEF RequestsFromClient, PayloadsFromClient

LEMMA MediatorDoes ==
    ASSUME TypesOfMediator, Sent, MediatorReceives
    PROVE  \E request \in RequestsFromClient :
             /\ toMediator # <<>> /\ request = RequestOf[Head(toMediator)]
             /\ toMediator' = Tail(toMediator) /\ requests' = Append(requests, request)
             /\ AnswersTo(request)
<1>1. PICK request \in {RequestOf[Head(toMediator)]} :
        /\ requests' = Append(requests, request)
        /\ mediator' = Answer(request).mediator
        /\ Send(Answer(request).send)
  BY DEF MediatorReceives
<1>2. toMediator # <<>> /\ toMediator' = Tail(toMediator) /\ mediator.at # "closed"
  BY DEF MediatorReceives
<1>3. Head(toMediator) \in DatagramsFromClient
  BY <1>2, HeadTailProperties DEF TypesOfMediator
<1>4. request \in RequestsFromClient
  BY <1>1, <1>3, RequestType
<1>5. AnswersTo(request)
  BY <1>1, <1>2, <1>4, AnswerDoes
<1>6. QED
  BY <1>1, <1>2, <1>4, <1>5

\* What is sent comes behind what was sent, in the list and on the way.
Sends(more) ==
    /\ sent' \in Seq(PayloadsToClient) /\ toClient' \in Seq(DatagramsToClient)
    /\ Len(sent') = Len(sent) + Len(more)
    /\ \A i \in 1 .. Len(sent) : sent'[i] = sent[i]
    /\ \A i \in 1 .. Len(more) : sent'[Len(sent) + i] = more[i]
    /\ \A queue \in Seq(DatagramsToClient), from \in Nat :
         Follows(queue \o toClient, from, sent) => Follows(queue \o toClient', from, sent')

LEMMA SendDoes ==
    ASSUME TypesOfMediator, NEW more \in Seq(PayloadsToClient), Send(more)
    PROVE  Sends(more)
<1> DEFINE new == [i \in DOMAIN more |-> EncodeByMediator(more[i])]
<1>1. sent' = sent \o more /\ toClient' = toClient \o new
  BY DEF Send
<1>2. sent \in Seq(PayloadsToClient) /\ toClient \in Seq(DatagramsToClient)
  BY DEF TypesOfMediator
<1>3. DOMAIN more = 1 .. Len(more) /\ Len(more) \in Nat /\ Len(sent) \in Nat
  BY <1>2, LenProperties
<1>4. \A i \in 1 .. Len(more) : EncodeByMediator(more[i]) \in DatagramsToClient
  BY ElementOfSeq DEF DatagramsToClient
<1>5. new \in Seq(DatagramsToClient)
  <2>1. new \in [1 .. Len(more) -> DatagramsToClient]
    BY <1>3, <1>4
  <2> HIDE DEF new
  <2>2. QED
    BY <1>3, <2>1, SeqDef
<1> DEFINE all == sent \o more
<1>6. /\ all \in Seq(PayloadsToClient) /\ Len(all) = Len(sent) + Len(more)
      /\ \A i \in 1 .. Len(sent) + Len(more) :
           all[i] = IF i <= Len(sent) THEN sent[i] ELSE more[i - Len(sent)]
  BY <1>2, ConcatProperties
<1>7. toClient \o new \in Seq(DatagramsToClient)
  <2> HIDE DEF new
  <2>1. QED
    BY <1>2, <1>5, ConcatProperties
<1>8. ASSUME NEW queue \in Seq(DatagramsToClient), NEW from \in Nat,
             Follows(queue \o toClient, from, sent)
      PROVE  Follows(queue \o toClient', from, sent')
  <2> DEFINE stream == queue \o toClient
             fresh == new
  <2>1. stream \in Seq(DatagramsToClient)
    BY <1>2, ConcatProperties
  <2>2. fresh \in Seq(DatagramsToClient)
        /\ fresh = [i \in DOMAIN more |-> EncodeByMediator(more[i])]
    BY <1>5
  <2> HIDE DEF fresh, new
  <2>3. Follows(stream, from, sent)
    BY <1>8
  <2> HIDE DEF stream
  <2>4. Follows(stream \o fresh, from, sent \o more)
    BY <1>2, <2>1, <2>2, <2>3, FollowsSent
  <2>5. Grouped(queue, toClient, fresh)
    BY <1>2, <2>2, AllGrouped, Zenon
  <2>6. stream \o fresh = queue \o (toClient \o fresh)
    BY <2>5, Zenon DEF Grouped, stream
  <2>7. toClient' = toClient \o fresh /\ sent' = sent \o more
    BY <1>1 DEF fresh
  <2>8. QED
    BY <2>4, <2>6, <2>7
<1> HIDE DEF new, all
<1>9. \A i \in 1 .. Len(sent) : all[i] = sent[i]
  BY <1>3, <1>6
<1>10. \A i \in 1 .. Len(more) : all[Len(sent) + i] = more[i]
  <2>1. ASSUME NEW i \in 1 .. Len(more)
        PROVE  all[Len(sent) + i] = more[i]
    <3>1. /\ Len(sent) + i \in 1 .. Len(sent) + Len(more) /\ ~(Len(sent) + i <= Len(sent))
          /\ (Len(sent) + i) - Len(sent) = i
      BY <1>3
    <3>2. all[Len(sent) + i] = more[(Len(sent) + i) - Len(sent)]
      BY <1>6, <3>1
    <3>3. QED
      BY <3>1, <3>2
  <2>2. QED
    BY <2>1
<1>11. sent' = all /\ toClient' \in Seq(DatagramsToClient)
  BY <1>1, <1>7 DEF all
<1>12. QED
  BY <1>6, <1>8, <1>9, <1>10, <1>11 DEF Sends

\* What is sent once the hello is answered, and what is malformed.
Later(payload) ==
    /\ payload \in PayloadsToClient
    /\ \/ IsMalformed(payload)
       \/ Sendable(payload) /\ payload # Info /\ mediator.at = "open"

LEMMA LaterPayloads ==
    /\ \A kind \in {"ReflectionQueueDry", "BeginTransactionAck", "CommitTransactionAck"} :
         mediator.at = "open" => Later(Empty(kind))
    /\ \A kind \in {"TransactionRejected", "TransactionEnded"} :
         mediator.at = "open" => Later(HeldBy(kind))
    /\ \A payload \in Pushes : mediator.at = "open" => Later(payload)
    /\ \A datagram \in Malformed : Later(MalformedPayload(datagram))
<1>1. \A kind \in {"ReflectionQueueDry", "BeginTransactionAck", "CommitTransactionAck"} :
         Sendable(Empty(kind)) /\ Empty(kind) \in PayloadsToClient /\ Empty(kind) # Info
  <2>1. ASSUME NEW kind \in {"ReflectionQueueDry", "BeginTransactionAck", "CommitTransactionAck"}
        PROVE  Empty(kind) \in PayloadsToClient /\ Empty(kind) # Info
    <3>1. Empty(kind).kind = kind /\ Info.kind = "ServerInfo"
      BY DEF Empty, Info
    <3>2. QED
      BY <3>1 DEF PayloadsToClient
  <2>2. QED
    BY <2>1, AnswersSendable
<1>2. \A kind \in {"TransactionRejected", "TransactionEnded"} :
         Sendable(HeldBy(kind)) /\ HeldBy(kind) \in PayloadsToClient /\ HeldBy(kind) # Info
  <2>1. ASSUME NEW kind \in {"TransactionRejected", "TransactionEnded"}
        PROVE  HeldBy(kind) \in PayloadsToClient /\ HeldBy(kind) # Info
    <3>1. HeldBy(kind).kind = kind /\ Info.kind = "ServerInfo"
      BY DEF HeldBy, Info
    <3>2. QED
      BY <3>1 DEF PayloadsToClient
  <2>2. QED
    BY <2>1, AnswersSendable
<1>3. \A payload \in Pushes :
         Sendable(payload) /\ payload \in PayloadsToClient /\ payload # Info
  <2>1. ASSUME NEW payload \in Pushes
        PROVE  payload # Info
    <3>1. payload \in PushedPayloads
      BY D2mAssumption
    <3>2. payload.kind # "ServerInfo"
      BY <3>1 DEF PushedPayloads, PushedKinds
    <3>3. Info.kind = "ServerInfo"
      BY DEF Info
    <3>4. QED
      BY <3>2, <3>3
  <2>2. QED
    BY <2>1, AnswersSendable DEF PayloadsToClient
<1>4. \A datagram \in Malformed : Later(MalformedPayload(datagram))
  BY DEF Later, IsMalformed, PayloadsToClient
<1>5. QED
  BY <1>1, <1>2, <1>3, <1>4 DEF Later

MediatorKeeps ==
    /\ mediator' \in [at : {"hello", "open", "closed"}, version : ServerVersions,
                      lock : {"none", "client", "other"}]
    /\ mediator'.version = mediator.version /\ mediator'.at \in {mediator.at, "closed"}
    /\ mediator.at = "hello" => mediator'.lock # "client"

Quiet == MediatorKeeps /\ UNCHANGED <<sent, toClient>>
SendsOne == MediatorKeeps /\ \E payload : Later(payload) /\ Sends(<<payload>>)
AnswersHello ==
    /\ mediator.at = "hello" /\ mediator' = [mediator EXCEPT !.at = "open"]
    /\ Sends(<<Info, Reflected(1), Empty("ReflectionQueueDry")>>)

LEMMA OneMore ==
    ASSUME TypesOfMediator, NEW payload, Later(payload), Send(<<payload>>), MediatorKeeps
    PROVE  SendsOne
<1>1. <<payload>> \in Seq(PayloadsToClient)
  BY DEF Later
<1>2. QED
  BY <1>1, SendDoes DEF SendsOne

LEMMA NoMore ==
    ASSUME TypesOfMediator, Send(<<>>)
    PROVE  UNCHANGED <<sent, toClient>>
<1> DEFINE new == [i \in DOMAIN <<>> |-> EncodeByMediator(<<>>[i])]
<1>1. sent' = sent \o <<>> /\ toClient' = toClient \o new
  BY DEF Send
<1>2. new = <<>>
  <2>1. DOMAIN <<>> = {}
    BY LenProperties, EmptySeq
  <2>2. QED
    BY <2>1
<1> HIDE DEF new
<1>3. sent \in Seq(PayloadsToClient) /\ toClient \in Seq(DatagramsToClient)
  BY DEF TypesOfMediator
<1>4. sent \o <<>> = sent /\ toClient \o <<>> = toClient
  BY <1>3, ConcatEmptySeq
<1>5. QED
  BY <1>1, <1>2, <1>4

LEMMA MediatorSteps ==
    ASSUME TypesOfMediator, Sent
    PROVE  /\ MediatorReceives => Quiet \/ SendsOne \/ AnswersHello
           /\ MediatorPushes => SendsOne
           /\ OtherBegins => Quiet
           /\ OtherEnds => Quiet \/ SendsOne
           /\ MediatorCloses => Quiet
<1>1. mediator \in [at : {"hello", "open", "closed"}, version : ServerVersions,
                    lock : {"none", "client", "other"}]
  BY DEF TypesOfMediator
<1>2. mediator.at = "hello" => mediator.lock # "client"
  BY DEF Sent
<1>3. ASSUME mediator' = mediator \/ mediator' = [mediator EXCEPT !.at = "closed"]
      PROVE  MediatorKeeps
  BY <1>1, <1>2, <1>3 DEF MediatorKeeps
<1>4. ASSUME NEW lock \in {"none", "client", "other"}, mediator' = [mediator EXCEPT !.lock = lock],
             mediator.at = "open" \/ lock # "client"
      PROVE  MediatorKeeps
  BY <1>1, <1>2, <1>4 DEF MediatorKeeps
<1>5. ASSUME MediatorReceives
      PROVE  Quiet \/ SendsOne \/ AnswersHello
  <2>1. PICK request \in RequestsFromClient : AnswersTo(request)
    BY <1>5, MediatorDoes
  <2>2. CASE Greeted
    <3>1. Info \in PayloadsToClient /\ Reflected(1) \in PayloadsToClient
          /\ Empty("ReflectionQueueDry") \in PayloadsToClient
      BY DEF Info, PayloadsToClient
    <3>2. <<Info, Reflected(1), Empty("ReflectionQueueDry")>> \in Seq(PayloadsToClient)
      BY <3>1
    <3>3. Sends(<<Info, Reflected(1), Empty("ReflectionQueueDry")>>)
      BY <2>2, <3>2, SendDoes DEF Greeted
    <3>4. QED
      BY <2>2, <3>3 DEF Greeted, AnswersHello
  <2>3. CASE Granted
    <3>1. Later(Empty("BeginTransactionAck"))
      BY <2>3, LaterPayloads DEF Granted
    <3>2. MediatorKeeps
      BY <1>4, <2>3 DEF Granted
    <3>3. QED
      BY <2>3, <3>1, <3>2, OneMore DEF Granted
  <2>4. CASE Rejected
    <3>1. Later(HeldBy("TransactionRejected"))
      BY <2>4, LaterPayloads DEF Rejected
    <3>2. MediatorKeeps
      BY <1>3, <2>4 DEF Rejected
    <3>3. QED
      BY <2>4, <3>1, <3>2, OneMore DEF Rejected
  <2>5. CASE Committed
    <3>1. Later(Empty("CommitTransactionAck"))
      BY <2>5, LaterPayloads DEF Committed
    <3>2. MediatorKeeps
      BY <1>4, <2>5 DEF Committed
    <3>3. QED
      BY <2>5, <3>1, <3>2, OneMore DEF Committed
  <2>6. CASE Silent
    BY <1>3, <2>6, NoMore DEF Silent, Quiet
  <2>7. QED
    BY <2>1, <2>2, <2>3, <2>4, <2>5, <2>6 DEF AnswersTo
<1>6. ASSUME MediatorPushes
      PROVE  SendsOne
  <2>1. PICK payload : Later(payload) /\ Send(<<payload>>)
    BY <1>6, LaterPayloads DEF MediatorPushes
  <2>2. MediatorKeeps
    BY <1>3, <1>6 DEF MediatorPushes
  <2>3. QED
    BY <2>1, <2>2, OneMore
<1>7. ASSUME OtherBegins
      PROVE  Quiet
  BY <1>4, <1>7 DEF OtherBegins, Quiet
<1>8. ASSUME OtherEnds
      PROVE  Quiet \/ SendsOne
  <2>1. MediatorKeeps
    BY <1>4, <1>8 DEF OtherEnds
  <2>2. CASE mediator.at = "open"
    <3>1. Send(<<HeldBy("TransactionEnded")>>)
      BY <1>8, <2>2 DEF OtherEnds
    <3>2. Later(HeldBy("TransactionEnded"))
      BY <2>2, LaterPayloads
    <3>3. QED
      BY <2>1, <3>1, <3>2, OneMore
  <2>3. CASE mediator.at # "open"
    <3>1. Send(<<>>)
      BY <1>8, <2>3 DEF OtherEnds
    <3>2. QED
      BY <2>1, <3>1, NoMore DEF Quiet
  <2>4. QED
    BY <2>2, <2>3
<1>9. ASSUME MediatorCloses
      PROVE  Quiet
  BY <1>3, <1>9 DEF MediatorCloses, Quiet
<1>10. QED
  BY <1>5, <1>6, <1>7, <1>8, <1>9

LEMMA SentKept ==
    ASSUME TypesOfMediator, Sent, Quiet \/ SendsOne \/ AnswersHello
    PROVE  Sent' /\ sent' \in Seq(PayloadsToClient) /\ toClient' \in Seq(DatagramsToClient)
<1>1. /\ sent \in Seq(PayloadsToClient) /\ toClient \in Seq(DatagramsToClient)
      /\ Len(sent) \in Nat /\ Len(sent) >= 1
  BY LenProperties DEF TypesOfMediator, Sent
<1>2. CASE Quiet
  <2>1. UNCHANGED <<sent, toClient>> /\ MediatorKeeps
    BY <1>2 DEF Quiet
  <2>2. Sent'
    BY <2>1 DEF Sent, MediatorKeeps
  <2>3. QED
    BY <1>1, <2>1, <2>2
<1>3. CASE SendsOne
  <2>1. PICK payload : Later(payload) /\ Sends(<<payload>>)
    BY <1>3 DEF SendsOne
  <2>2. MediatorKeeps
    BY <1>3 DEF SendsOne
  <2>3. Len(<<payload>>) = 1 /\ <<payload>>[1] = payload
    OBVIOUS
  <2>4. /\ Len(sent') = Len(sent) + 1 /\ sent'[Len(sent) + 1] = payload
        /\ \A i \in 1 .. Len(sent) : sent'[i] = sent[i]
    BY <2>1, <2>3 DEF Sends
  <2>5. Len(sent') >= 1 /\ sent'[1] = Hello(mediator'.version)
    BY <1>1, <2>2, <2>4 DEF Sent, MediatorKeeps
  <2>6. ASSUME NEW i \in 2 .. Len(sent')
        PROVE  IsMalformed(sent'[i]) \/ IF sent'[i] = Info THEN sent'[2] # Info \/ i = 2
                                        ELSE i > 2 /\ Sendable(sent'[i])
    <3>1. CASE i <= Len(sent)
      <4>1. i \in 2 .. Len(sent) /\ 2 \in 1 .. Len(sent) /\ i \in 1 .. Len(sent)
        BY <1>1, <3>1
      <4>2. sent'[i] = sent[i] /\ sent'[2] = sent[2]
        BY <2>4, <4>1
      <4>3. QED
        BY <4>1, <4>2 DEF Sent
    <3>2. CASE ~(i <= Len(sent))
      <4>1. i = Len(sent) + 1
        BY <1>1, <2>4, <3>2
      <4>2. sent'[i] = payload
        BY <2>4, <4>1
      <4>3. CASE IsMalformed(payload)
        BY <4>2, <4>3
      <4>4. CASE ~IsMalformed(payload)
        <5>1. Sendable(payload) /\ payload # Info /\ mediator.at = "open"
          BY <2>1, <4>4 DEF Later
        <5>2. i > 2
          BY <1>1, <4>1, <5>1 DEF Sent
        <5>3. QED
          BY <4>2, <5>1, <5>2
      <4>5. QED
        BY <4>3, <4>4
    <3>3. QED
      BY <3>1, <3>2
  <2>7. ASSUME mediator'.at = "hello"
        PROVE  mediator'.lock # "client" /\ \A i \in 2 .. Len(sent') : IsMalformed(sent'[i])
    <3>1. mediator.at = "hello" /\ mediator'.lock # "client"
      BY <2>2, <2>7 DEF MediatorKeeps
    <3>2. IsMalformed(payload)
      BY <2>1, <3>1 DEF Later
    <3>3. ASSUME NEW i \in 2 .. Len(sent')
          PROVE  IsMalformed(sent'[i])
      <4>1. CASE i <= Len(sent)
        <5>1. i \in 2 .. Len(sent) /\ i \in 1 .. Len(sent)
          BY <1>1, <4>1
        <5>2. QED
          BY <2>4, <3>1, <5>1 DEF Sent
      <4>2. CASE ~(i <= Len(sent))
        <5>1. i = Len(sent) + 1
          BY <1>1, <2>4, <4>2
        <5>2. QED
          BY <2>4, <3>2, <5>1
      <4>3. QED
        BY <4>1, <4>2
    <3>4. QED
      BY <3>1, <3>3
  <2>8. mediator'.at = "open" => Len(sent') >= 2
    <3>1. mediator'.at = "open" => mediator.at = "open"
      BY <2>2 DEF MediatorKeeps
    <3>2. QED
      BY <1>1, <2>4, <3>1 DEF Sent
  <2>9. Sent'
    BY <2>5, <2>6, <2>7, <2>8 DEF Sent
  <2>10. QED
    BY <2>1, <2>9 DEF Sends
<1>4. CASE AnswersHello
  <2> DEFINE last == Empty("ReflectionQueueDry")
             l == Len(sent)
  <2>1. /\ Len(sent') = Len(sent) + 3
        /\ \A i \in 1 .. Len(sent) : sent'[i] = sent[i]
        /\ sent'[Len(sent) + 1] = Info /\ sent'[Len(sent) + 2] = Reflected(1)
        /\ sent'[Len(sent) + 3] = last
    <3> DEFINE more == <<Info, Reflected(1), last>>
    <3>1. Sends(more)
      BY <1>4 DEF AnswersHello
    <3> HIDE DEF last
    <3>2. Len(more) = 3 /\ more[1] = Info /\ more[2] = Reflected(1) /\ more[3] = last
      OBVIOUS
    <3> HIDE DEF more
    <3>3. QED
      BY <3>1, <3>2 DEF Sends
  <2>2. /\ mediator.at = "hello" /\ mediator'.at = "open" /\ mediator'.version = mediator.version
    BY <1>4 DEF AnswersHello, TypesOfMediator
  <2>3. Sendable(Reflected(1)) /\ Sendable(last)
    BY AnswersSendable
  <2>4. ASSUME NEW payload, IsMalformed(payload)
        PROVE  payload # Info
    BY <2>4 DEF IsMalformed, MalformedPayload, Info
  <2>5. Reflected(1) # Info /\ last # Info
    BY DEF Reflected, Info, Empty
  <2> HIDE DEF last
  <2>6. Len(sent') >= 2 /\ sent'[1] = Hello(mediator'.version)
    BY <1>1, <2>1, <2>2 DEF Sent
  <2>7. ASSUME NEW i \in 2 .. Len(sent')
        PROVE  IsMalformed(sent'[i]) \/ IF sent'[i] = Info THEN sent'[2] # Info \/ i = 2
                                        ELSE i > 2 /\ Sendable(sent'[i])
    <3>1. CASE i <= Len(sent)
      <4>1. i \in 2 .. Len(sent) /\ i \in 1 .. Len(sent)
        BY <1>1, <3>1
      <4>2. IsMalformed(sent[i]) /\ sent'[i] = sent[i]
        BY <2>1, <2>2, <4>1 DEF Sent
      <4>3. QED
        BY <4>2
    <3>2. CASE i = Len(sent) + 1
      <4>1. ASSUME i # 2
            PROVE  sent'[2] # Info
        <5>1. 2 \in 2 .. Len(sent) /\ 2 \in 1 .. Len(sent)
          BY <1>1, <3>2, <4>1
        <5>2. IsMalformed(sent[2]) /\ sent'[2] = sent[2]
          BY <2>1, <2>2, <5>1 DEF Sent
        <5>3. QED
          BY <2>4, <5>2
      <4>2. QED
        BY <2>1, <3>2, <4>1
    <3>3. CASE i = Len(sent) + 2
      <4>1. i > 2
        BY <1>1, <3>3
      <4>2. QED
        BY <2>1, <2>3, <2>5, <3>3, <4>1
    <3>4. CASE i = Len(sent) + 3
      <4>1. i > 2
        BY <1>1, <3>4
      <4>2. QED
        BY <2>1, <2>3, <2>5, <3>4, <4>1
    <3>5. QED
      BY <1>1, <2>1, <3>1, <3>2, <3>3, <3>4
  <2>8. Sent'
    BY <2>2, <2>6, <2>7 DEF Sent
  <2>9. QED
    BY <1>4, <2>8 DEF AnswersHello, Sends
<1>5. QED
  BY <1>2, <1>3, <1>4

-----------------------------------------------------------------------------
(* The types are kept                                                      *)

RunnerType ==
    [at : {"handshake", "poll", "send", "select", "closed"}, payload : Seq(HandedPayloads)]

LEMMA RunnerTypes ==
    /\ \A at \in {"handshake", "poll", "select"} :
         Payload(at) \in RunnerType /\ Payload(at).at = at /\ Len(Payload(at).payload) = 0
    /\ Closed \in RunnerType /\ Closed.at = "closed" /\ Len(Closed.payload) = 0
    /\ \A handed \in HandedPayloads :
         /\ [at |-> "send", payload |-> <<handed>>] \in RunnerType
         /\ Len([at |-> "send", payload |-> <<handed>>].payload) = 1
BY DEF RunnerType, Payload, Closed

\* An advance of the protocol leaves it in a state of its type.
LEMMA AdvanceTypes ==
    ASSUME NEW state \in ProtocolStates \ {"Error"}, Advances(state), runner' \in RunnerType,
           runner'.at \in {"poll", "send", "select"} => state = "PostHandshake",
           Len(runner'.payload) = (IF runner'.at = "send" THEN 1 ELSE 0)
    PROVE  TypesOfClient' /\ protocol'.state = state
<1>1. /\ protocol' = [state |-> state, error |-> "none", datagrams |-> protocol'.datagrams]
      /\ protocol'.datagrams \in Seq(DatagramsToClient)
  BY DEF Advances, Takes
<1>2. protocol'.state = state /\ protocol'.error = "none"
  BY <1>1
<1>3. protocol' = [state |-> protocol'.state, error |-> protocol'.error,
                   datagrams |-> protocol'.datagrams]
  BY <1>1, <1>2
<1>4. QED
  BY <1>1, <1>2, <1>3 DEF TypesOfClient, RunnerType

LEMMA BreakTypes ==
    ASSUME Breaks
    PROVE  TypesOfClient' /\ protocol'.state = "Error" /\ protocol'.datagrams = <<>>
<1>1. PICK error : error # "none"
        /\ protocol' = [state |-> "Error", error |-> error, datagrams |-> <<>>]
  BY DEF Breaks
<1>2. protocol'.state = "Error" /\ protocol'.error = error /\ protocol'.datagrams = <<>>
  BY <1>1
<1>3. runner' = Closed
  BY DEF Breaks
<1>4. protocol' = [state |-> protocol'.state, error |-> protocol'.error,
                   datagrams |-> protocol'.datagrams]
  BY <1>1, <1>2
<1>5. QED
  BY <1>1, <1>2, <1>3, <1>4, RunnerTypes DEF TypesOfClient, RunnerType, ProtocolStates, Closed

\* The protocol stays in its state.
LEMMA StayTypes ==
    ASSUME TypesOfClient, protocol.state # "Error",
           protocol' = [state |-> protocol.state, error |-> protocol.error,
                        datagrams |-> protocol'.datagrams],
           protocol'.datagrams \in Seq(DatagramsToClient), runner' \in RunnerType,
           runner'.at \in {"poll", "send", "select"} => protocol.state = "PostHandshake",
           Len(runner'.payload) = (IF runner'.at = "send" THEN 1 ELSE 0)
    PROVE  TypesOfClient' /\ protocol'.state = protocol.state
<1>1. protocol'.state = protocol.state /\ protocol'.error = protocol.error
  OBVIOUS
<1>2. protocol' = [state |-> protocol'.state, error |-> protocol'.error,
                   datagrams |-> protocol'.datagrams]
  BY <1>1
<1>3. QED
  BY <1>1, <1>2 DEF TypesOfClient, RunnerType

LEMMA ClientTypes ==
    ASSUME TypesOfClient, TypesOfApp, TypesOfMediator, Sent, Arrived, [Next]_vars
    PROVE  TypesOfClient'
<1>1. ASSUME RunHandshake
      PROVE  TypesOfClient'
  <2>1. CASE Breaks
    BY <2>1, BreakTypes
  <2>2. CASE Greet
    <3>1. runner' = runner /\ runner.at = "handshake" /\ Advances("AwaitingServerInfo")
      BY <1>1, <2>2 DEF Greet, RunHandshake
    <3>2. runner' \in RunnerType /\ Len(runner'.payload) = 0
      BY <3>1 DEF TypesOfClient, RunnerType
    <3>3. QED
      BY <3>1, <3>2, AdvanceTypes DEF ProtocolStates
  <2>3. CASE Open
    <3>1. runner' = Payload("poll") /\ Advances("PostHandshake")
      BY <2>3 DEF Open
    <3>2. QED
      BY <3>1, RunnerTypes, AdvanceTypes DEF ProtocolStates
  <2>4. QED
    BY <1>1, <2>1, <2>2, <2>3, HandshakeDoes
<1>2. ASSUME PollPayload
      PROVE  TypesOfClient'
  <2>1. CASE Breaks
    BY <2>1, BreakTypes
  <2>2. CASE HandOut
    <3>1. PICK handed :
            /\ HandedFor(handed, sent[3 + Len(HandedOut)])
            /\ runner' = [at |-> "send", payload |-> <<handed>>]
      BY <2>2 DEF HandOut
    <3>2. handed \in HandedPayloads /\ Advances("PostHandshake")
      BY <2>2, <3>1 DEF HandedFor, HandOut
    <3>3. runner' \in RunnerType /\ runner'.at = "send" /\ Len(runner'.payload) = 1
      BY <3>1, <3>2, RunnerTypes
    <3>4. QED
      BY <3>2, <3>3, AdvanceTypes DEF ProtocolStates
  <2>3. CASE Waits
    <3>1. runner' = Payload("select") /\ protocol' = protocol
          /\ protocol.state = "PostHandshake"
      BY <1>2, <2>3 DEF Waits, PollPayload, TypesOfClient
    <3>2. runner' \in RunnerType /\ runner'.at = "select" /\ Len(runner'.payload) = 0
      BY <3>1, RunnerTypes
    <3>3. QED
      BY <3>1, <3>2 DEF TypesOfClient, RunnerType
  <2>4. QED
    BY <1>2, <2>1, <2>2, <2>3, PollDoes
<1>3. ASSUME SendIncoming \/ SendOutgoing
      PROVE  TypesOfClient'
  <2>1. runner' = Payload("poll") /\ protocol' = protocol /\ protocol.state = "PostHandshake"
    BY <1>3 DEF SendIncoming, SendOutgoing, OnceHandedOver, TypesOfClient
  <2>2. runner' \in RunnerType /\ runner'.at = "poll" /\ Len(runner'.payload) = 0
    BY <2>1, RunnerTypes
  <2>3. QED
    BY <2>1, <2>2 DEF TypesOfClient, RunnerType
<1>4. ASSUME Receive
      PROVE  TypesOfClient'
  <2>1. protocol.state = "PostHandshake"
    BY <1>4 DEF Receive, TypesOfClient
  <2>2. /\ runner' = Payload("poll")
        /\ protocol' = [state |-> protocol.state, error |-> protocol.error,
                        datagrams |-> protocol'.datagrams]
        /\ protocol'.datagrams \in Seq(DatagramsToClient)
    BY <1>4, ReceiveDoes
  <2>3. runner' \in RunnerType /\ runner'.at = "poll" /\ Len(runner'.payload) = 0
    BY <2>2, RunnerTypes
  <2>4. QED
    BY <2>1, <2>2, <2>3, StayTypes
<1>5. ASSUME ConnectionLost
      PROVE  TypesOfClient'
  <2>1. runner' = Closed /\ protocol' = protocol
    BY <1>5 DEF ConnectionLost
  <2>2. QED
    BY <2>1, RunnerTypes DEF TypesOfClient, RunnerType
<1>6. ASSUME UNCHANGED <<protocol, runner>>
      PROVE  TypesOfClient'
  BY <1>6 DEF TypesOfClient
<1>7. QED
  BY <1>1, <1>2, <1>3, <1>4, <1>5, <1>6
  DEF Next, Runner, App, vars, client, CreateEarly, AppHandles, AppSends, AppTicks,
      MediatorReceives, MediatorPushes, OtherBegins, OtherEnds, MediatorCloses

LEMMA AppPayloads ==
    /\ BeginTransaction \in PayloadsFromClient /\ CommitTransaction \in PayloadsFromClient
    /\ Proxied \in PayloadsFromClient
    /\ \A id \in 0 .. MaxReflectId :
         id # MaxReflectId =>
           id + 1 \in 0 .. MaxReflectId /\ Reflect(id + 1) \in PayloadsFromClient
<1>1. MaxReflectId \in Nat
  BY D2mAssumption DEF FitsIn
<1>2. ASSUME NEW id \in 0 .. MaxReflectId, id # MaxReflectId
      PROVE  id + 1 \in 1 .. MaxReflectId
  BY <1>1, <1>2
<1>3. QED
  BY <1>1, <1>2 DEF PayloadsFromClient

LEMMA AppTypes ==
    ASSUME TypesOfClient, TypesOfApp, [Next]_vars
    PROVE  TypesOfApp'
<1>1. /\ incoming \in Seq(HandedPayloads) /\ handled \in Seq(HandedPayloads)
      /\ outgoing \in Seq(PayloadsFromClient) /\ app.send \in Seq(PayloadsFromClient)
      /\ Len(incoming) \in Nat /\ Len(outgoing) \in Nat /\ QueueCapacity \in Nat
  BY D2mAssumption, LenProperties DEF TypesOfApp
<1>2. ASSUME SendIncoming
      PROVE  TypesOfApp'
  <2>1. /\ incoming' = incoming \o runner.payload /\ Len(incoming) < QueueCapacity
        /\ UNCHANGED <<outgoing, app, handled>> /\ runner.at = "send"
    BY <1>2 DEF SendIncoming
  <2>2. runner.payload \in Seq(HandedPayloads) /\ Len(runner.payload) = 1
    BY <2>1 DEF TypesOfClient
  <2>3. incoming' \in Seq(HandedPayloads) /\ Len(incoming') = Len(incoming) + 1
    <3> DEFINE payload == runner.payload
    <3>1. incoming' = incoming \o payload
      BY <2>1
    <3>2. payload \in Seq(HandedPayloads) /\ Len(payload) = 1
      BY <2>2
    <3> HIDE DEF payload
    <3>3. /\ incoming \o payload \in Seq(HandedPayloads)
          /\ Len(incoming \o payload) = Len(incoming) + Len(payload)
      BY <1>1, <3>2, ConcatProperties
    <3>4. QED
      BY <3>1, <3>2, <3>3
  <2>4. Len(incoming') <= QueueCapacity
    BY <1>1, <2>1, <2>3
  <2>5. QED
    BY <2>1, <2>3, <2>4 DEF TypesOfApp
<1>3. ASSUME SendOutgoing
      PROVE  TypesOfApp'
  <2>1. outgoing' = Tail(outgoing) /\ outgoing # <<>> /\ UNCHANGED <<incoming, app, handled>>
    BY <1>3 DEF SendOutgoing
  <2>2. outgoing' \in Seq(PayloadsFromClient) /\ Len(outgoing') = Len(outgoing) - 1
    BY <1>1, <2>1, HeadTailProperties
  <2>3. Len(outgoing') <= QueueCapacity
    BY <1>1, <2>2 DEF TypesOfApp
  <2>4. QED
    BY <2>1, <2>2, <2>3 DEF TypesOfApp
<1>4. ASSUME AppHandles
      PROVE  TypesOfApp'
  <2> DEFINE payload == Head(incoming)
             result == Handle(app.transaction, payload)
  <2>1. /\ handled' = Append(handled, payload) /\ incoming' = Tail(incoming)
        /\ app' = [app EXCEPT !.transaction = result.to, !.send = result.send]
        /\ incoming # <<>> /\ outgoing' = outgoing
    BY <1>4 DEF AppHandles
  <2>2. payload \in HandedPayloads /\ incoming' \in Seq(HandedPayloads)
        /\ Len(incoming') = Len(incoming) - 1
    BY <1>1, <2>1, HeadTailProperties
  <2>3. handled' \in Seq(HandedPayloads)
    BY <1>1, <2>1, <2>2, AppendProperties
  <2>4. /\ result.to \in {"None", "Blocked", "AwaitingBeginAck", "Running", "AwaitingCommitAck"}
        /\ result.send \in {<<>>, <<BeginTransaction>>}
    <3> HIDE DEF payload
    <3>1. QED
      BY DEF Handle, TypesOfApp
  <2> HIDE DEF result, payload
  <2>5. result.send \in Seq(PayloadsFromClient) /\ Len(result.send) <= 1
    <3>1. <<>> \in Seq(PayloadsFromClient) /\ Len(<<>>) = 0
      BY EmptySeq
    <3>2. <<BeginTransaction>> \in Seq(PayloadsFromClient) /\ Len(<<BeginTransaction>>) = 1
      BY AppPayloads
    <3> DEFINE begin == <<BeginTransaction>>
               none == <<>>
    <3>3. result.send = none \/ result.send = begin
      BY <2>4
    <3>4. /\ none \in Seq(PayloadsFromClient) /\ Len(none) <= 1
          /\ begin \in Seq(PayloadsFromClient) /\ Len(begin) <= 1
      BY <3>1, <3>2
    <3> HIDE DEF begin, none
    <3>5. QED
      BY <3>3, <3>4
  <2>6. Len(incoming') <= QueueCapacity
    BY <1>1, <2>2 DEF TypesOfApp
  <2>7. app' \in [transaction : {"None", "Blocked", "AwaitingBeginAck", "Running",
                                 "AwaitingCommitAck"},
                  reflectId : 0 .. MaxReflectId, send : Seq(PayloadsFromClient)]
        /\ app'.send = result.send
    BY <2>1, <2>4, <2>5 DEF TypesOfApp
  <2>8. QED
    BY <1>1, <2>1, <2>2, <2>3, <2>5, <2>6, <2>7 DEF TypesOfApp
<1>5. ASSUME AppTicks
      PROVE  TypesOfApp'
  <2>1. UNCHANGED <<incoming, outgoing, handled>>
    BY <1>5 DEF AppTicks
  <2>2. PICK transaction \in {app.transaction, "AwaitingBeginAck", "AwaitingCommitAck"},
             id \in {app.reflectId, app.reflectId + 1}, send \in Seq(PayloadsFromClient) :
          /\ id \in 0 .. MaxReflectId /\ Len(send) <= 1
          /\ app' = [app EXCEPT !.transaction = transaction, !.reflectId = id, !.send = send]
    <3>1. app = [transaction |-> app.transaction, reflectId |-> app.reflectId, send |-> app.send]
          /\ Len(app.send) <= 1 /\ app.reflectId \in 0 .. MaxReflectId
      BY DEF TypesOfApp
    <3>2. /\ <<BeginTransaction>> \in Seq(PayloadsFromClient) /\ Len(<<BeginTransaction>>) <= 1
          /\ <<CommitTransaction>> \in Seq(PayloadsFromClient) /\ Len(<<CommitTransaction>>) <= 1
      BY AppPayloads
    <3>3. CASE app' = [app EXCEPT !.transaction = "AwaitingBeginAck",
                                  !.send = <<BeginTransaction>>]
      <4>1. app' = [app EXCEPT !.transaction = "AwaitingBeginAck",
                               !.reflectId = app.reflectId, !.send = <<BeginTransaction>>]
        BY <3>1, <3>3
      <4>2. QED
        BY <3>1, <3>2, <4>1
    <3>4. CASE app' = [app EXCEPT !.transaction = "AwaitingCommitAck",
                                  !.send = <<CommitTransaction>>]
      <4>1. app' = [app EXCEPT !.transaction = "AwaitingCommitAck",
                               !.reflectId = app.reflectId, !.send = <<CommitTransaction>>]
        BY <3>1, <3>4
      <4>2. QED
        BY <3>1, <3>2, <4>1
    <3>5. CASE app' = app
      <4>1. app' = [app EXCEPT !.transaction = app.transaction,
                               !.reflectId = app.reflectId, !.send = app.send]
        BY <3>1, <3>5
      <4>2. QED
        BY <1>1, <3>1, <4>1
    <3>6. CASE /\ app.reflectId # MaxReflectId
               /\ app' = [app EXCEPT !.reflectId = @ + 1, !.send = <<Reflect(app.reflectId + 1)>>]
      <4> DEFINE send == <<Reflect(app.reflectId + 1)>>
      <4>1. /\ app.reflectId + 1 \in 0 .. MaxReflectId
            /\ send \in Seq(PayloadsFromClient) /\ Len(send) <= 1
        BY <3>1, <3>6, AppPayloads
      <4>2. app' = [app EXCEPT !.reflectId = app.reflectId + 1, !.send = send]
        BY <3>6
      <4> HIDE DEF send
      <4>3. app' = [app EXCEPT !.transaction = app.transaction,
                               !.reflectId = app.reflectId + 1, !.send = send]
        BY <3>1, <4>2
      <4>4. QED
        BY <4>1, <4>3
    <3>7. QED
      BY <1>5, <3>3, <3>4, <3>5, <3>6 DEF AppTicks
  <2>3. QED
    BY <2>1, <2>2 DEF TypesOfApp
<1>6. ASSUME AppSends
      PROVE  TypesOfApp'
  <2>1. /\ outgoing' = outgoing \o app.send /\ app' = [app EXCEPT !.send = <<>>]
        /\ Len(outgoing) < QueueCapacity /\ UNCHANGED <<incoming, handled>>
    BY <1>6 DEF AppSends
  <2>2. outgoing' \in Seq(PayloadsFromClient) /\ Len(outgoing') = Len(outgoing) + Len(app.send)
    BY <1>1, <2>1, ConcatProperties
  <2>3. Len(app.send) \in Nat /\ Len(app.send) <= 1
    BY <1>1, LenProperties DEF TypesOfApp
  <2>4. Len(outgoing') <= QueueCapacity
    BY <1>1, <2>1, <2>2, <2>3
  <2>5. app' \in [transaction : {"None", "Blocked", "AwaitingBeginAck", "Running",
                                 "AwaitingCommitAck"},
                  reflectId : 0 .. MaxReflectId, send : Seq(PayloadsFromClient)]
        /\ Len(app'.send) <= 1
    <3>1. <<>> \in Seq(PayloadsFromClient) /\ Len(<<>>) = 0
      BY EmptySeq
    <3> DEFINE none == <<>>
    <3>2. none \in Seq(PayloadsFromClient) /\ Len(none) <= 1 /\ app' = [app EXCEPT !.send = none]
      BY <2>1, <3>1
    <3> HIDE DEF none
    <3>3. QED
      BY <3>2 DEF TypesOfApp
  <2>6. QED
    BY <2>1, <2>2, <2>4, <2>5 DEF TypesOfApp
<1>7. ASSUME UNCHANGED <<incoming, outgoing, app, handled>>
      PROVE  TypesOfApp'
  BY <1>7 DEF TypesOfApp
<1>8. QED
  BY <1>2, <1>3, <1>4, <1>5, <1>6, <1>7
  DEF Next, Runner, App, vars, client, RunHandshake, CreateEarly, PollPayload, Receive,
      ConnectionLost, MediatorReceives, MediatorPushes, OtherBegins, OtherEnds, MediatorCloses

LEMMA MediatorTypes ==
    ASSUME TypesOfClient, TypesOfApp, TypesOfMediator, Sent, Arrived, [Next]_vars
    PROVE  TypesOfMediator' /\ Sent'
<1>1. /\ sent \in Seq(PayloadsToClient) /\ toClient \in Seq(DatagramsToClient)
      /\ toMediator \in Seq(DatagramsFromClient)
  BY DEF TypesOfMediator
<1>2. ASSUME UNCHANGED <<mediator, sent>>, toClient' \in Seq(DatagramsToClient),
             toMediator' \in Seq(DatagramsFromClient)
      PROVE  TypesOfMediator' /\ Sent'
  BY <1>2 DEF TypesOfMediator, Sent
<1>3. ASSUME NEW payload \in PayloadsFromClient, CreatePayload(payload)
      PROVE  toMediator' \in Seq(DatagramsFromClient)
  <2>1. DatagramOf[payload] \in DatagramsFromClient
    BY DEF DatagramsFromClient
  <2>2. QED
    BY <1>1, <1>3, <2>1, AppendProperties DEF CreatePayload
<1>4. ASSUME RunHandshake
      PROVE  TypesOfMediator' /\ Sent'
  <2>1. UNCHANGED <<mediator, sent>>
    BY <1>4 DEF RunHandshake, server
  <2>2. CASE Breaks
    BY <1>1, <1>2, <2>1, <2>2 DEF Breaks
  <2>3. CASE Greet
    <3>1. PICK version \in MinVersion .. MaxVersion :
            toMediator' = toMediator \o <<EncodeClientHello(version)>>
      BY <2>3 DEF Greet
    <3> DEFINE hello == EncodeClientHello(version)
    <3>2. hello \in DatagramsFromClient
      BY DEF DatagramsFromClient
    <3> HIDE DEF hello
    <3>3. toMediator \o <<hello>> \in Seq(DatagramsFromClient)
      BY <1>1, <3>2, ConcatProperties
    <3>4. toClient' \in Seq(DatagramsToClient)
      BY <2>3 DEF Greet, Advances, Takes
    <3>5. QED
      BY <1>2, <2>1, <3>1, <3>3, <3>4 DEF hello
  <2>4. CASE Open
    BY <1>1, <1>2, <2>1, <2>4 DEF Open, Advances, Takes
  <2>5. QED
    BY <1>4, <2>2, <2>3, <2>4, HandshakeDoes
<1>5. ASSUME CreateEarly
      PROVE  TypesOfMediator' /\ Sent'
  <2>1. UNCHANGED <<mediator, sent, toClient>>
    BY <1>5 DEF CreateEarly, server
  <2>2. toMediator' \in Seq(DatagramsFromClient)
    BY <1>3, <1>5, AppPayloads DEF CreateEarly
  <2>3. QED
    BY <1>1, <1>2, <2>1, <2>2
<1>6. ASSUME SendOutgoing
      PROVE  TypesOfMediator' /\ Sent'
  <2>1. UNCHANGED <<mediator, sent, toClient>>
    BY <1>6 DEF SendOutgoing, server
  <2>2. Head(outgoing) \in PayloadsFromClient
    BY <1>6, HeadTailProperties DEF SendOutgoing, TypesOfApp
  <2>3. toMediator' \in Seq(DatagramsFromClient)
    BY <1>3, <1>6, <2>2 DEF SendOutgoing
  <2>4. QED
    BY <1>1, <1>2, <2>1, <2>3
<1>7. ASSUME Receive
      PROVE  TypesOfMediator' /\ Sent'
  <2>1. UNCHANGED <<mediator, sent, toMediator>>
    BY <1>7 DEF Receive, server
  <2>2. toClient' \in Seq(DatagramsToClient)
    BY <1>7, ReceiveDoes
  <2>3. QED
    BY <1>1, <1>2, <2>1, <2>2
<1>8. ASSUME Quiet \/ SendsOne \/ AnswersHello, toMediator' \in Seq(DatagramsFromClient)
      PROVE  TypesOfMediator' /\ Sent'
  <2>1. Sent' /\ sent' \in Seq(PayloadsToClient) /\ toClient' \in Seq(DatagramsToClient)
    BY <1>8, SentKept
  <2>2. mediator' \in [at : {"hello", "open", "closed"}, version : ServerVersions,
                       lock : {"none", "client", "other"}]
    BY <1>8 DEF Quiet, SendsOne, AnswersHello, MediatorKeeps, TypesOfMediator
  <2>3. QED
    BY <1>8, <2>1, <2>2 DEF TypesOfMediator
<1>9. ASSUME MediatorReceives
      PROVE  TypesOfMediator' /\ Sent'
  <2>1. toMediator # <<>> /\ toMediator' = Tail(toMediator)
    BY <1>9 DEF MediatorReceives
  <2>2. toMediator' \in Seq(DatagramsFromClient)
    BY <1>1, <2>1, HeadTailProperties
  <2>3. QED
    BY <1>8, <1>9, <2>2, MediatorSteps
<1>10. ASSUME MediatorPushes \/ OtherBegins \/ OtherEnds \/ MediatorCloses
       PROVE  TypesOfMediator' /\ Sent'
  <2>1. toMediator' = toMediator
    BY <1>10 DEF MediatorPushes, OtherBegins, OtherEnds, MediatorCloses
  <2>2. QED
    BY <1>1, <1>8, <1>10, <2>1, MediatorSteps
<1>11. ASSUME UNCHANGED <<mediator, sent, toClient, toMediator>>
       PROVE  TypesOfMediator' /\ Sent'
  BY <1>1, <1>2, <1>11
<1>12. QED
  BY <1>4, <1>5, <1>6, <1>7, <1>9, <1>10, <1>11
  DEF Next, Runner, App, vars, server, PollPayload, SendIncoming, ConnectionLost,
      AppHandles, AppSends, AppTicks

-----------------------------------------------------------------------------
(* What arrives                                                            *)

LEMMA AppendTail ==
    ASSUME NEW S, NEW s \in Seq(S), NEW t \in Seq(S), t # <<>>
    PROVE  Append(s, Head(t)) \o Tail(t) = s \o t
<1> DEFINE first == <<Head(t)>>
           rest == Tail(t)
<1>1. Head(t) \in S /\ rest \in Seq(S) /\ Len(t) \in Nat /\ Len(t) > 0
  BY HeadTailProperties, EmptySeq
<1>2. first \in Seq(S) /\ Append(s, Head(t)) = s \o first
  BY <1>1, AppendIsConcat
<1>3. first \o rest = t
  <2>1. 1 \in 1 .. Len(t) /\ Len(t) \in 1 .. Len(t) /\ 1 + 1 = 2
    BY <1>1
  <2>2. SubSeq(t, 1, Len(t)) = <<t[1]>> \o SubSeq(t, 1 + 1, Len(t))
    BY <2>1, SubSeqRecursiveFirst
  <2>3. SubSeq(t, 1, Len(t)) = t /\ rest = SubSeq(t, 2, Len(t)) /\ Head(t) = t[1]
    BY SubSeqFull, TailIsSubSeq
  <2>4. QED
    BY <2>1, <2>2, <2>3
<1> HIDE DEF first, rest
<1>4. Grouped(s, first, rest)
  BY <1>1, <1>2, AllGrouped, Zenon
<1>5. QED
  BY <1>2, <1>3, <1>4 DEF Grouped, rest

LEMMA NoPayload ==
    ASSUME TypesOfClient, runner.at # "send"
    PROVE  runner.payload = <<>>
<1>1. runner.payload \in Seq(HandedPayloads) /\ Len(runner.payload) = 0
  BY DEF TypesOfClient
<1>2. QED
  BY <1>1, EmptySeq

\* A payload that is handed on is the next one, and no other step changes which
\* ones have been handed out.
LEMMA HandedOutKept ==
    ASSUME TypesOfClient, TypesOfApp, TypesOfClient', [Next]_vars,
           PollPayload => runner'.at # "send"
    PROVE  HandedOut' = HandedOut
<1>1. /\ handled \in Seq(HandedPayloads) /\ incoming \in Seq(HandedPayloads)
      /\ runner.payload \in Seq(HandedPayloads)
  BY DEF TypesOfClient, TypesOfApp
<1>2. ASSUME SendIncoming
      PROVE  HandedOut' = HandedOut
  <2>1. /\ incoming' = incoming \o runner.payload /\ handled' = handled
        /\ runner' = Payload("poll")
    BY <1>2 DEF SendIncoming, OnceHandedOver
  <2> DEFINE p == runner.payload
             more == incoming \o p
             all == handled \o more
  <2>2. runner'.payload = <<>>
    BY <2>1 DEF Payload
  <2>3. more \in Seq(HandedPayloads)
    BY <1>1, ConcatProperties
  <2>4. all \o <<>> = all
    <3>1. all \in Seq(HandedPayloads)
      <4> HIDE DEF more
      <4>1. QED
        BY <1>1, <2>3, ConcatProperties
    <3>2. QED
      BY <3>1, ConcatEmptySeq
  <2>5. (handled \o incoming) \o p = all
    <3>1. p \in Seq(HandedPayloads)
      BY <1>1
    <3> HIDE DEF p
    <3>2. Grouped(handled, incoming, p)
      BY <1>1, <3>1, AllGrouped, Zenon
    <3>3. QED
      BY <3>2, Zenon DEF Grouped
  <2>6. HandedOut' = all \o <<>>
    <3>1. HandedOut' = (handled' \o incoming') \o runner'.payload
      BY DEF HandedOut
    <3>2. QED
      BY <2>1, <2>2, <3>1
  <2>7. HandedOut = (handled \o incoming) \o p
    BY DEF HandedOut
  <2> HIDE DEF all, p, more
  <2>8. QED
    BY <2>4, <2>5, <2>6, <2>7
<1>3. ASSUME AppHandles
      PROVE  HandedOut' = HandedOut
  <2>1. /\ handled' = Append(handled, Head(incoming)) /\ incoming' = Tail(incoming)
        /\ incoming # <<>> /\ runner' = runner
    BY <1>3 DEF AppHandles
  <2>2. Append(handled, Head(incoming)) \o Tail(incoming) = handled \o incoming
    BY <1>1, <2>1, AppendTail
  <2>3. handled' \o incoming' = handled \o incoming
    BY <2>1, <2>2
  <2>4. QED
    BY <2>1, <2>3 DEF HandedOut
<1>4. ASSUME UNCHANGED <<handled, incoming>>, runner.at # "send", runner'.at # "send"
      PROVE  HandedOut' = HandedOut
  <2>1. runner.payload = <<>>
    BY <1>4, NoPayload
  <2>2. runner'.payload = <<>>
    <3>1. runner'.payload \in Seq(HandedPayloads) /\ Len(runner'.payload) = 0
      BY <1>4 DEF TypesOfClient
    <3>2. QED
      BY <3>1, EmptySeq
  <2>3. QED
    BY <1>4, <2>1, <2>2 DEF HandedOut
<1>5. ASSUME UNCHANGED <<handled, incoming, runner>>
      PROVE  HandedOut' = HandedOut
  BY <1>5 DEF HandedOut
<1>6. ASSUME RunHandshake
      PROVE  HandedOut' = HandedOut
  <2>1. runner.at = "handshake" /\ UNCHANGED <<handled, incoming>>
    BY <1>6 DEF RunHandshake
  <2>2. runner' \in {Closed, Payload("poll"), runner}
    BY <1>6 DEF RunHandshake
  <2>3. runner'.at # "send"
    BY <2>1, <2>2 DEF Closed, Payload
  <2>4. QED
    BY <1>4, <2>1, <2>3
<1>7. ASSUME PollPayload
      PROVE  HandedOut' = HandedOut
  <2>1. runner.at = "poll" /\ UNCHANGED <<handled, incoming>> /\ runner'.at # "send"
    BY <1>7 DEF PollPayload
  <2>2. QED
    BY <1>4, <2>1
<1>8. ASSUME Receive \/ SendOutgoing \/ ConnectionLost
      PROVE  HandedOut' = HandedOut
  <2>1. runner.at \in {"handshake", "select"} /\ UNCHANGED <<handled, incoming>>
        /\ runner' \in {Payload("poll"), Closed}
    BY <1>8 DEF Receive, SendOutgoing, ConnectionLost
  <2>2. runner'.at # "send"
    BY <2>1 DEF Payload, Closed
  <2>3. QED
    BY <1>4, <2>1, <2>2
<1>9. QED
  BY <1>2, <1>3, <1>5, <1>6, <1>7, <1>8
  DEF Next, Runner, App, vars, client, CreateEarly, AppSends, AppTicks,
      MediatorReceives, MediatorPushes, OtherBegins, OtherEnds, MediatorCloses

LEMMA AdvancedTo == ASSUME NEW state, Advances(state) PROVE protocol'.state = state
BY DEF Advances

\* Neither what was sent nor what was taken changes.
LEMMA ArrivedStill ==
    ASSUME Arrived, sent' = sent, HandedOut' = HandedOut, protocol'.state = protocol.state,
           protocol'.datagrams \o toClient' = Stream,
           protocol.state \in {"AwaitingServerHello", "AwaitingServerInfo"} =>
             runner'.at \in {"handshake", "closed"},
           protocol.state = "PostHandshake" => runner'.at # "handshake"
    PROVE  Arrived'
<1>1. Taken' = Taken
  BY DEF Taken
<1>2. ASSUME protocol'.state # "Error"
      PROVE  Follows(protocol'.datagrams \o toClient', Taken' + Len(HandedOut'), sent')
  BY <1>1, <1>2 DEF Arrived, Stream
<1>3. QED
  BY <1>2 DEF Arrived

\* More is sent, and the client does not change.
LEMMA ArrivedSends ==
    ASSUME TypesOfClient, TypesOfApp, TypesOfMediator, Sent, Arrived,
           HandedOut' = HandedOut, UNCHANGED <<protocol, runner>>,
           NEW more \in Seq(PayloadsToClient), Sends(more)
    PROVE  Arrived'
<1>1. Taken' = Taken /\ Taken \in Nat
  BY DEF Taken
<1>2. /\ Len(HandedOut) \in Nat /\ Len(sent) \in Nat /\ Len(more) \in Nat
      /\ protocol.datagrams \in Seq(DatagramsToClient)
  BY HandedOutType, LenProperties DEF TypesOfClient, TypesOfMediator
<1>3. /\ Len(sent') = Len(sent) + Len(more)
      /\ \A i \in 1 .. Len(sent) : sent'[i] = sent[i]
  BY DEF Sends
<1>4. ASSUME protocol'.state # "Error"
      PROVE  Follows(protocol'.datagrams \o toClient', Taken' + Len(HandedOut'), sent')
  <2> DEFINE from == Taken + Len(HandedOut)
             queue == protocol.datagrams
  <2>1. from \in Nat /\ queue \in Seq(DatagramsToClient)
    BY <1>1, <1>2
  <2>2. Follows(queue \o toClient, from, sent)
    BY <1>4 DEF Arrived
  <2>3. Taken' + Len(HandedOut') = from /\ protocol'.datagrams = queue
    BY <1>1
  <2> HIDE DEF from, queue
  <2>4. Follows(queue \o toClient', from, sent')
    BY <2>1, <2>2 DEF Sends
  <2>5. QED
    BY <2>3, <2>4
<1>5. Len(HandedOut') > 0 => 2 + Len(HandedOut') <= Len(sent')
  BY <1>2, <1>3 DEF Arrived
<1>6. ASSUME NEW i \in 1 .. Len(HandedOut')
      PROVE  HandedFor(HandedOut'[i], sent'[2 + i])
  <2>1. i \in 1 .. Len(HandedOut) /\ 2 + i \in 1 .. Len(sent)
    BY <1>2 DEF Arrived
  <2>2. sent'[2 + i] = sent[2 + i] /\ HandedOut'[i] = HandedOut[i]
    BY <1>3, <2>1
  <2>3. QED
    BY <2>1, <2>2 DEF Arrived
<1>7. protocol'.state = "PostHandshake" =>
        runner'.at # "handshake" /\ Len(sent') >= 2 /\ sent'[2] = Info
  BY <1>2, <1>3 DEF Arrived
<1>8. protocol'.state \in {"AwaitingServerHello", "AwaitingServerInfo"} =>
        HandedOut' = <<>> /\ runner'.at \in {"handshake", "closed"}
  BY DEF Arrived
<1>9. QED
  BY <1>4, <1>5, <1>6, <1>7, <1>8 DEF Arrived

\* The first datagram is taken by the handshake.
LEMMA ArrivedAdvances ==
    ASSUME TypesOfClient, TypesOfApp, TypesOfMediator, Sent, Arrived,
           HandedOut' = HandedOut, sent' = sent,
           protocol.state \in {"AwaitingServerHello", "AwaitingServerInfo"}, Greet \/ Open
    PROVE  Arrived'
<1>1. /\ HandedOut = <<>> /\ Len(HandedOut) = 0 /\ Len(sent) \in Nat
      /\ Stream \in Seq(DatagramsToClient) /\ Stream # <<>>
      /\ protocol'.datagrams \o toClient' = Tail(Stream)
  <2>1. Stream \in Seq(DatagramsToClient)
    BY ConcatProperties DEF TypesOfClient, TypesOfMediator, Stream
  <2>2. QED
    BY <2>1, EmptySeq, LenProperties
    DEF Arrived, TypesOfMediator, Greet, Open, Advances, Takes
<1>2. Taken \in Nat /\ Taken' = Taken + 1 /\ protocol'.state # "Error"
      /\ (protocol'.state = "PostHandshake" <=> protocol.state = "AwaitingServerInfo")
  <2>1. CASE Greet
    <3>1. protocol.state = "AwaitingServerHello" /\ protocol'.state = "AwaitingServerInfo"
      BY <2>1, AdvancedTo DEF Greet
    <3>2. QED
      BY <3>1 DEF Taken
  <2>2. CASE Open
    <3>1. protocol.state = "AwaitingServerInfo" /\ protocol'.state = "PostHandshake"
      BY <2>2, AdvancedTo DEF Open
    <3>2. QED
      BY <3>1 DEF Taken
  <2>3. QED
    BY <2>1, <2>2
<1>3. Follows(protocol'.datagrams \o toClient', Taken' + Len(HandedOut'), sent')
  <2>1. Follows(Stream, Taken, sent)
    <3>1. Taken + Len(HandedOut) = Taken
      BY <1>1, <1>2
    <3>2. Follows(Stream, Taken + Len(HandedOut), sent)
      BY DEF Arrived, Stream
    <3>3. QED
      BY <3>1, <3>2
  <2>2. Follows(Tail(Stream), Taken + 1, sent)
    BY <1>1, <1>2, <2>1, FollowsTaken
  <2>3. Taken' + Len(HandedOut') = Taken + 1
    BY <1>1, <1>2
  <2>4. QED
    BY <1>1, <2>2, <2>3
<1>4. /\ Len(HandedOut') > 0 => 2 + Len(HandedOut') <= Len(sent')
      /\ \A i \in 1 .. Len(HandedOut') : HandedFor(HandedOut'[i], sent'[2 + i])
  BY DEF Arrived
<1>5. ASSUME protocol'.state = "PostHandshake"
      PROVE  runner'.at # "handshake" /\ Len(sent') >= 2 /\ sent'[2] = Info
  <2>1. Open
    BY <1>2, <1>5 DEF Greet
  <2>2. QED
    BY <2>1 DEF Open, Payload
<1>6. ASSUME protocol'.state \in {"AwaitingServerHello", "AwaitingServerInfo"}
      PROVE  HandedOut' = <<>> /\ runner'.at \in {"handshake", "closed"}
  <2>1. Greet
    <3>1. protocol'.state # "PostHandshake"
      BY <1>6
    <3>2. QED
      BY <1>2, <3>1 DEF Open
  <2>2. QED
    BY <1>1, <2>1 DEF Greet, Arrived
<1>7. QED
  BY <1>3, <1>4, <1>5, <1>6 DEF Arrived

\* The first datagram is handed out as a payload.
LEMMA ArrivedHandsOut ==
    ASSUME TypesOfClient, TypesOfApp, TypesOfMediator, Sent, Arrived, PollPayload, HandOut
    PROVE  Arrived'
<1>1. PICK handed :
        /\ HandedFor(handed, sent[3 + Len(HandedOut)])
        /\ runner' = [at |-> "send", payload |-> <<handed>>]
  BY DEF HandOut
<1>2. /\ protocol.state = "PostHandshake" /\ protocol'.state = "PostHandshake"
      /\ runner.at = "poll" /\ UNCHANGED <<handled, incoming, sent>>
  BY AdvancedTo DEF HandOut, PollPayload, server
<1>3. /\ Stream \in Seq(DatagramsToClient) /\ Stream # <<>> /\ Len(sent) \in Nat
      /\ protocol'.datagrams \o toClient' = Tail(Stream)
  <2>1. Stream \in Seq(DatagramsToClient)
    BY ConcatProperties DEF TypesOfClient, TypesOfMediator, Stream
  <2>2. QED
    BY <2>1, LenProperties DEF TypesOfMediator, HandOut, Advances, Takes
<1>4. HandedOut \in Seq(HandedPayloads) /\ Len(HandedOut) \in Nat
  BY HandedOutType
<1>5. HandedOut' = HandedOut \o <<handed>>
  <2>1. runner.payload = <<>> /\ runner'.payload = <<handed>>
    BY <1>1, <1>2, NoPayload
  <2> DEFINE first == handled \o incoming
  <2>2. first \in Seq(HandedPayloads)
    BY ConcatProperties DEF TypesOfApp
  <2>3. HandedOut = first \o <<>> /\ HandedOut' = first \o <<handed>>
    BY <1>2, <2>1 DEF HandedOut
  <2> HIDE DEF first
  <2>4. first \o <<>> = first
    BY <2>2, ConcatEmptySeq
  <2>5. QED
    BY <2>3, <2>4
<1>6. /\ Len(HandedOut') = Len(HandedOut) + 1
      /\ \A i \in 1 .. Len(HandedOut) : HandedOut'[i] = HandedOut[i]
      /\ HandedOut'[Len(HandedOut) + 1] = handed
  <2> DEFINE last == <<handed>>
  <2>1. last \in Seq(HandedPayloads) /\ Len(last) = 1 /\ last[1] = handed
    BY <1>1 DEF HandedFor
  <2> HIDE DEF last
  <2>2. /\ Len(HandedOut \o last) = Len(HandedOut) + Len(last)
        /\ \A i \in 1 .. Len(HandedOut) + Len(last) : (HandedOut \o last)[i] =
             IF i <= Len(HandedOut) THEN HandedOut[i] ELSE last[i - Len(HandedOut)]
    BY <1>4, <2>1, ConcatProperties
  <2> DEFINE all == HandedOut \o last
  <2>3. HandedOut' = all
    BY <1>5 DEF last
  <2>4. /\ Len(all) = Len(HandedOut) + 1
        /\ \A i \in 1 .. Len(HandedOut) + 1 : all[i] =
             IF i <= Len(HandedOut) THEN HandedOut[i] ELSE last[i - Len(HandedOut)]
    BY <2>1, <2>2
  <2> HIDE DEF all
  <2>5. \A i \in 1 .. Len(HandedOut) : all[i] = HandedOut[i]
    BY <1>4, <2>4
  <2>6. all[Len(HandedOut) + 1] = handed
    <3>1. /\ Len(HandedOut) + 1 \in 1 .. Len(HandedOut) + 1
          /\ ~(Len(HandedOut) + 1 <= Len(HandedOut))
          /\ (Len(HandedOut) + 1) - Len(HandedOut) = 1
      BY <1>4
    <3>2. all[Len(HandedOut) + 1] = last[(Len(HandedOut) + 1) - Len(HandedOut)]
      BY <2>4, <3>1
    <3>3. QED
      BY <2>1, <3>1, <3>2
  <2>7. QED
    BY <2>3, <2>4, <2>5, <2>6
<1>7. Taken = 2 /\ Taken' = 2
  BY <1>2 DEF Taken
<1> DEFINE from == 2 + Len(HandedOut)
<1>8. from \in Nat /\ from + 1 = 3 + Len(HandedOut) /\ Taken' + Len(HandedOut') = from + 1
  BY <1>4, <1>6, <1>7
<1>9. Follows(Stream, from, sent)
  BY <1>2, <1>7 DEF Arrived, Stream
<1> HIDE DEF from
<1>10. Follows(Tail(Stream), from + 1, sent) /\ from + 1 <= Len(sent)
  BY <1>3, <1>8, <1>9, FollowsTaken
<1>11. Follows(protocol'.datagrams \o toClient', Taken' + Len(HandedOut'), sent')
  BY <1>2, <1>3, <1>8, <1>10
<1>12. 2 + Len(HandedOut') <= Len(sent')
  BY <1>2, <1>4, <1>6, <1>8, <1>10
<1>13. ASSUME NEW i \in 1 .. Len(HandedOut')
       PROVE  HandedFor(HandedOut'[i], sent'[2 + i])
  <2>1. CASE i \in 1 .. Len(HandedOut)
    BY <1>2, <1>6, <2>1 DEF Arrived
  <2>2. CASE i = Len(HandedOut) + 1
    <3>1. 2 + i = 3 + Len(HandedOut)
      BY <1>4, <2>2
    <3>2. QED
      BY <1>1, <1>2, <1>6, <2>2, <3>1
  <2>3. QED
    BY <1>4, <1>6, <2>1, <2>2
<1>14. runner'.at # "handshake" /\ Len(sent') >= 2 /\ sent'[2] = Info
  BY <1>1, <1>2 DEF Arrived
<1>15. QED
  BY <1>2, <1>11, <1>12, <1>13, <1>14 DEF Arrived
LEMMA ArrivedKept ==
    ASSUME TypesOfClient, TypesOfApp, TypesOfMediator, Sent, Arrived, [Next]_vars
    PROVE  Arrived'
<1>1. TypesOfClient'
  BY ClientTypes
<1>2. ASSUME Breaks, sent' = sent, HandedOut' = HandedOut
      PROVE  Arrived'
  <2>1. protocol'.state = "Error"
    BY <1>2, BreakTypes
  <2>2. QED
    BY <1>2, <2>1 DEF Arrived
<1>3. ASSUME RunHandshake
      PROVE  Arrived'
  <2>1. sent' = sent /\ runner.at = "handshake"
    BY <1>3 DEF RunHandshake, server
  <2>2. HandedOut' = HandedOut
    <3>1. ~PollPayload
      BY <2>1 DEF PollPayload
    <3>2. QED
      BY <1>1, <3>1, HandedOutKept
  <2>3. CASE Breaks
    BY <1>2, <2>1, <2>2, <2>3
  <2>4. CASE Greet \/ Open
    <3>1. protocol.state \in {"AwaitingServerHello", "AwaitingServerInfo"}
      BY <2>4 DEF Greet, Open
    <3>2. QED
      BY <2>1, <2>2, <2>4, <3>1, ArrivedAdvances
  <2>5. QED
    BY <1>3, <2>3, <2>4, HandshakeDoes
<1>4. ASSUME PollPayload
      PROVE  Arrived'
  <2>1. UNCHANGED <<sent, toClient>> /\ runner.at = "poll"
    BY <1>4 DEF PollPayload, server
  <2>2. CASE HandOut
    BY <1>4, <2>2, ArrivedHandsOut
  <2>3. CASE Breaks
    <3>1. runner'.at # "send"
      BY <2>3 DEF Breaks, Closed
    <3>2. HandedOut' = HandedOut
      BY <1>1, <3>1, HandedOutKept
    <3>3. QED
      BY <1>2, <2>1, <2>3, <3>2
  <2>4. CASE Waits
    <3>1. runner'.at = "select" /\ protocol' = protocol /\ protocol.state = "PostHandshake"
      BY <2>1, <2>4 DEF Waits, Payload, TypesOfClient
    <3>2. HandedOut' = HandedOut
      BY <1>1, <3>1, HandedOutKept
    <3>3. QED
      BY <2>1, <3>1, <3>2, ArrivedStill DEF Stream
  <2>5. QED
    BY <1>4, <2>2, <2>3, <2>4, PollDoes
<1>5. ASSUME ~PollPayload
      PROVE  HandedOut' = HandedOut
  BY <1>1, <1>5, HandedOutKept
<1>6. ASSUME SendIncoming \/ SendOutgoing
      PROVE  Arrived'
  <2>1. /\ runner.at \in {"send", "select"} /\ runner' = Payload("poll")
        /\ UNCHANGED <<protocol, toClient, sent>>
    BY <1>6 DEF SendIncoming, SendOutgoing, OnceHandedOver, server
  <2>2. HandedOut' = HandedOut
    BY <1>5, <2>1 DEF PollPayload
  <2>3. protocol.state = "PostHandshake" /\ runner'.at = "poll"
    BY <2>1 DEF TypesOfClient, Payload
  <2>4. QED
    BY <2>1, <2>2, <2>3, ArrivedStill DEF Stream
<1>7. ASSUME Receive
      PROVE  Arrived'
  <2>1. /\ runner.at = "select" /\ runner' = Payload("poll")
        /\ protocol'.state = protocol.state /\ protocol'.datagrams \o toClient' = Stream
    BY <1>7, ReceiveDoes
  <2>2. HandedOut' = HandedOut
    BY <1>5, <2>1 DEF PollPayload
  <2>3. protocol.state = "PostHandshake" /\ runner'.at = "poll" /\ sent' = sent
    BY <1>7, <2>1 DEF TypesOfClient, Payload, Receive, server
  <2>4. QED
    BY <2>1, <2>2, <2>3, ArrivedStill
<1>8. ASSUME ConnectionLost
      PROVE  Arrived'
  <2>1. /\ runner.at \in {"handshake", "select"} /\ runner'.at = "closed"
        /\ UNCHANGED <<protocol, toClient, sent>>
    BY <1>8 DEF ConnectionLost, Closed, server
  <2>2. HandedOut' = HandedOut
    BY <1>5, <2>1 DEF PollPayload
  <2>3. QED
    BY <2>1, <2>2, ArrivedStill DEF Stream
<1>9. ASSUME UNCHANGED <<protocol, runner, toClient, sent>>, HandedOut' = HandedOut
      PROVE  Arrived'
  BY <1>9, ArrivedStill DEF Arrived, Stream
<1>10. ASSUME CreateEarly \/ AppHandles \/ AppSends \/ AppTicks \/ UNCHANGED vars
       PROVE  Arrived'
  <2>1. UNCHANGED <<protocol, runner, toClient, sent>>
    BY <1>10 DEF CreateEarly, AppHandles, AppSends, AppTicks, vars, client, server
  <2>2. HandedOut' = HandedOut
    <3>1. PollPayload => runner'.at # "send"
      BY <2>1 DEF PollPayload
    <3>2. QED
      BY <1>1, <3>1, HandedOutKept
  <2>3. QED
    BY <1>9, <2>1, <2>2
<1>11. ASSUME MediatorReceives \/ MediatorPushes \/ OtherBegins \/ OtherEnds \/ MediatorCloses
       PROVE  Arrived'
  <2>1. UNCHANGED <<protocol, runner>>
    BY <1>11
    DEF MediatorReceives, MediatorPushes, OtherBegins, OtherEnds, MediatorCloses, client
  <2>2. HandedOut' = HandedOut
    <3>1. PollPayload => runner'.at # "send"
      BY <2>1 DEF PollPayload
    <3>2. QED
      BY <1>1, <3>1, HandedOutKept
  <2>3. CASE Quiet
    BY <1>9, <2>1, <2>2, <2>3 DEF Quiet
  <2>4. CASE SendsOne
    <3>1. PICK payload : Later(payload) /\ Sends(<<payload>>)
      BY <2>4 DEF SendsOne
    <3> DEFINE more == <<payload>>
    <3>2. more \in Seq(PayloadsToClient) /\ Sends(more)
      BY <3>1 DEF Later
    <3> HIDE DEF more
    <3>3. QED
      BY <2>1, <2>2, <3>2, ArrivedSends
  <2>5. CASE AnswersHello
    <3> DEFINE more == <<Info, Reflected(1), Empty("ReflectionQueueDry")>>
    <3>1. Info \in PayloadsToClient /\ Reflected(1) \in PayloadsToClient
          /\ Empty("ReflectionQueueDry") \in PayloadsToClient
      BY DEF Info, PayloadsToClient
    <3>2. more \in Seq(PayloadsToClient) /\ Sends(more)
      BY <2>5, <3>1 DEF AnswersHello
    <3> HIDE DEF more
    <3>3. QED
      BY <2>1, <2>2, <3>2, ArrivedSends
  <2>6. QED
    BY <1>11, <2>3, <2>4, <2>5, MediatorSteps
<1>12. QED
  BY <1>3, <1>4, <1>6, <1>7, <1>8, <1>10, <1>11 DEF Next, Runner, App

-----------------------------------------------------------------------------
(* The stream to the client is an invariant                                *)

StreamInv == TypesOfClient /\ TypesOfApp /\ TypesOfMediator /\ Sent /\ Arrived

LEMMA InitStream == Init => StreamInv
<1> SUFFICES ASSUME Init PROVE StreamInv
  OBVIOUS
<1>1. /\ protocol = [state |-> "AwaitingServerHello", datagrams |-> <<>>, error |-> "none"]
      /\ runner = Payload("handshake") /\ incoming = <<>> /\ outgoing = <<>>
      /\ app = [transaction |-> "None", reflectId |-> 0, send |-> <<>>]
      /\ handled = <<>> /\ toMediator = <<>>
  BY DEF Init
<1>2. PICK version \in ServerVersions :
        /\ mediator = [at |-> "hello", version |-> version, lock |-> "none"]
        /\ sent = <<Hello(version)>>
  BY DEF Init, Hello
<1>3. /\ protocol.state = "AwaitingServerHello" /\ protocol.datagrams = <<>>
      /\ protocol.error = "none"
      /\ mediator.at = "hello" /\ mediator.lock = "none" /\ mediator.version = version
      /\ app.send = <<>> /\ runner.at = "handshake" /\ runner.payload = <<>>
  BY <1>1, <1>2 DEF Payload
<1>4. TypesOfClient
  <2>1. protocol = [state |-> protocol.state, error |-> protocol.error,
                    datagrams |-> protocol.datagrams]
    BY <1>1, <1>3
  <2>2. runner \in RunnerType /\ Len(runner.payload) = 0
    BY <1>1, RunnerTypes
  <2>3. protocol.datagrams \in Seq(DatagramsToClient)
    BY <1>3, EmptySeq
  <2>4. QED
    BY <1>3, <2>1, <2>2, <2>3 DEF TypesOfClient, ProtocolStates, RunnerType
<1>5. TypesOfApp
  <2>1. <<>> \in Seq(HandedPayloads) /\ <<>> \in Seq(PayloadsFromClient) /\ Len(<<>>) = 0
    BY EmptySeq
  <2>2. 0 \in 0 .. MaxReflectId /\ 0 <= QueueCapacity
    BY D2mAssumption DEF FitsIn
  <2>3. app \in [transaction : {"None", "Blocked", "AwaitingBeginAck", "Running",
                                "AwaitingCommitAck"},
                 reflectId : 0 .. MaxReflectId, send : Seq(PayloadsFromClient)]
    BY <1>1, <2>1, <2>2
  <2>4. QED
    BY <1>1, <1>3, <2>1, <2>2, <2>3 DEF TypesOfApp
<1>6. Hello(version) \in PayloadsToClient
  BY DEF Hello, PayloadsToClient
<1> DEFINE hello == Hello(version)
           d == EncodeByMediator(hello)
<1>7. toClient = <<d>> /\ d \in DatagramsToClient
  <2>1. toClient = [i \in DOMAIN sent |-> EncodeByMediator(sent[i])]
    BY DEF Init
  <2>2. sent = <<hello>>
    BY <1>2
  <2> HIDE DEF hello
  <2>3. DOMAIN <<hello>> = 1 .. 1 /\ \A i \in 1 .. 1 : <<hello>>[i] = hello
    OBVIOUS
  <2>4. toClient = [i \in 1 .. 1 |-> d]
    BY <2>1, <2>2, <2>3
  <2> HIDE DEF d
  <2>5. [i \in 1 .. 1 |-> d] = <<d>>
    OBVIOUS
  <2>6. QED
    BY <1>6, <2>4, <2>5 DEF DatagramsToClient, d, hello
<1> HIDE DEF hello, d
<1>8. sent = <<hello>> /\ hello \in PayloadsToClient
  BY <1>2, <1>6 DEF hello
<1>9. TypesOfMediator
  <2>1. sent \in Seq(PayloadsToClient) /\ toClient \in Seq(DatagramsToClient)
    BY <1>7, <1>8
  <2>2. toMediator \in Seq(DatagramsFromClient)
    BY <1>1, EmptySeq
  <2>3. QED
    BY <1>2, <2>1, <2>2 DEF TypesOfMediator
<1>10. Sent
  <2>1. Len(sent) = 1 /\ sent[1] = Hello(mediator.version)
    BY <1>3, <1>8 DEF hello
  <2>2. QED
    BY <1>3, <2>1 DEF Sent
<1>11. HandedOut = <<>>
  BY <1>1, <1>3 DEF HandedOut
<1>12. Arrived
  <2>1. Taken = 0 /\ Len(HandedOut) = 0
    BY <1>3, <1>11 DEF Taken
  <2>2. protocol.datagrams \o toClient = toClient
    BY <1>3, <1>7
  <2>3. Follows(toClient, 0, sent)
    <3>1. Len(toClient) = 1 /\ toClient[1] = d /\ Len(sent) = 1 /\ sent[1] = hello
      BY <1>7, <1>8
    <3>2. QED
      BY <3>1 DEF Follows, d
  <2>4. QED
    BY <1>3, <1>11, <2>1, <2>2, <2>3 DEF Arrived
<1>13. QED
  BY <1>4, <1>5, <1>9, <1>10, <1>12 DEF StreamInv

LEMMA NextStream == StreamInv /\ [Next]_vars => StreamInv'
BY ClientTypes, AppTypes, MediatorTypes, ArrivedKept DEF StreamInv

LEMMA StreamInvariant == Spec => []StreamInv
BY InitStream, NextStream, PTL DEF Spec

-----------------------------------------------------------------------------
(* What is requested                                                       *)

LEMMA MappedType ==
    ASSUME NEW stream \in Seq(DatagramsFromClient)
    PROVE  /\ Mapped(stream) \in Seq(RequestsFromClient)
           /\ Len(Mapped(stream)) = Len(stream)
           /\ \A i \in 1 .. Len(stream) : Mapped(stream)[i] = RequestOf[stream[i]]
<1> DEFINE mapped == [i \in 1 .. Len(stream) |-> RequestOf[stream[i]]]
<1>1. Len(stream) \in Nat /\ DOMAIN stream = 1 .. Len(stream)
  BY LenProperties
<1>2. \A i \in 1 .. Len(stream) : RequestOf[stream[i]] \in RequestsFromClient
  BY ElementOfSeq, RequestType
<1>3. mapped \in [1 .. Len(stream) -> RequestsFromClient]
  BY <1>2
<1>4. mapped \in Seq(RequestsFromClient)
  <2> HIDE DEF mapped
  <2>1. QED
    BY <1>1, <1>3, SeqDef
<1>5. Len(mapped) = Len(stream)
  <2>1. DOMAIN mapped = 1 .. Len(mapped) /\ Len(mapped) \in Nat
    <3> HIDE DEF mapped
    <3>1. QED
      BY <1>4, LenProperties
  <2>2. DOMAIN mapped = 1 .. Len(stream)
    OBVIOUS
  <2> DEFINE l == Len(mapped)
             n == Len(stream)
  <2>3. 1 .. l = 1 .. n /\ l \in Nat /\ n \in Nat
    BY <1>1, <2>1, <2>2
  <2> HIDE DEF mapped, l, n
  <2>4. l = n
    BY <2>3
  <2>5. QED
    BY <2>4 DEF l, n
<1>6. Mapped(stream) = mapped
  BY <1>1 DEF Mapped
<1>7. QED
  BY <1>4, <1>5, <1>6

LEMMA MappedTail ==
    ASSUME NEW stream \in Seq(DatagramsFromClient), stream # <<>>
    PROVE  /\ Mapped(stream) # <<>>
           /\ Head(Mapped(stream)) = RequestOf[Head(stream)]
           /\ Tail(Mapped(stream)) = Mapped(Tail(stream))
<1> DEFINE m == Mapped(stream)
           rest == Tail(stream)
           mrest == Mapped(rest)
           trest == Tail(m)
<1>1. /\ m \in Seq(RequestsFromClient) /\ Len(m) = Len(stream)
      /\ \A i \in 1 .. Len(stream) : m[i] = RequestOf[stream[i]]
  BY MappedType
<1>2. Len(stream) \in Nat /\ Len(stream) > 0
  BY EmptySeq
<1>3. /\ rest \in Seq(DatagramsFromClient) /\ Len(rest) = Len(stream) - 1
      /\ \A i \in 1 .. Len(rest) : rest[i] = stream[i + 1]
  BY HeadTailProperties
<1> HIDE DEF m, rest
<1>4. /\ mrest \in Seq(RequestsFromClient) /\ Len(mrest) = Len(rest)
      /\ \A i \in 1 .. Len(rest) : mrest[i] = RequestOf[rest[i]]
  BY <1>3, MappedType
<1>5. m # <<>>
  BY <1>1, <1>2
<1>6. /\ trest \in Seq(RequestsFromClient) /\ Len(trest) = Len(m) - 1
      /\ \A i \in 1 .. Len(trest) : trest[i] = m[i + 1]
  BY <1>1, <1>5, HeadTailProperties
<1>7. Head(m) = m[1] /\ Head(stream) = stream[1] /\ m[1] = RequestOf[stream[1]]
  BY <1>1, <1>2
<1> HIDE DEF mrest, trest
<1>8. ASSUME NEW i \in 1 .. Len(trest)
      PROVE  trest[i] = mrest[i]
  <2>1. i \in 1 .. Len(rest) /\ i + 1 \in 1 .. Len(stream)
    BY <1>1, <1>2, <1>3, <1>6
  <2>2. trest[i] = m[i + 1] /\ m[i + 1] = RequestOf[stream[i + 1]]
    BY <1>1, <1>6, <2>1
  <2>3. mrest[i] = RequestOf[rest[i]] /\ rest[i] = stream[i + 1]
    BY <1>3, <1>4, <2>1
  <2>4. QED
    BY <2>2, <2>3
<1>9. Len(trest) = Len(mrest)
  BY <1>1, <1>3, <1>4, <1>6
<1>10. trest = mrest
  BY <1>4, <1>6, <1>8, <1>9, SeqEqual
<1>11. QED
  BY <1>5, <1>7, <1>10 DEF m, rest, mrest, trest

LEMMA MappedMore ==
    ASSUME NEW stream \in Seq(DatagramsFromClient), NEW d \in DatagramsFromClient
    PROVE  Mapped(stream \o <<d>>) = Mapped(stream) \o <<RequestOf[d]>>
<1> DEFINE last == <<d>>
           all == stream \o last
           m == Mapped(stream)
           mall == Mapped(all)
           mlast == <<RequestOf[d]>>
           both == m \o mlast
<1>1. last \in Seq(DatagramsFromClient) /\ Len(last) = 1 /\ last[1] = d
  OBVIOUS
<1>2. mlast \in Seq(RequestsFromClient) /\ Len(mlast) = 1 /\ mlast[1] = RequestOf[d]
  BY RequestType
<1> HIDE DEF last, mlast
<1>3. /\ all \in Seq(DatagramsFromClient) /\ Len(all) = Len(stream) + Len(last)
      /\ \A i \in 1 .. Len(stream) + Len(last) : all[i] =
           IF i <= Len(stream) THEN stream[i] ELSE last[i - Len(stream)]
  BY <1>1, ConcatProperties
<1>4. Len(stream) \in Nat
  BY LenProperties
<1>5. /\ m \in Seq(RequestsFromClient) /\ Len(m) = Len(stream)
      /\ \A i \in 1 .. Len(stream) : m[i] = RequestOf[stream[i]]
  BY MappedType
<1> HIDE DEF all, m
<1>6. /\ mall \in Seq(RequestsFromClient) /\ Len(mall) = Len(all)
      /\ \A i \in 1 .. Len(all) : mall[i] = RequestOf[all[i]]
  BY <1>3, MappedType
<1>7. /\ both \in Seq(RequestsFromClient) /\ Len(both) = Len(m) + Len(mlast)
      /\ \A i \in 1 .. Len(m) + Len(mlast) : both[i] =
           IF i <= Len(m) THEN m[i] ELSE mlast[i - Len(m)]
  <2>1. m \in Seq(RequestsFromClient) /\ mlast \in Seq(RequestsFromClient)
    BY <1>2, <1>5
  <2>2. QED
    BY <2>1, ConcatProperties
<1> HIDE DEF mall, both
<1>8. ASSUME NEW i \in 1 .. Len(mall)
      PROVE  mall[i] = both[i]
  <2>1. i \in 1 .. Len(stream) + 1 /\ i \in 1 .. Len(all) /\ i \in 1 .. Len(m) + Len(mlast)
    BY <1>1, <1>2, <1>3, <1>5, <1>6
  <2>2. CASE i <= Len(stream)
    <3>1. i \in 1 .. Len(stream)
      BY <1>4, <2>1, <2>2
    <3>2. mall[i] = RequestOf[stream[i]]
      BY <1>1, <1>3, <1>6, <2>1, <2>2
    <3>3. both[i] = m[i]
      BY <1>5, <1>7, <2>1, <2>2
    <3>4. QED
      BY <1>5, <3>1, <3>2, <3>3
  <2>3. CASE ~(i <= Len(stream))
    <3>1. i - Len(stream) = 1
      BY <1>4, <2>1, <2>3
    <3>2. mall[i] = RequestOf[d]
      BY <1>1, <1>3, <1>6, <2>1, <2>3, <3>1
    <3>3. both[i] = mlast[1]
      BY <1>5, <1>7, <2>1, <2>3, <3>1
    <3>4. QED
      BY <1>2, <3>2, <3>3
  <2>4. QED
    BY <2>2, <2>3
<1>9. Len(mall) = Len(both)
  BY <1>1, <1>2, <1>3, <1>5, <1>6, <1>7
<1>10. mall = both
  BY <1>6, <1>7, <1>8, <1>9, SeqEqual
<1>11. QED
  BY <1>10 DEF mall, both, all, m, last, mlast

\* A request that is received was on its way.
LEMMA RequestedReceived ==
    ASSUME TypesOfRequests, TypesOfMediator, toMediator # <<>>,
           toMediator' = Tail(toMediator),
           requests' = Append(requests, RequestOf[Head(toMediator)])
    PROVE  Requested' = Requested
<1> DEFINE m == Mapped(toMediator)
<1>1. toMediator \in Seq(DatagramsFromClient) /\ requests \in Seq(RequestsFromClient)
  BY DEF TypesOfMediator, TypesOfRequests
<1>2. /\ m \in Seq(RequestsFromClient) /\ m # <<>>
      /\ Head(m) = RequestOf[Head(toMediator)] /\ Tail(m) = Mapped(Tail(toMediator))
  BY <1>1, MappedType, MappedTail
<1>3. Mapped(toMediator)' = Mapped(Tail(toMediator))
  BY DEF Mapped
<1> HIDE DEF m
<1>4. Append(requests, Head(m)) \o Tail(m) = requests \o m
  BY <1>1, <1>2, AppendTail
<1>5. Requested' = Append(requests, Head(m)) \o Tail(m)
  BY <1>2, <1>3 DEF Requested
<1>6. QED
  BY <1>4, <1>5 DEF Requested, m

\* A request that is made comes last.
LEMMA RequestedMore ==
    ASSUME TypesOfRequests, TypesOfMediator, NEW d \in DatagramsFromClient,
           toMediator' = toMediator \o <<d>>, requests' = requests
    PROVE  /\ Requested \in Seq(RequestsFromClient) /\ Len(Requested) \in Nat
           /\ Len(Requested') = Len(Requested) + 1
           /\ \A i \in 1 .. Len(Requested) : Requested'[i] = Requested[i]
           /\ Requested'[Len(Requested) + 1] = RequestOf[d]
<1> DEFINE m == Mapped(toMediator)
           last == <<RequestOf[d]>>
           all == requests \o m
           longer == all \o last
<1>1. toMediator \in Seq(DatagramsFromClient) /\ requests \in Seq(RequestsFromClient)
  BY DEF TypesOfMediator, TypesOfRequests
<1>2. m \in Seq(RequestsFromClient)
  BY <1>1, MappedType
<1>3. Mapped(toMediator \o <<d>>) = m \o last
  BY <1>1, MappedMore
<1>4. last \in Seq(RequestsFromClient) /\ Len(last) = 1 /\ last[1] = RequestOf[d]
  BY RequestType
<1>5. Mapped(toMediator)' = m \o last
  <2>1. Mapped(toMediator)' = Mapped(toMediator \o <<d>>)
    BY DEF Mapped
  <2>2. QED
    BY <1>3, <2>1
<1> HIDE DEF m, last
<1>6. Requested' = requests \o (m \o last)
  BY <1>5 DEF Requested
<1>7. Grouped(requests, m, last)
  BY <1>1, <1>2, <1>4, AllGrouped, Zenon
<1>8. Requested' = longer
  BY <1>6, <1>7 DEF Grouped
<1>9. all \in Seq(RequestsFromClient) /\ Len(all) \in Nat /\ Requested = all
  BY <1>1, <1>2, ConcatProperties, LenProperties DEF Requested, m
<1> HIDE DEF all
<1>10. /\ Len(longer) = Len(all) + Len(last)
       /\ \A i \in 1 .. Len(all) + Len(last) : longer[i] =
            IF i <= Len(all) THEN all[i] ELSE last[i - Len(all)]
  BY <1>4, <1>9, ConcatProperties
<1> HIDE DEF longer
<1>11. \A i \in 1 .. Len(all) : longer[i] = all[i]
  BY <1>4, <1>9, <1>10
<1>12. longer[Len(all) + 1] = last[1]
  <2>1. /\ Len(all) + 1 \in 1 .. Len(all) + Len(last) /\ ~(Len(all) + 1 <= Len(all))
        /\ (Len(all) + 1) - Len(all) = 1
    BY <1>4, <1>9
  <2>2. longer[Len(all) + 1] = last[(Len(all) + 1) - Len(all)]
    BY <1>10, <2>1
  <2>3. QED
    BY <2>1, <2>2
<1>13. QED
  BY <1>4, <1>8, <1>9, <1>10, <1>11, <1>12

\* No payload is taken for a hello.
LEMMA PayloadIsNoHello ==
    ASSUME NEW payload \in PayloadsFromClient
    PROVE  payload.kind # "ClientHello" /\ payload \in RequestsFromClient
BY DEF PayloadsFromClient, Proxied, BeginTransaction, CommitTransaction, Reflect,
       RequestsFromClient

LEMMA RequestsStill ==
    ASSUME Requests, Requested' = Requested, created' = created,
           mediator'.version = mediator.version,
           protocol'.state = protocol.state \/ protocol'.state = "Error"
             \/ (protocol.state # "AwaitingServerHello"
                 /\ protocol'.state # "AwaitingServerHello" /\ protocol.state # "Error")
    PROVE  Requests'
<1>1. CASE \E h \in 1 .. Len(Requested) : protocol.state # "AwaitingServerHello" /\ HelloAt(h)
  <2>1. PICK h \in 1 .. Len(Requested) : HelloAt(h)
    BY <1>1
  <2>2. HelloAt(h)'
    BY <2>1 DEF HelloAt
  <2>3. protocol'.state # "AwaitingServerHello"
    BY <1>1
  <2>4. QED
    BY <2>2, <2>3 DEF Requests
<1>2. CASE /\ protocol.state \in {"AwaitingServerHello", "Error"}
           /\ Len(Requested) = Len(created)
           /\ \A i \in 1 .. Len(created) :
                Requested[i] = created[i] /\ created[i].kind = "Proxy"
  <2>1. protocol'.state \in {"AwaitingServerHello", "Error"}
    BY <1>2
  <2>2. QED
    BY <1>2, <2>1 DEF Requests
<1>3. QED
  BY <1>1, <1>2 DEF Requests

\* The hello is sent.
LEMMA RequestsGreet ==
    ASSUME TypesOfRequests, TypesOfMediator, TypesOfClient, Requests, Greet,
           UNCHANGED <<created, requests, mediator>>
    PROVE  Requests'
<1>0. PICK h \in Nat : h = Len(created) + 1
  BY LenProperties DEF TypesOfRequests
<1>1. PICK version \in MinVersion .. MaxVersion :
        version <= mediator.version
        /\ toMediator' = toMediator \o <<EncodeClientHello(version)>>
  BY DEF Greet
<1> DEFINE d == EncodeClientHello(version)
<1>2. d \in DatagramsFromClient
  BY DEF DatagramsFromClient
<1>3. RequestOf[d] = [kind |-> "ClientHello", version |-> version]
  BY RequestsDecoded
<1>4. /\ protocol.state = "AwaitingServerHello" /\ protocol'.state = "AwaitingServerInfo"
  BY AdvancedTo DEF Greet
<1>5. /\ Len(Requested) = Len(created)
      /\ \A i \in 1 .. Len(created) : Requested[i] = created[i] /\ created[i].kind = "Proxy"
  BY <1>4 DEF Requests
<1> HIDE DEF d
<1>6. /\ Len(Requested) \in Nat /\ Len(Requested') = Len(Requested) + 1
      /\ \A i \in 1 .. Len(Requested) : Requested'[i] = Requested[i]
      /\ Requested'[Len(Requested) + 1] = RequestOf[d]
  BY <1>1, <1>2, RequestedMore DEF d
<1>7. h \in 1 .. Len(Requested') /\ Len(Requested') = Len(created') + 1
  BY <1>5, <1>6, <1>0
<1>8. \E v \in MinVersion .. mediator'.version :
        Requested'[h] = [kind |-> "ClientHello", version |-> v]
  <2>1. version \in MinVersion .. mediator'.version
    <3>1. mediator.version \in Nat /\ MinVersion \in Nat /\ mediator' = mediator
      BY D2mAssumption DEF TypesOfMediator
    <3>2. QED
      BY <1>1, <3>1
  <2>2. Requested'[h] = RequestOf[d]
    BY <1>5, <1>6, <1>0
  <2>3. QED
    BY <1>3, <2>1, <2>2 DEF d
<1>9. ASSUME NEW i \in 1 .. Len(created')
      PROVE  Requested'[IF i < h THEN i ELSE i + 1] = created'[i]
             /\ (i < h => created'[i].kind = "Proxy")
  <2>1. i < h /\ i \in 1 .. Len(created)
    BY <1>5, <1>6, <1>0
  <2>2. QED
    BY <1>5, <1>6, <2>1
<1>10. HelloAt(h)'
  BY <1>7, <1>8, <1>9 DEF HelloAt
<1>11. QED
  BY <1>4, <1>7, <1>10 DEF Requests

\* A payload is created.
LEMMA RequestsCreate ==
    ASSUME TypesOfRequests, TypesOfMediator, Requests, NEW payload \in PayloadsFromClient,
           CreatePayload(payload), UNCHANGED <<protocol, requests, mediator>>
    PROVE  TypesOfRequests' /\ Requests'
<1> DEFINE d == DatagramOf[payload]
<1>1. d \in DatagramsFromClient /\ RequestOf[d] = payload
  BY RequestsDecoded DEF DatagramsFromClient
<1>2. toMediator' = Append(toMediator, d) /\ created' = Append(created, payload)
  BY DEF CreatePayload
<1> HIDE DEF d
<1>3. toMediator' = toMediator \o <<d>>
  BY <1>1, <1>2, AppendIsConcat DEF TypesOfMediator
<1>4. /\ Len(Requested) \in Nat /\ Len(Requested') = Len(Requested) + 1
      /\ \A i \in 1 .. Len(Requested) : Requested'[i] = Requested[i]
      /\ Requested'[Len(Requested) + 1] = payload
  BY <1>1, <1>3, RequestedMore
<1>5. /\ created' \in Seq(PayloadsFromClient) /\ Len(created') = Len(created) + 1
      /\ \A i \in 1 .. Len(created) : created'[i] = created[i]
      /\ created'[Len(created) + 1] = payload
      /\ Len(created) \in Nat
  BY <1>2, AppendProperties, LenProperties DEF TypesOfRequests
<1>6. TypesOfRequests'
  BY <1>5 DEF TypesOfRequests
<1>7. CASE /\ protocol.state \in {"AwaitingServerHello", "Error"}
           /\ Len(Requested) = Len(created)
           /\ \A i \in 1 .. Len(created) :
                Requested[i] = created[i] /\ created[i].kind = "Proxy"
  <2>1. payload.kind = "Proxy"
    BY <1>7 DEF CreatePayload, CanCreate
  <2>2. Len(Requested') = Len(created')
    BY <1>4, <1>5, <1>7
  <2>3. ASSUME NEW i \in 1 .. Len(created')
        PROVE  Requested'[i] = created'[i] /\ created'[i].kind = "Proxy"
    <3>1. CASE i \in 1 .. Len(created)
      BY <1>4, <1>5, <1>7, <3>1
    <3>2. CASE i = Len(created) + 1
      BY <1>4, <1>5, <1>7, <2>1, <3>2
    <3>3. QED
      BY <1>5, <3>1, <3>2
  <2>4. QED
    BY <1>6, <1>7, <2>2, <2>3 DEF Requests
<1>8. CASE \E h \in 1 .. Len(Requested) : protocol.state # "AwaitingServerHello" /\ HelloAt(h)
  <2>1. PICK h \in 1 .. Len(Requested) : HelloAt(h)
    BY <1>8
  <2>2. /\ h \in 1 .. Len(Requested) /\ Len(Requested) = Len(created) + 1
        /\ \A i \in 1 .. Len(created) :
             Requested[IF i < h THEN i ELSE i + 1] = created[i]
             /\ (i < h => created[i].kind = "Proxy")
    BY <2>1 DEF HelloAt
  <2>3. PICK version \in MinVersion .. mediator.version :
          Requested[h] = [kind |-> "ClientHello", version |-> version]
    BY <2>1 DEF HelloAt
  <2>4. h \in 1 .. Len(Requested') /\ Len(Requested') = Len(created') + 1
        /\ Requested'[h] = Requested[h]
    BY <1>4, <1>5, <2>2
  <2>5. ASSUME NEW i \in 1 .. Len(created')
        PROVE  Requested'[IF i < h THEN i ELSE i + 1] = created'[i]
               /\ (i < h => created'[i].kind = "Proxy")
    <3>1. CASE i \in 1 .. Len(created)
      <4> DEFINE j == IF i < h THEN i ELSE i + 1
      <4>1. j \in 1 .. Len(Requested)
        BY <1>4, <1>5, <2>2, <3>1
      <4>2. Requested[j] = created[i] /\ (i < h => created[i].kind = "Proxy")
        BY <2>2, <3>1
      <4> HIDE DEF j
      <4>3. Requested'[j] = Requested[j] /\ created'[i] = created[i]
        BY <1>4, <1>5, <3>1, <4>1
      <4>4. QED
        BY <4>2, <4>3 DEF j
    <3>2. CASE i = Len(created) + 1
      <4>1. ~(i < h) /\ i + 1 = Len(Requested) + 1
        BY <1>4, <1>5, <2>2, <3>2
      <4>2. QED
        BY <1>4, <1>5, <3>2, <4>1
    <3>3. QED
      BY <1>5, <3>1, <3>2
  <2>6. HelloAt(h)'
    BY <2>3, <2>4, <2>5 DEF HelloAt
  <2>7. QED
    BY <1>6, <1>8, <2>4, <2>6 DEF Requests
<1>9. QED
  BY <1>7, <1>8 DEF Requests

LEMMA RequestsKept ==
    ASSUME StreamInv, TypesOfRequests, Requests, [Next]_vars
    PROVE  TypesOfRequests' /\ Requests'
<1>1. TypesOfClient /\ TypesOfApp /\ TypesOfMediator /\ Sent /\ Arrived
  BY DEF StreamInv
<1>2. ASSUME UNCHANGED <<requests, toMediator, created>>, mediator'.version = mediator.version,
             protocol'.state = protocol.state \/ protocol'.state = "Error"
               \/ (protocol.state # "AwaitingServerHello"
                   /\ protocol'.state # "AwaitingServerHello" /\ protocol.state # "Error")
      PROVE  TypesOfRequests' /\ Requests'
  <2>1. Requested' = Requested
    BY <1>2 DEF Requested, Mapped
  <2>2. QED
    BY <1>2, <2>1, RequestsStill DEF TypesOfRequests
<1>3. ASSUME RunHandshake
      PROVE  TypesOfRequests' /\ Requests'
  <2>1. UNCHANGED <<created, requests, mediator>>
    BY <1>3 DEF RunHandshake, server
  <2>2. CASE Breaks
    <3>1. protocol'.state = "Error" /\ toMediator' = toMediator
      BY <2>2, BreakTypes DEF Breaks
    <3>2. QED
      BY <1>2, <2>1, <3>1
  <2>3. CASE Greet
    BY <1>1, <2>1, <2>3, RequestsGreet DEF TypesOfRequests
  <2>4. CASE Open
    <3>1. /\ protocol.state = "AwaitingServerInfo" /\ protocol'.state = "PostHandshake"
          /\ toMediator' = toMediator
      BY <2>4, AdvancedTo DEF Open
    <3>2. QED
      BY <1>2, <2>1, <3>1
  <2>5. QED
    BY <1>1, <1>3, <2>2, <2>3, <2>4, HandshakeDoes
<1>4. ASSUME PollPayload
      PROVE  TypesOfRequests' /\ Requests'
  <2>1. UNCHANGED <<created, requests, mediator, toMediator>>
    BY <1>4 DEF PollPayload, server
  <2>2. protocol'.state = protocol.state \/ protocol'.state = "Error"
    <3>1. CASE Breaks
      BY <3>1, BreakTypes
    <3>2. CASE HandOut
      BY <3>2, AdvancedTo DEF HandOut
    <3>3. CASE Waits
      BY <3>3 DEF Waits
    <3>4. QED
      BY <1>1, <1>4, <3>1, <3>2, <3>3, PollDoes
  <2>3. QED
    BY <1>2, <2>1, <2>2
<1>5. ASSUME Receive
      PROVE  TypesOfRequests' /\ Requests'
  <2>1. UNCHANGED <<created, requests, mediator, toMediator>>
    BY <1>5 DEF Receive, server
  <2>2. protocol'.state = protocol.state
    BY <1>1, <1>5, ReceiveDoes
  <2>3. QED
    BY <1>2, <2>1, <2>2
<1>6. ASSUME CreateEarly
      PROVE  TypesOfRequests' /\ Requests'
  <2>1. UNCHANGED <<protocol, requests, mediator>>
    BY <1>6 DEF CreateEarly, server
  <2>2. QED
    BY <1>1, <1>6, <2>1, AppPayloads, RequestsCreate DEF CreateEarly
<1>7. ASSUME SendOutgoing
      PROVE  TypesOfRequests' /\ Requests'
  <2>1. UNCHANGED <<protocol, requests, mediator>> /\ CreatePayload(Head(outgoing))
    BY <1>7 DEF SendOutgoing, server
  <2>2. Head(outgoing) \in PayloadsFromClient
    BY <1>1, <1>7, HeadTailProperties DEF SendOutgoing, TypesOfApp
  <2>3. QED
    BY <1>1, <2>1, <2>2, RequestsCreate
<1>8. ASSUME MediatorReceives
      PROVE  TypesOfRequests' /\ Requests'
  <2>1. PICK request \in RequestsFromClient :
          /\ toMediator # <<>> /\ request = RequestOf[Head(toMediator)]
          /\ toMediator' = Tail(toMediator) /\ requests' = Append(requests, request)
    BY <1>1, <1>8, MediatorDoes
  <2>2. Requested' = Requested
    BY <1>1, <2>1, RequestedReceived
  <2>3. UNCHANGED <<protocol, created>>
    BY <1>8 DEF MediatorReceives, client
  <2>4. mediator'.version = mediator.version
    <3>1. Quiet \/ SendsOne \/ AnswersHello
      BY <1>1, <1>8, MediatorSteps
    <3>2. QED
      BY <1>1, <3>1 DEF Quiet, SendsOne, AnswersHello, MediatorKeeps, TypesOfMediator
  <2>5. TypesOfRequests'
    BY <2>1, <2>3, AppendProperties DEF TypesOfRequests
  <2>6. QED
    BY <2>2, <2>3, <2>4, <2>5, RequestsStill
<1>9. ASSUME MediatorPushes \/ OtherBegins \/ OtherEnds \/ MediatorCloses
      PROVE  TypesOfRequests' /\ Requests'
  <2>1. UNCHANGED <<protocol, created, requests, toMediator>>
    BY <1>9 DEF MediatorPushes, OtherBegins, OtherEnds, MediatorCloses, client
  <2>2. mediator'.version = mediator.version
    <3>1. Quiet \/ SendsOne
      BY <1>1, <1>9, MediatorSteps
    <3>2. QED
      BY <3>1 DEF Quiet, SendsOne, MediatorKeeps
  <2>3. QED
    BY <1>2, <2>1, <2>2
<1>10. ASSUME UNCHANGED <<protocol, created, requests, mediator, toMediator>>
       PROVE  TypesOfRequests' /\ Requests'
  BY <1>2, <1>10
<1>11. QED
  BY <1>3, <1>4, <1>5, <1>6, <1>7, <1>8, <1>9, <1>10
  DEF Next, Runner, App, vars, client, server, SendIncoming, ConnectionLost,
      AppHandles, AppSends, AppTicks

LEMMA InitRequests == Init => TypesOfRequests /\ Requests
<1> SUFFICES ASSUME Init PROVE TypesOfRequests /\ Requests
  OBVIOUS
<1>1. /\ created = <<>> /\ requests = <<>> /\ toMediator = <<>>
      /\ protocol.state = "AwaitingServerHello"
  BY DEF Init
<1>2. TypesOfRequests
  BY <1>1, EmptySeq DEF TypesOfRequests
<1>3. Len(Requested) = 0 /\ Len(created) = 0
  <2>1. toMediator \in Seq(DatagramsFromClient)
    BY <1>1, EmptySeq
  <2>2. Mapped(toMediator) \in Seq(RequestsFromClient) /\ Len(Mapped(toMediator)) = 0
    BY <1>1, <2>1, MappedType
  <2> DEFINE m == Mapped(toMediator)
  <2>3. Requested = <<>> \o m
    BY <1>1 DEF Requested
  <2> HIDE DEF m
  <2>4. <<>> \o m = m
    BY <2>2, ConcatEmptySeq DEF m
  <2>5. QED
    BY <1>1, <2>2, <2>3, <2>4 DEF m
<1>4. QED
  BY <1>1, <1>2, <1>3 DEF Requests

LEMMA RequestsInvariant == Spec => [](StreamInv /\ TypesOfRequests /\ Requests)
<1>1. Init => StreamInv /\ TypesOfRequests /\ Requests
  BY InitStream, InitRequests
<1>2. StreamInv /\ TypesOfRequests /\ Requests /\ [Next]_vars
        => (StreamInv /\ TypesOfRequests /\ Requests)'
  BY NextStream, RequestsKept
<1>3. QED
  BY <1>1, <1>2, PTL DEF Spec

\* What the mediator has received is the first part of what was requested.
LEMMA Received ==
    ASSUME StreamInv, TypesOfRequests
    PROVE  /\ Len(requests) \in Nat /\ DOMAIN requests = 1 .. Len(requests)
           /\ \A i \in 1 .. Len(requests) :
                i \in 1 .. Len(Requested) /\ Requested[i] = requests[i]
<1> DEFINE m == Mapped(toMediator)
           all == requests \o m
<1>1. requests \in Seq(RequestsFromClient) /\ m \in Seq(RequestsFromClient)
  BY MappedType DEF StreamInv, TypesOfMediator, TypesOfRequests
<1> HIDE DEF m
<1>2. /\ Len(requests) \in Nat /\ Len(m) \in Nat /\ DOMAIN requests = 1 .. Len(requests)
      /\ Len(all) = Len(requests) + Len(m)
      /\ \A i \in 1 .. Len(requests) + Len(m) : all[i] =
           IF i <= Len(requests) THEN requests[i] ELSE m[i - Len(requests)]
  BY <1>1, LenProperties, ConcatProperties
<1>3. Requested = all
  BY DEF Requested, m
<1> HIDE DEF all
<1>4. QED
  BY <1>2, <1>3

LEMMA HelloIsFirst ==
    ASSUME StreamInv, TypesOfRequests, Requests
    PROVE  HelloFirst /\ RequestsArrive
<1>1. /\ Len(requests) \in Nat /\ DOMAIN requests = 1 .. Len(requests)
      /\ \A i \in 1 .. Len(requests) :
           i \in 1 .. Len(Requested) /\ Requested[i] = requests[i]
  BY Received
<1>2. /\ created \in Seq(PayloadsFromClient) /\ Len(created) \in Nat
      /\ DOMAIN created = 1 .. Len(created)
      /\ \A i \in 1 .. Len(created) : created[i].kind # "ClientHello"
  <2>1. created \in Seq(PayloadsFromClient)
    BY DEF TypesOfRequests
  <2>2. \A i \in 1 .. Len(created) : created[i].kind # "ClientHello"
    BY <2>1, ElementOfSeq, PayloadIsNoHello
  <2>3. QED
    BY <2>1, <2>2, LenProperties
<1>3. CASE /\ Len(Requested) = Len(created)
           /\ \A i \in 1 .. Len(created) :
                Requested[i] = created[i] /\ created[i].kind = "Proxy"
  <2>1. \A i \in 1 .. Len(requests) :
          i \in 1 .. Len(created) /\ requests[i] = created[i] /\ requests[i].kind = "Proxy"
    BY <1>1, <1>3
  <2>2. \A i \in 1 .. Len(requests) : ~IsHello(requests[i])
    BY <2>1 DEF IsHello
  <2>3. HelloFirst
    BY <1>1, <2>1, <2>2 DEF HelloFirst
  <2>4. \A i \in 1 .. Len(requests) : PayloadNumber(i) = i
    BY <1>1, <2>2 DEF PayloadNumber
  <2>5. RequestsArrive
    BY <1>1, <1>2, <2>1, <2>4 DEF RequestsArrive
  <2>6. QED
    BY <2>3, <2>5
<1>4. CASE \E h \in 1 .. Len(Requested) : HelloAt(h)
  <2>1. PICK h \in 1 .. Len(Requested) : HelloAt(h)
    BY <1>4
  <2>2. /\ h \in Nat /\ h >= 1 /\ h <= Len(created) + 1 /\ Len(Requested) = Len(created) + 1
        /\ \A i \in 1 .. Len(created) :
             Requested[IF i < h THEN i ELSE i + 1] = created[i]
             /\ (i < h => created[i].kind = "Proxy")
    BY <1>2, <2>1 DEF HelloAt
  <2>3. PICK version \in MinVersion .. mediator.version :
          Requested[h] = [kind |-> "ClientHello", version |-> version]
    BY <2>1 DEF HelloAt
  <2>4. ASSUME NEW i \in 1 .. Len(requests), i < h
        PROVE  i \in 1 .. Len(created) /\ requests[i] = created[i] /\ requests[i].kind = "Proxy"
    <3>1. i \in 1 .. Len(created)
      BY <1>2, <2>2, <2>4
    <3>2. Requested[i] = created[i] /\ created[i].kind = "Proxy"
      BY <2>2, <2>4, <3>1
    <3>3. QED
      BY <1>1, <3>1, <3>2
  <2>5. ASSUME NEW i \in 1 .. Len(requests), i > h
        PROVE  i - 1 \in 1 .. Len(created) /\ requests[i] = created[i - 1]
               /\ requests[i].kind # "ClientHello"
    <3> DEFINE j == i - 1
    <3>1. j \in 1 .. Len(created) /\ ~(j < h) /\ j + 1 = i
      BY <1>1, <1>2, <2>2, <2>5
    <3> HIDE DEF j
    <3>2. Requested[j + 1] = created[j]
      BY <2>2, <3>1
    <3>3. requests[i] = created[j]
      BY <1>1, <3>1, <3>2
    <3>4. created[j].kind # "ClientHello"
      BY <1>2, <3>1
    <3>5. QED
      BY <3>1, <3>3, <3>4 DEF j
  <2>6. ASSUME NEW i \in 1 .. Len(requests)
        PROVE  /\ IsHello(requests[i]) <=> i = h
               /\ i = h => requests[i].version = version
    <3>1. CASE i < h
      BY <2>2, <2>4, <3>1 DEF IsHello
    <3>2. CASE i > h
      BY <2>2, <2>5, <3>2 DEF IsHello
    <3>3. CASE i = h
      BY <1>1, <2>3, <3>3 DEF IsHello
    <3>4. QED
      BY <1>1, <2>2, <3>1, <3>2, <3>3
  <2>7. HelloFirst
    <3>1. ASSUME NEW i \in 1 .. Len(requests), requests[i].kind # "Proxy"
          PROVE  \E j \in 1 .. i : IsHello(requests[j])
      <4>1. h \in 1 .. i /\ h \in 1 .. Len(requests)
        BY <1>1, <2>2, <2>4, <3>1
      <4>2. IsHello(requests[h])
        BY <2>6, <4>1
      <4>3. QED
        BY <4>1, <4>2
    <3>2. ASSUME NEW i \in 1 .. Len(requests), NEW j \in 1 .. Len(requests),
                 IsHello(requests[i]), IsHello(requests[j])
          PROVE  i = j
      BY <2>6, <3>2
    <3>3. ASSUME NEW i \in 1 .. Len(requests), IsHello(requests[i])
          PROVE  requests[i].version \in MinVersion .. mediator.version
      BY <2>3, <2>6, <3>3
    <3>4. QED
      BY <1>1, <3>1, <3>2, <3>3 DEF HelloFirst
  <2>8. ASSUME NEW i \in 1 .. Len(requests), ~IsHello(requests[i])
        PROVE  PayloadNumber(i) \in 1 .. Len(created) /\ requests[i] = created[PayloadNumber(i)]
    <3>1. CASE i < h
      <4>1. \A j \in 1 .. i : ~IsHello(requests[j])
        <5>1. ASSUME NEW j \in 1 .. i
              PROVE  ~IsHello(requests[j])
          <6>1. j \in 1 .. Len(requests) /\ j # h
            BY <1>1, <2>2, <3>1
          <6>2. QED
            BY <2>6, <6>1
        <5>2. QED
          BY <5>1
      <4>2. PayloadNumber(i) = i
        BY <4>1 DEF PayloadNumber
      <4>3. QED
        BY <2>4, <3>1, <4>2
    <3>2. CASE i > h
      <4>1. h \in 1 .. i /\ h \in 1 .. Len(requests)
        BY <1>1, <2>2, <3>2
      <4>2. PayloadNumber(i) = i - 1
        BY <2>6, <4>1 DEF PayloadNumber
      <4>3. QED
        BY <2>5, <3>2, <4>2
    <3>3. CASE i = h
      BY <2>6, <2>8, <3>3
    <3>4. QED
      BY <1>1, <2>2, <3>1, <3>2, <3>3
  <2>9. RequestsArrive
    BY <1>1, <1>2, <2>8 DEF RequestsArrive
  <2>10. QED
    BY <2>7, <2>9
<1>5. QED
  BY <1>3, <1>4 DEF Requests

-----------------------------------------------------------------------------
(* Who may take the transaction for running                                *)

\* The app does nothing before the handshake has ended.
AppIdle == runner.at = "handshake" => outgoing = <<>> /\ app.send = <<>>

LEMMA WaitingType ==
    ASSUME TypesOfApp, TypesOfMediator
    PROVE  /\ Mapped(toMediator) \in Seq(RequestsFromClient)
           /\ outgoing \in Seq(RequestsFromClient) /\ app.send \in Seq(RequestsFromClient)
           /\ outgoing \o app.send \in Seq(RequestsFromClient)
           /\ Waiting \in Seq(RequestsFromClient) /\ Len(Waiting) \in Nat
<1>1. PayloadsFromClient \subseteq RequestsFromClient
  BY DEF RequestsFromClient
<1>2. outgoing \in Seq(RequestsFromClient) /\ app.send \in Seq(RequestsFromClient)
  BY <1>1, SeqMonotonic DEF TypesOfApp
<1>3. Mapped(toMediator) \in Seq(RequestsFromClient)
  BY MappedType DEF TypesOfMediator
<1> DEFINE m == Mapped(toMediator)
           send == app.send
           rest == outgoing \o send
<1>4. rest \in Seq(RequestsFromClient)
  <2>1. send \in Seq(RequestsFromClient)
    BY <1>2
  <2> HIDE DEF send
  <2>2. QED
    BY <1>2, <2>1, ConcatProperties
<1>5. m \o rest \in Seq(RequestsFromClient)
  <2>1. m \in Seq(RequestsFromClient)
    BY <1>3
  <2> HIDE DEF m, rest
  <2>2. QED
    BY <1>4, <2>1, ConcatProperties
<1>6. Waiting = m \o rest
  BY DEF Waiting
<1>7. Len(Waiting) \in Nat
  BY <1>5, <1>6, LenProperties
<1>8. QED
  BY <1>2, <1>3, <1>4, <1>5, <1>6, <1>7

\* No request to commit is added.
LEMMA WaitingMore ==
    ASSUME TypesOfApp, TypesOfMediator, NEW request \in RequestsFromClient,
           Waiting' = Waiting \o <<request>>
    PROVE  /\ Len(Waiting) \in Nat /\ Len(Waiting') = Len(Waiting) + 1
           /\ \A i \in 1 .. Len(Waiting) : Waiting'[i] = Waiting[i]
           /\ Waiting'[Len(Waiting) + 1] = request
<1> DEFINE last == <<request>>
           all == Waiting
           longer == all \o last
<1>1. last \in Seq(RequestsFromClient) /\ Len(last) = 1 /\ last[1] = request
  OBVIOUS
<1>2. all \in Seq(RequestsFromClient) /\ Len(all) \in Nat
  BY WaitingType
<1>3. Waiting' = longer
  OBVIOUS
<1> HIDE DEF last, all
<1>4. /\ Len(longer) = Len(all) + Len(last)
      /\ \A i \in 1 .. Len(all) + Len(last) : longer[i] =
           IF i <= Len(all) THEN all[i] ELSE last[i - Len(all)]
  BY <1>1, <1>2, ConcatProperties
<1> HIDE DEF longer
<1>5. \A i \in 1 .. Len(all) : longer[i] = all[i]
  BY <1>1, <1>2, <1>4
<1>6. longer[Len(all) + 1] = last[1]
  <2>1. /\ Len(all) + 1 \in 1 .. Len(all) + Len(last) /\ ~(Len(all) + 1 <= Len(all))
        /\ (Len(all) + 1) - Len(all) = 1
    BY <1>1, <1>2
  <2>2. longer[Len(all) + 1] = last[(Len(all) + 1) - Len(all)]
    BY <1>4, <2>1
  <2>3. QED
    BY <2>1, <2>2
<1>7. QED
  BY <1>1, <1>2, <1>3, <1>4, <1>5, <1>6 DEF all

LEMMA NothingToCommit ==
    ASSUME TypesOfApp, TypesOfMediator, NEW request \in RequestsFromClient,
           Waiting' = Waiting \o <<request>>, request.kind # "CommitTransaction"
    PROVE  \A j : Committing(j)' => Committing(j)
<1>1. /\ Len(Waiting) \in Nat /\ Len(Waiting') = Len(Waiting) + 1
      /\ \A i \in 1 .. Len(Waiting) : Waiting'[i] = Waiting[i]
      /\ Waiting'[Len(Waiting) + 1] = request
  BY WaitingMore
<1>2. ASSUME NEW j, Committing(j)'
      PROVE  Committing(j)
  <2>1. j \in 1 .. Len(Waiting) + 1 /\ Waiting'[j].kind = "CommitTransaction"
    BY <1>1, <1>2 DEF Committing
  <2>2. j \in 1 .. Len(Waiting)
    BY <1>1, <2>1
  <2>3. QED
    BY <1>1, <2>1, <2>2 DEF Committing
<1>3. QED
  BY <1>2

\* The first of what waits is received.
LEMMA WaitingReceived ==
    ASSUME TypesOfApp, TypesOfMediator, toMediator # <<>>, toMediator' = Tail(toMediator),
           UNCHANGED <<outgoing, app>>,
           NEW request, request = RequestOf[Head(toMediator)]
    PROVE  /\ \A j : Committing(j)' => Committing(j + 1) /\ j + 1 # 1
           /\ request.kind = "CommitTransaction" => Committing(1)
<1> DEFINE m == Mapped(toMediator)
           rest == outgoing \o app.send
<1>1. /\ m \in Seq(RequestsFromClient) /\ rest \in Seq(RequestsFromClient)
      /\ Waiting = m \o rest /\ Len(Waiting) \in Nat /\ Waiting \in Seq(RequestsFromClient)
  BY WaitingType DEF Waiting
<1>2. m # <<>> /\ Head(m) = request /\ Tail(m) = Mapped(Tail(toMediator))
  BY MappedTail DEF TypesOfMediator
<1>3. Waiting' = Tail(m) \o rest
  <2>1. Mapped(toMediator)' = Mapped(Tail(toMediator))
    BY DEF Mapped
  <2>2. Waiting' = Mapped(toMediator)' \o rest
    BY DEF Waiting
  <2>3. QED
    BY <1>2, <2>1, <2>2
<1> HIDE DEF m, rest
<1>4. Tail(m \o rest) = Tail(m) \o rest /\ Head(m \o rest) = Head(m)
  BY <1>1, <1>2, TailOfJoined
<1>5. m \o rest # <<>>
  BY <1>1, <1>2, ConcatEqualIffEmpty
<1>6. Waiting # <<>> /\ Waiting' = Tail(Waiting) /\ Head(Waiting) = request
  BY <1>1, <1>2, <1>3, <1>4, <1>5
<1> DEFINE w == Waiting
<1> HIDE DEF w
<1>7. /\ w \in Seq(RequestsFromClient) /\ w # <<>> /\ Len(w) \in Nat /\ Len(w) > 0
      /\ Head(w) = request
  BY <1>1, <1>6, EmptySeq DEF w
<1>8. Len(Tail(w)) = Len(w) - 1 /\ \A i \in 1 .. Len(Tail(w)) : Tail(w)[i] = w[i + 1]
  BY <1>7, HeadTailProperties
<1>9. Head(w) = w[1]
  OBVIOUS
<1>10. ASSUME NEW j, Committing(j)'
       PROVE  Committing(j + 1) /\ j + 1 # 1
  <2>1. j \in 1 .. Len(Tail(w)) /\ Tail(w)[j].kind = "CommitTransaction"
    BY <1>6, <1>10 DEF Committing, w
  <2>2. j + 1 \in 1 .. Len(w) /\ j + 1 # 1
    BY <1>7, <1>8, <2>1
  <2>3. w[j + 1].kind = "CommitTransaction"
    BY <1>8, <2>1
  <2>4. QED
    BY <2>2, <2>3 DEF Committing, w
<1>11. ASSUME request.kind = "CommitTransaction"
       PROVE  Committing(1)
  <2>1. 1 \in 1 .. Len(w) /\ w[1] = request
    BY <1>7, <1>9
  <2>2. QED
    BY <1>11, <2>1 DEF Committing, w
<1>12. QED
  BY <1>10, <1>11

\* Nothing is added that the lock depends on.
LEMMA LockShrinks ==
    ASSUME Lock,
           mediator'.lock = mediator.lock
             \/ (mediator.lock # "client" /\ mediator'.lock # "client"),
           app'.transaction = "Running" => app.transaction = "Running",
           \A i : Unhandled(i)' => Unhandled(i),
           NEW k \in {0, 1}, \A j : Committing(j)' => Committing(j + k),
           \A j : Committing(j)' => j \in Nat
    PROVE  Lock'
<1>1. ASSUME mediator'.lock # "client"
      PROVE  app'.transaction # "Running" /\ (\A i : ~Unhandled(i)') /\ (\A i : ~Committing(i)')
  BY <1>1 DEF Lock
<1>2. ASSUME NEW i, NEW j, Unhandled(i)', Unhandled(j)'
      PROVE  i = j
  BY <1>2 DEF Lock
<1>3. ASSUME NEW i, NEW j, Committing(i)', Committing(j)'
      PROVE  i = j
  <2>1. i + k = j + k /\ i \in Nat /\ j \in Nat
    BY <1>3 DEF Lock
  <2>2. QED
    BY <2>1
<1>4. ASSUME NEW i, Unhandled(i)'
      PROVE  app'.transaction # "Running" /\ \A j : ~Committing(j)'
  BY <1>4 DEF Lock
<1>5. ASSUME NEW i, Committing(i)'
      PROVE  app'.transaction # "Running"
  BY <1>5 DEF Lock
<1>6. QED
  BY <1>1, <1>2, <1>3, <1>4, <1>5 DEF Lock

LEMMA AppIdleKept ==
    ASSUME AppIdle, TypesOfClient, TypesOfApp, TypesOfMediator, Sent, Arrived, [Next]_vars
    PROVE  AppIdle'
<1>1. ASSUME RunHandshake
      PROVE  AppIdle'
  BY <1>1 DEF RunHandshake, AppIdle
<1>2. ASSUME PollPayload
      PROVE  AppIdle'
  <2>1. CASE Breaks
    BY <2>1 DEF Breaks, AppIdle, Closed
  <2>2. CASE HandOut
    BY <2>2 DEF HandOut, AppIdle
  <2>3. CASE Waits
    BY <2>3 DEF Waits, AppIdle, Payload
  <2>4. QED
    BY <1>2, <2>1, <2>2, <2>3, PollDoes
<1>3. ASSUME SendIncoming \/ Receive \/ SendOutgoing \/ ConnectionLost
      PROVE  AppIdle'
  BY <1>3
  DEF SendIncoming, Receive, SendOutgoing, ConnectionLost, OnceHandedOver, Payload, Closed, AppIdle
<1>4. ASSUME AppHandles \/ AppSends \/ AppTicks
      PROVE  AppIdle'
  BY <1>4 DEF AppHandles, AppSends, AppTicks, Running, AppIdle
<1>5. ASSUME UNCHANGED <<runner, outgoing, app>>
      PROVE  AppIdle'
  BY <1>5 DEF AppIdle
<1>6. QED
  BY <1>1, <1>2, <1>3, <1>4, <1>5
  DEF Next, Runner, App, vars, client, CreateEarly,
      MediatorReceives, MediatorPushes, OtherBegins, OtherEnds, MediatorCloses

\* How what waits changes: the app puts one payload behind it,
LEMMA AppQueues ==
    ASSUME TypesOfApp, TypesOfMediator, NEW payload \in PayloadsFromClient,
           app.send = <<>>, app'.send = <<payload>>, UNCHANGED <<outgoing, toMediator>>
    PROVE  Waiting' = Waiting \o <<payload>>
<1> DEFINE m == Mapped(toMediator)
           last == <<payload>>
<1>1. m \in Seq(RequestsFromClient) /\ outgoing \in Seq(RequestsFromClient)
  BY WaitingType
<1>2. last \in Seq(RequestsFromClient)
  BY PayloadIsNoHello
<1>3. Waiting = m \o outgoing
  <2>1. outgoing \o <<>> = outgoing
    BY <1>1, ConcatEmptySeq
  <2>2. QED
    BY <2>1 DEF Waiting
<1>4. Waiting' = m \o (outgoing \o last)
  BY DEF Waiting, Mapped
<1> HIDE DEF m, last
<1>5. Grouped(m, outgoing, last)
  BY <1>1, <1>2, AllGrouped, Zenon
<1>6. Waiting' = Waiting \o last
  BY <1>3, <1>4, <1>5 DEF Grouped
<1>7. QED
  BY <1>6 DEF last

\* the protocol one datagram while the app does nothing,
LEMMA ProtocolQueues ==
    ASSUME TypesOfApp, TypesOfMediator, NEW d \in DatagramsFromClient,
           outgoing = <<>>, app.send = <<>>, UNCHANGED <<outgoing, app>>,
           toMediator' = toMediator \o <<d>>
    PROVE  Waiting' = Waiting \o <<RequestOf[d]>>
<1> DEFINE m == Mapped(toMediator)
           longer == Mapped(toMediator \o <<d>>)
           last == <<RequestOf[d]>>
<1>1. toMediator \in Seq(DatagramsFromClient) /\ m \in Seq(RequestsFromClient)
  BY WaitingType DEF TypesOfMediator
<1>2. last \in Seq(RequestsFromClient)
  BY RequestType
<1>3. longer = m \o last
  BY <1>1, MappedMore
<1>4. <<>> \o <<>> = <<>>
  BY EmptySeq, ConcatEmptySeq
<1>5. Waiting = m \o <<>>
  BY <1>4 DEF Waiting
<1>6. Waiting' = longer \o <<>>
  <2>1. Mapped(toMediator)' = longer
    BY DEF Mapped
  <2> HIDE DEF longer
  <2>2. Waiting' = Mapped(toMediator)' \o (<<>> \o <<>>)
    BY DEF Waiting
  <2>3. QED
    BY <1>4, <2>1, <2>2
<1> HIDE DEF m, longer, last
<1>7. longer \in Seq(RequestsFromClient)
  BY <1>1, <1>2, <1>3, ConcatProperties
<1>8. m \o <<>> = m /\ longer \o <<>> = longer
  BY <1>1, <1>7, ConcatEmptySeq
<1>9. Waiting' = Waiting \o last
  BY <1>3, <1>5, <1>6, <1>8
<1>10. QED
  BY <1>9 DEF last

\* and the runner and the app only move what waits.
LEMMA WaitingMoves ==
    ASSUME TypesOfApp, TypesOfMediator, SendOutgoing \/ AppSends
    PROVE  Waiting' = Waiting
<1> DEFINE m == Mapped(toMediator)
           send == app.send
           rest == outgoing \o send
<1>1. /\ m \in Seq(RequestsFromClient) /\ outgoing \in Seq(RequestsFromClient)
      /\ send \in Seq(RequestsFromClient) /\ rest \in Seq(RequestsFromClient)
      /\ toMediator \in Seq(DatagramsFromClient) /\ outgoing \in Seq(PayloadsFromClient)
  BY WaitingType DEF TypesOfMediator, TypesOfApp
<1>2. Waiting = m \o rest
  BY DEF Waiting
<1>3. ASSUME AppSends
      PROVE  Waiting' = Waiting
  <2>1. outgoing' = rest /\ app'.send = <<>> /\ toMediator' = toMediator
    BY <1>3 DEF AppSends, TypesOfApp
  <2>2. rest \o <<>> = rest
    <3> HIDE DEF rest
    <3>1. QED
      BY <1>1, ConcatEmptySeq
  <2>3. Mapped(toMediator)' = m
    BY <2>1 DEF Mapped
  <2>4. Waiting' = Mapped(toMediator)' \o (outgoing' \o app'.send)
    BY DEF Waiting
  <2> HIDE DEF rest, m
  <2>5. QED
    BY <1>2, <2>1, <2>2, <2>3, <2>4
<1>4. ASSUME SendOutgoing
      PROVE  Waiting' = Waiting
  <2> DEFINE first == Head(outgoing)
             behind == Tail(outgoing)
             d == DatagramOf[first]
  <2>1. /\ outgoing # <<>> /\ outgoing' = behind /\ app' = app
        /\ toMediator' = Append(toMediator, d)
    BY <1>4 DEF SendOutgoing, CreatePayload
  <2>2. first \in PayloadsFromClient
    BY <1>1, <2>1, HeadTailProperties
  <2>3. d \in DatagramsFromClient /\ RequestOf[d] = first
    BY <2>2, RequestsDecoded DEF DatagramsFromClient
  <2>4. first \in RequestsFromClient
    BY <2>2, PayloadIsNoHello
  <2> HIDE DEF d
  <2>5. toMediator' = toMediator \o <<d>>
    BY <1>1, <2>1, <2>3, AppendIsConcat
  <2>6. Mapped(toMediator \o <<d>>) = m \o <<RequestOf[d]>>
    BY <1>1, <2>3, MappedMore
  <2>7. Mapped(toMediator)' = m \o <<first>>
    <3>1. Mapped(toMediator)' = Mapped(toMediator \o <<d>>)
      BY <2>5 DEF Mapped
    <3> HIDE DEF m, first
    <3>2. QED
      BY <2>3, <2>6, <3>1
  <2>8. Tail(rest) = behind \o send /\ Head(rest) = first /\ rest # <<>>
    <3> HIDE DEF send
    <3>1. Tail(outgoing \o send) = Tail(outgoing) \o send /\ Head(outgoing \o send) = Head(outgoing)
      BY <1>1, <2>1, TailOfJoined
    <3>2. outgoing \o send # <<>>
      BY <1>1, <2>1, ConcatEqualIffEmpty
    <3>3. QED
      BY <3>1, <3>2
  <2>9. Waiting' = (m \o <<first>>) \o (behind \o send)
    <3>1. Waiting' = Mapped(toMediator)' \o (outgoing' \o app'.send)
      BY DEF Waiting
    <3> HIDE DEF m, first, behind
    <3>2. QED
      BY <2>1, <2>7, <3>1
  <2> HIDE DEF first, behind, send, rest, m
  <2>10. Append(m, Head(rest)) \o Tail(rest) = m \o rest
    BY <1>1, <2>8, AppendTail
  <2>11. Append(m, first) = m \o <<first>>
    BY <1>1, <2>4, AppendIsConcat
  <2>12. QED
    BY <1>2, <2>8, <2>9, <2>10, <2>11
<1>5. QED
  BY <1>3, <1>4

\* Of what is sent, only the acknowledgement to begin is one.
LEMMA UnhandledMore ==
    ASSUME TypesOfApp, TypesOfMediator, UNCHANGED handled, NEW payload, Sends(<<payload>>)
    PROVE  /\ Len(sent) \in Nat
           /\ \A i : Unhandled(i)' =>
                Unhandled(i) \/ (i = Len(sent) + 1 /\ payload.kind = "BeginTransactionAck")
<1>1. Len(<<payload>>) = 1 /\ <<payload>>[1] = payload
  OBVIOUS
<1>2. /\ Len(sent') = Len(sent) + 1 /\ sent'[Len(sent) + 1] = payload
      /\ \A i \in 1 .. Len(sent) : sent'[i] = sent[i]
  BY <1>1 DEF Sends
<1>3. Len(sent) \in Nat /\ Len(handled) \in Nat
  BY LenProperties DEF TypesOfMediator, TypesOfApp
<1>4. ASSUME NEW i, Unhandled(i)', i # Len(sent) + 1
      PROVE  Unhandled(i)
  <2>1. i \in 3 + Len(handled) .. Len(sent) + 1 /\ sent'[i].kind = "BeginTransactionAck"
    BY <1>2, <1>4 DEF Unhandled
  <2>2. i \in 3 + Len(handled) .. Len(sent) /\ i \in 1 .. Len(sent)
    BY <1>3, <1>4, <2>1
  <2>3. QED
    BY <1>2, <2>1, <2>2 DEF Unhandled
<1>5. ASSUME NEW i, Unhandled(i)', i = Len(sent) + 1
      PROVE  payload.kind = "BeginTransactionAck"
  BY <1>2, <1>5 DEF Unhandled
<1>6. QED
  BY <1>3, <1>4, <1>5

LEMMA NoneGranted ==
    ASSUME TypesOfApp, TypesOfMediator, UNCHANGED handled, NEW payload, Sends(<<payload>>),
           payload.kind # "BeginTransactionAck"
    PROVE  \A i : Unhandled(i)' => Unhandled(i)
BY UnhandledMore

\* Nothing the lock depends on changes.
LEMMA LockStill ==
    ASSUME Lock, Waiting' = Waiting, UNCHANGED <<sent, handled>>,
           app'.transaction = app.transaction, mediator'.lock = mediator.lock
    PROVE  Lock'
BY DEF Lock, Unhandled, Committing

LEMMA CommittingPlace == ASSUME NEW j, Committing(j) PROVE j \in Nat
BY DEF Committing

\* No payload that is pushed grants the lock.
LEMMA PushesGrantNothing ==
    /\ \A payload \in Pushes : payload.kind # "BeginTransactionAck"
    /\ \A datagram \in Malformed : MalformedPayload(datagram).kind # "BeginTransactionAck"
<1>1. ASSUME NEW payload \in Pushes
      PROVE  payload.kind # "BeginTransactionAck"
  <2>1. payload \in PushedPayloads
    BY D2mAssumption
  <2>2. QED
    BY <2>1 DEF PushedPayloads, PushedKinds
<1>2. QED
  BY <1>1 DEF MalformedPayload

\* What is sent by the mediator of its own accord.
LEMMA SendOne ==
    ASSUME TypesOfMediator, NEW payload \in PayloadsToClient, Send(<<payload>>)
    PROVE  Sends(<<payload>>)
<1>1. <<payload>> \in Seq(PayloadsToClient)
  OBVIOUS
<1>2. QED
  BY <1>1, SendDoes

\* The app handles a payload: an acknowledgement to begin is one the client holds
\* the lock for, and with none on its way it is the only one.
LEMMA LockHandles ==
    ASSUME TypesOfClient, TypesOfApp, TypesOfMediator, Arrived, Lock, AppHandles
    PROVE  Lock'
<1> DEFINE payload == Head(incoming)
           k == 3 + Len(handled)
<1>1. /\ incoming # <<>> /\ app.send = <<>> /\ handled' = Append(handled, payload)
      /\ app' = [app EXCEPT !.transaction = Handle(app.transaction, payload).to,
                            !.send = Handle(app.transaction, payload).send]
      /\ UNCHANGED <<outgoing, toMediator, sent, mediator>>
  BY DEF AppHandles, server
<1>2. /\ handled \in Seq(HandedPayloads) /\ incoming \in Seq(HandedPayloads)
      /\ runner.payload \in Seq(HandedPayloads) /\ Len(handled) \in Nat
  BY LenProperties DEF TypesOfApp, TypesOfClient
<1>3. payload \in HandedPayloads /\ Len(handled') = Len(handled) + 1
  BY <1>1, <1>2, HeadTailProperties, AppendProperties
<1>4. HandedFor(payload, sent[k]) /\ k <= Len(sent)
  <2> DEFINE first == handled \o incoming
  <2>1. /\ first \in Seq(HandedPayloads) /\ Len(first) = Len(handled) + Len(incoming)
        /\ \A i \in 1 .. Len(handled) + Len(incoming) :
             first[i] = IF i <= Len(handled) THEN handled[i] ELSE incoming[i - Len(handled)]
    BY <1>2, ConcatProperties
  <2>2. Len(incoming) \in Nat /\ Len(incoming) > 0 /\ payload = incoming[1]
    BY <1>1, <1>2, EmptySeq
  <2>3. first[Len(handled) + 1] = payload /\ Len(first) > Len(handled) /\ Len(first) \in Nat
    <3>1. /\ Len(handled) + 1 \in 1 .. Len(handled) + Len(incoming)
          /\ ~(Len(handled) + 1 <= Len(handled)) /\ (Len(handled) + 1) - Len(handled) = 1
      BY <1>2, <2>2
    <3>2. first[Len(handled) + 1] = incoming[(Len(handled) + 1) - Len(handled)]
      BY <2>1, <3>1
    <3>3. QED
      BY <1>2, <2>1, <2>2, <3>1, <3>2
  <2> DEFINE p == runner.payload
             all == first \o p
  <2>4. HandedOut = all /\ p \in Seq(HandedPayloads)
    BY <1>2 DEF HandedOut
  <2> HIDE DEF first, p, payload
  <2>5. /\ Len(all) = Len(first) + Len(p) /\ Len(p) \in Nat
        /\ \A i \in 1 .. Len(first) + Len(p) :
             all[i] = IF i <= Len(first) THEN first[i] ELSE p[i - Len(first)]
    <3>1. first \in Seq(HandedPayloads) /\ p \in Seq(HandedPayloads)
      BY <2>1, <2>4
    <3>2. Len(p) \in Nat
      BY <3>1, LenProperties
    <3>3. QED
      BY <3>1, <3>2, ConcatProperties
  <2>6. all[Len(handled) + 1] = payload /\ Len(handled) + 1 \in 1 .. Len(all) /\ Len(all) > 0
    BY <1>2, <2>3, <2>5
  <2> HIDE DEF all
  <2>7. HandedFor(HandedOut[Len(handled) + 1], sent[2 + (Len(handled) + 1)])
    BY <2>4, <2>6 DEF Arrived
  <2>8. 2 + Len(all) <= Len(sent)
    BY <2>4, <2>6 DEF Arrived
  <2>9. 2 + (Len(handled) + 1) = k /\ k <= Len(sent)
    <3>1. Len(sent) \in Nat
      BY LenProperties DEF TypesOfMediator
    <3>2. QED
      BY <1>2, <2>3, <2>5, <2>8, <3>1
  <2>10. QED
    BY <2>4, <2>6, <2>7, <2>9
<1>5. payload.kind = sent[k].kind
  BY <1>4 DEF HandedFor
<1>6. Len(sent) \in Nat /\ k \in Nat
  BY <1>2, LenProperties DEF TypesOfMediator
<1>7. \A i : Unhandled(i)' => Unhandled(i) /\ i # k
  <2>1. ASSUME NEW i, Unhandled(i)'
        PROVE  Unhandled(i) /\ i # k
    <3>1. i \in 3 + (Len(handled) + 1) .. Len(sent) /\ sent[i].kind = "BeginTransactionAck"
      BY <1>1, <1>3, <2>1 DEF Unhandled
    <3>2. i \in 3 + Len(handled) .. Len(sent) /\ i # k
      BY <1>2, <1>6, <3>1
    <3>3. QED
      BY <3>1, <3>2 DEF Unhandled
  <2>2. QED
    BY <2>1
<1>8. payload.kind = "BeginTransactionAck" => Unhandled(k)
  BY <1>4, <1>5, <1>6 DEF Unhandled
<1> HIDE DEF k
<1>9. CASE payload.kind = "TransactionEnded" /\ app.transaction = "Blocked"
  <2>1. app'.transaction = "None" /\ app'.send = <<BeginTransaction>>
    BY <1>1, <1>9 DEF Handle, TypesOfApp
  <2>2. Waiting' = Waiting \o <<BeginTransaction>>
    BY <1>1, <2>1, AppPayloads, AppQueues
  <2>3. BeginTransaction \in RequestsFromClient /\ BeginTransaction.kind # "CommitTransaction"
    BY AppPayloads, PayloadIsNoHello DEF BeginTransaction
  <2>4. \A j : Committing(j)' => Committing(j)
    BY <2>2, <2>3, NothingToCommit
  <2>5. \A j : Committing(j)' => Committing(j + 0) /\ j \in Nat
    BY <2>4, CommittingPlace
  <2>6. QED
    BY <1>1, <1>7, <2>1, <2>5, LockShrinks
<1>10. CASE ~(payload.kind = "TransactionEnded" /\ app.transaction = "Blocked")
  <2>1. app'.send = <<>> /\ app'.transaction = Handle(app.transaction, payload).to
    BY <1>1, <1>10 DEF Handle, TypesOfApp
  <2>2. Waiting' = Waiting
    BY <1>1, <2>1 DEF Waiting, Mapped
  <2>3. CASE payload.kind = "BeginTransactionAck"
    <3>1. Unhandled(k)
      BY <1>8, <2>3
    <3>2. mediator.lock = "client" /\ (\A j : ~Committing(j))
      BY <3>1 DEF Lock
    <3>3. \A i : ~Unhandled(i)'
      BY <1>7, <3>1 DEF Lock
    <3>4. (\A j : ~Committing(j)') /\ mediator'.lock = "client"
      BY <1>1, <2>2, <3>2 DEF Committing
    <3>5. QED
      BY <3>3, <3>4 DEF Lock
  <2>4. CASE payload.kind # "BeginTransactionAck"
    <3>1. app'.transaction = "Running" => app.transaction = "Running"
      BY <1>10, <2>1, <2>4 DEF Handle
    <3>2. \A j : Committing(j)' => Committing(j + 0) /\ j \in Nat
      BY <2>2, CommittingPlace DEF Committing
    <3>3. QED
      BY <1>1, <1>7, <3>1, <3>2, LockShrinks
  <2>5. QED
    BY <2>3, <2>4
<1>11. QED
  BY <1>9, <1>10

LEMMA LockTicks ==
    ASSUME TypesOfApp, TypesOfMediator, Lock, AppTicks
    PROVE  Lock'
<1>1. app.send = <<>> /\ UNCHANGED <<handled, outgoing, toMediator, sent, mediator>>
  BY DEF AppTicks, server
<1>2. \A i : Unhandled(i)' => Unhandled(i)
  BY <1>1 DEF Unhandled
<1>3. ASSUME NEW payload \in PayloadsFromClient, payload.kind # "CommitTransaction",
             app'.send = <<payload>>,
             app'.transaction = "Running" => app.transaction = "Running"
      PROVE  Lock'
  <2>1. Waiting' = Waiting \o <<payload>> /\ payload \in RequestsFromClient
    BY <1>1, <1>3, AppQueues, PayloadIsNoHello
  <2>2. \A j : Committing(j)' => Committing(j)
    BY <1>3, <2>1, NothingToCommit
  <2>3. \A j : Committing(j)' => Committing(j + 0) /\ j \in Nat
    BY <2>2, CommittingPlace
  <2>4. QED
    BY <1>1, <1>2, <1>3, <2>3, LockShrinks
<1>4. CASE app.transaction = "None" /\ app' = [app EXCEPT !.transaction = "AwaitingBeginAck",
                                                          !.send = <<BeginTransaction>>]
  <2>1. app'.send = <<BeginTransaction>> /\ app'.transaction = "AwaitingBeginAck"
    BY <1>4 DEF TypesOfApp
  <2>2. BeginTransaction.kind # "CommitTransaction"
    BY DEF BeginTransaction
  <2>3. QED
    BY <1>3, <2>1, <2>2, AppPayloads
<1>5. CASE app.transaction = "Running" /\ app' = [app EXCEPT !.transaction = "AwaitingCommitAck",
                                                             !.send = <<CommitTransaction>>]
  <2>1. app'.send = <<CommitTransaction>> /\ app'.transaction = "AwaitingCommitAck"
    BY <1>5 DEF TypesOfApp
  <2>2. /\ Waiting' = Waiting \o <<CommitTransaction>>
        /\ CommitTransaction \in RequestsFromClient
    BY <1>1, <2>1, AppPayloads, AppQueues, PayloadIsNoHello
  <2>3. /\ mediator.lock = "client" /\ \A i : ~Unhandled(i)
        /\ \A j : ~Committing(j)
    BY <1>5 DEF Lock
  <2>4. /\ Len(Waiting) \in Nat /\ Len(Waiting') = Len(Waiting) + 1
        /\ \A i \in 1 .. Len(Waiting) : Waiting'[i] = Waiting[i]
    BY <2>2, WaitingMore
  <2>5. ASSUME NEW j, Committing(j)'
        PROVE  j = Len(Waiting) + 1
    <3>1. j \in 1 .. Len(Waiting) + 1 /\ Waiting'[j].kind = "CommitTransaction"
      BY <2>4, <2>5 DEF Committing
    <3>2. j \in 1 .. Len(Waiting) => Committing(j)
      BY <2>4, <3>1 DEF Committing
    <3>3. QED
      BY <2>3, <2>4, <3>1, <3>2
  <2>6. mediator'.lock = "client" /\ \A i : ~Unhandled(i)'
    BY <1>1, <1>2, <2>3
  <2>7. QED
    BY <2>1, <2>5, <2>6 DEF Lock
<1>6. CASE app.transaction # "Running" /\ app' = app
  <2>1. Waiting' = Waiting
    BY <1>1, <1>6 DEF Waiting, Mapped
  <2>2. QED
    BY <1>1, <1>6, <2>1, LockStill
<1>7. CASE /\ app.reflectId # MaxReflectId
           /\ app' = [app EXCEPT !.reflectId = @ + 1, !.send = <<Reflect(app.reflectId + 1)>>]
  <2>1. Reflect(app.reflectId + 1) \in PayloadsFromClient
    BY <1>7, AppPayloads DEF TypesOfApp
  <2>2. /\ app'.send = <<Reflect(app.reflectId + 1)>>
        /\ app'.transaction = app.transaction
    BY <1>7 DEF TypesOfApp
  <2>3. Reflect(app.reflectId + 1).kind # "CommitTransaction"
    BY DEF Reflect
  <2>4. QED
    BY <1>3, <2>1, <2>2, <2>3
<1>8. QED
  BY <1>4, <1>5, <1>6, <1>7 DEF AppTicks

\* The mediator gives the lock to one device at a time, and takes it back at the
\* request to commit, which is the only one.
LEMMA LockAnswers ==
    ASSUME TypesOfApp, TypesOfMediator, Sent, Lock, MediatorReceives
    PROVE  Lock'
<1>1. PICK request \in RequestsFromClient :
        /\ toMediator # <<>> /\ request = RequestOf[Head(toMediator)]
        /\ toMediator' = Tail(toMediator) /\ AnswersTo(request)
  BY MediatorDoes
<1>2. UNCHANGED <<outgoing, app, handled>>
  BY DEF MediatorReceives, client
<1>3. /\ \A j : Committing(j)' => Committing(j + 1) /\ j + 1 # 1
      /\ request.kind = "CommitTransaction" => Committing(1)
  BY <1>1, <1>2, WaitingReceived
<1>4. \A j : Committing(j)' => j \in Nat
  BY DEF Committing
<1>5. ASSUME mediator'.lock = mediator.lock, \A i : Unhandled(i)' => Unhandled(i)
      PROVE  Lock'
  BY <1>2, <1>3, <1>4, <1>5, LockShrinks
<1>6. mediator \in [at : {"hello", "open", "closed"}, version : ServerVersions,
                    lock : {"none", "client", "other"}]
  BY DEF TypesOfMediator
<1>7. CASE Greeted
  <2> DEFINE more == <<Info, Reflected(1), Empty("ReflectionQueueDry")>>
  <2>1. more \in Seq(PayloadsToClient)
    <3>1. Info \in PayloadsToClient /\ Reflected(1) \in PayloadsToClient
          /\ Empty("ReflectionQueueDry") \in PayloadsToClient
      BY DEF Info, PayloadsToClient
    <3>2. QED
      BY <3>1
  <2>2. Sends(more)
    BY <1>7, <2>1, SendDoes DEF Greeted
  <2>3. /\ Len(more) = 3
        /\ \A i \in 1 .. 3 : more[i].kind # "BeginTransactionAck"
    BY DEF Info, Reflected, Empty
  <2> HIDE DEF more
  <2>4. Len(sent) \in Nat /\ Len(handled) \in Nat
    BY LenProperties DEF TypesOfMediator, TypesOfApp
  <2>5. ASSUME NEW i, Unhandled(i)'
        PROVE  Unhandled(i)
    <3>1. i \in 3 + Len(handled) .. Len(sent) + 3 /\ sent'[i].kind = "BeginTransactionAck"
      BY <1>2, <2>2, <2>3, <2>5 DEF Unhandled, Sends
    <3>2. CASE i <= Len(sent)
      <4>1. i \in 3 + Len(handled) .. Len(sent) /\ i \in 1 .. Len(sent)
        BY <2>4, <3>1, <3>2
      <4>2. QED
        BY <2>2, <3>1, <4>1 DEF Unhandled, Sends
    <3>3. CASE ~(i <= Len(sent))
      <4>1. i - Len(sent) \in 1 .. 3 /\ Len(sent) + (i - Len(sent)) = i
        BY <2>4, <3>1, <3>3
      <4>2. sent'[Len(sent) + (i - Len(sent))] = more[i - Len(sent)]
        BY <2>2, <2>3, <4>1 DEF Sends
      <4>3. QED
        BY <2>3, <3>1, <4>1, <4>2
    <3>4. QED
      BY <3>2, <3>3
  <2>6. mediator'.lock = mediator.lock
    BY <1>6, <1>7 DEF Greeted
  <2>7. QED
    BY <1>5, <2>5, <2>6
<1>8. CASE request = BeginTransaction /\ Granted
  <2>1. mediator.lock = "none" /\ mediator'.lock = "client"
    BY <1>6, <1>8 DEF Granted
  <2>2. Sends(<<Empty("BeginTransactionAck")>>)
    <3>1. Empty("BeginTransactionAck") \in PayloadsToClient
      BY DEF PayloadsToClient
    <3>2. QED
      BY <1>8, <3>1, SendOne DEF Granted
  <2>3. /\ app.transaction # "Running" /\ \A i : ~Unhandled(i)
        /\ \A j : ~Committing(j)
    BY <2>1 DEF Lock
  <2>4. \A i : Unhandled(i)' => i = Len(sent) + 1
    BY <1>2, <2>2, <2>3, UnhandledMore
  <2>5. (\A j : ~Committing(j)') /\ app'.transaction # "Running"
    BY <1>2, <1>3, <2>3
  <2>6. QED
    BY <2>1, <2>4, <2>5 DEF Lock
<1>9. CASE Rejected
  <2>1. mediator'.lock = mediator.lock
    BY <1>9 DEF Rejected
  <2>2. Sends(<<HeldBy("TransactionRejected")>>)
    <3>1. HeldBy("TransactionRejected") \in PayloadsToClient
      BY DEF PayloadsToClient
    <3>2. QED
      BY <1>9, <3>1, SendOne DEF Rejected
  <2>3. HeldBy("TransactionRejected").kind # "BeginTransactionAck"
    BY DEF HeldBy
  <2>4. QED
    BY <1>2, <1>5, <2>1, <2>2, <2>3, NoneGranted
<1>10. CASE request = CommitTransaction /\ Committed
  <2>1. Committing(1)
    BY <1>3, <1>10 DEF CommitTransaction
  <2>2. app.transaction # "Running" /\ \A i : ~Unhandled(i)
    BY <2>1 DEF Lock
  <2>3. \A j : ~Committing(j)'
    BY <1>3, <2>1 DEF Lock
  <2>4. Sends(<<Empty("CommitTransactionAck")>>)
    <3>1. Empty("CommitTransactionAck") \in PayloadsToClient
      BY DEF PayloadsToClient
    <3>2. QED
      BY <1>10, <3>1, SendOne DEF Committed
  <2>5. Empty("CommitTransactionAck").kind # "BeginTransactionAck"
    BY DEF Empty
  <2>6. \A i : ~Unhandled(i)'
    BY <1>2, <2>2, <2>4, <2>5, NoneGranted
  <2>7. QED
    BY <1>2, <2>2, <2>3, <2>6 DEF Lock
<1>11. CASE Silent
  <2>1. sent' = sent /\ mediator'.lock = mediator.lock
    BY <1>6, <1>11, NoMore DEF Silent
  <2>2. QED
    BY <1>2, <1>5, <2>1 DEF Unhandled
<1>12. QED
  BY <1>1, <1>7, <1>8, <1>9, <1>10, <1>11 DEF AnswersTo

LEMMA LockKept ==
    ASSUME StreamInv, AppIdle, Lock, [Next]_vars
    PROVE  Lock'
<1>1. TypesOfClient /\ TypesOfApp /\ TypesOfMediator /\ Sent /\ Arrived
  BY DEF StreamInv
<1>2. ASSUME UNCHANGED <<toMediator, outgoing, app, sent, handled>>,
             mediator'.lock = mediator.lock
      PROVE  Lock'
  <2>1. Waiting' = Waiting
    BY <1>2 DEF Waiting, Mapped
  <2>2. QED
    BY <1>2, <2>1, LockStill
<1>3. ASSUME UNCHANGED <<outgoing, app, sent, handled, mediator>>, outgoing = <<>>,
             app.send = <<>>, NEW d \in DatagramsFromClient, toMediator' = toMediator \o <<d>>,
             RequestOf[d].kind # "CommitTransaction"
      PROVE  Lock'
  <2>1. Waiting' = Waiting \o <<RequestOf[d]>> /\ RequestOf[d] \in RequestsFromClient
    BY <1>1, <1>3, ProtocolQueues, RequestType
  <2>2. \A j : Committing(j)' => Committing(j)
    BY <1>1, <1>3, <2>1, NothingToCommit
  <2>3. \A j : Committing(j)' => Committing(j + 0) /\ j \in Nat
    BY <2>2, CommittingPlace
  <2>4. \A i : Unhandled(i)' => Unhandled(i)
    BY <1>3 DEF Unhandled
  <2>5. QED
    BY <1>3, <2>3, <2>4, LockShrinks
<1>4. ASSUME RunHandshake
      PROVE  Lock'
  <2>1. UNCHANGED <<outgoing, app, sent, handled, mediator>> /\ runner.at = "handshake"
    BY <1>4 DEF RunHandshake, server
  <2>2. CASE Breaks \/ Open
    BY <1>2, <2>1, <2>2 DEF Breaks, Open
  <2>3. CASE Greet
    <3>1. PICK version \in MinVersion .. MaxVersion :
            toMediator' = toMediator \o <<EncodeClientHello(version)>>
      BY <2>3 DEF Greet
    <3>2. /\ RequestOf[EncodeClientHello(version)] = [kind |-> "ClientHello", version |-> version]
          /\ EncodeClientHello(version) \in DatagramsFromClient
      BY RequestsDecoded DEF DatagramsFromClient
    <3>3. RequestOf[EncodeClientHello(version)].kind # "CommitTransaction"
      BY <3>2
    <3>4. QED
      BY <1>3, <2>1, <3>1, <3>2, <3>3 DEF AppIdle
  <2>4. QED
    BY <1>1, <1>4, <2>2, <2>3, HandshakeDoes
<1>5. ASSUME CreateEarly
      PROVE  Lock'
  <2>1. UNCHANGED <<outgoing, app, sent, handled, mediator>> /\ runner.at = "handshake"
    BY <1>5 DEF CreateEarly, server
  <2>2. PICK payload \in {Proxied, BeginTransaction} : CreatePayload(payload)
    BY <1>5 DEF CreateEarly
  <2>3. payload \in PayloadsFromClient
    BY AppPayloads
  <2>4. payload.kind # "CommitTransaction"
    BY DEF Proxied, BeginTransaction
  <2> DEFINE d == DatagramOf[payload]
  <2>5. d \in DatagramsFromClient /\ RequestOf[d] = payload
    BY <2>3, RequestsDecoded DEF DatagramsFromClient
  <2>6. toMediator' = Append(toMediator, d)
    BY <2>2 DEF CreatePayload
  <2> HIDE DEF d
  <2>7. toMediator' = toMediator \o <<d>>
    BY <1>1, <2>5, <2>6, AppendIsConcat DEF TypesOfMediator
  <2>8. QED
    BY <1>3, <2>1, <2>4, <2>5, <2>7 DEF AppIdle
<1>6. ASSUME PollPayload
      PROVE  Lock'
  BY <1>2, <1>6 DEF PollPayload, server
<1>7. ASSUME SendOutgoing \/ AppSends
      PROVE  Lock'
  <2>1. UNCHANGED <<sent, handled, mediator>> /\ app'.transaction = app.transaction
    BY <1>1, <1>7 DEF SendOutgoing, AppSends, server, TypesOfApp
  <2>2. QED
    BY <1>1, <1>7, <2>1, WaitingMoves, LockStill
<1>8. ASSUME NEW payload \in PayloadsToClient, payload.kind # "BeginTransactionAck",
             Send(<<payload>>), UNCHANGED <<client, toMediator>>,
             mediator'.lock = mediator.lock
               \/ (mediator.lock # "client" /\ mediator'.lock # "client")
      PROVE  Lock'
  <2>1. Sends(<<payload>>) /\ UNCHANGED <<handled, outgoing, app>>
    BY <1>1, <1>8, SendOne DEF client
  <2>2. \A i : Unhandled(i)' => Unhandled(i)
    BY <1>1, <1>8, <2>1, NoneGranted
  <2>3. Waiting' = Waiting
    BY <1>8, <2>1 DEF Waiting, Mapped
  <2>4. \A j : Committing(j)' => Committing(j + 0) /\ j \in Nat
    BY <2>3, CommittingPlace DEF Committing
  <2>5. QED
    BY <1>8, <2>1, <2>2, <2>4, LockShrinks
<1>9. ASSUME MediatorPushes
      PROVE  Lock'
  <2>1. PICK payload \in Pushes \cup {MalformedPayload(datagram) : datagram \in Malformed} :
          Send(<<payload>>)
    BY <1>9 DEF MediatorPushes
  <2>2. payload \in PayloadsToClient /\ payload.kind # "BeginTransactionAck"
    BY PushesGrantNothing DEF PayloadsToClient
  <2>3. UNCHANGED <<client, mediator, toMediator>>
    BY <1>9 DEF MediatorPushes
  <2>4. QED
    BY <1>8, <2>1, <2>2, <2>3
<1>10. ASSUME UNCHANGED <<client, sent, toMediator>>,
              mediator.lock # "client" /\ mediator'.lock # "client"
       PROVE  Lock'
  <2>1. Waiting' = Waiting /\ UNCHANGED <<app, handled>>
    BY <1>10 DEF Waiting, Mapped, client
  <2>2. \A i : Unhandled(i)' => Unhandled(i)
    BY <1>10, <2>1 DEF Unhandled
  <2>3. \A j : Committing(j)' => Committing(j + 0) /\ j \in Nat
    BY <2>1, CommittingPlace DEF Committing
  <2>4. QED
    BY <1>10, <2>1, <2>2, <2>3, LockShrinks
<1>11. ASSUME OtherBegins
       PROVE  Lock'
  <2>1. mediator.lock # "client" /\ mediator'.lock # "client"
    BY <1>1, <1>11 DEF OtherBegins, TypesOfMediator
  <2>2. QED
    BY <1>10, <1>11, <2>1 DEF OtherBegins
<1>12. ASSUME OtherEnds
       PROVE  Lock'
  <2>1. /\ mediator.lock # "client" /\ mediator'.lock # "client"
        /\ UNCHANGED <<client, toMediator>>
    BY <1>1, <1>12 DEF OtherEnds, TypesOfMediator
  <2>2. CASE mediator.at = "open"
    <3>1. Send(<<HeldBy("TransactionEnded")>>)
      BY <1>12, <2>2 DEF OtherEnds
    <3>2. HeldBy("TransactionEnded") \in PayloadsToClient
          /\ HeldBy("TransactionEnded").kind # "BeginTransactionAck"
      BY DEF PayloadsToClient, HeldBy
    <3>3. QED
      BY <1>8, <2>1, <3>1, <3>2
  <2>3. CASE mediator.at # "open"
    <3>1. Send(<<>>)
      BY <1>12, <2>3 DEF OtherEnds
    <3>2. sent' = sent
      BY <1>1, <3>1, NoMore
    <3>3. QED
      BY <1>10, <2>1, <3>2
  <2>4. QED
    BY <2>2, <2>3
<1>13. ASSUME MediatorCloses
       PROVE  Lock'
  <2>1. mediator'.lock = mediator.lock
    BY <1>1, <1>13 DEF MediatorCloses, TypesOfMediator
  <2>2. QED
    BY <1>2, <1>13, <2>1 DEF MediatorCloses, client
<1>14. ASSUME UNCHANGED <<toMediator, outgoing, app, sent, handled, mediator>>
       PROVE  Lock'
  BY <1>2, <1>14
<1>15. QED
  BY <1>1, <1>4, <1>5, <1>6, <1>7, <1>9, <1>11, <1>12, <1>13, <1>14,
     LockHandles, LockTicks, LockAnswers
  DEF Next, Runner, App, vars, client, server, SendIncoming, Receive, ConnectionLost

LEMMA InitLock == Init => AppIdle /\ Lock
<1> SUFFICES ASSUME Init PROVE AppIdle /\ Lock
  OBVIOUS
<1>1. /\ outgoing = <<>> /\ app.send = <<>> /\ app.transaction = "None" /\ handled = <<>>
      /\ toMediator = <<>> /\ Len(sent) = 1 /\ mediator.lock = "none"
  BY DEF Init
<1>2. \A i : ~Unhandled(i)
  BY <1>1 DEF Unhandled
<1>3. \A j : ~Committing(j)
  <2>1. toMediator \in Seq(DatagramsFromClient)
    BY <1>1, EmptySeq
  <2>2. Mapped(toMediator) \in Seq(RequestsFromClient) /\ Len(Mapped(toMediator)) = 0
    BY <1>1, <2>1, MappedType
  <2>3. Mapped(toMediator) = <<>>
    BY <2>2, EmptySeq
  <2>4. Waiting = <<>>
    BY <1>1, <2>3, EmptySeq, ConcatEmptySeq DEF Waiting
  <2>5. QED
    BY <2>4 DEF Committing
<1>4. QED
  BY <1>1, <1>2, <1>3 DEF AppIdle, Lock

LEMMA LockInvariant == Spec => [](AppIdle /\ Lock)
<1>1. StreamInv /\ AppIdle /\ Lock /\ [Next]_vars => (AppIdle /\ Lock)'
  BY AppIdleKept, LockKept DEF StreamInv
<1>2. QED
  BY <1>1, InitLock, StreamInvariant, PTL DEF Spec

-----------------------------------------------------------------------------
(* The theorems                                                            *)

\* In every state the program holds the values it is meant to hold: payloads are
\* handed out only after the handshake, a queue never holds more than it has
\* room for, and an error leaves no datagrams behind (D2mProtocol::poll,
\* run_payload_flow).
THEOREM TypesHold == Spec => []TypeOK
<1>1. StreamInv => TypeOK
  <2> SUFFICES ASSUME StreamInv PROVE TypeOK
    OBVIOUS
  <2>1. TypesOfClient /\ TypesOfApp /\ TypesOfMediator
    BY DEF StreamInv
  <2>2. QED
    BY <2>1 DEF TypesOfClient, TypesOfApp, TypesOfMediator, TypeOK
<1>2. QED
  BY <1>1, StreamInvariant, PTL

\* However the datagrams are batched and whatever the mediator sends, malformed
\* datagrams included, the app gets what was sent, once and in order, and what it has
\* not got is buffered or on its way (DatagramBuffer, State::poll_*).
THEOREM PayloadsComeInOrder == Spec => []PayloadsInOrder
<1>1. StreamInv => PayloadsInOrder
  <2> SUFFICES ASSUME StreamInv PROVE PayloadsInOrder
    OBVIOUS
  <2>1. TypesOfClient /\ TypesOfApp /\ TypesOfMediator /\ Sent /\ Arrived
    BY DEF StreamInv
  <2>2. HandedOut \in Seq(HandedPayloads) /\ Len(HandedOut) \in Nat /\ Len(sent) \in Nat
        /\ DOMAIN HandedOut = 1 .. Len(HandedOut)
    BY <2>1, HandedOutType, LenProperties DEF TypesOfMediator
  <2>3. Taken \in {0, 1, 2} /\ (HandedOut # <<>> => Taken = 2)
    BY <2>1 DEF Taken, Arrived, TypesOfClient, ProtocolStates
  <2>4. HandedOut # <<>> => Taken + Len(HandedOut) <= Len(sent)
    <3>1. HandedOut # <<>> => Len(HandedOut) > 0
      BY <2>2, EmptySeq
    <3>2. QED
      BY <2>1, <2>3, <3>1 DEF Arrived
  <2>5. ASSUME NEW i \in DOMAIN HandedOut
        PROVE  WithoutEnvelope(HandedOut[i]) = WithoutEnvelope(sent[Taken + i])
    <3>1. i \in 1 .. Len(HandedOut) /\ HandedOut # <<>>
      BY <2>2
    <3>2. HandedFor(HandedOut[i], sent[2 + i]) /\ Taken = 2
      BY <2>1, <2>3, <3>1 DEF Arrived
    <3>3. QED
      BY <3>2 DEF HandedFor
  <2>6. ASSUME protocol.state # "Error"
        PROVE  Stream = [i \in 1 .. Len(sent) - Taken - Len(HandedOut) |->
                            EncodeByMediator(sent[Taken + Len(HandedOut) + i])]
    <3> DEFINE from == Taken + Len(HandedOut)
    <3>1. from + Len(Stream) = Len(sent)
          /\ \A i \in 1 .. Len(Stream) : Stream[i] = EncodeByMediator(sent[from + i])
      BY <2>1, <2>6 DEF Arrived, Follows, Stream
    <3>2. Stream \in Seq(DatagramsToClient)
      BY <2>1, ConcatProperties DEF Stream, TypesOfClient, TypesOfMediator
    <3>3. /\ Len(Stream) \in Nat
          /\ Stream = [i \in 1 .. Len(Stream) |-> Stream[i]]
      BY <3>2, LenProperties
    <3>4. Len(Stream) = Len(sent) - Taken - Len(HandedOut)
      BY <2>2, <2>3, <3>1, <3>3
    <3>5. Stream = [i \in 1 .. Len(Stream) |-> EncodeByMediator(sent[from + i])]
      BY <3>1, <3>3
    <3>6. QED
      BY <3>4, <3>5
  <2>7. QED
    BY <2>4, <2>5, <2>6 DEF PayloadsInOrder, Stream
<1>2. QED
  BY <1>1, StreamInvariant, PTL

\* What either side sends arrives, once, in order and in the state it is meant for,
\* whatever the bounds, the capacity of the queues and the payloads are: the app gets
\* what the mediator sent, and the mediator decodes what was handed to create_payload,
\* the ClientHello before all that is not for the chat server (D2mProtocol::poll and
\* create_payload).
THEOREM PayloadsDoArrive == Spec => []PayloadsArrive
<1>1. StreamInv /\ TypesOfRequests /\ Requests => HelloFirst /\ RequestsArrive
  BY HelloIsFirst
<1>2. [](StreamInv /\ TypesOfRequests /\ Requests) => [](HelloFirst /\ RequestsArrive)
  BY <1>1, PTL
<1>3. QED
  BY <1>2, RequestsInvariant, PayloadsComeInOrder, PTL DEF PayloadsArrive

\* The app takes its transaction for running only while the mediator holds the lock of
\* the device group for it, however requests, rejections and the transactions of the
\* other devices overlap (handle_incoming_payload, create_outgoing_payload).
THEOREM TransactionsHoldLock == Spec => []RunningHoldsLock
<1>1. Lock => RunningHoldsLock
  BY DEF Lock, RunningHoldsLock
<1>2. QED
  BY <1>1, LockInvariant, PTL
=============================================================================

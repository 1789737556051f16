----------------------------- MODULE ByteReader -----------------------------
(***************************************************************************)
(* The byte reader and writer of libthreema (lib/src/utils/bytes), over    *)
(* which the protocols decode and encode their structures: a buffer and an *)
(* offset into it.  A reader never leaves its buffer.  A writer over a     *)
(* slice does not either; a writer over a vector extends it with zeros.    *)
(*                                                                         *)
(* The result of an operation tells if it succeeded and carries the value  *)
(* read and the reader it leaves, so that operations can be chained.       *)
(***************************************************************************)
EXTENDS Integers, Sequences

Reader(buffer) == [buffer |-> buffer, offset |-> 0]

Remaining(reader) == Len(reader.buffer) - reader.offset

Done(value, reader) == [ok |-> TRUE, value |-> value, reader |-> reader]
Fail(reader) == [ok |-> FALSE, value |-> <<>>, reader |-> reader]

\* `?`: The result of the next operation, or this value, unless the one before failed
Then(result, next) == IF result.ok THEN next ELSE result
With(result, value) == IF result.ok THEN [result EXCEPT !.value = value] ELSE result

Skip(reader, length) ==
    IF reader.offset + length <= Len(reader.buffer)
    THEN Done(<<>>, [reader EXCEPT !.offset = @ + length])
    ELSE Fail(reader)

\* The range includes its start (counted from 0) and excludes its end.
ReadRange(reader, length) ==
    With(Skip(reader, length), <<reader.offset, reader.offset + length>>)

Slice(buffer, range) == SubSeq(buffer, range[1] + 1, range[2])

Read(reader, length) ==
    LET range == ReadRange(reader, length)
    IN With(range, Slice(reader.buffer, range.value))

ReadRemaining(reader) == Read(reader, Remaining(reader))

\* A child reads at an offset relative to the parent's, which stays where it is.
RunAt(reader, relative) ==
    LET at == reader.offset + relative
    IN IF at \in 0 .. Len(reader.buffer)
       THEN Done(<<>>, [reader EXCEPT !.offset = at])
       ELSE Fail(reader)

ExpectConsumed(reader) ==
    IF Remaining(reader) = 0 THEN Done(reader.buffer, reader) ELSE Fail(reader)

Truncate(reader) == Reader(ReadRemaining(reader).value)

-----------------------------------------------------------------------------
(* Integers, little endian                                                 *)

FromLe(bytes) ==
    LET value[i \in 1 .. Len(bytes) + 1] ==
            IF i > Len(bytes) THEN 0 ELSE bytes[i] + 256 * value[i + 1]
    IN value[1]

\* What is left of a value from its i-th byte on
Rest(value, length) ==
    LET rest[i \in 1 .. length] == IF i = 1 THEN value ELSE rest[i - 1] \div 256
    IN rest

ToLe(value, length) == [i \in 1 .. length |-> Rest(value, length)[i] % 256]

\* A value of the integer type of this many bytes
FitsIn(value, length) == value \in Nat /\ Rest(value, length)[length] < 256

ReadInt(reader, length) ==
    LET bytes == Read(reader, length)
    IN With(bytes, FromLe(bytes.value))

\* Integers of these lengths one after the other
ReadInts(reader, lengths) ==
    LET end[i \in 0 .. Len(lengths)] == IF i = 0 THEN 0 ELSE end[i - 1] + lengths[i]
        bytes == Read(reader, end[Len(lengths)])
    IN With(bytes, [i \in DOMAIN lengths |->
                        FromLe(SubSeq(bytes.value, end[i - 1] + 1, end[i]))])

-----------------------------------------------------------------------------
(* Writers                                                                 *)

SliceWriter(buffer) == [buffer |-> buffer, offset |-> 0, extends |-> FALSE]
VecWriter == [buffer |-> <<>>, offset |-> 0, extends |-> TRUE]

Fits(writer, length) == writer.extends \/ writer.offset + length <= Len(writer.buffer)

ZeroFilled(buffer, length) ==
    buffer \o [i \in 1 .. (IF length > Len(buffer) THEN length - Len(buffer) ELSE 0) |-> 0]

Write(writer, bytes) ==
    LET end == writer.offset + Len(bytes)
        buffer == ZeroFilled(writer.buffer, end)
    IN IF Fits(writer, Len(bytes))
       THEN [writer EXCEPT !.buffer = SubSeq(buffer, 1, writer.offset) \o bytes
                                          \o SubSeq(buffer, end + 1, Len(buffer)),
                           !.offset = end]
       ELSE writer

\* One write after the other
WriteAll(writer, parts) ==
    LET after[i \in 0 .. Len(parts)] ==
            IF i = 0 THEN writer ELSE Write(after[i - 1], parts[i])
    IN after[Len(parts)]
=============================================================================

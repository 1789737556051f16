---------------------------- MODULE MCD2mProtocol ----------------------------
(* A mediator that pushes one payload of each form, and datagrams that are  *)
(* too short, of a type that is not expected, or with too short a header.   *)
EXTENDS D2mProtocol

MCPushes ==
    {[kind |-> "Proxy", data |-> <<4, 4>>],
     [kind |-> "UnknownPayload", type |-> 153, length |-> 2],
     [kind |-> "ReflectAck", id |-> 259, timestamp |-> 3],
     Reflected(258),
     [kind |-> "DevicesInfo", fields |-> <<1>>]}

MCMalformed == {<<18, 0, 0>>, <<67, 0, 0, 0, 1>>, <<130, 0, 0, 0, 15, 0>>}

\* Integers survive the way through the writer and the reader.
ASSUME \A value \in {0, 1, 255, 256, 65535, 16777216}, length \in {4, 8} :
    ReadInt(Reader(ToLe(value, length)), length).value = value

\* A writer over a slice leaves its length alone; a writer over a vector ends
\* where its buffer ends.
ASSUME \A a, b \in {<<>>, <<1>>, <<1, 2>>, <<1, 2, 3>>} :
    /\ Len(WriteAll(SliceWriter(<<0, 0, 0>>), <<a, b>>).buffer) = 3
    /\ WriteAll(VecWriter, <<a, b>>).buffer = a \o b
    /\ Len(a) + Len(b) <= 3 =>
         SubSeq(WriteAll(SliceWriter(<<0, 0, 0>>), <<a, b>>).buffer, 1, Len(a \o b)) = a \o b

\* What is read and what remains make up the buffer.
ASSUME \A n, m \in 0 .. 4 :
    LET buffer == <<1, 2, 3>>
        read   == Then(Read(Reader(buffer), n), Read(Read(Reader(buffer), n).reader, m))
    IN /\ read.ok <=> n + m <= 3
       /\ read.ok => read.value = SubSeq(buffer, n + 1, n + m)
       /\ read.ok => ReadRemaining(read.reader).value = Truncate(read.reader).buffer
       /\ read.ok => (ExpectConsumed(read.reader).ok <=> n + m = 3)
       /\ n <= 3 => ReadRemaining(RunAt(Skip(Reader(buffer), n).reader, -n).reader).value = buffer
=============================================================================

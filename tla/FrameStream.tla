----------------------------- MODULE FrameStream -----------------------------
(***************************************************************************)
(* A byte stream between a writer that length-prefixes frames and a reader *)
(* that takes them out of a VariableLengthFrameDecoder.  TCP delivers the  *)
(* bytes in order but cut anywhere.  The reader is the loop the protocols  *)
(* document: ask for required_length bytes, add them (or more), poll.      *)
(***************************************************************************)
EXTENDS Naturals, Sequences, SequencesExt

CONSTANTS Base,             \* values of a byte (256)
          DelimiterLength,  \* bytes of a delimiter
          MaxFrames         \* bound: frames the writer sends

ASSUME StreamAssumption ==
    /\ Base \in Nat \ {0, 1}
    /\ DelimiterLength \in Nat \ {0}
    /\ MaxFrames \in Nat

Byte == 0 .. Base - 1

\* The greatest length a delimiter can hold: all its bytes are the greatest byte.
MaxLength ==
    LET max[i \in 0 .. DelimiterLength] ==
            IF i = 0 THEN 0 ELSE Base * max[i - 1] + Base - 1
    IN max[DelimiterLength]

\* from_le_bytes and to_le_bytes of the delimiter's integer type
FromLittleEndian(bytes) ==
    LET value[i \in 1 .. Len(bytes) + 1] ==
            IF i > Len(bytes) THEN 0 ELSE bytes[i] + Base * value[i + 1]
    IN value[1]

\* What is left of a length from its i-th byte on
Rest(n) ==
    LET rest[i \in 1 .. DelimiterLength] == IF i = 1 THEN n ELSE rest[i - 1] \div Base
    IN rest
\* (Mutant: a writer that stores more than the low byte.)
ToLittleEndianUnmasked(n) == Rest(n)
ToLittleEndian(n) == [i \in 1 .. DelimiterLength |-> Rest(n)[i] % Base]

INSTANCE FrameDecoder WITH Decode <- FromLittleEndian

VARIABLES
    written,   \* frames handed to the writer, in order
    stream,    \* bytes in transit
    decoder,   \* the reader's decoder
    received   \* frames the reader took, in order

streamVars == <<written, stream, decoder, received>>

\* A frame one byte too long for the delimiter is the boundary of the length check.
AllFrames == UNION {[1 .. n -> Byte] : n \in 0 .. MaxLength}
TooLong == [i \in 1 .. MaxLength + 1 |-> 0]

StreamInit ==
    /\ written = <<>>
    /\ stream = <<>>
    /\ decoder = NewDecoder(<<>>)
    /\ received = <<>>

EncodeFrame(frame) == ToLittleEndian(Len(frame)) \o frame

\* encode_frame refuses a payload whose length does not fit the delimiter.
SendFrame(frame) ==
    /\ Len(written) < MaxFrames
    /\ Len(frame) <= MaxLength
    /\ written' = Append(written, frame)
    /\ stream' = stream \o EncodeFrame(frame)
    /\ UNCHANGED <<decoder, received>>

Read(n) ==
    /\ n \in 1 .. Len(stream)
    /\ decoder' = AddChunk(decoder, First(stream, n))
    /\ stream' = Drain(stream, n)
    /\ UNCHANGED <<written, received>>

\* read_exact: blocks until all the required bytes are there
ReadRequired == Read(RequiredLength(decoder))

\* a reader may always add more than the required bytes
ReadMore == \E n \in 1 .. Len(stream) : Read(n)

Poll ==
    /\ decoder' = AfterNext(decoder)
    /\ received' = IF HasFrame(decoder) THEN Append(received, NextFrame(decoder)) ELSE received
    /\ UNCHANGED <<written, stream>>

StreamNext ==
    \/ \E frame \in AllFrames \cup {TooLong} : SendFrame(frame)
    \/ ReadMore
    \/ Poll

StreamSpec ==
    /\ StreamInit /\ [][StreamNext]_streamVars
    /\ WF_streamVars(ReadRequired) /\ WF_streamVars(Poll)

-----------------------------------------------------------------------------
Decoders ==
    [state : {"PartialDelimiter", "PartialFrame"}, length : 0 .. MaxLength, data : Seq(Byte)]

\* The decoder's buffer, state and frames keep their shape.
StreamTypeOK ==
    /\ written \in Seq(AllFrames)
    /\ received \in Seq(AllFrames)
    /\ stream \in Seq(Byte)
    /\ decoder \in Decoders

\* However TCP cuts the stream, the reader takes the writer's frames, unchanged
\* and in order (next_frame_and_then).
FramesInOrder == IsPrefix(received, written)

\* The bytes the decoder says it requires never reach past the end of the frame
\* it is in: a reader that blocks for exactly required_length bytes is never
\* left waiting for a byte of a frame nobody has sent yet.
RequiredStaysInFrame ==
    Len(received) < Len(written)
        => RequiredLength(decoder) <= Len(stream)

\* The frames the reader has not taken, the bytes of frames, and what a decoder has
\* taken of the frame it is in
Pending == SubSeq(written, Len(received) + 1, Len(written))
Encoded(frames) == FlattenSeq([i \in 1 .. Len(frames) |-> EncodeFrame(frames[i])])
Consumed(d) == IF d.state = "PartialFrame" THEN ToLittleEndian(d.length) ELSE <<>>

\* No byte is lost or read twice: the frames received are the first of those
\* sent, and what is left of the stream behind them is the decoder's delimiter
\* and data followed by the wire (next_frame_and_then, drain).
BytesConserved ==
    /\ FramesInOrder
    /\ Encoded(Pending) = Consumed(decoder) \o decoder.data \o stream

\* The documented loop (required_length, add_chunks, poll) delivers every frame.
EveryFrameArrives ==
    \A k \in 1 .. MaxFrames : (Len(written) >= k) ~> (Len(received) >= k)

=============================================================================

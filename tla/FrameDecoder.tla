---------------------------- MODULE FrameDecoder ----------------------------
(***************************************************************************)
(* The two frame decoders of libthreema (lib/src/utils/frame.rs): a buffer *)
(* of bytes from which frames are taken one by one.  The fixed length      *)
(* decoder reads the two handshake messages of the chat server protocol,   *)
(* the variable length decoder the payloads behind them, and the frames of *)
(* the rendezvous protocol.                                                *)
(*                                                                         *)
(* A byte is any value; what a delimiter says is the parameter Decode.     *)
(***************************************************************************)
EXTENDS Naturals, Sequences

CONSTANTS DelimiterLength,  \* bytes of a length delimiter (2 for u16, 4 for u32)
          Decode(_)         \* the frame length a delimiter stands for

SaturatingSub(a, b) == IF a < b THEN 0 ELSE a - b

First(data, n) == SubSeq(data, 1, n)
Drain(data, n) == SubSeq(data, n + 1, Len(data))

-----------------------------------------------------------------------------
(* FixedLengthFrameDecoder: its state is the buffered data alone.          *)

FixedRequired(data, length) == SaturatingSub(length, Len(data))

FixedHasFrame(data, length) == Len(data) >= length

-----------------------------------------------------------------------------
(* VariableLengthFrameDecoder                                              *)

NewDecoder(data) == [state |-> "PartialDelimiter", length |-> 0, data |-> data]

AddChunk(decoder, chunk) == [decoder EXCEPT !.data = @ \o chunk]

\* (Mutant: the bytes already buffered are not subtracted.)
RequiredLengthTotal(decoder) ==
    IF decoder.state = "PartialDelimiter"
    THEN SaturatingSub(DelimiterLength, Len(decoder.data))
    ELSE decoder.length
RequiredLength(decoder) ==
    IF decoder.state = "PartialDelimiter"
    THEN SaturatingSub(DelimiterLength, Len(decoder.data))
    ELSE SaturatingSub(decoder.length, Len(decoder.data))

\* The first half of next_frame_and_then: drain a complete delimiter.
\* (Mutant: it is decoded but stays in the buffer.)
TakeDelimiterKept(decoder) ==
    IF decoder.state = "PartialDelimiter" /\ Len(decoder.data) >= DelimiterLength
    THEN [decoder EXCEPT !.state  = "PartialFrame",
                         !.length = Decode(First(decoder.data, DelimiterLength))]
    ELSE decoder
TakeDelimiter(decoder) ==
    IF decoder.state = "PartialDelimiter" /\ Len(decoder.data) >= DelimiterLength
    THEN [state  |-> "PartialFrame",
          length |-> Decode(First(decoder.data, DelimiterLength)),
          data   |-> Drain(decoder.data, DelimiterLength)]
    ELSE decoder

\* The second half: whether the frame behind the delimiter is complete, ...
\* (Mutant: strictly more bytes than the frame needs.)
HasFrameStrict(decoder) ==
    LET d == TakeDelimiter(decoder)
    IN  d.state = "PartialFrame" /\ Len(d.data) > d.length
HasFrame(decoder) ==
    LET d == TakeDelimiter(decoder)
    IN  d.state = "PartialFrame" /\ Len(d.data) >= d.length

\* ... the frame ...
NextFrame(decoder) ==
    LET d == TakeDelimiter(decoder) IN First(d.data, d.length)

\* ... and the decoder that is left, with or without a frame taken.
AfterNext(decoder) ==
    LET d == TakeDelimiter(decoder)
    IN  IF HasFrame(decoder) THEN NewDecoder(Drain(d.data, d.length)) ELSE d
=============================================================================

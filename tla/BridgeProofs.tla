---------------------------- MODULE BridgeProofs ----------------------------
(***************************************************************************)
(* Proofs about Bridge, for every value of its constants: frames leave in  *)
(* the order they were sealed, what the server forgets was printed, and    *)
(* messages are sent in the order of their lines.                          *)
(*                                                                         *)
(* The last part is about the bytes of its connection, FrameStream: cut    *)
(* anywhere, they give the frames that were written.                       *)
(***************************************************************************)
EXTENDS
    Bridge, FrameStream,
    FiniteSetTheorems, SequenceTheorems, WellFoundedInduction, TLAPS

(***************************************************************************)
(* A payload is true to what was printed if it acknowledges no message the *)
(* user should have seen and has not.  All the queues and slots between    *)
(* the receive flow and the server hold payloads that are.                 *)
(***************************************************************************)
Seen(m) == (m.sender \in Registered /\ ~m.group) => m \in printed

TruePayloads == {p \in Payloads : p.type = "MessageAck" => Seen(p.message)}
TrueFrames == {f \in Frames : f.payload \in TruePayloads}

FromServer == Incoming \cup [type : {"EchoRequest", "CloseError"}]

ServerInv ==
    /\ mailbox \subseteq Messages
    /\ wire \in Seq(FromServer)
    /\ buffer \in Seq(FromServer)
    /\ incoming \in Seq(Incoming)
    /\ pending \in {None} \cup [type : {"Init", "FetchSender"}, message : Messages]

QueueInv ==
    /\ outgoing \in Seq(TruePayloads)
    /\ next \in TrueFrames \cup {None}
    /\ writing \in TrueFrames \cup {None}
    /\ up \in Seq(TrueFrames)

\* The frames between the protocol and the server, oldest first
Pipeline == up \o Present(writing) \o Present(next)

SequenceInv ==
    /\ csn \in Nat /\ srvCsn \in Nat
    /\ FramesConsecutive

BridgeInv == ServerInv /\ QueueInv /\ SequenceInv /\ AckedIsPrinted

-----------------------------------------------------------------------------
\* Printing more leaves true what was (add_or_update_incoming_message).
LEMMA MorePrinted ==
    ASSUME printed \subseteq printed'
    PROVE  TruePayloads \subseteq TruePayloads' /\ TrueFrames \subseteq TrueFrames'
<1>1. TruePayloads \subseteq TruePayloads'
  BY DEF TruePayloads, Seen
<1>2. QED BY <1>1 DEF TrueFrames

\* A sequence over a set is one over every larger set.
LEMMA LargerSeq ==
    ASSUME NEW S, NEW T, S \subseteq T, NEW s \in Seq(S)
    PROVE  s \in Seq(T)
OBVIOUS

\* The queues stay true while more is printed and nothing is put into them.
LEMMA QueuesKept ==
    ASSUME QueueInv, printed \subseteq printed', UNCHANGED <<outgoing, next, writing, up>>
    PROVE  QueueInv'
<1>1. TruePayloads \subseteq TruePayloads' /\ TrueFrames \subseteq TrueFrames'
  BY MorePrinted
<1>2. outgoing' \in Seq(TruePayloads') /\ up' \in Seq(TrueFrames')
  BY <1>1, LargerSeq DEF QueueInv
<1>3. QED BY <1>1, <1>2 DEF QueueInv

\* What is printed stays printed, and so do the messages acknowledged.
LEMMA AckedKept ==
    ASSUME AckedIsPrinted, printed \subseteq printed', UNCHANGED acked
    PROVE  AckedIsPrinted'
BY DEF AckedIsPrinted

\* The pipeline is a sequence of frames; its elements are those of its parts.
LEMMA PipelineType ==
    ASSUME QueueInv
    PROVE  /\ Pipeline \in Seq(TrueFrames)
           /\ next = None => Pipeline = up \o Present(writing)
           /\ writing = None /\ next = None => Pipeline = up
           /\ up # <<>> => /\ Pipeline # <<>>
                           /\ Tail(Pipeline) = Tail(up) \o Present(writing) \o Present(next)
<1>1. Present(writing) \in Seq(TrueFrames) /\ Present(next) \in Seq(TrueFrames)
  BY DEF QueueInv, Present
<1>2. up \in Seq(TrueFrames)
  BY DEF QueueInv
<1>3. Pipeline \in Seq(TrueFrames)
  BY <1>1, <1>2 DEF Pipeline
<1>4. next = None => Pipeline = up \o Present(writing)
  BY <1>1, <1>2 DEF Pipeline, Present
<1>5. writing = None /\ next = None => Pipeline = up
  BY <1>2, <1>4 DEF Present
<1>6. ASSUME up # <<>>
      PROVE  /\ Pipeline # <<>>
             /\ Tail(Pipeline) = Tail(up) \o Present(writing) \o Present(next)
  <2> DEFINE rest == Present(writing) \o Present(next)
  <2>1. rest \in Seq(TrueFrames)
    BY <1>1
  <2>2. Pipeline = up \o rest
    BY <1>1, <1>2 DEF Pipeline
  <2>3. Tail(up) \o Present(writing) \o Present(next) = Tail(up) \o rest
    BY <1>1, <1>2, <1>6
  <2> HIDE DEF rest
  <2>4. Pipeline # <<>> /\ Tail(up \o rest) = Tail(up) \o rest
    BY <1>2, <1>6, <2>1, <2>2
  <2>5. QED BY <2>2, <2>3, <2>4
<1>7. QED BY <1>3, <1>4, <1>5, <1>6

\* FramesConsecutive in terms of the pipeline
Consecutive(frames, sealed, read) ==
    /\ sealed = read + Len(frames)
    /\ \A k \in 1 .. Len(frames) : frames[k].seq = read + k - 1

LEMMA FramesOfPipeline ==
    FramesConsecutive <=> (running => Consecutive(Pipeline, csn, srvCsn))
BY DEF FramesConsecutive, Consecutive, Pipeline

\* create_payload appends the next number, and the server takes the oldest away.
LEMMA ConsecutiveAppend ==
    ASSUME NEW frames \in Seq(TrueFrames), NEW sealed \in Nat, NEW read \in Nat, NEW payload,
           Consecutive(frames, sealed, read)
    PROVE  Consecutive(Append(frames, Frame(sealed, payload)), sealed + 1, read)
<1> DEFINE f == Frame(sealed, payload)
<1>1. f.seq = sealed
  BY DEF Frame
<1> HIDE DEF f
<1>2. /\ Len(Append(frames, f)) = Len(frames) + 1
      /\ \A k \in 1 .. Len(frames) + 1 :
             Append(frames, f)[k] = IF k <= Len(frames) THEN frames[k] ELSE f
  OBVIOUS
<1>3. Consecutive(Append(frames, f), sealed + 1, read)
  BY <1>1, <1>2 DEF Consecutive
<1>4. QED BY <1>3 DEF f

LEMMA ConsecutiveTail ==
    ASSUME NEW frames \in Seq(TrueFrames), NEW sealed \in Nat, NEW read \in Nat,
           frames # <<>>, Consecutive(frames, sealed, read)
    PROVE  Consecutive(Tail(frames), sealed, read + 1)
<1>1. /\ Len(Tail(frames)) = Len(frames) - 1 /\ Len(frames) \in Nat
      /\ \A k \in 1 .. Len(frames) - 1 : Tail(frames)[k] = frames[k + 1]
  OBVIOUS
<1>2. \A k \in 1 .. Len(frames) - 1 : frames[k + 1].seq = read + 1 + k - 1
  <2> TAKE k \in 1 .. Len(frames) - 1
  <2>1. k + 1 \in 1 .. Len(frames)
    BY <1>1
  <2>2. frames[k + 1].seq = read + (k + 1) - 1
    BY <2>1 DEF Consecutive
  <2>3. QED BY <2>2
<1>3. sealed = read + 1 + Len(Tail(frames))
  BY <1>1 DEF Consecutive
<1>4. QED BY <1>1, <1>2, <1>3 DEF Consecutive

\* A step of the other flows leaves the pipeline alone, or ends the process.
LEMMA SequenceKept ==
    ASSUME SequenceInv, UNCHANGED <<csn, srvCsn, up, writing, next>>, running' => running
    PROVE  SequenceInv'
BY DEF SequenceInv, FramesConsecutive, Present

\* A frame is made of a true payload while nothing is on its way to the wire.
LEMMA MakeFrameKeeps ==
    ASSUME BridgeInv, NEW payload \in TruePayloads, MayPoll, MakeFrame(payload),
           UNCHANGED <<running, srvCsn, up, writing>>
    PROVE  /\ next' \in TrueFrames
           /\ SequenceInv'
<1> DEFINE f == Frame(csn, payload)
<1>t. QueueInv /\ SequenceInv /\ csn \in Nat /\ srvCsn \in Nat
  BY DEF BridgeInv, SequenceInv
<1>1. f \in TrueFrames /\ f # None
  BY <1>t DEF Frame, TrueFrames, TruePayloads, Frames, None
<1>2. next' = f /\ csn' = csn + 1 /\ running /\ writing = None /\ next = None
  BY DEF MakeFrame, MayPoll
<1>3. up \in Seq(TrueFrames) /\ Pipeline = up /\ Pipeline \in Seq(TrueFrames)
  BY <1>t, <1>2, PipelineType DEF QueueInv
<1>4. Consecutive(Append(Pipeline, f), csn + 1, srvCsn)
  <2>1. Consecutive(Pipeline, csn, srvCsn)
    BY <1>t, <1>2, FramesOfPipeline DEF SequenceInv
  <2>2. QED BY <1>t, <1>3, <2>1, ConsecutiveAppend
<1> HIDE DEF f
<1>5. up' \o Present(writing') \o Present(next') = Append(up, f)
  BY <1>1, <1>2, <1>3 DEF Present
<1>6. FramesConsecutive'
  BY <1>2, <1>3, <1>4, <1>5 DEF FramesConsecutive, Consecutive
<1>7. QED BY <1>t, <1>1, <1>2, <1>6 DEF SequenceInv

\* run_payload_flow keeps the invariant.
LEMMA PayloadFlowKeeps == BridgeInv /\ PayloadFlow => BridgeInv'
<1> SUFFICES ASSUME BridgeInv, PayloadFlow PROVE BridgeInv'
  OBVIOUS
<1>t. ServerInv /\ QueueInv /\ SequenceInv /\ AckedIsPrinted
  BY DEF BridgeInv
<1>s. ASSUME printed' = printed PROVE TruePayloads' = TruePayloads /\ TrueFrames' = TrueFrames
  BY <1>s DEF TruePayloads, TrueFrames, Seen
<1>1. CASE PollPayload
  <2> DEFINE payload == Head(buffer)
  <2>1. /\ MayPoll /\ buffer # <<>> /\ buffer' = Tail(buffer)
        /\ incoming' = IF Forwarded(payload) THEN Append(incoming, payload) ELSE incoming
        /\ UNCHANGED <<running, writing, outgoing, pending, printed, wire, up, srvCsn, mailbox,
                       acked>>
    BY <1>1 DEF PollPayload, connectionVars
  <2>2. payload \in FromServer /\ buffer' \in Seq(FromServer)
    BY <1>t, <2>1 DEF ServerInv
  <2>3. incoming' \in Seq(Incoming)
    BY <1>t, <2>1, <2>2 DEF ServerInv, Forwarded, FromServer, Incoming
  <2>4. ServerInv'
    BY <1>t, <2>1, <2>2, <2>3 DEF ServerInv
  <2>5. CASE payload.type = "EchoRequest"
    <3>1. MakeFrame(Payload("EchoResponse"))
      BY <1>1, <2>5 DEF PollPayload
    <3>2. Payload("EchoResponse") \in TruePayloads
      BY DEF Payload, Payloads, TruePayloads
    <3>3. next' \in TrueFrames /\ SequenceInv'
      BY <2>1, <3>1, <3>2, MakeFrameKeeps
    <3>4. QueueInv'
      BY <1>s, <1>t, <2>1, <3>3 DEF QueueInv
    <3>5. QED BY <1>t, <2>1, <2>4, <3>3, <3>4, AckedKept DEF BridgeInv
  <2>6. CASE payload.type # "EchoRequest"
    <3>1. UNCHANGED <<next, csn>>
      BY <1>1, <2>6 DEF PollPayload
    <3>2. QED BY <1>t, <2>1, <2>4, <3>1, QueuesKept, SequenceKept, AckedKept DEF BridgeInv
  <2>7. QED BY <2>5, <2>6
<1>2. ASSUME NEW n \in 1 .. Len(wire), ReceiveChunks(n) PROVE BridgeInv'
  <2>1. /\ buffer' = SubSeq(wire, 1, n) /\ wire' = SubSeq(wire, n + 1, Len(wire))
        /\ UNCHANGED <<running, csn, next, writing, incoming, outgoing, pending, up, srvCsn,
                       mailbox, acked, printed>>
    BY <1>2 DEF ReceiveChunks
  <2>2. buffer' \in Seq(FromServer) /\ wire' \in Seq(FromServer)
    BY <1>t, <2>1 DEF ServerInv
  <2>3. ServerInv'
    BY <1>t, <2>1, <2>2 DEF ServerInv
  <2>4. QED BY <1>t, <2>1, <2>3, QueuesKept, SequenceKept, AckedKept DEF BridgeInv
<1>3. CASE TakeOutgoing
  <2>1. /\ MayPoll /\ outgoing # <<>> /\ outgoing' = Tail(outgoing) /\ MakeFrame(Head(outgoing))
        /\ UNCHANGED <<running, buffer, writing, incoming, pending, printed, wire, up, srvCsn,
                       mailbox, acked>>
    BY <1>3 DEF TakeOutgoing, connectionVars
  <2>2. Head(outgoing) \in TruePayloads /\ outgoing' \in Seq(TruePayloads)
    BY <1>t, <2>1 DEF QueueInv
  <2>3. next' \in TrueFrames /\ SequenceInv'
    BY <2>1, <2>2, MakeFrameKeeps
  <2>4. QueueInv'
    BY <1>s, <1>t, <2>1, <2>2, <2>3 DEF QueueInv
  <2>5. ServerInv'
    BY <1>t, <2>1 DEF ServerInv
  <2>6. QED BY <1>t, <2>1, <2>3, <2>4, <2>5, AckedKept DEF BridgeInv
<1>4. CASE StartWrite
  <2>1. /\ running /\ writing = None /\ next # None /\ writing' = next /\ next' = None
        /\ UNCHANGED <<running, csn, buffer, incoming, outgoing, pending, printed, wire, up, srvCsn,
                       mailbox, acked>>
    BY <1>4 DEF StartWrite, connectionVars
  <2>2. up' \o Present(writing') \o Present(next') = up \o Present(writing) \o Present(next)
    <3>1. up \in Seq(TrueFrames) /\ next \in TrueFrames
      BY <1>t, <2>1 DEF QueueInv
    <3>2. Present(writing) = <<>> /\ Present(next') = <<>> /\ Present(writing') = <<next>>
          /\ Present(next) = <<next>>
      BY <2>1 DEF Present
    <3>3. up \o <<next>> \o <<>> = up \o <<>> \o <<next>>
      BY <3>1
    <3>4. QED BY <2>1, <3>2, <3>3
  <2>3. SequenceInv'
    BY <1>t, <2>1, <2>2 DEF SequenceInv, FramesConsecutive
  <2>4. QueueInv'
    BY <1>s, <1>t, <2>1 DEF QueueInv
  <2>5. ServerInv'
    BY <1>t, <2>1 DEF ServerInv
  <2>6. QED BY <1>t, <2>1, <2>3, <2>4, <2>5, AckedKept DEF BridgeInv
<1>5. CASE EndWrite
  <2>1. /\ running /\ writing # None /\ writing' = None /\ up' = Append(up, writing)
        /\ UNCHANGED <<running, csn, buffer, next, incoming, outgoing, pending, printed, wire,
                       srvCsn, mailbox, acked>>
    BY <1>5 DEF EndWrite
  <2>2. up \in Seq(TrueFrames) /\ writing \in TrueFrames
    BY <1>t, <2>1 DEF QueueInv
  <2>3. up' \o Present(writing') \o Present(next') = up \o Present(writing) \o Present(next)
    <3>1. /\ Present(writing) = <<writing>> /\ Present(writing') = <<>>
          /\ Present(next') = Present(next)
      BY <2>1 DEF Present
    <3>2. Present(next) \in Seq(TrueFrames)
      BY <1>t DEF QueueInv, Present
    <3>3. Append(up, writing) \o <<>> = up \o <<writing>>
      BY <2>2
    <3>4. QED BY <2>1, <3>1, <3>3
  <2>4. SequenceInv'
    BY <1>t, <2>1, <2>3 DEF SequenceInv, FramesConsecutive
  <2>5. up' \in Seq(TrueFrames)
    BY <2>1, <2>2
  <2>6. QueueInv'
    BY <1>s, <1>t, <2>1, <2>5 DEF QueueInv
  <2>7. ServerInv'
    BY <1>t, <2>1 DEF ServerInv
  <2>8. QED BY <1>t, <2>1, <2>4, <2>6, <2>7, AckedKept DEF BridgeInv
<1>6. QED BY <1>1, <1>2, <1>3, <1>4, <1>5 DEF PayloadFlow

\* An acknowledgement is queued once its message is printed, or not to be seen.
LEMMA DoneKeeps ==
    ASSUME QueueInv, NEW m \in Messages, printed \subseteq printed', Done(m), Seen(m)',
           UNCHANGED <<next, writing, up>>
    PROVE  QueueInv' /\ pending' = None
<1> DEFINE ack == [type |-> "MessageAck", message |-> m]
<1>1. TruePayloads \subseteq TruePayloads' /\ TrueFrames \subseteq TrueFrames'
  BY MorePrinted
<1>2. ack \in TruePayloads'
  BY DEF TruePayloads, Payloads
<1>3. outgoing' = Append(outgoing, ack) /\ pending' = None
  BY DEF Done
<1> HIDE DEF ack
<1>4. outgoing' \in Seq(TruePayloads') /\ up' \in Seq(TrueFrames')
  BY <1>1, <1>2, <1>3, LargerSeq DEF QueueInv
<1>5. QED BY <1>1, <1>3, <1>4 DEF QueueInv

\* run_receive_flow keeps the invariant.
LEMMA ReceiveFlowKeeps == BridgeInv /\ ReceiveFlow => BridgeInv'
<1> SUFFICES ASSUME BridgeInv, ReceiveFlow PROVE BridgeInv'
  OBVIOUS
<1>t. ServerInv /\ QueueInv /\ SequenceInv /\ AckedIsPrinted
  BY DEF BridgeInv
<1>1. CASE TakeIncoming
  <2>1. /\ pending = None /\ incoming # <<>> /\ incoming' = Tail(incoming)
        /\ pending' = IF Head(incoming).type = "Message"
                      THEN [type |-> "Init", message |-> Head(incoming).message] ELSE None
        /\ UNCHANGED <<running, csn, buffer, next, writing, outgoing, printed, wire, up, srvCsn,
                       mailbox, acked>>
    BY <1>1 DEF TakeIncoming, flowVars, connectionVars
  <2>2. incoming' \in Seq(Incoming) /\ Head(incoming) \in Incoming
    BY <1>t, <2>1 DEF ServerInv
  <2>3. pending' \in {None} \cup [type : {"Init", "FetchSender"}, message : Messages]
    BY <2>1, <2>2 DEF Incoming
  <2>4. ServerInv'
    BY <1>t, <2>1, <2>2, <2>3 DEF ServerInv
  <2>5. QED BY <1>t, <2>1, <2>4, QueuesKept, SequenceKept, AckedKept DEF BridgeInv
<1>2. CASE PollTask
  <2>1. /\ pending.type = "Init"
        /\ UNCHANGED <<running, csn, buffer, next, writing, incoming, wire, up, srvCsn, mailbox,
                       acked>>
    BY <1>2 DEF PollTask, flowVars, connectionVars
  <2>p. pending \in [type : {"Init", "FetchSender"}, message : Messages]
    BY <1>t, <2>1 DEF ServerInv, None
  <2>m. PICK m \in Messages : m = pending.message
    BY <2>p
  <2>3. CASE contacts[m.sender] # "Absent"
    <3>1. HandOver(m) /\ Done(m)
      BY <1>2, <2>m, <2>3 DEF PollTask
    <3>2. printed \subseteq printed' /\ Seen(m)'
      BY <3>1 DEF HandOver, Seen
    <3>3. QueueInv' /\ pending' = None
      BY <1>t, <2>1, <2>m, <3>1, <3>2, DoneKeeps
    <3>4. ServerInv'
      BY <1>t, <2>1, <3>3 DEF ServerInv
    <3>5. QED BY <1>t, <2>1, <3>2, <3>3, <3>4, SequenceKept, AckedKept DEF BridgeInv
  <2>4. CASE contacts[m.sender] = "Absent"
    <3>1. /\ pending' = [pending EXCEPT !.type = "FetchSender"]
          /\ UNCHANGED <<outgoing, printed>>
      BY <1>2, <2>m, <2>4 DEF PollTask
    <3>2. pending' \in [type : {"Init", "FetchSender"}, message : Messages]
      BY <2>p, <3>1
    <3>3. ServerInv'
      BY <1>t, <2>1, <3>2 DEF ServerInv
    <3>4. QED BY <1>t, <2>1, <3>1, <3>3, QueuesKept, SequenceKept, AckedKept DEF BridgeInv
  <2>5. QED BY <2>3, <2>4
<1>3. CASE PollFetched
  <2>p. pending \in [type : {"Init", "FetchSender"}, message : Messages]
    BY <1>t, <1>3 DEF PollFetched, ServerInv, None
  <2>m. PICK m \in Messages : m = pending.message
    BY <2>p
  <2>1. /\ IF Admitted(m) THEN HandOver(m) ELSE UNCHANGED <<contacts, printed>>
        /\ Done(m)
        /\ UNCHANGED <<running, csn, buffer, next, writing, incoming, wire, up, srvCsn, mailbox,
                       acked>>
    BY <1>3, <2>m DEF PollFetched, flowVars, connectionVars
  <2>3. printed \subseteq printed' /\ Seen(m)'
    BY <2>1 DEF HandOver, Admitted, Seen
  <2>4. QueueInv' /\ pending' = None
    BY <1>t, <2>1, <2>m, <2>3, DoneKeeps
  <2>5. ServerInv'
    BY <1>t, <2>1, <2>4 DEF ServerInv
  <2>6. QED BY <1>t, <2>1, <2>3, <2>4, <2>5, SequenceKept, AckedKept DEF BridgeInv
<1>4. CASE FetchFails
  <2>1. /\ running' = FALSE
        /\ UNCHANGED <<csn, buffer, next, writing, incoming, outgoing, pending, printed, wire, up,
                       srvCsn, mailbox, acked>>
    BY <1>4 DEF FetchFails, flowVars, connectionVars
  <2>2. ServerInv'
    BY <1>t, <2>1 DEF ServerInv
  <2>3. QED BY <1>t, <2>1, <2>2, QueuesKept, SequenceKept, AckedKept DEF BridgeInv
<1>5. QED BY <1>1, <1>2, <1>3, <1>4 DEF ReceiveFlow

\* The standard input loop only queues messages.
LEMMA StdinLoopKeeps == BridgeInv /\ StdinLoop => BridgeInv'
<1> SUFFICES ASSUME BridgeInv, StdinLoop PROVE BridgeInv'
  OBVIOUS
<1>t. ServerInv /\ QueueInv /\ SequenceInv /\ AckedIsPrinted
  BY DEF BridgeInv
<1>1. /\ UNCHANGED <<running, csn, buffer, next, writing, incoming, pending, printed, wire, up,
                     srvCsn, mailbox, acked>>
      /\ outgoing' \in {outgoing, Append(outgoing, Payload("MessageWithMetadataBox"))}
  BY DEF StdinLoop, ReadLine, LookupAnswered, LookupFails, Iterate, Skip, SendMessage, flowVars,
         connectionVars
<1>2. TruePayloads' = TruePayloads /\ TrueFrames' = TrueFrames
  BY <1>1 DEF TruePayloads, TrueFrames, Seen
<1>3. Payload("MessageWithMetadataBox") \in TruePayloads
  BY DEF Payload, Payloads, TruePayloads
<1>4. outgoing' \in Seq(TruePayloads)
  BY <1>t, <1>1, <1>3 DEF QueueInv
<1>5. QueueInv'
  BY <1>t, <1>1, <1>2, <1>4 DEF QueueInv
<1>6. ServerInv'
  BY <1>t, <1>1 DEF ServerInv
<1>7. QED BY <1>t, <1>1, <1>5, <1>6, SequenceKept, AckedKept DEF BridgeInv

\* So does the chat server: what it reads was true when it was sealed.
LEMMA ServerKeeps == BridgeInv /\ Server => BridgeInv'
<1> SUFFICES ASSUME BridgeInv, Server PROVE BridgeInv'
  OBVIOUS
<1>t. ServerInv /\ QueueInv /\ SequenceInv /\ AckedIsPrinted
  BY DEF BridgeInv
<1>1. ASSUME NEW payload \in FromServer, SrvSend(payload),
             UNCHANGED <<csn, srvCsn, buffer, next, writing, incoming, outgoing, pending, printed,
                         up, mailbox, acked, running>>
      PROVE  BridgeInv'
  <2>1. wire' \in Seq(FromServer)
    BY <1>t, <1>1 DEF SrvSend, ServerInv
  <2>2. ServerInv'
    BY <1>t, <1>1, <2>1 DEF ServerInv
  <2>3. QED BY <1>t, <1>1, <2>2, QueuesKept, SequenceKept, AckedKept DEF BridgeInv
<1>2. ASSUME NEW m \in Messages, SrvMessage(m) PROVE BridgeInv'
  <2>1. [type |-> "Message", message |-> m] \in FromServer
    BY DEF FromServer, Incoming
  <2>2. QED BY <1>1, <1>2, <2>1 DEF SrvMessage, processVars, flowVars
<1>3. CASE SrvEcho
  <2>1. Payload("EchoRequest") \in FromServer
    BY DEF FromServer, Payload
  <2>2. QED BY <1>1, <1>3, <2>1 DEF SrvEcho, processVars, flowVars
<1>4. CASE SrvCloseError
  <2>1. Payload("CloseError") \in FromServer
    BY DEF FromServer, Payload
  <2>2. QED BY <1>1, <1>4, <2>1 DEF SrvCloseError, flowVars
<1>5. CASE SrvReceive
  <2> DEFINE payload == Head(up).payload
  <2>1. /\ up # <<>> /\ up' = Tail(up) /\ srvCsn' = srvCsn + 1
        /\ IF payload.type = "MessageAck"
           THEN mailbox' = mailbox \ {payload.message} /\ acked' = acked \cup {payload.message}
           ELSE UNCHANGED <<mailbox, acked>>
        /\ wire' \in {wire, Append(wire, Payload("MessageAck"))}
        /\ UNCHANGED <<running, csn, buffer, next, writing, incoming, outgoing, pending, printed>>
    BY <1>5 DEF SrvReceive, SrvSend, processVars, flowVars
  <2>2. Head(up) \in TrueFrames /\ up' \in Seq(TrueFrames)
    BY <1>t, <2>1 DEF QueueInv
  <2>3. payload \in TruePayloads
    BY <2>2 DEF TrueFrames
  <2>4. AckedIsPrinted'
    BY <1>t, <2>1, <2>3 DEF AckedIsPrinted, TruePayloads, Seen
  <2>5. wire' \in Seq(FromServer)
    <3>1. Payload("MessageAck") \in FromServer
      BY DEF FromServer, Incoming, Payload
    <3>2. wire \in Seq(FromServer)
      BY <1>t DEF ServerInv
    <3>3. wire' = wire \/ wire' = Append(wire, Payload("MessageAck"))
      BY <2>1
    <3>4. QED BY <3>1, <3>2, <3>3
  <2>6. ServerInv'
    BY <1>t, <2>1, <2>5 DEF ServerInv
  <2>7. QueueInv'
    <3>1. TruePayloads' = TruePayloads /\ TrueFrames' = TrueFrames
      BY <2>1 DEF TruePayloads, TrueFrames, Seen
    <3>2. QED BY <1>t, <2>1, <2>2, <3>1 DEF QueueInv
  <2>8. SequenceInv'
    <3>1. csn \in Nat /\ srvCsn \in Nat
      BY <1>t DEF SequenceInv
    <3>2. /\ Pipeline \in Seq(TrueFrames) /\ Pipeline # <<>>
          /\ Tail(Pipeline) = up' \o Present(writing') \o Present(next')
      BY <1>t, <2>1, PipelineType DEF Present
    <3>3. running => Consecutive(Tail(Pipeline), csn, srvCsn + 1)
      BY <1>t, <3>1, <3>2, ConsecutiveTail, FramesOfPipeline DEF SequenceInv
    <3>4. FramesConsecutive'
      BY <2>1, <3>2, <3>3 DEF FramesConsecutive, Consecutive
    <3>5. QED BY <2>1, <3>1, <3>4 DEF SequenceInv
  <2>9. QED BY <2>4, <2>6, <2>7, <2>8 DEF BridgeInv
<1>6. QED BY <1>2, <1>3, <1>4, <1>5 DEF Server

\* What every process starts with
Started ==
    /\ mailbox \subseteq Messages /\ AckedIsPrinted
    /\ buffer = <<>> /\ csn = 3 /\ next = None /\ writing = None
    /\ incoming = <<>> /\ outgoing = Unblock /\ pending = None
    /\ wire = <<>> /\ up = <<>> /\ srvCsn = 3

\* The invariant holds when a process starts, the first one or any other.
LEMMA StartHolds == Started => BridgeInv
<1> SUFFICES ASSUME Started PROVE BridgeInv
  OBVIOUS
<1> USE DEF Started
<1>1. Payload("UnblockIncomingMessages") \in TruePayloads
  BY DEF Payload, Payloads, TruePayloads
<1>2. outgoing \in Seq(TruePayloads)
  BY <1>1 DEF Unblock
<1>3. ServerInv /\ QueueInv
  BY <1>2 DEF ServerInv, QueueInv
<1>4. Pipeline = <<>>
  BY DEF Pipeline, Present
<1>5. SequenceInv
  BY <1>4, FramesOfPipeline DEF SequenceInv, Consecutive
<1>6. QED BY <1>3, <1>5 DEF BridgeInv

LEMMA BridgeInit == Init => BridgeInv
BY StartHolds DEF Init, Started, AckedIsPrinted

LEMMA BridgeStep == BridgeInv /\ [Next]_vars => BridgeInv'
<1> SUFFICES ASSUME BridgeInv, [Next]_vars PROVE BridgeInv'
  OBVIOUS
<1>t. ServerInv /\ QueueInv /\ SequenceInv /\ AckedIsPrinted
  BY DEF BridgeInv
<1>1. CASE End
  <2>1. /\ running' = FALSE
        /\ UNCHANGED <<csn, buffer, next, writing, incoming, outgoing, pending, printed, wire, up,
                       srvCsn, mailbox, acked>>
    BY <1>1 DEF End, flowVars, connectionVars
  <2>2. ServerInv'
    BY <1>t, <2>1 DEF ServerInv
  <2>3. QED BY <1>t, <2>1, <2>2, QueuesKept, SequenceKept, AckedKept DEF BridgeInv
<1>2. CASE Restart
  <2>1. AckedIsPrinted'
    BY <1>t, <1>2, AckedKept DEF Restart
  <2>2. mailbox' \subseteq Messages
    BY <1>t, <1>2 DEF Restart, ServerInv
  <2>3. Started'
    BY <1>2, <2>1, <2>2 DEF Restart, StartProcess, Started, AckedIsPrinted, Unblock, None, Payload
  <2>4. Started' => BridgeInv'
    BY StartHolds, PTL
  <2>5. QED BY <2>3, <2>4
<1>3. CASE UNCHANGED vars
  <2>1. UNCHANGED <<running, csn, buffer, next, writing, incoming, outgoing, pending, printed, wire,
                    up, srvCsn, mailbox, acked>>
    BY <1>3 DEF vars, processVars, flowVars, connectionVars
  <2>2. ServerInv'
    BY <1>t, <2>1 DEF ServerInv
  <2>3. QED BY <1>t, <2>1, <2>2, QueuesKept, SequenceKept, AckedKept DEF BridgeInv
<1>4. QED BY <1>1, <1>2, <1>3, PayloadFlowKeeps, ReceiveFlowKeeps, StdinLoopKeeps, ServerKeeps
          DEF Next

-----------------------------------------------------------------------------
(* The order in which lines are sent                                       *)
(*                                                                         *)
(* A line stays in current_line until its message is sent or given up, and *)
(* may wait for a lookup meanwhile: the IDs of what was sent, of what is   *)
(* in current_line or waits, and of the lines to come follow each other.   *)

IdsOf(buf) == {buf[k].id : k \in Texts(buf)}
Before(id, ids) == \A other \in ids : id < other

Ordered(buf) == \A j, k \in Texts(buf) : j < k => buf[j].id < buf[k].id

StdinTypes ==
    /\ lines \in Seq(Lines) /\ current \in Seq(Lines)
    /\ lookup \in Lines \cup {None}
    /\ sent \in Seq(Nat)

StdinInv ==
    /\ StdinTypes
    /\ SentInOrder
    /\ Ordered(lines)
    /\ \A k \in 1 .. Len(sent) :
          /\ Before(sent[k], IdsOf(current)) /\ Before(sent[k], IdsOf(lines))
          /\ lookup # None => sent[k] < lookup.id
    /\ \A id \in IdsOf(current) : Before(id, IdsOf(lines))
    /\ lookup # None => Before(lookup.id, IdsOf(lines))

\* Lines have numbers as IDs.
LEMMA IdsType ==
    ASSUME NEW buf \in Seq(Lines)
    PROVE  IdsOf(buf) \subseteq Nat
<1>1. \A k \in DOMAIN buf : buf[k] \in Lines
  OBVIOUS
<1>2. \A line \in Lines : line.id \in Nat
  BY DEF Lines
<1>3. QED BY <1>1, <1>2 DEF IdsOf, Texts

\* An empty current_line holds nothing.
LEMMA IdsEmpty == IdsOf(<<>>) = {}
BY DEF IdsOf, Texts

\* What a read line adds to current_line
LEMMA IdsAppend ==
    ASSUME NEW buf \in Seq(Lines), NEW line \in Lines
    PROVE  /\ Append(buf, line) \in Seq(Lines)
           /\ \A id \in IdsOf(Append(buf, line)) :
                 id \in IdsOf(buf) \/ (line.type # "Blank" /\ id = line.id)
<1>1. /\ Append(buf, line) \in Seq(Lines)
      /\ DOMAIN Append(buf, line) = 1 .. Len(buf) + 1
      /\ \A k \in 1 .. Len(buf) + 1 :
             Append(buf, line)[k] = IF k <= Len(buf) THEN buf[k] ELSE line
      /\ DOMAIN buf = 1 .. Len(buf) /\ Len(buf) \in Nat
  OBVIOUS
<1>2. ASSUME NEW k \in Texts(Append(buf, line))
      PROVE  \/ Append(buf, line)[k].id \in IdsOf(buf)
             \/ line.type # "Blank" /\ Append(buf, line)[k].id = line.id
  <2>1. k \in 1 .. Len(buf) + 1 /\ Append(buf, line)[k].type # "Blank"
    BY <1>1 DEF Texts
  <2>2. CASE k <= Len(buf)
    <3>1. k \in Texts(buf) /\ Append(buf, line)[k] = buf[k]
      BY <1>1, <2>1, <2>2 DEF Texts
    <3>2. QED BY <3>1 DEF IdsOf
  <2>3. CASE ~(k <= Len(buf))
    BY <1>1, <2>1, <2>3
  <2>4. QED BY <2>2, <2>3
<1>3. QED BY <1>1, <1>2 DEF IdsOf

\* What is left when a line has been read: the lines behind it
LEMMA IdsTail ==
    ASSUME NEW buf \in Seq(Lines), buf # <<>>, Ordered(buf)
    PROVE  /\ Head(buf) \in Lines /\ Tail(buf) \in Seq(Lines)
           /\ Ordered(Tail(buf))
           /\ IdsOf(Tail(buf)) \subseteq IdsOf(buf)
           /\ Head(buf).type # "Blank" => /\ Head(buf).id \in IdsOf(buf)
                                          /\ Before(Head(buf).id, IdsOf(Tail(buf)))
<1>1. /\ Head(buf) = buf[1] /\ buf[1] \in Lines /\ Tail(buf) \in Seq(Lines)
      /\ DOMAIN Tail(buf) = 1 .. Len(buf) - 1 /\ DOMAIN buf = 1 .. Len(buf)
      /\ Len(buf) \in Nat /\ 1 \in DOMAIN buf
      /\ \A k \in 1 .. Len(buf) - 1 : Tail(buf)[k] = buf[k + 1]
  OBVIOUS
<1>2. \A k \in Texts(Tail(buf)) : /\ k \in Nat /\ k + 1 \in Texts(buf) /\ k + 1 > 1
                                  /\ Tail(buf)[k] = buf[k + 1]
  BY <1>1 DEF Texts
<1>3. Ordered(Tail(buf))
  <2>1. ASSUME NEW j \in Texts(Tail(buf)), NEW k \in Texts(Tail(buf)), j < k
        PROVE  Tail(buf)[j].id < Tail(buf)[k].id
    <3>1. j + 1 < k + 1
      BY <1>2, <2>1
    <3>2. QED BY <1>2, <3>1 DEF Ordered
  <2>2. QED BY <2>1 DEF Ordered
<1>4. IdsOf(Tail(buf)) \subseteq IdsOf(buf)
  BY <1>2 DEF IdsOf
<1>5. ASSUME Head(buf).type # "Blank"
      PROVE  Head(buf).id \in IdsOf(buf) /\ Before(Head(buf).id, IdsOf(Tail(buf)))
  <2>1. 1 \in Texts(buf)
    BY <1>1, <1>5 DEF Texts
  <2>2. \A k \in Texts(Tail(buf)) : buf[1].id < Tail(buf)[k].id
    BY <1>2, <2>1 DEF Ordered
  <2>3. QED BY <1>1, <2>1, <2>2 DEF IdsOf, Before
<1>6. QED BY <1>1, <1>3, <1>4, <1>5

\* An iteration skips, sends the text in current_line and clears it, or lets it wait.
LEMMA Iterations ==
    ASSUME NEW buf \in Seq(Lines), Iterate(buf)
    PROVE  \/ UNCHANGED <<lookup, sent>> /\ current' \in {buf, <<>>}
           \/ /\ UNCHANGED lookup /\ current' = <<>>
              /\ \E id \in IdsOf(buf) : sent' = Append(sent, id)
           \/ /\ UNCHANGED sent /\ current' = buf
              /\ lookup' \in Lines /\ lookup'.id \in IdsOf(buf)
<1> DEFINE texts  == Texts(buf)
           single == \E k \in texts : texts = {k}
           line   == buf[CHOOSE k \in texts : TRUE]
<1>1. CASE texts = {} \/ ~single
  BY <1>1 DEF Iterate, Skip
<1>2. CASE single
  <2>1. (CHOOSE k \in texts : TRUE) \in texts /\ texts # {}
    BY <1>2
  <2>2. line \in Lines /\ line.id \in IdsOf(buf)
    <3>1. \A k \in texts : k \in DOMAIN buf /\ buf[k] \in Lines /\ buf[k].id \in IdsOf(buf)
      BY DEF IdsOf, Texts
    <3>2. QED BY <2>1, <3>1
  <2>3. CASE line.type = "SendRawInvalid" \/ (line.type = "AddContacts" /\ Unknown(line) = {})
    BY <1>2, <2>1, <2>3 DEF Iterate, Skip
  <2>4. CASE line.type = "SendMessage" /\ Unknown(line) = {}
    <3>1. SendMessage(line.id, buf) /\ UNCHANGED lookup
      BY <1>2, <2>1, <2>4 DEF Iterate
    <3>2. QED BY <2>2, <3>1 DEF SendMessage, AfterCommand
  <2>5. CASE /\ line.type # "SendRawInvalid"
             /\ ~(line.type \in {"AddContacts", "SendMessage"} /\ Unknown(line) = {})
    <3>1. /\ lookup' = [line EXCEPT !.who = Unknown(line)]
          /\ current' = buf /\ UNCHANGED sent
      BY <1>2, <2>1, <2>5 DEF Iterate
    <3>2. Unknown(line) \subseteq line.who
      BY DEF Unknown
    <3>3. lookup' \in Lines /\ lookup'.id = line.id
      BY <2>2, <3>1, <3>2 DEF Lines
    <3>4. QED BY <2>2, <3>1, <3>3
  <2>6. QED BY <2>3, <2>4, <2>5
<1>3. QED BY <1>1, <1>2

\* Sending what follows all that was sent keeps the order.
LEMMA SendKeepsOrder ==
    ASSUME sent \in Seq(Nat), SentInOrder, NEW id \in Nat, sent' = Append(sent, id),
           \A k \in 1 .. Len(sent) : sent[k] < id
    PROVE  /\ sent' \in Seq(Nat) /\ SentInOrder'
           /\ \A k \in 1 .. Len(sent') : sent'[k] <= id
<1>1. /\ Len(sent') = Len(sent) + 1 /\ sent' \in Seq(Nat) /\ Len(sent) \in Nat
      /\ \A k \in 1 .. Len(sent) + 1 : sent'[k] = IF k <= Len(sent) THEN sent[k] ELSE id
      /\ \A k \in 1 .. Len(sent) : sent[k] \in Nat
  OBVIOUS
<1>2. \A k \in 1 .. Len(sent') : sent'[k] <= id
  BY <1>1
<1>3. ASSUME NEW j \in 1 .. Len(sent'), NEW k \in 1 .. Len(sent'), j < k
      PROVE  sent'[j] < sent'[k]
  <2>1. CASE k <= Len(sent)
    <3>1. j \in 1 .. Len(sent) /\ k \in 1 .. Len(sent)
      BY <1>1, <1>3, <2>1
    <3>2. QED BY <1>1, <1>3, <3>1 DEF SentInOrder
  <2>2. CASE ~(k <= Len(sent))
    <3>1. j \in 1 .. Len(sent) /\ sent'[k] = id
      BY <1>1, <1>3, <2>2
    <3>2. QED BY <1>1, <3>1
  <2>3. QED BY <2>1, <2>2
<1>4. QED BY <1>1, <1>2, <1>3 DEF SentInOrder

LEMMA ReadLineKeeps == StdinInv /\ ReadLine => StdinInv'
<1> SUFFICES ASSUME StdinInv, ReadLine PROVE StdinInv'
  OBVIOUS
<1> DEFINE line == Head(lines)
           buf  == Append(current, line)
<1>t. /\ lines \in Seq(Lines) /\ current \in Seq(Lines) /\ sent \in Seq(Nat)
      /\ lookup = None /\ lines # <<>> /\ lines' = Tail(lines) /\ Iterate(buf)
  BY DEF StdinInv, StdinTypes, ReadLine
<1>1. /\ line \in Lines /\ lines' \in Seq(Lines) /\ Ordered(lines')
      /\ IdsOf(lines') \subseteq IdsOf(lines)
      /\ line.type # "Blank" => line.id \in IdsOf(lines) /\ Before(line.id, IdsOf(lines'))
  BY <1>t, IdsTail DEF StdinInv
<1>2. /\ buf \in Seq(Lines)
      /\ \A id \in IdsOf(buf) : id \in IdsOf(current) \/ (line.type # "Blank" /\ id = line.id)
  BY <1>t, <1>1, IdsAppend
<1>3. \A id \in IdsOf(buf) : Before(id, IdsOf(lines'))
  BY <1>1, <1>2 DEF StdinInv, Before
<1>4. \A k \in 1 .. Len(sent) : Before(sent[k], IdsOf(buf)) /\ Before(sent[k], IdsOf(lines'))
  BY <1>1, <1>2 DEF StdinInv, Before
<1>5. IdsOf(buf) \subseteq Nat /\ IdsOf(lines') \subseteq Nat
  BY <1>1, <1>2, IdsType
<1> HIDE DEF buf
<1>6. CASE UNCHANGED <<lookup, sent>> /\ current' \in {buf, <<>>}
  <2>1. current' \in Seq(Lines) /\ IdsOf(current') \subseteq IdsOf(buf)
    <3>1. CASE current' = buf
      BY <1>2, <3>1
    <3>2. CASE current' = <<>>
      BY <3>2, IdsEmpty
    <3>3. QED BY <1>6, <3>1, <3>2
  <2>2. SentInOrder'
    BY <1>6 DEF SentInOrder, StdinInv
  <2>3. QED BY <1>t, <1>1, <1>3, <1>4, <1>6, <2>1, <2>2 DEF StdinInv, StdinTypes, Before
<1>7. ASSUME UNCHANGED lookup, current' = <<>>, NEW id \in IdsOf(buf), sent' = Append(sent, id)
      PROVE  StdinInv'
  <2>1. \A k \in 1 .. Len(sent) : sent[k] < id
    BY <1>4 DEF Before
  <2>2. /\ sent' \in Seq(Nat) /\ SentInOrder'
        /\ \A k \in 1 .. Len(sent') : sent'[k] <= id
    BY <1>t, <1>5, <1>7, <2>1, SendKeepsOrder DEF StdinInv
  <2>3. \A k \in 1 .. Len(sent') : Before(sent'[k], IdsOf(lines'))
    <3>1. ASSUME NEW k \in 1 .. Len(sent'), NEW other \in IdsOf(lines')
          PROVE  sent'[k] < other
      <4>1. sent'[k] \in Nat /\ sent'[k] <= id /\ id \in Nat /\ other \in Nat
        BY <1>5, <2>2
      <4>2. id < other
        BY <1>3 DEF Before
      <4>3. QED BY <4>1, <4>2
    <3>2. QED BY <3>1 DEF Before
  <2>4. IdsOf(current') = {} /\ current' \in Seq(Lines)
    BY <1>7, IdsEmpty
  <2>5. QED BY <1>t, <1>1, <1>7, <2>2, <2>3, <2>4 DEF StdinInv, StdinTypes, Before
<1>8. CASE UNCHANGED sent /\ current' = buf /\ lookup' \in Lines /\ lookup'.id \in IdsOf(buf)
  <2>1. SentInOrder'
    BY <1>8 DEF SentInOrder, StdinInv
  <2>2. \A k \in 1 .. Len(sent) : sent[k] < lookup'.id
    BY <1>4, <1>8 DEF Before
  <2>3. QED BY <1>t, <1>1, <1>2, <1>3, <1>4, <1>8, <2>1, <2>2 DEF StdinInv, StdinTypes
<1>9. QED BY <1>t, <1>2, <1>6, <1>7, <1>8, Iterations

LEMMA LookupAnsweredKeeps == StdinInv /\ LookupAnswered => StdinInv'
<1> SUFFICES ASSUME StdinInv, LookupAnswered PROVE StdinInv'
  OBVIOUS
<1>t. /\ lines \in Seq(Lines) /\ sent \in Seq(Nat) /\ lookup \in Lines
      /\ lines' = lines /\ lookup' = None /\ current' = <<>>
      /\ sent' \in {sent, Append(sent, lookup.id)}
  BY DEF StdinInv, StdinTypes, LookupAnswered, SendMessage, AfterCommand
<1>1. lookup # None /\ lookup.id \in Nat /\ IdsOf(lines) \subseteq Nat
  BY <1>t, IdsType DEF LookupAnswered, Lines
<1>2. IdsOf(current') = {} /\ current' \in Seq(Lines)
  BY <1>t, IdsEmpty
<1>3. CASE sent' = sent
  <2>1. SentInOrder'
    BY <1>3 DEF SentInOrder, StdinInv
  <2>2. QED BY <1>t, <1>2, <1>3, <2>1 DEF StdinInv, StdinTypes, Before
<1>4. CASE sent' = Append(sent, lookup.id)
  <2>1. \A k \in 1 .. Len(sent) : sent[k] < lookup.id
    BY <1>1 DEF StdinInv
  <2>2. /\ sent' \in Seq(Nat) /\ SentInOrder'
        /\ \A k \in 1 .. Len(sent') : sent'[k] <= lookup.id
    BY <1>t, <1>1, <1>4, <2>1, SendKeepsOrder DEF StdinInv
  <2>3. \A k \in 1 .. Len(sent') : Before(sent'[k], IdsOf(lines))
    <3>1. ASSUME NEW k \in 1 .. Len(sent'), NEW other \in IdsOf(lines)
          PROVE  sent'[k] < other
      <4>1. sent'[k] \in Nat /\ sent'[k] <= lookup.id /\ other \in Nat
        BY <1>1, <2>2
      <4>2. lookup.id < other
        BY <1>1 DEF StdinInv, Before
      <4>3. QED BY <1>1, <4>1, <4>2
    <3>2. QED BY <3>1 DEF Before
  <2>4. QED BY <1>t, <1>2, <2>2, <2>3 DEF StdinInv, StdinTypes, Before
<1>5. QED BY <1>t, <1>3, <1>4

\* Before a process has read a line
LEMMA StdinStarts ==
    lines \in Inputs /\ current = <<>> /\ lookup = None /\ sent = <<>> => StdinInv
<1> SUFFICES ASSUME lines \in Inputs, current = <<>>, lookup = None, sent = <<>>
             PROVE  StdinInv
  OBVIOUS
<1>1. lines \in Seq(Lines) /\ Ordered(lines)
  BY BridgeAssumption DEF Ordered
<1>2. IdsOf(current) = {} /\ current \in Seq(Lines) /\ sent \in Seq(Nat)
  BY IdsEmpty
<1>3. QED BY <1>1, <1>2 DEF StdinInv, StdinTypes, SentInOrder, Before

LEMMA StdinStep == StdinInv /\ [Next]_vars => StdinInv'
<1> SUFFICES ASSUME StdinInv, [Next]_vars PROVE StdinInv'
  OBVIOUS
<1>u. ASSUME UNCHANGED stdinVars PROVE StdinInv'
  BY <1>u DEF stdinVars, StdinInv, StdinTypes, SentInOrder, Ordered, IdsOf, Before, Texts
<1>1. CASE PayloadFlow
  BY <1>1, <1>u DEF PayloadFlow, PollPayload, ReceiveChunks, TakeOutgoing, StartWrite, EndWrite
<1>2. CASE ReceiveFlow
  BY <1>2, <1>u DEF ReceiveFlow, TakeIncoming, PollTask, PollFetched, FetchFails
<1>3. CASE LookupFails
  <2>1. /\ lines' = lines /\ lookup' = None /\ current' = <<>> /\ sent' = sent
    BY <1>3 DEF LookupFails
  <2>2. IdsOf(current') = {} /\ current' \in Seq(Lines)
    BY <2>1, IdsEmpty
  <2>3. SentInOrder'
    BY <2>1 DEF SentInOrder, StdinInv
  <2>4. QED BY <2>1, <2>2, <2>3 DEF StdinInv, StdinTypes, Before
<1>4. CASE End
  BY <1>4, <1>u DEF End
<1>5. CASE Restart
  <2>1. (lines \in Inputs /\ current = <<>> /\ lookup = None /\ sent = <<>>)'
    BY <1>5 DEF Restart, StartProcess, None
  <2>2. (lines \in Inputs /\ current = <<>> /\ lookup = None /\ sent = <<>>)' => StdinInv'
    BY StdinStarts, PTL
  <2>3. QED BY <2>1, <2>2
<1>6. CASE Server
  BY <1>6, <1>u DEF Server, SrvMessage, SrvEcho, SrvCloseError, SrvReceive, processVars
<1>7. CASE UNCHANGED vars
  BY <1>7, <1>u DEF vars, processVars
<1>8. QED BY <1>1, <1>2, <1>3, <1>4, <1>5, <1>6, <1>7, ReadLineKeeps, LookupAnsweredKeeps
          DEF Next, StdinLoop

-----------------------------------------------------------------------------
\* The frames on their way are those sealed since the server last read, without a
\* gap, whatever the flows put into the one slot (next_instruction).
THEOREM FramesStayConsecutive == Spec => []FramesConsecutive
<1>1. BridgeInv => FramesConsecutive
  BY DEF BridgeInv, SequenceInv
<1>2. QED BY <1>1, BridgeInit, BridgeStep, PTL DEF Spec

\* What the server forgets was printed by some process, whenever they end.
THEOREM AckedWasPrinted == Spec => []AckedIsPrinted
<1>1. BridgeInv => AckedIsPrinted
  BY DEF BridgeInv
<1>2. QED BY <1>1, BridgeInit, BridgeStep, PTL DEF Spec
\* Messages leave in the order of their lines, each once, though a line may stay in
\* current_line over several iterations and wait for the directory (main.rs).
THEOREM LinesSentInOrder == Spec => []SentInOrder
<1>1. Init => StdinInv
  BY StdinStarts DEF Init
<1>2. StdinInv => SentInOrder
  BY DEF StdinInv
<1>3. QED BY <1>1, <1>2, StdinStep, PTL DEF Spec

-----------------------------------------------------------------------------
(* Bytes.  Below the payloads of the connection are its bytes: those of    *)
(* FrameStream, with any base, length of a delimiter and number of frames. *)
(* What its decoder has taken and holds, followed by the stream, are the   *)
(* bytes of the frames that are pending.                                   *)
(*                                                                         *)
(* What is recursive, the value of a delimiter and frames joined to a      *)
(* stream, is computed by functions.  That they exist, and what they give, *)
(* is shown number by number up to their length.                           *)

USE StreamAssumption

\* Every non-empty set of numbers has a least element: the strict subsets of finite
\* sets are well-founded, and a number is one with the set of those up to it.
LEMMA Least ==
    ASSUME NEW N \in SUBSET Nat, N # {}
    PROVE  \E m \in N : \A n \in N : m <= n
<1> DEFINE T == {0 .. n : n \in N}
<1>1. IsWellFoundedOn(StrictSubsetOrdering(Nat), FiniteSubsetsOf(Nat))
  BY FS_StrictSubsetOrderingWellFounded
<1>2. T \subseteq FiniteSubsetsOf(Nat)
  <2>1. \A n \in N : IsFiniteSet(0 .. n) /\ 0 .. n \in SUBSET Nat
    BY FS_Interval
  <2>2. QED
    BY <2>1 DEF FiniteSubsetsOf
<1>3. T # {}
  OBVIOUS
<1> HIDE DEF T
<1>4. PICK x \in T : \A y \in T : ~(<<y, x>> \in StrictSubsetOrdering(Nat))
  BY <1>1, <1>2, <1>3, WFMin
<1>5. PICK m \in N : x = 0 .. m
  BY DEF T
<1>6. ASSUME NEW n \in N, n < m
      PROVE  FALSE
  <2>1. 0 .. n \in T
    BY DEF T
  <2>2. 0 .. n \subseteq 0 .. m /\ m \notin 0 .. n /\ m \in 0 .. m
    BY <1>6
  <2>3. <<0 .. n, 0 .. m>> \in StrictSubsetOrdering(Nat)
    BY <2>2 DEF StrictSubsetOrdering
  <2>4. QED
    BY <1>4, <1>5, <2>1, <2>3
<1>7. QED
  BY <1>6

\* Induction: a set that holds 0 and with a number below n the next one holds all
\* numbers up to n.
LEMMA UpTo ==
    ASSUME NEW n \in Nat, NEW S,
           0 \in S,
           \A i \in 0 .. n - 1 : i \in S => i + 1 \in S
    PROVE  0 .. n \subseteq S
<1> SUFFICES ASSUME NEW bad \in 0 .. n, bad \notin S
             PROVE  FALSE
  OBVIOUS
<1> DEFINE N == {i \in 0 .. n : i \notin S}
<1>1. N \in SUBSET Nat /\ N # {}
  OBVIOUS
<1> HIDE DEF N
<1>2. PICK m \in N : \A k \in N : m <= k
  BY <1>1, Least
<1>3. m \in 0 .. n /\ m \notin S /\ m # 0
  BY <1>2 DEF N
<1>4. m - 1 \in S
  BY <1>2, <1>3 DEF N
<1>5. QED
  BY <1>3, <1>4

\* The same from 1 on.
LEMMA FromOne ==
    ASSUME NEW n \in Nat, NEW S,
           1 \in S,
           \A i \in 1 .. n - 1 : i \in S => i + 1 \in S
    PROVE  1 .. n \subseteq S
<1> DEFINE P == {k \in Nat : k + 1 \in S}
<1>1. 0 \in P
  OBVIOUS
<1>2. \A k \in 0 .. (n - 1) - 1 : k \in P => k + 1 \in P
  <2> SUFFICES ASSUME NEW k \in 0 .. (n - 1) - 1, k + 1 \in S
               PROVE  (k + 1) + 1 \in S
    OBVIOUS
  <2>1. k + 1 \in 1 .. n - 1
    OBVIOUS
  <2>2. QED
    BY <2>1
<1> HIDE DEF P
<1>3. CASE n = 0
  BY <1>3
<1>4. CASE n # 0
  <2>1. n - 1 \in Nat
    BY <1>4
  <2>2. 0 .. n - 1 \subseteq P
    BY <1>1, <1>2, <2>1, UpTo
  <2>3. ASSUME NEW i \in 1 .. n
        PROVE  i \in S
    <3>1. i - 1 \in P
      BY <2>2
    <3>2. (i - 1) + 1 \in S
      BY <3>1 DEF P
    <3>3. (i - 1) + 1 = i
      OBVIOUS
    <3>4. QED
      BY <3>2, <3>3
  <2>4. QED
    BY <2>3
<1>5. QED
  BY <1>3, <1>4

-----------------------------------------------------------------------------
(* Integers of any base                                                    *)

\* A number is its last digit and the rest.
LEMMA Digits ==
    ASSUME NEW n \in Nat, NEW b \in Nat \ {0}
    PROVE  /\ n \div b \in Nat
           /\ n % b \in 0 .. b - 1
           /\ n = (n % b) + b * (n \div b)
  OBVIOUS

\* A number below b times a number.
LEMMA DivBelow ==
    ASSUME NEW n \in Nat, NEW b \in Nat \ {0}, NEW m \in Nat, n <= b * m + b - 1
    PROVE  n \div b <= m
<1> DEFINE q == n \div b
<1>1. q \in Nat /\ n >= b * q
  <2>1. n \div b \in Nat /\ n % b \in 0 .. b - 1 /\ n = (n % b) + b * (n \div b)
    BY Digits
  <2> DEFINE r == n % b
             p == b * (n \div b)
  <2>2. r \in Nat /\ p \in Int /\ n = r + p
    BY <2>1
  <2> HIDE DEF r, p
  <2>3. n >= p
    BY <2>2
  <2>4. QED
    BY <2>1, <2>3 DEF p
<1> HIDE DEF q
<1>2. ASSUME q >= m + 1
      PROVE  FALSE
  <2>1. b * q >= b * (m + 1)
    BY <1>1, <1>2
  <2>2. b * (m + 1) = b * m + b
    OBVIOUS
  <2>3. QED
    BY <1>1, <2>1, <2>2
<1>3. QED
  BY <1>1, <1>2 DEF q

-----------------------------------------------------------------------------
(* The delimiter                                                           *)

\* What is left of a length is its recursive definition.
RestOf(n, k, rest) ==
    rest = [i \in 1 .. k |-> IF i = 1 THEN n ELSE rest[i - 1] \div Base]

\* The recursion behind Rest has a solution, of numbers.
LEMMA RestValues ==
    ASSUME NEW n \in Nat
    PROVE  /\ Rest(n)[1] = n
           /\ \A i \in 2 .. DelimiterLength : Rest(n)[i] = Rest(n)[i - 1] \div Base
           /\ \A i \in 1 .. DelimiterLength : Rest(n)[i] \in Nat
<1> DEFINE D == DelimiterLength
<1>1. D \in Nat /\ D >= 1 /\ Base \in Nat /\ Base >= 2
  BY StreamAssumption
<1> DEFINE S == {k \in 0 .. D : \E rest : RestOf(n, k, rest)}
<1> HIDE DEF D
<1>2. 0 \in S
  <2>1. RestOf(n, 0, [i \in 1 .. 0 |-> 0])
    BY DEF RestOf
  <2>2. QED
    BY <1>1, <2>1
<1>3. ASSUME NEW k \in 0 .. D - 1, k \in S
      PROVE  k + 1 \in S
  <2>1. PICK rest : RestOf(n, k, rest)
    BY <1>3
  <2> DEFINE more == IF k = 0 THEN n ELSE rest[k] \div Base
             longer == [i \in 1 .. k + 1 |-> IF i <= k THEN rest[i] ELSE more]
  <2>2. \A i \in 1 .. k : rest[i] = IF i = 1 THEN n ELSE rest[i - 1] \div Base
    BY <2>1 DEF RestOf
  <2>3. \A i \in 1 .. k + 1 : longer[i] = IF i = 1 THEN n ELSE longer[i - 1] \div Base
    BY <1>1, <2>2
  <2>4. RestOf(n, k + 1, longer)
    BY <2>3 DEF RestOf
  <2> HIDE DEF longer
  <2>5. QED
    BY <1>1, <2>4
<1> HIDE DEF S
<1>4. D \in S
  BY <1>1, <1>2, <1>3, UpTo, 0 .. D \subseteq S
<1>5. \E rest : RestOf(n, D, rest)
  BY <1>4 DEF S
<1>6. RestOf(n, D, CHOOSE rest : RestOf(n, D, rest))
  BY <1>5
<1>7. Rest(n) = CHOOSE rest : RestOf(n, D, rest)
  BY DEF Rest, RestOf, D
<1> DEFINE rest == Rest(n)
<1>8. RestOf(n, D, rest)
  BY <1>6, <1>7
<1> HIDE DEF rest
<1>9. \A i \in 1 .. D : rest[i] = IF i = 1 THEN n ELSE rest[i - 1] \div Base
  BY <1>8 DEF RestOf
<1> DEFINE N == {k \in 0 .. D - 1 : rest[k + 1] \in Nat}
<1>10. 0 \in N
  BY <1>1, <1>9
<1>11. ASSUME NEW k \in 0 .. (D - 1) - 1, k \in N
       PROVE  k + 1 \in N
  <2>1. rest[k + 2] = rest[k + 1] \div Base /\ rest[k + 1] \in Nat
    BY <1>1, <1>9, <1>11
  <2>2. \A m \in Nat : m \div Base \in Nat
    BY <1>1, Digits
  <2>3. rest[k + 2] \in Nat
    BY <2>1, <2>2
  <2>4. QED
    BY <1>1, <2>3
<1> HIDE DEF N
<1>12. 0 .. D - 1 \subseteq N
  BY <1>1, <1>10, <1>11, UpTo
<1>13. \A i \in 1 .. D : rest[i] \in Nat
  <2> TAKE i \in 1 .. D
  <2>1. i - 1 \in N
    BY <1>1, <1>12
  <2>2. QED
    BY <1>1, <2>1 DEF N
<1>14. QED
  BY <1>1, <1>9, <1>13 DEF rest, D

\* The bytes of a delimiter.
LEMMA DelimiterBytes ==
    ASSUME NEW n \in Nat
    PROVE  /\ ToLittleEndian(n) \in Seq(Byte)
           /\ Len(ToLittleEndian(n)) = DelimiterLength
           /\ \A i \in 1 .. DelimiterLength : ToLittleEndian(n)[i] = Rest(n)[i] % Base
<1>1. DelimiterLength \in Nat /\ Base \in Nat \ {0}
  BY StreamAssumption
<1>2. \A i \in 1 .. DelimiterLength : Rest(n)[i] % Base \in Byte
  BY <1>1, RestValues, Digits DEF Byte
<1>3. QED
  BY <1>1, <1>2 DEF ToLittleEndian

\* The greatest numbers of each number of bytes are their recursive definition.
GreatestTo(k, max) ==
    max = [i \in 0 .. k |-> IF i = 0 THEN 0 ELSE Base * max[i - 1] + Base - 1]

\* The recursion behind MaxLength has a solution, of numbers.
LEMMA GreatestIsDefined ==
    \E max : /\ MaxLength = max[DelimiterLength]
             /\ max[0] = 0
             /\ \A i \in 1 .. DelimiterLength : max[i] = Base * max[i - 1] + Base - 1
             /\ \A i \in 0 .. DelimiterLength : max[i] \in Nat
<1> DEFINE D == DelimiterLength
<1>1. D \in Nat /\ D >= 1 /\ Base \in Nat /\ Base >= 2
  BY StreamAssumption
<1> DEFINE S == {k \in 0 .. D : \E max : GreatestTo(k, max)}
<1> HIDE DEF D
<1>2. 0 \in S
  <2>1. GreatestTo(0, [i \in 0 .. 0 |-> 0])
    BY DEF GreatestTo
  <2>2. QED
    BY <1>1, <2>1
<1>3. ASSUME NEW k \in 0 .. D - 1, k \in S
      PROVE  k + 1 \in S
  <2>1. PICK max : GreatestTo(k, max)
    BY <1>3
  <2> DEFINE more == Base * max[k] + Base - 1
             longer == [i \in 0 .. k + 1 |-> IF i <= k THEN max[i] ELSE more]
  <2>2. \A i \in 0 .. k : max[i] = IF i = 0 THEN 0 ELSE Base * max[i - 1] + Base - 1
    BY <2>1 DEF GreatestTo
  <2> HIDE DEF more
  <2>3. ASSUME NEW i \in 0 .. k + 1
        PROVE  longer[i] = IF i = 0 THEN 0 ELSE Base * longer[i - 1] + Base - 1
    <3>1. CASE i <= k
      <4>1. longer[i] = max[i] /\ (i # 0 => longer[i - 1] = max[i - 1]) /\ i \in 0 .. k
        BY <1>1, <3>1
      <4>2. QED
        BY <2>2, <4>1, Zenon
    <3>2. CASE i = k + 1
      <4>1. longer[i] = more /\ longer[i - 1] = max[k] /\ i # 0
        BY <1>1, <3>2
      <4>2. QED
        BY <4>1, Zenon DEF more
    <3>3. QED
      BY <1>1, <3>1, <3>2
  <2>4. GreatestTo(k + 1, longer)
    <3>1. longer = [i \in 0 .. k + 1 |-> longer[i]]
      OBVIOUS
    <3> HIDE DEF longer
    <3>2. QED
      BY <2>3, <3>1 DEF GreatestTo
  <2> HIDE DEF longer
  <2>5. QED
    BY <1>1, <2>4
<1> HIDE DEF S
<1>4. D \in S
  BY <1>1, <1>2, <1>3, UpTo, 0 .. D \subseteq S
<1>5. \E max : GreatestTo(D, max)
  BY <1>4 DEF S
<1> DEFINE max == CHOOSE max : GreatestTo(D, max)
<1>6. GreatestTo(D, max)
  BY <1>5
<1>7. MaxLength = max[D]
  BY DEF MaxLength, GreatestTo, D
<1> HIDE DEF max
<1>8. \A i \in 0 .. D : max[i] = IF i = 0 THEN 0 ELSE Base * max[i - 1] + Base - 1
  BY <1>6 DEF GreatestTo
<1> DEFINE N == {k \in 0 .. D : max[k] \in Nat}
<1>9. 0 \in N
  BY <1>1, <1>8
<1>10. ASSUME NEW k \in 0 .. D - 1, k \in N
       PROVE  k + 1 \in N
  <2>1. max[k + 1] = Base * max[k] + Base - 1 /\ max[k] \in Nat
    BY <1>1, <1>8, <1>10
  <2>2. Base * max[k] \in Nat
    BY <1>1, <2>1
  <2>3. max[k + 1] \in Nat
    BY <1>1, <2>1, <2>2
  <2>4. QED
    BY <1>1, <2>3
<1> HIDE DEF N
<1>11. 0 .. D \subseteq N
  BY <1>1, <1>9, <1>10, UpTo
<1>12. \A i \in 0 .. D : max[i] \in Nat
  BY <1>11 DEF N
<1>13. QED
  BY <1>1, <1>7, <1>8, <1>12 DEF D

\* What is left of a length that is not too long is never more than the bytes left can hold.
LEMMA RestFits ==
    ASSUME NEW n \in 0 .. MaxLength
    PROVE  n \in Nat /\ Rest(n)[DelimiterLength] < Base
<1> DEFINE D == DelimiterLength
<1>1. D \in Nat /\ D >= 1 /\ Base \in Nat /\ Base >= 2
  BY StreamAssumption
<1>2. PICK max : /\ MaxLength = max[D]
                 /\ max[0] = 0
                 /\ \A i \in 1 .. D : max[i] = Base * max[i - 1] + Base - 1
                 /\ \A i \in 0 .. D : max[i] \in Nat
  BY GreatestIsDefined
<1> HIDE DEF D
<1>3. n \in Nat /\ n <= max[D]
  <2>1. max[D] \in Nat
    BY <1>1, <1>2
  <2>2. QED
    BY <1>2, <2>1
<1> DEFINE rest == Rest(n)
<1>4. /\ rest[1] = n
      /\ \A i \in 2 .. D : rest[i] = rest[i - 1] \div Base
      /\ \A i \in 1 .. D : rest[i] \in Nat
  BY <1>3, RestValues DEF D
<1> HIDE DEF rest
<1> DEFINE S == {k \in 0 .. D - 1 : rest[k + 1] <= max[D - k]}
<1>5. 0 \in S
  BY <1>1, <1>3, <1>4
<1>6. ASSUME NEW k \in 0 .. (D - 1) - 1, k \in S
      PROVE  k + 1 \in S
  <2>1. rest[k + 1] <= max[D - k] /\ rest[k + 1] \in Nat /\ D - k \in 1 .. D
    BY <1>1, <1>4, <1>6
  <2>2. max[D - k] = Base * max[D - k - 1] + Base - 1 /\ max[D - k - 1] \in Nat
    BY <1>1, <1>2, <2>1
  <2> DEFINE r == rest[k + 1]
             m == max[D - k - 1]
  <2>3. r \in Nat /\ m \in Nat /\ r <= Base * m + Base - 1 /\ Base \in Nat \ {0}
    BY <1>1, <2>1, <2>2
  <2> HIDE DEF r, m
  <2>4. r \div Base <= m
    BY <2>3, DivBelow
  <2>5. rest[k + 2] = r \div Base
    BY <1>1, <1>4 DEF r
  <2>6. rest[k + 2] <= m
    BY <2>4, <2>5
  <2>7. QED
    BY <1>1, <2>6 DEF m
<1> HIDE DEF S
<1>7. 0 .. D - 1 \subseteq S
  BY <1>1, <1>5, <1>6, UpTo
<1>8. rest[D] <= max[1]
  <2>1. D - 1 \in S
    BY <1>1, <1>7
  <2>2. QED
    BY <1>1, <2>1 DEF S
<1>9. max[1] = Base * max[0] + Base - 1
  BY <1>1, <1>2
<1>10. max[1] = Base - 1
  BY <1>1, <1>2, <1>9
<1>11. rest[D] \in Nat
  BY <1>1, <1>4
<1>12. QED
  BY <1>1, <1>3, <1>8, <1>10, <1>11 DEF rest, D

\* What the bytes from each place on stand for.
ValueFrom(bytes, first, value) ==
    value = [i \in first .. Len(bytes) + 1 |->
                IF i > Len(bytes) THEN 0 ELSE bytes[i] + Base * value[i + 1]]

\* The recursion behind FromLittleEndian has a solution.
LEMMA ValueIsDefined ==
    ASSUME NEW bytes, Len(bytes) \in Nat
    PROVE  \E value : ValueFrom(bytes, 1, value) /\ FromLittleEndian(bytes) = value[1]
<1> DEFINE S == {k \in 0 .. Len(bytes) : \E value : ValueFrom(bytes, Len(bytes) + 1 - k, value)}
<1>1. 0 \in S
  <2>1. ValueFrom(bytes, Len(bytes) + 1, [i \in Len(bytes) + 1 .. Len(bytes) + 1 |-> 0])
    BY DEF ValueFrom
  <2>2. QED
    BY <2>1
<1>2. ASSUME NEW k \in 0 .. Len(bytes) - 1, k \in S
      PROVE  k + 1 \in S
  <2> DEFINE first == Len(bytes) + 1 - k
  <2>1. PICK value : ValueFrom(bytes, first, value)
    BY <1>2
  <2> DEFINE longer == [i \in first - 1 .. Len(bytes) + 1 |->
                           IF i >= first THEN value[i]
                           ELSE bytes[first - 1] + Base * value[first]]
  <2>2. \A i \in first .. Len(bytes) + 1 :
           value[i] = IF i > Len(bytes) THEN 0 ELSE bytes[i] + Base * value[i + 1]
    BY <2>1 DEF ValueFrom
  <2>3. \A i \in first - 1 .. Len(bytes) + 1 :
           longer[i] = IF i > Len(bytes) THEN 0 ELSE bytes[i] + Base * longer[i + 1]
    BY <2>2
  <2>4. longer = [i \in first - 1 .. Len(bytes) + 1 |-> longer[i]]
    OBVIOUS
  <2>5. first - 1 = Len(bytes) + 1 - (k + 1)
    OBVIOUS
  <2> HIDE DEF longer, first
  <2>6. ValueFrom(bytes, first - 1, longer)
    BY <2>3, <2>4 DEF ValueFrom
  <2>7. QED
    BY <2>5, <2>6
<1> HIDE DEF S
<1>3. Len(bytes) \in S
  BY <1>1, <1>2, UpTo, 0 .. Len(bytes) \subseteq S
<1>4. \E value : ValueFrom(bytes, 1, value)
  BY <1>3 DEF S
<1>5. ValueFrom(bytes, 1, CHOOSE value : ValueFrom(bytes, 1, value))
  BY <1>4
<1>6. FromLittleEndian(bytes) = (CHOOSE value : ValueFrom(bytes, 1, value))[1]
  BY DEF FromLittleEndian, ValueFrom
<1>7. QED
  BY <1>5, <1>6

\* A length survives its delimiter (to_le_bytes, from_le_bytes), up to the longest.
LEMMA LengthSurvives ==
    ASSUME NEW n \in 0 .. MaxLength
    PROVE  FromLittleEndian(ToLittleEndian(n)) = n
<1> DEFINE bytes == ToLittleEndian(n)
           rest  == Rest(n)
           D     == DelimiterLength
<1>1. D \in Nat /\ D >= 1 /\ Base \in Nat /\ Base >= 2
  BY StreamAssumption
<1>2. n \in Nat /\ rest[D] < Base
  BY RestFits
<1>3. /\ \A i \in 1 .. D : rest[i] \in Nat
      /\ rest[1] = n
      /\ \A i \in 2 .. D : rest[i] = rest[i - 1] \div Base
  BY <1>2, RestValues
<1>4. Len(bytes) = D /\ \A i \in 1 .. D : bytes[i] = rest[i] % Base
  BY <1>2, DelimiterBytes
<1> HIDE DEF bytes, rest, D
<1>5. PICK of : ValueFrom(bytes, 1, of) /\ FromLittleEndian(bytes) = of[1]
  BY <1>1, <1>4, ValueIsDefined
<1>6. \A i \in 1 .. D + 1 : of[i] = IF i > D THEN 0 ELSE bytes[i] + Base * of[i + 1]
  BY <1>4, <1>5 DEF ValueFrom
<1> DEFINE S == {k \in 0 .. D - 1 : of[D - k] = rest[D - k]}
<1>7. 0 \in S
  <2>1. of[D + 1] = 0
    BY <1>1, <1>6
  <2>2. of[D] = bytes[D] + Base * of[D + 1]
    BY <1>1, <1>6
  <2>3. bytes[D] = rest[D]
    <3>1. rest[D] \in Nat /\ bytes[D] = rest[D] % Base
      BY <1>1, <1>3, <1>4
    <3>2. \A x \in 0 .. Base - 1 : x % Base = x
      <4> TAKE x \in 0 .. Base - 1
      <4>1. x \div Base <= 0
        BY <1>1, DivBelow, x <= Base * 0 + Base - 1
      <4> DEFINE q == x \div Base
                 r == x % Base
      <4>2. q \in Nat /\ r \in 0 .. Base - 1 /\ x = r + Base * q
        <5>1. Base \in Nat \ {0} /\ x \in Nat
          BY <1>1
        <5>2. QED
          BY <5>1, Digits, Zenon
      <4> HIDE DEF q, r
      <4>3. q = 0
        BY <4>1, <4>2 DEF q
      <4>4. x = r
        BY <1>1, <4>2, <4>3
      <4>5. QED
        BY <4>4 DEF r
    <3>3. rest[D] \in 0 .. Base - 1
      BY <1>1, <1>2, <3>1
    <3>4. QED
      BY <3>1, <3>2, <3>3
  <2>4. QED
    BY <1>1, <1>3, <2>1, <2>2, <2>3
<1>8. ASSUME NEW k \in 0 .. (D - 1) - 1, k \in S
      PROVE  k + 1 \in S
  <2> DEFINE i == D - k - 1
  <2>1. i \in 1 .. D - 1 /\ i + 1 = D - k /\ i = D - (k + 1)
    BY <1>1
  <2>2. of[i + 1] = rest[i + 1]
    BY <1>8, <2>1
  <2> HIDE DEF i
  <2>3. of[i] = bytes[i] + Base * of[i + 1]
    BY <1>1, <1>6, <2>1
  <2>4. rest[i + 1] = rest[i] \div Base /\ bytes[i] = rest[i] % Base /\ rest[i] \in Nat
    BY <1>1, <1>3, <1>4, <2>1
  <2>5. \A m \in Nat : m = (m % Base) + Base * (m \div Base)
    BY <1>1, Digits
  <2>6. rest[i] = (rest[i] % Base) + Base * (rest[i] \div Base)
    BY <2>4, <2>5
  <2>7. of[i] = rest[i]
    BY <2>2, <2>3, <2>4, <2>6
  <2>8. QED
    BY <1>1, <2>1, <2>7
<1> HIDE DEF S
<1>9. 0 .. D - 1 \subseteq S
  BY <1>1, <1>7, <1>8, UpTo
<1>10. of[1] = rest[1]
  <2>1. D - 1 \in S
    BY <1>1, <1>9
  <2>2. QED
    BY <1>1, <2>1 DEF S
<1>11. QED
  BY <1>3, <1>5, <1>10 DEF bytes

-----------------------------------------------------------------------------
(* Concatenated sequences                                                  *)

\* Concatenation is associative, ...
Grouped(s, t, u) == (s \o t) \o u = s \o (t \o u)

LEMMA AllGrouped == \A S : \A s, t, u \in Seq(S) : Grouped(s, t, u)
  BY ConcatAssociative DEF Grouped

\* The first of them joined, each the one before and the next sequence.
JoinedTo(seqs, n, joined) ==
    joined = [i \in 1 .. n |-> IF i = 1 THEN seqs[i] ELSE joined[i - 1] \o seqs[i]]

\* The recursion behind FlattenSeq has a solution, of sequences.
JoinedBy(seqs, joined) ==
    /\ FlattenSeq(seqs) = joined[Len(seqs)]
    /\ joined[1] = seqs[1]
    /\ \A i \in 1 .. Len(seqs) - 1 : joined[i + 1] = joined[i] \o seqs[i + 1]

LEMMA JoinedValues ==
    ASSUME NEW S, NEW seqs \in Seq(Seq(S)), seqs # <<>>
    PROVE  \E joined : JoinedBy(seqs, joined) /\ \A i \in 1 .. Len(seqs) : joined[i] \in Seq(S)
<1> DEFINE L == Len(seqs)
<1>1. L \in Nat /\ L >= 1
  BY EmptySeq
<1>2. \A i \in 1 .. L : seqs[i] \in Seq(S)
  BY ElementOfSeq
<1> HIDE DEF L
<1> DEFINE D == {k \in 0 .. L : \E joined : JoinedTo(seqs, k, joined)}
<1>3. 0 \in D
  <2>1. JoinedTo(seqs, 0, [i \in 1 .. 0 |-> 0])
    BY DEF JoinedTo
  <2>2. QED
    BY <1>1, <2>1
<1>4. ASSUME NEW k \in 0 .. L - 1, k \in D
      PROVE  k + 1 \in D
  <2>1. PICK joined : JoinedTo(seqs, k, joined)
    BY <1>4
  <2> DEFINE more == IF k = 0 THEN seqs[1] ELSE joined[k] \o seqs[k + 1]
             longer == [i \in 1 .. k + 1 |-> IF i <= k THEN joined[i] ELSE more]
  <2>2. \A i \in 1 .. k : joined[i] = IF i = 1 THEN seqs[i] ELSE joined[i - 1] \o seqs[i]
    BY <2>1 DEF JoinedTo
  <2>3. \A i \in 1 .. k + 1 : longer[i] = IF i = 1 THEN seqs[i] ELSE longer[i - 1] \o seqs[i]
    BY <1>1, <2>2
  <2>4. JoinedTo(seqs, k + 1, longer)
    <3>1. longer = [i \in 1 .. k + 1 |-> longer[i]]
      OBVIOUS
    <3> HIDE DEF longer
    <3>2. QED
      BY <2>3, <3>1 DEF JoinedTo
  <2> HIDE DEF longer
  <2>5. QED
    BY <1>1, <2>4
<1> HIDE DEF D
<1>5. L \in D
  BY <1>1, <1>3, <1>4, UpTo, 0 .. L \subseteq D
<1>6. \E joined : JoinedTo(seqs, L, joined)
  BY <1>5 DEF D
<1> DEFINE joined == CHOOSE joined : JoinedTo(seqs, L, joined)
<1>7. JoinedTo(seqs, L, joined)
  BY <1>6
<1>8. FlattenSeq(seqs) = joined[L]
  BY <1>1 DEF FlattenSeq, JoinedTo, L
<1> HIDE DEF joined
<1>9. \A i \in 1 .. L : joined[i] = IF i = 1 THEN seqs[i] ELSE joined[i - 1] \o seqs[i]
  BY <1>7 DEF JoinedTo
<1>10. joined[1] = seqs[1]
  BY <1>1, <1>9
<1>11. ASSUME NEW i \in 1 .. L - 1
       PROVE  joined[i + 1] = joined[i] \o seqs[i + 1]
  <2>1. i + 1 \in 1 .. L /\ (i + 1 = 1) = FALSE /\ (i + 1) - 1 = i
    BY <1>1
  <2>2. joined[i + 1] = IF i + 1 = 1 THEN seqs[i + 1] ELSE joined[(i + 1) - 1] \o seqs[i + 1]
    BY <1>9, <2>1, Zenon
  <2>3. QED
    BY <2>1, <2>2, Zenon
<1> DEFINE N == {i \in 1 .. L : joined[i] \in Seq(S)}
<1>12. 1 \in N
  BY <1>1, <1>2, <1>10
<1>13. ASSUME NEW i \in 1 .. L - 1, i \in N
       PROVE  i + 1 \in N
  <2>1. joined[i] \in Seq(S) /\ i + 1 \in 1 .. L
    BY <1>1, <1>13
  <2>2. seqs[i + 1] \in Seq(S)
    BY <1>2, <2>1
  <2>3. joined[i] \o seqs[i + 1] \in Seq(S)
    BY <2>1, <2>2, ConcatProperties
  <2>4. joined[i + 1] \in Seq(S)
    BY <1>11, <2>3, Zenon
  <2>5. QED
    BY <2>1, <2>4
<1> HIDE DEF N
<1>14. 1 .. L \subseteq N
  BY <1>1, <1>12, <1>13, FromOne
<1>15. \A i \in 1 .. L : joined[i] \in Seq(S)
  BY <1>14 DEF N
<1>16. JoinedBy(seqs, joined)
  BY <1>8, <1>10, <1>11, Zenon DEF JoinedBy, L
<1>17. QED
  BY <1>15, <1>16, Zenon DEF L

\* What sequences are joined to is a sequence.
LEMMA JoinedType ==
    ASSUME NEW S, NEW seqs \in Seq(Seq(S))
    PROVE  FlattenSeq(seqs) \in Seq(S)
<1>1. CASE seqs = <<>>
  BY <1>1, EmptySeq DEF FlattenSeq
<1>2. CASE seqs # <<>>
  <2>1. Len(seqs) \in 1 .. Len(seqs)
    BY <1>2, EmptySeq
  <2>2. PICK f : JoinedBy(seqs, f) /\ \A i \in 1 .. Len(seqs) : f[i] \in Seq(S)
    BY <1>2, JoinedValues, Zenon
  <2>3. FlattenSeq(seqs) = f[Len(seqs)]
    BY <2>2, Zenon DEF JoinedBy
  <2>4. QED
    BY <2>1, <2>2, <2>3, Zenon
<1>3. QED
  BY <1>1, <1>2

\* One more sequence is joined last.
LEMMA JoinedLast ==
    ASSUME NEW S, NEW seqs \in Seq(Seq(S)), NEW s \in Seq(S)
    PROVE  FlattenSeq(Append(seqs, s)) = FlattenSeq(seqs) \o s
<1> DEFINE L == Len(seqs)
           all == Append(seqs, s)
<1>1. L \in Nat
  BY LenProperties
<1>2. /\ all \in Seq(Seq(S)) /\ all # <<>> /\ Len(all) = L + 1
      /\ \A i \in 1 .. L : all[i] = seqs[i]
      /\ all[L + 1] = s
  BY AppendProperties
<1> HIDE DEF all
<1>3. PICK g : JoinedBy(all, g)
  BY <1>2, JoinedValues, Zenon
<1>4. /\ FlattenSeq(all) = g[L + 1]
      /\ g[1] = all[1]
  BY <1>2, <1>3, Zenon DEF JoinedBy
<1>5. \A i \in 1 .. L : g[i + 1] = g[i] \o all[i + 1]
  <2>1. Len(all) - 1 = L
    BY <1>1, <1>2
  <2>2. QED
    BY <1>3, <2>1, Zenon DEF JoinedBy
<1> HIDE DEF L
<1>6. CASE seqs = <<>>
  <2>1. L = 0 /\ FlattenSeq(seqs) = <<>>
    BY <1>6, EmptySeq DEF FlattenSeq, L
  <2>2. FlattenSeq(all) = s
    BY <1>2, <1>4, <2>1
  <2>3. QED
    BY <2>1, <2>2, ConcatEmptySeq DEF all
<1>7. CASE seqs # <<>>
  <2>1. L >= 1
    BY <1>7, EmptySeq DEF L
  <2>2. PICK f : JoinedBy(seqs, f)
    BY <1>7, JoinedValues, Zenon
  <2>3. /\ FlattenSeq(seqs) = f[L]
        /\ f[1] = seqs[1]
        /\ \A i \in 1 .. L - 1 : f[i + 1] = f[i] \o seqs[i + 1]
    BY <2>2, Zenon DEF JoinedBy, L
  <2> DEFINE N == {i \in 1 .. L : g[i] = f[i]}
  <2>4. 1 \in N
    BY <1>1, <1>2, <1>4, <2>1, <2>3
  <2>5. ASSUME NEW i \in 1 .. L - 1, i \in N
        PROVE  i + 1 \in N
    <3>1. g[i] = f[i] /\ i + 1 \in 1 .. L /\ i \in 1 .. L
      BY <1>1, <2>5
    <3>2. g[i + 1] = g[i] \o all[i + 1] /\ all[i + 1] = seqs[i + 1]
      BY <1>2, <1>5, <3>1, Zenon
    <3>3. f[i + 1] = f[i] \o seqs[i + 1]
      BY <2>3, Zenon
    <3>4. g[i + 1] = f[i + 1]
      BY <3>1, <3>2, <3>3, Zenon
    <3>5. QED
      BY <3>1, <3>4
  <2> HIDE DEF N
  <2>6. 1 .. L \subseteq N
    BY <1>1, <2>4, <2>5, FromOne
  <2>7. L \in 1 .. L
    BY <1>1, <2>1
  <2>8. g[L] = f[L]
    BY <2>6, <2>7 DEF N
  <2>9. g[L + 1] = g[L] \o s
    BY <1>2, <1>5, <2>7, Zenon
  <2>10. QED
    BY <1>4, <2>3, <2>8, <2>9, Zenon DEF all
<1>8. QED
  BY <1>6, <1>7

\* The first sequence is the first of what they are joined to.
LEMMA JoinedFirst ==
    ASSUME NEW S, NEW seqs \in Seq(Seq(S)), seqs # <<>>
    PROVE  FlattenSeq(seqs) = seqs[1] \o FlattenSeq(Tail(seqs))
<1> DEFINE L == Len(seqs)
           rest == Tail(seqs)
<1>1. L \in Nat /\ L >= 1
  BY EmptySeq
<1>2. /\ rest \in Seq(Seq(S)) /\ Len(rest) = L - 1
      /\ \A i \in 1 .. L - 1 : rest[i] = seqs[i + 1]
  BY HeadTailProperties
<1>3. \A i \in 1 .. L : seqs[i] \in Seq(S)
  BY ElementOfSeq
<1>4. seqs[1] \in Seq(S)
  BY <1>1, <1>3
<1>5. PICK f : JoinedBy(seqs, f)
  BY JoinedValues, Zenon
<1>6. /\ FlattenSeq(seqs) = f[L]
      /\ f[1] = seqs[1]
      /\ \A i \in 1 .. L - 1 : f[i + 1] = f[i] \o seqs[i + 1]
  BY <1>5, Zenon DEF JoinedBy
<1> HIDE DEF rest, L
<1>7. CASE rest = <<>>
  <2>1. Len(rest) = 0 /\ FlattenSeq(rest) = <<>>
    BY <1>7, EmptySeq DEF FlattenSeq
  <2>2. FlattenSeq(seqs) = seqs[1]
    BY <1>1, <1>2, <1>6, <2>1
  <2>3. QED
    BY <1>4, <2>1, <2>2, ConcatEmptySeq DEF rest
<1>8. CASE rest # <<>>
  <2>1. L - 1 \in Nat /\ L - 1 >= 1
    BY <1>2, <1>8, EmptySeq
  <2>2. PICK g : JoinedBy(rest, g) /\ \A i \in 1 .. Len(rest) : g[i] \in Seq(S)
    BY <1>2, <1>8, JoinedValues, Zenon
  <2>3. /\ FlattenSeq(rest) = g[L - 1]
        /\ g[1] = rest[1]
        /\ \A i \in 1 .. (L - 1) - 1 : g[i + 1] = g[i] \o rest[i + 1]
        /\ \A i \in 1 .. L - 1 : g[i] \in Seq(S)
    BY <1>2, <2>2, Zenon DEF JoinedBy
  <2> DEFINE N == {i \in 1 .. L - 1 : f[i + 1] = seqs[1] \o g[i]}
  <2>4. 1 \in N
    <3>1. 1 \in 1 .. L - 1
      BY <2>1
    <3>2. f[1 + 1] = f[1] \o seqs[1 + 1] /\ rest[1] = seqs[1 + 1]
      BY <1>2, <1>6, <3>1, Zenon
    <3>3. f[1 + 1] = seqs[1] \o g[1]
      BY <1>6, <2>3, <3>2, Zenon
    <3>4. QED
      BY <3>1, <3>3, Zenon
  <2>5. ASSUME NEW i \in 1 .. (L - 1) - 1, i \in N
        PROVE  i + 1 \in N
    <3>1. i \in 1 .. L - 1 /\ i + 1 \in 1 .. L - 1 /\ (i + 1) + 1 \in 1 .. L
      BY <1>1
    <3>2. f[i + 1] = seqs[1] \o g[i]
      BY <2>5, Zenon
    <3>3. f[(i + 1) + 1] = f[i + 1] \o seqs[(i + 1) + 1]
      BY <1>6, <3>1, Zenon
    <3>4. g[i + 1] = g[i] \o rest[i + 1] /\ rest[i + 1] = seqs[(i + 1) + 1]
      BY <1>2, <2>3, <3>1, Zenon
    <3>5. g[i] \in Seq(S) /\ seqs[(i + 1) + 1] \in Seq(S)
      BY <1>3, <2>3, <3>1, Zenon
    <3>6. Grouped(seqs[1], g[i], seqs[(i + 1) + 1])
      BY <1>4, <3>5, AllGrouped, Zenon
    <3>7. f[(i + 1) + 1] = seqs[1] \o g[i + 1]
      BY <3>2, <3>3, <3>4, <3>6, Zenon DEF Grouped
    <3>8. QED
      BY <3>1, <3>7, Zenon
  <2> HIDE DEF N
  <2>6. 1 .. L - 1 \subseteq N
    BY <2>1, <2>4, <2>5, FromOne
  <2>7. L - 1 \in 1 .. L - 1 /\ (L - 1) + 1 = L
    BY <1>1, <2>1
  <2>8. f[(L - 1) + 1] = seqs[1] \o g[L - 1]
    BY <2>6, <2>7, Zenon DEF N
  <2>9. QED
    BY <1>6, <2>3, <2>7, <2>8, Zenon DEF rest
<1>9. QED
  BY <1>7, <1>8

\* ... and can be cancelled.
Cancels(s, t, v) == s \o t = s \o v => t = v

LEMMA AllCancel == \A S : \A s, t, v \in Seq(S) : Cancels(s, t, v)
  BY ConcatSimplifications DEF Cancels

\* What begins with a piece and is cut behind it: the piece is taken, the rest is left.
CutAt(S, a, b, c, e) ==
    a \o b = c \o e /\ Len(a) <= Len(c)
        => /\ First(c, Len(a)) = a
           /\ Drain(c, Len(a)) \in Seq(S)
           /\ Drain(c, Len(a)) \o e = b

LEMMA Cut == \A S : \A a, b, c, e \in Seq(S) : CutAt(S, a, b, c, e)
<1> SUFFICES ASSUME NEW S, NEW a \in Seq(S), NEW b \in Seq(S), NEW c \in Seq(S), NEW e \in Seq(S)
             PROVE  CutAt(S, a, b, c, e)
  BY Zenon
<1> SUFFICES ASSUME a \o b = c \o e, Len(a) <= Len(c)
             PROVE  /\ First(c, Len(a)) = a
                    /\ Drain(c, Len(a)) \in Seq(S)
                    /\ Drain(c, Len(a)) \o e = b
  BY Zenon DEF CutAt
<1> DEFINE n == Len(a)
           f == First(c, n)
           d == Drain(c, n)
           ab == a \o b
<1>1. n \in Nat /\ Len(b) \in Nat /\ Len(c) \in Nat /\ Len(e) \in Nat /\ n <= Len(c)
  BY LenProperties
<1>2. \A i \in 1 .. Len(c) : c[i] \in S
  BY ElementOfSeq
<1>3. f \in Seq(S) /\ Len(f) = n /\ \A i \in 1 .. n : f[i] = c[i]
  <2>1. \A i \in 1 .. n : c[i] \in S
    BY <1>1, <1>2
  <2>2. /\ f \in Seq(S) /\ Len(f) = IF 1 <= n THEN n - 1 + 1 ELSE 0
        /\ \A i \in 1 .. n - 1 + 1 : f[i] = c[1 + i - 1]
    BY <1>1, <2>1, SubSeqProperties DEF First
  <2> HIDE DEF f, n
  <2>3. \A i \in 1 .. n : 1 + i - 1 = i /\ i \in 1 .. n - 1 + 1
    BY <1>1
  <2>4. \A i \in 1 .. n : f[i] = c[i]
    BY <2>2, <2>3
  <2>5. Len(f) = n
    BY <1>1, <2>2
  <2>6. QED
    BY <2>2, <2>4, <2>5
<1>4. d \in Seq(S)
  <2>1. \A i \in n + 1 .. Len(c) : c[i] \in S
    BY <1>1, <1>2
  <2>2. n + 1 \in Int /\ Len(c) \in Int
    BY <1>1
  <2>3. QED
    BY <2>1, <2>2, SubSeqProperties DEF Drain
<1>5. f \o d = c
  <2>1. 1 \in 1 .. Len(c) + 1 /\ n \in 1 - 1 .. Len(c) /\ Len(c) \in n .. Len(c)
    BY <1>1
  <2>2. SubSeq(c, 1, n) \o SubSeq(c, n + 1, Len(c)) = SubSeq(c, 1, Len(c))
    BY <2>1, ConcatAdjacentSubSeq
  <2>3. SubSeq(c, 1, Len(c)) = c
    BY SubSeqFull
  <2>4. QED
    BY <2>2, <2>3 DEF First, Drain
<1>6. /\ ab \in Seq(S) /\ \A i \in 1 .. n + Len(b) : ab[i] = IF i <= n THEN a[i] ELSE b[i - n]
  BY ConcatProperties
<1>7. \A i \in 1 .. Len(c) + Len(e) : ab[i] = IF i <= Len(c) THEN c[i] ELSE e[i - Len(c)]
  BY ConcatProperties
<1> HIDE DEF n, f, d, ab
<1>8. f = a
  <2>1. ASSUME NEW i \in 1 .. n
        PROVE  f[i] = a[i]
    <3>1. i \in 1 .. n + Len(b) /\ i \in 1 .. Len(c) + Len(e) /\ i <= n /\ i <= Len(c)
      BY <1>1
    <3>2. ab[i] = a[i] /\ ab[i] = c[i] /\ f[i] = c[i]
      BY <1>3, <1>6, <1>7, <3>1
    <3>3. QED
      BY <3>2
  <2>2. Len(f) = Len(a)
    BY <1>3 DEF n
  <2>3. QED
    BY <1>3, <2>1, <2>2, SeqEqual
<1>9. f \o (d \o e) = a \o b
  <2>1. Grouped(f, d, e)
    BY <1>3, <1>4, AllGrouped, Zenon
  <2>2. QED
    BY <1>5, <2>1, Zenon DEF Grouped
<1>10. d \o e \in Seq(S)
  BY <1>4, ConcatProperties
<1>11. d \o e = b
  <2>1. Cancels(a, d \o e, b)
    BY <1>10, AllCancel, Zenon
  <2>2. QED
    BY <1>8, <1>9, <2>1, Zenon DEF Cancels
<1>12. QED
  BY <1>4, <1>8, <1>11 DEF n, f, d

\* Cutting a sequence in two keeps it.
LEMMA CutKeeps ==
    ASSUME NEW S, NEW s \in Seq(S), NEW n \in 0 .. Len(s)
    PROVE  /\ First(s, n) \in Seq(S)
           /\ Drain(s, n) \in Seq(S)
           /\ First(s, n) \o Drain(s, n) = s
<1>1. Len(s) \in Nat /\ n \in Nat /\ n <= Len(s)
  BY LenProperties
<1>2. \A i \in 1 .. Len(s) : s[i] \in S
  BY ElementOfSeq
<1>3. First(s, n) \in Seq(S)
  <2>1. \A i \in 1 .. n : s[i] \in S
    BY <1>1, <1>2
  <2>2. QED
    BY <1>1, <2>1, SubSeqProperties DEF First
<1>4. Drain(s, n) \in Seq(S)
  <2>1. (\A i \in n + 1 .. Len(s) : s[i] \in S) /\ n + 1 \in Int /\ Len(s) \in Int
    BY <1>1, <1>2
  <2>2. QED
    BY <2>1, SubSeqProperties DEF Drain
<1>5. First(s, n) \o Drain(s, n) = s
  <2>1. 1 \in 1 .. Len(s) + 1 /\ n \in 1 - 1 .. Len(s) /\ Len(s) \in n .. Len(s)
    BY <1>1
  <2>2. SubSeq(s, 1, n) \o SubSeq(s, n + 1, Len(s)) = SubSeq(s, 1, Len(s))
    BY <2>1, ConcatAdjacentSubSeq
  <2>3. QED
    BY <2>2, SubSeqFull DEF First, Drain
<1>6. QED
  BY <1>3, <1>4, <1>5

\* A prefix by its places.
LEMMA PrefixPlaces ==
    ASSUME NEW S, NEW r \in Seq(S), NEW s \in Seq(S)
    PROVE  IsPrefix(r, s) <=> Len(r) <= Len(s) /\ \A i \in 1 .. Len(r) : r[i] = s[i]
<1> DEFINE k == Len(r)
           f == SubSeq(s, 1, k)
<1>1. k \in Nat /\ Len(s) \in Nat /\ SubSeq(r, 1, k) = r
  BY LenProperties, SubSeqFull
<1>2. CASE k <= Len(s)
  <2>1. \A i \in 1 .. k : s[i] \in S
    BY <1>1, <1>2, ElementOfSeq
  <2>2. /\ f \in Seq(S) /\ Len(f) = IF 1 <= k THEN k - 1 + 1 ELSE 0
        /\ \A i \in 1 .. k - 1 + 1 : f[i] = s[1 + i - 1]
    BY <1>1, <2>1, SubSeqProperties
  <2> HIDE DEF f
  <2>3. Len(f) = k
    BY <1>1, <2>2
  <2>4. \A i \in 1 .. k : f[i] = s[i]
    <3>1. \A i \in 1 .. k : 1 + i - 1 = i /\ i \in 1 .. k - 1 + 1
      BY <1>1
    <3>2. QED
      BY <2>2, <3>1
  <2>5. f = r <=> \A i \in 1 .. k : f[i] = r[i]
    BY <2>2, <2>3, SeqEqual
  <2>6. IsPrefix(r, s) <=> f = r
    BY <1>1, <1>2 DEF IsPrefix, f
  <2> HIDE DEF k
  <2>7. (\A i \in 1 .. k : f[i] = r[i]) <=> (\A i \in 1 .. k : r[i] = s[i])
    BY <2>4
  <2>8. QED
    BY <1>2, <2>5, <2>6, <2>7 DEF k
<1>3. CASE ~(k <= Len(s))
  BY <1>3 DEF IsPrefix
<1>4. QED
  BY <1>2, <1>3

\* The end of a longer sequence.
LEMMA EndOfLonger ==
    ASSUME NEW S, NEW s \in Seq(S), NEW e \in S, NEW m \in 1 .. Len(s) + 1
    PROVE  SubSeq(Append(s, e), m, Len(s) + 1) = Append(SubSeq(s, m, Len(s)), e)
<1> DEFINE n == Len(s)
           long == Append(s, e)
           end == SubSeq(s, m, n)
           longEnd == SubSeq(long, m, n + 1)
           appended == Append(end, e)
<1>1. n \in Nat /\ m \in Int /\ m >= 1 /\ m <= n + 1
  BY LenProperties
<1>2. /\ long \in Seq(S) /\ Len(long) = n + 1
      /\ \A i \in 1 .. n : long[i] = s[i]
      /\ long[n + 1] = e
  BY AppendProperties
<1> HIDE DEF long
<1>3. /\ end \in Seq(S) /\ Len(end) = IF m <= n THEN n - m + 1 ELSE 0
      /\ \A i \in 1 .. n - m + 1 : end[i] = s[m + i - 1]
  <2>1. \A i \in m .. n : s[i] \in S
    BY <1>1, ElementOfSeq
  <2>2. n \in Int
    BY <1>1
  <2>3. QED
    BY <1>1, <2>1, <2>2, SubSeqProperties
<1>4. /\ longEnd \in Seq(S) /\ Len(longEnd) = IF m <= n + 1 THEN n + 1 - m + 1 ELSE 0
      /\ \A i \in 1 .. n + 1 - m + 1 : longEnd[i] = long[m + i - 1]
  <2>1. \A i \in m .. n + 1 : long[i] \in S
    BY <1>1, <1>2, ElementOfSeq
  <2>2. n + 1 \in Int
    BY <1>1
  <2>3. QED
    BY <1>1, <2>1, <2>2, SubSeqProperties
<1>5. /\ appended \in Seq(S) /\ Len(appended) = Len(end) + 1
      /\ \A i \in 1 .. Len(end) : appended[i] = end[i]
      /\ appended[Len(end) + 1] = e
  BY <1>3, AppendProperties
<1> HIDE DEF n, end, longEnd, appended
<1> DEFINE l == n - m + 1
<1>6. l \in Nat /\ Len(end) = l /\ Len(longEnd) = l + 1 /\ Len(appended) = l + 1
  BY <1>1, <1>3, <1>4, <1>5
<1>7. ASSUME NEW i \in 1 .. l + 1
      PROVE  longEnd[i] = appended[i]
  <2>1. i \in 1 .. n + 1 - m + 1 /\ m + i - 1 \in 1 .. n + 1
    BY <1>1
  <2>2. longEnd[i] = long[m + i - 1]
    BY <1>4, <2>1
  <2>3. CASE i <= l
    <3>1. i \in 1 .. n - m + 1 /\ m + i - 1 \in 1 .. n /\ i \in 1 .. Len(end)
      BY <1>1, <1>6, <2>3
    <3>2. long[m + i - 1] = s[m + i - 1] /\ end[i] = s[m + i - 1] /\ appended[i] = end[i]
      BY <1>2, <1>3, <1>5, <3>1
    <3>3. QED
      BY <2>2, <3>2
  <2>4. CASE i = l + 1
    <3>1. m + i - 1 = n + 1 /\ i = Len(end) + 1
      BY <1>1, <1>6, <2>4
    <3>2. QED
      BY <1>2, <1>5, <2>2, <3>1
  <2>5. QED
    BY <1>6, <2>3, <2>4
<1>8. longEnd = appended
  BY <1>4, <1>5, <1>6, <1>7, SeqEqual
<1>9. QED
  BY <1>8 DEF longEnd, appended, end, long, n

-----------------------------------------------------------------------------
(* Frames                                                                  *)

\* A frame is bytes, of a length its delimiter can hold.
LEMMA FrameType ==
    /\ MaxLength \in Nat
           /\ DelimiterLength \in Nat /\ DelimiterLength >= 1
           /\ \A f \in AllFrames : f \in Seq(Byte) /\ Len(f) \in 0 .. MaxLength
<1>1. DelimiterLength \in Nat /\ DelimiterLength >= 1
  BY StreamAssumption
<1>2. MaxLength \in Nat
  BY <1>1, GreatestIsDefined
<1>3. ASSUME NEW f \in AllFrames
      PROVE  f \in Seq(Byte) /\ Len(f) \in 0 .. MaxLength
  <2>1. PICK n \in 0 .. MaxLength : f \in [1 .. n -> Byte]
    BY DEF AllFrames
  <2>2. n \in Nat
    BY <1>2
  <2> HIDE DEF Byte
  <2>3. f \in Seq(Byte) /\ Len(f) = n
    BY <2>1, <2>2
  <2>4. QED
    BY <2>3
<1>4. QED
  BY <1>1, <1>2, <1>3

\* The bytes of a frame (encode_frame).
LEMMA FrameBytes ==
    ASSUME NEW f \in AllFrames
    PROVE  /\ f \in Seq(Byte) /\ Len(f) \in 0 .. MaxLength
           /\ ToLittleEndian(Len(f)) \in Seq(Byte)
           /\ Len(ToLittleEndian(Len(f))) = DelimiterLength
           /\ FromLittleEndian(ToLittleEndian(Len(f))) = Len(f)
           /\ EncodeFrame(f) = ToLittleEndian(Len(f)) \o f
           /\ EncodeFrame(f) \in Seq(Byte)
           /\ Len(EncodeFrame(f)) = DelimiterLength + Len(f)
<1>1. f \in Seq(Byte) /\ Len(f) \in 0 .. MaxLength /\ Len(f) \in Nat
  BY FrameType, LenProperties
<1>2. ToLittleEndian(Len(f)) \in Seq(Byte)
      /\ Len(ToLittleEndian(Len(f))) = DelimiterLength
  BY <1>1, DelimiterBytes
<1>3. FromLittleEndian(ToLittleEndian(Len(f))) = Len(f)
  BY <1>1, LengthSurvives
<1>4. QED
  BY <1>1, <1>2, <1>3, ConcatProperties DEF EncodeFrame

\* The bytes of each frame.
BytesOf(frames) == [i \in 1 .. Len(frames) |-> EncodeFrame(frames[i])]

\* They are bytes, and flattened they are what is written.
LEMMA BytesOfType ==
    ASSUME NEW frames \in Seq(AllFrames)
    PROVE  /\ BytesOf(frames) \in Seq(Seq(Byte))
           /\ Len(BytesOf(frames)) = Len(frames)
           /\ Encoded(frames) = FlattenSeq(BytesOf(frames))
           /\ Encoded(frames) \in Seq(Byte)
<1>1. Len(frames) \in Nat
  BY LenProperties
<1>2. \A i \in 1 .. Len(frames) : EncodeFrame(frames[i]) \in Seq(Byte)
  BY ElementOfSeq, FrameBytes
<1>3. BytesOf(frames) \in Seq(Seq(Byte)) /\ Len(BytesOf(frames)) = Len(frames)
  BY <1>1, <1>2 DEF BytesOf
<1>4. Encoded(frames) = FlattenSeq(BytesOf(frames))
  BY DEF Encoded, BytesOf
<1>5. QED
  BY <1>3, <1>4, JoinedType

\* No frames, no bytes.
LEMMA NoBytes == Encoded(<<>>) = <<>>
<1>1. BytesOf(<<>>) = <<>>
  BY DEF BytesOf
<1>2. Encoded(<<>>) = FlattenSeq(BytesOf(<<>>))
  BY DEF Encoded, BytesOf
<1>3. QED
  BY <1>1, <1>2 DEF FlattenSeq

\* Another frame is written behind the others.
LEMMA BytesAppended ==
    ASSUME NEW frames \in Seq(AllFrames), NEW f \in AllFrames
    PROVE  Encoded(Append(frames, f)) = Encoded(frames) \o EncodeFrame(f)
<1> DEFINE long == Append(frames, f)
           bytes == BytesOf(frames)
           appended == Append(bytes, EncodeFrame(f))
           n == Len(frames)
<1>1. n \in Nat
  BY LenProperties
<1>2. /\ long \in Seq(AllFrames) /\ Len(long) = n + 1
      /\ \A i \in 1 .. n : long[i] = frames[i]
      /\ long[n + 1] = f
  BY AppendProperties
<1> HIDE DEF long
<1>3. bytes \in Seq(Seq(Byte)) /\ Len(bytes) = n /\ EncodeFrame(f) \in Seq(Byte)
  BY BytesOfType, FrameBytes
<1>4. \A i \in 1 .. n : bytes[i] = EncodeFrame(frames[i])
  BY DEF BytesOf
<1> HIDE DEF bytes, n
<1>5. /\ appended \in Seq(Seq(Byte)) /\ Len(appended) = n + 1
      /\ \A i \in 1 .. n : appended[i] = bytes[i]
      /\ appended[n + 1] = EncodeFrame(f)
  BY <1>3, AppendProperties
<1> HIDE DEF appended
<1>6. BytesOf(long) \in Seq(Seq(Byte)) /\ Len(BytesOf(long)) = n + 1
  BY <1>2, BytesOfType
<1>7. ASSUME NEW i \in 1 .. n + 1
      PROVE  BytesOf(long)[i] = appended[i]
  <2>1. BytesOf(long)[i] = EncodeFrame(long[i])
    BY <1>2 DEF BytesOf
  <2>2. CASE i \in 1 .. n
    BY <1>2, <1>4, <1>5, <2>1, <2>2, Zenon
  <2>3. CASE i = n + 1
    BY <1>2, <1>5, <2>1, <2>3, Zenon
  <2>4. QED
    BY <1>1, <2>2, <2>3
<1>8. BytesOf(long) = appended
  BY <1>5, <1>6, <1>7, SeqEqual
<1>9. FlattenSeq(appended) = FlattenSeq(bytes) \o EncodeFrame(f)
  BY <1>3, JoinedLast DEF appended
<1>10. Encoded(long) = FlattenSeq(BytesOf(long))
       /\ Encoded(frames) = FlattenSeq(bytes)
  BY <1>2, BytesOfType DEF bytes
<1>11. QED
  BY <1>8, <1>9, <1>10, Zenon DEF long

\* The first frame is read first.
LEMMA BytesOfFirst ==
    ASSUME NEW frames \in Seq(AllFrames), frames # <<>>
    PROVE  Encoded(frames) = EncodeFrame(frames[1]) \o Encoded(Tail(frames))
<1> DEFINE rest == Tail(frames)
           bytes == BytesOf(frames)
           n == Len(frames)
<1>1. n \in Nat /\ n >= 1
  BY EmptySeq
<1>2. /\ rest \in Seq(AllFrames) /\ Len(rest) = n - 1
      /\ \A i \in 1 .. n - 1 : rest[i] = frames[i + 1]
  BY HeadTailProperties
<1> HIDE DEF rest
<1>3. bytes \in Seq(Seq(Byte)) /\ Len(bytes) = n /\ Encoded(frames) = FlattenSeq(bytes)
  BY BytesOfType
<1>4. \A i \in 1 .. n : bytes[i] = EncodeFrame(frames[i])
  BY DEF BytesOf
<1>5. /\ BytesOf(rest) \in Seq(Seq(Byte)) /\ Len(BytesOf(rest)) = n - 1
      /\ Encoded(rest) = FlattenSeq(BytesOf(rest))
  BY <1>2, BytesOfType
<1> HIDE DEF bytes, n
<1>6. bytes # <<>>
  BY <1>1, <1>3, EmptySeq
<1> DEFINE tail == Tail(bytes)
<1>7. /\ tail \in Seq(Seq(Byte)) /\ Len(tail) = n - 1
      /\ \A i \in 1 .. n - 1 : tail[i] = bytes[i + 1]
  BY <1>3, <1>6, HeadTailProperties
<1>8. FlattenSeq(bytes) = bytes[1] \o FlattenSeq(tail)
  BY <1>3, <1>6, JoinedFirst
<1> HIDE DEF tail
<1>9. ASSUME NEW i \in 1 .. n - 1
      PROVE  BytesOf(rest)[i] = tail[i]
  <2>1. i + 1 \in 1 .. n
    BY <1>1
  <2>2. BytesOf(rest)[i] = EncodeFrame(rest[i])
    BY <1>2 DEF BytesOf
  <2>3. tail[i] = EncodeFrame(frames[i + 1])
    BY <1>4, <1>7, <2>1, Zenon
  <2>4. QED
    BY <1>2, <2>2, <2>3, Zenon
<1>10. BytesOf(rest) = tail
  BY <1>5, <1>7, <1>9, SeqEqual
<1>11. bytes[1] = EncodeFrame(frames[1])
  BY <1>1, <1>4
<1>12. QED
  BY <1>3, <1>5, <1>8, <1>10, <1>11, Zenon DEF rest

-----------------------------------------------------------------------------
(* The stream                                                              *)

\* A decoder that has read on from the frames received: what it took and holds and
\* what is on the wire are the bytes of the frames that are pending, and the length
\* of the frame it is in is that of the first of them.
Follows(d) ==
    /\ d \in Decoders
    /\ Encoded(Pending) = (Consumed(d) \o d.data) \o stream
    /\ d.state = "PartialFrame"
         => Len(received) < Len(written) /\ d.length = Len(written[Len(received) + 1])

StreamInv == StreamTypeOK /\ FramesInOrder /\ Follows(decoder)

\* What a decoder holds has the types of a decoder's parts.
LEMMA FrameDecoderParts ==
    ASSUME NEW d \in Decoders
    PROVE  /\ d.state \in {"PartialDelimiter", "PartialFrame"}
           /\ d.length \in 0 .. MaxLength /\ d.length \in Nat
           /\ d.data \in Seq(Byte) /\ Len(d.data) \in Nat
           /\ Consumed(d) \in Seq(Byte)
           /\ d.state = "PartialDelimiter" => Consumed(d) = <<>>
           /\ d.state = "PartialFrame" =>
                /\ Consumed(d) = ToLittleEndian(d.length)
                /\ Len(Consumed(d)) = DelimiterLength
<1>1. /\ d.state \in {"PartialDelimiter", "PartialFrame"}
      /\ d.length \in 0 .. MaxLength
      /\ d.data \in Seq(Byte)
  BY DEF Decoders
<1>2. d.length \in Nat /\ Len(d.data) \in Nat
  BY <1>1, FrameType, LenProperties
<1>3. ToLittleEndian(d.length) \in Seq(Byte)
      /\ Len(ToLittleEndian(d.length)) = DelimiterLength
  BY <1>2, DelimiterBytes
<1>4. <<>> \in Seq(Byte)
  BY EmptySeq
<1>5. QED
  BY <1>1, <1>2, <1>3, <1>4 DEF Consumed

\* The frames pending are the frame to be received next and those behind it.
LEMMA PendingFrames ==
    ASSUME StreamTypeOK, FramesInOrder
    PROVE  /\ Pending \in Seq(AllFrames)
           /\ Len(received) \in Nat /\ Len(written) \in Nat /\ Len(received) <= Len(written)
           /\ Len(received) = Len(written) => Pending = <<>>
           /\ Len(received) < Len(written) =>
                /\ written[Len(received) + 1] \in AllFrames
                /\ Pending # <<>>
                /\ Pending[1] = written[Len(received) + 1]
                /\ Tail(Pending) = SubSeq(written, Len(received) + 2, Len(written))
<1> DEFINE k == Len(received)
           n == Len(written)
<1>1. written \in Seq(AllFrames) /\ received \in Seq(AllFrames)
  BY DEF StreamTypeOK
<1>2. k \in Nat /\ n \in Nat /\ k <= n
  BY <1>1, LenProperties DEF FramesInOrder, IsPrefix
<1> HIDE DEF k, n
<1>3. Pending = SubSeq(written, k + 1, n)
  BY DEF Pending, k, n
<1>4. \A i \in 1 .. n : written[i] \in AllFrames
  BY <1>1, ElementOfSeq DEF n
<1>5. /\ Pending \in Seq(AllFrames)
      /\ Len(Pending) = IF k + 1 <= n THEN n - (k + 1) + 1 ELSE 0
      /\ \A i \in 1 .. n - (k + 1) + 1 : Pending[i] = written[(k + 1) + i - 1]
  <2>1. (\A i \in k + 1 .. n : written[i] \in AllFrames) /\ k + 1 \in Int /\ n \in Int
    BY <1>2, <1>4
  <2>2. QED
    BY <1>3, <2>1, SubSeqProperties
<1>6. ASSUME k = n
      PROVE  Pending = <<>>
  BY <1>2, <1>5, <1>6, EmptySeq
<1>7. ASSUME k < n
      PROVE  /\ written[k + 1] \in AllFrames
             /\ Pending # <<>>
             /\ Pending[1] = written[k + 1]
             /\ Tail(Pending) = SubSeq(written, k + 2, n)
  <2>1. k + 1 \in 1 .. n /\ n \in k + 1 .. n /\ k + 1 + 1 = k + 2 /\ (k + 1) + 1 - 1 = k + 1
    BY <1>2, <1>7
  <2>2. written[k + 1] \in AllFrames
    BY <1>4, <2>1
  <2>3. Len(Pending) >= 1
    BY <1>2, <1>5, <1>7
  <2>4. Pending # <<>>
    BY <2>3, EmptySeq
  <2>5. Pending[1] = written[k + 1]
    BY <1>2, <1>5, <1>7, <2>1
  <2>6. Tail(Pending) = SubSeq(written, k + 1 + 1, n)
    BY <1>1, <1>3, <2>1, HeadTailOfSubSeq DEF n
  <2>7. QED
    BY <2>1, <2>2, <2>4, <2>5, <2>6
<1>8. QED
  BY <1>2, <1>5, <1>6, <1>7 DEF k, n

\* The bytes pending begin with those of the next frame.
LEMMA NextBytes ==
    ASSUME StreamTypeOK, FramesInOrder, Len(received) < Len(written),
           NEW f, f = written[Len(received) + 1]
    PROVE  /\ f \in AllFrames
           /\ Encoded(Tail(Pending)) \in Seq(Byte)
           /\ Encoded(Pending)
                = ToLittleEndian(Len(f)) \o (f \o Encoded(Tail(Pending)))
<1>1. /\ Pending \in Seq(AllFrames) /\ Pending # <<>> /\ f \in AllFrames /\ Pending[1] = f
  BY PendingFrames
<1>2. Tail(Pending) \in Seq(AllFrames)
  BY <1>1, HeadTailProperties
<1>3. Encoded(Tail(Pending)) \in Seq(Byte)
  BY <1>2, BytesOfType
<1>4. Encoded(Pending) = EncodeFrame(f) \o Encoded(Tail(Pending))
  BY <1>1, BytesOfFirst
<1>5. /\ f \in Seq(Byte) /\ ToLittleEndian(Len(f)) \in Seq(Byte)
      /\ EncodeFrame(f) = ToLittleEndian(Len(f)) \o f
  BY <1>1, FrameBytes
<1>6. Grouped(ToLittleEndian(Len(f)), f, Encoded(Tail(Pending)))
  BY <1>3, <1>5, AllGrouped, Zenon
<1>7. QED
  BY <1>1, <1>3, <1>4, <1>5, <1>6, Zenon DEF Grouped

\* With all frames received there is nothing left of the stream.
LEMMA NothingPending ==
    ASSUME StreamTypeOK, FramesInOrder, NEW d, Follows(d),
           ~(Len(received) < Len(written))
    PROVE  d.state = "PartialDelimiter" /\ Len(d.data) = 0 /\ Len(stream) = 0
<1>1. Pending = <<>>
  BY PendingFrames
<1>2. (Consumed(d) \o d.data) \o stream = <<>> /\ d \in Decoders /\ d.state # "PartialFrame"
  BY <1>1, NoBytes DEF Follows
<1>3. d.state = "PartialDelimiter" /\ d.data \in Seq(Byte) /\ Consumed(d) \in Seq(Byte)
  BY <1>2, FrameDecoderParts
<1>4. stream \in Seq(Byte)
  BY DEF StreamTypeOK
<1> DEFINE held == Consumed(d) \o d.data
           all == held \o stream
<1>5. held \in Seq(Byte) /\ Len(held) = Len(Consumed(d)) + Len(d.data)
  BY <1>3, ConcatProperties
<1> HIDE DEF held
<1>6. Len(all) = Len(held) + Len(stream)
  BY <1>4, <1>5, ConcatProperties
<1>7. Len(all) = 0
  BY <1>2, EmptySeq DEF held
<1> HIDE DEF all
<1>8. Len(Consumed(d)) \in Nat /\ Len(d.data) \in Nat /\ Len(stream) \in Nat
  BY <1>3, <1>4, LenProperties
<1> DEFINE h == Len(held)
           l == Len(d.data)
           w == Len(stream)
<1>9. h = Len(Consumed(d)) + l /\ h + w = 0 /\ Len(Consumed(d)) \in Nat /\ l \in Nat
      /\ w \in Nat
  BY <1>5, <1>6, <1>7, <1>8
<1> HIDE DEF h, l, w
<1>10. l = 0 /\ w = 0
  BY <1>9
<1>11. QED
  BY <1>3, <1>10 DEF l, w

\* Taking the delimiter keeps the decoder's place (the first half of next_frame_and_then).
LEMMA TakeDelimiterFollows ==
    ASSUME StreamTypeOK, FramesInOrder, NEW d, Follows(d)
    PROVE  Follows(TakeDelimiter(d))
<1>1. CASE ~(d.state = "PartialDelimiter" /\ Len(d.data) >= DelimiterLength)
  <2>1. TakeDelimiter(d) = d
    BY <1>1 DEF TakeDelimiter
  <2>2. QED
    BY <2>1
<1>2. CASE d.state = "PartialDelimiter" /\ Len(d.data) >= DelimiterLength
  <2> DEFINE k == Len(received)
             f == written[k + 1]
             le == ToLittleEndian(Len(f))
             rest == f \o Encoded(Tail(Pending))
             left == Drain(d.data, DelimiterLength)
             taken == [state  |-> "PartialFrame",
                       length |-> FromLittleEndian(First(d.data, DelimiterLength)),
                       data   |-> left]
  <2>1. TakeDelimiter(d) = taken
    BY <1>2 DEF TakeDelimiter
  <2>2. /\ d \in Decoders /\ d.data \in Seq(Byte) /\ Consumed(d) = <<>>
        /\ Encoded(Pending) = (Consumed(d) \o d.data) \o stream
    BY <1>2, FrameDecoderParts DEF Follows
  <2>3. stream \in Seq(Byte)
    BY DEF StreamTypeOK
  <2>4. Encoded(Pending) = d.data \o stream
    BY <2>2, ConcatEmptySeq
  <2>5. k < Len(written)
    <3>1. DelimiterLength \in Nat /\ DelimiterLength >= 1
      BY FrameType
    <3>2. Len(d.data) # 0
      BY <1>2, <3>1
    <3>3. QED
      BY <3>2, NothingPending
  <2>6. /\ f \in AllFrames
        /\ Encoded(Tail(Pending)) \in Seq(Byte)
        /\ Encoded(Pending) = le \o rest
    BY <2>5, NextBytes
  <2>7. /\ f \in Seq(Byte) /\ Len(f) \in 0 .. MaxLength
        /\ le \in Seq(Byte) /\ Len(le) = DelimiterLength
        /\ FromLittleEndian(le) = Len(f)
    BY <2>6, FrameBytes
  <2>8. rest \in Seq(Byte)
    BY <2>6, <2>7, ConcatProperties
  <2> HIDE DEF rest, le, f, k
  <2>9. le \o rest = d.data \o stream /\ Len(le) <= Len(d.data)
    <3>1. DelimiterLength \in Nat /\ Len(d.data) \in Nat
      BY <2>2, FrameType, LenProperties
    <3>2. QED
      BY <1>2, <2>4, <2>6, <2>7, <3>1
  <2>10. First(d.data, Len(le)) = le /\ Drain(d.data, Len(le)) \in Seq(Byte)
         /\ Drain(d.data, Len(le)) \o stream = rest
    <3> DEFINE data == d.data
    <3>1. data \in Seq(Byte) /\ le \o rest = data \o stream /\ Len(le) <= Len(data)
      BY <2>2, <2>9
    <3> HIDE DEF data
    <3>2. First(data, Len(le)) = le /\ Drain(data, Len(le)) \in Seq(Byte)
          /\ Drain(data, Len(le)) \o stream = rest
      <4>1. CutAt(Byte, le, rest, data, stream)
        BY <2>3, <2>7, <2>8, <3>1, Cut, Zenon
      <4>2. QED
        BY <3>1, <4>1, Zenon DEF CutAt
    <3>3. QED
      BY <3>2 DEF data
  <2>11. First(d.data, DelimiterLength) = le /\ left \in Seq(Byte) /\ left \o stream = rest
    BY <2>7, <2>10
  <2>12. taken.length = Len(f) /\ taken.data = left /\ taken.state = "PartialFrame"
    BY <2>7, <2>11
  <2>13. taken \in Decoders
    BY <2>7, <2>11 DEF Decoders
  <2> HIDE DEF taken, left
  <2>14. Consumed(taken) = le
    BY <2>12 DEF Consumed, le
  <2>15. Grouped(le, left, stream)
    BY <2>3, <2>7, <2>11, AllGrouped, Zenon
  <2>16. Encoded(Pending) = (Consumed(taken) \o taken.data) \o stream
    BY <2>6, <2>11, <2>12, <2>14, <2>15, Zenon DEF Grouped
  <2>17. Follows(taken)
    BY <2>5, <2>12, <2>13, <2>16 DEF Follows, f, k
  <2>18. QED
    BY <2>1, <2>17
<1>3. QED
  BY <1>1, <1>2

\* A complete frame is the next one, and what is behind it is the bytes of the others
\* (the second half of next_frame_and_then).
LEMMA NextFrameFollows ==
    ASSUME StreamTypeOK, FramesInOrder, NEW d, Follows(d),
           d.state = "PartialFrame", Len(d.data) >= d.length
    PROVE  /\ Len(received) < Len(written)
           /\ First(d.data, d.length) = written[Len(received) + 1]
           /\ Drain(d.data, d.length) \in Seq(Byte)
           /\ Drain(d.data, d.length) \o stream = Encoded(Tail(Pending))
<1> DEFINE f == written[Len(received) + 1]
           le == ToLittleEndian(Len(f))
           rest == Encoded(Tail(Pending))
<1>1. Len(received) < Len(written) /\ d.length = Len(f) /\ d \in Decoders
      /\ Encoded(Pending) = (Consumed(d) \o d.data) \o stream
  BY DEF Follows
<1>2. f \in AllFrames /\ rest \in Seq(Byte) /\ Encoded(Pending) = le \o (f \o rest)
  BY <1>1, NextBytes
<1>3. f \in Seq(Byte) /\ le \in Seq(Byte)
  BY <1>2, FrameBytes
<1>4. d.data \in Seq(Byte) /\ Consumed(d) = le
  BY <1>1, FrameDecoderParts
<1>5. stream \in Seq(Byte)
  BY DEF StreamTypeOK
<1> HIDE DEF f, le, rest
<1>6. Grouped(le, d.data, stream)
  BY <1>3, <1>4, <1>5, AllGrouped, Zenon
<1>7. le \o (d.data \o stream) = le \o (f \o rest)
  BY <1>1, <1>2, <1>4, <1>6, Zenon DEF Grouped
<1>8. d.data \o stream \in Seq(Byte) /\ f \o rest \in Seq(Byte)
  BY <1>2, <1>3, <1>4, <1>5, ConcatProperties
<1>9. Cancels(le, d.data \o stream, f \o rest)
  BY <1>3, <1>8, AllCancel, Zenon
<1>10. f \o rest = d.data \o stream
  BY <1>7, <1>9, Zenon DEF Cancels
<1>11. Len(f) <= Len(d.data)
  BY <1>1, <1>3, <1>4, LenProperties
<1>12. /\ First(d.data, Len(f)) = f
       /\ Drain(d.data, Len(f)) \in Seq(Byte)
       /\ Drain(d.data, Len(f)) \o stream = rest
  <2> DEFINE data == d.data
  <2>1. data \in Seq(Byte) /\ f \o rest = data \o stream /\ Len(f) <= Len(data)
    BY <1>4, <1>10, <1>11
  <2> HIDE DEF data
  <2>2. /\ First(data, Len(f)) = f
        /\ Drain(data, Len(f)) \in Seq(Byte)
        /\ Drain(data, Len(f)) \o stream = rest
    <3>1. CutAt(Byte, f, rest, data, stream)
      BY <1>2, <1>3, <1>5, <2>1, Cut, Zenon
    <3>2. QED
      BY <2>1, <3>1, Zenon DEF CutAt
  <2>3. QED
    BY <2>2 DEF data
<1>13. QED
  BY <1>1, <1>12 DEF f, rest

-----------------------------------------------------------------------------
(* Steps                                                                   *)

\* The bytes of what is pending in the next state.
LEMMA EncodedNext == (Encoded(Pending))' = Encoded(Pending')
  BY DEF Encoded, ToLittleEndian, Rest, EncodeFrame

\* What the decoder has taken in the next state.
LEMMA ConsumedNext == (Consumed(decoder))' = Consumed(decoder')
  BY DEF Consumed, ToLittleEndian, Rest

\* A new decoder has read nothing of nothing (VariableLengthFrameDecoder::new).
LEMMA InitFollows == StreamInit => StreamInv
<1> SUFFICES ASSUME StreamInit
             PROVE  StreamInv
  OBVIOUS
<1>1. written = <<>> /\ received = <<>> /\ stream = <<>> /\ decoder = NewDecoder(<<>>)
  BY DEF StreamInit
<1>2. decoder \in Decoders /\ decoder.state = "PartialDelimiter" /\ decoder.data = <<>>
  <2>1. 0 \in 0 .. MaxLength
    BY FrameType
  <2>2. <<>> \in Seq(Byte)
    BY EmptySeq
  <2>3. QED
    BY <1>1, <2>1, <2>2 DEF NewDecoder, Decoders
<1>3. StreamTypeOK
  <2>1. written \in Seq(AllFrames) /\ received \in Seq(AllFrames) /\ stream \in Seq(Byte)
    BY <1>1, EmptySeq
  <2>2. QED
    BY <1>2, <2>1 DEF StreamTypeOK
<1>4. FramesInOrder
  <2>1. <<>> \in Seq(AllFrames) /\ Len(<<>>) = 0
    BY EmptySeq
  <2>2. IsPrefix(<<>>, <<>>) <=> Len(<<>>) <= Len(<<>>) /\ \A i \in 1 .. Len(<<>>) : TRUE
    BY <2>1 DEF IsPrefix
  <2>3. QED
    BY <1>1, <2>1, <2>2 DEF FramesInOrder
<1>5. Encoded(Pending) = <<>>
  <2>1. Pending = <<>>
    BY <1>1, <1>3, <1>4, PendingFrames
  <2>2. QED
    BY <2>1, NoBytes
<1>6. (Consumed(decoder) \o decoder.data) \o stream = <<>>
  <2>1. Consumed(decoder) = <<>>
    BY <1>2 DEF Consumed
  <2>2. <<>> \o <<>> = <<>>
    BY EmptySeq, ConcatEmptySeq
  <2>3. QED
    BY <1>1, <1>2, <2>1, <2>2
<1>7. Follows(decoder)
  BY <1>2, <1>5, <1>6 DEF Follows
<1>8. QED
  BY <1>3, <1>4, <1>7 DEF StreamInv

\* A frame written goes behind what is pending; one too long is not (encode_frame).
LEMMA SendFollows ==
    ASSUME StreamInv, NEW frame \in AllFrames \cup {TooLong},
           SendFrame(frame)
    PROVE  StreamInv'
<1> DEFINE n == Len(written)
           k == Len(received)
           bytes == EncodeFrame(frame)
           held == Consumed(decoder) \o decoder.data
<1>1. StreamTypeOK /\ FramesInOrder /\ Follows(decoder)
  BY DEF StreamInv
<1>2. written \in Seq(AllFrames) /\ received \in Seq(AllFrames) /\ stream \in Seq(Byte)
      /\ decoder \in Decoders
  BY <1>1 DEF StreamTypeOK
<1>3. frame \in AllFrames
  <2>1. Len(frame) <= MaxLength
    BY DEF SendFrame
  <2>2. Len(TooLong) = MaxLength + 1
    BY FrameType DEF TooLong
  <2>3. frame # TooLong
    BY <2>1, <2>2, FrameType
  <2>4. QED
    BY <2>3
<1>4. /\ written' = Append(written, frame) /\ stream' = stream \o bytes
      /\ decoder' = decoder /\ received' = received
  BY DEF SendFrame
<1>5. bytes \in Seq(Byte)
  BY <1>3, FrameBytes
<1>6. k \in Nat /\ n \in Nat /\ k <= n
  BY <1>1, PendingFrames
<1>7. /\ written' \in Seq(AllFrames) /\ Len(written') = n + 1
      /\ \A i \in 1 .. n : written'[i] = written[i]
  BY <1>2, <1>3, <1>4, AppendProperties
<1>8. StreamTypeOK'
  <2>1. stream' \in Seq(Byte)
    BY <1>2, <1>4, <1>5, ConcatProperties
  <2>2. QED
    BY <1>2, <1>4, <1>7, <2>1 DEF StreamTypeOK, Decoders, AllFrames, Byte, MaxLength
<1>9. FramesInOrder'
  <2>1. \A i \in 1 .. k : received[i] = written[i]
    BY <1>1, <1>2, PrefixPlaces DEF FramesInOrder
  <2>2. \A i \in 1 .. k : received[i] = written'[i]
    BY <1>6, <1>7, <2>1
  <2>3. k <= Len(written')
    BY <1>6, <1>7
  <2>4. IsPrefix(received, written')
    BY <1>2, <1>7, <2>2, <2>3, PrefixPlaces
  <2>5. QED
    BY <1>4, <2>4 DEF FramesInOrder
<1>10. Pending' = Append(Pending, frame)
  <2>1. k + 1 \in 1 .. n + 1
    BY <1>6
  <2>2. SubSeq(Append(written, frame), k + 1, n + 1) = Append(SubSeq(written, k + 1, n), frame)
    BY <1>2, <1>3, <2>1, EndOfLonger
  <2>3. QED
    BY <1>4, <1>7, <2>2 DEF Pending
<1>11. Pending \in Seq(AllFrames)
  BY <1>1, PendingFrames
<1>12. Encoded(Append(Pending, frame)) = Encoded(Pending) \o bytes
  BY <1>3, <1>11, BytesAppended
<1>13. held \in Seq(Byte)
  BY <1>2, FrameDecoderParts, ConcatProperties
<1>14. Encoded(Pending) = held \o stream
  BY <1>1 DEF Follows
<1> HIDE DEF held, bytes
<1>15. Grouped(held, stream, bytes)
  BY <1>2, <1>5, <1>13, AllGrouped, Zenon
<1>16. Encoded(Pending') = held \o stream'
  BY <1>4, <1>10, <1>12, <1>14, <1>15, Zenon DEF Grouped
<1>17. Follows(decoder)'
  <2>1. (Encoded(Pending))' = Encoded(Pending')
        /\ (Consumed(decoder))' = Consumed(decoder)
    BY <1>4 DEF Encoded, Consumed, ToLittleEndian, Rest, EncodeFrame
  <2>2. (Encoded(Pending) = (Consumed(decoder) \o decoder.data) \o stream)'
    BY <1>4, <1>16, <2>1 DEF held
  <2>3. (decoder.state = "PartialFrame"
         => Len(received) < Len(written) /\ decoder.length = Len(written[Len(received) + 1]))'
    <3> SUFFICES ASSUME decoder.state = "PartialFrame"
                 PROVE  k < Len(written') /\ decoder.length = Len(written'[k + 1])
      BY <1>4
    <3>1. k < n /\ decoder.length = Len(written[k + 1])
      BY <1>1 DEF Follows
    <3>2. k + 1 \in 1 .. n
      BY <1>6, <3>1
    <3>3. written'[k + 1] = written[k + 1]
      BY <1>7, <3>2
    <3>4. QED
      BY <1>6, <1>7, <3>1, <3>3
  <2>4. (decoder \in Decoders)'
    BY <1>8 DEF StreamTypeOK
  <2>5. QED
    BY <2>2, <2>3, <2>4 DEF Follows
<1>18. QED
  BY <1>8, <1>9, <1>17 DEF StreamInv

\* Bytes read move from the wire to the decoder (add_chunks).
LEMMA ReadFollows ==
    ASSUME StreamInv, NEW n \in 1 .. Len(stream), Read(n)
    PROVE  StreamInv'
<1> DEFINE first == First(stream, n)
           rest == Drain(stream, n)
           data == decoder.data
           took == Consumed(decoder)
<1>1. StreamTypeOK /\ FramesInOrder /\ Follows(decoder)
  BY DEF StreamInv
<1>2. written \in Seq(AllFrames) /\ received \in Seq(AllFrames) /\ stream \in Seq(Byte)
      /\ decoder \in Decoders
  BY <1>1 DEF StreamTypeOK
<1>3. data \in Seq(Byte) /\ took \in Seq(Byte)
  BY <1>2, FrameDecoderParts
<1>4. first \in Seq(Byte) /\ rest \in Seq(Byte) /\ first \o rest = stream
  <2>1. n \in 0 .. Len(stream)
    OBVIOUS
  <2>2. QED
    BY <1>2, <2>1, CutKeeps
<1>5. /\ decoder' = [decoder EXCEPT !.data = data \o first]
      /\ stream' = rest /\ written' = written /\ received' = received
  BY DEF Read, AddChunk
<1>6. data \o first \in Seq(Byte)
  BY <1>3, <1>4, ConcatProperties
<1>7. /\ decoder' \in Decoders /\ decoder'.state = decoder.state
      /\ decoder'.length = decoder.length /\ decoder'.data = data \o first
  BY <1>2, <1>5, <1>6 DEF Decoders
<1>8. StreamTypeOK'
  BY <1>2, <1>4, <1>5, <1>7 DEF StreamTypeOK, Decoders, AllFrames, Byte, MaxLength
<1>9. FramesInOrder'
  BY <1>1, <1>5 DEF FramesInOrder, IsPrefix
<1>10. Encoded(Pending) = (took \o data) \o stream
  BY <1>1 DEF Follows
<1>11. (Consumed(decoder))' = took /\ (Encoded(Pending))' = Encoded(Pending)
  BY <1>5, <1>7 DEF Consumed, Encoded, Pending, ToLittleEndian, Rest,
                    EncodeFrame
<1> HIDE DEF first, rest, data, took
<1>12. Grouped(took, data, first) /\ Grouped(took \o data, first, rest)
  <2>1. took \o data \in Seq(Byte)
    BY <1>3, ConcatProperties
  <2>2. QED
    BY <1>3, <1>4, <2>1, AllGrouped, Zenon
<1>13. Encoded(Pending) = (took \o (data \o first)) \o rest
  BY <1>4, <1>10, <1>12, Zenon DEF Grouped
<1>14. Follows(decoder)'
  <2>1. (Encoded(Pending) = (Consumed(decoder) \o decoder.data) \o stream)'
    BY <1>5, <1>7, <1>11, <1>13, Zenon
  <2>2. (decoder.state = "PartialFrame"
         => Len(received) < Len(written) /\ decoder.length = Len(written[Len(received) + 1]))'
    BY <1>1, <1>5, <1>7 DEF Follows
  <2>3. (decoder \in Decoders)'
    BY <1>8 DEF StreamTypeOK
  <2>4. QED
    BY <2>1, <2>2, <2>3 DEF Follows
<1>15. QED
  BY <1>8, <1>9, <1>14 DEF StreamInv

\* A poll takes the next frame, or only its delimiter, or nothing (next_frame_and_then).
LEMMA PollFollows ==
    ASSUME StreamInv, Poll
    PROVE  StreamInv'
<1> DEFINE d == TakeDelimiter(decoder)
<1>1. StreamTypeOK /\ FramesInOrder /\ Follows(decoder)
  BY DEF StreamInv
<1>2. written \in Seq(AllFrames) /\ received \in Seq(AllFrames) /\ stream \in Seq(Byte)
  BY <1>1 DEF StreamTypeOK
<1>3. Follows(d)
  BY <1>1, TakeDelimiterFollows
<1>4. /\ written' = written /\ stream' = stream
      /\ decoder' = IF HasFrame(decoder) THEN NewDecoder(Drain(d.data, d.length)) ELSE d
      /\ received' = IF HasFrame(decoder)
                     THEN Append(received, First(d.data, d.length)) ELSE received
      /\ HasFrame(decoder) <=> d.state = "PartialFrame" /\ Len(d.data) >= d.length
  BY DEF Poll, AfterNext, NextFrame, HasFrame
<1> HIDE DEF d
<1>5. CASE ~HasFrame(decoder)
  <2>1. decoder' = d /\ received' = received /\ d \in Decoders
    BY <1>3, <1>4, <1>5 DEF Follows
  <2>2. StreamTypeOK'
    BY <1>2, <1>4, <2>1 DEF StreamTypeOK, Decoders, AllFrames, Byte, MaxLength
  <2>3. FramesInOrder'
    BY <1>1, <1>4, <2>1 DEF FramesInOrder, IsPrefix
  <2>4. Follows(decoder)'
    <3>1. /\ Encoded(Pending) = (Consumed(d) \o d.data) \o stream
          /\ d.state = "PartialFrame"
               => Len(received) < Len(written) /\ d.length = Len(written[Len(received) + 1])
      BY <1>3 DEF Follows
    <3>2. (Encoded(Pending))' = Encoded(Pending)
          /\ (Consumed(decoder))' = Consumed(d)
      <4>1. Pending' = Pending
        BY <1>4, <2>1 DEF Pending
      <4>2. (Encoded(Pending))' = Encoded(Pending)
        BY <4>1, EncodedNext, Zenon
      <4>3. (Consumed(decoder))' = Consumed(d)
        BY <2>1, ConsumedNext, Zenon
      <4>4. QED
        BY <4>2, <4>3
    <3>3. (Encoded(Pending) = (Consumed(decoder) \o decoder.data) \o stream)'
      BY <1>4, <2>1, <3>1, <3>2, Zenon
    <3>4. (decoder.state = "PartialFrame"
           => Len(received) < Len(written) /\ decoder.length = Len(written[Len(received) + 1]))'
      BY <1>4, <2>1, <3>1
    <3>5. (decoder \in Decoders)'
      BY <2>2 DEF StreamTypeOK
    <3>6. QED
      BY <3>3, <3>4, <3>5 DEF Follows
  <2>5. QED
    BY <2>2, <2>3, <2>4 DEF StreamInv
<1>6. CASE HasFrame(decoder)
  <2> DEFINE k == Len(received)
             n == Len(written)
             f == written[k + 1]
             left == Drain(d.data, d.length)
  <2>1. d.state = "PartialFrame" /\ Len(d.data) >= d.length
    BY <1>4, <1>6
  <2>2. /\ k < n /\ First(d.data, d.length) = f
        /\ left \in Seq(Byte) /\ left \o stream = Encoded(Tail(Pending))
    BY <1>1, <1>3, <2>1, NextFrameFollows
  <2>3. decoder' = NewDecoder(left) /\ received' = Append(received, f)
    BY <1>4, <1>6, <2>2
  <2>4. k \in Nat /\ n \in Nat /\ f \in AllFrames /\ Tail(Pending) = SubSeq(written, k + 2, n)
    BY <1>1, <2>2, PendingFrames
  <2>5. /\ received' \in Seq(AllFrames) /\ Len(received') = k + 1
        /\ \A i \in 1 .. k : received'[i] = received[i]
        /\ received'[k + 1] = f
    BY <1>2, <2>3, <2>4, AppendProperties
  <2> HIDE DEF left
  <2>6. /\ decoder' \in Decoders /\ decoder'.state = "PartialDelimiter" /\ decoder'.data = left
    <3>1. 0 \in 0 .. MaxLength
      BY FrameType
    <3>2. QED
      BY <2>2, <2>3, <3>1 DEF NewDecoder, Decoders
  <2>7. StreamTypeOK'
    BY <1>2, <1>4, <2>5, <2>6 DEF StreamTypeOK, Decoders, AllFrames, Byte, MaxLength
  <2>8. FramesInOrder'
    <3>1. \A i \in 1 .. k : received[i] = written[i]
      BY <1>1, <1>2, PrefixPlaces DEF FramesInOrder
    <3>2. \A i \in 1 .. k + 1 : received'[i] = written[i]
      BY <2>4, <2>5, <3>1
    <3>3. Len(received') <= Len(written) /\ \A i \in 1 .. Len(received') : received'[i] = written[i]
      <4>1. k + 1 <= n
        BY <2>2, <2>4
      <4>2. QED
        BY <2>5, <3>2, <4>1
    <3>4. IsPrefix(received', written)
      BY <1>2, <2>5, <3>3, PrefixPlaces
    <3>5. QED
      BY <1>4, <3>4 DEF FramesInOrder
  <2>9. Follows(decoder)'
    <3>1. Pending' = Tail(Pending)
      <4>1. k + 1 + 1 = k + 2
        BY <2>4
      <4>2. QED
        BY <1>4, <2>4, <2>5, <4>1 DEF Pending
    <3>2. (Encoded(Pending))' = left \o stream
      BY <2>2, <3>1, EncodedNext, Zenon
    <3>3. (Consumed(decoder))' = <<>>
      BY <2>6 DEF Consumed
    <3>4. <<>> \o left = left
      BY <2>2, ConcatEmptySeq
    <3>5. (Encoded(Pending) = (Consumed(decoder) \o decoder.data) \o stream)'
      BY <1>4, <2>6, <3>2, <3>3, <3>4, Zenon
    <3>6. (decoder \in Decoders)'
      BY <2>7 DEF StreamTypeOK
    <3>7. (decoder.state # "PartialFrame")'
      BY <2>6
    <3>8. QED
      BY <3>5, <3>6, <3>7 DEF Follows
  <2>10. QED
    BY <2>7, <2>8, <2>9 DEF StreamInv
<1>7. QED
  BY <1>5, <1>6

\* Every step keeps the place.
LEMMA NextFollows == StreamInv /\ [StreamNext]_streamVars => StreamInv'
<1> SUFFICES ASSUME StreamInv, [StreamNext]_streamVars
             PROVE  StreamInv'
  OBVIOUS
<1>1. ASSUME NEW frame \in AllFrames \cup {TooLong}, SendFrame(frame)
      PROVE  StreamInv'
  BY <1>1, SendFollows
<1>2. ASSUME ReadMore
      PROVE  StreamInv'
  BY <1>2, ReadFollows DEF ReadMore
<1>3. ASSUME Poll
      PROVE  StreamInv'
  BY <1>3, PollFollows
<1>4. ASSUME UNCHANGED streamVars
      PROVE  StreamInv'
  <2>1. written' = written /\ stream' = stream /\ decoder' = decoder /\ received' = received
    BY <1>4 DEF streamVars
  <2>2. StreamTypeOK' /\ FramesInOrder'
    BY <2>1 DEF StreamInv, StreamTypeOK, FramesInOrder, IsPrefix, Decoders, AllFrames,
                Byte, MaxLength
  <2>3. Follows(decoder)'
    <3>1. Pending' = Pending
      BY <2>1 DEF Pending
    <3>2. (Encoded(Pending))' = Encoded(Pending)
          /\ (Consumed(decoder))' = Consumed(decoder)
      BY <2>1, <3>1, EncodedNext, ConsumedNext, Zenon
    <3>3. (Encoded(Pending) = (Consumed(decoder) \o decoder.data) \o stream)'
      BY <2>1, <3>2, Zenon DEF StreamInv, Follows
    <3>4. (decoder.state = "PartialFrame"
           => Len(received) < Len(written) /\ decoder.length = Len(written[Len(received) + 1]))'
      BY <2>1 DEF StreamInv, Follows
    <3>5. (decoder \in Decoders)'
      BY <2>2 DEF StreamTypeOK
    <3>6. QED
      BY <3>3, <3>4, <3>5 DEF Follows
  <2>4. QED
    BY <2>2, <2>3 DEF StreamInv
<1>5. QED
  BY <1>1, <1>2, <1>3, <1>4 DEF StreamNext

\* What the decoder requires is on the wire when a frame is pending.
LEMMA RequiredFollows ==
    ASSUME StreamInv
    PROVE  RequiredStaysInFrame
<1> SUFFICES ASSUME Len(received) < Len(written)
             PROVE  RequiredLength(decoder) <= Len(stream)
  BY DEF RequiredStaysInFrame
<1> DEFINE f == written[Len(received) + 1]
           le == ToLittleEndian(Len(f))
           rest == Encoded(Tail(Pending))
           D == DelimiterLength
           h == Len(decoder.data)
           w == Len(stream)
           r == Len(rest)
           m == Len(f)
           took == Consumed(decoder)
<1>1. StreamTypeOK /\ FramesInOrder /\ Follows(decoder) /\ decoder \in Decoders
      /\ stream \in Seq(Byte)
  BY DEF StreamInv, StreamTypeOK
<1>2. f \in AllFrames /\ rest \in Seq(Byte) /\ Encoded(Pending) = le \o (f \o rest)
  BY <1>1, NextBytes
<1>3. f \in Seq(Byte) /\ le \in Seq(Byte) /\ Len(le) = D
  BY <1>2, FrameBytes
<1>4. decoder.data \in Seq(Byte) /\ took \in Seq(Byte)
  BY <1>1, FrameDecoderParts
<1>5. Encoded(Pending) = (took \o decoder.data) \o stream
  BY <1>1 DEF Follows
<1> HIDE DEF rest, le, f, took
<1>6. D \in Nat /\ h \in Nat /\ w \in Nat /\ r \in Nat /\ m \in Nat /\ Len(took) \in Nat
  BY <1>1, <1>2, <1>3, <1>4, FrameType, LenProperties
<1>7. Len(Encoded(Pending)) = D + (m + r)
  <2>1. f \o rest \in Seq(Byte) /\ Len(f \o rest) = m + r
    BY <1>2, <1>3, ConcatProperties
  <2>2. Len(le \o (f \o rest)) = Len(le) + Len(f \o rest)
    BY <1>3, <2>1, ConcatProperties
  <2>3. QED
    BY <1>2, <1>3, <2>1, <2>2
<1>8. Len(Encoded(Pending)) = (Len(took) + h) + w
  <2>1. took \o decoder.data \in Seq(Byte) /\ Len(took \o decoder.data) = Len(took) + h
    BY <1>4, ConcatProperties
  <2>2. Len((took \o decoder.data) \o stream) = Len(took \o decoder.data) + w
    BY <1>1, <2>1, ConcatProperties
  <2>3. QED
    BY <1>5, <2>1, <2>2
<1>9. CASE decoder.state = "PartialDelimiter"
  <2>1. Len(took) = 0
    BY <1>1, <1>9, FrameDecoderParts, EmptySeq DEF took
  <2>2. RequiredLength(decoder) = IF D < h THEN 0 ELSE D - h
    BY <1>9 DEF RequiredLength, SaturatingSub
  <2> HIDE DEF D, h, w, r, m
  <2>3. D + (m + r) = h + w
    BY <1>6, <1>7, <1>8, <2>1
  <2>4. (IF D < h THEN 0 ELSE D - h) <= w
    BY <1>6, <2>3
  <2>5. QED
    BY <2>2, <2>4 DEF w
<1>10. CASE decoder.state = "PartialFrame"
  <2>1. Len(took) = D /\ decoder.length = m
    BY <1>1, <1>10, FrameDecoderParts DEF took, Follows, f
  <2>2. RequiredLength(decoder) = IF m < h THEN 0 ELSE m - h
    BY <1>10, <2>1 DEF RequiredLength, SaturatingSub
  <2> HIDE DEF D, h, w, r, m
  <2>3. D + (m + r) = (D + h) + w
    BY <1>7, <1>8, <2>1
  <2>4. m + r = h + w
    BY <1>6, <2>3
  <2>5. (IF m < h THEN 0 ELSE m - h) <= w
    BY <1>6, <2>4
  <2>6. QED
    BY <2>2, <2>5 DEF w
<1>11. decoder.state \in {"PartialDelimiter", "PartialFrame"}
  BY <1>1, FrameDecoderParts
<1>12. QED
  BY <1>9, <1>10, <1>11

\* The decoder always follows the writer.
LEMMA StreamInvariant == StreamSpec => []StreamInv
  BY InitFollows, NextFollows, PTL DEF StreamSpec

\* The frames, the bytes and the decoder keep their shape: no delimiter is ever read as a
\* length that it cannot hold or that nobody wrote (VariableLengthFrameDecoder).
THEOREM FrameTypes == StreamSpec => []StreamTypeOK
<1>1. StreamInv => StreamTypeOK
  BY DEF StreamInv
<1>2. QED
  BY <1>1, StreamInvariant, PTL

\* No byte is lost or read twice, in whatever pieces the stream arrives: the frames
\* received are the first of those sent, and the decoder and the wire hold the bytes of the
\* others (next_frame_and_then).
THEOREM FramesConserved == StreamSpec => []BytesConserved
<1>1. StreamInv => BytesConserved
  BY DEF StreamInv, Follows, BytesConserved
<1>2. QED
  BY <1>1, StreamInvariant, PTL

\* While a frame is pending, the decoder never requires a byte that has not been sent
\* (required_length).
THEOREM RequiredIsSent == StreamSpec => []RequiredStaysInFrame
  BY RequiredFollows, StreamInvariant, PTL
=============================================================================

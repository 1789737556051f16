------------------------- MODULE D2dRendezvousProofs -------------------------
(***************************************************************************)
(* Proofs about D2dRendezvous, for every value of its constants: no two    *)
(* frames are sealed with the same key and nonce, the protocol implements  *)
(* the nominated channel whatever the paths deliver, and nothing fails on  *)
(* paths that deliver what was sent on them.                               *)
(*                                                                         *)
(* The argument: the frames an end sends on a path are determined by their *)
(* position on it (FrameAt), for the handshake is fixed, the nomination    *)
(* comes next and the frames of the upper layer are numbered.  An end only *)
(* opens a frame that carries the peer's key, the path and the position it *)
(* has reached, so that what it opens is the frame the peer has sent in    *)
(* that place, wherever the bytes came from.                               *)
(*                                                                         *)
(* For the last of the three, what a path has not read yet is a run of the *)
(* frames next in their places (Straight), however it is cut into chunks   *)
(* and even with one of them begun.                                        *)
(***************************************************************************)
EXTENDS D2dRendezvous, SequenceTheorems, TLAPS

\* The frames of the handshake, and those before the first of the upper layer
Handshake(r) == IF r = "RID" THEN 1 ELSE 2
Preamble(r) == IF r = nominator THEN Handshake(r) + 1 ELSE Handshake(r)

Secret(pid) == {Random("RID", pid), Random("RRD", pid)}

\* What a role sends on a path as its i-th frame
ContentAt(r, pid, i) ==
    IF i > Preamble(r) THEN Ulp(i - Preamble(r))
    ELSE IF i > Handshake(r) THEN NominateMessage
    ELSE IF r = "RID" THEN AuthHello(pid, Random("RRD", pid))
    ELSE IF i = 1 THEN Hello(pid) ELSE Auth(Random("RID", pid))
FrameAt(r, pid, i) ==
    [key |-> Key(r, IF i <= Handshake(r) THEN NoEtk ELSE Secret(pid)),
     nonce |-> Nonce(pid, i), content |-> ContentAt(r, pid, i)]

Randoms == [by : Roles, pid : Pids]
UlpUnits == [frame : Frames, part : 0 .. UlpLength + 1]
Decoders == {d \in [state : {"PartialDelimiter", "PartialFrame"}, length : Nat,
                    data : Seq(UlpUnits)] : d.state = "PartialFrame" => d.length > 0}
Paths == [state : PathStates, decoder : Decoders, sealed : 0 .. MaxSn - 1,
          received : 0 .. MaxSn - 1, etk : SUBSET Randoms]

Causes == {"none", "DecryptionFailed", "SequenceNumberOverflow", "UnexpectedFrame",
           "InvalidRrdAuthMessage", "InvalidRidAuthHelloMessage", "InvalidStateForNomination",
           "OversizedFrame", "UnknownOrDroppedPath"}

\* The frame is one a role has sent, on some path.
WasSent(r, frame) ==
    \E pid \in Pids : \E i \in 1 .. Len(sent[r][pid]) : frame = FrameAt(r, pid, i)

Types ==
    /\ nominator \in Roles
    /\ path \in [Roles -> [Pids -> Paths]]
    /\ nominated \in [Roles -> Pids \cup {NoPid}]
    /\ cause \in [Roles -> Causes]
    /\ wire \in [Roles -> [Pids -> Seq(UlpUnits)]]
    /\ sent \in [Roles -> [Pids -> Seq(Frames)]]
    /\ created \in [Roles -> 0 .. MaxUlp]
    /\ delivered \in [Roles -> Seq(1 .. MaxUlp)]
    /\ stray \in 0 .. MaxStray

\* What was sent stands in its place.
SentInPlace ==
    \A r \in Roles, pid \in Pids :
        /\ path[r][pid].sealed = Len(sent[r][pid])
        /\ \A i \in 1 .. Len(sent[r][pid]) : sent[r][pid][i] = FrameAt(r, pid, i)

\* Nothing arrives that the peer has not sent, on some path, at some time.
Genuine ==
    \A r \in Roles, pid \in Pids :
        /\ \A k \in 1 .. Len(wire[r][pid]) : WasSent(Peer(r), wire[r][pid][k].frame)
        /\ \A k \in 1 .. Len(path[r][pid].decoder.data) :
               WasSent(Peer(r), path[r][pid].decoder.data[k].frame)

\* How far a path is when it is in a state
StateFits(r, pid) ==
    LET p == path[r][pid]
    IN  /\ p.state = "AwaitingHello" => r = "RID" /\ p.sealed = 0 /\ p.received = 0
        /\ p.state = "AwaitingAuth" =>
               r = "RID" /\ p.sealed = 1 /\ p.received = 1 /\ p.etk = Secret(pid)
        /\ p.state = "AwaitingAuthHello" => r = "RRD" /\ p.sealed = 1 /\ p.received = 0
        /\ p.state = "AwaitingNominate" =>
               /\ p.sealed = Handshake(r)
               /\ p.received = Handshake(Peer(r))
               /\ p.etk = Secret(pid)
        /\ p.state = "Nominated" =>
               /\ nominated[r] = pid
               /\ p.received = Preamble(Peer(r)) + Len(delivered[r])
               /\ p.etk = Secret(pid)
        /\ p.state \in {"Closed", "Invalid"} => ~Running(r)

\* Only the nominated path goes past the handshake, by what the nomination and
\* the upper layer send.
NominationFits(r, pid) ==
    /\ nominated[r] = pid =>
           /\ path[r][pid].sealed = Preamble(r) + created[r]
           /\ Running(r) => path[r][pid].state = "Nominated"
    /\ nominated[r] # pid => path[r][pid].sealed <= Handshake(r)
    /\ nominated[r] \notin {pid, NoPid} => path[r][pid].state = "Dropped"

PathsFit ==
    /\ \A r \in Roles, pid \in Pids : StateFits(r, pid) /\ NominationFits(r, pid)
    /\ \A r \in Roles : nominated[r] = NoPid => created[r] = 0 /\ delivered[r] = <<>>

RendezvousInv == Types /\ SentInPlace /\ Genuine /\ PathsFit

-----------------------------------------------------------------------------
(* Roles, frames and decoders                                              *)

\* The two roles are each other's peers.
LEMMA PeerFacts ==
    \A r \in Roles : Peer(r) \in Roles /\ Peer(r) # r /\ Peer(Peer(r)) = r
  BY DEF Roles, Peer

\* The numbers of frames before those of the upper layer are 1, 2 or 3.
LEMMA PreambleFacts ==
    \A r \in Roles :
        /\ Handshake(r) \in {1, 2}
        /\ Preamble(r) \in {Handshake(r), Handshake(r) + 1}
        /\ Preamble(r) \in 1 .. 3
        /\ r = "RID" => Handshake(r) = 1
        /\ r = "RRD" => Handshake(r) = 2
        /\ r = nominator => Preamble(r) = Handshake(r) + 1
        /\ r # nominator => Preamble(r) = Handshake(r)
  BY DEF Roles, Handshake, Preamble

\* The frame of a position is a frame (encrypt, and the messages of the handshake).
LEMMA FrameAtType ==
    ASSUME NEW r \in Roles, NEW pid \in Pids, NEW i \in 1 .. MaxSn, i <= Preamble(r) + MaxUlp
    PROVE  FrameAt(r, pid, i) \in Frames
<1>1. \A q \in Roles : Random(q, pid) \in Randoms
  BY DEF Random, Randoms
<1>2. "RID" \in Roles /\ "RRD" \in Roles
  BY DEF Roles
<1>3. FrameAt(r, pid, i).key \in [of : Roles, etk : SUBSET Randoms]
  BY <1>1, <1>2 DEF FrameAt, Key, NoEtk, Secret
<1>4. Nonce(pid, i) \in [pid : Pids, sn : 1 .. MaxSn]
  BY DEF Nonce
<1> DEFINE Contents == [type : {"Hello"}, challenge : Randoms, etk : Randoms]
                \cup [type : {"AuthHello"}, response : Randoms, challenge : Randoms,
                      etk : Randoms]
                \cup [type : {"Auth"}, response : Randoms]
                \cup [type : {"Nominate"}]
                \cup [type : {"Ulp"}, data : 1 .. MaxUlp]
<1>5. ContentAt(r, pid, i) \in Contents
  <2>1. CASE i > Preamble(r)
    <3>1. i - Preamble(r) \in 1 .. MaxUlp
      BY <2>1, PreambleFacts, RendezvousAssumption
    <3>2. Ulp(i - Preamble(r)) \in [type : {"Ulp"}, data : 1 .. MaxUlp]
      BY <3>1 DEF Ulp
    <3>3. QED BY <2>1, <3>2 DEF ContentAt
  <2>2. CASE i <= Preamble(r) /\ i > Handshake(r)
    <3>1. ContentAt(r, pid, i) = NominateMessage
      BY <2>2, PreambleFacts, RendezvousAssumption DEF ContentAt
    <3>2. NominateMessage \in [type : {"Nominate"}]
      BY DEF NominateMessage
    <3>3. QED BY <3>1, <3>2
  <2>3. CASE i <= Handshake(r)
    <3>1. ContentAt(r, pid, i) \in {AuthHello(pid, Random("RRD", pid)), Hello(pid),
                                    Auth(Random("RID", pid))}
      BY <2>3, PreambleFacts, RendezvousAssumption DEF ContentAt
    <3>2. AuthHello(pid, Random("RRD", pid)) \in
              [type : {"AuthHello"}, response : Randoms, challenge : Randoms, etk : Randoms]
      BY <1>1, <1>2 DEF AuthHello
    <3>3. Hello(pid) \in [type : {"Hello"}, challenge : Randoms, etk : Randoms]
      BY <1>1, <1>2 DEF Hello
    <3>4. Auth(Random("RID", pid)) \in [type : {"Auth"}, response : Randoms]
      BY <1>1, <1>2 DEF Auth
    <3>5. QED BY <3>1, <3>2, <3>3, <3>4
  <2>4. i \in Nat /\ Preamble(r) \in Nat /\ Handshake(r) \in Nat
    BY PreambleFacts, RendezvousAssumption
  <2>5. QED BY <2>1, <2>2, <2>3, <2>4
<1>6. QED BY <1>3, <1>4, <1>5 DEF FrameAt, Frames, Randoms

\* A frame on a path is a sequence of units of that frame (encode).
LEMMA EncodedUnits ==
    ASSUME NEW frame \in Frames
    PROVE  /\ EncodeFrame(frame) \in Seq(UlpUnits)
           /\ \A k \in 1 .. Len(EncodeFrame(frame)) : EncodeFrame(frame)[k].frame = frame
<1>1. FrameLength(frame) \in 1 .. UlpLength + 1
  BY RendezvousAssumption DEF FrameLength
<1>2. /\ Body(frame) \in Seq(UlpUnits)
      /\ Len(Body(frame)) \in Nat
      /\ \A k \in 1 .. Len(Body(frame)) : Body(frame)[k].frame = frame
  <2>1. \A i \in 1 .. FrameLength(frame) : [frame |-> frame, part |-> i] \in UlpUnits
    <3>1. \A i \in 1 .. FrameLength(frame) : i \in 0 .. UlpLength + 1
      BY <1>1, RendezvousAssumption
    <3>2. QED BY <3>1 DEF UlpUnits
  <2>2. FrameLength(frame) \in Nat
    BY <1>1
  <2>3. QED BY <2>1, <2>2 DEF Body
<1> DEFINE first == [frame |-> frame, part |-> 0]
<1>3. first \in UlpUnits /\ first.frame = frame
  BY RendezvousAssumption DEF UlpUnits
<1>4. EncodeFrame(frame) = <<first>> \o Body(frame)
  BY DEF EncodeFrame
<1> HIDE DEF first
<1>5. <<first>> \o Body(frame) \in Seq(UlpUnits)
  BY <1>2, <1>3
<1>6. \A k \in 1 .. Len(<<first>> \o Body(frame)) : (<<first>> \o Body(frame))[k].frame = frame
  BY <1>2, <1>3
<1>7. QED BY <1>4, <1>5, <1>6

\* Taking the delimiter leaves a decoder, with a part of what it had.
LEMMA TakeDelimiterFacts ==
    ASSUME NEW d \in Decoders
    PROVE  /\ TakeDelimiter(d) \in Decoders
           /\ \A k \in 1 .. Len(TakeDelimiter(d).data) :
                  \E j \in 1 .. Len(d.data) : TakeDelimiter(d).data[k] = d.data[j]
<1>0. d.data \in Seq(UlpUnits) /\ Len(d.data) \in Nat
  BY DEF Decoders
<1>1. CASE d.state = "PartialDelimiter" /\ Len(d.data) >= 1
  <2>1. d.data[1] \in UlpUnits
    BY <1>0, <1>1, ElementOfSeq
  <2>2. First(d.data, 1)[1] = d.data[1]
    BY <1>0, <1>1 DEF First
  <2>3. DecodeDelimiter(First(d.data, 1)) \in Nat \ {0}
    BY <2>2, RendezvousAssumption DEF DecodeDelimiter, FrameLength
  <2>4. Drain(d.data, 1) \in Seq(UlpUnits)
    BY <1>0 DEF Drain
  <2>5. \A k \in 1 .. Len(Drain(d.data, 1)) : Drain(d.data, 1)[k] = d.data[k + 1]
                                              /\ k + 1 \in 1 .. Len(d.data)
    BY <1>0, <1>1 DEF Drain
  <2>6. TakeDelimiter(d) = [state |-> "PartialFrame", length |-> DecodeDelimiter(First(d.data, 1)),
                            data |-> Drain(d.data, 1)]
    BY <1>1 DEF TakeDelimiter
  <2>7. QED BY <2>3, <2>4, <2>5, <2>6 DEF Decoders
<1>2. CASE ~(d.state = "PartialDelimiter" /\ Len(d.data) >= 1)
  BY <1>0, <1>2 DEF TakeDelimiter
<1>3. QED BY <1>1, <1>2

\* So does taking a frame, whose first unit is one of them (next_frame_and_then).
LEMMA NextFacts ==
    ASSUME NEW d \in Decoders
    PROVE  /\ AfterNext(d) \in Decoders
           /\ \A k \in 1 .. Len(AfterNext(d).data) :
                  \E j \in 1 .. Len(d.data) : AfterNext(d).data[k] = d.data[j]
           /\ HasFrame(d) => \E j \in 1 .. Len(d.data) : NextFrame(d)[1] = d.data[j]
<1> DEFINE t == TakeDelimiter(d)
<1>1. /\ t \in Decoders /\ t.data \in Seq(UlpUnits) /\ Len(t.data) \in Nat /\ t.length \in Nat
      /\ t.state = "PartialFrame" => t.length > 0
      /\ \A k \in 1 .. Len(t.data) : \E j \in 1 .. Len(d.data) : t.data[k] = d.data[j]
  BY TakeDelimiterFacts DEF Decoders
<1>2. CASE HasFrame(d)
  <2>1. t.state = "PartialFrame" /\ Len(t.data) >= t.length
    BY <1>2 DEF HasFrame
  <2>2. /\ AfterNext(d) = NewDecoder(Drain(t.data, t.length))
        /\ NextFrame(d) = First(t.data, t.length)
    BY <1>2 DEF AfterNext, NextFrame
  <2> HIDE DEF t
  <2>3. PICK data, n : data = t.data /\ n = t.length
    OBVIOUS
  <2>a. /\ Drain(data, n) \in Seq(UlpUnits)
        /\ \A k \in 1 .. Len(Drain(data, n)) :
               k + n \in 1 .. Len(data) /\ Drain(data, n)[k] = data[k + n]
    <3>1. data \in Seq(UlpUnits) /\ n \in Nat /\ Len(data) \in Nat /\ n <= Len(data)
      BY <1>1, <2>1, <2>3
    <3>2. Drain(data, n) = SubSeq(data, n + 1, Len(data))
      BY DEF Drain
    <3>3. Drain(data, n) \in Seq(UlpUnits) /\ Len(Drain(data, n)) = Len(data) - n
      BY <3>1, <3>2
    <3>4. \A k \in 1 .. Len(data) - n : Drain(data, n)[k] = data[k + n]
      BY <3>1, <3>2
    <3>5. \A k \in 1 .. Len(data) - n : k + n \in 1 .. Len(data)
      BY <3>1
    <3>6. QED BY <3>3, <3>4, <3>5
  <2>4. First(t.data, t.length)[1] = t.data[1] /\ 1 \in 1 .. Len(t.data)
    BY <1>1, <2>1 DEF First
  <2>5. NewDecoder(Drain(t.data, t.length)) \in Decoders
    BY <2>3, <2>a DEF NewDecoder, Decoders
  <2>6. AfterNext(d).data = Drain(t.data, t.length)
    BY <2>2 DEF NewDecoder
  <2>7. QED BY <1>1, <2>2, <2>3, <2>a, <2>4, <2>5, <2>6
<1>3. CASE ~HasFrame(d)
  BY <1>1, <1>3 DEF AfterNext
<1>4. QED BY <1>2, <1>3

\* A frame that opens is the one the peer has sent in that place on that path
\* (decrypt).
LEMMA OpenedInPlace ==
    ASSUME Types, NEW r \in Roles, NEW pid \in Pids, NEW p, p.received \in Nat,
           NEW frame, WasSent(Peer(r), frame), OpenError(r, pid, p, frame) = "none"
    PROVE  /\ p.received + 1 \in 1 .. Len(sent[Peer(r)][pid])
           /\ frame = FrameAt(Peer(r), pid, p.received + 1)
           /\ p.received + 1 # MaxSn
<1>1. frame.nonce = Nonce(pid, p.received + 1) /\ p.received + 1 # MaxSn
  BY DEF OpenError
<1>2. PICK other \in Pids : \E i \in 1 .. Len(sent[Peer(r)][other]) :
          frame = FrameAt(Peer(r), other, i)
  BY DEF WasSent
<1>a. PICK i \in 1 .. Len(sent[Peer(r)][other]) : frame = FrameAt(Peer(r), other, i)
  BY <1>2
<1>3. Nonce(other, i) = Nonce(pid, p.received + 1)
  BY <1>1, <1>a DEF FrameAt
<1>4. other = pid /\ i = p.received + 1
  BY <1>3 DEF Nonce
<1>5. QED BY <1>1, <1>a, <1>4

-----------------------------------------------------------------------------
(* What a step on one path leaves alone                                    *)

\* A position's frame does not change, for the nominator was agreed on beforehand.
LEMMA SamePosition ==
    ASSUME nominator' = nominator
    PROVE  /\ \A r : Preamble(r)' = Preamble(r)
           /\ \A r, pid, i : FrameAt(r, pid, i)' = FrameAt(r, pid, i)
  BY DEF Preamble, FrameAt, ContentAt

\* On one path a frame was sent, or none: the others keep theirs.
SendsAtMost(r, pid) ==
    /\ \A q \in Roles, x \in Pids : <<q, x>> # <<r, pid>> =>
           path'[q][x].sealed = path[q][x].sealed /\ sent'[q][x] = sent[q][x]
    /\ \/ path'[r][pid].sealed = path[r][pid].sealed /\ sent'[r][pid] = sent[r][pid]
       \/ /\ path'[r][pid].sealed = path[r][pid].sealed + 1
          /\ sent'[r][pid] =
                 Append(sent[r][pid], FrameAt(r, pid, path[r][pid].sealed + 1))

\* The frame is one of those a role has sent after the step.
NowSent(r, frame) ==
    \E pid \in Pids : \E i \in 1 .. Len(sent'[r][pid]) : frame = FrameAt(r, pid, i)

\* What was sent stays in its place.
LEMMA StaysInPlace ==
    ASSUME Types, SentInPlace, nominator' = nominator,
           NEW r \in Roles, NEW pid \in Pids, SendsAtMost(r, pid)
    PROVE  /\ SentInPlace'
           /\ \A q \in Roles : \A frame : WasSent(q, frame) => NowSent(q, frame)
<1>1. \A q \in Roles, x \in Pids : Len(sent[q][x]) \in Nat
  BY DEF Types
<1>2. \A q \in Roles, x \in Pids :
          /\ Len(sent'[q][x]) \in {Len(sent[q][x]), Len(sent[q][x]) + 1}
          /\ path'[q][x].sealed = Len(sent'[q][x])
          /\ \A i \in 1 .. Len(sent'[q][x]) : sent'[q][x][i] = FrameAt(q, x, i)
  <2> TAKE q \in Roles, x \in Pids
  <2>1. CASE sent'[q][x] = sent[q][x] /\ path'[q][x].sealed = path[q][x].sealed
    BY <1>1, <2>1 DEF SentInPlace
  <2>2. CASE q = r /\ x = pid /\ path'[r][pid].sealed = path[r][pid].sealed + 1
             /\ sent'[r][pid] = Append(sent[r][pid], FrameAt(r, pid, path[r][pid].sealed + 1))
    <3>1. sent[r][pid] \in Seq(Frames) /\ path[r][pid].sealed = Len(sent[r][pid])
          /\ \A i \in 1 .. Len(sent[r][pid]) : sent[r][pid][i] = FrameAt(r, pid, i)
      BY DEF Types, SentInPlace
    <3>2. PICK s, frame : s = sent[r][pid] /\ frame = FrameAt(r, pid, Len(s) + 1)
      OBVIOUS
    <3>3. Len(Append(s, frame)) = Len(s) + 1 /\ Append(s, frame)[Len(s) + 1] = frame
          /\ \A i \in 1 .. Len(s) : Append(s, frame)[i] = s[i]
      BY <3>1, <3>2
    <3>4. sent'[q][x] = Append(s, frame)
      BY <2>2, <3>1, <3>2
    <3>5. Len(s) \in Nat
      BY <1>1, <3>2
    <3>6. \A i \in 1 .. Len(s) + 1 : Append(s, frame)[i] = FrameAt(q, x, i)
      <4> TAKE i \in 1 .. Len(s) + 1
      <4>1. CASE i = Len(s) + 1
        BY <2>2, <3>2, <3>3, <4>1
      <4>2. CASE i \in 1 .. Len(s)
        BY <2>2, <3>1, <3>2, <3>3, <4>2
      <4>3. QED BY <3>5, <4>1, <4>2
    <3>7. QED BY <2>2, <3>1, <3>2, <3>3, <3>4, <3>5, <3>6
  <2>3. QED BY <2>1, <2>2 DEF SendsAtMost
<1>3. \A q, x, i : FrameAt(q, x, i)' = FrameAt(q, x, i)
  BY SamePosition
<1>4. SentInPlace'
  BY <1>2, <1>3 DEF SentInPlace
<1>5. ASSUME NEW q \in Roles, NEW frame, WasSent(q, frame) PROVE NowSent(q, frame)
  <2>0. PICK x \in Pids : \E i \in 1 .. Len(sent[q][x]) : frame = FrameAt(q, x, i)
    BY <1>5 DEF WasSent
  <2>1. PICK i \in 1 .. Len(sent[q][x]) : frame = FrameAt(q, x, i)
    BY <2>0
  <2>2. i \in 1 .. Len(sent'[q][x])
    <3>1. Len(sent'[q][x]) \in {Len(sent[q][x]), Len(sent[q][x]) + 1}
      BY <1>2
    <3>2. QED BY <1>1, <3>1
  <2>3. QED BY <2>1, <2>2 DEF NowSent
<1>6. QED BY <1>4, <1>5

\* Whatever else is done, what an end finds on its paths was on their way before
\* or has just been sent.
Circulates ==
    \A r \in Roles, pid \in Pids :
        /\ \A k \in 1 .. Len(wire'[r][pid]) :
               \/ \E j \in 1 .. Len(wire[r][pid]) : wire'[r][pid][k] = wire[r][pid][j]
               \/ NowSent(Peer(r), wire'[r][pid][k].frame)
        /\ \A k \in 1 .. Len(path'[r][pid].decoder.data) :
               \/ \E j \in 1 .. Len(path[r][pid].decoder.data) :
                      path'[r][pid].decoder.data[k] = path[r][pid].decoder.data[j]
               \/ \E j \in 1 .. Len(wire[r][pid]) :
                      path'[r][pid].decoder.data[k] = wire[r][pid][j]

\* Hence it is genuine.
LEMMA StaysGenuine ==
    ASSUME Genuine, Circulates, nominator' = nominator,
           \A q \in Roles : \A frame : WasSent(q, frame) => NowSent(q, frame)
    PROVE  Genuine'
<1>1. \A r \in Roles, pid \in Pids :
          /\ \A k \in 1 .. Len(wire'[r][pid]) : NowSent(Peer(r), wire'[r][pid][k].frame)
          /\ \A k \in 1 .. Len(path'[r][pid].decoder.data) :
                 NowSent(Peer(r), path'[r][pid].decoder.data[k].frame)
  <2> TAKE r \in Roles, pid \in Pids
  <2>1. Peer(r) \in Roles
    BY PeerFacts
  <2>2. \A j \in 1 .. Len(wire[r][pid]) : NowSent(Peer(r), wire[r][pid][j].frame)
    BY <2>1 DEF Genuine
  <2>3. \A j \in 1 .. Len(path[r][pid].decoder.data) :
            NowSent(Peer(r), path[r][pid].decoder.data[j].frame)
    BY <2>1 DEF Genuine
  <2>4. ASSUME NEW k \in 1 .. Len(wire'[r][pid])
        PROVE  NowSent(Peer(r), wire'[r][pid][k].frame)
    <3>1. \/ \E j \in 1 .. Len(wire[r][pid]) : wire'[r][pid][k] = wire[r][pid][j]
          \/ NowSent(Peer(r), wire'[r][pid][k].frame)
      BY <2>4 DEF Circulates
    <3>2. ASSUME NEW j \in 1 .. Len(wire[r][pid]), wire'[r][pid][k] = wire[r][pid][j]
          PROVE  NowSent(Peer(r), wire'[r][pid][k].frame)
      <4>1. wire'[r][pid][k].frame = wire[r][pid][j].frame
        BY <3>2
      <4>2. NowSent(Peer(r), wire[r][pid][j].frame)
        BY <2>2
      <4> HIDE DEF NowSent
      <4>3. QED BY <4>1, <4>2
    <3>3. QED BY <3>1, <3>2
  <2>5. ASSUME NEW k \in 1 .. Len(path'[r][pid].decoder.data)
        PROVE  NowSent(Peer(r), path'[r][pid].decoder.data[k].frame)
    <3>1. \/ \E j \in 1 .. Len(path[r][pid].decoder.data) :
                 path'[r][pid].decoder.data[k] = path[r][pid].decoder.data[j]
          \/ \E j \in 1 .. Len(wire[r][pid]) :
                 path'[r][pid].decoder.data[k] = wire[r][pid][j]
      BY <2>5 DEF Circulates
    <3>2. ASSUME NEW unit, path'[r][pid].decoder.data[k] = unit,
                 NowSent(Peer(r), unit.frame)
          PROVE  NowSent(Peer(r), path'[r][pid].decoder.data[k].frame)
      BY <3>2
    <3>3. QED BY <2>2, <2>3, <3>1, <3>2
  <2>6. QED BY <2>4, <2>5
<1>2. \A r, frame : NowSent(r, frame) =>
          \E pid \in Pids : \E i \in 1 .. Len(sent'[r][pid]) : frame = FrameAt(r, pid, i)'
  BY SamePosition DEF NowSent
<1>3. QED BY <1>1, <1>2 DEF Genuine, WasSent

\* A step of a role on a path leaves the other role alone; of the role's own
\* other paths it drops all or none.
Elsewhere(r, pid) ==
    /\ \A q \in Roles \ {r} :
           /\ \A x \in Pids : path'[q][x].state = path[q][x].state
                              /\ path'[q][x].sealed = path[q][x].sealed
                              /\ path'[q][x].received = path[q][x].received
                              /\ path'[q][x].etk = path[q][x].etk
           /\ nominated'[q] = nominated[q] /\ cause'[q] = cause[q]
           /\ created'[q] = created[q] /\ delivered'[q] = delivered[q]
    /\ \A x \in Pids \ {pid} :
           \/ path'[r][x] = path[r][x] /\ nominated'[r] = nominated[r]
           \/ path'[r][x] = [path[r][x] EXCEPT !.state = "Dropped"] /\ nominated'[r] = pid
    /\ nominated'[r] # nominated[r] => nominated[r] = NoPid /\ nominated'[r] = pid
    /\ (created'[r] # created[r] \/ delivered'[r] # delivered[r]) => nominated[r] = pid

\* What holds of the paths elsewhere still holds.
LEMMA ElsewhereFits ==
    ASSUME Types, PathsFit, nominator' = nominator, NEW r \in Roles, NEW pid \in Pids,
           Running(r), Elsewhere(r, pid), path' \in [Roles -> [Pids -> Paths]],
           StateFits(r, pid)', NominationFits(r, pid)',
           nominated'[r] = NoPid => created'[r] = 0 /\ delivered'[r] = <<>>
    PROVE  PathsFit'
<1>1. \A q : Preamble(q)' = Preamble(q)
  BY SamePosition
<1>2. ASSUME NEW q \in Roles, NEW x \in Pids PROVE StateFits(q, x)' /\ NominationFits(q, x)'
  <2>0. StateFits(q, x) /\ NominationFits(q, x)
    BY DEF PathsFit
  <2>1. CASE q # r
    <3>1. /\ path'[q][x].state = path[q][x].state
          /\ path'[q][x].sealed = path[q][x].sealed
          /\ path'[q][x].received = path[q][x].received
          /\ path'[q][x].etk = path[q][x].etk
          /\ nominated'[q] = nominated[q] /\ cause'[q] = cause[q]
          /\ created'[q] = created[q] /\ delivered'[q] = delivered[q]
      BY <2>1 DEF Elsewhere
    <3>2. StateFits(q, x)'
      BY <1>1, <2>0, <3>1 DEF StateFits, Running
    <3>3. NominationFits(q, x)'
      BY <1>1, <2>0, <3>1 DEF NominationFits, Running
    <3>4. QED BY <3>2, <3>3
  <2>2. CASE q = r /\ x # pid /\ path'[r][x] = path[r][x] /\ nominated'[r] = nominated[r]
    <3>1. CASE nominated[r] = x
      <4>1. /\ nominated'[r] = nominated[r] /\ created'[r] = created[r]
            /\ delivered'[r] = delivered[r] /\ path[r][x].state = "Nominated"
        <5>1. nominated[r] # NoPid
          BY <3>1, RendezvousAssumption
        <5>2. QED BY <2>0, <2>2, <3>1, <5>1 DEF Elsewhere, NominationFits
      <4>2. StateFits(q, x)'
        BY <1>1, <2>0, <2>2, <4>1 DEF StateFits
      <4>3. NominationFits(q, x)'
        BY <1>1, <2>0, <2>2, <4>1 DEF NominationFits, Running
      <4>4. QED BY <4>2, <4>3
    <3>2. CASE nominated[r] # x
      <4>1. nominated'[r] # x
        BY <2>2, <3>2 DEF Elsewhere
      <4>2. path[r][x].state \notin {"Nominated", "Closed", "Invalid"}
        BY <2>0, <2>2, <3>2 DEF StateFits
      <4>3. StateFits(q, x)'
        BY <1>1, <2>0, <2>2, <4>2 DEF StateFits
      <4>4. NominationFits(q, x)'
        BY <2>0, <2>2, <3>2, <4>1 DEF NominationFits
      <4>5. QED BY <4>3, <4>4
    <3>3. QED BY <3>1, <3>2
  <2>3. CASE q = r /\ x # pid /\ path'[r][x] = [path[r][x] EXCEPT !.state = "Dropped"]
             /\ nominated'[r] = pid
    <3>1. /\ path'[r][x].state = "Dropped"
          /\ path'[r][x].sealed = path[r][x].sealed
      BY <2>3 DEF Types, Paths
    <3>2. nominated[r] # x
      <4>1. SUFFICES ASSUME nominated[r] = x PROVE FALSE
        OBVIOUS
      <4>2. nominated'[r] # nominated[r] => nominated[r] = NoPid
        BY DEF Elsewhere
      <4>3. QED BY <2>3, <4>1, <4>2, RendezvousAssumption
    <3>3. StateFits(q, x)'
      BY <2>3, <3>1 DEF StateFits
    <3>4. NominationFits(q, x)'
      BY <2>0, <2>3, <3>1, <3>2 DEF NominationFits
    <3>5. QED BY <3>3, <3>4
  <2>4. CASE q = r /\ x = pid
    BY <2>4
  <2>5. QED BY <2>1, <2>2, <2>3, <2>4 DEF Elsewhere
<1>3. ASSUME NEW q \in Roles, nominated'[q] = NoPid
      PROVE  created'[q] = 0 /\ delivered'[q] = <<>>
  BY <1>3 DEF PathsFit, Elsewhere
<1>4. QED BY <1>2, <1>3 DEF PathsFit

\* A step of a role on a path keeps the invariant if it keeps it on that path.
LEMMA StepKeeps ==
    ASSUME RendezvousInv, nominator' = nominator, NEW r \in Roles, NEW pid \in Pids,
           Running(r), Types', SendsAtMost(r, pid), Circulates, Elsewhere(r, pid),
           StateFits(r, pid)', NominationFits(r, pid)',
           nominated'[r] = NoPid => created'[r] = 0 /\ delivered'[r] = <<>>
    PROVE  RendezvousInv'
<1>1. /\ SentInPlace'
      /\ \A q \in Roles : \A frame : WasSent(q, frame) => NowSent(q, frame)
  BY StaysInPlace DEF RendezvousInv
<1>2. Genuine'
  BY <1>1, StaysGenuine DEF RendezvousInv
<1>3. path' \in [Roles -> [Pids -> Paths]]
  BY DEF Types
<1>4. PathsFit'
  BY <1>3, ElsewhereFits DEF RendezvousInv
<1>5. QED BY <1>1, <1>2, <1>4 DEF RendezvousInv

-----------------------------------------------------------------------------
(* What a frame does to the path it is opened on                           *)

\* The results of process_frame for a path p, with the frame already taken.
Aborted(p, result) ==
    /\ result.error \in Causes \ {"none"}
    /\ \E state \in {"Closed", "Invalid"} : result.path = [p EXCEPT !.state = state]
Replied(r, pid, p, result) ==
    /\ p.state = (IF r = "RID" THEN "AwaitingHello" ELSE "AwaitingAuthHello")
    /\ p.sealed + 1 < MaxSn
    /\ result = Ok([p EXCEPT !.sealed = @ + 1, !.received = @ + 1, !.etk = Secret(pid),
                             !.state = IF r = "RID" THEN "AwaitingAuth"
                                                    ELSE "AwaitingNominate"],
                   <<FrameAt(r, pid, p.sealed + 1)>>, <<>>)
Authenticated(r, p, result) ==
    /\ r = "RID" /\ p.state = "AwaitingAuth"
    /\ result = Ok([p EXCEPT !.received = @ + 1, !.state = "AwaitingNominate"], <<>>, <<>>)
Learnt(r, pid, p, result) ==
    /\ r # nominator /\ p.state = "AwaitingNominate"
    /\ nominated[Peer(r)] = pid
    /\ result = Ok([p EXCEPT !.received = @ + 1, !.state = "Nominated"], <<>>, <<>>)
HandedOut(r, p, result) ==
    /\ p.state = "Nominated"
    /\ Len(delivered[r]) + 1 <= created[Peer(r)]
    /\ result = Ok([p EXCEPT !.received = @ + 1], <<>>, <<Len(delivered[r]) + 1>>)

Processed(r, pid, p, result) ==
    \/ Aborted(p, result)
    \/ /\ p.received + 1 < MaxSn
       /\ \/ Replied(r, pid, p, result)
          \/ Authenticated(r, p, result)
          \/ Learnt(r, pid, p, result)
          \/ HandedOut(r, p, result)

\* What a frame in its place says.
LEMMA ContentFacts ==
    ASSUME NEW r \in Roles, NEW pid \in Pids
    PROVE  /\ r = "RRD" => ContentAt(r, pid, 1) = Hello(pid)
           /\ r = "RID" => ContentAt(r, pid, 1) = AuthHello(pid, Random("RRD", pid))
           /\ r = "RRD" => ContentAt(r, pid, 2) = Auth(Random("RID", pid))
           /\ r = nominator => ContentAt(r, pid, Handshake(r) + 1) = NominateMessage
           /\ \A n \in Nat \ {0} : ContentAt(r, pid, Preamble(r) + n) = Ulp(n)
<1>1. Handshake(r) \in Nat /\ Preamble(r) \in Nat
  BY PreambleFacts
<1>2. ASSUME NEW n \in Nat \ {0} PROVE ContentAt(r, pid, Preamble(r) + n) = Ulp(n)
  <2>1. Preamble(r) + n > Preamble(r) /\ (Preamble(r) + n) - Preamble(r) = n
    BY <1>1
  <2>2. QED BY <2>1 DEF ContentAt
<1>3. r = nominator => ContentAt(r, pid, Handshake(r) + 1) = NominateMessage
  BY <1>1, PreambleFacts DEF ContentAt
<1>4. ContentAt(r, pid, 1) = IF r = "RID" THEN AuthHello(pid, Random("RRD", pid)) ELSE Hello(pid)
  BY <1>1, PreambleFacts DEF ContentAt
<1>5. r = "RRD" => ContentAt(r, pid, 2) = Auth(Random("RID", pid))
  BY <1>1, PreambleFacts DEF ContentAt
<1>6. QED BY <1>2, <1>3, <1>4, <1>5

\* In a path's state, the frame that opens is the one that it awaits.
LEMMA AwaitedFrame ==
    ASSUME RendezvousInv, NEW r \in Roles, NEW pid \in Pids,
           NEW p \in Paths, NEW frame, WasSent(Peer(r), frame),
           p.state = path[r][pid].state, p.received = path[r][pid].received,
           OpenError(r, pid, p, frame) = "none"
    PROVE  /\ p.received + 1 < MaxSn
           /\ p.state = "AwaitingHello" => frame.content = Hello(pid)
           /\ p.state = "AwaitingAuth" => frame.content = Auth(Random("RID", pid))
           /\ p.state = "AwaitingAuthHello" =>
                  frame.content = AuthHello(pid, Random("RRD", pid))
           /\ p.state = "AwaitingNominate" => nominated[Peer(r)] = pid
           /\ p.state = "Nominated" =>
                  /\ frame.content = Ulp(Len(delivered[r]) + 1)
                  /\ Len(delivered[r]) + 1 <= created[Peer(r)]
<1> DEFINE q == Peer(r)
<1>0. q \in Roles /\ q # r
  BY PeerFacts
<1>1. Types /\ SentInPlace /\ PathsFit /\ p.received \in 0 .. MaxSn - 1 /\ p.received \in Nat
  BY RendezvousAssumption DEF RendezvousInv, Paths
<1>2. /\ p.received + 1 \in 1 .. Len(sent[q][pid])
      /\ frame = FrameAt(q, pid, p.received + 1)
      /\ p.received + 1 # MaxSn
  BY <1>1, OpenedInPlace
<1>3. frame.content = ContentAt(q, pid, p.received + 1)
  BY <1>2 DEF FrameAt
<1>4. /\ StateFits(r, pid) /\ NominationFits(q, pid)
      /\ path[q][pid].sealed = Len(sent[q][pid])
  BY <1>0, <1>1 DEF PathsFit, SentInPlace
<1>5. p.received + 1 < MaxSn
  BY <1>1, <1>2, RendezvousAssumption
<1>6. CASE p.state \in {"AwaitingHello", "AwaitingAuth", "AwaitingAuthHello"}
  <2>1. /\ p.state = "AwaitingHello" => q = "RRD" /\ p.received = 0
        /\ p.state = "AwaitingAuth" => q = "RRD" /\ p.received = 1
        /\ p.state = "AwaitingAuthHello" => q = "RID" /\ p.received = 0
    BY <1>0, <1>4 DEF StateFits, Roles
  <2>2. QED BY <1>0, <1>3, <1>5, <1>6, <2>1, ContentFacts
<1>7. CASE p.state = "AwaitingNominate"
  <2>1. p.received = Handshake(q)
    BY <1>4, <1>7 DEF StateFits
  <2>2. path[q][pid].sealed > Handshake(q)
    BY <1>0, <1>1, <1>2, <1>4, <2>1, PreambleFacts
  <2>3. nominated[q] = pid
    BY <1>0, <1>4, <2>2, PreambleFacts DEF NominationFits
  <2>4. QED BY <1>5, <1>7, <2>3
<1>8. CASE p.state = "Nominated"
  <2>1. p.received = Preamble(q) + Len(delivered[r]) /\ Len(delivered[r]) \in Nat
    BY <1>1, <1>4, <1>8 DEF StateFits, Types
  <2>2. Preamble(q) \in Nat /\ Handshake(q) \in Nat /\ Preamble(q) >= Handshake(q)
    BY <1>0, PreambleFacts
  <2>3. /\ p.received + 1 = Preamble(q) + (Len(delivered[r]) + 1)
        /\ Len(delivered[r]) + 1 \in Nat \ {0}
    BY <2>1, <2>2
  <2>4. frame.content = Ulp(Len(delivered[r]) + 1)
    BY <1>0, <1>3, <2>3, ContentFacts
  <2>5. path[q][pid].sealed > Handshake(q) /\ path[q][pid].sealed >= p.received + 1
    <3>1. path[q][pid].sealed >= p.received + 1
      BY <1>0, <1>1, <1>2, <1>4 DEF Types
    <3>2. path[q][pid].sealed \in Nat
      BY <1>0, <1>1, RendezvousAssumption DEF Types, Paths
    <3>3. QED BY <2>1, <2>2, <3>1, <3>2
  <2>6. nominated[q] = pid
    <3>1. path[q][pid].sealed \in Nat
      BY <1>0, <1>1, RendezvousAssumption DEF Types, Paths
    <3>2. QED BY <1>4, <2>2, <2>5, <3>1 DEF NominationFits
  <2>7. path[q][pid].sealed = Preamble(q) + created[q] /\ created[q] \in Nat
    BY <1>0, <1>1, <1>4, <2>6, RendezvousAssumption DEF NominationFits, Types
  <2>8. Len(delivered[r]) + 1 <= created[q]
    BY <2>1, <2>2, <2>3, <2>5, <2>7
  <2>9. QED BY <1>5, <1>8, <2>4, <2>8
<1>9. CASE p.state \in {"Closed", "Invalid", "Dropped"}
  BY <1>5, <1>9
<1>10. p.state \in PathStates
  BY DEF Paths
<1>11. QED BY <1>6, <1>7, <1>8, <1>9, <1>10 DEF PathStates, Racing

\* The initiator processes a frame (RidPath, process_frame).
LEMMA RidProcessed ==
    ASSUME RendezvousInv, NEW pid \in Pids, Running("RID"), Known("RID", pid),
           NEW p \in Paths, NEW frame, WasSent("RRD", frame),
           p.state = path["RID"][pid].state, p.sealed = path["RID"][pid].sealed,
           p.received = path["RID"][pid].received, p.etk = path["RID"][pid].etk
    PROVE  Processed("RID", pid, p, RidProcessFrame(pid, p, frame))
<1> DEFINE result == RidProcessFrame(pid, p, frame)
           error == OpenError("RID", pid, p, frame)
<1>0. "RID" \in Roles /\ Peer("RID") = "RRD" /\ "RRD" \in Roles
  BY DEF Roles, Peer
<1>1. error \in {"none", "DecryptionFailed", "SequenceNumberOverflow"}
  BY DEF OpenError
<1>2. CASE p.state = "AwaitingNominate" /\ nominator = "RID"
  <2>1. result = Failed(p, "Invalid", "UnexpectedFrame")
    BY <1>2 DEF RidProcessFrame
  <2>2. Aborted(p, result)
    BY <2>1 DEF Failed, Aborted, Causes
  <2>3. QED BY <2>2 DEF Processed
<1>3. CASE ~(p.state = "AwaitingNominate" /\ nominator = "RID") /\ error # "none"
  <2>1. result = Failed(p, "Closed", error)
    BY <1>3 DEF RidProcessFrame
  <2>2. Aborted(p, result)
    BY <1>1, <1>3, <2>1 DEF Failed, Aborted, Causes
  <2>3. QED BY <2>2 DEF Processed
<1>4. CASE ~(p.state = "AwaitingNominate" /\ nominator = "RID") /\ error = "none"
  <2>1. /\ p.received + 1 < MaxSn
        /\ p.state = "AwaitingHello" => frame.content = Hello(pid)
        /\ p.state = "AwaitingAuth" => frame.content = Auth(Random("RID", pid))
        /\ p.state = "AwaitingNominate" => nominated["RRD"] = pid
        /\ p.state = "Nominated" =>
               /\ frame.content = Ulp(Len(delivered["RID"]) + 1)
               /\ Len(delivered["RID"]) + 1 <= created["RRD"]
    BY <1>0, <1>4, AwaitedFrame
  <2>2. StateFits("RID", pid)
    BY <1>0 DEF RendezvousInv, PathsFit
  <2>3. p.state \in {"AwaitingHello", "AwaitingAuth", "AwaitingNominate", "Nominated"}
    <3>1. p.state \in PathStates
      BY DEF Paths
    <3>2. p.state \notin {"Closed", "Invalid", "AwaitingAuthHello"}
      BY <2>2 DEF StateFits
    <3>3. p.state # "Dropped"
      BY DEF Known
    <3>4. QED BY <3>1, <3>2, <3>3 DEF PathStates, Racing
  <2>4. CASE p.state = "AwaitingHello"
    <3>1. result = RidHandleHello(pid, p, frame)
      BY <1>4, <2>4 DEF RidProcessFrame
    <3>2. frame.content.challenge = Random("RRD", pid) /\ frame.content.etk = Random("RRD", pid)
      BY <2>1, <2>4 DEF Hello
    <3>3. CASE ~CanSeal(p)
      <4>1. result = Failed(p, "Closed", "SequenceNumberOverflow")
        BY <3>1, <3>3 DEF RidHandleHello
      <4>2. Aborted(p, result)
        BY <4>1 DEF Failed, Aborted, Causes
      <4>3. QED BY <4>2 DEF Processed
    <3>4. CASE CanSeal(p)
      <4>1. p.sealed = 0
        <5>1. path["RID"][pid].sealed = 0
          BY <2>2, <2>4 DEF StateFits
        <5>2. QED BY <5>1
      <4>2. Seal("RID", pid, p, AuthHello(pid, frame.content.challenge))
                = FrameAt("RID", pid, p.sealed + 1)
        <5>1. KeyOf(p, "RID") = Key("RID", NoEtk)
          BY <2>4 DEF KeyOf, Racing
        <5>2. ContentAt("RID", pid, 1) = AuthHello(pid, Random("RRD", pid))
          BY <1>0, ContentFacts
        <5>3. 1 <= Handshake("RID") /\ p.sealed + 1 = 1
          BY <4>1 DEF Handshake
        <5>4. QED BY <3>2, <5>1, <5>2, <5>3 DEF Seal, FrameAt
      <4>3. [AfterOpen(AfterSeal(p)) EXCEPT
                 !.state = "AwaitingAuth", !.etk = {Random("RID", pid), frame.content.etk}]
            = [p EXCEPT !.sealed = @ + 1, !.received = @ + 1, !.etk = Secret(pid),
                        !.state = "AwaitingAuth"]
        BY <3>2 DEF AfterOpen, AfterSeal, Secret, Paths
      <4>4. Replied("RID", pid, p, result)
        BY <2>4, <3>1, <3>4, <4>2, <4>3 DEF RidHandleHello, Replied, CanSeal
      <4>5. QED BY <2>1, <4>4 DEF Processed
    <3>5. QED BY <3>3, <3>4
  <2>5. CASE p.state = "AwaitingAuth"
    <3>1. result = RidHandleAuth(pid, p, frame)
      BY <1>4, <2>5 DEF RidProcessFrame
    <3>2. frame.content.response = Random("RID", pid)
      BY <2>1, <2>5 DEF Auth
    <3>3. [AfterOpen(p) EXCEPT !.state = "AwaitingNominate"]
          = [p EXCEPT !.received = @ + 1, !.state = "AwaitingNominate"]
      BY DEF AfterOpen, Paths
    <3>4. Authenticated("RID", p, result)
      BY <2>5, <3>1, <3>2, <3>3 DEF RidHandleAuth, Authenticated
    <3>5. QED BY <2>1, <3>4 DEF Processed
  <2>6. CASE p.state = "AwaitingNominate"
    <3>1. result = RidHandleNominate(pid, p, frame)
      BY <1>4, <2>6 DEF RidProcessFrame
    <3>2. [AfterOpen(p) EXCEPT !.state = "Nominated"]
          = [p EXCEPT !.received = @ + 1, !.state = "Nominated"]
      BY DEF AfterOpen, Paths
    <3>3. Learnt("RID", pid, p, result)
      BY <1>0, <1>4, <2>1, <2>6, <3>1, <3>2 DEF RidHandleNominate, Learnt
    <3>4. QED BY <2>1, <3>3 DEF Processed
  <2>7. CASE p.state = "Nominated"
    <3>1. result = RidHandleUlpData(pid, p, frame)
      BY <1>4, <2>7 DEF RidProcessFrame
    <3>2. frame.content.data = Len(delivered["RID"]) + 1
      BY <2>1, <2>7 DEF Ulp
    <3>3. HandedOut("RID", p, result)
      BY <1>0, <2>1, <2>7, <3>1, <3>2 DEF RidHandleUlpData, HandedOut, AfterOpen
    <3>4. QED BY <2>1, <3>3 DEF Processed
  <2>8. QED BY <2>3, <2>4, <2>5, <2>6, <2>7
<1>5. QED BY <1>2, <1>3, <1>4

\* The responder processes a frame (RrdPath, process_frame).
LEMMA RrdProcessed ==
    ASSUME RendezvousInv, NEW pid \in Pids, Running("RRD"), Known("RRD", pid),
           NEW p \in Paths, NEW frame, WasSent("RID", frame),
           p.state = path["RRD"][pid].state, p.sealed = path["RRD"][pid].sealed,
           p.received = path["RRD"][pid].received, p.etk = path["RRD"][pid].etk
    PROVE  Processed("RRD", pid, p, RrdProcessFrame(pid, p, frame))
<1> DEFINE result == RrdProcessFrame(pid, p, frame)
           error == OpenError("RRD", pid, p, frame)
<1>0. "RID" \in Roles /\ Peer("RRD") = "RID" /\ "RRD" \in Roles
  BY DEF Roles, Peer
<1>1. error \in {"none", "DecryptionFailed", "SequenceNumberOverflow"}
  BY DEF OpenError
<1>2. CASE p.state = "AwaitingNominate" /\ nominator = "RRD"
  <2>1. result = Failed(p, "Invalid", "UnexpectedFrame")
    BY <1>2 DEF RrdProcessFrame
  <2>2. Aborted(p, result)
    BY <2>1 DEF Failed, Aborted, Causes
  <2>3. QED BY <2>2 DEF Processed
<1>3. CASE ~(p.state = "AwaitingNominate" /\ nominator = "RRD") /\ error # "none"
  <2>1. result = Failed(p, "Closed", error)
    BY <1>3 DEF RrdProcessFrame
  <2>2. Aborted(p, result)
    BY <1>1, <1>3, <2>1 DEF Failed, Aborted, Causes
  <2>3. QED BY <2>2 DEF Processed
<1>4. CASE ~(p.state = "AwaitingNominate" /\ nominator = "RRD") /\ error = "none"
  <2>1. /\ p.received + 1 < MaxSn
        /\ p.state = "AwaitingAuthHello" => frame.content = AuthHello(pid, Random("RRD", pid))
        /\ p.state = "AwaitingNominate" => nominated["RID"] = pid
        /\ p.state = "Nominated" =>
               /\ frame.content = Ulp(Len(delivered["RRD"]) + 1)
               /\ Len(delivered["RRD"]) + 1 <= created["RID"]
    BY <1>0, <1>4, AwaitedFrame
  <2>2. StateFits("RRD", pid)
    BY <1>0 DEF RendezvousInv, PathsFit
  <2>3. p.state \in {"AwaitingAuthHello", "AwaitingNominate", "Nominated"}
    <3>1. p.state \in PathStates
      BY DEF Paths
    <3>2. p.state \notin {"Closed", "Invalid", "AwaitingHello", "AwaitingAuth"}
      BY <2>2 DEF StateFits
    <3>3. p.state # "Dropped"
      BY DEF Known
    <3>4. QED BY <3>1, <3>2, <3>3 DEF PathStates, Racing
  <2>4. CASE p.state = "AwaitingAuthHello"
    <3>1. result = RrdHandleAuthHello(pid, p, frame)
      BY <1>4, <2>4 DEF RrdProcessFrame
    <3>2. /\ frame.content.response = Random("RRD", pid)
          /\ frame.content.challenge = Random("RID", pid)
          /\ frame.content.etk = Random("RID", pid)
      BY <2>1, <2>4 DEF AuthHello
    <3>3. CASE ~CanSeal(p)
      <4>1. result = Failed(p, "Closed", "SequenceNumberOverflow")
        BY <3>1, <3>2, <3>3 DEF RrdHandleAuthHello
      <4>2. Aborted(p, result)
        BY <4>1 DEF Failed, Aborted, Causes
      <4>3. QED BY <4>2 DEF Processed
    <3>4. CASE CanSeal(p)
      <4>1. p.sealed = 1
        <5>1. path["RRD"][pid].sealed = 1
          BY <2>2, <2>4 DEF StateFits
        <5>2. QED BY <5>1
      <4>2. Seal("RRD", pid, p, Auth(frame.content.challenge))
                = FrameAt("RRD", pid, p.sealed + 1)
        <5>1. KeyOf(p, "RRD") = Key("RRD", NoEtk)
          BY <2>4 DEF KeyOf, Racing
        <5>2. ContentAt("RRD", pid, 2) = Auth(Random("RID", pid))
          BY <1>0, ContentFacts
        <5>3. 2 <= Handshake("RRD") /\ p.sealed + 1 = 2
          BY <4>1 DEF Handshake
        <5>4. QED BY <3>2, <5>1, <5>2, <5>3 DEF Seal, FrameAt
      <4>3. [AfterOpen(AfterSeal(p)) EXCEPT
                 !.state = "AwaitingNominate", !.etk = {Random("RRD", pid), frame.content.etk}]
            = [p EXCEPT !.sealed = @ + 1, !.received = @ + 1, !.etk = Secret(pid),
                        !.state = "AwaitingNominate"]
        <5>1. {Random("RRD", pid), frame.content.etk} = Secret(pid)
          BY <3>2 DEF Secret
        <5>2. QED BY <5>1 DEF AfterOpen, AfterSeal, Paths
      <4>4. Replied("RRD", pid, p, result)
        BY <2>4, <3>1, <3>2, <3>4, <4>2, <4>3 DEF RrdHandleAuthHello, Replied, CanSeal
      <4>5. QED BY <2>1, <4>4 DEF Processed
    <3>5. QED BY <3>3, <3>4
  <2>6. CASE p.state = "AwaitingNominate"
    <3>1. result = RrdHandleNominate(pid, p, frame)
      BY <1>4, <2>6 DEF RrdProcessFrame
    <3>2. [AfterOpen(p) EXCEPT !.state = "Nominated"]
          = [p EXCEPT !.received = @ + 1, !.state = "Nominated"]
      BY DEF AfterOpen, Paths
    <3>3. Learnt("RRD", pid, p, result)
      BY <1>0, <1>4, <2>1, <2>6, <3>1, <3>2 DEF RrdHandleNominate, Learnt
    <3>4. QED BY <2>1, <3>3 DEF Processed
  <2>7. CASE p.state = "Nominated"
    <3>1. result = RrdHandleUlpData(pid, p, frame)
      BY <1>4, <2>7 DEF RrdProcessFrame
    <3>2. frame.content.data = Len(delivered["RRD"]) + 1
      BY <2>1, <2>7 DEF Ulp
    <3>3. HandedOut("RRD", p, result)
      BY <1>0, <2>1, <2>7, <3>1, <3>2 DEF RrdHandleUlpData, HandedOut, AfterOpen
    <3>4. QED BY <2>1, <3>3 DEF Processed
  <2>8. QED BY <2>3, <2>4, <2>6, <2>7
<1>5. QED BY <1>2, <1>3, <1>4

-----------------------------------------------------------------------------
(* The steps                                                               *)

\* A step that sends nothing
LEMMA SendsNothing ==
    ASSUME NEW r \in Roles, NEW pid \in Pids, sent' = sent,
           \A q \in Roles, x \in Pids : path'[q][x].sealed = path[q][x].sealed
    PROVE  SendsAtMost(r, pid)
  BY DEF SendsAtMost

\* Replacing a path replaces that path and no other, ...
LEMMA PathUpdated ==
    ASSUME path \in [Roles -> [Pids -> Paths]], NEW r \in Roles, NEW pid \in Pids,
           NEW p \in Paths
    PROVE  /\ [path EXCEPT ![r][pid] = p] \in [Roles -> [Pids -> Paths]]
           /\ \A q \in Roles, x \in Pids : [path EXCEPT ![r][pid] = p][q][x] =
                  IF q = r /\ x = pid THEN p ELSE path[q][x]
  OBVIOUS

\* ... and so does replacing its decoder.
LEMMA DecoderUpdated ==
    ASSUME path \in [Roles -> [Pids -> Paths]], NEW r \in Roles, NEW pid \in Pids,
           NEW d \in Decoders
    PROVE  /\ [path EXCEPT ![r][pid].decoder = d] \in [Roles -> [Pids -> Paths]]
           /\ \A q \in Roles, x \in Pids : [path EXCEPT ![r][pid].decoder = d][q][x] =
                  IF q = r /\ x = pid THEN [path[r][pid] EXCEPT !.decoder = d] ELSE path[q][x]
<1>1. [path[r][pid] EXCEPT !.decoder = d] \in Paths
  <2>1. path[r][pid] \in Paths
    OBVIOUS
  <2>2. \A p \in Paths : [p EXCEPT !.decoder = d] \in Paths
    BY DEF Paths
  <2>3. QED BY <2>1, <2>2
<1>2. [path EXCEPT ![r][pid].decoder = d]
          = [path EXCEPT ![r][pid] = [path[r][pid] EXCEPT !.decoder = d]]
  OBVIOUS
<1>3. QED BY <1>1, <1>2, PathUpdated

\* Received units are added to the decoder (add_chunks).
LEMMA AddChunksKeeps ==
    ASSUME RendezvousInv, NEW r \in Roles, NEW pid \in Pids,
           NEW n \in 1 .. Len(wire[r][pid]), AddChunks(r, pid, n)
    PROVE  RendezvousInv'
<1>0. /\ Types /\ path \in [Roles -> [Pids -> Paths]]
      /\ wire \in [Roles -> [Pids -> Seq(UlpUnits)]] /\ cause \in [Roles -> Causes]
      /\ path[r][pid] \in Paths /\ wire[r][pid] \in Seq(UlpUnits)
      /\ path[r][pid].decoder \in Decoders
      /\ path[r][pid].decoder.data \in Seq(UlpUnits)
  <2>1. /\ Types /\ path \in [Roles -> [Pids -> Paths]]
        /\ wire \in [Roles -> [Pids -> Seq(UlpUnits)]] /\ cause \in [Roles -> Causes]
    BY DEF RendezvousInv, Types
  <2>2. path[r][pid] \in Paths /\ wire[r][pid] \in Seq(UlpUnits)
    BY <2>1
  <2>3. path[r][pid].decoder \in Decoders
    BY <2>2 DEF Paths
  <2>4. path[r][pid].decoder.data \in Seq(UlpUnits)
    BY <2>3 DEF Decoders
  <2>5. QED BY <2>1, <2>2, <2>3, <2>4
<1>1. PICK data, units : data = path[r][pid].decoder.data /\ units = wire[r][pid]
  OBVIOUS
<1>2. /\ data \in Seq(UlpUnits) /\ units \in Seq(UlpUnits)
      /\ Len(data) \in Nat /\ Len(units) \in Nat /\ n \in 1 .. Len(units)
  BY <1>0, <1>1
<1>3. /\ Drain(units, n) \in Seq(UlpUnits)
      /\ \A k \in 1 .. Len(Drain(units, n)) :
             \E j \in 1 .. Len(units) : Drain(units, n)[k] = units[j]
  <2>1. Drain(units, n) \in Seq(UlpUnits) /\ Len(Drain(units, n)) = Len(units) - n
    BY <1>2 DEF Drain
  <2>2. \A k \in 1 .. Len(units) - n : Drain(units, n)[k] = units[k + n]
    BY <1>2 DEF Drain
  <2>3. \A k \in 1 .. Len(units) - n : k + n \in 1 .. Len(units)
    BY <1>2
  <2>4. QED BY <2>1, <2>2, <2>3
<1>4. /\ data \o First(units, n) \in Seq(UlpUnits)
      /\ \A k \in 1 .. Len(data \o First(units, n)) :
             \/ \E j \in 1 .. Len(data) : (data \o First(units, n))[k] = data[j]
             \/ \E j \in 1 .. Len(units) : (data \o First(units, n))[k] = units[j]
  <2>1. PICK chunk : chunk = First(units, n)
    OBVIOUS
  <2>2. /\ chunk \in Seq(UlpUnits) /\ Len(chunk) = n
        /\ \A k \in 1 .. n : chunk[k] = units[k]
    BY <1>2, <2>1 DEF First
  <2>3. data \o chunk \in Seq(UlpUnits) /\ Len(data \o chunk) = Len(data) + n
    BY <1>2, <2>2
  <2>4. /\ \A k \in 1 .. Len(data) : (data \o chunk)[k] = data[k]
        /\ \A k \in Len(data) + 1 .. Len(data) + n : (data \o chunk)[k] = chunk[k - Len(data)]
    BY <1>2, <2>2
  <2>5. \A k \in Len(data) + 1 .. Len(data) + n :
            k - Len(data) \in 1 .. n /\ k - Len(data) \in 1 .. Len(units)
    BY <1>2
  <2>6. \A k \in 1 .. Len(data) + n :
            k \in 1 .. Len(data) \/ k \in Len(data) + 1 .. Len(data) + n
    BY <1>2
  <2>7. ASSUME NEW k \in 1 .. Len(data) + n
        PROVE  \/ \E j \in 1 .. Len(data) : (data \o chunk)[k] = data[j]
               \/ \E j \in 1 .. Len(units) : (data \o chunk)[k] = units[j]
    <3>1. CASE k \in 1 .. Len(data)
      BY <2>4, <3>1
    <3>2. CASE k \in Len(data) + 1 .. Len(data) + n
      <4>1. (data \o chunk)[k] = units[k - Len(data)] /\ k - Len(data) \in 1 .. Len(units)
        BY <2>2, <2>4, <2>5, <3>2
      <4>2. QED BY <4>1
    <3>3. QED BY <2>6, <3>1, <3>2
  <2>8. QED BY <2>1, <2>3, <2>7
<1> DEFINE decoder == AddChunk(path[r][pid].decoder, First(wire[r][pid], n))
<1>5. decoder \in Decoders /\ decoder.data = data \o First(units, n)
  BY <1>0, <1>1, <1>4 DEF AddChunk, Decoders
<1>6. /\ Running(r) /\ nominator' = nominator /\ stray' = stray /\ nominated' = nominated
      /\ sent' = sent /\ created' = created /\ delivered' = delivered
      /\ wire' = [wire EXCEPT ![r][pid] = Drain(units, n)]
      /\ \/ path' = path
         \/ path' = [path EXCEPT ![r][pid].decoder = decoder]
      /\ \/ cause' = cause
         \/ cause' = [cause EXCEPT ![r] = "OversizedFrame"]
         \/ cause' = [cause EXCEPT ![r] = "UnknownOrDroppedPath"]
  BY <1>1 DEF AddChunks
<1> HIDE DEF decoder
<1>7. /\ path' \in [Roles -> [Pids -> Paths]]
      /\ \A q \in Roles, x \in Pids :
             /\ path'[q][x].state = path[q][x].state
             /\ path'[q][x].sealed = path[q][x].sealed
             /\ path'[q][x].received = path[q][x].received
             /\ path'[q][x].etk = path[q][x].etk
             /\ \/ path'[q][x] = path[q][x]
                \/ q = r /\ x = pid /\ path'[q][x].decoder = decoder
  <2>1. CASE path' = path
    BY <1>0, <2>1
  <2>2. CASE path' = [path EXCEPT ![r][pid].decoder = decoder]
    <3>1. \A q \in Roles, x \in Pids : path'[q][x] =
              IF q = r /\ x = pid THEN [path[r][pid] EXCEPT !.decoder = decoder] ELSE path[q][x]
      BY <1>0, <1>5, <2>2, DecoderUpdated
    <3>2. path' \in [Roles -> [Pids -> Paths]]
      BY <1>0, <1>5, <2>2, DecoderUpdated
    <3>3. LET p == [path[r][pid] EXCEPT !.decoder = decoder]
          IN  /\ p.state = path[r][pid].state /\ p.sealed = path[r][pid].sealed
              /\ p.received = path[r][pid].received /\ p.etk = path[r][pid].etk
              /\ p.decoder = decoder
      BY <1>0 DEF Paths
    <3>4. QED BY <3>1, <3>2, <3>3
  <2>3. QED BY <1>6, <2>1, <2>2
<1>8. \A q \in Roles, x \in Pids :
          wire'[q][x] = IF q = r /\ x = pid THEN Drain(units, n) ELSE wire[q][x]
  BY <1>0, <1>6
<1>9. Types'
  <2>1. wire' \in [Roles -> [Pids -> Seq(UlpUnits)]]
    BY <1>0, <1>3, <1>6
  <2>2. cause' \in [Roles -> Causes]
    BY <1>0, <1>6 DEF Causes
  <2>3. QED BY <1>0, <1>6, <1>7, <2>1, <2>2 DEF Types
<1>10. Circulates
  <2> SUFFICES ASSUME NEW q \in Roles, NEW x \in Pids
               PROVE  /\ \A k \in 1 .. Len(wire'[q][x]) :
                             \E j \in 1 .. Len(wire[q][x]) : wire'[q][x][k] = wire[q][x][j]
                      /\ \A k \in 1 .. Len(path'[q][x].decoder.data) :
                             \/ \E j \in 1 .. Len(path[q][x].decoder.data) :
                                    path'[q][x].decoder.data[k] = path[q][x].decoder.data[j]
                             \/ \E j \in 1 .. Len(wire[q][x]) :
                                    path'[q][x].decoder.data[k] = wire[q][x][j]
    BY DEF Circulates
  <2>1. \A k \in 1 .. Len(wire'[q][x]) :
            \E j \in 1 .. Len(wire[q][x]) : wire'[q][x][k] = wire[q][x][j]
    <3>1. CASE q = r /\ x = pid
      <4>1. wire'[q][x] = Drain(units, n) /\ wire[q][x] = units
        BY <1>1, <1>8, <3>1
      <4>2. QED BY <1>3, <4>1
    <3>2. CASE ~(q = r /\ x = pid)
      BY <1>8, <3>2
    <3>3. QED BY <3>1, <3>2
  <2>2. CASE path'[q][x] = path[q][x]
    BY <2>1, <2>2
  <2>3. CASE q = r /\ x = pid /\ path'[q][x].decoder = decoder
    <3>1. /\ path'[q][x].decoder.data = data \o First(units, n)
          /\ path[q][x].decoder.data = data /\ wire[q][x] = units
      BY <1>1, <1>5, <2>3
    <3>2. \A k \in 1 .. Len(path'[q][x].decoder.data) :
              \/ \E j \in 1 .. Len(path[q][x].decoder.data) :
                     path'[q][x].decoder.data[k] = path[q][x].decoder.data[j]
              \/ \E j \in 1 .. Len(wire[q][x]) :
                     path'[q][x].decoder.data[k] = wire[q][x][j]
      <4>1. PICK after : after = path'[q][x].decoder.data
        OBVIOUS
      <4>2. PICK before, incoming : before = path[q][x].decoder.data /\ incoming = wire[q][x]
        OBVIOUS
      <4>3. after = data \o First(units, n) /\ before = data /\ incoming = units
        BY <3>1, <4>1, <4>2
      <4>4. \A k \in 1 .. Len(after) :
                \/ \E j \in 1 .. Len(before) : after[k] = before[j]
                \/ \E j \in 1 .. Len(incoming) : after[k] = incoming[j]
        BY <1>4, <4>3
      <4>5. QED BY <4>1, <4>2, <4>4
    <3>3. QED BY <2>1, <3>2
  <2>4. QED BY <1>7, <2>2, <2>3
<1>11. SendsAtMost(r, pid)
  BY <1>6, <1>7, SendsNothing
<1>12. \A q \in Roles : q # r => cause'[q] = cause[q]
  BY <1>0, <1>6
<1>13. \A q \in Roles : Running(q)' => Running(q)
  BY <1>0, <1>6 DEF Running
<1>14. PathsFit'
  <2>1. \A q : Preamble(q)' = Preamble(q)
    BY <1>6, SamePosition
  <2>2. ASSUME NEW q \in Roles, NEW x \in Pids PROVE StateFits(q, x)' /\ NominationFits(q, x)'
    <3>1. StateFits(q, x) /\ NominationFits(q, x)
      BY DEF RendezvousInv, PathsFit
    <3>2. StateFits(q, x)'
      BY <1>6, <1>7, <1>13, <2>1, <3>1 DEF StateFits
    <3>3. NominationFits(q, x)'
      BY <1>6, <1>7, <1>13, <2>1, <3>1 DEF NominationFits
    <3>4. QED BY <3>2, <3>3
  <2>3. QED BY <1>6, <2>2 DEF RendezvousInv, PathsFit
<1>15. SentInPlace' /\ Genuine'
  <2>1. /\ SentInPlace'
        /\ \A q \in Roles : \A frame : WasSent(q, frame) => NowSent(q, frame)
    BY <1>6, <1>11, StaysInPlace DEF RendezvousInv
  <2>2. QED BY <1>6, <1>10, <2>1, StaysGenuine DEF RendezvousInv
<1>16. QED BY <1>9, <1>14, <1>15 DEF RendezvousInv

Dropped(p) == [p EXCEPT !.state = "Dropped"]

\* The nomination replaces a path and drops the role's others (the race ends).
LEMMA PathNominated ==
    ASSUME path \in [Roles -> [Pids -> Paths]], NEW r \in Roles, NEW pid \in Pids,
           NEW p \in Paths
    PROVE  /\ AfterNomination(r, pid, p) \in [Roles -> [Pids -> Paths]]
           /\ \A q \in Roles, x \in Pids : AfterNomination(r, pid, p)[q][x] =
                  IF q # r THEN path[q][x]
                  ELSE IF x = pid THEN p ELSE Dropped(path[r][x])
<1>1. \A x \in Pids : path[r][x] \in Paths
  OBVIOUS
<1>2. \A old \in Paths : Dropped(old) \in Paths
  BY DEF Paths, PathStates, Dropped
<1>3. [x \in Pids |-> IF x = pid THEN p ELSE Dropped(path[r][x])] \in [Pids -> Paths]
  BY <1>1, <1>2
<1>4. AfterNomination(r, pid, p) =
          [path EXCEPT ![r] = [x \in Pids |-> IF x = pid THEN p ELSE Dropped(path[r][x])]]
  BY DEF AfterNomination, Dropped
<1>5. QED BY <1>3, <1>4

\* A path takes a step: with the frame next in its place sent, or none.
Sends(r, pid, frame) ==
    /\ sent' = [sent EXCEPT ![r][pid] = @ \o <<frame>>]
    /\ wire' = [wire EXCEPT ![Peer(r)][pid] = @ \o EncodeFrame(frame)]

\* The frame that is sent stands in its place and is genuine.
LEMMA SendsInPlace ==
    ASSUME Types, SentInPlace, NEW r \in Roles, NEW pid \in Pids, NEW i,
           i = path[r][pid].sealed + 1, FrameAt(r, pid, i) \in Frames,
           Sends(r, pid, FrameAt(r, pid, i))
    PROVE  /\ sent' \in [Roles -> [Pids -> Seq(Frames)]]
           /\ wire' \in [Roles -> [Pids -> Seq(UlpUnits)]]
           /\ sent'[r][pid] = Append(sent[r][pid], FrameAt(r, pid, i))
           /\ \A q \in Roles, x \in Pids :
                  <<q, x>> # <<r, pid>> => sent'[q][x] = sent[q][x]
           /\ \A q \in Roles, x \in Pids : \A k \in 1 .. Len(wire'[q][x]) :
                  \/ \E j \in 1 .. Len(wire[q][x]) : wire'[q][x][k] = wire[q][x][j]
                  \/ NowSent(Peer(q), wire'[q][x][k].frame)
<1>0. /\ Peer(r) \in Roles /\ Peer(Peer(r)) = r
      /\ sent \in [Roles -> [Pids -> Seq(Frames)]]
      /\ wire \in [Roles -> [Pids -> Seq(UlpUnits)]]
      /\ Len(sent[r][pid]) \in Nat /\ i = Len(sent[r][pid]) + 1
  BY PeerFacts DEF Types, SentInPlace
<1>1. PICK frame : frame = FrameAt(r, pid, i)
  OBVIOUS
<1>2. frame \in Frames
  BY <1>1
<1>3. /\ sent[r][pid] \o <<frame>> = Append(sent[r][pid], frame)
      /\ Append(sent[r][pid], frame) \in Seq(Frames)
      /\ Len(Append(sent[r][pid], frame)) = i
  <2>1. sent[r][pid] \in Seq(Frames)
    BY <1>0
  <2>2. QED BY <1>0, <1>2, <2>1
<1>4. /\ sent' \in [Roles -> [Pids -> Seq(Frames)]]
      /\ \A q \in Roles, x \in Pids : sent'[q][x] =
             IF q = r /\ x = pid THEN Append(sent[r][pid], frame) ELSE sent[q][x]
  <2>1. sent' = [sent EXCEPT ![r][pid] = Append(sent[r][pid], frame)]
    BY <1>1, <1>3 DEF Sends
  <2>2. QED BY <1>0, <1>3, <2>1
<1>5. PICK units : units = EncodeFrame(frame)
  OBVIOUS
<1>6. units \in Seq(UlpUnits) /\ \A k \in 1 .. Len(units) : units[k].frame = frame
  BY <1>2, <1>5, EncodedUnits
<1>7. PICK before : before = wire[Peer(r)][pid]
  OBVIOUS
<1>8. before \in Seq(UlpUnits) /\ Len(before) \in Nat
  BY <1>0, <1>7
<1>9. /\ before \o units \in Seq(UlpUnits)
      /\ \A k \in 1 .. Len(before \o units) :
             \/ \E j \in 1 .. Len(before) : (before \o units)[k] = before[j]
             \/ (before \o units)[k].frame = frame
  <2>1. before \o units \in Seq(UlpUnits) /\ Len(before \o units) = Len(before) + Len(units)
        /\ Len(units) \in Nat
    BY <1>6, <1>8
  <2>2. /\ \A k \in 1 .. Len(before) : (before \o units)[k] = before[k]
        /\ \A k \in Len(before) + 1 .. Len(before) + Len(units) :
               (before \o units)[k] = units[k - Len(before)]
    BY <1>6, <1>8
  <2>3. \A k \in Len(before) + 1 .. Len(before) + Len(units) : k - Len(before) \in 1 .. Len(units)
    BY <1>8, <2>1
  <2>4. \A k \in Len(before) + 1 .. Len(before) + Len(units) : (before \o units)[k].frame = frame
    BY <1>6, <2>2, <2>3
  <2>5. ASSUME NEW k \in 1 .. Len(before) + Len(units)
        PROVE  \/ \E j \in 1 .. Len(before) : (before \o units)[k] = before[j]
               \/ (before \o units)[k].frame = frame
    <3>1. k \in 1 .. Len(before) \/ k \in Len(before) + 1 .. Len(before) + Len(units)
      BY <1>8, <2>1
    <3>2. QED BY <2>2, <2>4, <3>1
  <2>6. QED BY <2>1, <2>5
<1>10. /\ wire' \in [Roles -> [Pids -> Seq(UlpUnits)]]
       /\ \A q \in Roles, x \in Pids : wire'[q][x] =
              IF q = Peer(r) /\ x = pid THEN before \o units ELSE wire[q][x]
  <2>1. wire' = [wire EXCEPT ![Peer(r)][pid] = before \o units]
    BY <1>1, <1>5, <1>7 DEF Sends
  <2>2. QED BY <1>0, <1>9, <2>1
<1>11. NowSent(r, frame)
  <2>1. i \in 1 .. Len(sent'[r][pid])
    <3>1. sent'[r][pid] = Append(sent[r][pid], frame)
      BY <1>4
    <3>2. Len(sent'[r][pid]) = i
      BY <1>3, <3>1
    <3>3. i \in 1 .. i
      BY <1>0
    <3>4. QED BY <3>2, <3>3
  <2>2. QED BY <1>1, <2>1 DEF NowSent
<1>12. ASSUME NEW q \in Roles, NEW x \in Pids, NEW k \in 1 .. Len(wire'[q][x])
       PROVE  \/ \E j \in 1 .. Len(wire[q][x]) : wire'[q][x][k] = wire[q][x][j]
              \/ NowSent(Peer(q), wire'[q][x][k].frame)
  <2>1. CASE ~(q = Peer(r) /\ x = pid)
    BY <1>10, <2>1
  <2>2. CASE q = Peer(r) /\ x = pid
    <3>1. PICK after : after = wire'[q][x]
      OBVIOUS
    <3>2. after = before \o units /\ wire[q][x] = before
      BY <1>7, <1>10, <2>2, <3>1
    <3>3. \/ \E j \in 1 .. Len(before) : after[k] = before[j]
          \/ after[k].frame = frame
      BY <1>9, <3>1, <3>2
    <3>4. Peer(q) = r
      BY <1>0, <2>2
    <3> HIDE DEF NowSent
    <3>5. ASSUME after[k].frame = frame PROVE NowSent(Peer(q), after[k].frame)
      BY <1>11, <3>4, <3>5
    <3>6. QED BY <3>1, <3>2, <3>3, <3>5
  <2>3. QED BY <2>1, <2>2
<1>13. QED BY <1>1, <1>4, <1>10, <1>12

\* A path that stays, or is nominated
Stays(r, pid, p) ==
    path' = [path EXCEPT ![r][pid] = p] /\ nominated' = nominated
IsNominated(r, pid, p) ==
    /\ nominated[r] = NoPid
    /\ path' = AfterNomination(r, pid, p)
    /\ nominated' = [nominated EXCEPT ![r] = pid]

\* A role moves a path on: it may send the next frame, end the race, abort, count
\* an own frame of the upper layer or hand over the peer's.
LEMMA Moves ==
    ASSUME RendezvousInv, NEW r \in Roles, NEW pid \in Pids, Running(r),
           nominator' = nominator, stray' = stray,
           NEW p \in Paths,
           \A k \in 1 .. Len(p.decoder.data) : \E j \in 1 .. Len(path[r][pid].decoder.data) :
               p.decoder.data[k] = path[r][pid].decoder.data[j],
           Stays(r, pid, p) \/ IsNominated(r, pid, p),
           \/ p.sealed = path[r][pid].sealed /\ sent' = sent /\ wire' = wire
           \/ /\ p.sealed = path[r][pid].sealed + 1
              /\ FrameAt(r, pid, p.sealed) \in Frames
              /\ Sends(r, pid, FrameAt(r, pid, p.sealed)),
           NEW error \in Causes, cause' = [cause EXCEPT ![r] = error],
           NEW n \in 0 .. MaxUlp, created' = [created EXCEPT ![r] = n],
           NEW data \in Seq(1 .. MaxUlp), delivered' = [delivered EXCEPT ![r] = data],
           n # created[r] \/ data # delivered[r] => nominated[r] = pid,
           StateFits(r, pid)', NominationFits(r, pid)'
    PROVE  RendezvousInv'
<1>0. /\ Types /\ SentInPlace /\ PathsFit
      /\ path \in [Roles -> [Pids -> Paths]]
      /\ nominated \in [Roles -> Pids \cup {NoPid}] /\ cause \in [Roles -> Causes]
      /\ created \in [Roles -> 0 .. MaxUlp] /\ delivered \in [Roles -> Seq(1 .. MaxUlp)]
  BY DEF RendezvousInv, Types
<1>1. /\ path' \in [Roles -> [Pids -> Paths]]
      /\ path'[r][pid] = p
      /\ \A q \in Roles \ {r}, x \in Pids : path'[q][x] = path[q][x]
      /\ \A x \in Pids \ {pid} :
             \/ path'[r][x] = path[r][x] /\ nominated'[r] = nominated[r]
             \/ path'[r][x] = Dropped(path[r][x]) /\ nominated'[r] = pid
  <2>1. CASE Stays(r, pid, p)
    <3>1. path' = [path EXCEPT ![r][pid] = p] /\ nominated' = nominated
      BY <2>1 DEF Stays
    <3>2. QED BY <1>0, <3>1, PathUpdated
  <2>2. CASE IsNominated(r, pid, p)
    <3>1. path' = AfterNomination(r, pid, p) /\ nominated'[r] = pid
      BY <1>0, <2>2 DEF IsNominated
    <3>2. /\ path' \in [Roles -> [Pids -> Paths]]
          /\ \A q \in Roles, x \in Pids : path'[q][x] =
                 IF q # r THEN path[q][x]
                 ELSE IF x = pid THEN p ELSE Dropped(path[r][x])
      <4>1. PICK new : new = AfterNomination(r, pid, p)
        OBVIOUS
      <4>2. /\ new \in [Roles -> [Pids -> Paths]]
            /\ \A q \in Roles, x \in Pids : new[q][x] =
                   IF q # r THEN path[q][x]
                   ELSE IF x = pid THEN p ELSE Dropped(path[r][x])
        BY <1>0, <4>1, PathNominated
      <4>3. path' = new
        BY <3>1, <4>1
      <4>4. QED BY <4>2, <4>3
    <3>3. QED BY <3>1, <3>2
  <2>3. QED BY <2>1, <2>2
<1>2. \A q \in Roles, x \in Pids : <<q, x>> # <<r, pid>> =>
          /\ path'[q][x].sealed = path[q][x].sealed
          /\ path'[q][x].decoder = path[q][x].decoder
  <2>0. \A old \in Paths : Dropped(old).sealed = old.sealed /\ Dropped(old).decoder = old.decoder
    BY DEF Paths, Dropped
  <2>1. \A q \in Roles, x \in Pids : path[q][x] \in Paths
    BY <1>0
  <2> TAKE q \in Roles, x \in Pids
  <2> HAVE <<q, x>> # <<r, pid>>
  <2>2. CASE q # r
    BY <1>1, <2>2
  <2>3. CASE q = r /\ x # pid
    BY <1>1, <2>0, <2>1, <2>3
  <2>4. QED BY <2>2, <2>3
<1>3. /\ nominated' \in [Roles -> Pids \cup {NoPid}]
      /\ nominated'[r] # nominated[r] => nominated[r] = NoPid /\ nominated'[r] = pid
      /\ \A q \in Roles \ {r} : nominated'[q] = nominated[q]
  BY <1>0 DEF Stays, IsNominated
<1>4. /\ cause' \in [Roles -> Causes] /\ created' \in [Roles -> 0 .. MaxUlp]
      /\ delivered' \in [Roles -> Seq(1 .. MaxUlp)]
      /\ created'[r] = n /\ delivered'[r] = data
      /\ \A q \in Roles \ {r} : /\ cause'[q] = cause[q] /\ created'[q] = created[q]
                                /\ delivered'[q] = delivered[q]
  BY <1>0
<1>5. /\ SendsAtMost(r, pid)
      /\ sent' \in [Roles -> [Pids -> Seq(Frames)]]
      /\ wire' \in [Roles -> [Pids -> Seq(UlpUnits)]]
      /\ \A q \in Roles, x \in Pids : \A k \in 1 .. Len(wire'[q][x]) :
             \/ \E j \in 1 .. Len(wire[q][x]) : wire'[q][x][k] = wire[q][x][j]
             \/ NowSent(Peer(q), wire'[q][x][k].frame)
  <2>1. CASE p.sealed = path[r][pid].sealed /\ sent' = sent /\ wire' = wire
    <3>1. SendsAtMost(r, pid)
      BY <1>1, <1>2, <2>1 DEF SendsAtMost
    <3>2. QED BY <1>0, <2>1, <3>1 DEF Types
  <2>2. CASE /\ p.sealed = path[r][pid].sealed + 1
             /\ FrameAt(r, pid, p.sealed) \in Frames
             /\ Sends(r, pid, FrameAt(r, pid, p.sealed))
    <3>1. /\ sent' \in [Roles -> [Pids -> Seq(Frames)]]
          /\ wire' \in [Roles -> [Pids -> Seq(UlpUnits)]]
          /\ sent'[r][pid] = Append(sent[r][pid], FrameAt(r, pid, p.sealed))
          /\ \A q \in Roles, x \in Pids :
                 <<q, x>> # <<r, pid>> => sent'[q][x] = sent[q][x]
          /\ \A q \in Roles, x \in Pids : \A k \in 1 .. Len(wire'[q][x]) :
                 \/ \E j \in 1 .. Len(wire[q][x]) : wire'[q][x][k] = wire[q][x][j]
                 \/ NowSent(Peer(q), wire'[q][x][k].frame)
      BY <1>0, <2>2, SendsInPlace
    <3>2. SendsAtMost(r, pid)
      BY <1>1, <1>2, <2>2, <3>1 DEF SendsAtMost
    <3>3. QED BY <3>1, <3>2
  <2>3. QED BY <2>1, <2>2
<1>6. Types'
  BY <1>0, <1>1, <1>3, <1>4, <1>5 DEF Types
<1>7. Circulates
  <2>1. ASSUME NEW q \in Roles, NEW x \in Pids
        PROVE  \A k \in 1 .. Len(path'[q][x].decoder.data) :
                   \E j \in 1 .. Len(path[q][x].decoder.data) :
                       path'[q][x].decoder.data[k] = path[q][x].decoder.data[j]
    <3>1. CASE q = r /\ x = pid
      BY <1>1, <3>1
    <3>2. CASE ~(q = r /\ x = pid)
      BY <1>2, <3>2
    <3>3. QED BY <3>1, <3>2
  <2> HIDE DEF NowSent
  <2>2. QED BY <1>5, <2>1 DEF Circulates
<1>8. Elsewhere(r, pid)
  BY <1>1, <1>3, <1>4 DEF Elsewhere, Dropped
<1>9. nominated'[r] = NoPid => created'[r] = 0 /\ delivered'[r] = <<>>
  <2>1. SUFFICES ASSUME nominated'[r] = NoPid PROVE created'[r] = 0 /\ delivered'[r] = <<>>
    OBVIOUS
  <2>2. nominated[r] = NoPid
    BY <1>3, <2>1, RendezvousAssumption
  <2>3. n = created[r] /\ data = delivered[r]
    BY <2>2, RendezvousAssumption
  <2>4. QED BY <1>0, <1>4, <2>2, <2>3 DEF PathsFit
<1>10. QED BY <1>5, <1>6, <1>7, <1>8, <1>9, StepKeeps

\* The path that was moved on, and what its role has nominated since.
LEMMA MovedPath ==
    ASSUME Types, NEW r \in Roles, NEW pid \in Pids, NEW p \in Paths
    PROVE  /\ Stays(r, pid, p) => path'[r][pid] = p /\ nominated'[r] = nominated[r]
           /\ IsNominated(r, pid, p) => path'[r][pid] = p /\ nominated'[r] = pid
<1>0. path \in [Roles -> [Pids -> Paths]] /\ nominated \in [Roles -> Pids \cup {NoPid}]
  BY DEF Types
<1>1. Stays(r, pid, p) => path'[r][pid] = p /\ nominated'[r] = nominated[r]
  BY <1>0, PathUpdated DEF Stays
<1>2. AfterNomination(r, pid, p)[r][pid] = p
  BY <1>0, PathNominated
<1>3. IsNominated(r, pid, p) => path'[r][pid] = p /\ nominated'[r] = pid
  BY <1>0, <1>2 DEF IsNominated
<1>4. QED BY <1>1, <1>3

\* What a step means for the upper layer: nothing, a nomination or its arrival,
\* or a frame of the upper layer that is sent or received.
NominatorChooses ==
    /\ nominated[nominator] = NoPid
    /\ \E pid \in Pids : nominated' = [nominated EXCEPT ![nominator] = pid]
    /\ UNCHANGED <<created, delivered>>
NomineeLearns ==
    /\ nominated[nominator] # NoPid /\ nominated[Peer(nominator)] = NoPid
    /\ nominated' = [nominated EXCEPT ![Peer(nominator)] = nominated[nominator]]
    /\ UNCHANGED <<created, delivered>>
EndSends(r) ==
    /\ nominated[r] # NoPid
    /\ created' = [created EXCEPT ![r] = @ + 1]
    /\ UNCHANGED <<nominated, delivered>>
EndReceives(r) ==
    /\ nominated[r] # NoPid
    /\ Len(delivered[r]) + 1 <= created[Peer(r)]
    /\ delivered' = [delivered EXCEPT ![r] = Append(@, Len(delivered[r]) + 1)]
    /\ UNCHANGED <<nominated, created>>
UpperLayerStep ==
    \/ UNCHANGED <<nominated, created, delivered>>
    \/ NominatorChooses
    \/ NomineeLearns
    \/ \E r \in Roles : EndSends(r) \/ EndReceives(r)

\* A role aborts with an error of a path.
LEMMA AbortKeeps ==
    ASSUME RendezvousInv, NEW r \in Roles, NEW pid \in Pids, Running(r),
           nominator' = nominator, stray' = stray, NEW p \in Paths,
           \A k \in 1 .. Len(p.decoder.data) : \E j \in 1 .. Len(path[r][pid].decoder.data) :
               p.decoder.data[k] = path[r][pid].decoder.data[j],
           p.sealed = path[r][pid].sealed,
           \/ p.state \in {"Closed", "Invalid", "Dropped"}
           \/ p.state = path[r][pid].state /\ p.received = path[r][pid].received
              /\ p.etk = path[r][pid].etk,
           Stays(r, pid, p), NEW error \in Causes \ {"none"}, Abort(r, error),
           nominated[r] \in {pid, NoPid}
    PROVE  RendezvousInv' /\ UpperLayerStep
<1>1. /\ Types /\ StateFits(r, pid) /\ NominationFits(r, pid)
      /\ created \in [Roles -> 0 .. MaxUlp] /\ delivered \in [Roles -> Seq(1 .. MaxUlp)]
      /\ cause \in [Roles -> Causes]
  BY DEF RendezvousInv, PathsFit, Types
<1>2. path'[r][pid] = p /\ nominated' = nominated
  <2>1. path'[r][pid] = p
    BY <1>1, MovedPath
  <2>2. QED BY <2>1 DEF Stays
<1>3. /\ cause' = [cause EXCEPT ![r] = error] /\ sent' = sent /\ wire' = wire
      /\ created' = created /\ delivered' = delivered
  BY DEF Abort
<1>4. ~Running(r)'
  BY <1>1, <1>3 DEF Running
<1>5. \A q : Preamble(q)' = Preamble(q)
  BY SamePosition
<1>6. StateFits(r, pid)'
  BY <1>1, <1>2, <1>3, <1>4, <1>5 DEF StateFits
<1>7. NominationFits(r, pid)'
  BY <1>1, <1>2, <1>3, <1>4, <1>5 DEF NominationFits
<1>8. /\ created' = [created EXCEPT ![r] = created[r]]
      /\ delivered' = [delivered EXCEPT ![r] = delivered[r]]
      /\ created[r] \in 0 .. MaxUlp /\ delivered[r] \in Seq(1 .. MaxUlp)
  BY <1>1, <1>3
<1>9. RendezvousInv'
  BY <1>3, <1>6, <1>7, <1>8, Moves
<1>10. QED BY <1>2, <1>3, <1>9 DEF UpperLayerStep

\* A frame in a path's decoder is one the peer has sent.
LEMMA NextIsGenuine ==
    ASSUME RendezvousInv, NEW r \in Roles, NEW pid \in Pids, HasFrame(path[r][pid].decoder)
    PROVE  WasSent(Peer(r), NextFrame(path[r][pid].decoder)[1].frame)
<1>1. path[r][pid].decoder \in Decoders
  <2>1. path[r][pid] \in Paths
    BY DEF RendezvousInv, Types
  <2>2. QED BY <2>1 DEF Paths
<1>2. PICK j \in 1 .. Len(path[r][pid].decoder.data) :
          NextFrame(path[r][pid].decoder)[1] = path[r][pid].decoder.data[j]
  BY <1>1, NextFacts
<1>3. WasSent(Peer(r), path[r][pid].decoder.data[j].frame)
  BY DEF RendezvousInv, Genuine
<1>4. QED BY <1>2, <1>3

\* A role processes what a path has: a complete frame or none (process_frame).
LEMMA ProcessFrameKeeps ==
    ASSUME RendezvousInv, NEW r \in Roles, NEW pid \in Pids, ProcessFrame(r, pid)
    PROVE  RendezvousInv' /\ UpperLayerStep
<1> DEFINE old   == path[r][pid]
           p     == [old EXCEPT !.decoder = AfterNext(old.decoder)]
           frame == NextFrame(old.decoder)[1].frame
           result == IF r = "RID" THEN RidProcessFrame(pid, p, frame)
                                  ELSE RrdProcessFrame(pid, p, frame)
           ends  == nominated[r] = NoPid /\ result.path.state = "Nominated"
<1>0. /\ Types /\ SentInPlace /\ PathsFit
      /\ StateFits(r, pid) /\ NominationFits(r, pid)
      /\ created \in [Roles -> 0 .. MaxUlp] /\ delivered \in [Roles -> Seq(1 .. MaxUlp)]
      /\ created[r] \in 0 .. MaxUlp /\ delivered[r] \in Seq(1 .. MaxUlp)
      /\ nominated \in [Roles -> Pids \cup {NoPid}]
      /\ cause \in [Roles -> Causes] /\ old \in Paths
      /\ Peer(r) \in Roles /\ r \in {"RID", "RRD"}
  BY PeerFacts DEF RendezvousInv, PathsFit, Types, Roles
<1>1. /\ AfterNext(old.decoder) \in Decoders
      /\ \A k \in 1 .. Len(AfterNext(old.decoder).data) : \E j \in 1 .. Len(old.decoder.data) :
             AfterNext(old.decoder).data[k] = old.decoder.data[j]
  <2>1. old.decoder \in Decoders
    BY <1>0 DEF Paths
  <2>2. QED BY <2>1, NextFacts
<1>2. /\ p \in Paths /\ p.decoder = AfterNext(old.decoder)
      /\ p.state = old.state /\ p.sealed = old.sealed
      /\ p.received = old.received /\ p.etk = old.etk
  BY <1>0, <1>1 DEF Paths
<1>3. Running(r) /\ Known(r, pid) /\ nominator' = nominator /\ stray' = stray
  BY DEF ProcessFrame
<1>4. \A q : Preamble(q)' = Preamble(q)
  BY <1>3, SamePosition
<1>a. nominated[r] \in {pid, NoPid}
  BY <1>0, <1>3 DEF NominationFits, Known
<1>5. CASE ~HasFrame(old.decoder)
  <2>1. /\ path' = [path EXCEPT ![r][pid] = p]
        /\ UNCHANGED <<nominated, cause, wire, sent, created, delivered>>
    BY <1>5 DEF ProcessFrame
  <2> HIDE DEF p
  <2>2. Stays(r, pid, p)
    BY <2>1 DEF Stays
  <2>3. path'[r][pid] = p
    BY <1>0, <1>2, <2>2, MovedPath
  <2>4. StateFits(r, pid)'
    BY <1>0, <1>2, <1>4, <2>1, <2>3 DEF StateFits, Running
  <2>5. NominationFits(r, pid)'
    BY <1>0, <1>2, <1>4, <2>1, <2>3 DEF NominationFits, Running
  <2>6. /\ cause' = [cause EXCEPT ![r] = cause[r]] /\ cause[r] \in Causes
        /\ created' = [created EXCEPT ![r] = created[r]]
        /\ delivered' = [delivered EXCEPT ![r] = delivered[r]]
    BY <1>0, <2>1
  <2>7. \A k \in 1 .. Len(p.decoder.data) : \E j \in 1 .. Len(path[r][pid].decoder.data) :
            p.decoder.data[k] = path[r][pid].decoder.data[j]
    BY <1>1, <1>2
  <2>8. RendezvousInv'
    BY <1>0, <1>2, <1>3, <2>1, <2>2, <2>4, <2>5, <2>6, <2>7, Moves
  <2>9. QED BY <2>1, <2>8 DEF UpperLayerStep
<1>6. CASE HasFrame(old.decoder)
  <2>1. /\ Handle(r, pid, result)
        /\ path' = IF ends THEN AfterNomination(r, pid, result.path)
                   ELSE [path EXCEPT ![r][pid] = result.path]
        /\ nominated' = IF ends THEN [nominated EXCEPT ![r] = pid] ELSE nominated
    BY <1>6 DEF ProcessFrame
  <2>2. WasSent(Peer(r), frame)
    BY <1>6, NextIsGenuine
  <2> HIDE DEF p, frame
  <2>3. Processed(r, pid, p, result)
    <3>1. CASE r = "RID"
      <4>1. Peer(r) = "RRD"
        BY <3>1 DEF Peer
      <4>2. Processed("RID", pid, p, RidProcessFrame(pid, p, frame))
        BY <1>2, <1>3, <2>2, <3>1, <4>1, RidProcessed
      <4>3. QED BY <3>1, <4>2
    <3>2. CASE r = "RRD"
      <4>1. Peer(r) = "RID"
        BY <3>2 DEF Peer
      <4>2. Processed("RRD", pid, p, RrdProcessFrame(pid, p, frame))
        BY <1>2, <1>3, <2>2, <3>2, <4>1, RrdProcessed
      <4>3. QED BY <3>2, <4>2
    <3>3. QED BY <1>0, <3>1, <3>2
  <2> HIDE DEF result
  <2>4. CASE Aborted(p, result)
    <3>1. /\ result.error \in Causes \ {"none"}
          /\ \E state \in {"Closed", "Invalid"} : result.path = [p EXCEPT !.state = state]
      BY <2>4 DEF Aborted
    <3>2. /\ result.path \in Paths /\ result.path.decoder = p.decoder
          /\ result.path.sealed = p.sealed /\ result.path.state \in {"Closed", "Invalid"}
      BY <1>2, <3>1 DEF Paths, PathStates
    <3>3. Stays(r, pid, result.path)
      BY <2>1, <3>2 DEF Stays
    <3>4. Abort(r, result.error)
      BY <2>1, <3>1 DEF Handle
    <3>5. PICK after : after = result.path
      OBVIOUS
    <3>6. \A k \in 1 .. Len(after.decoder.data) :
              \E j \in 1 .. Len(path[r][pid].decoder.data) :
                  after.decoder.data[k] = path[r][pid].decoder.data[j]
      BY <1>1, <1>2, <3>2, <3>5
    <3>7. after \in Paths /\ after.sealed = path[r][pid].sealed
          /\ after.state \in {"Closed", "Invalid", "Dropped"} /\ Stays(r, pid, after)
      BY <1>2, <3>2, <3>3, <3>5
    <3>8. QED BY <1>3, <1>a, <3>1, <3>4, <3>5, <3>6, <3>7, AbortKeeps
  <2>5. CASE p.received + 1 < MaxSn /\ Replied(r, pid, p, result)
    <3> DEFINE new == [p EXCEPT !.sealed = @ + 1, !.received = @ + 1, !.etk = Secret(pid),
                                !.state = IF r = "RID" THEN "AwaitingAuth"
                                                       ELSE "AwaitingNominate"]
               reply == FrameAt(r, pid, p.sealed + 1)
    <3>1. /\ p.state = (IF r = "RID" THEN "AwaitingHello" ELSE "AwaitingAuthHello")
          /\ p.sealed + 1 < MaxSn
          /\ result = Ok(new, <<reply>>, <<>>)
      BY <2>5 DEF Replied
    <3>2. /\ result.path = new /\ result.frames = <<reply>> /\ result.data = <<>>
          /\ result.error = "none" /\ result.frames # <<>> /\ result.frames[1] = reply
      BY <3>1 DEF Ok
    <3>3. /\ new \in Paths /\ new.decoder = p.decoder
          /\ new.sealed = p.sealed + 1 /\ new.received = p.received + 1
          /\ new.etk = Secret(pid)
          /\ new.state = IF r = "RID" THEN "AwaitingAuth" ELSE "AwaitingNominate"
      <4>1. Secret(pid) \in SUBSET Randoms
        BY DEF Secret, Randoms, Random, Roles
      <4>2. p.sealed + 1 \in 0 .. MaxSn - 1 /\ p.received + 1 \in 0 .. MaxSn - 1
        <5>1. p.sealed \in 0 .. MaxSn - 1 /\ p.received \in 0 .. MaxSn - 1
          BY <1>2 DEF Paths
        <5>2. p.sealed + 1 < MaxSn /\ p.received + 1 < MaxSn
          BY <2>5, <3>1
        <5>3. QED BY <5>1, <5>2, RendezvousAssumption
      <4>3. QED BY <1>2, <4>1, <4>2 DEF Paths, PathStates, Racing
    <3>4. p.sealed + 1 = Handshake(r) /\ p.sealed = IF r = "RID" THEN 0 ELSE 1
      BY <1>0, <1>2, <3>1 DEF StateFits, Handshake
    <3>5. reply \in Frames
      <4>1. p.sealed + 1 \in 1 .. MaxSn
        BY <1>2, <3>1, RendezvousAssumption DEF Paths
      <4>2. p.sealed + 1 <= Preamble(r) + MaxUlp
        BY <3>4, PreambleFacts, RendezvousAssumption
      <4>3. QED BY <4>1, <4>2, FrameAtType
    <3> HIDE DEF new
    <3>6. /\ Stays(r, pid, new) /\ cause' = cause /\ created' = created
          /\ Sends(r, pid, reply) /\ delivered' = delivered
      <4>1. ~ends
        BY <3>2, <3>3
      <4>2. delivered' = [delivered EXCEPT ![r] = delivered[r] \o <<>>]
        BY <2>1, <3>2 DEF Handle
      <4>3. delivered[r] \o <<>> = delivered[r]
        BY <1>0
      <4>4. delivered' = delivered
        BY <1>0, <4>2, <4>3
      <4> HIDE DEF reply
      <4>5. sent' = [sent EXCEPT ![r][pid] = @ \o <<reply>>]
        BY <2>1, <3>2 DEF Handle
      <4>6. wire' = [wire EXCEPT ![Peer(r)][pid] = @ \o EncodeFrame(reply)]
        BY <2>1, <3>2 DEF Handle
      <4>7. cause' = cause /\ created' = created
        BY <2>1, <3>2 DEF Handle
      <4>8. QED BY <2>1, <3>2, <4>1, <4>4, <4>5, <4>6, <4>7 DEF Stays, Sends
    <3>7. path'[r][pid] = new /\ nominated' = nominated
      <4>1. path'[r][pid] = new
        BY <1>0, <3>3, <3>6, MovedPath
      <4>2. QED BY <3>6, <4>1 DEF Stays
    <3>8. p.received + 1 = IF r = "RID" THEN 1 ELSE Handshake(Peer(r))
      BY <1>0, <1>2, <3>1 DEF StateFits, Handshake, Peer
    <3>9. StateFits(r, pid)'
      BY <1>0, <3>3, <3>4, <3>7, <3>8 DEF StateFits
    <3>10. NominationFits(r, pid)'
      <4>1. nominated[r] # pid
        BY <1>0, <1>2, <1>3, <3>1 DEF NominationFits
      <4>2. new.sealed <= Handshake(r)
        BY <3>3, <3>4, PreambleFacts
      <4>3. QED BY <1>a, <3>7, <4>1, <4>2 DEF NominationFits
    <3>11. RendezvousInv'
      <4>1. /\ cause' = [cause EXCEPT ![r] = cause[r]] /\ cause[r] \in Causes
            /\ created' = [created EXCEPT ![r] = created[r]]
            /\ delivered' = [delivered EXCEPT ![r] = delivered[r]]
        BY <1>0, <3>6
      <4>2. \A k \in 1 .. Len(new.decoder.data) : \E j \in 1 .. Len(path[r][pid].decoder.data) :
                new.decoder.data[k] = path[r][pid].decoder.data[j]
        BY <1>1, <1>2, <3>3
      <4>3. /\ new.sealed = path[r][pid].sealed + 1
            /\ FrameAt(r, pid, new.sealed) \in Frames
            /\ Sends(r, pid, FrameAt(r, pid, new.sealed))
        BY <1>2, <3>3, <3>5, <3>6
      <4>4. QED BY <1>0, <1>3, <3>3, <3>6, <3>9, <3>10, <4>1, <4>2, <4>3, Moves
    <3>12. QED BY <3>6, <3>7, <3>11 DEF UpperLayerStep
  <2>6. CASE p.received + 1 < MaxSn /\ (\/ Authenticated(r, p, result)
                                         \/ Learnt(r, pid, p, result)
                                         \/ HandedOut(r, p, result))
    <3>1. PICK new, data : result = Ok(new, <<>>, data)
      BY <2>6 DEF Authenticated, Learnt, HandedOut
    <3>2. result.path = new /\ result.frames = <<>> /\ result.data = data
          /\ result.error = "none"
      BY <3>1 DEF Ok
    <3>3. \/ Authenticated(r, p, result) /\ new = [p EXCEPT !.received = @ + 1,
                                                            !.state = "AwaitingNominate"]
                 /\ data = <<>>
          \/ Learnt(r, pid, p, result) /\ new = [p EXCEPT !.received = @ + 1,
                                                          !.state = "Nominated"]
                 /\ data = <<>>
          \/ HandedOut(r, p, result) /\ new = [p EXCEPT !.received = @ + 1]
                 /\ data = <<Len(delivered[r]) + 1>>
      BY <2>6, <3>2 DEF Authenticated, Learnt, HandedOut, Ok
    <3>4. /\ new \in Paths /\ new.decoder = p.decoder /\ new.sealed = p.sealed
          /\ new.received = p.received + 1 /\ new.etk = p.etk
          /\ Authenticated(r, p, result) => new.state = "AwaitingNominate"
          /\ Learnt(r, pid, p, result) => new.state = "Nominated"
          /\ HandedOut(r, p, result) => new.state = "Nominated"
      <4>1. p.received + 1 \in 0 .. MaxSn - 1
        <5>1. p.received \in 0 .. MaxSn - 1
          BY <1>2 DEF Paths
        <5>2. QED BY <2>6, <5>1, RendezvousAssumption
      <4>2. /\ Authenticated(r, p, result) => p.state = "AwaitingAuth"
            /\ Learnt(r, pid, p, result) => p.state = "AwaitingNominate"
            /\ HandedOut(r, p, result) => p.state = "Nominated"
        BY DEF Authenticated, Learnt, HandedOut
      <4> HIDE DEF Authenticated, Learnt, HandedOut
      <4>3. CASE Authenticated(r, p, result) /\ new = [p EXCEPT !.received = @ + 1,
                                                            !.state = "AwaitingNominate"]
        BY <1>2, <4>1, <4>2, <4>3 DEF Paths, PathStates
      <4>4. CASE Learnt(r, pid, p, result) /\ new = [p EXCEPT !.received = @ + 1,
                                                          !.state = "Nominated"]
        BY <1>2, <4>1, <4>2, <4>4 DEF Paths, PathStates
      <4>5. CASE HandedOut(r, p, result) /\ new = [p EXCEPT !.received = @ + 1]
        BY <1>2, <4>1, <4>2, <4>5 DEF Paths, PathStates
      <4>6. QED BY <3>3, <4>3, <4>4, <4>5
    <3>5. \A k \in 1 .. Len(new.decoder.data) : \E j \in 1 .. Len(path[r][pid].decoder.data) :
              new.decoder.data[k] = path[r][pid].decoder.data[j]
      BY <1>1, <1>2, <3>4
    <3>6. /\ cause' = cause /\ created' = created /\ wire' = wire
          /\ delivered' = [delivered EXCEPT ![r] = delivered[r] \o data]
      BY <2>1, <3>2 DEF Handle
    <3>7. sent' = sent
      <4>1. sent' = [sent EXCEPT ![r][pid] = @ \o <<>>]
        BY <2>1, <3>2 DEF Handle
      <4>2. sent \in [Roles -> [Pids -> Seq(Frames)]]
        BY <1>0 DEF Types
      <4>3. sent[r][pid] \o <<>> = sent[r][pid]
        <5>1. sent[r][pid] \in Seq(Frames)
          BY <4>2
        <5>2. QED BY <5>1
      <4>4. QED BY <4>1, <4>2, <4>3
    <3>8. cause' = [cause EXCEPT ![r] = cause[r]] /\ cause[r] \in Causes
          /\ created' = [created EXCEPT ![r] = created[r]]
      BY <1>0, <3>6
    <3>9. CASE Authenticated(r, p, result)
      <4>1. r = "RID" /\ p.state = "AwaitingAuth" /\ data = <<>>
            /\ new.state = "AwaitingNominate"
        BY <3>3, <3>4, <3>9 DEF Authenticated, Learnt, HandedOut
      <4>2. Stays(r, pid, new)
        BY <2>1, <3>2, <4>1 DEF Stays
      <4>3. path'[r][pid] = new /\ nominated' = nominated
        <5>1. path'[r][pid] = new
          BY <1>0, <3>4, <4>2, MovedPath
        <5>2. QED BY <4>2, <5>1 DEF Stays
      <4>4. delivered' = delivered /\ delivered' = [delivered EXCEPT ![r] = delivered[r]]
        <5>1. delivered[r] \o data = delivered[r]
          BY <1>0, <4>1
        <5>2. QED BY <1>0, <3>6, <5>1
      <4>5. p.sealed = 1 /\ p.received = 1 /\ p.etk = Secret(pid)
        BY <1>0, <1>2, <4>1 DEF StateFits
      <4>6. StateFits(r, pid)'
        <5>1. Handshake(r) = 1 /\ Handshake(Peer(r)) = 2
          BY <4>1 DEF Handshake, Peer
        <5>2. QED BY <3>4, <4>1, <4>3, <4>5, <5>1 DEF StateFits
      <4>7. NominationFits(r, pid)'
        <5>1. nominated[r] # pid
          BY <1>0, <1>2, <1>3, <4>1 DEF NominationFits
        <5>2. QED BY <1>0, <1>2, <1>a, <3>4, <4>3, <5>1 DEF NominationFits
      <4>8. RendezvousInv'
        BY <1>0, <1>2, <1>3, <3>4, <3>5, <3>6, <3>7, <3>8, <4>2, <4>4, <4>6, <4>7, Moves
      <4>9. QED BY <3>6, <4>3, <4>4, <4>8 DEF UpperLayerStep
    <3>10. CASE Learnt(r, pid, p, result)
      <4>1. /\ r # nominator /\ p.state = "AwaitingNominate" /\ nominated[Peer(r)] = pid
            /\ data = <<>> /\ new.state = "Nominated"
        BY <3>3, <3>4, <3>10 DEF Authenticated, Learnt, HandedOut
      <4>2. nominator = Peer(r)
        <5>1. nominator \in Roles
          BY <1>0 DEF Types
        <5>2. QED BY <4>1, <5>1 DEF Roles, Peer
      <4>3. nominated[r] # pid
        BY <1>0, <1>2, <1>3, <4>1 DEF NominationFits
      <4>4. nominated[r] = NoPid /\ created[r] = 0 /\ delivered[r] = <<>>
        BY <1>0, <1>a, <4>3 DEF PathsFit
      <4>5. IsNominated(r, pid, new)
        BY <2>1, <3>2, <4>1, <4>4 DEF IsNominated
      <4>6. path'[r][pid] = new /\ nominated'[r] = pid
        BY <1>0, <3>4, <4>5, MovedPath
      <4>7. delivered' = delivered /\ delivered' = [delivered EXCEPT ![r] = delivered[r]]
        <5>1. delivered[r] \o data = delivered[r]
          BY <1>0, <4>1
        <5>2. QED BY <1>0, <3>6, <5>1
      <4>8. /\ p.sealed = Handshake(r) /\ p.received = Handshake(Peer(r))
            /\ p.etk = Secret(pid)
        BY <1>0, <1>2, <4>1 DEF StateFits
      <4>9. Preamble(r) = Handshake(r) /\ Preamble(Peer(r)) = Handshake(Peer(r)) + 1
        BY <1>0, <4>1, <4>2, PreambleFacts
      <4>10. StateFits(r, pid)'
        <5>0. PICK q \in Roles : q = Peer(r)
          BY <1>0
        <5>1. Len(delivered[r]) = 0 /\ Handshake(Peer(r)) \in Nat
          <6>1. Handshake(q) \in Nat
            BY PreambleFacts
          <6>2. Len(delivered[r]) = 0
            BY <4>4
          <6>3. QED BY <5>0, <6>1, <6>2
        <5>2. new.received = Preamble(Peer(r)) + Len(delivered[r])
          BY <3>4, <4>8, <4>9, <5>1
        <5>3. QED BY <1>4, <3>4, <4>1, <4>6, <4>7, <4>8, <5>2 DEF StateFits
      <4>11. NominationFits(r, pid)'
        <5>1. new.sealed = Preamble(r) + created[r]
          <6>1. Handshake(r) \in Nat
            BY PreambleFacts
          <6>2. QED BY <3>4, <4>4, <4>8, <4>9, <6>1
        <5>2. QED BY <1>4, <3>6, <4>1, <4>6, <5>1 DEF NominationFits
      <4>12. RendezvousInv'
        BY <1>0, <1>2, <1>3, <3>4, <3>5, <3>6, <3>7, <3>8, <4>4, <4>5, <4>7, <4>10, <4>11, Moves
      <4>13. NomineeLearns
        <5>1. Peer(nominator) = r
          BY <4>2, PeerFacts
        <5>2. nominated' = [nominated EXCEPT ![r] = pid]
          BY <4>5 DEF IsNominated
        <5>3. nominated[nominator] = pid /\ pid # NoPid
          BY <4>1, <4>2, RendezvousAssumption
        <5>4. QED BY <3>6, <4>4, <4>7, <5>1, <5>2, <5>3 DEF NomineeLearns
      <4>14. QED BY <4>12, <4>13 DEF UpperLayerStep
    <3>11. CASE HandedOut(r, p, result)
      <4>1. /\ p.state = "Nominated" /\ Len(delivered[r]) + 1 <= created[Peer(r)]
            /\ data = <<Len(delivered[r]) + 1>> /\ new.state = "Nominated"
        BY <3>3, <3>4, <3>11 DEF Authenticated, Learnt, HandedOut
      <4>2. nominated[r] = pid /\ nominated[r] # NoPid
        BY <1>0, <1>2, <4>1, RendezvousAssumption DEF StateFits
      <4>3. Stays(r, pid, new)
        BY <2>1, <3>2, <4>2 DEF Stays
      <4>4. path'[r][pid] = new /\ nominated' = nominated
        <5>1. path'[r][pid] = new
          BY <1>0, <3>4, <4>3, MovedPath
        <5>2. QED BY <4>3, <5>1 DEF Stays
      <4>5. PICK next : next = Append(delivered[r], Len(delivered[r]) + 1)
        OBVIOUS
      <4>6. /\ delivered[r] \o data = next /\ next \in Seq(1 .. MaxUlp)
            /\ Len(next) = Len(delivered[r]) + 1 /\ Len(delivered[r]) \in Nat
        <5>1. Len(delivered[r]) \in Nat
          BY <1>0
        <5>2. Len(delivered[r]) + 1 \in 1 .. MaxUlp
          <6>1. created[Peer(r)] \in 0 .. MaxUlp
            BY <1>0
          <6>2. QED BY <4>1, <5>1, <6>1, RendezvousAssumption
        <5>3. PICK n : n = Len(delivered[r]) + 1
          OBVIOUS
        <5>4. delivered[r] \o <<n>> = Append(delivered[r], n)
          BY <1>0, <5>2, <5>3
        <5>5. Append(delivered[r], n) \in Seq(1 .. MaxUlp)
              /\ Len(Append(delivered[r], n)) = Len(delivered[r]) + 1
          BY <1>0, <5>2, <5>3
        <5>6. QED BY <4>1, <4>5, <5>1, <5>3, <5>4, <5>5
      <4>7. delivered' = [delivered EXCEPT ![r] = next] /\ delivered'[r] = next
        BY <1>0, <3>6, <4>6
      <4>8. p.received = Preamble(Peer(r)) + Len(delivered[r]) /\ p.etk = Secret(pid)
        BY <1>0, <1>2, <4>1 DEF StateFits
      <4>9. StateFits(r, pid)'
        <5>1. new.received = Preamble(Peer(r)) + Len(next)
          <6>0. PICK q \in Roles : q = Peer(r)
            BY <1>0
          <6>1. Preamble(Peer(r)) \in Nat
            <7>1. Preamble(q) \in Nat
              BY PreambleFacts
            <7>2. QED BY <6>0, <7>1
          <6>2. QED BY <3>4, <4>6, <4>8, <6>1
        <5>2. QED BY <1>4, <3>4, <4>1, <4>2, <4>4, <4>7, <4>8, <5>1 DEF StateFits
      <4>10. NominationFits(r, pid)'
        BY <1>0, <1>2, <1>4, <3>4, <3>6, <4>1, <4>2, <4>4 DEF NominationFits
      <4>11. RendezvousInv'
        <5>1. next \in Seq(1 .. MaxUlp) /\ delivered' = [delivered EXCEPT ![r] = next]
          BY <4>6, <4>7
        <5>2. p.sealed = path[r][pid].sealed
          BY <1>2
        <5>3. created[r] \in 0 .. MaxUlp
          BY <1>0
        <5>4. /\ new \in Paths /\ new.sealed = path[r][pid].sealed
              /\ sent' = sent /\ wire' = wire /\ nominated[r] = pid
          BY <3>4, <3>6, <3>7, <4>2, <5>2
        <5>5. QED BY <1>3, <3>5, <3>8, <4>3, <4>9, <4>10, <5>1, <5>3, <5>4, Moves
      <4>12. EndReceives(r)
        BY <3>6, <4>1, <4>2, <4>4, <4>5, <4>7 DEF EndReceives
      <4>13. QED BY <4>11, <4>12 DEF UpperLayerStep
    <3>12. QED BY <2>6, <3>9, <3>10, <3>11
  <2>7. QED BY <2>3, <2>4, <2>5, <2>6 DEF Processed
<1>7. QED BY <1>5, <1>6

\* The nominator nominates a path, ready or not (nominate_path).
LEMMA NominatePathKeeps ==
    ASSUME RendezvousInv, NEW r \in Roles, NEW pid \in Pids, NominatePath(r, pid)
    PROVE  RendezvousInv' /\ UpperLayerStep
<1> DEFINE p      == path[r][pid]
           result == IF r = "RID" THEN RidNominate(pid, p) ELSE RrdNominate(pid, p)
           frame  == FrameAt(r, pid, p.sealed + 1)
           new    == [AfterSeal(p) EXCEPT !.state = "Nominated"]
<1>0. /\ Types /\ SentInPlace /\ PathsFit
      /\ StateFits(r, pid) /\ NominationFits(r, pid)
      /\ created \in [Roles -> 0 .. MaxUlp] /\ delivered \in [Roles -> Seq(1 .. MaxUlp)]
      /\ created[r] \in 0 .. MaxUlp /\ delivered[r] \in Seq(1 .. MaxUlp)
      /\ cause \in [Roles -> Causes] /\ p \in Paths
      /\ Peer(r) \in Roles /\ r \in {"RID", "RRD"}
  BY PeerFacts DEF RendezvousInv, PathsFit, Types, Roles
<1>1. /\ Running(r) /\ r = nominator /\ nominated[r] = NoPid /\ Known(r, pid)
      /\ nominator' = nominator /\ stray' = stray
      /\ Handle(r, pid, result)
      /\ IF result.error = "none"
         THEN /\ path' = AfterNomination(r, pid, result.path)
              /\ nominated' = [nominated EXCEPT ![r] = pid]
         ELSE /\ path' = [path EXCEPT ![r][pid] = result.path]
              /\ UNCHANGED nominated
  BY DEF NominatePath
<1>2. \/ /\ result.error \in Causes \ {"none"}
         /\ result.path = [p EXCEPT !.state = "Dropped"]
      \/ /\ p.state = "AwaitingNominate" /\ CanSeal(p)
         /\ result = Ok(new, <<Seal(r, pid, p, NominateMessage)>>, <<>>)
  BY <1>0 DEF RidNominate, RrdNominate, Failed, Causes
<1> HIDE DEF result
<1>3. CASE /\ result.error \in Causes \ {"none"}
           /\ result.path = [p EXCEPT !.state = "Dropped"]
  <2>1. /\ result.path \in Paths /\ result.path.decoder = p.decoder
        /\ result.path.sealed = p.sealed /\ result.path.state = "Dropped"
    BY <1>0, <1>3 DEF Paths, PathStates
  <2>2. Stays(r, pid, result.path)
    BY <1>1, <1>3 DEF Stays
  <2>3. Abort(r, result.error)
    BY <1>1, <1>3 DEF Handle
  <2>4. PICK after : after = result.path
    OBVIOUS
  <2>5. \A k \in 1 .. Len(after.decoder.data) : \E j \in 1 .. Len(path[r][pid].decoder.data) :
            after.decoder.data[k] = path[r][pid].decoder.data[j]
    BY <2>1, <2>4
  <2>6. after \in Paths /\ after.sealed = path[r][pid].sealed
        /\ after.state \in {"Closed", "Invalid", "Dropped"} /\ Stays(r, pid, after)
    BY <2>1, <2>2, <2>4
  <2>7. QED BY <1>1, <1>3, <2>3, <2>5, <2>6, AbortKeeps
<1>4. CASE /\ p.state = "AwaitingNominate" /\ CanSeal(p)
           /\ result = Ok(new, <<Seal(r, pid, p, NominateMessage)>>, <<>>)
  <2>1. /\ p.sealed = Handshake(r) /\ p.received = Handshake(Peer(r)) /\ p.etk = Secret(pid)
        /\ Preamble(r) = Handshake(r) + 1 /\ Preamble(Peer(r)) = Handshake(Peer(r))
    BY <1>0, <1>1, <1>4, PreambleFacts, PeerFacts DEF StateFits
  <2>2. /\ Handshake(r) \in Nat /\ Handshake(r) + 1 > Handshake(r)
        /\ ~(Handshake(r) + 1 > Preamble(r)) /\ ~(Handshake(r) + 1 <= Handshake(r))
    <3>1. Handshake(r) \in Nat
      BY PreambleFacts
    <3>2. QED BY <2>1, <3>1
  <2>3. Seal(r, pid, p, NominateMessage) = frame
    <3>1. KeyOf(p, r) = Key(r, Secret(pid))
      BY <1>4, <2>1 DEF KeyOf, Racing
    <3>2. QED BY <2>1, <2>2, <3>1 DEF Seal, FrameAt, ContentAt
  <2>4. frame \in Frames
    <3>1. p.sealed + 1 \in 1 .. MaxSn
      <4>1. p.sealed \in 0 .. MaxSn - 1
        BY <1>0 DEF Paths
      <4>2. QED BY <4>1, RendezvousAssumption
    <3>2. p.sealed + 1 <= Preamble(r) + MaxUlp
      BY <2>1, <2>2, RendezvousAssumption
    <3>3. QED BY <3>1, <3>2, FrameAtType
  <2>5. /\ result.path = new /\ result.frames = <<frame>> /\ result.data = <<>>
        /\ result.error = "none" /\ result.frames # <<>> /\ result.frames[1] = frame
    BY <1>4, <2>3 DEF Ok
  <2>6. /\ new \in Paths /\ new.decoder = p.decoder /\ new.sealed = p.sealed + 1
        /\ new.received = p.received /\ new.etk = p.etk /\ new.state = "Nominated"
    <3>1. p.sealed + 1 \in 0 .. MaxSn - 1
      <4>1. p.sealed \in 0 .. MaxSn - 1 /\ p.sealed + 1 < MaxSn
        BY <1>0, <1>4 DEF Paths, CanSeal
      <4>2. QED BY <4>1, RendezvousAssumption
    <3>2. QED BY <1>0, <3>1 DEF Paths, AfterSeal, PathStates
  <2> HIDE DEF new, frame
  <2>7. IsNominated(r, pid, new)
    BY <1>1, <2>5 DEF IsNominated
  <2>8. path'[r][pid] = new /\ nominated'[r] = pid
    BY <1>0, <2>6, <2>7, MovedPath
  <2>9. /\ cause' = cause /\ created' = created /\ Sends(r, pid, frame)
    BY <1>1, <2>5 DEF Handle, Sends
  <2>10. delivered' = delivered
    <3>1. delivered' = [delivered EXCEPT ![r] = delivered[r] \o <<>>]
      BY <1>1, <2>5 DEF Handle
    <3>2. delivered[r] \o <<>> = delivered[r]
      BY <1>0
    <3>3. QED BY <1>0, <3>1, <3>2
  <2>11. created[r] = 0 /\ delivered[r] = <<>>
    BY <1>0, <1>1 DEF PathsFit
  <2>12. \A q : Preamble(q)' = Preamble(q)
    BY <1>1, SamePosition
  <2>13. StateFits(r, pid)'
    <3>0. PICK q \in Roles : q = Peer(r)
      BY <1>0
    <3>1. Preamble(Peer(r)) \in Nat
      <4>1. Preamble(q) \in Nat
        BY PreambleFacts
      <4>2. QED BY <3>0, <4>1
    <3>2. Len(delivered[r]) = 0
      BY <2>11
    <3>3. new.received = Preamble(Peer(r)) + Len(delivered[r])
      BY <2>1, <2>6, <3>1, <3>2
    <3>4. QED BY <2>1, <2>6, <2>8, <2>10, <2>12, <3>3 DEF StateFits
  <2>14. NominationFits(r, pid)'
    <3>1. new.sealed = Preamble(r) + created[r]
      BY <2>1, <2>2, <2>6, <2>11
    <3>2. QED BY <2>6, <2>8, <2>9, <2>12, <3>1 DEF NominationFits
  <2>15. RendezvousInv'
    <3>1. /\ cause' = [cause EXCEPT ![r] = cause[r]] /\ cause[r] \in Causes
          /\ created' = [created EXCEPT ![r] = created[r]]
          /\ delivered' = [delivered EXCEPT ![r] = delivered[r]]
      BY <1>0, <2>9, <2>10
    <3>2. \A k \in 1 .. Len(new.decoder.data) : \E j \in 1 .. Len(path[r][pid].decoder.data) :
              new.decoder.data[k] = path[r][pid].decoder.data[j]
      BY <2>6
    <3>3. /\ new.sealed = path[r][pid].sealed + 1
          /\ FrameAt(r, pid, new.sealed) \in Frames
          /\ Sends(r, pid, FrameAt(r, pid, new.sealed))
      BY <2>4, <2>6, <2>9 DEF frame
    <3>4. QED BY <1>0, <1>1, <2>6, <2>7, <2>13, <2>14, <3>1, <3>2, <3>3, Moves
  <2>16. NominatorChooses
    BY <1>1, <2>7, <2>9, <2>10 DEF IsNominated, NominatorChooses
  <2>17. QED BY <2>15, <2>16 DEF UpperLayerStep
<1>5. QED BY <1>2, <1>3, <1>4

\* A role sends a frame of the upper layer on the nominated path (create_ulp_frame).
LEMMA CreateUlpFrameKeeps ==
    ASSUME RendezvousInv, NEW r \in Roles, CreateUlpFrame(r)
    PROVE  RendezvousInv' /\ UpperLayerStep
<1>1. PICK pid \in Pids : pid = nominated[r]
  <2>1. nominated[r] \in Pids \cup {NoPid} /\ nominated[r] # NoPid
    BY DEF RendezvousInv, Types, CreateUlpFrame
  <2>2. QED BY <2>1
<1> DEFINE p      == path[r][pid]
           n      == created[r] + 1
           result == IF r = "RID" THEN RidCreateUlpFrame(pid, p, n)
                                  ELSE RrdCreateUlpFrame(pid, p, n)
           frame  == FrameAt(r, pid, p.sealed + 1)
<1>2. /\ Running(r) /\ created[r] < MaxUlp
      /\ path' = [path EXCEPT ![r][pid] = result.path]
      /\ IF result.error = "none"
         THEN /\ created' = [created EXCEPT ![r] = n]
              /\ sent' = [sent EXCEPT ![r][pid] = @ \o result.frames]
              /\ wire' = [wire EXCEPT ![Peer(r)][pid] = @ \o EncodeFrame(result.frames[1])]
              /\ UNCHANGED <<cause, delivered>>
         ELSE Abort(r, result.error)
      /\ UNCHANGED <<nominator, nominated, stray>>
  BY <1>1 DEF CreateUlpFrame
<1>0. /\ Types /\ SentInPlace /\ PathsFit
      /\ StateFits(r, pid) /\ NominationFits(r, pid)
      /\ created \in [Roles -> 0 .. MaxUlp] /\ delivered \in [Roles -> Seq(1 .. MaxUlp)]
      /\ created[r] \in 0 .. MaxUlp /\ delivered[r] \in Seq(1 .. MaxUlp)
      /\ cause \in [Roles -> Causes] /\ p \in Paths
      /\ Peer(r) \in Roles /\ r \in {"RID", "RRD"}
  BY PeerFacts DEF RendezvousInv, PathsFit, Types, Roles
<1>3. /\ p.state = "Nominated" /\ p.sealed = Preamble(r) + created[r] /\ p.etk = Secret(pid)
      /\ p.received = Preamble(Peer(r)) + Len(delivered[r])
  BY <1>0, <1>1, <1>2 DEF StateFits, NominationFits
<1>4. \/ result = Failed(p, p.state, "SequenceNumberOverflow")
      \/ CanSeal(p) /\ result = Ok(AfterSeal(p), <<Seal(r, pid, p, Ulp(n))>>, <<>>)
  BY <1>0 DEF RidCreateUlpFrame, RrdCreateUlpFrame
<1> HIDE DEF result
<1>5. CASE result = Failed(p, p.state, "SequenceNumberOverflow")
  <2>1. result.error = "SequenceNumberOverflow" /\ result.path = [p EXCEPT !.state = p.state]
    BY <1>5 DEF Failed
  <2>2. result.path = p
    BY <1>0, <2>1 DEF Paths
  <2>3. Stays(r, pid, p)
    BY <1>2, <2>2 DEF Stays
  <2>4. Abort(r, "SequenceNumberOverflow")
    BY <1>2, <2>1
  <2>5. "SequenceNumberOverflow" \in Causes \ {"none"}
    BY DEF Causes
  <2>6. QED BY <1>0, <1>1, <1>2, <2>3, <2>4, <2>5, AbortKeeps
<1>6. CASE CanSeal(p) /\ result = Ok(AfterSeal(p), <<Seal(r, pid, p, Ulp(n))>>, <<>>)
  <2> DEFINE new == AfterSeal(p)
  <2>1. /\ Handshake(r) \in Nat /\ Preamble(r) \in Nat /\ Preamble(r) >= Handshake(r)
        /\ n \in 1 .. MaxUlp /\ p.sealed + 1 = Preamble(r) + n
    <3>1. /\ Handshake(r) \in Nat /\ Preamble(r) \in Nat /\ Preamble(r) >= Handshake(r)
      BY PreambleFacts
    <3>2. n \in 1 .. MaxUlp
      BY <1>0, <1>2, RendezvousAssumption
    <3>3. QED BY <1>0, <1>3, <3>1, <3>2
  <2>2. Seal(r, pid, p, Ulp(n)) = frame
    <3>1. KeyOf(p, r) = Key(r, Secret(pid))
      BY <1>3 DEF KeyOf, Racing
    <3>2. ContentAt(r, pid, p.sealed + 1) = Ulp(n)
      BY <2>1, ContentFacts
    <3>3. ~(p.sealed + 1 <= Handshake(r))
      BY <2>1
    <3>4. QED BY <3>1, <3>2, <3>3 DEF Seal, FrameAt
  <2>3. frame \in Frames
    <3>1. p.sealed + 1 \in 1 .. MaxSn
      <4>1. p.sealed \in 0 .. MaxSn - 1
        BY <1>0 DEF Paths
      <4>2. QED BY <4>1, RendezvousAssumption
    <3>2. p.sealed + 1 <= Preamble(r) + MaxUlp
      BY <2>1, RendezvousAssumption
    <3>3. QED BY <3>1, <3>2, FrameAtType
  <2>4. /\ result.path = new /\ result.frames = <<frame>> /\ result.error = "none"
        /\ result.frames[1] = frame
    BY <1>6, <2>2 DEF Ok
  <2>5. /\ new \in Paths /\ new.decoder = p.decoder /\ new.sealed = p.sealed + 1
        /\ new.received = p.received /\ new.etk = p.etk /\ new.state = p.state
    <3>1. p.sealed + 1 \in 0 .. MaxSn - 1
      <4>1. p.sealed \in 0 .. MaxSn - 1 /\ p.sealed + 1 < MaxSn
        BY <1>0, <1>6 DEF Paths, CanSeal
      <4>2. QED BY <4>1, RendezvousAssumption
    <3>2. QED BY <1>0, <3>1 DEF Paths, AfterSeal
  <2> HIDE DEF new, frame
  <2>6. Stays(r, pid, new) /\ Sends(r, pid, frame)
        /\ cause' = cause /\ delivered' = delivered /\ created' = [created EXCEPT ![r] = n]
    BY <1>2, <2>4 DEF Stays, Sends
  <2>7. path'[r][pid] = new /\ nominated' = nominated
    <3>1. path'[r][pid] = new
      BY <1>0, <2>5, <2>6, MovedPath
    <3>2. QED BY <1>2, <3>1
  <2>8. \A q : Preamble(q)' = Preamble(q)
    BY <1>2, SamePosition
  <2>9. StateFits(r, pid)'
    BY <1>1, <1>3, <2>5, <2>6, <2>7, <2>8 DEF StateFits
  <2>10. NominationFits(r, pid)'
    <3>1. created'[r] = n
      BY <1>0, <2>6
    <3>2. QED BY <1>1, <1>3, <2>1, <2>5, <2>7, <2>8, <3>1 DEF NominationFits
  <2>11. RendezvousInv'
    <3>1. /\ cause' = [cause EXCEPT ![r] = cause[r]] /\ cause[r] \in Causes
          /\ delivered' = [delivered EXCEPT ![r] = delivered[r]]
      BY <1>0, <2>6
    <3>2. \A k \in 1 .. Len(new.decoder.data) : \E j \in 1 .. Len(path[r][pid].decoder.data) :
              new.decoder.data[k] = path[r][pid].decoder.data[j]
      BY <2>5
    <3>3. /\ new.sealed = path[r][pid].sealed + 1
          /\ FrameAt(r, pid, new.sealed) \in Frames
          /\ Sends(r, pid, FrameAt(r, pid, new.sealed))
      BY <2>3, <2>5, <2>6 DEF frame
    <3>4. n \in 0 .. MaxUlp
      BY <2>1
    <3>5. QED BY <1>0, <1>1, <1>2, <2>5, <2>6, <2>9, <2>10, <3>1, <3>2, <3>3, <3>4, Moves
  <2>12. EndSends(r)
    BY <1>1, <2>6, <2>7, RendezvousAssumption DEF EndSends
  <2>13. QED BY <2>11, <2>12 DEF UpperLayerStep
<1>7. QED BY <1>4, <1>5, <1>6

\* A path delivers a frame where it does not belong.
LEMMA StrayFrameKeeps ==
    ASSUME RendezvousInv, NEW r \in Roles, NEW pid \in Pids, StrayFrame(r, pid)
    PROVE  RendezvousInv'
<1>1. /\ Running(r) /\ stray < MaxStray /\ stray' = stray + 1
      /\ nominator' = nominator /\ path' = path /\ nominated' = nominated /\ cause' = cause
      /\ sent' = sent /\ created' = created /\ delivered' = delivered
  BY DEF StrayFrame
<1>2. PICK other \in Pids : \E i \in DOMAIN sent[Peer(r)][other] :
          wire' = [wire EXCEPT ![r][pid] = EncodeFrame(sent[Peer(r)][other][i])]
  BY DEF StrayFrame
<1>3. PICK i \in DOMAIN sent[Peer(r)][other] :
          wire' = [wire EXCEPT ![r][pid] = EncodeFrame(sent[Peer(r)][other][i])]
  BY <1>2
<1>4. /\ Types /\ SentInPlace /\ PathsFit /\ Peer(r) \in Roles
      /\ wire \in [Roles -> [Pids -> Seq(UlpUnits)]]
      /\ sent \in [Roles -> [Pids -> Seq(Frames)]]
      /\ sent[Peer(r)][other] \in Seq(Frames)
  BY PeerFacts DEF RendezvousInv, Types
<1>5. i \in 1 .. Len(sent[Peer(r)][other])
  BY <1>4
<1>6. PICK frame \in Frames : frame = sent[Peer(r)][other][i]
  BY <1>4, <1>5
<1>7. frame = FrameAt(Peer(r), other, i)
  BY <1>4, <1>5, <1>6 DEF SentInPlace
<1>8. NowSent(Peer(r), frame)
  BY <1>1, <1>5, <1>7 DEF NowSent
<1>9. PICK units : units = EncodeFrame(frame)
  OBVIOUS
<1>10. units \in Seq(UlpUnits) /\ \A k \in 1 .. Len(units) : units[k].frame = frame
  BY <1>9, EncodedUnits
<1>11. /\ wire' \in [Roles -> [Pids -> Seq(UlpUnits)]]
       /\ \A q \in Roles, x \in Pids : wire'[q][x] =
              IF q = r /\ x = pid THEN units ELSE wire[q][x]
  <2>1. wire' = [wire EXCEPT ![r][pid] = units]
    BY <1>3, <1>6, <1>9
  <2>2. QED BY <1>4, <1>10, <2>1
<1>12. Types'
  <2>1. stray' \in 0 .. MaxStray
    BY <1>1, <1>4, RendezvousAssumption DEF Types
  <2>2. QED BY <1>1, <1>4, <1>11, <2>1 DEF Types
<1>13. SendsAtMost(r, pid)
  BY <1>1, SendsNothing
<1>14. Circulates
  <2>1. ASSUME NEW q \in Roles, NEW x \in Pids, NEW k \in 1 .. Len(wire'[q][x])
        PROVE  \/ \E j \in 1 .. Len(wire[q][x]) : wire'[q][x][k] = wire[q][x][j]
               \/ NowSent(Peer(q), wire'[q][x][k].frame)
    <3>1. CASE q = r /\ x = pid
      <4>1. wire'[q][x] = units
        BY <1>11, <3>1
      <4>2. wire'[q][x][k].frame = frame
        BY <1>10, <4>1
      <4> HIDE DEF NowSent
      <4>3. QED BY <1>8, <3>1, <4>2
    <3>2. CASE ~(q = r /\ x = pid)
      BY <1>11, <3>2
    <3>3. QED BY <3>1, <3>2
  <2> HIDE DEF NowSent
  <2>2. QED BY <1>1, <2>1 DEF Circulates
<1>15. Elsewhere(r, pid)
  BY <1>1 DEF Elsewhere
<1>16. /\ StateFits(r, pid)' /\ NominationFits(r, pid)'
       /\ nominated'[r] = NoPid => created'[r] = 0 /\ delivered'[r] = <<>>
  <2>1. \A q : Preamble(q)' = Preamble(q)
    BY <1>1, SamePosition
  <2>2. StateFits(r, pid) /\ NominationFits(r, pid)
    BY <1>4 DEF PathsFit
  <2>3. StateFits(r, pid)'
    BY <1>1, <2>1, <2>2 DEF StateFits, Running
  <2>4. NominationFits(r, pid)'
    BY <1>1, <2>1, <2>2 DEF NominationFits, Running
  <2>5. QED BY <1>1, <1>4, <2>3, <2>4 DEF PathsFit
<1>17. QED BY <1>1, <1>12, <1>13, <1>14, <1>15, <1>16, StepKeeps

-----------------------------------------------------------------------------
(* The theorems                                                            *)

\* The protocols are created with their first frames in place (new_as_rid and
\* new_as_rrd).
LEMMA InitFits == Init => RendezvousInv
<1> SUFFICES ASSUME Init PROVE RendezvousInv
  OBVIOUS
<1> DEFINE new(r) == IF r = "RID" THEN RidNew ELSE RrdNew
           hello(pid) == RrdCreateHello(pid)
<1>1. NewDecoder(<<>>) \in Decoders /\ NewDecoder(<<>>).data = <<>>
  BY DEF NewDecoder, Decoders
<1>2. \A r \in Roles : /\ new(r) \in Paths /\ new(r).decoder.data = <<>>
                       /\ new(r).received = 0
                       /\ new(r).state = IF r = "RID" THEN "AwaitingHello"
                                                      ELSE "AwaitingAuthHello"
                       /\ new(r).sealed = IF r = "RID" THEN 0 ELSE 1
  <2>1. 0 \in 0 .. MaxSn - 1 /\ 1 \in 0 .. MaxSn - 1
    BY RendezvousAssumption
  <2>2. NoEtk \in SUBSET Randoms
    BY DEF NoEtk
  <2>3. RidNew \in Paths /\ RidNew.decoder = NewDecoder(<<>>) /\ RidNew.received = 0
        /\ RidNew.state = "AwaitingHello" /\ RidNew.sealed = 0
    BY <1>1, <2>1, <2>2 DEF RidNew, NewPath, Paths, PathStates, Racing
  <2>4. RrdNew \in Paths /\ RrdNew.decoder = NewDecoder(<<>>) /\ RrdNew.received = 0
        /\ RrdNew.state = "AwaitingAuthHello" /\ RrdNew.sealed = 1
    BY <1>1, <2>1, <2>2 DEF RrdNew, NewPath, Paths, PathStates, Racing
  <2>5. QED BY <1>1, <2>3, <2>4
<1>3. /\ nominator \in Roles /\ stray = 0
      /\ path \in [Roles -> [Pids -> Paths]]
      /\ \A r \in Roles, pid \in Pids : path[r][pid] = new(r)
  BY <1>2 DEF Init
<1> HIDE DEF new
<1>4. \A pid \in Pids : hello(pid) \in Frames /\ hello(pid) = FrameAt("RRD", pid, 1)
  <2> TAKE pid \in Pids
  <2>1. hello(pid) = FrameAt("RRD", pid, 1)
    <3>1. "RRD" \in Roles /\ 1 <= Handshake("RRD")
      BY DEF Roles, Handshake
    <3>2. ContentAt("RRD", pid, 1) = Hello(pid)
      BY <3>1, ContentFacts
    <3>3. QED BY <3>1, <3>2 DEF RrdCreateHello, FrameAt
  <2>2. 1 \in 1 .. MaxSn /\ 1 <= Preamble("RRD") + MaxUlp /\ "RRD" \in Roles
    <3>1. "RRD" \in Roles
      BY DEF Roles
    <3>2. Preamble("RRD") \in 1 .. 3
      BY <3>1, PreambleFacts
    <3>3. QED BY <3>1, <3>2, RendezvousAssumption
  <2>3. QED BY <2>1, <2>2, FrameAtType
<1>5. /\ sent \in [Roles -> [Pids -> Seq(Frames)]]
      /\ \A r \in Roles, pid \in Pids :
             sent[r][pid] = IF r = "RRD" THEN <<hello(pid)>> ELSE <<>>
  <2>1. \A pid \in Pids : <<hello(pid)>> \in Seq(Frames)
    BY <1>4
  <2>2. <<>> \in Seq(Frames)
    OBVIOUS
  <2>3. sent = [r \in Roles |-> [pid \in Pids |->
                   IF r = "RRD" THEN <<hello(pid)>> ELSE <<>>]]
    BY DEF Init
  <2> HIDE DEF hello
  <2>4. QED BY <2>1, <2>2, <2>3
<1>6. /\ wire \in [Roles -> [Pids -> Seq(UlpUnits)]]
      /\ \A r \in Roles, pid \in Pids :
             wire[r][pid] = IF r = "RID" THEN EncodeFrame(hello(pid)) ELSE <<>>
  <2>1. \A pid \in Pids : EncodeFrame(hello(pid)) \in Seq(UlpUnits)
    BY <1>4, EncodedUnits
  <2>2. <<>> \in Seq(UlpUnits)
    OBVIOUS
  <2>3. wire = [r \in Roles |-> [pid \in Pids |->
                   IF r = "RID" THEN EncodeFrame(hello(pid)) ELSE <<>>]]
    BY DEF Init
  <2> HIDE DEF hello
  <2>4. QED BY <2>1, <2>2, <2>3
<1>7. /\ nominated = [r \in Roles |-> NoPid] /\ cause = [r \in Roles |-> "none"]
      /\ created = [r \in Roles |-> 0] /\ delivered = [r \in Roles |-> <<>>]
  BY DEF Init
<1>8. Types
  <2>1. 0 \in 0 .. MaxUlp /\ 0 \in 0 .. MaxStray /\ <<>> \in Seq(1 .. MaxUlp)
    BY RendezvousAssumption
  <2>2. QED BY <1>3, <1>5, <1>6, <1>7, <2>1 DEF Types, Causes
<1> HIDE DEF hello
<1>9. SentInPlace
  <2> SUFFICES ASSUME NEW r \in Roles, NEW pid \in Pids
               PROVE  /\ path[r][pid].sealed = Len(sent[r][pid])
                      /\ \A i \in 1 .. Len(sent[r][pid]) : sent[r][pid][i] = FrameAt(r, pid, i)
    BY DEF SentInPlace
  <2>1. CASE r = "RID"
    <3>1. sent[r][pid] = <<>>
      BY <1>5, <2>1
    <3>2. new(r).sealed = 0 /\ path[r][pid] = new(r)
      BY <1>2, <1>3, <2>1
    <3>3. QED BY <3>1, <3>2
  <2>2. CASE r = "RRD"
    <3>1. sent[r][pid] = <<hello(pid)>> /\ path[r][pid].sealed = 1
      <4>1. sent[r][pid] = <<hello(pid)>>
        BY <1>5, <2>2
      <4>2. new(r).sealed = 1 /\ path[r][pid] = new(r)
        BY <1>2, <1>3, <2>2
      <4>3. QED BY <4>1, <4>2
    <3>2. QED BY <1>4, <2>2, <3>1
  <2>3. QED BY <2>1, <2>2 DEF Roles
<1>10. Genuine
  <2> SUFFICES ASSUME NEW r \in Roles, NEW pid \in Pids
               PROVE  /\ \A k \in 1 .. Len(wire[r][pid]) :
                             WasSent(Peer(r), wire[r][pid][k].frame)
                      /\ \A k \in 1 .. Len(path[r][pid].decoder.data) :
                             WasSent(Peer(r), path[r][pid].decoder.data[k].frame)
    BY DEF Genuine
  <2>1. Len(path[r][pid].decoder.data) = 0
    BY <1>2, <1>3
  <2>2. ASSUME NEW k \in 1 .. Len(wire[r][pid])
        PROVE  WasSent(Peer(r), wire[r][pid][k].frame)
    <3>1. CASE r = "RID"
      <4>1. PICK units : units = EncodeFrame(hello(pid))
        OBVIOUS
      <4>2. wire[r][pid] = units /\ \A j \in 1 .. Len(units) : units[j].frame = hello(pid)
        BY <1>4, <1>6, <3>1, <4>1, EncodedUnits
      <4>3. wire[r][pid][k].frame = hello(pid)
        BY <4>2
      <4>4. Peer(r) = "RRD" /\ Len(sent["RRD"][pid]) = 1
        <5>1. "RRD" \in Roles /\ Peer(r) = "RRD"
          BY <3>1 DEF Peer, Roles
        <5>2. sent["RRD"][pid] = <<hello(pid)>>
          BY <1>5, <5>1
        <5>3. QED BY <5>1, <5>2
      <4>5. WasSent("RRD", hello(pid))
        <5>1. 1 \in 1 .. Len(sent["RRD"][pid])
          BY <4>4
        <5>2. hello(pid) = FrameAt("RRD", pid, 1)
          BY <1>4
        <5>3. QED BY <5>1, <5>2 DEF WasSent
      <4>6. QED BY <4>3, <4>4, <4>5
    <3>2. CASE r = "RRD"
      BY <1>6, <3>2
    <3>3. QED BY <3>1, <3>2 DEF Roles
  <2>3. QED BY <2>1, <2>2
<1>11. PathsFit
  <2>1. ASSUME NEW r \in Roles, NEW pid \in Pids
        PROVE  StateFits(r, pid) /\ NominationFits(r, pid)
    <3>1. /\ path[r][pid].received = 0
          /\ path[r][pid].state = IF r = "RID" THEN "AwaitingHello" ELSE "AwaitingAuthHello"
          /\ path[r][pid].sealed = IF r = "RID" THEN 0 ELSE 1
      BY <1>2, <1>3
    <3>2. StateFits(r, pid)
      BY <3>1 DEF StateFits, Roles
    <3>3. NominationFits(r, pid)
      BY <1>7, <3>1, RendezvousAssumption DEF NominationFits, Handshake
    <3>4. QED BY <3>2, <3>3
  <2>2. QED BY <1>7, <2>1 DEF PathsFit
<1>12. QED BY <1>8, <1>9, <1>10, <1>11 DEF RendezvousInv

\* Every step keeps the invariant, and means for the upper layer what it should.
LEMMA NextFits ==
    ASSUME RendezvousInv, [Next]_vars
    PROVE  RendezvousInv' /\ UpperLayerStep /\ nominator' = nominator
<1>1. ASSUME NEW r \in Roles, NEW pid \in Pids, NEW n \in 1 .. Len(wire[r][pid]),
             AddChunks(r, pid, n)
      PROVE  RendezvousInv' /\ UpperLayerStep /\ nominator' = nominator
  <2>1. RendezvousInv'
    BY <1>1, AddChunksKeeps
  <2>2. QED BY <1>1, <2>1 DEF AddChunks, UpperLayerStep
<1>2. ASSUME NEW r \in Roles, NEW pid \in Pids, ProcessFrame(r, pid)
      PROVE  RendezvousInv' /\ UpperLayerStep /\ nominator' = nominator
  <2>1. RendezvousInv' /\ UpperLayerStep
    BY <1>2, ProcessFrameKeeps
  <2>2. nominator' = nominator
    BY <1>2 DEF ProcessFrame
  <2>3. QED BY <2>1, <2>2
<1>3. ASSUME NEW r \in Roles, NEW pid \in Pids, NominatePath(r, pid)
      PROVE  RendezvousInv' /\ UpperLayerStep /\ nominator' = nominator
  <2>1. RendezvousInv' /\ UpperLayerStep
    BY <1>3, NominatePathKeeps
  <2>2. nominator' = nominator
    BY <1>3 DEF NominatePath
  <2>3. QED BY <2>1, <2>2
<1>4. ASSUME NEW r \in Roles, NEW pid \in Pids, StrayFrame(r, pid)
      PROVE  RendezvousInv' /\ UpperLayerStep /\ nominator' = nominator
  <2>1. RendezvousInv'
    BY <1>4, StrayFrameKeeps
  <2>2. QED BY <1>4, <2>1 DEF StrayFrame, UpperLayerStep
<1>5. ASSUME NEW r \in Roles, CreateUlpFrame(r)
      PROVE  RendezvousInv' /\ UpperLayerStep /\ nominator' = nominator
  <2>1. RendezvousInv' /\ UpperLayerStep
    BY <1>5, CreateUlpFrameKeeps
  <2>2. nominator' = nominator
    BY <1>5 DEF CreateUlpFrame
  <2>3. QED BY <2>1, <2>2
<1>6. ASSUME UNCHANGED vars
      PROVE  RendezvousInv' /\ UpperLayerStep /\ nominator' = nominator
  <2>1. /\ nominator' = nominator /\ path' = path /\ nominated' = nominated /\ cause' = cause
        /\ wire' = wire /\ sent' = sent /\ created' = created /\ delivered' = delivered
        /\ stray' = stray
    BY <1>6 DEF vars
  <2>2. Types' /\ SentInPlace'
    BY <2>1, SamePosition DEF RendezvousInv, Types, SentInPlace
  <2>3. Genuine'
    BY <2>1 DEF RendezvousInv, Genuine, WasSent, FrameAt, ContentAt, Preamble
  <2>4. PathsFit'
    BY <2>1, SamePosition DEF RendezvousInv, PathsFit, StateFits, NominationFits, Running
  <2>5. QED BY <2>1, <2>2, <2>3, <2>4 DEF RendezvousInv, UpperLayerStep
<1>7. QED BY <1>1, <1>2, <1>3, <1>4, <1>5, <1>6 DEF Next

\* The invariant holds throughout.
LEMMA RendezvousInvariant == Spec => []RendezvousInv
<1>1. RendezvousInv /\ [Next]_vars => RendezvousInv'
  BY NextFits
<1>2. QED BY InitFits, <1>1, PTL DEF Spec

\* The variables keep their types: also the sequence numbers, which stay below the
\* value at which they would overflow (rxdxk.rs).
THEOREM TypeCorrect == Spec => []TypeOK
<1>1. RendezvousInv => TypeOK
  <2> SUFFICES ASSUME RendezvousInv PROVE TypeOK
    OBVIOUS
  <2>1. ASSUME NEW r \in Roles, NEW pid \in Pids
        PROVE  /\ path[r][pid].state \in PathStates
               /\ path[r][pid].sealed \in 0 .. MaxSn - 1
               /\ path[r][pid].received \in 0 .. MaxSn - 1
               /\ \A i \in DOMAIN sent[r][pid] : sent[r][pid][i] \in Frames
               /\ \A i \in DOMAIN wire[r][pid] : wire[r][pid][i].part \in 0 .. UlpLength + 1
    <3>1. path[r][pid] \in Paths /\ sent[r][pid] \in Seq(Frames)
          /\ wire[r][pid] \in Seq(UlpUnits)
      BY DEF RendezvousInv, Types
    <3>2. \A i \in DOMAIN wire[r][pid] : wire[r][pid][i] \in UlpUnits
      BY <3>1
    <3>3. QED BY <3>1, <3>2 DEF Paths, UlpUnits
  <2>2. QED BY <2>1 DEF RendezvousInv, Types, TypeOK
<1>2. QED BY RendezvousInvariant, <1>1, PTL

\* No two frames leave either end under the same key and nonce, on any path
\* (rxdxk.rs, encrypt and new_from).
THEOREM NoncesUnique == Spec => []NonceUnique
<1>1. RendezvousInv => NonceUnique
  <2> SUFFICES ASSUME RendezvousInv, NEW r1 \in Roles, NEW r2 \in Roles,
                      NEW p1 \in Pids, NEW p2 \in Pids,
                      NEW i \in DOMAIN sent[r1][p1], NEW j \in DOMAIN sent[r2][p2],
                      sent[r1][p1][i].key = sent[r2][p2][j].key,
                      sent[r1][p1][i].nonce = sent[r2][p2][j].nonce
               PROVE  <<r1, p1, i>> = <<r2, p2, j>>
    BY DEF NonceUnique
  <2>1. sent[r1][p1] \in Seq(Frames) /\ sent[r2][p2] \in Seq(Frames)
    BY DEF RendezvousInv, Types
  <2>2. sent[r1][p1][i] = FrameAt(r1, p1, i) /\ sent[r2][p2][j] = FrameAt(r2, p2, j)
    BY <2>1 DEF RendezvousInv, SentInPlace
  <2>3. FrameAt(r1, p1, i).key.of = FrameAt(r2, p2, j).key.of
        /\ FrameAt(r1, p1, i).nonce = FrameAt(r2, p2, j).nonce
    BY <2>2
  <2>4. r1 = r2 /\ p1 = p2 /\ i = j
    BY <2>3 DEF FrameAt, Key, Nonce
  <2>5. QED BY <2>4
<1>2. QED BY RendezvousInvariant, <1>1, PTL

\* The rendezvous protocol implements the nominated channel, whatever the paths
\* deliver (RendezvousProtocol: nominate_path, process_frame, create_ulp_frame).
THEOREM ImplementsChannel == Spec => ChannelSpec
<1>1. Init => Channel!Init
  <2> SUFFICES ASSUME Init PROVE Channel!Init
    OBVIOUS
  <2>1. nominator \in Roles /\ Peer(nominator) \in Roles
    BY PeerFacts DEF Init
  <2>2. \A end \in Ends : RoleOf(end) \in Roles
    BY <2>1 DEF RoleOf
  <2>3. QED BY <2>1, <2>2 DEF Init, Channel!Init, Channel!Ends, Ends
<1>2. RendezvousInv /\ [Next]_vars => [Channel!Next]_(Channel!channelVars)
  <2> SUFFICES ASSUME RendezvousInv, [Next]_vars
               PROVE  [Channel!Next]_(Channel!channelVars)
    OBVIOUS
  <2>1. UpperLayerStep /\ nominator' = nominator
    BY NextFits
  <2>2. /\ nominator \in Roles /\ Peer(nominator) \in Roles /\ Peer(nominator) # nominator
        /\ Peer(Peer(nominator)) = nominator
        /\ nominated \in [Roles -> Pids \cup {NoPid}]
        /\ created \in [Roles -> 0 .. MaxUlp] /\ delivered \in [Roles -> Seq(1 .. MaxUlp)]
    BY PeerFacts DEF RendezvousInv, Types
  <2>3. /\ Channel!Ends = Ends
        /\ \A end \in Ends : RoleOf(end) \in Roles /\ RoleOf(end)' = RoleOf(end)
        /\ \A end \in Ends : RoleOf(Channel!Peer(end)) = Peer(RoleOf(end))
        /\ \A end \in Ends : Channel!Peer(end) \in Ends
        /\ \A e1, e2 \in Ends : RoleOf(e1) = RoleOf(e2) => e1 = e2
        /\ \A r \in Roles : \E end \in Ends : r = RoleOf(end)
    BY <2>1, <2>2 DEF Ends, Channel!Ends, Channel!Peer, RoleOf, Roles, Peer
  <2>4. \A end \in Ends : Channel!Knows(end) <=> nominated[RoleOf(end)] # NoPid
    BY DEF Ends, Channel!Knows, RoleOf
  <2>5. CASE UNCHANGED <<nominated, created, delivered>>
    BY <2>1, <2>3, <2>5 DEF Channel!channelVars
  <2>6. CASE NominatorChooses
    <3>1. PICK pid \in Pids : nominated' = [nominated EXCEPT ![nominator] = pid]
      BY <2>6 DEF NominatorChooses
    <3>2. /\ nominated'[nominator'] = pid
          /\ nominated'[Peer(nominator)'] = nominated[Peer(nominator)]
      BY <2>1, <2>2, <3>1
    <3>3. Channel!Choose(pid)
      BY <2>1, <2>3, <2>6, <3>2 DEF NominatorChooses, Channel!Choose
    <3>4. QED BY <3>3 DEF Channel!Next
  <2>7. CASE NomineeLearns
    <3>1. /\ nominated'[nominator'] = nominated[nominator]
          /\ nominated'[Peer(nominator)'] = nominated[nominator]
      BY <2>1, <2>2, <2>7 DEF NomineeLearns
    <3>2. Channel!Learn
      BY <2>1, <2>3, <2>7, <3>1 DEF NomineeLearns, Channel!Learn
    <3>3. QED BY <3>2 DEF Channel!Next
  <2>8. ASSUME NEW r \in Roles, EndSends(r) PROVE [Channel!Next]_(Channel!channelVars)
    <3>1. PICK end \in Ends : r = RoleOf(end)
      BY <2>3
    <3>2. [e \in Ends |-> created[RoleOf(e)]]' =
              [[e \in Ends |-> created[RoleOf(e)]] EXCEPT ![end] = @ + 1]
      <4>1. \A q \in Roles : created'[q] = IF q = r THEN created[q] + 1 ELSE created[q]
        BY <2>2, <2>8 DEF EndSends
      <4>2. \A e \in Ends : created'[RoleOf(e)'] =
                IF e = end THEN created[RoleOf(e)] + 1 ELSE created[RoleOf(e)]
        BY <2>3, <3>1, <4>1
      <4>3. QED BY <4>2
    <3>3. Channel!Send(end)
      BY <2>1, <2>3, <2>4, <2>8, <3>1, <3>2 DEF EndSends, Channel!Send
    <3>4. QED BY <2>3, <3>3 DEF Channel!Next
  <2>9. ASSUME NEW r \in Roles, EndReceives(r) PROVE [Channel!Next]_(Channel!channelVars)
    <3>1. PICK end \in Ends : r = RoleOf(end)
      BY <2>3
    <3>2. [e \in Ends |-> delivered[RoleOf(e)]]' =
              [[e \in Ends |-> delivered[RoleOf(e)]] EXCEPT
                  ![end] = Append(@, Len(delivered[RoleOf(end)]) + 1)]
      <4>1. \A q \in Roles : delivered'[q] =
                IF q = r THEN Append(delivered[q], Len(delivered[q]) + 1) ELSE delivered[q]
        BY <2>2, <2>9 DEF EndReceives
      <4>2. \A e \in Ends : delivered'[RoleOf(e)'] =
                IF e = end THEN Append(delivered[RoleOf(e)], Len(delivered[RoleOf(e)]) + 1)
                ELSE delivered[RoleOf(e)]
        BY <2>3, <3>1, <4>1
      <4>3. QED BY <4>2
    <3>3. Channel!Receive(end)
      BY <2>1, <2>3, <2>4, <2>9, <3>1, <3>2 DEF EndReceives, Channel!Receive
    <3>4. QED BY <2>3, <3>3 DEF Channel!Next
  <2>10. QED BY <2>1, <2>5, <2>6, <2>7, <2>8, <2>9 DEF UpperLayerStep
<1>3. QED BY RendezvousInvariant, <1>1, <1>2, PTL DEF Spec, ChannelSpec, Channel!Spec

-----------------------------------------------------------------------------
(* Paths that deliver what was sent on them                                *)
(*                                                                         *)
(* What a path has not read yet are the frames next in their places, up to *)
(* the last its peer has sent.  So each frame is the one that is awaited,  *)
(* sealed with the key it is opened with, and none comes unexpected.       *)

\* The frames a role sends on a path, by their position
Positions(r, pid) == [i \in Nat |-> FrameAt(r, pid, i)]

UnitOf(frame, part) == [frame |-> frame, part |-> part]

\* From a unit of the i-th frame on, the frame is complete, and what follows is the
\* next frame, unless it was the last of n.
Continues(F, n, units, k, i, part) ==
    LET length == FrameLength(F[i])
        end    == k + (length - part)
    IN  /\ end <= Len(units)
        /\ \A j \in k .. end : units[j] = UnitOf(F[i], part + (j - k))
        /\ IF end = Len(units) THEN i = n ELSE units[end + 1] = UnitOf(F[i + 1], 0)
InPlace(F, n, units) ==
    \A k \in 1 .. Len(units) : \E i \in 1 .. n : \E part \in 0 .. FrameLength(F[i]) :
        Continues(F, n, units, k, i, part)

\* A decoder that has opened the first frames out of n reads the next ones.
Reads(F, n, opened, decoder, units) ==
    /\ InPlace(F, n, units)
    /\ units = <<>> => opened = n /\ decoder.state = "PartialDelimiter"
    /\ units # <<>> =>
           IF decoder.state = "PartialDelimiter" THEN units[1] = UnitOf(F[opened + 1], 0)
           ELSE /\ units[1] = UnitOf(F[opened + 1], 1)
                /\ decoder.length = FrameLength(F[opened + 1])

Unread(r, pid) == path[r][pid].decoder.data \o wire[r][pid]
Straight ==
    stray = 0 => \A r \in Roles, pid \in Pids :
        Running(r) /\ Known(r, pid) =>
            Reads(Positions(Peer(r), pid), Len(sent[Peer(r)][pid]), path[r][pid].received,
                  path[r][pid].decoder, Unread(r, pid))

\* What the nominee has learnt was nominated.
Agreed == nominated[Peer(nominator)] \in {NoPid, nominated[nominator]}

StraightInv == RendezvousInv /\ Straight /\ Agreed /\ NoSpuriousError

\* What is left of a sequence, ...
LEMMA Drained ==
    ASSUME NEW S, NEW s \in Seq(S), NEW m \in 0 .. Len(s)
    PROVE  /\ Drain(s, m) \in Seq(S) /\ Len(Drain(s, m)) = Len(s) - m /\ Len(s) \in Nat
           /\ \A k \in 1 .. Len(s) - m : Drain(s, m)[k] = s[m + k]
           /\ Drain(s, 0) = s
<1>1. Len(s) \in Nat /\ m \in Nat
  OBVIOUS
<1>2. \A k \in m + 1 .. Len(s) : s[k] \in S
  BY <1>1
<1>3. /\ SubSeq(s, m + 1, Len(s)) \in Seq(S)
      /\ Len(SubSeq(s, m + 1, Len(s))) =
             IF m + 1 <= Len(s) THEN Len(s) - (m + 1) + 1 ELSE 0
      /\ \A k \in 1 .. Len(s) - (m + 1) + 1 : SubSeq(s, m + 1, Len(s))[k] = s[m + 1 + k - 1]
  BY <1>1, <1>2, SubSeqProperties
<1>4. Drain(s, 0) = s
  BY SubSeqFull DEF Drain
<1>5. Drain(s, m) = SubSeq(s, m + 1, Len(s))
  BY DEF Drain
<1>6. Len(Drain(s, m)) = Len(s) - m
  BY <1>1, <1>3, <1>5
<1>7. ASSUME NEW k \in 1 .. Len(s) - m PROVE Drain(s, m)[k] = s[m + k]
  <2>1. k \in 1 .. Len(s) - (m + 1) + 1 /\ m + 1 + k - 1 = m + k
    BY <1>1
  <2>2. QED
    BY <1>3, <1>5, <2>1
<1>8. QED
  BY <1>1, <1>3, <1>4, <1>5, <1>6, <1>7

\* ... with more behind it.
LEMMA DrainBefore ==
    ASSUME NEW S, NEW s \in Seq(S), NEW rest \in Seq(S), NEW m \in 0 .. Len(s)
    PROVE  Drain(s, m) \o rest = Drain(s \o rest, m)
<1>1. /\ s \o rest \in Seq(S) /\ Len(s \o rest) = Len(s) + Len(rest)
      /\ Len(s) \in Nat /\ Len(rest) \in Nat /\ m \in 0 .. Len(s \o rest)
      /\ \A i \in 1 .. Len(s) + Len(rest) : (s \o rest)[i] =
             IF i <= Len(s) THEN s[i] ELSE rest[i - Len(s)]
  BY ConcatProperties
<1>2. /\ Drain(s, m) \in Seq(S) /\ Len(Drain(s, m)) = Len(s) - m
      /\ \A k \in 1 .. Len(s) - m : Drain(s, m)[k] = s[m + k]
  BY Drained
<1>3. /\ Drain(s \o rest, m) \in Seq(S) /\ Len(Drain(s \o rest, m)) = Len(s \o rest) - m
      /\ \A k \in 1 .. Len(s \o rest) - m : Drain(s \o rest, m)[k] = (s \o rest)[m + k]
  BY <1>1, Drained
<1> DEFINE a == Drain(s, m)
           b == Drain(s \o rest, m)
<1>4. /\ a \o rest \in Seq(S) /\ Len(a \o rest) = Len(a) + Len(rest)
      /\ \A i \in 1 .. Len(a) + Len(rest) : (a \o rest)[i] =
             IF i <= Len(a) THEN a[i] ELSE rest[i - Len(a)]
  BY <1>2, ConcatProperties
<1> HIDE DEF a, b
<1>5. ASSUME NEW i \in 1 .. Len(a \o rest) PROVE (a \o rest)[i] = b[i]
  <2>1. i \in 1 .. Len(s) + Len(rest) - m /\ m + i \in 1 .. Len(s) + Len(rest)
    BY <1>1, <1>2, <1>4, <1>5 DEF a
  <2>2. b[i] = IF m + i <= Len(s) THEN s[m + i] ELSE rest[m + i - Len(s)]
    BY <1>1, <1>3, <2>1 DEF b
  <2>3. (a \o rest)[i] = IF i <= Len(s) - m THEN s[m + i] ELSE rest[i - (Len(s) - m)]
    BY <1>1, <1>2, <1>4, <2>1 DEF a
  <2>4. i - (Len(s) - m) = m + i - Len(s) /\ (i <= Len(s) - m <=> m + i <= Len(s))
    BY <1>1, <2>1
  <2>5. QED
    BY <2>2, <2>3, <2>4
<1>6. a \o rest = b
  <2>1. Len(a \o rest) = Len(b)
    BY <1>1, <1>2, <1>3, <1>4 DEF a, b
  <2>2. b \in Seq(S)
    BY <1>3 DEF b
  <2>3. QED
    BY <1>4, <1>5, <2>1, <2>2, SeqEqual
<1>7. QED
  BY <1>6 DEF a, b

\* It does not matter in which order sequences are joined, ...
Grouped(s, t, u) == (s \o t) \o u = s \o (t \o u)

LEMMA AllGrouped == \A S : \A s, t, u \in Seq(S) : Grouped(s, t, u)
  BY ConcatAssociative DEF Grouped

\* ... and so the first elements may be moved from one to the other.
LEMMA MovedOver ==
    ASSUME NEW S, NEW s \in Seq(S), NEW rest \in Seq(S), NEW n \in 1 .. Len(rest)
    PROVE  (s \o First(rest, n)) \o Drain(rest, n) = s \o rest
<1>1. Len(rest) \in Nat /\ n \in 0 .. Len(rest) /\ 1 \in 1 .. Len(rest) + 1
      /\ Len(rest) \in n .. Len(rest)
  OBVIOUS
<1>2. First(rest, n) \o Drain(rest, n) = rest
  BY <1>1, ConcatAdjacentSubSeq, SubSeqFull DEF First, Drain
<1>3. First(rest, n) \in Seq(S) /\ Drain(rest, n) \in Seq(S)
  <2>1. \A k \in 1 .. n : rest[k] \in S
    BY <1>1
  <2>2. QED
    BY <1>1, <2>1, SubSeqProperties, Drained DEF First
<1>4. (s \o First(rest, n)) \o Drain(rest, n) = s \o (First(rest, n) \o Drain(rest, n))
  <2>1. PICK a, b : a = First(rest, n) /\ b = Drain(rest, n)
    OBVIOUS
  <2>2. a \in Seq(S) /\ b \in Seq(S)
    BY <1>3, <2>1
  <2>3. Grouped(s, a, b)
    BY <2>2, AllGrouped
  <2>4. QED
    BY <2>1, <2>3 DEF Grouped
<1>5. QED
  BY <1>2, <1>4

\* Different positions have different frames, each of at least one unit.
LEMMA PositionFacts ==
    ASSUME NEW r, NEW pid
    PROVE  /\ \A i \in Nat : Positions(r, pid)[i] = FrameAt(r, pid, i)
           /\ \A i, j \in Nat : Positions(r, pid)[i] = Positions(r, pid)[j] => i = j
           /\ \A frame : FrameLength(frame) \in Nat \ {0}
<1>1. \A i \in Nat : Positions(r, pid)[i] = FrameAt(r, pid, i)
  BY DEF Positions
<1>2. ASSUME NEW i \in Nat, NEW j \in Nat, FrameAt(r, pid, i) = FrameAt(r, pid, j)
      PROVE  i = j
  <2>1. Nonce(pid, i) = Nonce(pid, j)
    BY <1>2 DEF FrameAt
  <2>2. QED
    BY <2>1 DEF Nonce
<1>3. \A frame : FrameLength(frame) \in Nat \ {0}
  BY RendezvousAssumption DEF FrameLength
<1>4. QED
  BY <1>1, <1>2, <1>3

\* Without its first units a stream is one still.
LEMMA LaterInPlace ==
    ASSUME NEW F, NEW n \in Nat, NEW S, NEW units \in Seq(S), NEW m \in 0 .. Len(units),
           \A frame : FrameLength(frame) \in Nat \ {0},
           InPlace(F, n, units)
    PROVE  InPlace(F, n, Drain(units, m))
<1> DEFINE rest == Drain(units, m)
<1>1. /\ rest \in Seq(S) /\ Len(rest) = Len(units) - m /\ Len(units) \in Nat /\ m \in Nat
      /\ \A k \in 1 .. Len(units) - m : rest[k] = units[m + k]
  BY Drained
<1> HIDE DEF rest
<1>2. ASSUME NEW k \in 1 .. Len(rest)
      PROVE  \E i \in 1 .. n : \E part \in 0 .. FrameLength(F[i]) :
                 Continues(F, n, rest, k, i, part)
  <2>1. m + k \in 1 .. Len(units)
    BY <1>1
  <2>a. PICK i \in 1 .. n : \E part \in 0 .. FrameLength(F[i]) :
            Continues(F, n, units, m + k, i, part)
    BY <2>1 DEF InPlace
  <2>2. PICK part \in 0 .. FrameLength(F[i]) : Continues(F, n, units, m + k, i, part)
    BY <2>a
  <2> DEFINE end == k + (FrameLength(F[i]) - part)
  <2>3. FrameLength(F[i]) \in Nat /\ part \in Nat /\ FrameLength(F[i]) - part \in Nat
        /\ end \in Nat /\ end >= k /\ (m + k) + (FrameLength(F[i]) - part) = m + end
    <3>1. FrameLength(F[i]) \in Nat
      OBVIOUS
    <3>2. QED
      BY <1>1, <3>1
  <2>4. /\ m + end <= Len(units)
        /\ \A j \in m + k .. m + end : units[j] = UnitOf(F[i], part + (j - (m + k)))
        /\ IF m + end = Len(units) THEN i = n ELSE units[m + end + 1] = UnitOf(F[i + 1], 0)
    BY <2>2, <2>3 DEF Continues
  <2> HIDE DEF end
  <2>5. end <= Len(rest)
    BY <1>1, <2>3, <2>4
  <2>6. ASSUME NEW j \in k .. end PROVE rest[j] = UnitOf(F[i], part + (j - k))
    <3>1. j \in 1 .. Len(units) - m /\ m + j \in m + k .. m + end
          /\ (m + j) - (m + k) = j - k
      BY <1>1, <2>3, <2>5
    <3>2. QED
      BY <1>1, <2>4, <3>1
  <2>7. IF end = Len(rest) THEN i = n ELSE rest[end + 1] = UnitOf(F[i + 1], 0)
    <3>1. CASE end = Len(rest)
      BY <1>1, <2>3, <2>4, <3>1
    <3>2. CASE end # Len(rest)
      <4>1. end + 1 \in 1 .. Len(units) - m /\ m + end # Len(units)
            /\ m + (end + 1) = m + end + 1
        BY <1>1, <2>3, <2>5, <3>2
      <4>2. QED
        BY <1>1, <2>4, <3>2, <4>1
    <3>3. QED
      BY <3>1, <3>2
  <2>8. Continues(F, n, rest, k, i, part)
    BY <2>5, <2>6, <2>7 DEF Continues, end
  <2>9. QED
    BY <2>8
<1>3. QED
  BY <1>2 DEF InPlace, rest

\* The units of a frame.
LEMMA FrameUnits ==
    ASSUME NEW frame, FrameLength(frame) \in Nat \ {0}
    PROVE  /\ Len(EncodeFrame(frame)) = FrameLength(frame) + 1
           /\ EncodeFrame(frame) # <<>>
           /\ \A j \in 1 .. FrameLength(frame) + 1 :
                  EncodeFrame(frame)[j] = UnitOf(frame, j - 1)
<1> DEFINE body == Body(frame)
           S == {UnitOf(frame, j) : j \in 0 .. FrameLength(frame)}
           length == FrameLength(frame)
<1>1. /\ body \in Seq(S) /\ Len(body) = length
      /\ \A j \in 1 .. length : body[j] = UnitOf(frame, j)
  <2>1. body = [j \in 1 .. length |-> UnitOf(frame, j)]
    BY DEF Body, UnitOf
  <2>2. \A j \in 1 .. length : UnitOf(frame, j) \in S
    OBVIOUS
  <2> HIDE DEF S, body
  <2>3. QED
    BY <2>1, <2>2
<1>2. UnitOf(frame, 0) \in S
  OBVIOUS
<1>3. EncodeFrame(frame) = <<UnitOf(frame, 0)>> \o body
  BY DEF EncodeFrame, UnitOf
<1> HIDE DEF body, S
<1>4. PICK first : first = UnitOf(frame, 0)
  OBVIOUS
<1>5. <<first>> \in Seq(S) /\ Len(<<first>>) = 1 /\ <<first>>[1] = first
  BY <1>2, <1>4
<1>6. /\ Len(<<first>> \o body) = 1 + length
      /\ \A j \in 1 .. 1 + length : (<<first>> \o body)[j] =
             IF j <= 1 THEN <<first>>[j] ELSE body[j - 1]
  BY <1>1, <1>5, ConcatProperties
<1>7. QED
  <2>1. ASSUME NEW j \in 1 .. length + 1 PROVE EncodeFrame(frame)[j] = UnitOf(frame, j - 1)
    <3>1. CASE j = 1
      BY <1>3, <1>4, <1>5, <1>6, <3>1
    <3>2. CASE j # 1
      <4>1. j - 1 \in 1 .. length /\ ~(j <= 1) /\ j \in 1 .. 1 + length
        BY <3>2
      <4>2. QED
        BY <1>1, <1>3, <1>4, <1>6, <4>1
    <3>3. QED
      BY <3>1, <3>2
  <2>2. Len(EncodeFrame(frame)) = length + 1
    BY <1>3, <1>4, <1>6
  <2>3. EncodeFrame(frame) # <<>>
    BY <2>2
  <2>4. QED
    BY <2>1, <2>2, <2>3

\* A stream is one still with the frame behind it that is next.
LEMMA MoreInPlace ==
    ASSUME NEW F, NEW n \in Nat, NEW S, NEW units \in Seq(S),
           \A frame : FrameLength(frame) \in Nat \ {0},
           EncodeFrame(F[n + 1]) \in Seq(S), InPlace(F, n, units)
    PROVE  InPlace(F, n + 1, units \o EncodeFrame(F[n + 1]))
<1> DEFINE next   == F[n + 1]
           length == FrameLength(next)
           e      == EncodeFrame(next)
           all    == units \o e
<1>1. /\ Len(e) = length + 1 /\ length \in Nat \ {0}
      /\ \A j \in 1 .. length + 1 : e[j] = UnitOf(next, j - 1)
  BY FrameUnits
<1>2. e \in Seq(S)
  OBVIOUS
<1> HIDE DEF e
<1>3. /\ Len(all) = Len(units) + (length + 1) /\ Len(units) \in Nat
      /\ \A j \in 1 .. Len(units) + (length + 1) : all[j] =
             IF j <= Len(units) THEN units[j] ELSE e[j - Len(units)]
  <2>1. /\ Len(units \o e) = Len(units) + Len(e)
        /\ \A j \in 1 .. Len(units) + Len(e) : (units \o e)[j] =
               IF j <= Len(units) THEN units[j] ELSE e[j - Len(units)]
    BY <1>2, ConcatProperties
  <2>2. Len(units) \in Nat
    OBVIOUS
  <2> HIDE DEF length
  <2>3. QED
    BY <1>1, <2>1, <2>2
<1> HIDE DEF all, length
<1>4. ASSUME NEW k \in 1 .. Len(units)
      PROVE  \E i \in 1 .. n + 1 : \E part \in 0 .. FrameLength(F[i]) :
                 Continues(F, n + 1, all, k, i, part)
  <2>1. PICK i \in 1 .. n : \E part \in 0 .. FrameLength(F[i]) :
            Continues(F, n, units, k, i, part)
    BY DEF InPlace
  <2>2. PICK part \in 0 .. FrameLength(F[i]) : Continues(F, n, units, k, i, part)
    BY <2>1
  <2> DEFINE end == k + (FrameLength(F[i]) - part)
  <2>3. end \in Nat /\ end >= k
    <3>1. FrameLength(F[i]) \in Nat
      OBVIOUS
    <3>2. QED
      BY <1>3, <3>1
  <2>4. /\ end <= Len(units)
        /\ \A j \in k .. end : units[j] = UnitOf(F[i], part + (j - k))
        /\ IF end = Len(units) THEN i = n ELSE units[end + 1] = UnitOf(F[i + 1], 0)
    BY <2>2 DEF Continues
  <2> HIDE DEF end
  <2>5. end <= Len(all) /\ end # Len(all)
    BY <1>1, <1>3, <2>3, <2>4
  <2>6. \A j \in k .. end : all[j] = UnitOf(F[i], part + (j - k))
    <3>1. \A j \in k .. end : j \in 1 .. Len(units) + (length + 1) /\ j <= Len(units)
      BY <1>1, <1>3, <2>3, <2>4
    <3>2. QED
      BY <1>3, <2>4, <3>1
  <2>7. all[end + 1] = UnitOf(F[i + 1], 0)
    <3>1. CASE end = Len(units)
      <4>1. all[end + 1] = e[1]
        <5>1. /\ end + 1 \in 1 .. Len(units) + (length + 1) /\ ~(end + 1 <= Len(units))
              /\ (end + 1) - Len(units) = 1
          BY <1>1, <1>3, <2>3, <3>1
        <5>2. all[end + 1] = e[(end + 1) - Len(units)]
          BY <1>3, <5>1
        <5>3. QED
          BY <5>1, <5>2
      <4>2. e[1] = UnitOf(next, 0) /\ i = n
        BY <1>1, <2>4, <3>1
      <4>3. QED
        BY <4>1, <4>2
    <3>2. CASE end # Len(units)
      <4>1. end + 1 \in 1 .. Len(units) + (length + 1) /\ end + 1 <= Len(units)
        BY <1>1, <1>3, <2>3, <2>4, <3>2
      <4>2. QED
        BY <1>3, <2>4, <3>2, <4>1
    <3>3. QED
      BY <3>1, <3>2
  <2>8. Continues(F, n + 1, all, k, i, part)
    BY <2>5, <2>6, <2>7 DEF Continues, end
  <2>9. QED
    BY <2>8
<1>5. ASSUME NEW k \in 1 .. Len(all), k > Len(units)
      PROVE  \E i \in 1 .. n + 1 : \E part \in 0 .. FrameLength(F[i]) :
                 Continues(F, n + 1, all, k, i, part)
  <2> DEFINE part == k - Len(units) - 1
  <2>1. part \in 0 .. length /\ k + (length - part) = Len(all)
    BY <1>1, <1>3, <1>5
  <2>2. ASSUME NEW j \in k .. Len(all) PROVE all[j] = UnitOf(next, part + (j - k))
    <3>1. /\ j \in 1 .. Len(units) + (length + 1) /\ ~(j <= Len(units))
          /\ j - Len(units) \in 1 .. length + 1
          /\ (j - Len(units)) - 1 = part + (j - k)
      BY <1>1, <1>3, <1>5
    <3>2. QED
      BY <1>1, <1>3, <3>1
  <2> HIDE DEF part
  <2>3. Continues(F, n + 1, all, k, n + 1, part)
    BY <1>1, <1>3, <2>1, <2>2 DEF Continues, length
  <2>4. QED
    BY <2>1, <2>3 DEF length
<1>6. \A k \in 1 .. Len(all) : k \in 1 .. Len(units) \/ k > Len(units)
  BY <1>1, <1>3
<1>7. QED
  BY <1>4, <1>5, <1>6 DEF InPlace, all, e

\* What was read so far is not disturbed by the frame that is sent.
LEMMA MoreToRead ==
    ASSUME NEW F, NEW n \in Nat, NEW S, NEW units \in Seq(S), NEW opened, NEW d,
           \A frame : FrameLength(frame) \in Nat \ {0},
           EncodeFrame(F[n + 1]) \in Seq(S), Reads(F, n, opened, d, units)
    PROVE  Reads(F, n + 1, opened, d, units \o EncodeFrame(F[n + 1]))
<1> DEFINE e == EncodeFrame(F[n + 1])
           all == units \o e
<1>1. InPlace(F, n + 1, all)
  BY MoreInPlace DEF Reads
<1>2. e \in Seq(S) /\ e # <<>> /\ Len(e) \in Nat \ {0} /\ e[1] = UnitOf(F[n + 1], 0)
  <2>1. FrameLength(F[n + 1]) \in Nat \ {0}
    OBVIOUS
  <2>2. /\ Len(e) = FrameLength(F[n + 1]) + 1
        /\ \A j \in 1 .. FrameLength(F[n + 1]) + 1 : e[j] = UnitOf(F[n + 1], j - 1)
    BY FrameUnits
  <2>3. QED
    BY <2>1, <2>2
<1> HIDE DEF e
<1>3. /\ Len(all) = Len(units) + Len(e) /\ Len(units) \in Nat
      /\ \A j \in 1 .. Len(units) + Len(e) : all[j] =
             IF j <= Len(units) THEN units[j] ELSE e[j - Len(units)]
  BY <1>2, ConcatProperties
<1>4. all # <<>>
  BY <1>2, <1>3
<1>5. CASE units = <<>>
  <2>1. Len(units) = 0 /\ opened = n /\ d.state = "PartialDelimiter"
    BY <1>5 DEF Reads
  <2>2. all[1] = e[1]
    BY <1>2, <1>3, <2>1
  <2>3. QED
    BY <1>1, <1>2, <1>4, <2>1, <2>2 DEF Reads, e
<1>6. CASE units # <<>>
  <2>1. Len(units) >= 1
    BY <1>3, <1>6
  <2>2. all[1] = units[1]
    BY <1>2, <1>3, <2>1
  <2>3. QED
    BY <1>1, <1>4, <1>6, <2>2 DEF Reads, e
<1>7. QED
  BY <1>5, <1>6

\* The first unit is of the frame that is awaited.
LEMMA FirstUnit ==
    ASSUME NEW F, NEW n \in Nat, NEW S, NEW units \in Seq(S), NEW opened \in Nat, NEW part,
           \A i, j \in Nat : F[i] = F[j] => i = j,
           units # <<>>, InPlace(F, n, units), units[1] = UnitOf(F[opened + 1], part)
    PROVE  /\ opened + 1 \in 1 .. n
           /\ Continues(F, n, units, 1, opened + 1, part)
<1>1. Len(units) \in Nat /\ 1 \in 1 .. Len(units)
  OBVIOUS
<1>2. PICK i \in 1 .. n : \E p \in 0 .. FrameLength(F[i]) : Continues(F, n, units, 1, i, p)
  BY <1>1 DEF InPlace
<1>3. PICK p \in 0 .. FrameLength(F[i]) : Continues(F, n, units, 1, i, p)
  BY <1>2
<1>4. FrameLength(F[i]) \in Nat
  BY RendezvousAssumption DEF FrameLength
<1>5. units[1] = UnitOf(F[i], p)
  <2>1. 1 \in 1 .. 1 + (FrameLength(F[i]) - p) /\ p + (1 - 1) = p
    BY <1>4
  <2>2. units[1] = UnitOf(F[i], p + (1 - 1))
    BY <1>3, <2>1 DEF Continues
  <2>3. QED
    BY <2>1, <2>2
<1>6. F[i] = F[opened + 1] /\ p = part
  BY <1>5 DEF UnitOf
<1>7. i = opened + 1
  <2>1. i \in Nat /\ opened + 1 \in Nat
    OBVIOUS
  <2>2. QED
    BY <1>6, <2>1
<1>8. QED
  BY <1>3, <1>6, <1>7

\* The decoder takes the delimiter of that frame ...
LEMMA DelimiterRead ==
    ASSUME NEW F, NEW n \in Nat, NEW opened \in Nat, NEW d \in Decoders,
           NEW rest \in Seq(UlpUnits),
           \A i, j \in Nat : F[i] = F[j] => i = j,
           Reads(F, n, opened, d, d.data \o rest)
    PROVE  Reads(F, n, opened, TakeDelimiter(d), TakeDelimiter(d).data \o rest)
<1> DEFINE units == d.data \o rest
           length == FrameLength(F[opened + 1])
<1>0. \A frame : FrameLength(frame) \in Nat \ {0}
  BY PositionFacts
<1>1. /\ d.data \in Seq(UlpUnits) /\ Len(d.data) \in Nat
  BY DEF Decoders
<1>2. CASE ~(d.state = "PartialDelimiter" /\ Len(d.data) >= 1)
  BY <1>2 DEF TakeDelimiter
<1>3. CASE d.state = "PartialDelimiter" /\ Len(d.data) >= 1
  <2>1. TakeDelimiter(d) = [state |-> "PartialFrame",
                            length |-> DecodeDelimiter(First(d.data, 1)),
                            data |-> Drain(d.data, 1)]
    BY <1>3 DEF TakeDelimiter
  <2>2. PICK data : data = d.data
    OBVIOUS
  <2>3. data \in Seq(UlpUnits) /\ Len(data) \in Nat /\ Len(data) >= 1
    BY <1>1, <1>3, <2>2
  <2>4. /\ units \in Seq(UlpUnits) /\ Len(units) = Len(data) + Len(rest) /\ Len(rest) \in Nat
        /\ units[1] = data[1]
    <3>1. /\ data \o rest \in Seq(UlpUnits) /\ Len(data \o rest) = Len(data) + Len(rest)
          /\ \A i \in 1 .. Len(data) + Len(rest) : (data \o rest)[i] =
                 IF i <= Len(data) THEN data[i] ELSE rest[i - Len(data)]
      BY <2>3, ConcatProperties
    <3>2. Len(rest) \in Nat
      OBVIOUS
    <3>3. 1 \in 1 .. Len(data) + Len(rest) /\ 1 <= Len(data)
      BY <2>3, <3>2
    <3>4. QED
      BY <2>2, <3>1, <3>2, <3>3
  <2>5. First(data, 1)[1] = data[1]
    BY <2>3 DEF First
  <2> HIDE DEF units
  <2>6. units # <<>>
    BY <2>3, <2>4
  <2>7. InPlace(F, n, units) /\ units[1] = UnitOf(F[opened + 1], 0)
    BY <1>3, <2>6 DEF Reads, units
  <2>8. opened + 1 \in 1 .. n /\ Continues(F, n, units, 1, opened + 1, 0)
    BY <2>4, <2>6, <2>7, FirstUnit
  <2>9. DecodeDelimiter(First(data, 1)) = length
    BY <2>4, <2>5, <2>7 DEF DecodeDelimiter, UnitOf
  <2>10. Drain(data, 1) \o rest = Drain(units, 1)
    BY <2>2, <2>3, DrainBefore DEF units
  <2>11. length \in Nat \ {0}
    BY <1>0
  <2> HIDE DEF length
  <2>12. 1 + length <= Len(units) /\ units[2] = UnitOf(F[opened + 1], 1)
    <3>1. /\ 1 + (length - 0) <= Len(units)
          /\ \A j \in 1 .. 1 + (length - 0) : units[j] = UnitOf(F[opened + 1], 0 + (j - 1))
      BY <2>8 DEF Continues, length
    <3>2. 2 \in 1 .. 1 + (length - 0) /\ 0 + (2 - 1) = 1 /\ 1 + (length - 0) = 1 + length
      BY <2>11
    <3>3. QED
      BY <3>1, <3>2
  <2>13. /\ Drain(units, 1) # <<>> /\ Drain(units, 1)[1] = UnitOf(F[opened + 1], 1)
    <3>0. units \in Seq(UlpUnits) /\ 1 \in 0 .. Len(units)
      BY <2>4, <2>11, <2>12
    <3>1. /\ Len(Drain(units, 1)) = Len(units) - 1 /\ Len(units) \in Nat
          /\ \A k \in 1 .. Len(units) - 1 : Drain(units, 1)[k] = units[1 + k]
      BY <3>0, Drained
    <3>2. 1 \in 1 .. Len(units) - 1
      BY <2>11, <2>12, <3>1
    <3>3. Len(Drain(units, 1)) # 0
      BY <3>1, <3>2
    <3>4. QED
      BY <2>12, <3>1, <3>2, <3>3
  <2>14. InPlace(F, n, Drain(units, 1))
    <3>1. 1 \in 0 .. Len(units)
      BY <2>4, <2>11, <2>12
    <3>2. QED
      BY <1>0, <2>4, <2>7, <3>1, LaterInPlace
  <2>15. PICK t : t = TakeDelimiter(d)
    OBVIOUS
  <2>16. /\ t.state = "PartialFrame" /\ t.length = length
         /\ t.data \o rest = Drain(units, 1)
    BY <2>1, <2>2, <2>9, <2>10, <2>15
  <2>17. Reads(F, n, opened, t, Drain(units, 1))
    BY <2>13, <2>14, <2>16 DEF Reads, length
  <2>18. QED
    BY <2>15, <2>16, <2>17
<1>4. QED
  BY <1>2, <1>3

\* ... and the frame itself, and comes to the next one.
LEMMA FrameRead ==
    ASSUME NEW F, NEW n \in Nat, NEW opened \in Nat, NEW t \in Decoders,
           NEW rest \in Seq(UlpUnits),
           \A i, j \in Nat : F[i] = F[j] => i = j,
           t.state = "PartialFrame", Len(t.data) >= t.length,
           Reads(F, n, opened, t, t.data \o rest)
    PROVE  /\ opened + 1 \in 1 .. n
           /\ First(t.data, t.length)[1].frame = F[opened + 1]
           /\ Reads(F, n, opened + 1, NewDecoder(Drain(t.data, t.length)),
                    Drain(t.data, t.length) \o rest)
<1> DEFINE length == FrameLength(F[opened + 1])
<1>0. \A frame : FrameLength(frame) \in Nat \ {0}
  BY PositionFacts
<1>1. PICK data : data = t.data
  OBVIOUS
<1>2. data \in Seq(UlpUnits) /\ Len(data) \in Nat
  BY <1>1 DEF Decoders
<1>3. PICK units : units = data \o rest
  OBVIOUS
<1>4. /\ units \in Seq(UlpUnits) /\ Len(units) = Len(data) + Len(rest) /\ Len(rest) \in Nat
      /\ \A i \in 1 .. Len(data) + Len(rest) : units[i] =
             IF i <= Len(data) THEN data[i] ELSE rest[i - Len(data)]
  <2>1. Len(rest) \in Nat
    OBVIOUS
  <2>2. QED
    BY <1>2, <1>3, <2>1, ConcatProperties
<1>5. Reads(F, n, opened, t, units)
  BY <1>1, <1>3
<1>6. /\ units # <<>> /\ InPlace(F, n, units)
      /\ units[1] = UnitOf(F[opened + 1], 1) /\ t.length = length
  BY <1>5 DEF Reads
<1>7. opened + 1 \in 1 .. n /\ Continues(F, n, units, 1, opened + 1, 1)
  BY <1>4, <1>6, FirstUnit
<1>8. length \in Nat \ {0}
  BY <1>0
<1> HIDE DEF length
<1>9. /\ length <= Len(units)
      /\ IF length = Len(units) THEN opened + 1 = n
         ELSE units[length + 1] = UnitOf(F[(opened + 1) + 1], 0)
  <2>1. 1 + (length - 1) = length
    BY <1>8
  <2>2. /\ 1 + (length - 1) <= Len(units)
        /\ IF 1 + (length - 1) = Len(units) THEN opened + 1 = n
           ELSE units[1 + (length - 1) + 1] = UnitOf(F[(opened + 1) + 1], 0)
    BY <1>7 DEF Continues, length
  <2>3. QED
    BY <2>1, <2>2
<1>10. length \in 0 .. Len(data)
  BY <1>1, <1>2, <1>6, <1>8
<1>11. First(data, length)[1].frame = F[opened + 1]
  <2>1. First(data, length)[1] = data[1]
    BY <1>2, <1>8, <1>10 DEF First
  <2>2. units[1] = data[1]
    BY <1>2, <1>4, <1>8, <1>10
  <2>3. QED
    BY <1>6, <2>1, <2>2 DEF UnitOf
<1> DEFINE left == Drain(units, length)
<1>12. Drain(data, length) \o rest = left
  BY <1>2, <1>3, <1>10, DrainBefore
<1>13. /\ Len(left) = Len(units) - length /\ Len(units) \in Nat /\ left \in Seq(UlpUnits)
       /\ \A k \in 1 .. Len(units) - length : left[k] = units[length + k]
  <2>1. length \in 0 .. Len(units) /\ units \in Seq(UlpUnits)
    BY <1>4, <1>8, <1>9
  <2>2. QED
    BY <2>1, Drained
<1>14. InPlace(F, n, left)
  <2>1. length \in 0 .. Len(units)
    BY <1>4, <1>8, <1>9
  <2>2. QED
    BY <1>0, <1>4, <1>6, <2>1, LaterInPlace
<1> HIDE DEF left
<1>15. Reads(F, n, opened + 1, NewDecoder(Drain(data, length)), left)
  <2>1. NewDecoder(Drain(data, length)).state = "PartialDelimiter"
    BY DEF NewDecoder
  <2>2. CASE length = Len(units)
    <3>1. left = <<>> /\ opened + 1 = n
      BY <1>8, <1>9, <1>13, <2>2
    <3>2. QED
      BY <1>14, <2>1, <3>1 DEF Reads
  <2>3. CASE length # Len(units)
    <3>1. 1 \in 1 .. Len(units) - length
      BY <1>8, <1>9, <1>13, <2>3
    <3>2. left # <<>> /\ left[1] = UnitOf(F[(opened + 1) + 1], 0)
      <4>1. Len(left) # 0
        BY <1>13, <3>1
      <4>2. QED
        BY <1>9, <1>13, <2>3, <3>1, <4>1
    <3>3. QED
      BY <1>14, <2>1, <3>2 DEF Reads
  <2>4. QED
    BY <2>2, <2>3
<1>16. QED
  BY <1>1, <1>6, <1>7, <1>11, <1>12, <1>15

\* So a complete frame in a decoder is the one that is awaited, and without one the
\* decoder goes on waiting for it (next_frame_and_then).
LEMMA NextRead ==
    ASSUME NEW F, NEW n \in Nat, NEW opened \in Nat, NEW d \in Decoders,
           NEW rest \in Seq(UlpUnits),
           \A i, j \in Nat : F[i] = F[j] => i = j,
           Reads(F, n, opened, d, d.data \o rest)
    PROVE  /\ HasFrame(d) =>
                  /\ opened + 1 \in 1 .. n
                  /\ NextFrame(d)[1].frame = F[opened + 1]
                  /\ Reads(F, n, opened + 1, AfterNext(d), AfterNext(d).data \o rest)
           /\ ~HasFrame(d) => Reads(F, n, opened, AfterNext(d), AfterNext(d).data \o rest)
<1>1. PICK t : t = TakeDelimiter(d)
  OBVIOUS
<1>2. t \in Decoders /\ Reads(F, n, opened, t, t.data \o rest)
  BY <1>1, DelimiterRead, TakeDelimiterFacts
<1>3. CASE HasFrame(d)
  <2>1. t.state = "PartialFrame" /\ Len(t.data) >= t.length
    BY <1>1, <1>3 DEF HasFrame
  <2>2. /\ AfterNext(d) = NewDecoder(Drain(t.data, t.length))
        /\ NextFrame(d) = First(t.data, t.length)
    BY <1>1, <1>3 DEF AfterNext, NextFrame
  <2>3. AfterNext(d).data = Drain(t.data, t.length)
    BY <2>2 DEF NewDecoder
  <2>4. QED
    BY <1>2, <1>3, <2>1, <2>2, <2>3, FrameRead
<1>4. CASE ~HasFrame(d)
  BY <1>1, <1>2, <1>4 DEF AfterNext
<1>5. QED
  BY <1>3, <1>4

-----------------------------------------------------------------------------
(* What a step leaves of it                                                *)

\* The paths and streams of an end have their types.
LEMMA UnreadType ==
    ASSUME Types, NEW r \in Roles, NEW pid \in Pids
    PROVE  /\ path[r][pid].decoder \in Decoders /\ path[r][pid].received \in Nat
           /\ path[r][pid].decoder.data \in Seq(UlpUnits) /\ wire[r][pid] \in Seq(UlpUnits)
           /\ Unread(r, pid) \in Seq(UlpUnits)
           /\ Peer(r) \in Roles /\ Len(sent[Peer(r)][pid]) \in Nat
<1>1. path[r][pid] \in Paths /\ wire[r][pid] \in Seq(UlpUnits)
  BY DEF Types
<1>2. path[r][pid].decoder \in Decoders /\ path[r][pid].received \in Nat
  BY <1>1, RendezvousAssumption DEF Paths
<1>3. path[r][pid].decoder.data \in Seq(UlpUnits)
  BY <1>2 DEF Decoders
<1>4. Peer(r) \in Roles /\ Len(sent[Peer(r)][pid]) \in Nat
  <2>1. Peer(r) \in Roles
    BY PeerFacts
  <2>2. sent[Peer(r)][pid] \in Seq(Frames)
    BY <2>1 DEF Types
  <2>3. QED
    BY <2>1, <2>2
<1>5. QED
  BY <1>1, <1>2, <1>3, <1>4, ConcatProperties DEF Unread

\* What the positions hold was agreed on beforehand.
LEMMA SamePositions ==
    ASSUME nominator' = nominator
    PROVE  \A r, pid : Positions(r, pid)' = Positions(r, pid)
<1>1. \A r, pid, i : FrameAt(r, pid, i)' = FrameAt(r, pid, i)
  BY SamePosition
<1>2. QED
  BY <1>1 DEF Positions

\* Replacing a path, or nominating it, leaves the others or drops them.
LEMMA PathMoved ==
    ASSUME Types, NEW r \in Roles, NEW pid \in Pids, NEW p,
           Stays(r, pid, p) \/ IsNominated(r, pid, p)
    PROVE  /\ path'[r][pid] = p
           /\ \A q \in Roles, x \in Pids : q # r => path'[q][x] = path[q][x]
           /\ \A x \in Pids : x # pid =>
                  path'[r][x] = path[r][x] \/ path'[r][x].state = "Dropped"
<1>1. path \in [Roles -> [Pids -> Paths]]
  BY DEF Types
<1>2. CASE Stays(r, pid, p)
  BY <1>1, <1>2 DEF Stays
<1>3. CASE IsNominated(r, pid, p)
  <2>1. path' = [path EXCEPT ![r] = [x \in Pids |->
                    IF x = pid THEN p ELSE [path[r][x] EXCEPT !.state = "Dropped"]]]
    BY <1>3 DEF IsNominated, AfterNomination
  <2>2. \A x \in Pids : path[r][x] \in Paths
    BY <1>1
  <2>3. \A old \in Paths : [old EXCEPT !.state = "Dropped"].state = "Dropped"
    BY DEF Paths
  <2>4. QED
    BY <1>1, <2>1, <2>2, <2>3
<1>4. QED
  BY <1>2, <1>3

\* A role moves a path on, as in Moves: what it sends comes last on the peer's path.
LEMMA MovesStraight ==
    ASSUME RendezvousInv, RendezvousInv', Straight,
           NEW r \in Roles, NEW pid \in Pids, Running(r), Known(r, pid),
           nominator' = nominator, stray' = stray, NEW p,
           Stays(r, pid, p) \/ IsNominated(r, pid, p),
           \/ sent' = sent /\ wire' = wire
           \/ Sends(r, pid, FrameAt(r, pid, path[r][pid].sealed + 1)),
           NEW error, cause' = [cause EXCEPT ![r] = error],
           error = "none" /\ stray = 0 =>
               Reads(Positions(Peer(r), pid), Len(sent[Peer(r)][pid]), p.received, p.decoder,
                     p.decoder.data \o wire[r][pid])
    PROVE  Straight'
<1>0. /\ Types /\ Types' /\ SentInPlace
      /\ sent \in [Roles -> [Pids -> Seq(Frames)]]
      /\ wire \in [Roles -> [Pids -> Seq(UlpUnits)]]
      /\ cause \in [Roles -> Causes]
      /\ Peer(r) \in Roles /\ Peer(r) # r /\ Peer(Peer(r)) = r
  BY PeerFacts DEF RendezvousInv, Types
<1>1. /\ path'[r][pid] = p
      /\ \A q \in Roles, x \in Pids : q # r => path'[q][x] = path[q][x]
      /\ \A x \in Pids : x # pid =>
             path'[r][x] = path[r][x] \/ path'[r][x].state = "Dropped"
  BY <1>0, PathMoved
<1> DEFINE next == FrameAt(r, pid, path[r][pid].sealed + 1)
<1>2. /\ \A q \in Roles, x \in Pids : <<q, x>> # <<r, pid>> => sent'[q][x] = sent[q][x]
      /\ \A q \in Roles, x \in Pids : <<q, x>> # <<Peer(r), pid>> => wire'[q][x] = wire[q][x]
      /\ \/ /\ sent'[r][pid] = sent[r][pid]
            /\ wire'[Peer(r)][pid] = wire[Peer(r)][pid]
         \/ /\ sent'[r][pid] = sent[r][pid] \o <<next>>
            /\ wire'[Peer(r)][pid] = wire[Peer(r)][pid] \o EncodeFrame(next)
  <2>1. CASE sent' = sent /\ wire' = wire
    BY <2>1
  <2>2. CASE Sends(r, pid, next)
    <3>1. /\ sent' = [sent EXCEPT ![r][pid] = @ \o <<next>>]
          /\ wire' = [wire EXCEPT ![Peer(r)][pid] = @ \o EncodeFrame(next)]
      BY <2>2 DEF Sends
    <3> HIDE DEF next
    <3>2. QED
      BY <1>0, <3>1
  <2>3. QED
    BY <2>1, <2>2
<1>3. \A q, x : Positions(q, x)' = Positions(q, x)
  BY SamePositions
<1>4. SUFFICES ASSUME stray = 0, NEW q \in Roles, NEW x \in Pids, Running(q)', Known(q, x)'
               PROVE  Reads(Positions(Peer(q), x), Len(sent'[Peer(q)][x]),
                            path'[q][x].received, path'[q][x].decoder,
                            path'[q][x].decoder.data \o wire'[q][x])
  BY <1>3 DEF Straight, Unread
<1>5. CASE q = r /\ x = pid
  <2>1. error = "none"
    BY <1>0, <1>4, <1>5 DEF Running
  <2>2. sent'[Peer(r)][pid] = sent[Peer(r)][pid] /\ wire'[r][pid] = wire[r][pid]
    BY <1>0, <1>2
  <2>3. QED
    BY <1>1, <1>4, <1>5, <2>1, <2>2
<1>6. CASE q = r /\ x # pid
  <2>1. path'[r][x] = path[r][x] /\ Known(r, x)
    BY <1>1, <1>4, <1>6 DEF Known
  <2>2. sent'[Peer(r)][x] = sent[Peer(r)][x] /\ wire'[r][x] = wire[r][x]
    BY <1>0, <1>2, <1>6
  <2>3. Reads(Positions(Peer(r), x), Len(sent[Peer(r)][x]), path[r][x].received,
              path[r][x].decoder, path[r][x].decoder.data \o wire[r][x])
    BY <1>4, <2>1 DEF Straight, Unread
  <2>4. QED
    BY <1>6, <2>1, <2>2, <2>3
<1>7. CASE q # r
  <2>1. q = Peer(r) /\ Peer(q) = r
    BY <1>0, <1>7 DEF Roles, Peer
  <2>2. path'[q][x] = path[q][x] /\ Known(q, x) /\ Running(q)
    BY <1>0, <1>1, <1>4, <1>7 DEF Known, Running
  <2>3. Reads(Positions(r, x), Len(sent[r][x]), path[q][x].received,
              path[q][x].decoder, path[q][x].decoder.data \o wire[q][x])
    BY <1>4, <2>1, <2>2 DEF Straight, Unread
  <2>4. CASE sent'[r][x] = sent[r][x] /\ wire'[q][x] = wire[q][x]
    BY <2>1, <2>2, <2>3, <2>4
  <2>5. CASE x = pid /\ sent'[r][pid] = sent[r][pid] \o <<next>>
             /\ wire'[q][pid] = wire[q][pid] \o EncodeFrame(next)
    <3>1. PICK F, n : F = Positions(r, pid) /\ n = Len(sent[r][pid])
      OBVIOUS
    <3>2. n \in Nat /\ sent[r][pid] \in Seq(Frames) /\ path[r][pid].sealed = n
      BY <1>0, <3>1 DEF SentInPlace
    <3>3. F[n + 1] = next
      BY <3>1, <3>2, PositionFacts
    <3>4. Len(sent'[r][pid]) = n + 1 /\ next \in Frames
      <4> HIDE DEF next
      <4>1. PICK s : s = sent[r][pid]
        OBVIOUS
      <4>2. s \in Seq(Frames) /\ s \o <<next>> = Append(s, next) /\ Len(s) = n
        BY <3>1, <3>2, <4>1
      <4>3. Len(Append(s, next)) = n + 1 /\ Append(s, next)[n + 1] = next
        BY <3>2, <4>2
      <4>4. sent'[r][pid] = Append(s, next) /\ sent'[r][pid] \in Seq(Frames)
        <5>1. sent'[r][pid] \in Seq(Frames)
          BY <1>0 DEF Types
        <5>2. QED
          BY <2>5, <4>1, <4>2, <5>1
      <4>5. next \in Frames
        <5>1. n + 1 \in 1 .. Len(sent'[r][pid])
          BY <3>2, <4>3, <4>4
        <5>2. QED
          BY <4>3, <4>4, <5>1, ElementOfSeq
      <4>6. QED
        BY <4>3, <4>4, <4>5
    <3>5. EncodeFrame(next) \in Seq(UlpUnits)
      BY <3>4, EncodedUnits
    <3> HIDE DEF next
    <3>6. PICK data, rest, units :
              /\ data = path[q][pid].decoder.data /\ rest = wire[q][pid]
              /\ units = data \o rest
      OBVIOUS
    <3>7. data \in Seq(UlpUnits) /\ rest \in Seq(UlpUnits) /\ units \in Seq(UlpUnits)
      <4>1. data \in Seq(UlpUnits) /\ rest \in Seq(UlpUnits)
        BY <1>0, <3>6, UnreadType
      <4>2. QED
        BY <3>6, <4>1, ConcatProperties
    <3>8. Reads(F, n, path[q][pid].received, path[q][pid].decoder, units)
      BY <2>3, <2>5, <3>1, <3>6
    <3>9. Reads(F, n + 1, path[q][pid].received, path[q][pid].decoder,
                units \o EncodeFrame(next))
      <4>1. \A frame : FrameLength(frame) \in Nat \ {0}
        BY PositionFacts
      <4>2. EncodeFrame(F[n + 1]) \in Seq(UlpUnits)
        BY <3>3, <3>5
      <4>3. Reads(F, n + 1, path[q][pid].received, path[q][pid].decoder,
                  units \o EncodeFrame(F[n + 1]))
        BY <3>2, <3>7, <3>8, <4>1, <4>2, MoreToRead
      <4>4. QED
        BY <3>3, <4>3
    <3>10. units \o EncodeFrame(next) = data \o wire'[q][pid]
      <4>1. Grouped(data, rest, EncodeFrame(next))
        BY <3>5, <3>7, AllGrouped
      <4>2. QED
        BY <2>5, <3>6, <4>1 DEF Grouped
    <3>11. QED
      BY <2>1, <2>2, <2>5, <3>1, <3>4, <3>6, <3>9, <3>10
  <2>6. QED
    BY <1>2, <2>1, <2>4, <2>5
<1>8. QED
  BY <1>5, <1>6, <1>7

\* Reading more of a stream leaves what is unread.
LEMMA AddChunksStraight ==
    ASSUME Types, Straight, NEW r \in Roles, NEW pid \in Pids,
           NEW n \in 1 .. Len(wire[r][pid]), AddChunks(r, pid, n)
    PROVE  Straight'
<1>0. /\ path \in [Roles -> [Pids -> Paths]] /\ wire \in [Roles -> [Pids -> Seq(UlpUnits)]]
      /\ cause \in [Roles -> Causes]
  BY DEF Types
<1>1. /\ nominator' = nominator /\ stray' = stray /\ sent' = sent /\ Running(r)
      /\ wire' = [wire EXCEPT ![r][pid] = Drain(@, n)]
  BY DEF AddChunks
<1>2. \A q, x : Positions(q, x)' = Positions(q, x)
  BY <1>1, SamePositions
<1>3. SUFFICES ASSUME stray = 0, NEW q \in Roles, NEW x \in Pids, Running(q)', Known(q, x)'
               PROVE  Reads(Positions(Peer(q), x), Len(sent[Peer(q)][x]),
                            path'[q][x].received, path'[q][x].decoder,
                            path'[q][x].decoder.data \o wire'[q][x])
  BY <1>1, <1>2 DEF Straight, Unread
<1> DEFINE d == AddChunk(path[r][pid].decoder, First(wire[r][pid], n))
<1>4. \/ Known(r, pid) /\ path' = [path EXCEPT ![r][pid].decoder = d]
      \/ ~Known(r, pid) /\ path' = path
  BY DEF AddChunks
<1>5. Running(q)
  <2>1. q # r => cause'[q] = cause[q]
    BY <1>0 DEF AddChunks
  <2>2. QED
    BY <1>1, <1>3, <2>1 DEF Running
<1>6. CASE q = r /\ x = pid
  <2>1. Known(r, pid) /\ path' = [path EXCEPT ![r][pid].decoder = d]
    BY <1>3, <1>4, <1>6 DEF Known
  <2>2. PICK old : old = path[r][pid].decoder
    OBVIOUS
  <2>3. /\ old \in Decoders /\ old.data \in Seq(UlpUnits) /\ wire[r][pid] \in Seq(UlpUnits)
    BY <2>2, UnreadType
  <2>4. PICK units : units = wire[r][pid]
    OBVIOUS
  <2>5. /\ d.state = old.state /\ d.length = old.length
        /\ d.data = old.data \o First(units, n)
    BY <2>2, <2>3, <2>4 DEF AddChunk, Decoders
  <2>6. path'[r][pid].decoder = d /\ path'[r][pid].received = path[r][pid].received
    <3>1. path[r][pid] \in Paths
      BY <1>0
    <3> HIDE DEF d
    <3>2. path'[r][pid] = [path[r][pid] EXCEPT !.decoder = d]
      BY <1>0, <2>1
    <3>3. QED
      BY <3>1, <3>2 DEF Paths
  <2>7. wire'[r][pid] = Drain(units, n)
    BY <1>0, <1>1, <2>4
  <2>8. d.data \o Drain(units, n) = old.data \o units
    <3>1. PICK data : data = old.data
      OBVIOUS
    <3>2. data \in Seq(UlpUnits) /\ units \in Seq(UlpUnits) /\ n \in 1 .. Len(units)
      BY <2>3, <2>4, <3>1
    <3>3. (data \o First(units, n)) \o Drain(units, n) = data \o units
      BY <3>2, MovedOver
    <3>4. QED
      BY <2>5, <3>1, <3>3
  <2>9. Reads(Positions(Peer(r), pid), Len(sent[Peer(r)][pid]), path[r][pid].received,
              old, old.data \o units)
    BY <1>3, <1>5, <1>6, <2>1, <2>2, <2>4 DEF Straight, Unread
  <2> HIDE DEF d
  <2>10. Reads(Positions(Peer(r), pid), Len(sent[Peer(r)][pid]), path[r][pid].received,
               d, old.data \o units)
    BY <2>5, <2>9 DEF Reads
  <2>11. QED
    BY <1>6, <2>6, <2>7, <2>8, <2>10
<1>7. CASE ~(q = r /\ x = pid)
  <2> HIDE DEF d
  <2>1. path'[q][x] = path[q][x] /\ wire'[q][x] = wire[q][x]
    BY <1>0, <1>1, <1>4, <1>7
  <2>2. Known(q, x)
    BY <1>3, <2>1 DEF Known
  <2>3. QED
    BY <1>3, <1>5, <2>1, <2>2 DEF Straight, Unread
<1>8. QED
  BY <1>6, <1>7

-----------------------------------------------------------------------------
(* What a path is given is what it awaits                                  *)

\* A nominator is not sent anything on a path that awaits its nomination.
LEMMA NothingUnexpected ==
    ASSUME RendezvousInv, Agreed, NEW r \in Roles, NEW pid \in Pids, Running(r),
           path[r][pid].received + 1 \in 1 .. Len(sent[Peer(r)][pid])
    PROVE  ~(path[r][pid].state = "AwaitingNominate" /\ nominator = r)
<1> SUFFICES ASSUME path[r][pid].state = "AwaitingNominate", nominator = r PROVE FALSE
  OBVIOUS
<1>1. PICK q \in Roles : q = Peer(r)
  BY PeerFacts
<1>2. /\ StateFits(r, pid) /\ NominationFits(r, pid) /\ NominationFits(q, pid)
      /\ path[q][pid].sealed = Len(sent[q][pid])
  BY DEF RendezvousInv, PathsFit, SentInPlace
<1>3. path[r][pid].received = Handshake(q) /\ Handshake(q) \in Nat
  BY <1>1, <1>2, PreambleFacts DEF StateFits
<1>4. Len(sent[q][pid]) \in Nat
  BY <1>1, UnreadType DEF RendezvousInv
<1>5. path[q][pid].sealed > Handshake(q)
  BY <1>1, <1>2, <1>3, <1>4
<1>6. nominated[q] = pid
  BY <1>2, <1>3, <1>4, <1>5 DEF NominationFits
<1>7. nominated[r] = pid
  BY <1>1, <1>6, RendezvousAssumption DEF Agreed
<1>8. QED
  BY <1>2, <1>7 DEF NominationFits

\* The frame in its place opens, if its number does not overflow (decrypt).
LEMMA OpensInPlace ==
    ASSUME RendezvousInv, NEW r \in Roles, NEW pid \in Pids, Running(r), Known(r, pid),
           NEW p \in Paths, p.state = path[r][pid].state, p.etk = path[r][pid].etk,
           p.received = path[r][pid].received
    PROVE  /\ OpenError(r, pid, p, FrameAt(Peer(r), pid, p.received + 1))
                  \in {"none", "SequenceNumberOverflow"}
           /\ p.state \in Racing \cup {"AwaitingNominate", "Nominated"}
<1>1. PICK q \in Roles : q = Peer(r)
  BY PeerFacts
<1>2. StateFits(r, pid)
  BY DEF RendezvousInv, PathsFit
<1>3. p.state \in Racing \cup {"AwaitingNominate", "Nominated"}
  BY <1>2 DEF Paths, PathStates, Known, StateFits
<1>4. /\ Handshake(q) \in Nat /\ Preamble(q) \in Nat /\ Preamble(q) >= Handshake(q)
      /\ p.received \in Nat /\ Len(delivered[r]) \in Nat
  <2>1. delivered[r] \in Seq(1 .. MaxUlp)
    BY DEF RendezvousInv, Types
  <2>2. QED
    BY <2>1, PreambleFacts, RendezvousAssumption DEF Paths
<1> DEFINE frame == FrameAt(q, pid, p.received + 1)
<1>5. frame.key = KeyOf(p, q)
  <2>1. CASE p.state \in Racing
    <3>1. p.received + 1 <= Handshake(q)
      BY <1>1, <1>2, <1>4, <2>1 DEF StateFits, Racing, Handshake, Peer, Roles
    <3>2. QED
      BY <2>1, <3>1 DEF FrameAt, KeyOf
  <2>2. CASE p.state \in {"AwaitingNominate", "Nominated"}
    <3>1. p.etk = Secret(pid)
      BY <1>2, <2>2 DEF StateFits
    <3>2. p.received >= Handshake(q)
      BY <1>1, <1>2, <1>4, <2>2 DEF StateFits
    <3>3. ~(p.received + 1 <= Handshake(q)) /\ p.state \notin Racing
      BY <1>4, <2>2, <3>2 DEF Racing
    <3>4. QED
      BY <3>1, <3>3 DEF FrameAt, KeyOf
  <2>3. QED
    BY <1>3, <2>1, <2>2
<1>6. frame.nonce = Nonce(pid, p.received + 1)
  BY DEF FrameAt
<1>7. QED
  BY <1>1, <1>3, <1>5, <1>6 DEF OpenError

\* So neither end finds fault with it (process_frame).
LEMMA NoFault ==
    ASSUME RendezvousInv, Agreed, NEW r \in Roles, NEW pid \in Pids, Running(r), Known(r, pid),
           NEW p \in Paths, p.state = path[r][pid].state, p.etk = path[r][pid].etk,
           p.received = path[r][pid].received,
           p.received + 1 \in 1 .. Len(sent[Peer(r)][pid]),
           NEW frame, frame = FrameAt(Peer(r), pid, p.received + 1)
    PROVE  (IF r = "RID" THEN RidProcessFrame(pid, p, frame)
                         ELSE RrdProcessFrame(pid, p, frame)).error
               \in {"none", "SequenceNumberOverflow"}
<1>1. /\ OpenError(r, pid, p, frame) \in {"none", "SequenceNumberOverflow"}
      /\ p.state \in Racing \cup {"AwaitingNominate", "Nominated"}
  BY OpensInPlace
<1>2. ~(p.state = "AwaitingNominate" /\ nominator = r)
  BY NothingUnexpected
<1>3. WasSent(Peer(r), frame)
  BY DEF WasSent
<1>4. OpenError(r, pid, p, frame) = "none" =>
          /\ p.state = "AwaitingAuth" => frame.content = Auth(Random("RID", pid))
          /\ p.state = "AwaitingAuthHello" =>
                 frame.content = AuthHello(pid, Random("RRD", pid))
  BY <1>3, AwaitedFrame
<1>5. StateFits(r, pid)
  BY DEF RendezvousInv, PathsFit
<1>6. CASE r = "RID"
  <2>1. p.state # "AwaitingAuthHello"
    BY <1>5, <1>6 DEF StateFits
  <2>2. OpenError("RID", pid, p, frame) = "none" /\ p.state = "AwaitingAuth" =>
            frame.content.response = Random("RID", pid)
    BY <1>4, <1>6 DEF Auth
  <2>3. RidProcessFrame(pid, p, frame).error \in {"none", "SequenceNumberOverflow"}
    BY <1>1, <1>2, <1>6, <2>1, <2>2
       DEF RidProcessFrame, RidHandleHello, RidHandleAuth, RidHandleNominate,
           RidHandleUlpData, Ok, Failed, Racing
  <2>4. QED
    BY <1>6, <2>3
<1>7. CASE r = "RRD"
  <2>1. p.state \notin {"AwaitingHello", "AwaitingAuth"}
    BY <1>5, <1>7 DEF StateFits
  <2>2. OpenError("RRD", pid, p, frame) = "none" /\ p.state = "AwaitingAuthHello" =>
            frame.content.response = Random("RRD", pid)
    BY <1>4, <1>7 DEF AuthHello
  <2>3. RrdProcessFrame(pid, p, frame).error \in {"none", "SequenceNumberOverflow"}
    BY <1>1, <1>2, <1>7, <2>1, <2>2
       DEF RrdProcessFrame, RrdHandleAuthHello, RrdHandleNominate, RrdHandleUlpData,
           Ok, Failed, Racing
  <2>4. QED
    BY <1>7, <2>3
<1>8. QED
  BY <1>6, <1>7 DEF Roles
-----------------------------------------------------------------------------
(* The steps                                                               *)

Expected == {"none", "InvalidStateForNomination", "OversizedFrame",
             "SequenceNumberOverflow", "UnknownOrDroppedPath"}

\* A role goes on, or aborts as it may.
LEMMA CauseExpected ==
    ASSUME Types, NoSpuriousError, NEW r \in Roles, NEW error, stray' = stray,
           cause' = [cause EXCEPT ![r] = error], stray = 0 => error \in Expected
    PROVE  NoSpuriousError'
<1>1. cause \in [Roles -> Causes]
  BY DEF Types
<1>2. \A q \in Roles : cause'[q] = IF q = r THEN error ELSE cause[q]
  BY <1>1
<1>3. QED
  BY <1>2 DEF NoSpuriousError, Expected

\* A frame that does not abort a role leaves its path waiting for the next one, and is
\* answered with the frame next in its place, or not at all.
LEMMA FrameProcessed ==
    ASSUME NEW r, NEW pid, NEW p \in Paths, NEW result, Processed(r, pid, p, result)
    PROVE  \/ /\ result.error # "none" /\ result.path.state # "Nominated"
              /\ result.error \in Causes
           \/ /\ result.error = "none"
              /\ result.path.decoder = p.decoder /\ result.path.received = p.received + 1
              /\ result.frames \in {<<>>, <<FrameAt(r, pid, p.sealed + 1)>>}
<1> DEFINE next == FrameAt(r, pid, p.sealed + 1)
<1> HIDE DEF next
<1>1. CASE Aborted(p, result)
  <2>1. \A state \in {"Closed", "Invalid"} : [p EXCEPT !.state = state].state = state
    BY DEF Paths
  <2>2. QED
    BY <1>1, <2>1 DEF Aborted
<1>2. CASE Replied(r, pid, p, result)
  <2>1. result.frames = <<next>> /\ result.error = "none"
    BY <1>2 DEF Replied, Ok, next
  <2>2. result.path = [p EXCEPT !.sealed = @ + 1, !.received = @ + 1, !.etk = Secret(pid),
                                !.state = IF r = "RID" THEN "AwaitingAuth"
                                                       ELSE "AwaitingNominate"]
    BY <1>2 DEF Replied, Ok
  <2>3. result.path.decoder = p.decoder /\ result.path.received = p.received + 1
    BY <2>2 DEF Paths
  <2>4. QED
    BY <2>1, <2>3 DEF next
<1>3. CASE Authenticated(r, p, result)
  BY <1>3 DEF Authenticated, Ok, Paths
<1>4. CASE Learnt(r, pid, p, result)
  BY <1>4 DEF Learnt, Ok, Paths
<1>5. CASE HandedOut(r, p, result)
  BY <1>5 DEF HandedOut, Ok, Paths
<1>6. QED
  BY <1>1, <1>2, <1>3, <1>4, <1>5 DEF Processed

\* What has arrived on a path is processed (process_frame).
LEMMA ProcessFrameStraight ==
    ASSUME StraightInv, RendezvousInv', NEW r \in Roles, NEW pid \in Pids,
           ProcessFrame(r, pid)
    PROVE  Straight' /\ NoSpuriousError'
<1> DEFINE old   == path[r][pid]
           p     == [old EXCEPT !.decoder = AfterNext(old.decoder)]
           frame == NextFrame(old.decoder)[1].frame
           result == IF r = "RID" THEN RidProcessFrame(pid, p, frame)
                                  ELSE RrdProcessFrame(pid, p, frame)
           ends  == nominated[r] = NoPid /\ result.path.state = "Nominated"
<1>0. /\ RendezvousInv /\ Types /\ Straight /\ Agreed /\ NoSpuriousError
      /\ sent \in [Roles -> [Pids -> Seq(Frames)]]
      /\ delivered \in [Roles -> Seq(1 .. MaxUlp)]
      /\ cause \in [Roles -> Causes] /\ old \in Paths
      /\ Peer(r) \in Roles /\ r \in {"RID", "RRD"}
  BY PeerFacts DEF StraightInv, RendezvousInv, Types, Roles
<1>1. /\ Running(r) /\ Known(r, pid) /\ nominator' = nominator /\ stray' = stray
  BY DEF ProcessFrame
<1>2. PICK F, n, rest :
          /\ F = Positions(Peer(r), pid) /\ n = Len(sent[Peer(r)][pid])
          /\ rest = wire[r][pid]
  OBVIOUS
<1>3. /\ old.decoder \in Decoders /\ old.received \in Nat /\ n \in Nat
      /\ rest \in Seq(UlpUnits)
  BY <1>0, <1>2, UnreadType
<1>4. AfterNext(old.decoder) \in Decoders
  BY <1>3, NextFacts
<1>5. /\ p \in Paths /\ p.decoder = AfterNext(old.decoder)
      /\ p.state = old.state /\ p.sealed = old.sealed
      /\ p.received = old.received /\ p.etk = old.etk
  BY <1>0, <1>4 DEF Paths
<1>6. \A i, j \in Nat : F[i] = F[j] => i = j
  BY <1>2, PositionFacts
<1>7. stray = 0 =>
          /\ HasFrame(old.decoder) =>
                 /\ old.received + 1 \in 1 .. n
                 /\ frame = F[old.received + 1]
                 /\ Reads(F, n, old.received + 1, p.decoder, p.decoder.data \o rest)
          /\ ~HasFrame(old.decoder) =>
                 Reads(F, n, old.received, p.decoder, p.decoder.data \o rest)
  <2>1. SUFFICES ASSUME stray = 0
                 PROVE  /\ HasFrame(old.decoder) =>
                               /\ old.received + 1 \in 1 .. n
                               /\ frame = F[old.received + 1]
                               /\ Reads(F, n, old.received + 1, p.decoder,
                                        p.decoder.data \o rest)
                        /\ ~HasFrame(old.decoder) =>
                               Reads(F, n, old.received, p.decoder, p.decoder.data \o rest)
    OBVIOUS
  <2>2. Reads(F, n, old.received, old.decoder, old.decoder.data \o rest)
    BY <1>0, <1>1, <1>2, <2>1 DEF Straight, Unread
  <2>3. PICK d, opened : d = old.decoder /\ opened = old.received
    OBVIOUS
  <2>4. /\ d \in Decoders /\ opened \in Nat /\ n \in Nat /\ rest \in Seq(UlpUnits)
        /\ Reads(F, n, opened, d, d.data \o rest)
    BY <1>3, <2>2, <2>3
  <2>5. /\ HasFrame(d) =>
               /\ opened + 1 \in 1 .. n
               /\ NextFrame(d)[1].frame = F[opened + 1]
               /\ Reads(F, n, opened + 1, AfterNext(d), AfterNext(d).data \o rest)
        /\ ~HasFrame(d) => Reads(F, n, opened, AfterNext(d), AfterNext(d).data \o rest)
    BY <1>6, <2>4, NextRead
  <2>6. p.decoder = AfterNext(d)
    BY <1>5, <2>3
  <2> HIDE DEF p
  <2>7. QED
    BY <2>3, <2>5, <2>6
<1>8. CASE ~HasFrame(old.decoder)
  <2>1. /\ path' = [path EXCEPT ![r][pid] = p]
        /\ UNCHANGED <<nominated, cause, wire, sent, created, delivered>>
    BY <1>8 DEF ProcessFrame
  <2> HIDE DEF p
  <2>2. /\ Stays(r, pid, p) /\ sent' = sent /\ wire' = wire
        /\ cause' = [cause EXCEPT ![r] = cause[r]]
    BY <1>0, <2>1 DEF Stays
  <2>3. stray = 0 => Reads(Positions(Peer(r), pid), Len(sent[Peer(r)][pid]), p.received,
                           p.decoder, p.decoder.data \o wire[r][pid])
    BY <1>2, <1>5, <1>7, <1>8
  <2>4. Straight'
    BY <1>0, <1>1, <2>2, <2>3, MovesStraight
  <2>5. NoSpuriousError'
    BY <1>0, <1>1, <2>1 DEF NoSpuriousError
  <2>6. QED
    BY <2>4, <2>5
<1>9. CASE HasFrame(old.decoder)
  <2>1. /\ Handle(r, pid, result)
        /\ path' = IF ends THEN AfterNomination(r, pid, result.path)
                   ELSE [path EXCEPT ![r][pid] = result.path]
        /\ nominated' = IF ends THEN [nominated EXCEPT ![r] = pid] ELSE nominated
    BY <1>9 DEF ProcessFrame
  <2>2. WasSent(Peer(r), frame)
    BY <1>0, <1>9, NextIsGenuine
  <2>3. stray = 0 => /\ p.received + 1 \in 1 .. Len(sent[Peer(r)][pid])
                     /\ frame = FrameAt(Peer(r), pid, p.received + 1)
    <3>1. \A i \in Nat : F[i] = FrameAt(Peer(r), pid, i)
      BY <1>2, PositionFacts
    <3>2. old.received + 1 \in Nat
      BY <1>3
    <3> HIDE DEF p, frame
    <3>3. QED
      BY <1>2, <1>5, <1>7, <1>9, <3>1, <3>2
  <2>4. stray = 0 => Reads(Positions(Peer(r), pid), Len(sent[Peer(r)][pid]),
                           p.received + 1, p.decoder, p.decoder.data \o wire[r][pid])
    <3> HIDE DEF p, frame
    <3>1. QED
      BY <1>2, <1>5, <1>7, <1>9
  <2> HIDE DEF p, frame
  <2>5. Processed(r, pid, p, result)
    <3>1. CASE r = "RID"
      <4>1. Peer(r) = "RRD"
        BY <3>1 DEF Peer
      <4>2. Processed("RID", pid, p, RidProcessFrame(pid, p, frame))
        BY <1>0, <1>1, <1>5, <2>2, <3>1, <4>1, RidProcessed
      <4>3. QED
        BY <3>1, <4>2
    <3>2. CASE r = "RRD"
      <4>1. Peer(r) = "RID"
        BY <3>2 DEF Peer
      <4>2. Processed("RRD", pid, p, RrdProcessFrame(pid, p, frame))
        BY <1>0, <1>1, <1>5, <2>2, <3>2, <4>1, RrdProcessed
      <4>3. QED
        BY <3>2, <4>2
    <3>3. QED
      BY <1>0, <3>1, <3>2
  <2>6. stray = 0 => result.error \in {"none", "SequenceNumberOverflow"}
    BY <1>0, <1>1, <1>5, <2>3, NoFault
  <2> HIDE DEF result
  <2>7. PICK q : q = result.path
    OBVIOUS
  <2>8. Stays(r, pid, q) \/ IsNominated(r, pid, q)
    BY <2>1, <2>7 DEF Stays, IsNominated
  <2>9. CASE result.error # "none" /\ result.path.state # "Nominated"
    <3>1. Abort(r, result.error)
      BY <2>1, <2>9 DEF Handle
    <3>2. PICK error : error = result.error
      OBVIOUS
    <3>3. error # "none" /\ cause' = [cause EXCEPT ![r] = error]
          /\ sent' = sent /\ wire' = wire
      BY <2>9, <3>1, <3>2 DEF Abort
    <3>4. Straight'
      BY <1>0, <1>1, <2>8, <3>3, MovesStraight
    <3>5. stray = 0 => error \in Expected
      BY <2>6, <3>2 DEF Expected
    <3>6. NoSpuriousError'
      BY <1>0, <1>1, <3>3, <3>5, CauseExpected
    <3>7. QED
      BY <3>4, <3>6
  <2>10. CASE /\ result.error = "none"
              /\ result.path.decoder = p.decoder /\ result.path.received = p.received + 1
              /\ result.frames \in {<<>>, <<FrameAt(r, pid, p.sealed + 1)>>}
    <3>1. PICK frames : frames = result.frames
      OBVIOUS
    <3>2. PICK next : next = FrameAt(r, pid, path[r][pid].sealed + 1)
      OBVIOUS
    <3>3. frames = <<>> \/ frames = <<next>>
      BY <1>5, <2>10, <3>1, <3>2
    <3>4. /\ sent' = [sent EXCEPT ![r][pid] = @ \o frames]
          /\ wire' = IF frames = <<>> THEN wire
                     ELSE [wire EXCEPT ![Peer(r)][pid] = @ \o EncodeFrame(frames[1])]
          /\ cause' = cause
      BY <2>1, <2>10, <3>1 DEF Handle
    <3>5. \/ sent' = sent /\ wire' = wire
          \/ Sends(r, pid, next)
      <4>1. CASE frames = <<>>
        <5>1. sent[r][pid] \o <<>> = sent[r][pid]
          BY <1>0
        <5>2. sent' = sent
          BY <1>0, <3>4, <4>1, <5>1
        <5>3. QED
          BY <3>4, <4>1, <5>2
      <4>2. CASE frames = <<next>>
        <5>1. frames # <<>> /\ frames[1] = next
          BY <4>2
        <5>2. QED
          BY <3>4, <4>2, <5>1 DEF Sends
      <4>3. QED
        BY <3>3, <4>1, <4>2
    <3>6. cause' = [cause EXCEPT ![r] = cause[r]]
      BY <1>0, <3>4
    <3>7. stray = 0 => Reads(Positions(Peer(r), pid), Len(sent[Peer(r)][pid]), q.received,
                             q.decoder, q.decoder.data \o wire[r][pid])
      BY <2>4, <2>7, <2>10
    <3>8. Straight'
      BY <1>0, <1>1, <2>8, <3>2, <3>5, <3>6, <3>7, MovesStraight
    <3>9. NoSpuriousError'
      BY <1>0, <1>1, <3>4 DEF NoSpuriousError
    <3>10. QED
      BY <3>8, <3>9
  <2>11. QED
    BY <1>5, <2>5, <2>9, <2>10, FrameProcessed
<1>10. QED
  BY <1>8, <1>9
\* The nominator nominates a path, ready or not (nominate_path).
LEMMA NominatePathStraight ==
    ASSUME StraightInv, RendezvousInv', NEW r \in Roles, NEW pid \in Pids,
           NominatePath(r, pid)
    PROVE  Straight' /\ NoSpuriousError'
<1> DEFINE p      == path[r][pid]
           result == IF r = "RID" THEN RidNominate(pid, p) ELSE RrdNominate(pid, p)
           new    == [AfterSeal(p) EXCEPT !.state = "Nominated"]
<1>0. /\ RendezvousInv /\ Types /\ Straight /\ NoSpuriousError
      /\ StateFits(r, pid)
      /\ cause \in [Roles -> Causes] /\ p \in Paths /\ r \in {"RID", "RRD"}
  BY DEF StraightInv, RendezvousInv, PathsFit, Types, Roles
<1>1. /\ Running(r) /\ r = nominator /\ nominated[r] = NoPid /\ Known(r, pid)
      /\ nominator' = nominator /\ stray' = stray
      /\ Handle(r, pid, result)
      /\ IF result.error = "none"
         THEN /\ path' = AfterNomination(r, pid, result.path)
              /\ nominated' = [nominated EXCEPT ![r] = pid]
         ELSE /\ path' = [path EXCEPT ![r][pid] = result.path]
              /\ UNCHANGED nominated
  BY DEF NominatePath
<1>2. \/ result.error \in {"InvalidStateForNomination", "SequenceNumberOverflow"}
      \/ /\ p.state = "AwaitingNominate"
         /\ result = Ok(new, <<Seal(r, pid, p, NominateMessage)>>, <<>>)
  BY <1>0 DEF RidNominate, RrdNominate, Failed
<1> HIDE DEF result
<1>3. CASE result.error \in {"InvalidStateForNomination", "SequenceNumberOverflow"}
  <2>1. PICK error, q : error = result.error /\ q = result.path
    OBVIOUS
  <2>2. error # "none" /\ error \in Expected
    BY <1>3, <2>1 DEF Expected
  <2>3. Stays(r, pid, q) /\ Abort(r, error)
    BY <1>1, <2>1, <2>2 DEF Stays, Handle
  <2>4. cause' = [cause EXCEPT ![r] = error] /\ sent' = sent /\ wire' = wire
    BY <2>3 DEF Abort
  <2>5. Straight'
    BY <1>0, <1>1, <2>2, <2>3, <2>4, MovesStraight
  <2>6. NoSpuriousError'
    BY <1>0, <1>1, <2>2, <2>4, CauseExpected
  <2>7. QED
    BY <2>5, <2>6
<1>4. CASE /\ p.state = "AwaitingNominate"
           /\ result = Ok(new, <<Seal(r, pid, p, NominateMessage)>>, <<>>)
  <2>1. PICK frame : frame = FrameAt(r, pid, path[r][pid].sealed + 1)
    OBVIOUS
  <2>2. Seal(r, pid, p, NominateMessage) = frame
    <3>1. p.sealed = Handshake(r) /\ p.etk = Secret(pid)
          /\ Preamble(r) = Handshake(r) + 1 /\ Handshake(r) \in Nat
      BY <1>0, <1>1, <1>4, PreambleFacts DEF StateFits
    <3>2. KeyOf(p, r) = Key(r, Secret(pid))
      BY <1>4, <3>1 DEF KeyOf, Racing
    <3>3. ContentAt(r, pid, p.sealed + 1) = NominateMessage
      BY <1>1, <3>1, ContentFacts
    <3>4. ~(p.sealed + 1 <= Handshake(r))
      BY <3>1
    <3>5. QED
      BY <2>1, <3>2, <3>3, <3>4 DEF Seal, FrameAt
  <2>3. /\ result.path = new /\ result.frames = <<frame>> /\ result.error = "none"
        /\ result.frames # <<>> /\ result.frames[1] = frame
    BY <1>4, <2>2 DEF Ok
  <2>4. new.decoder = p.decoder /\ new.received = p.received
    BY <1>0 DEF Paths, AfterSeal
  <2>5. PICK q : q = new
    OBVIOUS
  <2> HIDE DEF new
  <2>6. IsNominated(r, pid, q) /\ Sends(r, pid, frame) /\ cause' = cause
    BY <1>1, <2>3, <2>5 DEF IsNominated, Handle, Sends
  <2>7. cause' = [cause EXCEPT ![r] = cause[r]]
    BY <1>0, <2>6
  <2>8. stray = 0 => Reads(Positions(Peer(r), pid), Len(sent[Peer(r)][pid]), q.received,
                           q.decoder, q.decoder.data \o wire[r][pid])
    BY <1>0, <1>1, <2>4, <2>5 DEF Straight, Unread
  <2>9. Straight'
    BY <1>0, <1>1, <2>1, <2>6, <2>7, <2>8, MovesStraight
  <2>10. NoSpuriousError'
    BY <1>0, <1>1, <2>6 DEF NoSpuriousError
  <2>11. QED
    BY <2>9, <2>10
<1>5. QED
  BY <1>2, <1>3, <1>4

\* A role sends a frame of the upper layer on the nominated path (create_ulp_frame).
LEMMA CreateUlpFrameStraight ==
    ASSUME StraightInv, RendezvousInv', NEW r \in Roles, CreateUlpFrame(r)
    PROVE  Straight' /\ NoSpuriousError'
<1>1. PICK pid \in Pids : pid = nominated[r]
  <2>1. nominated[r] \in Pids \cup {NoPid} /\ nominated[r] # NoPid
    BY DEF StraightInv, RendezvousInv, Types, CreateUlpFrame
  <2>2. QED
    BY <2>1
<1> DEFINE p      == path[r][pid]
           n      == created[r] + 1
           result == IF r = "RID" THEN RidCreateUlpFrame(pid, p, n)
                                  ELSE RrdCreateUlpFrame(pid, p, n)
           new    == AfterSeal(p)
<1>2. /\ Running(r) /\ nominator' = nominator /\ stray' = stray
      /\ path' = [path EXCEPT ![r][pid] = result.path] /\ nominated' = nominated
      /\ IF result.error = "none"
         THEN /\ sent' = [sent EXCEPT ![r][pid] = @ \o result.frames]
              /\ wire' = [wire EXCEPT ![Peer(r)][pid] = @ \o EncodeFrame(result.frames[1])]
              /\ cause' = cause
         ELSE Abort(r, result.error)
  BY <1>1 DEF CreateUlpFrame
<1>0. /\ RendezvousInv /\ Types /\ Straight /\ NoSpuriousError
      /\ StateFits(r, pid) /\ NominationFits(r, pid)
      /\ created[r] \in 0 .. MaxUlp
      /\ cause \in [Roles -> Causes] /\ p \in Paths /\ r \in {"RID", "RRD"}
  BY DEF StraightInv, RendezvousInv, PathsFit, Types, Roles
<1>a. created[r] \in Nat
  BY <1>0, RendezvousAssumption
<1>3. /\ p.state = "Nominated" /\ p.sealed = Preamble(r) + created[r] /\ p.etk = Secret(pid)
      /\ Known(r, pid)
  BY <1>0, <1>1, <1>2 DEF StateFits, NominationFits, Known
<1>4. \/ result = Failed(p, p.state, "SequenceNumberOverflow")
      \/ result = Ok(new, <<Seal(r, pid, p, Ulp(n))>>, <<>>)
  BY <1>0 DEF RidCreateUlpFrame, RrdCreateUlpFrame
<1> HIDE DEF result
<1>5. CASE result = Failed(p, p.state, "SequenceNumberOverflow")
  <2>1. result.error = "SequenceNumberOverflow"
    BY <1>5 DEF Failed
  <2>2. PICK error, q : error = "SequenceNumberOverflow" /\ q = result.path
    OBVIOUS
  <2>3. error # "none" /\ error \in Expected
    BY <2>2 DEF Expected
  <2>4. Stays(r, pid, q) /\ Abort(r, error)
    BY <1>2, <2>1, <2>2 DEF Stays
  <2>5. cause' = [cause EXCEPT ![r] = error] /\ sent' = sent /\ wire' = wire
    BY <2>4 DEF Abort
  <2>6. Straight'
    BY <1>0, <1>2, <1>3, <2>3, <2>4, <2>5, MovesStraight
  <2>7. NoSpuriousError'
    BY <1>0, <1>2, <2>3, <2>5, CauseExpected
  <2>8. QED
    BY <2>6, <2>7
<1>6. CASE result = Ok(new, <<Seal(r, pid, p, Ulp(n))>>, <<>>)
  <2>1. PICK frame : frame = FrameAt(r, pid, path[r][pid].sealed + 1)
    OBVIOUS
  <2>2. Seal(r, pid, p, Ulp(n)) = frame
    <3>1. Handshake(r) \in Nat /\ Preamble(r) \in Nat /\ Preamble(r) >= Handshake(r)
      BY PreambleFacts
    <3>2. /\ n \in Nat \ {0} /\ p.sealed + 1 = Preamble(r) + n
          /\ ~(p.sealed + 1 <= Handshake(r))
      BY <1>a, <1>3, <3>1
    <3>3. KeyOf(p, r) = Key(r, Secret(pid))
      BY <1>3 DEF KeyOf, Racing
    <3>4. ContentAt(r, pid, p.sealed + 1) = Ulp(n)
      BY <3>2, ContentFacts
    <3>5. QED
      BY <2>1, <3>2, <3>3, <3>4 DEF Seal, FrameAt
  <2>3. /\ result.path = new /\ result.frames = <<frame>> /\ result.error = "none"
        /\ result.frames[1] = frame
    BY <1>6, <2>2 DEF Ok
  <2>4. new.decoder = p.decoder /\ new.received = p.received
    BY <1>0 DEF Paths, AfterSeal
  <2>5. PICK q : q = new
    OBVIOUS
  <2> HIDE DEF new
  <2>6. Stays(r, pid, q) /\ Sends(r, pid, frame) /\ cause' = cause
    BY <1>2, <2>3, <2>5 DEF Stays, Sends
  <2>7. cause' = [cause EXCEPT ![r] = cause[r]]
    BY <1>0, <2>6
  <2>8. stray = 0 => Reads(Positions(Peer(r), pid), Len(sent[Peer(r)][pid]), q.received,
                           q.decoder, q.decoder.data \o wire[r][pid])
    BY <1>0, <1>2, <1>3, <2>4, <2>5 DEF Straight, Unread
  <2>9. Straight'
    BY <1>0, <1>2, <1>3, <2>1, <2>6, <2>7, <2>8, MovesStraight
  <2>10. NoSpuriousError'
    BY <1>0, <1>2, <2>6 DEF NoSpuriousError
  <2>11. QED
    BY <2>9, <2>10
<1>7. QED
  BY <1>4, <1>5, <1>6

\* The first frame a path reads is the hello of the responder (new_as_rid).
LEMMA StraightInit == Init => StraightInv
<1> SUFFICES ASSUME Init PROVE StraightInv
  OBVIOUS
<1>1. RendezvousInv /\ Types
  BY InitFits DEF RendezvousInv
<1>2. /\ nominator \in Roles /\ stray = 0
      /\ nominated = [r \in Roles |-> NoPid] /\ cause = [r \in Roles |-> "none"]
  BY DEF Init
<1>3. Agreed /\ NoSpuriousError
  BY <1>2, PeerFacts DEF Agreed, NoSpuriousError
<1>4. ASSUME NEW r \in Roles, NEW pid \in Pids
      PROVE  Reads(Positions(Peer(r), pid), Len(sent[Peer(r)][pid]),
                   path[r][pid].received, path[r][pid].decoder, Unread(r, pid))
  <2>1. PICK F, d : F = Positions(Peer(r), pid) /\ d = path[r][pid].decoder
    OBVIOUS
  <2>2. d.state = "PartialDelimiter" /\ d.data = <<>> /\ path[r][pid].received = 0
    BY <2>1 DEF Init, RidNew, RrdNew, NewPath, NewDecoder
  <2>3. PICK units : units = wire[r][pid]
    OBVIOUS
  <2>4. Unread(r, pid) = units
    <3>1. units \in Seq(UlpUnits)
      BY <1>1, <2>3, UnreadType
    <3>2. <<>> \o units = units
      BY <3>1
    <3>3. QED
      BY <2>1, <2>2, <2>3, <3>2 DEF Unread
  <2>5. Reads(F, 0, 0, d, <<>>)
    BY <2>2 DEF Reads, InPlace
  <2>6. CASE r = "RRD"
    <3>1. sent[Peer(r)][pid] = <<>> /\ units = <<>>
      BY <2>3, <2>6 DEF Init, Peer, Roles
    <3>2. Len(sent[Peer(r)][pid]) = 0
      BY <3>1
    <3>3. QED
      BY <2>1, <2>2, <2>4, <2>5, <3>1, <3>2
  <2>7. CASE r = "RID"
    <3>1. PICK hello : hello = RrdCreateHello(pid)
      OBVIOUS
    <3>2. Peer(r) = "RRD" /\ "RRD" \in Roles /\ "RID" \in Roles
      BY <2>7 DEF Peer, Roles
    <3>3. sent["RRD"][pid] = <<hello>> /\ units = EncodeFrame(hello)
      BY <2>3, <2>7, <3>1, <3>2 DEF Init
    <3>4. Len(sent["RRD"][pid]) = 1 /\ sent["RRD"][pid][1] = hello
      BY <3>3
    <3>5. hello = FrameAt("RRD", pid, 1) /\ hello \in Frames
      <4>1. 1 \in 1 .. Len(sent["RRD"][pid]) /\ sent["RRD"][pid] \in Seq(Frames)
        BY <1>1, <3>2, <3>4 DEF Types
      <4>2. hello = FrameAt("RRD", pid, 1)
        BY <1>1, <3>2, <3>4, <4>1 DEF RendezvousInv, SentInPlace
      <4>3. QED
        BY <3>4, <4>1, <4>2, ElementOfSeq
    <3>6. F[0 + 1] = hello
      BY <2>1, <3>2, <3>5, PositionFacts
    <3>7. EncodeFrame(F[0 + 1]) \in Seq(UlpUnits) /\ <<>> \in Seq(UlpUnits)
      BY <3>5, <3>6, EncodedUnits
    <3>8. \A frame : FrameLength(frame) \in Nat \ {0}
      BY PositionFacts
    <3>9. PICK none : none = <<>>
      OBVIOUS
    <3>10. Reads(F, 0 + 1, 0, d, none \o EncodeFrame(F[0 + 1]))
      BY <2>5, <3>7, <3>8, <3>9, MoreToRead
    <3>11. none \o EncodeFrame(F[0 + 1]) = units
      <4>1. PICK e : e = EncodeFrame(F[0 + 1])
        OBVIOUS
      <4>2. e \in Seq(UlpUnits) /\ <<>> \o e = e
        BY <3>7, <4>1
      <4>3. QED
        BY <3>3, <3>6, <3>9, <4>1, <4>2
    <3>12. QED
      <4>1. Reads(F, 1, 0, d, units)
        BY <3>10, <3>11
      <4>2. Len(sent[Peer(r)][pid]) = 1 /\ path[r][pid].received = 0
        BY <2>2, <3>2, <3>4
      <4>3. QED
        BY <2>1, <2>4, <4>1, <4>2
  <2>8. QED
    BY <2>6, <2>7 DEF Roles
<1>5. Straight
  BY <1>4 DEF Straight
<1>6. QED
  BY <1>1, <1>3, <1>5 DEF StraightInv

\* Every step leaves the paths delivering what was sent on them, and no role with an
\* error it need not have.
LEMMA StraightNext ==
    ASSUME StraightInv, [Next]_vars
    PROVE  StraightInv'
<1>0. /\ RendezvousInv /\ Types /\ Straight /\ Agreed /\ NoSpuriousError
      /\ nominator \in Roles /\ nominated \in [Roles -> Pids \cup {NoPid}]
      /\ cause \in [Roles -> Causes] /\ stray \in Nat
  BY RendezvousAssumption DEF StraightInv, RendezvousInv, Types
<1>1. RendezvousInv' /\ UpperLayerStep /\ nominator' = nominator
  BY <1>0, NextFits
<1>2. Agreed'
  <2>1. PICK q \in Roles : q = Peer(nominator) /\ q # nominator
    BY <1>0, PeerFacts
  <2>2. Peer(nominator)' = q
    BY <1>1, <2>1 DEF Peer
  <2>3. nominated[q] \in {NoPid, nominated[nominator]}
    BY <1>0, <2>1 DEF Agreed
  <2>4. nominated'[q] \in {NoPid, nominated'[nominator]}
    <3>1. CASE nominated' = nominated
      BY <2>3, <3>1
    <3>2. CASE NominatorChooses
      BY <1>0, <2>1, <2>3, <3>2 DEF NominatorChooses
    <3>3. CASE NomineeLearns
      BY <1>0, <2>1, <2>3, <3>3 DEF NomineeLearns
    <3>4. QED
      BY <1>1, <3>1, <3>2, <3>3 DEF UpperLayerStep, EndSends, EndReceives
  <2>5. QED
    BY <1>1, <2>2, <2>4 DEF Agreed
<1>3. ASSUME NEW r \in Roles, NEW pid \in Pids, NEW n \in 1 .. Len(wire[r][pid]),
             AddChunks(r, pid, n)
      PROVE  Straight' /\ NoSpuriousError'
  <2>1. Straight'
    BY <1>0, <1>3, AddChunksStraight
  <2>2. stray' = stray
    BY <1>3 DEF AddChunks
  <2>3. \E error \in Expected : cause' = [cause EXCEPT ![r] = error]
    <3>1. cause[r] = "none" /\ cause = [cause EXCEPT ![r] = cause[r]]
      BY <1>0, <1>3 DEF AddChunks, Running
    <3>2. \/ cause' = cause
          \/ cause' = [cause EXCEPT ![r] = "OversizedFrame"]
          \/ cause' = [cause EXCEPT ![r] = "UnknownOrDroppedPath"]
      BY <1>3 DEF AddChunks
    <3>3. {"none", "OversizedFrame", "UnknownOrDroppedPath"} \subseteq Expected
      BY DEF Expected
    <3>4. QED
      BY <3>1, <3>2, <3>3
  <2>4. NoSpuriousError'
    BY <1>0, <2>2, <2>3, CauseExpected
  <2>5. QED
    BY <2>1, <2>4
<1>4. ASSUME NEW r \in Roles, NEW pid \in Pids, StrayFrame(r, pid)
      PROVE  Straight' /\ NoSpuriousError'
  <2>1. stray' # 0
    BY <1>0, <1>4 DEF StrayFrame
  <2>2. QED
    BY <2>1 DEF Straight, NoSpuriousError
<1>5. ASSUME UNCHANGED vars PROVE Straight' /\ NoSpuriousError'
  <2>1. /\ path' = path /\ cause' = cause /\ wire' = wire /\ sent' = sent /\ stray' = stray
    BY <1>5 DEF vars
  <2>2. \A r, pid : Positions(r, pid)' = Positions(r, pid)
    BY <1>1, SamePositions
  <2>3. Straight'
    BY <1>0, <2>1, <2>2 DEF Straight, Unread, Running, Known
  <2>4. NoSpuriousError'
    BY <1>0, <2>1 DEF NoSpuriousError
  <2>5. QED
    BY <2>3, <2>4
<1>6. Straight' /\ NoSpuriousError'
  BY <1>1, <1>3, <1>4, <1>5, ProcessFrameStraight, NominatePathStraight,
     CreateUlpFrameStraight DEF Next
<1>7. QED
  BY <1>1, <1>2, <1>6 DEF StraightInv

\* As long as each path delivers what was sent on it, whatever its chunks, no frame
\* fails to open, answers the wrong challenge or comes unexpected (mod.rs,
\* process_frame; rxdxk.rs, decrypt).
THEOREM NothingFails == Spec => []NoSpuriousError
<1>1. StraightInv /\ [Next]_vars => StraightInv'
  BY StraightNext
<1>2. StraightInv => NoSpuriousError
  BY DEF StraightInv
<1>3. QED
  BY StraightInit, <1>1, <1>2, PTL DEF Spec
=============================================================================

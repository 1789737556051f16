-------------------------- MODULE CspProtocolProofs --------------------------
(***************************************************************************)
(* Proofs about CspProtocol, for every value of its constants: its types,  *)
(* that no nonce is used twice, that the login only goes to a known server *)
(* and that the error state is final; then, for a server that follows the  *)
(* protocol, that its connection never fails and loses nothing, and that   *)
(* every step of the two ends is one of the abstract PayloadChannel, or    *)
(* none.                                                                   *)
(*                                                                         *)
(* The second part follows the bytes.  Each unit of the server's stream    *)
(* has a place: the message it belongs to and its index there.  What the   *)
(* client has not read, its decoder's buffer and the stream behind it, is  *)
(* what the server sent from the place the client has read to, up to the   *)
(* first message a misbehaving server repeats.                             *)
(***************************************************************************)
EXTENDS CspProtocol, FiniteSetTheorems, SequenceTheorems, TLAPS

\* A message's units on the wire are units: the server's messages keep the
\* type of the stream (Encoded, Send).
LEMMA EncodedType ==
    ASSUME NEW message \in ServerMessages
    PROVE  Encoded(message) \in Seq(Units)
<1>1. LengthOf(message) \in Nat
  BY CspAssumption DEF LengthOf
<1>2. Body(message) \in Seq(Units)
  <2>1. \A i \in 1 .. LengthOf(message) : Unit(message, DelimiterLength + i, 0) \in Units
    BY <1>1, CspAssumption DEF Unit, Units
  <2>2. QED BY <1>1, <2>1 DEF Body
<1>3. Delimiter(message) \in Seq(Units)
  <2>1. \A i \in 1 .. DelimiterLength : Unit(message, i, LengthOf(message)) \in Units
    BY <1>1, CspAssumption DEF Unit, Units
  <2>2. DelimiterLength \in Nat
    BY CspAssumption
  <2>3. QED BY <2>1, <2>2 DEF Delimiter
<1>4. QED BY <1>2, <1>3 DEF Encoded

\* Taking the delimiter leaves a decoder (the first half of next_frame_and_then).
LEMMA TakeDelimiterType ==
    ASSUME NEW d \in Decoders
    PROVE  TakeDelimiter(d) \in Decoders
<1>1. CASE d.state = "PartialDelimiter" /\ Len(d.data) >= DelimiterLength
  <2>1. First(d.data, DelimiterLength) \in Seq(Units)
    BY <1>1, CspAssumption DEF First, Decoders
  <2>2. Len(First(d.data, DelimiterLength)) = DelimiterLength
    BY <1>1, CspAssumption DEF First, Decoders
  <2>3. DecodeDelimiter(First(d.data, DelimiterLength)) \in Nat
    <3>1. First(d.data, DelimiterLength)[1] \in Units
      BY <2>1, <2>2, CspAssumption, ElementOfSeq
    <3>2. QED BY <3>1 DEF DecodeDelimiter, Units
  <2>4. Drain(d.data, DelimiterLength) \in Seq(Units)
    BY CspAssumption DEF Drain, Decoders
  <2>5. QED BY <1>1, <2>3, <2>4 DEF TakeDelimiter, Decoders
<1>2. CASE ~(d.state = "PartialDelimiter" /\ Len(d.data) >= DelimiterLength)
  BY <1>2 DEF TakeDelimiter
<1>3. QED BY <1>1, <1>2

\* Polling a decoder leaves a decoder, and a frame is made of units.
LEMMA AfterNextType ==
    ASSUME NEW d \in Decoders
    PROVE  /\ AfterNext(d) \in Decoders
           /\ HasFrame(d) => NextFrame(d) \in Seq(Units)
<1>1. TakeDelimiter(d) \in Decoders
  BY TakeDelimiterType
<1>2. Drain(TakeDelimiter(d).data, TakeDelimiter(d).length) \in Seq(Units)
  BY <1>1 DEF Drain, Decoders
<1>3. AfterNext(d) \in Decoders
  BY <1>1, <1>2 DEF AfterNext, NewDecoder, Decoders
<1>4. HasFrame(d) => NextFrame(d) \in Seq(Units)
  BY <1>1 DEF HasFrame, NextFrame, First, Decoders
<1>5. QED BY <1>3, <1>4

\* The variables keep their types through any calls of any caller.
THEOREM TypeCorrect == Spec => []TypeOK
<1>1. Init => TypeOK
  <2> SUFFICES ASSUME Init PROVE TypeOK
    OBVIOUS
  <2>1. up \in Seq(ClientFrames)
    BY DEF Init, ClientFrames
  <2>2. decoder \in Decoders
    BY DEF Init, NewDecoder, Decoders
  <2>3. csn \in 1 .. MaxSeq /\ ssn \in 1 .. MaxSeq /\ server.ssn \in 1 .. MaxSeq
    BY CspAssumption DEF Init
  <2>4. server \in Servers
    BY CspAssumption DEF Init, Servers
  <2>5. /\ delivered \in Seq(Incoming \ Malformed) /\ accepted \in Seq(Outgoing \ Oversized)
        /\ inbound \in Seq(Units) /\ srvSent \in Seq(Incoming)
        /\ srvReceived \in Seq(Outgoing) /\ sealed \in Seq(Nonces)
    BY EmptySeq DEF Init
  <2>6. QED BY <2>1, <2>2, <2>3, <2>4, <2>5 DEF Init, TypeOK
<1>2. TypeOK /\ [Next]_vars => TypeOK'
  <2> SUFFICES ASSUME TypeOK, [Next]_vars PROVE TypeOK'
    OBVIOUS
  <2> USE CspAssumption
  <2>a. decoder \in Decoders /\ decoder.data \in Seq(Units)
    BY DEF TypeOK, Decoders
  <2>s. server \in Servers
    BY DEF TypeOK
  <2>b. inbound \in Seq(Units) /\ up \in Seq(ClientFrames)
    BY DEF TypeOK
  <2>c. sealed \in Seq(Nonces) /\ accepted \in Seq(Outgoing \ Oversized)
    BY DEF TypeOK
  <2>1. ASSUME NEW n \in 1 .. Len(inbound), AddChunks(n) PROVE TypeOK'
    <3>1. inbound' \in Seq(Units)
      BY <2>1 DEF AddChunks, Drain, TypeOK
    <3>2. decoder' \in Decoders
      <4>1. First(inbound, n) \in Seq(Units)
        BY <2>b DEF First
      <4>2. decoder.data \o First(inbound, n) \in Seq(Units)
        BY <2>a, <4>1
      <4>3. AddChunk(decoder, First(inbound, n)) \in Decoders
        BY <2>a, <4>2 DEF AddChunk, Decoders
      <4>4. QED BY <2>1, <2>a, <4>3 DEF AddChunks
    <3>3. QED BY <2>1, <3>1, <3>2 DEF AddChunks, TypeOK, serverVars
  <2>2. ASSUME PollAwaitingServerHello PROVE TypeOK'
    <3>1. CASE Fail
      BY <2>2, <3>1 DEF PollAwaitingServerHello, Fail, TypeOK, serverVars
    <3>2. CASE ~Fail
      <4> DEFINE hello == First(decoder.data, HelloLength)
      <4>1. hello \in Seq(Units) /\ hello[1] \in Units
        <5>1. Len(decoder.data) >= HelloLength
          BY <2>2 DEF PollAwaitingServerHello, FixedHasFrame
        <5>2. hello \in Seq(Units) /\ Len(hello) = HelloLength
          BY <2>a, <5>1 DEF First
        <5>3. QED BY <5>2, ElementOfSeq
      <4>2. Authentic(hello) /\ HasNext(1) /\ HasNext(2)
        BY <2>2, <3>2 DEF PollAwaitingServerHello
      <4>3. hello[1].message \in [type : {"ServerHello"}, key : Keys, sck : Cookies,
                                  nonce : Nonces, repeated : Cookies]
        BY <4>1, <4>2 DEF Authentic, Intact, Units, ServerMessages
      <4>4. decoder' \in Decoders
        <5>1. Drain(decoder.data, HelloLength) \in Seq(Units)
          BY <2>a DEF Drain
        <5>2. NextDecoder(HelloLength) \in Decoders
          BY <5>1 DEF NextDecoder, NewDecoder, Decoders
        <5>3. QED BY <2>2, <4>2, <5>2 DEF PollAwaitingServerHello
      <4>5. Nonce(CCK, 1) \in Nonces /\ Nonce(CCK, 2) \in Nonces /\ 3 \in 1 .. MaxSeq
        BY <4>2 DEF Nonce, Nonces, HasNext
      <4>6. up' \in Seq(ClientFrames)
        <5> DEFINE login == [type |-> "Login",
                             data |-> Nonce(CCK, 1), extensions |-> Nonce(CCK, 2),
                             repeated |-> hello[1].message.sck,
                             vouch |-> [key |-> hello[1].message.key,
                                        sck |-> hello[1].message.sck]]
        <5>1. login \in ClientFrames
          BY <4>3, <4>5 DEF ClientFrames
        <5>2. up' = Append(up, login)
          BY <2>2, <4>2 DEF PollAwaitingServerHello
        <5> HIDE DEF login
        <5>3. QED BY <2>b, <5>1, <5>2
      <4>7. sealed' \in Seq(Nonces)
        <5>1. <<Nonce(CCK, 1), Nonce(CCK, 2)>> \in Seq(Nonces)
          BY <4>5
        <5>2. QED BY <2>2, <4>2, <5>1 DEF PollAwaitingServerHello
      <4>8. sck' \in Cookies /\ csn' \in 1 .. MaxSeq /\ ssn' \in 1 .. MaxSeq
        BY <2>2, <4>2, <4>3, <4>5 DEF PollAwaitingServerHello
      <4>9. QED BY <2>2, <4>2, <4>4, <4>6, <4>7, <4>8
                DEF PollAwaitingServerHello, TypeOK, serverVars
    <3>3. QED BY <3>1, <3>2
  <2>3. ASSUME PollAwaitingLoginAck PROVE TypeOK'
    <3>1. CASE Fail
      BY <2>3, <3>1 DEF PollAwaitingLoginAck, Fail, TypeOK, serverVars
    <3>2. CASE ~Fail
      <4>1. HasNext(ssn)
        BY <2>3, <3>2 DEF PollAwaitingLoginAck, Opens
      <4>2. NextDecoder(LoginAckLength) \in
                Decoders
        <5>1. Drain(decoder.data, LoginAckLength) \in Seq(Units)
          BY <2>a DEF Drain
        <5>2. QED BY <5>1 DEF NextDecoder, NewDecoder, Decoders
      <4>3. QED BY <2>3, <3>2, <4>1, <4>2 DEF PollAwaitingLoginAck, HasNext, TypeOK, serverVars
    <3>3. QED BY <3>1, <3>2
  <2>4. ASSUME PollPostHandshake PROVE TypeOK'
    <3> DEFINE frame == NextFrame(decoder)
    <3>1. AfterNext(decoder) \in Decoders
      BY AfterNextType DEF TypeOK
    <3>2. CASE ~HasFrame(decoder)
      BY <2>4, <3>1, <3>2 DEF PollPostHandshake, TypeOK, serverVars
    <3>3. CASE Fail
      BY <2>4, <3>3 DEF PollPostHandshake, Fail, TypeOK, serverVars
    <3>4. CASE HasFrame(decoder) /\ ~Fail
      <4>1. /\ Intact(frame, "Payload")
            /\ Opens(frame[1].message.nonce)
            /\ frame[1].message.payload \notin Malformed
            /\ decoder' = AfterNext(decoder)
            /\ ssn' = ssn + 1
            /\ delivered' = Append(delivered, frame[1].message.payload)
            /\ UNCHANGED <<state, csn, sck, sealed, failed, accepted, up, inbound, serverVars>>
        BY <2>4, <3>4 DEF PollPostHandshake
      <4>2. frame \in Seq(Units)
        BY <3>4, AfterNextType DEF TypeOK
      <4>3. frame[1] \in Units
        BY <4>1, <4>2 DEF Intact
      <4>4. frame[1].message.payload \in Incoming
        BY <4>1, <4>3 DEF Intact, Units, ServerMessages
      <4>5. delivered' \in Seq(Incoming \ Malformed)
        BY <4>1, <4>4 DEF TypeOK
      <4>6. ssn' \in 1 .. MaxSeq
        BY <4>1 DEF Opens, HasNext, TypeOK
      <4>7. QED BY <3>1, <4>1, <4>5, <4>6 DEF TypeOK, serverVars
    <3>5. QED BY <3>2, <3>3, <3>4
  <2>5. ASSUME PollError PROVE TypeOK'
    BY <2>5 DEF PollError, TypeOK, protocolVars, serverVars
  <2>6. ASSUME NEW payload \in Outgoing, CreatePayload(payload) PROVE TypeOK'
    <3>1. CASE state # "PostHandshake" \/ ~HasNext(csn)
      BY <2>6, <3>1 DEF CreatePayload, TypeOK, serverVars
    <3>2. CASE ~(state # "PostHandshake" \/ ~HasNext(csn))
      <4>1. csn' \in 1 .. MaxSeq
        BY <2>6, <3>2 DEF CreatePayload, HasNext, Increment, TypeOK
      <4>2. Nonce(CCK, csn) \in Nonces
        BY DEF Nonce, Nonces, TypeOK
      <4>3. sealed' \in Seq(Nonces)
        <5>1. sealed' = Append(sealed, Nonce(CCK, csn))
          BY <2>6, <3>2 DEF CreatePayload
        <5>2. QED BY <2>c, <4>2, <5>1
      <4>4. Payload(Nonce(CCK, csn), payload) \in ClientFrames
        BY <4>2 DEF Payload, ClientFrames
      <4>5. up' \in Seq(ClientFrames) /\ accepted' \in Seq(Outgoing \ Oversized)
            /\ failed' \in BOOLEAN
        <5>1. CASE payload \in Oversized
          BY <2>6, <2>b, <2>c, <3>2, <5>1 DEF CreatePayload
        <5>2. CASE payload \notin Oversized
          <6>1. /\ accepted' = Append(accepted, payload)
                /\ up' = Append(up, Payload(Nonce(CCK, csn), payload))
                /\ failed' = failed
            BY <2>6, <3>2, <5>2 DEF CreatePayload
          <6>2. QED BY <2>b, <2>c, <4>4, <5>2, <6>1 DEF TypeOK
        <5>3. QED BY <5>1, <5>2
      <4>6. QED BY <2>6, <4>1, <4>3, <4>5 DEF CreatePayload, TypeOK, serverVars
    <3>3. QED BY <3>1, <3>2
  <2>7. ASSUME NEW key \in Keys, NEW cookie \in Cookies, NEW repeated \in Cookies,
               SrvHello(key, cookie, repeated)
        PROVE TypeOK'
    <3>1. ServerHello(key, cookie, repeated) \in ServerMessages /\ 2 \in 1 .. MaxSeq
      BY <2>7 DEF SrvHello, ServerHello, ServerMessages, Nonce, Nonces, HasNext
    <3>2. inbound' \in Seq(Units)
      BY <2>7, <3>1, EncodedType DEF SrvHello, Send, TypeOK
    <3>3. up' \in Seq(ClientFrames)
      BY <2>7 DEF SrvHello, TypeOK
    <3>4. QED BY <2>7, <3>1, <3>2, <3>3
              DEF SrvHello, TypeOK, Servers, protocolVars, callerVars
  <2>8. ASSUME SrvLogin PROVE TypeOK'
    <3>1. up' \in Seq(ClientFrames)
      BY <2>8 DEF SrvLogin, TypeOK
    <3>2. CASE server' = [server EXCEPT !.state = "Closed"] /\ UNCHANGED <<inbound, srvSealed>>
      BY <2>8, <3>1, <3>2 DEF SrvLogin, TypeOK, Servers, protocolVars, callerVars
    <3>3. CASE ~(server' = [server EXCEPT !.state = "Closed"]
                 /\ UNCHANGED <<inbound, srvSealed>>)
      <4>1. /\ Head(up).type = "Login"
            /\ Head(up).repeated = server.sck
            /\ HasNext(2)
            /\ Send(LoginAck(Nonce(server.sck, 2)))
            /\ srvSealed' = srvSealed \cup {Nonce(server.sck, 2)}
            /\ server' = [server EXCEPT !.state = "Connected", !.csn = 3, !.ssn = 3]
        BY <2>8, <3>3 DEF SrvLogin
      <4>2. Head(up) \in ClientFrames
        BY <2>8 DEF SrvLogin, TypeOK
      <4>3. server.sck \in Cookies
        BY <4>1, <4>2 DEF ClientFrames
      <4>4. Nonce(server.sck, 2) \in Nonces /\ 3 \in 1 .. MaxSeq
        BY <4>1, <4>3 DEF Nonce, Nonces, HasNext
      <4>5. LoginAck(Nonce(server.sck, 2)) \in ServerMessages
        BY <4>4 DEF LoginAck, ServerMessages
      <4>6. inbound' \in Seq(Units)
        BY <4>1, <4>5, EncodedType DEF Send, TypeOK
      <4>7. server' \in Servers
        BY <2>s, <4>1, <4>4 DEF Servers
      <4>8. server'.sck = server.sck /\ server'.ssn = 3
        BY <2>s, <4>1 DEF Servers
      <4>9. srvSealed' \in SUBSET Nonces
        BY <4>1, <4>4 DEF TypeOK
      <4>10. QED BY <2>8, <3>1, <4>3, <4>4, <4>6, <4>7, <4>8, <4>9
                DEF SrvLogin, TypeOK, Servers, protocolVars, callerVars
    <3>4. QED BY <3>2, <3>3
  <2>9. ASSUME NEW payload \in Incoming, SrvSend(payload) PROVE TypeOK'
    <3> DEFINE nonce == Nonce(server.sck, server.ssn)
    <3>1. server.sck \in Cookies /\ server.ssn \in 3 .. MaxSeq /\ server.ssn + 1 \in 3 .. MaxSeq
      <4>1. server.sck \in Cookies /\ server.ssn \in 3 .. MaxSeq
        BY <2>9 DEF SrvSend, TypeOK
      <4>2. server.ssn < MaxSeq
        BY <2>9 DEF SrvSend, HasNext
      <4>3. QED BY <4>1, <4>2
    <3>2. nonce \in Nonces
      BY <3>1 DEF Nonce, Nonces
    <3>3. Payload(nonce, payload) \in ServerMessages
      BY <3>2 DEF Payload, ServerMessages
    <3>4. inbound' \in Seq(Units)
      BY <2>9, <2>b, <3>3, EncodedType DEF SrvSend, Send
    <3>5. srvSent' \in Seq(Incoming)
      BY <2>9 DEF SrvSend, TypeOK
    <3>6. server' = [server EXCEPT !.ssn = server.ssn + 1]
      BY <2>9 DEF SrvSend
    <3>7. srvSealed' \in SUBSET Nonces
      BY <2>9, <3>2 DEF SrvSend, TypeOK
    <3>8. server' \in Servers
      BY <2>s, <3>1, <3>6 DEF Servers
    <3>9. server'.sck = server.sck /\ server'.ssn = server.ssn + 1
      BY <2>s, <3>6 DEF Servers
    <3>10. QED BY <2>9, <3>1, <3>4, <3>5, <3>7, <3>8, <3>9 DEF SrvSend, TypeOK, protocolVars,
                                                                    callerVars
  <2>10. ASSUME NEW payload \in Incoming, SrvRepeat(payload) PROVE TypeOK'
    <3> DEFINE nonce == Nonce(server.sck, server.ssn - 1)
    <3>1. server.sck \in Cookies /\ server.ssn \in 3 .. MaxSeq
      BY <2>10 DEF SrvRepeat, TypeOK
    <3>2. nonce \in Nonces
      BY <3>1 DEF Nonce, Nonces
    <3>3. Payload(nonce, payload) \in ServerMessages
      BY <3>2 DEF Payload, ServerMessages
    <3>4. inbound' \in Seq(Units)
      BY <2>10, <2>b, <3>3, EncodedType DEF SrvRepeat, Send
    <3>5. QED BY <2>10, <3>1, <3>4 DEF SrvRepeat, TypeOK, Servers, protocolVars, callerVars
  <2>11. ASSUME SrvReceive PROVE TypeOK'
    <3>1. up' \in Seq(ClientFrames) /\ Head(up) \in ClientFrames
      BY <2>11, <2>b DEF SrvReceive
    <3>2. CASE server' = [server EXCEPT !.state = "Closed"] /\ UNCHANGED srvReceived
      BY <2>11, <3>1, <3>2 DEF SrvReceive, TypeOK, Servers, protocolVars, callerVars
    <3>3. CASE /\ Head(up).type = "Payload"
               /\ srvReceived' = Append(srvReceived, Head(up).payload)
               /\ server' = [server EXCEPT !.csn = @ + 1]
      <4>1. Head(up).payload \in Outgoing
        BY <3>1, <3>3 DEF ClientFrames
      <4>2. srvReceived' \in Seq(Outgoing)
        BY <3>3, <4>1 DEF TypeOK
      <4>3. server' = [server EXCEPT !.csn = server.csn + 1] /\ server.csn + 1 \in Nat
        BY <2>s, <3>3 DEF Servers
      <4>4. /\ server' \in Servers
            /\ server'.state = server.state /\ server'.sck = server.sck /\ server'.ssn = server.ssn
        BY <2>s, <4>3 DEF Servers
      <4>5. QED BY <2>11, <3>1, <4>2, <4>4 DEF SrvReceive, TypeOK, Servers, protocolVars, callerVars
    <3>4. QED BY <2>11, <3>2, <3>3 DEF SrvReceive
  <2>12. ASSUME SrvClose PROVE TypeOK'
    BY <2>12 DEF SrvClose, TypeOK, Servers, protocolVars, callerVars
  <2>13. ASSUME UNCHANGED vars PROVE TypeOK'
    BY <2>13 DEF vars, protocolVars, callerVars, serverVars, TypeOK
  <2>14. QED
    BY <2>1, <2>2, <2>3, <2>4, <2>5, <2>6, <2>7, <2>8, <2>9, <2>10, <2>11, <2>12, <2>13
       DEF Next, Poll
<1>3. QED BY <1>1, <1>2, PTL DEF Spec

-----------------------------------------------------------------------------
(* Nonces.  What the client seals is numbered without a gap, whatever      *)
(* becomes of the box; the server only seals after a login, and a login is *)
(* only made for a cookie that is not the client's.                        *)

NonceInv ==
    /\ state = "AwaitingServerHello" => sealed = <<>>
    /\ state \in {"AwaitingLoginAck", "PostHandshake"} => Len(sealed) = csn - 1
    /\ \A i \in 1 .. Len(sealed) : sealed[i] = Nonce(CCK, i)
    /\ \A i \in 1 .. Len(up) : up[i].type = "Login" => up[i].repeated # CCK
    /\ \A n \in srvSealed : n.cookie = server.sck
    /\ srvSealed # {} \/ server.state = "Connected" => server.sck # CCK
    /\ server.state \in {"AwaitingClientHello", "AwaitingLogin"} => srvSealed = {}

\* A step that takes the head of the client's frames, or leaves them alone,
\* leaves no login for the client's own cookie among them.
LEMMA TailOfLogins ==
    ASSUME TypeOK, NonceInv, up # <<>>
    PROVE  \A i \in 1 .. Len(Tail(up)) :
               Tail(up)[i].type = "Login" => Tail(up)[i].repeated # CCK
<1>1. up \in Seq(ClientFrames)
  BY DEF TypeOK
<1>2. \A i \in 1 .. Len(Tail(up)) : i + 1 \in 1 .. Len(up) /\ Tail(up)[i] = up[i + 1]
  BY <1>1
<1>3. QED BY <1>2 DEF NonceInv

LEMMA NonceStep == TypeOK /\ NonceInv /\ [Next]_vars => NonceInv'
<1> SUFFICES ASSUME TypeOK, NonceInv, [Next]_vars PROVE NonceInv'
  OBVIOUS
<1> USE CspAssumption
<1>t. /\ sealed \in Seq(Nonces) /\ up \in Seq(ClientFrames) /\ server \in Servers
      /\ csn \in 1 .. MaxSeq
  BY DEF TypeOK
<1>1. ASSUME NEW n \in 1 .. Len(inbound), AddChunks(n) PROVE NonceInv'
  BY <1>1 DEF AddChunks, NonceInv, serverVars
<1>2. ASSUME Fail, UNCHANGED <<inbound, serverVars>> PROVE NonceInv'
  BY <1>2 DEF Fail, NonceInv, serverVars
<1>3. ASSUME PollAwaitingServerHello PROVE NonceInv'
  <2> DEFINE hello == First(decoder.data, HelloLength)
             login == [type |-> "Login",
                       data |-> Nonce(CCK, 1), extensions |-> Nonce(CCK, 2),
                       repeated |-> hello[1].message.sck,
                       vouch |-> [key |-> hello[1].message.key,
                                  sck |-> hello[1].message.sck]]
  <2>1. CASE Fail
    BY <1>2, <1>3, <2>1 DEF PollAwaitingServerHello
  <2>2. CASE ~Fail
    <3>1. /\ Authentic(hello)
          /\ state' = "AwaitingLoginAck"
          /\ csn' = 3
          /\ sealed' = <<Nonce(CCK, 1), Nonce(CCK, 2)>>
          /\ up' = Append(up, login)
          /\ UNCHANGED serverVars
      BY <1>3, <2>2 DEF PollAwaitingServerHello
    <3>2. login.repeated # CCK
      BY <3>1 DEF Authentic
    <3> HIDE DEF login
    <3>3. \A i \in 1 .. Len(up') : up'[i].type = "Login" => up'[i].repeated # CCK
      <4>1. Len(up') = Len(up) + 1
        BY <1>t, <3>1
      <4>2. \A i \in 1 .. Len(up') : up'[i] = IF i <= Len(up) THEN up[i] ELSE login
        BY <1>t, <3>1
      <4>3. QED BY <1>t, <3>2, <4>1, <4>2 DEF NonceInv
    <3>4. /\ Len(sealed') = 2
          /\ \A i \in 1 .. Len(sealed') : sealed'[i] = Nonce(CCK, i)
      BY <3>1
    <3>5. QED BY <3>1, <3>3, <3>4 DEF NonceInv, serverVars
  <2>3. QED BY <2>1, <2>2
<1>4. ASSUME PollAwaitingLoginAck PROVE NonceInv'
  <2>1. CASE Fail
    BY <1>2, <1>4, <2>1 DEF PollAwaitingLoginAck
  <2>2. CASE ~Fail
    BY <1>4, <2>2 DEF PollAwaitingLoginAck, NonceInv, serverVars
  <2>3. QED BY <2>1, <2>2
<1>5. ASSUME PollPostHandshake PROVE NonceInv'
  <2>1. CASE Fail
    BY <1>2, <1>5, <2>1 DEF PollPostHandshake
  <2>2. CASE ~Fail
    BY <1>5, <2>2 DEF PollPostHandshake, NonceInv, serverVars
  <2>3. QED BY <2>1, <2>2
<1>6. ASSUME PollError PROVE NonceInv'
  BY <1>6 DEF PollError, protocolVars, serverVars, NonceInv
<1>7. ASSUME NEW payload \in Outgoing, CreatePayload(payload) PROVE NonceInv'
  <2>1. CASE state # "PostHandshake" \/ ~HasNext(csn)
    BY <1>7, <2>1 DEF CreatePayload, NonceInv, serverVars
  <2>2. CASE state = "PostHandshake" /\ HasNext(csn)
    <3>1. /\ csn' = csn + 1
          /\ sealed' = Append(sealed, Nonce(CCK, csn))
          /\ UNCHANGED <<state, serverVars>>
      BY <1>t, <1>7, <2>2 DEF CreatePayload, HasNext, Increment
    <3>2. Len(sealed) = csn - 1
      BY <2>2 DEF NonceInv
    <3>3. /\ Len(sealed') = csn
          /\ \A i \in 1 .. Len(sealed') : sealed'[i] = Nonce(CCK, i)
      BY <1>t, <3>1, <3>2 DEF NonceInv
    <3>4. \A i \in 1 .. Len(up') : up'[i].type = "Login" => up'[i].repeated # CCK
      <4> DEFINE box == Payload(Nonce(CCK, csn), payload)
      <4>1. up' = up \/ up' = Append(up, box)
        BY <1>7, <2>2 DEF CreatePayload
      <4>2. box.type # "Login"
        BY DEF Payload
      <4> HIDE DEF box
      <4>3. CASE up' = up
        BY <4>3 DEF NonceInv
      <4>4. CASE up' = Append(up, box)
        <5>1. Len(up') = Len(up) + 1
          BY <1>t, <4>4
        <5>2. \A i \in 1 .. Len(up') : up'[i] = IF i <= Len(up) THEN up[i] ELSE box
          BY <1>t, <4>4
        <5>3. QED BY <1>t, <4>2, <5>1, <5>2 DEF NonceInv
      <4>5. QED BY <4>1, <4>3, <4>4
    <3>5. csn' - 1 = csn
      BY <1>t, <3>1
    <3>6. QED BY <2>2, <3>1, <3>3, <3>4, <3>5 DEF NonceInv, serverVars
  <2>3. QED BY <2>1, <2>2
<1>8. ASSUME NEW key \in Keys, NEW cookie \in Cookies, NEW repeated \in Cookies,
             SrvHello(key, cookie, repeated)
      PROVE NonceInv'
  <2>1. server'.state = "AwaitingLogin" /\ srvSealed' = {}
    BY <1>t, <1>8 DEF SrvHello, NonceInv, Servers
  <2>2. up' = Tail(up) /\ up # <<>>
    BY <1>8 DEF SrvHello
  <2>3. QED BY <1>8, <2>1, <2>2, TailOfLogins DEF SrvHello, NonceInv, protocolVars
<1>9. ASSUME SrvLogin PROVE NonceInv'
  <2>1. up' = Tail(up) /\ up # <<>> /\ UNCHANGED protocolVars /\ srvSealed = {}
    BY <1>9 DEF SrvLogin, NonceInv
  <2>2. CASE server' = [server EXCEPT !.state = "Closed"] /\ UNCHANGED <<inbound, srvSealed>>
    BY <1>t, <2>1, <2>2, TailOfLogins DEF NonceInv, protocolVars, Servers
  <2>3. CASE /\ Head(up).type = "Login"
             /\ Head(up).repeated = server.sck
             /\ srvSealed' = srvSealed \cup {Nonce(server.sck, 2)}
             /\ server' = [server EXCEPT !.state = "Connected", !.csn = 3, !.ssn = 3]
    <3>1. Head(up).repeated # CCK
      BY <1>t, <2>1, <2>3 DEF NonceInv
    <3>2. server'.sck = server.sck /\ server'.state = "Connected"
      BY <1>t, <2>3 DEF Servers
    <3>3. \A n \in srvSealed' : n.cookie = server'.sck
      BY <2>1, <2>3, <3>2 DEF Nonce
    <3>4. QED BY <2>1, <2>3, <3>1, <3>2, <3>3, TailOfLogins DEF NonceInv, protocolVars
  <2>4. QED BY <1>9, <2>2, <2>3 DEF SrvLogin
<1>10. ASSUME NEW payload \in Incoming, SrvSend(payload) PROVE NonceInv'
  <2>1. server'.sck = server.sck /\ server'.state = "Connected" /\ server.state = "Connected"
    BY <1>t, <1>10 DEF SrvSend, Servers
  <2>2. \A n \in srvSealed' : n.cookie = server.sck
    BY <1>10 DEF SrvSend, Nonce, NonceInv
  <2>3. QED BY <1>10, <2>1, <2>2 DEF SrvSend, NonceInv, protocolVars
<1>11. ASSUME NEW payload \in Incoming, SrvRepeat(payload) PROVE NonceInv'
  BY <1>t, <1>11 DEF SrvRepeat, NonceInv, protocolVars, Servers
<1>12. ASSUME SrvReceive PROVE NonceInv'
  <2>1. up' = Tail(up) /\ up # <<>> /\ UNCHANGED <<protocolVars, srvSealed>>
    BY <1>12 DEF SrvReceive
  <2>2. server'.sck = server.sck /\ server'.state \in {"Connected", "Closed"}
        /\ server.state = "Connected"
    BY <1>t, <1>12 DEF SrvReceive, Servers
  <2>3. QED BY <2>1, <2>2, TailOfLogins DEF NonceInv, protocolVars
<1>13. ASSUME SrvClose PROVE NonceInv'
  BY <1>t, <1>13 DEF SrvClose, NonceInv, protocolVars, Servers
<1>14. ASSUME UNCHANGED vars PROVE NonceInv'
  BY <1>14 DEF vars, protocolVars, serverVars, NonceInv
<1>15. QED
  BY <1>1, <1>3, <1>4, <1>5, <1>6, <1>7, <1>8, <1>9, <1>10, <1>11, <1>12, <1>13, <1>14
     DEF Next, Poll

\* No nonce is used for two boxes under the session key, by any caller, for any
\* width of the sequence numbers (SessionCipher, get_and_increment).
THEOREM NoncesUnique == Spec => []NonceUnique
<1>1. Init => NonceInv
  BY DEF Init, NonceInv
<1>2. TypeOK /\ NonceInv => NonceUnique
  <2> SUFFICES ASSUME TypeOK, NonceInv PROVE NonceUnique
    OBVIOUS
  <2>0. \A i \in 1 .. Len(sealed) : sealed[i].cookie = CCK /\ sealed[i].seq = i
    <3> TAKE i \in 1 .. Len(sealed)
    <3>1. sealed[i] = [cookie |-> CCK, seq |-> i]
      BY DEF NonceInv, Nonce
    <3>2. QED BY <3>1
  <2>1. \A i, j \in 1 .. Len(sealed) : i # j => sealed[i] # sealed[j]
    BY <2>0
  <2>2. \A i \in 1 .. Len(sealed) : sealed[i] \notin srvSealed
    BY <2>0 DEF NonceInv
  <2>3. QED BY <2>1, <2>2 DEF NonceUnique
<1>3. QED BY <1>1, <1>2, NonceStep, TypeCorrect, PTL DEF Spec

\* The error state is never left, and nothing is sealed, handed out or accepted
\* in it (poll, create_payload).
THEOREM ErrorStaysFinal == Spec => ErrorIsFinal
<1>1. [Next]_vars =>
          [state = "Error" => /\ state' = "Error"
                              /\ UNCHANGED <<delivered, accepted, sealed, csn, ssn>>]_vars
  BY DEF Next, Poll, vars, AddChunks, PollAwaitingServerHello, PollAwaitingLoginAck,
         PollPostHandshake, PollError, CreatePayload, SrvHello, SrvLogin, SrvSend, SrvRepeat,
         SrvReceive, SrvClose, protocolVars, callerVars, serverVars
<1>2. QED BY <1>1, PTL DEF Spec, ErrorIsFinal
-----------------------------------------------------------------------------
(* The login                                                               *)
(*                                                                         *)
(* A server says hello once, so every hello the client may find, be it on  *)
(* the stream or buffered in front of its decoder, names the key and the   *)
(* cookie the server has chosen for the session.                           *)

OwnUnits ==
    {u \in Units : u.message.type = "ServerHello" =>
                       u.message.key = server.key /\ u.message.sck = server.sck}

LoginInv ==
    /\ inbound \in Seq(OwnUnits)
    /\ decoder.data \in Seq(OwnUnits)
    /\ server.state = "AwaitingClientHello" =>
           inbound = <<>> /\ decoder.data = <<>> /\ sealed = <<>>
    /\ state \in {"AwaitingLoginAck", "PostHandshake"} => sealed # <<>>
    /\ LoginOnlyToKnownServer

\* A prefix and the rest of a sequence are made of its elements (frame.rs, drain).
LEMMA PartsType ==
    ASSUME NEW S, NEW s \in Seq(S), NEW n \in Nat
    PROVE  /\ n <= Len(s) => First(s, n) \in Seq(S)
           /\ Drain(s, n) \in Seq(S)
<1>1. ASSUME n <= Len(s) PROVE First(s, n) \in Seq(S)
  BY <1>1 DEF First
<1>2. Drain(s, n) \in Seq(S)
  BY DEF Drain
<1>3. QED BY <1>1, <1>2

\* Polling a decoder leaves some of what it has buffered.
LEMMA AfterNextParts ==
    ASSUME NEW S, NEW d \in Decoders, d.data \in Seq(S)
    PROVE  AfterNext(d).data \in Seq(S)
<1>1. TakeDelimiter(d) \in Decoders
  BY TakeDelimiterType
<1>2. TakeDelimiter(d).data \in Seq(S)
  <2>1. Drain(d.data, DelimiterLength) \in Seq(S)
    BY CspAssumption, PartsType
  <2>2. QED BY <2>1 DEF TakeDelimiter
<1>3. Drain(TakeDelimiter(d).data, TakeDelimiter(d).length) \in Seq(S)
  BY <1>1, <1>2, PartsType DEF Decoders
<1>4. QED BY <1>2, <1>3 DEF AfterNext, NewDecoder

\* What the server sends names no other key or cookie than its own.
LEMMA EncodedOwn ==
    ASSUME NEW message \in ServerMessages,
           message.type = "ServerHello" =>
               message.key = server.key /\ message.sck = server.sck
    PROVE  Encoded(message) \in Seq(OwnUnits)
<1>1. Encoded(message) \in Seq(Units)
  BY EncodedType
<1>2. LengthOf(message) \in Nat /\ DelimiterLength \in Nat
  BY CspAssumption DEF LengthOf
<1>3. \A i \in 1 .. LengthOf(message) : Unit(message, DelimiterLength + i, 0) \in OwnUnits
  BY <1>2 DEF Unit, Units, OwnUnits
<1>4. \A i \in 1 .. DelimiterLength : Unit(message, i, LengthOf(message)) \in OwnUnits
  BY <1>2 DEF Unit, Units, OwnUnits
<1>5. Body(message) \in Seq(OwnUnits)
  BY <1>2, <1>3 DEF Body
<1>6. Delimiter(message) \in Seq(OwnUnits)
  BY <1>2, <1>4 DEF Delimiter
<1>7. QED BY <1>5, <1>6 DEF Encoded

\* What is on the stream stays so as long as the server keeps its key and cookie.
LEMMA OwnUnitsKept ==
    ASSUME server'.key = server.key, server'.sck = server.sck
    PROVE  OwnUnits' = OwnUnits
BY DEF OwnUnits

LEMMA LoginStep == TypeOK /\ LoginInv /\ [Next]_vars => LoginInv'
<1> SUFFICES ASSUME TypeOK, LoginInv, [Next]_vars PROVE LoginInv'
  OBVIOUS
<1> USE CspAssumption
<1>t. /\ server \in Servers /\ decoder \in Decoders /\ inbound \in Seq(Units)
      /\ sealed \in Seq(Nonces) /\ csn \in 1 .. MaxSeq
  BY DEF TypeOK
<1>u. inbound \in Seq(OwnUnits) /\ decoder.data \in Seq(OwnUnits)
  BY DEF LoginInv
<1>1. ASSUME NEW n \in 1 .. Len(inbound), AddChunks(n) PROVE LoginInv'
  <2>1. UNCHANGED <<state, sck, sealed, server>> /\ server.state # "AwaitingClientHello"
    BY <1>1 DEF AddChunks, serverVars, LoginInv
  <2>2. First(inbound, n) \in Seq(OwnUnits) /\ inbound' \in Seq(OwnUnits)
    BY <1>1, <1>u, PartsType DEF AddChunks
  <2>3. decoder'.data \in Seq(OwnUnits)
    <3>1. AddChunk(decoder, First(inbound, n)).data = decoder.data \o First(inbound, n)
      BY <1>t DEF AddChunk, Decoders
    <3>2. decoder.data \o First(inbound, n) \in Seq(OwnUnits)
      BY <1>u, <2>2
    <3>3. decoder' = decoder \/ decoder' = AddChunk(decoder, First(inbound, n))
      BY <1>1 DEF AddChunks
    <3>4. QED BY <1>u, <3>1, <3>2, <3>3
  <2>4. OwnUnits' = OwnUnits
    BY <2>1, OwnUnitsKept
  <2>5. QED BY <2>1, <2>2, <2>3, <2>4 DEF LoginInv, LoginOnlyToKnownServer
<1>2. ASSUME Fail, UNCHANGED <<inbound, serverVars>> PROVE LoginInv'
  <2>1. OwnUnits' = OwnUnits
    BY <1>2, OwnUnitsKept DEF serverVars
  <2>2. QED BY <1>2, <1>u, <2>1 DEF Fail, LoginInv, LoginOnlyToKnownServer, serverVars
<1>3. ASSUME PollAwaitingServerHello PROVE LoginInv'
  <2> DEFINE hello == First(decoder.data, HelloLength)
  <2>1. CASE Fail
    BY <1>2, <1>3, <2>1 DEF PollAwaitingServerHello
  <2>2. CASE ~Fail
    <3>1. /\ Authentic(hello)
          /\ state' = "AwaitingLoginAck"
          /\ decoder' = NextDecoder(HelloLength)
          /\ sck' = hello[1].message.sck
          /\ sealed' = <<Nonce(CCK, 1), Nonce(CCK, 2)>>
          /\ UNCHANGED <<inbound, server>>
      BY <1>3, <2>2 DEF PollAwaitingServerHello, serverVars
    <3>2. hello \in Seq(OwnUnits) /\ hello # <<>>
      BY <1>u, <1>3, <3>1, PartsType
         DEF PollAwaitingServerHello, FixedHasFrame, Authentic, Intact
    <3>3. hello[1] \in OwnUnits
      BY <3>2, ElementOfSeq
    <3>4. server.key \in PermanentKeys /\ sck' = server.sck
      BY <3>1, <3>3 DEF Authentic, Intact, OwnUnits
    <3>5. server.state # "AwaitingClientHello"
      <4>1. FixedHasFrame(decoder.data, HelloLength)
        BY <1>3 DEF PollAwaitingServerHello
      <4>2. decoder.data # <<>>
        BY <1>u, <4>1 DEF FixedHasFrame
      <4>3. QED BY <4>2 DEF LoginInv
    <3>6. decoder'.data \in Seq(OwnUnits)
      BY <1>u, <3>1, PartsType DEF NextDecoder, NewDecoder
    <3>7. OwnUnits' = OwnUnits
      BY <3>1, OwnUnitsKept
    <3>8. QED BY <1>u, <3>1, <3>4, <3>5, <3>6, <3>7 DEF LoginInv, LoginOnlyToKnownServer
  <2>3. QED BY <2>1, <2>2
<1>4. ASSUME PollAwaitingLoginAck PROVE LoginInv'
  <2>1. CASE Fail
    BY <1>2, <1>4, <2>1 DEF PollAwaitingLoginAck
  <2>2. CASE ~Fail
    <3>1. /\ decoder' = NextDecoder(LoginAckLength)
          /\ state = "AwaitingLoginAck" /\ state' = "PostHandshake"
          /\ UNCHANGED <<sck, sealed, inbound, server>>
      BY <1>4, <2>2 DEF PollAwaitingLoginAck, serverVars
    <3>2. decoder'.data \in Seq(OwnUnits)
      BY <1>u, <3>1, PartsType DEF NextDecoder, NewDecoder
    <3>3. OwnUnits' = OwnUnits
      BY <3>1, OwnUnitsKept
    <3>4. QED BY <1>u, <3>1, <3>2, <3>3 DEF LoginInv, LoginOnlyToKnownServer
  <2>3. QED BY <2>1, <2>2
<1>5. ASSUME PollPostHandshake PROVE LoginInv'
  <2>1. CASE Fail
    BY <1>2, <1>5, <2>1 DEF PollPostHandshake
  <2>2. CASE ~Fail
    <3>1. /\ decoder' = AfterNext(decoder)
          /\ state = "PostHandshake"
          /\ UNCHANGED <<state, sck, sealed, inbound, server>>
      BY <1>5, <2>2 DEF PollPostHandshake, serverVars
    <3>2. decoder'.data \in Seq(OwnUnits)
      BY <1>t, <1>u, <3>1, AfterNextParts
    <3>3. OwnUnits' = OwnUnits
      BY <3>1, OwnUnitsKept
    <3>4. QED BY <1>u, <3>1, <3>2, <3>3 DEF LoginInv, LoginOnlyToKnownServer
  <2>3. QED BY <2>1, <2>2
<1>6. ASSUME UNCHANGED <<protocolVars, inbound, server>> PROVE LoginInv'
  <2>1. OwnUnits' = OwnUnits
    BY <1>6, OwnUnitsKept
  <2>2. QED BY <1>6, <1>u, <2>1 DEF protocolVars, LoginInv, LoginOnlyToKnownServer
<1>7. ASSUME NEW payload \in Outgoing, CreatePayload(payload) PROVE LoginInv'
  <2>1. UNCHANGED <<state, decoder, sck, inbound, server>>
    BY <1>7 DEF CreatePayload, serverVars
  <2>2. OwnUnits' = OwnUnits
    BY <2>1, OwnUnitsKept
  <2>3. sealed' = sealed \/ (sealed # <<>> /\ sealed' # <<>>)
    <3>1. sealed' = sealed \/ (state = "PostHandshake" /\ sealed' = Append(sealed, Nonce(CCK, csn)))
      BY <1>7 DEF CreatePayload
    <3>2. Append(sealed, Nonce(CCK, csn)) # <<>>
      BY <1>t
    <3>3. QED BY <3>1, <3>2 DEF LoginInv
  <2>4. QED BY <1>u, <2>1, <2>2, <2>3 DEF LoginInv, LoginOnlyToKnownServer
<1>8. ASSUME NEW key \in Keys, NEW cookie \in Cookies, NEW repeated \in Cookies,
             SrvHello(key, cookie, repeated)
      PROVE LoginInv'
  <2> DEFINE hello == ServerHello(key, cookie, repeated)
  <2>1. /\ inbound = <<>> /\ decoder.data = <<>> /\ sealed = <<>>
        /\ inbound' = inbound \o Encoded(hello)
        /\ UNCHANGED <<state, decoder, sck, sealed>>
        /\ HasNext(1)
    BY <1>8 DEF SrvHello, LoginInv, Send, protocolVars
  <2>2. server'.key = key /\ server'.sck = cookie /\ server'.state = "AwaitingLogin"
    BY <1>t, <1>8 DEF SrvHello, Servers
  <2>3. hello \in ServerMessages
    BY <2>1 DEF ServerHello, ServerMessages, Nonce, Nonces, HasNext
  <2>4. Encoded(hello) \in Seq(OwnUnits')
    <3> DEFINE Own == {u \in Units : u.message.type = "ServerHello" =>
                                         u.message.key = key /\ u.message.sck = cookie}
    <3>1. OwnUnits' = Own
      BY <2>2 DEF OwnUnits
    <3>2. hello.type = "ServerHello" /\ hello.key = key /\ hello.sck = cookie
      BY DEF ServerHello
    <3>3. Encoded(hello) = Body(hello)
      BY <3>2 DEF Encoded
    <3>4. LengthOf(hello) = HelloLength
      BY <3>2 DEF LengthOf
    <3> HIDE DEF hello
    <3>5. \A i \in 1 .. HelloLength : Unit(hello, DelimiterLength + i, 0) \in Own
      BY <2>3, <3>2 DEF Unit, Units
    <3> HIDE DEF Own
    <3>6. Body(hello) \in Seq(Own)
      BY <3>4, <3>5 DEF Body
    <3>7. QED BY <3>1, <3>3, <3>6
  <2>5. inbound' \in Seq(OwnUnits') /\ decoder'.data \in Seq(OwnUnits')
    <3> HIDE DEF hello
    <3>1. <<>> \in Seq(OwnUnits')
      BY EmptySeq
    <3>2. <<>> \o Encoded(hello) = Encoded(hello)
      BY <2>4
    <3>3. QED BY <2>1, <2>4, <3>1, <3>2
  <2>6. QED BY <2>1, <2>2, <2>5 DEF LoginInv, LoginOnlyToKnownServer
<1>9. ASSUME UNCHANGED protocolVars, server.state # "AwaitingClientHello",
             server'.key = server.key, server'.sck = server.sck,
             server'.state # "AwaitingClientHello",
             \/ inbound' = inbound
             \/ \E message \in ServerMessages : message.type # "ServerHello" /\ Send(message)
      PROVE LoginInv'
  <2>1. OwnUnits' = OwnUnits
    BY <1>9, OwnUnitsKept
  <2>2. inbound' \in Seq(OwnUnits)
    <3>1. CASE inbound' = inbound
      BY <1>u, <3>1
    <3>2. ASSUME NEW message \in ServerMessages, message.type # "ServerHello", Send(message)
          PROVE inbound' \in Seq(OwnUnits)
      BY <1>u, <3>2, EncodedOwn DEF Send
    <3>3. QED BY <1>9, <3>1, <3>2
  <2>3. QED BY <1>u, <1>9, <2>1, <2>2 DEF protocolVars, LoginInv, LoginOnlyToKnownServer
<1>10. ASSUME SrvLogin PROVE LoginInv'
  <2>1. UNCHANGED protocolVars /\ server.state # "AwaitingClientHello"
    BY <1>10 DEF SrvLogin
  <2>2. CASE server' = [server EXCEPT !.state = "Closed"] /\ UNCHANGED inbound
    BY <1>t, <1>9, <2>1, <2>2 DEF Servers
  <2>3. CASE /\ Send(LoginAck(Nonce(server.sck, 2)))
             /\ HasNext(2)
             /\ Head(up).repeated = server.sck
             /\ Head(up).type = "Login"
             /\ server' = [server EXCEPT !.state = "Connected", !.csn = 3, !.ssn = 3]
    <3>1. server.sck \in Cookies
      <4>1. up \in Seq(ClientFrames) /\ up # <<>>
        BY <1>10 DEF SrvLogin, TypeOK
      <4>2. Head(up) \in ClientFrames
        BY <4>1
      <4>3. QED BY <2>3, <4>2 DEF ClientFrames
    <3>2. LoginAck(Nonce(server.sck, 2)) \in ServerMessages
      BY <2>3, <3>1 DEF LoginAck, ServerMessages, Nonce, Nonces, HasNext
    <3>3. LoginAck(Nonce(server.sck, 2)).type # "ServerHello"
      BY DEF LoginAck
    <3>4. server'.key = server.key /\ server'.sck = server.sck /\ server'.state = "Connected"
      BY <1>t, <2>3 DEF Servers
    <3>5. QED BY <1>9, <2>1, <2>3, <3>2, <3>3, <3>4
  <2>4. QED BY <1>10, <2>2, <2>3 DEF SrvLogin
<1>11. ASSUME NEW payload \in Incoming, SrvSend(payload) PROVE LoginInv'
  <2>1. /\ UNCHANGED protocolVars /\ server.state = "Connected" /\ HasNext(server.ssn)
        /\ Send(Payload(Nonce(server.sck, server.ssn), payload))
        /\ server' = [server EXCEPT !.ssn = @ + 1]
    BY <1>11 DEF SrvSend
  <2>2. server.sck \in Cookies /\ server.ssn \in 3 .. MaxSeq
    BY <2>1 DEF TypeOK
  <2>3. Payload(Nonce(server.sck, server.ssn), payload) \in ServerMessages
    BY <2>2 DEF Payload, ServerMessages, Nonce, Nonces
  <2>4. Payload(Nonce(server.sck, server.ssn), payload).type # "ServerHello"
    BY DEF Payload
  <2>5. server'.key = server.key /\ server'.sck = server.sck /\ server'.state = "Connected"
    BY <1>t, <2>1 DEF Servers
  <2>6. QED BY <1>9, <2>1, <2>3, <2>4, <2>5
<1>12. ASSUME NEW payload \in Incoming, SrvRepeat(payload) PROVE LoginInv'
  <2>1. /\ UNCHANGED protocolVars /\ server.state = "Connected"
        /\ Send(Payload(Nonce(server.sck, server.ssn - 1), payload))
        /\ server' = [server EXCEPT !.honest = FALSE]
    BY <1>12 DEF SrvRepeat
  <2>2. server.sck \in Cookies /\ server.ssn \in 3 .. MaxSeq
    BY <2>1 DEF TypeOK
  <2>3. Payload(Nonce(server.sck, server.ssn - 1), payload) \in ServerMessages
    BY <2>2 DEF Payload, ServerMessages, Nonce, Nonces
  <2>4. Payload(Nonce(server.sck, server.ssn - 1), payload).type # "ServerHello"
    BY DEF Payload
  <2>5. server'.key = server.key /\ server'.sck = server.sck /\ server'.state = "Connected"
    BY <1>t, <2>1 DEF Servers
  <2>6. QED BY <1>9, <2>1, <2>3, <2>4, <2>5
<1>13. ASSUME SrvReceive PROVE LoginInv'
  <2>1. UNCHANGED protocolVars /\ server.state = "Connected" /\ inbound' = inbound
    BY <1>13 DEF SrvReceive
  <2>2. server'.key = server.key /\ server'.sck = server.sck
        /\ server'.state \in {"Connected", "Closed"}
    BY <1>t, <1>13 DEF SrvReceive, Servers
  <2>3. QED BY <1>9, <2>1, <2>2
<1>14. ASSUME SrvClose PROVE LoginInv'
  <2>1. UNCHANGED <<protocolVars, inbound>> /\ server' = [server EXCEPT !.state = "Closed"]
    BY <1>14 DEF SrvClose
  <2>2. server'.key = server.key /\ server'.sck = server.sck /\ server'.state = "Closed"
    BY <1>t, <2>1 DEF Servers
  <2>3. OwnUnits' = OwnUnits
    BY <2>2, OwnUnitsKept
  <2>4. QED BY <1>u, <2>1, <2>2, <2>3 DEF protocolVars, LoginInv, LoginOnlyToKnownServer
<1>15. CASE PollError
  BY <1>6, <1>15 DEF PollError, serverVars
<1>16. CASE UNCHANGED vars
  BY <1>6, <1>16 DEF vars, serverVars
<1>17. QED
  BY <1>1, <1>3, <1>4, <1>5, <1>7, <1>8, <1>10, <1>11, <1>12, <1>13, <1>14, <1>15, <1>16
     DEF Next, Poll

\* The login data, and whatever else the client seals, is only made for the server
\* it is connected to, once that has shown a permanent key (csp/mod.rs,
\* handle_server_hello).
THEOREM LoginsToKnownServer == Spec => []LoginOnlyToKnownServer
<1>1. Init => LoginInv
  BY EmptySeq DEF Init, NewDecoder, LoginInv, LoginOnlyToKnownServer
<1>2. LoginInv => LoginOnlyToKnownServer
  BY DEF LoginInv
<1>3. QED BY <1>1, <1>2, LoginStep, TypeCorrect, PTL DEF Spec

-----------------------------------------------------------------------------
(* The server's stream                                                     *)

\* The n-th message of a server that follows the protocol, and its units.
SentMessage(n) ==
    IF n = 1 THEN ServerHello(server.key, server.sck, CCK)
    ELSE IF n = 2 THEN LoginAck(Nonce(server.sck, 2))
    ELSE Payload(Nonce(server.sck, n), srvSent[n - 2])

Size(n) ==
    IF n = 1 THEN HelloLength
    ELSE IF n = 2 THEN LoginAckLength
    ELSE DelimiterLength + PayloadLength

\* The units in front of the n-th message.
Before(n) ==
    IF n = 1 THEN 0
    ELSE IF n = 2 THEN HelloLength
    ELSE HelloLength + LoginAckLength + (n - 3) * (DelimiterLength + PayloadLength)

\* What the client has not read yet, and how much it has read.
Unread == decoder.data \o inbound

Read ==
    Before(ssn) + (IF state = "PostHandshake" /\ decoder.state = "PartialFrame"
                   THEN DelimiterLength ELSE 0)

\* A place behind what is read is a position of the unread units.
Ahead(n, i) == Before(n) + i > Read
Position(n, i) == Before(n) + i - Read

\* The first L messages are what the server sent, as far as they are unread.
Genuine(L) ==
    \A n \in 1 .. L : \A i \in 1 .. Size(n) : Ahead(n, i) =>
        /\ Position(n, i) <= Len(Unread)
        /\ Unread[Position(n, i)] = Encoded(SentMessage(n))[i]

\* Behind them comes a box with the nonce of the last of them.
Repeated(L) ==
    \A i \in 1 .. Size(L + 1) : Ahead(L + 1, i) =>
        /\ Position(L + 1, i) <= Len(Unread)
        /\ Unread[Position(L + 1, i)].message.nonce.seq = L

\* The client is within the L messages the server sent before it repeated one.
Following(L) ==
    /\ ssn <= L + 1
    /\ L < server.ssn
    /\ Genuine(L)
    /\ (state = "PostHandshake" /\ decoder.state = "PartialFrame" /\ ssn <= L) =>
           decoder.length = PayloadLength
    /\ IF server.honest
       THEN L + 1 = server.ssn /\ Read + Len(Unread) = Before(L + 1)
       ELSE L >= 2 /\ Repeated(L)

\* The hello of a misbehaving server does not pass for an authentic one.
BadHello ==
    /\ ~server.honest
    /\ state = "AwaitingServerHello"
    /\ \A k \in 1 .. Len(Unread) :
           LET hello == Unread[k].message
           IN  hello.type = "ServerHello" =>
                   ~ /\ hello.key \in PermanentKeys
                     /\ hello.sck # CCK
                     /\ hello.repeated = CCK

Stream == state = "Error" \/ BadHello \/ \E L \in Nat : Following(L)

-----------------------------------------------------------------------------
(* The two ends                                                            *)

ServerPhase ==
    /\ server.state = "AwaitingClientHello" =>
           /\ server.honest /\ server.ssn = 1 /\ server.csn = 1
           /\ state = "AwaitingServerHello"
           /\ Len(up) <= 1
    /\ server.state = "AwaitingLogin" =>
           /\ server.ssn = 2
           /\ state # "PostHandshake"
           /\ Len(up) <= 1
           /\ state = "AwaitingServerHello" => up = <<>>
    /\ server.state = "Connected" => state # "AwaitingServerHello"
    /\ server.state \in {"AwaitingClientHello", "AwaitingLogin"} =>
           srvReceived = <<>> /\ accepted = <<>>
    /\ (server.honest /\ server.ssn >= 2) =>
           server.key \in PermanentKeys /\ server.sck \in Cookies \ {CCK}
    /\ Len(srvSent) = SaturatingSub(server.ssn, 3)

ClientPhase ==
    /\ state = "AwaitingServerHello" => ssn = 1
    /\ state = "AwaitingLoginAck" => ssn = 2 /\ csn = 3
    /\ state = "PostHandshake" => ssn >= 3
    /\ state = "Error" => failed
    /\ Len(delivered) = SaturatingSub(ssn, 3)

\* What is on its way up is what the server has not received of the payloads
\* accepted, and until a call fails nothing is missing between their nonces.
Upward ==
    server.state = "Connected" =>
        /\ Len(accepted) = Len(srvReceived) + Len(up)
        /\ \A i \in 1 .. Len(srvReceived) : accepted[i] = srvReceived[i]
        /\ \A i \in 1 .. Len(up) :
               up[i].type = "Payload" /\ accepted[Len(srvReceived) + i] = up[i].payload
        /\ (~failed /\ state \in {"AwaitingLoginAck", "PostHandshake"}) =>
               /\ csn = server.csn + Len(up)
               /\ \A i \in 1 .. Len(up) : up[i].nonce = Nonce(CCK, server.csn + i - 1)

\* The server has followed the protocol, and sent nothing that cannot be decoded.
FollowsProtocol ==
    server.honest /\ \A i \in 1 .. Len(srvSent) : srvSent[i] \notin Malformed

ChannelInv ==
    /\ ServerPhase
    /\ ClientPhase
    /\ Stream
    /\ Upward
    /\ NoSpuriousError

-----------------------------------------------------------------------------
(* Messages and their units                                                *)

\* The places of the messages follow each other.
LEMMA Places ==
    ASSUME NEW n \in Nat \ {0}
    PROVE  /\ Size(n) \in Nat \ {0}
           /\ Before(n) \in Nat
           /\ Before(n + 1) = Before(n) + Size(n)
<1> DEFINE F == DelimiterLength + PayloadLength
<1>1. F \in Nat \ {0}
  BY CspAssumption
<1>2. CASE n \in {1, 2}
  <2>1. (3 - 3) * F = 0
    BY <1>1
  <2>2. QED BY <1>2, <2>1, CspAssumption DEF Size, Before
<1>3. CASE n >= 3
  <2>1. PICK k \in Nat : n = k + 3
    <3>1. n - 3 \in Nat /\ n = (n - 3) + 3
      BY <1>3
    <3>2. QED BY <3>1
  <2>2. k * F \in Nat /\ (k + 1) * F = k * F + F
    BY <1>1
  <2>3. Before(n) = HelloLength + LoginAckLength + k * F
    BY <2>1, CspAssumption DEF Before
  <2>4. Before(n + 1) = HelloLength + LoginAckLength + (k + 1) * F
    <3>1. n + 1 # 1 /\ n + 1 # 2 /\ (n + 1) - 3 = k + 1
      BY <2>1
    <3>2. QED BY <3>1 DEF Before
  <2>5. Size(n) = F
    BY <1>3 DEF Size
  <2> HIDE DEF F
  <2>6. QED BY <1>1, <2>2, <2>3, <2>4, <2>5, CspAssumption
<1>4. QED BY <1>2, <1>3

\* The units of a payload: its delimiter, then its body (csp/payload.rs, encode).
LEMMA PayloadUnits ==
    ASSUME NEW message, message.type = "Payload"
    PROVE  /\ Encoded(message) = Delimiter(message) \o Body(message)
           /\ Len(Encoded(message)) = DelimiterLength + PayloadLength
           /\ \A i \in 1 .. DelimiterLength :
                  Encoded(message)[i] = Unit(message, i, PayloadLength)
           /\ \A i \in 1 .. PayloadLength :
                  Encoded(message)[DelimiterLength + i] = Body(message)[i]
<1>1. LengthOf(message) = PayloadLength
  BY DEF LengthOf
<1>2. DelimiterLength \in Nat /\ PayloadLength \in Nat
  BY CspAssumption
<1> DEFINE any == {Unit(message, i, l) : i \in Nat, l \in {0, PayloadLength}}
<1>3. Delimiter(message) \in Seq(any) /\ Len(Delimiter(message)) = DelimiterLength
  <2>1. Delimiter(message) = [i \in 1 .. DelimiterLength |-> Unit(message, i, PayloadLength)]
    BY <1>1 DEF Delimiter
  <2>2. \A i \in 1 .. DelimiterLength : Unit(message, i, PayloadLength) \in any
    OBVIOUS
  <2> HIDE DEF any
  <2>3. QED BY <1>2, <2>1, <2>2
<1>4. Body(message) \in Seq(any) /\ Len(Body(message)) = PayloadLength
  <2>1. Body(message) = [i \in 1 .. PayloadLength |-> Unit(message, DelimiterLength + i, 0)]
    BY <1>1 DEF Body
  <2>2. \A i \in 1 .. PayloadLength : Unit(message, DelimiterLength + i, 0) \in any
    BY <1>2
  <2> HIDE DEF any
  <2>3. QED BY <1>2, <2>1, <2>2
<1> HIDE DEF any
<1>5. Encoded(message) = Delimiter(message) \o Body(message)
  BY DEF Encoded
<1>6. \A i \in 1 .. DelimiterLength : Delimiter(message)[i] = Unit(message, i, PayloadLength)
  BY <1>1 DEF Delimiter
<1>7. Len(Encoded(message)) = DelimiterLength + PayloadLength
  BY <1>2, <1>3, <1>4, <1>5
<1>8. ASSUME NEW i \in 1 .. DelimiterLength
      PROVE  Encoded(message)[i] = Unit(message, i, PayloadLength)
  <2>1. (Delimiter(message) \o Body(message))[i] = Delimiter(message)[i]
    BY <1>2, <1>3, <1>4
  <2>2. QED BY <1>5, <1>6, <2>1
<1>9. ASSUME NEW i \in 1 .. PayloadLength
      PROVE  Encoded(message)[DelimiterLength + i] = Body(message)[i]
  <2>1. (Delimiter(message) \o Body(message))[DelimiterLength + i] = Body(message)[i]
    BY <1>2, <1>3, <1>4
  <2>2. QED BY <1>5, <2>1
<1>10. QED BY <1>5, <1>7, <1>8, <1>9

LEMMA BodyUnits ==
    ASSUME NEW message
    PROVE  /\ Len(Body(message)) = LengthOf(message)
           /\ \A i \in 1 .. LengthOf(message) :
                  Body(message)[i] = Unit(message, DelimiterLength + i, 0)
           /\ DOMAIN Body(message) = 1 .. LengthOf(message)
<1>1. LengthOf(message) \in Nat
  BY CspAssumption DEF LengthOf
<1>2. QED BY <1>1 DEF Body

\* Every message of the server has the size its number says; the two of the
\* handshake have no delimiter.
LEMMA MessageForms ==
    ASSUME NEW n \in Nat \ {0}
    PROVE  /\ Len(Encoded(SentMessage(n))) = Size(n)
           /\ n \in {1, 2} => /\ Encoded(SentMessage(n)) = Body(SentMessage(n))
                              /\ LengthOf(SentMessage(n)) = Size(n)
           /\ n >= 3 => SentMessage(n).type = "Payload"
<1>1. CASE n = 1
  <2>1. SentMessage(n).type = "ServerHello"
    BY <1>1 DEF SentMessage, ServerHello
  <2>2. Encoded(SentMessage(n)) = Body(SentMessage(n)) /\ LengthOf(SentMessage(n)) = Size(n)
    BY <1>1, <2>1 DEF Encoded, LengthOf, Size
  <2>3. QED BY <1>1, <2>2, BodyUnits
<1>2. CASE n = 2
  <2>1. SentMessage(n).type = "LoginAck"
    BY <1>2 DEF SentMessage, LoginAck
  <2>2. Encoded(SentMessage(n)) = Body(SentMessage(n)) /\ LengthOf(SentMessage(n)) = Size(n)
    BY <1>2, <2>1 DEF Encoded, LengthOf, Size
  <2>3. QED BY <1>2, <2>2, BodyUnits
<1>3. CASE n >= 3
  <2>1. SentMessage(n).type = "Payload"
    BY <1>3 DEF SentMessage, Payload
  <2>2. Len(Encoded(SentMessage(n))) = DelimiterLength + PayloadLength
    BY <2>1, PayloadUnits
  <2>3. QED BY <1>3, <2>1, <2>2 DEF Size
<1>4. QED BY <1>1, <1>2, <1>3

LEMMA MessageSize == \A n \in Nat \ {0} : Len(Encoded(SentMessage(n))) = Size(n)
BY MessageForms

-----------------------------------------------------------------------------
(* How a step changes what is unread                                       *)

LEMMA ReadType ==
    ASSUME TypeOK
    PROVE  /\ Read \in Nat /\ Before(ssn) \in Nat
           /\ Read = Before(ssn) \/ Read = Before(ssn) + DelimiterLength
           /\ Unread \in Seq(Units) /\ decoder.data \in Seq(Units) /\ inbound \in Seq(Units)
           /\ Len(Unread) = Len(decoder.data) + Len(inbound)
           /\ \A k \in 1 .. Len(decoder.data) : Unread[k] = decoder.data[k]
<1>1. ssn \in Nat \ {0}
  BY CspAssumption DEF TypeOK
<1>2. Before(ssn) \in Nat
  BY <1>1, Places
<1>3. DelimiterLength \in Nat
  BY CspAssumption
<1>4. decoder.data \in Seq(Units) /\ inbound \in Seq(Units)
  BY DEF TypeOK, Decoders
<1>5. QED BY <1>2, <1>3, <1>4 DEF Read, Unread

\* The client reads c units, or the server appends some, or neither: the stream
\* behind the place read to stays what the server sent.
LEMMA StreamKept ==
    ASSUME TypeOK, NEW c \in Nat, NEW L \in Nat,
           Read' = Read + c,
           Len(Unread') \in Nat, Len(Unread') >= Len(Unread) - c,
           \A k \in 1 .. Len(Unread) : k > c => Unread'[k - c] = Unread[k],
           \A n \in 1 .. L : SentMessage(n)' = SentMessage(n)
    PROVE  /\ Genuine(L) => Genuine(L)'
           /\ Repeated(L) => Repeated(L)'
<1>t. Read \in Nat /\ Len(Unread) \in Nat
  BY ReadType
<1>1. ASSUME NEW n \in Nat \ {0}, NEW i \in 1 .. Size(n), Ahead(n, i)'
      PROVE  /\ Ahead(n, i)
             /\ Position(n, i) <= Len(Unread) =>
                    /\ Position(n, i)' <= Len(Unread')
                    /\ Unread'[Position(n, i)'] = Unread[Position(n, i)]
  <2>1. Before(n) \in Nat /\ Size(n) \in Nat
    BY Places
  <2>2. Before(n)' = Before(n)
    BY DEF Before
  <2>3. Ahead(n, i)
    BY <1>t, <1>1, <2>1, <2>2 DEF Ahead
  <2>4. Position(n, i)' = Position(n, i) - c /\ Position(n, i) > c /\ Position(n, i) \in Nat
    BY <1>t, <1>1, <2>1, <2>2 DEF Ahead, Position
  <2>5. QED BY <1>t, <2>3, <2>4
<1>2. ASSUME Genuine(L) PROVE Genuine(L)'
  <2> SUFFICES ASSUME NEW n \in 1 .. L, NEW i \in 1 .. Size(n), Ahead(n, i)'
               PROVE  /\ Position(n, i)' <= Len(Unread')
                      /\ Unread'[Position(n, i)'] = Encoded(SentMessage(n)')[i]
    BY DEF Genuine, Size, Encoded, Body, Delimiter, LengthOf
  <2>1. n \in Nat \ {0}
    OBVIOUS
  <2>2. QED BY <1>1, <1>2, <2>1 DEF Genuine
<1>3. ASSUME Repeated(L) PROVE Repeated(L)'
  <2> SUFFICES ASSUME NEW i \in 1 .. Size(L + 1), Ahead(L + 1, i)'
               PROVE  /\ Position(L + 1, i)' <= Len(Unread')
                      /\ Unread'[Position(L + 1, i)'].message.nonce.seq = L
    BY DEF Repeated, Size
  <2>1. L + 1 \in Nat \ {0}
    OBVIOUS
  <2>2. QED BY <1>1, <1>3, <2>1 DEF Repeated
<1>4. QED BY <1>2, <1>3

-----------------------------------------------------------------------------
(* What a poll finds                                                       *)

\* A handshake message in the buffer is the one the server sent.
LEMMA HandshakeFrame ==
    ASSUME TypeOK, NEW L \in Nat, Following(L), ssn \in {1, 2}, state # "PostHandshake",
           Len(decoder.data) >= Size(ssn)
    PROVE  /\ ssn <= L
           /\ First(decoder.data, Size(ssn)) = Body(SentMessage(ssn))
           /\ Read = Before(ssn)
<1>t. /\ Read = Before(ssn) /\ Before(ssn) \in Nat
      /\ decoder.data \in Seq(Units) /\ Len(decoder.data) \in Nat
      /\ Len(Unread) \in Nat /\ Len(Unread) >= Len(decoder.data)
      /\ \A k \in 1 .. Len(decoder.data) : Unread[k] = decoder.data[k]
  BY ReadType DEF Read
<1>n. ssn \in Nat \ {0} /\ Size(ssn) \in Nat \ {0}
  <2>1. ssn \in Nat \ {0}
    OBVIOUS
  <2>2. QED BY <2>1, Places
<1>1. ssn <= L
  <2>1. CASE server.honest
    <3> SUFFICES ASSUME ssn = L + 1 PROVE FALSE
      BY <1>n DEF Following
    <3>1. Read + Len(Unread) = Before(ssn)
      BY <2>1 DEF Following
    <3>2. QED BY <1>t, <1>n, <3>1
  <2>2. CASE ~server.honest
    BY <2>2 DEF Following
  <2>3. QED BY <2>1, <2>2
<1>2. /\ Encoded(SentMessage(ssn)) = Body(SentMessage(ssn))
      /\ LengthOf(SentMessage(ssn)) = Size(ssn)
  BY <1>n, MessageForms
<1>3. ASSUME NEW i \in 1 .. Size(ssn)
      PROVE  decoder.data[i] = Body(SentMessage(ssn))[i]
  <2>1. Ahead(ssn, i) /\ Position(ssn, i) = i
    BY <1>t, <1>n DEF Ahead, Position
  <2>2. Unread[i] = Encoded(SentMessage(ssn))[i]
    BY <1>1, <1>n, <2>1 DEF Following, Genuine
  <2>3. Unread[i] = decoder.data[i]
    BY <1>t, <1>n
  <2>4. QED BY <1>2, <2>2, <2>3
<1>4. First(decoder.data, Size(ssn)) = [i \in 1 .. Size(ssn) |-> decoder.data[i]]
  BY <1>t, <1>n DEF First
<1>5. Body(SentMessage(ssn)) = [i \in 1 .. Size(ssn) |-> Body(SentMessage(ssn))[i]]
  BY <1>2 DEF Body
<1>6. QED BY <1>1, <1>3, <1>4, <1>5, <1>t

\* What next_frame_and_then leaves of the buffer without a frame, and with one.
LEMMA DecoderParts ==
    ASSUME TypeOK
    PROVE  LET d == TakeDelimiter(decoder)
               taken == IF decoder.state = "PartialDelimiter" /\ d.state = "PartialFrame"
                        THEN DelimiterLength ELSE 0
           IN  /\ taken \in 0 .. Len(decoder.data)
               /\ d.state \in {"PartialDelimiter", "PartialFrame"} /\ d.length \in Nat
               /\ d.data = Drain(decoder.data, taken)
               /\ decoder.state = "PartialFrame" => d = decoder
               /\ taken = DelimiterLength => d.length = decoder.data[1].length
               /\ HasFrame(decoder) => d.state = "PartialFrame" /\ Len(d.data) >= d.length
<1> DEFINE d == TakeDelimiter(decoder)
<1>t. /\ decoder \in Decoders /\ decoder.data \in Seq(Units)
      /\ DelimiterLength \in Nat \ {0}
      /\ decoder.state \in {"PartialDelimiter", "PartialFrame"}
  BY CspAssumption DEF TypeOK, Decoders
<1>1. d \in Decoders
  BY <1>t, TakeDelimiterType
<1>2. CASE decoder.state = "PartialDelimiter" /\ Len(decoder.data) >= DelimiterLength
  <2>1. /\ d.state = "PartialFrame"
        /\ d.length = First(decoder.data, DelimiterLength)[1].length
        /\ d.data = Drain(decoder.data, DelimiterLength)
    BY <1>2 DEF TakeDelimiter, DecodeDelimiter
  <2>2. First(decoder.data, DelimiterLength)[1] = decoder.data[1]
    BY <1>t, <1>2 DEF First
  <2>3. QED BY <1>t, <1>1, <1>2, <2>1, <2>2 DEF HasFrame, Decoders
<1>3. CASE ~(decoder.state = "PartialDelimiter" /\ Len(decoder.data) >= DelimiterLength)
  <2>1. d = decoder
    BY <1>3 DEF TakeDelimiter
  <2>2. Drain(decoder.data, 0) = decoder.data
    BY <1>t DEF Drain
  <2>3. QED BY <1>t, <1>1, <2>1, <2>2 DEF HasFrame, Decoders
<1>4. QED BY <1>2, <1>3

\* In the payload phase, with the next message sent by the server: its delimiter
\* says how long it is, and a complete frame holds it.
LEMMA PayloadFrame ==
    ASSUME TypeOK, NEW L \in Nat, Following(L), state = "PostHandshake",
           ssn \in 3 .. L
    PROVE  LET d == TakeDelimiter(decoder)
           IN  /\ d.state = "PartialFrame" => d.length = PayloadLength
               /\ HasFrame(decoder) => NextFrame(decoder) = Body(SentMessage(ssn))
<1> DEFINE d == TakeDelimiter(decoder)
           taken == IF decoder.state = "PartialDelimiter" /\ d.state = "PartialFrame"
                    THEN DelimiterLength ELSE 0
           m == SentMessage(ssn)
<1>t. /\ Read \in Nat /\ Before(ssn) \in Nat
      /\ decoder.data \in Seq(Units) /\ Len(decoder.data) \in Nat
      /\ Len(Unread) \in Nat /\ Len(Unread) >= Len(decoder.data)
      /\ \A k \in 1 .. Len(decoder.data) : Unread[k] = decoder.data[k]
  BY ReadType
<1>n. ssn \in 1 .. L /\ DelimiterLength \in Nat \ {0} /\ PayloadLength \in Nat \ {0}
  BY CspAssumption
<1>s. Size(ssn) = DelimiterLength + PayloadLength
  BY <1>n DEF Size
<1>m. m.type = "Payload"
  BY <1>n, MessageForms
<1>p. /\ taken \in 0 .. Len(decoder.data)
      /\ d.state \in {"PartialDelimiter", "PartialFrame"} /\ d.length \in Nat
      /\ d.data = Drain(decoder.data, taken)
      /\ decoder.state = "PartialFrame" => d = decoder
      /\ taken = DelimiterLength => d.length = decoder.data[1].length
      /\ HasFrame(decoder) => d.state = "PartialFrame" /\ Len(d.data) >= d.length
  BY DecoderParts
<1>e. /\ \A i \in 1 .. DelimiterLength : Encoded(m)[i] = Unit(m, i, PayloadLength)
      /\ \A i \in 1 .. PayloadLength : Encoded(m)[DelimiterLength + i] = Body(m)[i]
  BY <1>m, PayloadUnits
<1> HIDE DEF m
<1>1. ASSUME d.state = "PartialFrame" PROVE d.length = PayloadLength
  <2>1. CASE decoder.state = "PartialFrame"
    <3>1. decoder.length = PayloadLength
      BY <1>n, <2>1 DEF Following
    <3>2. QED BY <1>p, <2>1, <3>1
  <2>2. CASE decoder.state = "PartialDelimiter"
    <3>1. taken = DelimiterLength
      BY <1>1, <2>2
    <3>2. Read = Before(ssn)
      BY <2>2, <1>t DEF Read
    <3>3. Ahead(ssn, 1) /\ Position(ssn, 1) = 1
      BY <1>t, <3>2 DEF Ahead, Position
    <3>4. Unread[1] = Encoded(m)[1]
      BY <1>n, <1>s, <3>3 DEF Following, Genuine, m
    <3>5. Unread[1] = decoder.data[1]
      BY <1>t, <1>n, <1>p, <3>1
    <3>6. Encoded(m)[1] = Unit(m, 1, PayloadLength)
      BY <1>n, <1>e
    <3>7. Unit(m, 1, PayloadLength).length = PayloadLength
      BY DEF Unit
    <3>8. QED BY <1>p, <3>1, <3>4, <3>5, <3>6, <3>7
  <2>3. QED BY <2>1, <2>2 DEF TypeOK, Decoders
<1>2. ASSUME HasFrame(decoder) PROVE NextFrame(decoder) = Body(m)
  <2>1. d.state = "PartialFrame" /\ d.length = PayloadLength /\ Len(d.data) >= PayloadLength
    BY <1>1, <1>2, <1>p
  <2>2. Read + taken = Before(ssn) + DelimiterLength
    <3>1. decoder.state \in {"PartialDelimiter", "PartialFrame"}
      BY DEF TypeOK, Decoders
    <3>2. QED BY <1>t, <1>n, <2>1, <3>1 DEF Read
  <2>3. Len(d.data) = Len(decoder.data) - taken /\ taken \in Nat
    BY <1>t, <1>p DEF Drain
  <2> HIDE DEF taken
  <2>4. ASSUME NEW i \in 1 .. PayloadLength PROVE d.data[i] = Body(m)[i]
    <3>1. d.data[i] = decoder.data[taken + i]
      BY <1>t, <1>n, <1>p, <2>1, <2>3 DEF Drain
    <3>2. decoder.data[taken + i] = Unread[taken + i]
      BY <1>t, <1>n, <2>1, <2>3
    <3>3. Ahead(ssn, DelimiterLength + i) /\ Position(ssn, DelimiterLength + i) = taken + i
      BY <1>t, <1>n, <2>2, <2>3 DEF Ahead, Position
    <3>4. DelimiterLength + i \in 1 .. Size(ssn)
      BY <1>n, <1>s
    <3>5. Unread[taken + i] = Encoded(m)[DelimiterLength + i]
      BY <1>n, <3>3, <3>4 DEF Following, Genuine, m
    <3>6. QED BY <1>e, <3>1, <3>2, <3>5
  <2>5. First(d.data, PayloadLength) = [i \in 1 .. PayloadLength |-> d.data[i]]
    <3>1. d.data \in Seq(Units)
      BY <1>t, <1>p DEF Drain
    <3>2. QED BY <1>n, <2>1, <3>1 DEF First
  <2>6. Body(m) = [i \in 1 .. PayloadLength |-> Body(m)[i]]
    BY <1>m DEF Body, LengthOf, m
  <2>7. QED BY <2>1, <2>4, <2>5, <2>6 DEF NextFrame
<1>3. QED BY <1>1, <1>2 DEF m

\* A repeated box does not open: the client expects the nonce behind it.
LEMMA RepeatedFrame ==
    ASSUME TypeOK, NEW L \in Nat, L >= 2, Repeated(L), state = "PostHandshake",
           ssn = L + 1, HasFrame(decoder), Intact(NextFrame(decoder), "Payload")
    PROVE  ~Opens(NextFrame(decoder)[1].message.nonce)
<1> DEFINE d == TakeDelimiter(decoder)
           taken == IF decoder.state = "PartialDelimiter" /\ d.state = "PartialFrame"
                    THEN DelimiterLength ELSE 0
<1>t. /\ Read \in Nat /\ Before(ssn) \in Nat
      /\ decoder.data \in Seq(Units) /\ Len(decoder.data) \in Nat
      /\ Len(Unread) \in Nat /\ Len(Unread) >= Len(decoder.data)
      /\ \A k \in 1 .. Len(decoder.data) : Unread[k] = decoder.data[k]
  BY ReadType
<1>n. DelimiterLength \in Nat \ {0} /\ PayloadLength \in Nat \ {0}
  BY CspAssumption
<1>s. Size(ssn) = DelimiterLength + PayloadLength
  BY DEF Size
<1>p. /\ taken \in 0 .. Len(decoder.data)
      /\ d.length \in Nat
      /\ d.data = Drain(decoder.data, taken)
      /\ d.state = "PartialFrame" /\ Len(d.data) >= d.length
  BY DecoderParts
<1>r. Read + taken = Before(ssn) + DelimiterLength
  <2>1. decoder.state \in {"PartialDelimiter", "PartialFrame"}
    BY DEF TypeOK, Decoders
  <2>2. QED BY <1>t, <1>n, <1>p, <2>1 DEF Read
<1> HIDE DEF taken, d
<1>1. d.data \in Seq(Units) /\ Len(d.data) = Len(decoder.data) - taken
  BY <1>t, <1>p DEF Drain
<1>2. d.length >= 1
  <2>1. NextFrame(decoder) # <<>> /\ NextFrame(decoder) = First(d.data, d.length)
    BY DEF Intact, NextFrame, d
  <2>2. QED BY <1>1, <1>p, <2>1 DEF First
<1>3. NextFrame(decoder)[1] = decoder.data[taken + 1] /\ taken + 1 \in 1 .. Len(decoder.data)
  <2>1. NextFrame(decoder) = First(d.data, d.length)
    BY DEF NextFrame, d
  <2>2. First(d.data, d.length)[1] = d.data[1]
    BY <1>1, <1>2, <1>p DEF First
  <2>3. d.data[1] = decoder.data[taken + 1]
    BY <1>t, <1>1, <1>2, <1>p DEF Drain
  <2>4. QED BY <1>t, <1>1, <1>2, <1>p, <2>1, <2>2, <2>3
<1>5. /\ Ahead(L + 1, DelimiterLength + 1)
      /\ Position(L + 1, DelimiterLength + 1) = taken + 1
  BY <1>t, <1>n, <1>r, <1>p DEF Ahead, Position
<1>6. Unread[taken + 1].message.nonce.seq = L
  <2>1. DelimiterLength + 1 \in 1 .. Size(L + 1)
    BY <1>n, <1>s
  <2>2. QED BY <1>5, <2>1 DEF Repeated
<1>7. QED BY <1>t, <1>3, <1>6 DEF Opens, Nonce

-----------------------------------------------------------------------------
(* The stream, step by step                                                *)

LEMMA UnitsAssociative ==
    ASSUME NEW a \in Seq(Units), NEW b \in Seq(Units), NEW c \in Seq(Units)
    PROVE  (a \o b) \o c = a \o (b \o c)
OBVIOUS

LEMMA UnitsConcat ==
    ASSUME NEW a \in Seq(Units), NEW b \in Seq(Units)
    PROVE  /\ a \o b \in Seq(Units) /\ Len(a \o b) = Len(a) + Len(b)
           /\ \A k \in 1 .. Len(a) + Len(b) :
                  (a \o b)[k] = IF k <= Len(a) THEN a[k] ELSE b[k - Len(a)]
OBVIOUS

\* Nothing leaves the error state.
LEMMA ErrorStays == [Next]_vars /\ state = "Error" => state' = "Error"
BY DEF Next, Poll, vars, AddChunks, PollAwaitingServerHello, PollAwaitingLoginAck,
       PollPostHandshake, PollError, CreatePayload, SrvHello, SrvLogin, SrvSend, SrvRepeat,
       SrvReceive, SrvClose, protocolVars, callerVars, serverVars

\* The buffer without its first n units.
LEMMA DrainElements ==
    ASSUME NEW data \in Seq(Units), NEW n \in 0 .. Len(data)
    PROVE  /\ Drain(data, n) \in Seq(Units) /\ Len(Drain(data, n)) = Len(data) - n
           /\ \A k \in 1 .. Len(data) - n : Drain(data, n)[k] = data[n + k]
BY DEF Drain

LEMMA DrainTwice ==
    ASSUME NEW data \in Seq(Units), NEW a \in Nat, NEW b \in Nat, a + b <= Len(data)
    PROVE  Drain(Drain(data, a), b) = Drain(data, a + b)
<1>0. Len(data) \in Nat /\ a \in 0 .. Len(data) /\ a + b \in 0 .. Len(data)
  OBVIOUS
<1> DEFINE d == Drain(data, a)
<1>1. d \in Seq(Units) /\ Len(d) = Len(data) - a
      /\ \A k \in 1 .. Len(data) - a : d[k] = data[a + k]
  BY <1>0, DrainElements
<1>2. b \in 0 .. Len(d)
  BY <1>0, <1>1
<1> HIDE DEF d
<1> DEFINE s == Drain(d, b)
           t == Drain(data, a + b)
<1>3. s \in Seq(Units) /\ Len(s) = Len(data) - (a + b)
      /\ \A k \in 1 .. Len(data) - (a + b) : s[k] = d[b + k]
  <2>1. s \in Seq(Units) /\ Len(s) = Len(d) - b
        /\ \A k \in 1 .. Len(d) - b : s[k] = d[b + k]
    BY <1>1, <1>2, DrainElements
  <2>2. Len(d) - b = Len(data) - (a + b)
    BY <1>0, <1>1
  <2> HIDE DEF s
  <2>3. QED BY <2>1, <2>2
<1>4. t \in Seq(Units) /\ Len(t) = Len(data) - (a + b)
      /\ \A k \in 1 .. Len(data) - (a + b) : t[k] = data[a + b + k]
  BY <1>0, DrainElements
<1>5. ASSUME NEW k \in 1 .. Len(data) - (a + b) PROVE s[k] = t[k]
  <2>1. b + k \in 1 .. Len(data) - a /\ a + (b + k) = a + b + k
    BY <1>0
  <2> HIDE DEF s, t
  <2>2. QED BY <1>1, <1>3, <1>4, <2>1
<1> HIDE DEF s, t
<1>6. s = t
  BY <1>3, <1>4, <1>5, SeqEqual
<1>7. QED BY <1>6 DEF s, t, d

LEMMA DrainUnits ==
    ASSUME NEW data \in Seq(Units), NEW rest \in Seq(Units), NEW n \in 0 .. Len(data)
    PROVE  /\ Drain(data, n) \in Seq(Units) /\ Len(Drain(data, n)) = Len(data) - n
           /\ Len(Drain(data, n) \o rest) = Len(data \o rest) - n
           /\ \A k \in 1 .. Len(data \o rest) : k > n =>
                  (Drain(data, n) \o rest)[k - n] = (data \o rest)[k]
<1>1. Drain(data, n) \in Seq(Units) /\ Len(Drain(data, n)) = Len(data) - n
  BY DEF Drain
<1>2. \A k \in 1 .. Len(Drain(data, n)) : Drain(data, n)[k] = data[n + k]
  BY DEF Drain
<1>0. Len(data \o rest) \in Nat /\ Len(data) \in Nat /\ n \in Nat
  OBVIOUS
<1>3. Len(Drain(data, n) \o rest) = Len(data \o rest) - n
  BY <1>1
<1>4. ASSUME NEW k \in 1 .. Len(data \o rest), k > n
      PROVE  (Drain(data, n) \o rest)[k - n] = (data \o rest)[k]
  <2>1. CASE k <= Len(data)
    <3>1. k - n \in 1 .. Len(Drain(data, n))
      BY <1>1, <1>4, <2>1
    <3>2. (Drain(data, n) \o rest)[k - n] = Drain(data, n)[k - n]
      BY <1>1, <3>1
    <3>3. QED BY <1>2, <2>1, <3>1, <3>2
  <2>2. CASE k > Len(data)
    <3>1. (data \o rest)[k] = rest[k - Len(data)]
      BY <2>2
    <3>2. (Drain(data, n) \o rest)[k - n] = rest[(k - n) - (Len(data) - n)]
      BY <1>1, <1>4, <2>2
    <3>3. QED BY <3>1, <3>2
  <2>3. k \in Nat
    BY <1>0
  <2>4. k <= Len(data) \/ k > Len(data)
    BY <1>0, <2>3
  <2>5. QED BY <2>1, <2>2, <2>4
<1>5. QED BY <1>1, <1>3, <1>4

\* Adding a chunk moves units from the stream into the buffer.
LEMMA ChunkUnits ==
    ASSUME NEW data \in Seq(Units), NEW rest \in Seq(Units), NEW n \in 1 .. Len(rest)
    PROVE  (data \o First(rest, n)) \o Drain(rest, n) = data \o rest
<1>1. First(rest, n) \in Seq(Units) /\ Len(First(rest, n)) = n
  BY DEF First
<1>2. Drain(rest, n) \in Seq(Units) /\ Len(Drain(rest, n)) = Len(rest) - n
  BY DEF Drain
<1>3. First(rest, n) \o Drain(rest, n) = rest
  <2> DEFINE both == First(rest, n) \o Drain(rest, n)
  <2>0. Len(rest) \in Nat /\ n \in Nat /\ n <= Len(rest)
    OBVIOUS
  <2>1. /\ both \in Seq(Units) /\ Len(both) = Len(rest)
        /\ \A k \in 1 .. Len(rest) : both[k] = IF k <= n THEN First(rest, n)[k]
                                                        ELSE Drain(rest, n)[k - n]
    <3>1. n + (Len(rest) - n) = Len(rest)
      BY <2>0
    <3>2. QED BY <1>1, <1>2, <3>1, UnitsConcat
  <2>2. ASSUME NEW k \in 1 .. Len(rest) PROVE both[k] = rest[k]
    <3>1. CASE k <= n
      BY <2>0, <2>1, <3>1 DEF First
    <3>2. CASE k > n
      BY <2>0, <2>1, <3>2 DEF Drain
    <3>3. k <= n \/ k > n
      BY <2>0
    <3>4. QED BY <3>1, <3>2, <3>3
  <2> HIDE DEF both
  <2>3. both = rest
    BY <2>1, <2>2, SeqEqual
  <2>4. QED BY <2>3 DEF both
<1>4. (data \o First(rest, n)) \o Drain(rest, n) = data \o (First(rest, n) \o Drain(rest, n))
  BY <1>1, <1>2, UnitsAssociative
<1>5. QED BY <1>3, <1>4

\* The client reads on within what the server sent.
LEMMA FollowingRead ==
    ASSUME TypeOK, NEW L \in Nat, Following(L), NEW c \in Nat,
           Read' = Read + c,
           Unread' \in Seq(Units), Len(Unread') = Len(Unread) - c,
           \A k \in 1 .. Len(Unread) : k > c => Unread'[k - c] = Unread[k],
           srvSent' = srvSent, server'.ssn = server.ssn, server'.honest = server.honest,
           server'.key = server.key, server'.sck = server.sck,
           ssn' <= L + 1,
           (state' = "PostHandshake" /\ decoder'.state = "PartialFrame" /\ ssn' <= L) =>
               decoder'.length = PayloadLength
    PROVE  Following(L)'
<1>1. \A n \in 1 .. L : SentMessage(n)' = SentMessage(n)
  BY DEF SentMessage
<1>2. Read \in Nat /\ Len(Unread) \in Nat
  BY ReadType
<1>0. Len(Unread') \in Nat /\ Len(Unread') >= Len(Unread) - c
  BY <1>2
<1>3. (Genuine(L) => Genuine(L)') /\ (Repeated(L) => Repeated(L)')
  BY <1>0, <1>1, StreamKept
<1>4. Genuine(L)'
  BY <1>3 DEF Following
<1>5. Before(L + 1)' = Before(L + 1) /\ Before(L + 1) \in Nat
  <2>1. L + 1 \in Nat \ {0}
    OBVIOUS
  <2>2. QED BY <2>1, Places DEF Before
<1>6. server.honest => Read' + Len(Unread') = Before(L + 1)'
  BY <1>2, <1>5 DEF Following
<1>7. ~server.honest => Repeated(L)'
  BY <1>3 DEF Following
<1>8. QED BY <1>4, <1>6, <1>7 DEF Following

\* A step that leaves the stream and what the client has read alone.
LEMMA StreamSame ==
    ASSUME TypeOK, Stream, UNCHANGED <<state, ssn, srvSent>>, Unread' = Unread,
           decoder'.state = decoder.state, decoder'.length = decoder.length,
           server'.ssn = server.ssn, server'.honest = server.honest,
           server'.key = server.key, server'.sck = server.sck
    PROVE  Stream'
<1>1. Read' = Read
  BY DEF Read, Before
<1>2. Read \in Nat /\ Unread \in Seq(Units)
  BY ReadType
<1>3. ASSUME NEW L \in Nat, Following(L) PROVE Following(L)'
  <2>1. Read' = Read + 0 /\ Len(Unread') = Len(Unread) - 0
    BY <1>1, <1>2
  <2>2. \A k \in 1 .. Len(Unread) : k > 0 => Unread'[k - 0] = Unread[k]
    BY <1>2
  <2>3. ssn' <= L + 1
    BY <1>3 DEF Following
  <2>4. (state' = "PostHandshake" /\ decoder'.state = "PartialFrame" /\ ssn' <= L) =>
            decoder'.length = PayloadLength
    BY <1>3 DEF Following
  <2>5. QED BY <1>2, <1>3, <2>1, <2>2, <2>3, <2>4, FollowingRead
<1>4. BadHello => BadHello'
  BY DEF BadHello
<1>5. QED BY <1>3, <1>4 DEF Stream

\* The next message of a server that follows the protocol.
LEMMA MessageAppended ==
    ASSUME TypeOK, NEW L \in Nat, Following(L), server.honest,
           NEW message, Encoded(message) \in Seq(Units),
           UNCHANGED <<state, decoder, ssn>>, Send(message),
           SentMessage(L + 1)' = message,
           \A n \in 1 .. L : SentMessage(n)' = SentMessage(n),
           server'.ssn = L + 2, server'.honest
    PROVE  Following(L + 1)'
<1>t. Read \in Nat /\ Unread \in Seq(Units)
  BY ReadType
<1>n. L + 1 \in Nat \ {0} /\ Size(L + 1) \in Nat \ {0} /\ Before(L + 1) \in Nat
  <2>1. L + 1 \in Nat \ {0}
    OBVIOUS
  <2>2. QED BY <2>1, Places
<1>b. Before(L + 2) = Before(L + 1) + Size(L + 1)
  <2>1. L + 1 \in Nat \ {0} /\ (L + 1) + 1 = L + 2
    OBVIOUS
  <2>2. QED BY <2>1, Places
<1>1. Read' = Read
  BY DEF Read, Before
<1>2. Unread' = Unread \o Encoded(message)
  <2>1. decoder.data \in Seq(Units) /\ inbound \in Seq(Units)
    BY DEF TypeOK, Decoders
  <2>2. Unread' = decoder.data \o (inbound \o Encoded(message))
    BY DEF Unread, Send
  <2>3. (decoder.data \o inbound) \o Encoded(message)
            = decoder.data \o (inbound \o Encoded(message))
    BY <2>1, UnitsAssociative
  <2>4. QED BY <2>2, <2>3 DEF Unread
<1>3. Len(Encoded(message)) = Size(L + 1)
  <2>1. Len(Encoded(SentMessage(L + 1)))' = Size(L + 1)'
    <3>1. (\A n \in Nat \ {0} : Len(Encoded(SentMessage(n))) = Size(n))'
      BY MessageSize, PTL
    <3>2. QED BY <1>n, <3>1
  <2>2. Size(L + 1)' = Size(L + 1) /\ Len(Encoded(SentMessage(L + 1)))' = Len(Encoded(message))
    BY DEF Size, Encoded, Body, Delimiter, LengthOf
  <2>3. QED BY <2>1, <2>2
<1>4. /\ Unread' \in Seq(Units) /\ Len(Unread') = Len(Unread) + Size(L + 1)
      /\ \A k \in 1 .. Len(Unread) : Unread'[k] = Unread[k]
      /\ \A i \in 1 .. Size(L + 1) : Unread'[Len(Unread) + i] = Encoded(message)[i]
  <2> DEFINE e == Encoded(message)
  <2>1. e \in Seq(Units) /\ Len(e) = Size(L + 1) /\ Unread' = Unread \o e
    BY <1>2, <1>3
  <2> HIDE DEF e
  <2>2. Len(Unread) \in Nat
    BY <1>t
  <2>3. /\ Unread' \in Seq(Units) /\ Len(Unread') = Len(Unread) + Size(L + 1)
        /\ \A k \in 1 .. Len(Unread) + Size(L + 1) :
               Unread'[k] = IF k <= Len(Unread) THEN Unread[k] ELSE e[k - Len(Unread)]
    <3>1. /\ Unread \o e \in Seq(Units) /\ Len(Unread \o e) = Len(Unread) + Len(e)
          /\ \A k \in 1 .. Len(Unread) + Len(e) :
                 (Unread \o e)[k] = IF k <= Len(Unread) THEN Unread[k] ELSE e[k - Len(Unread)]
      BY <1>t, <2>1, UnitsConcat
    <3>2. QED BY <2>1, <3>1
  <2>4. ASSUME NEW i \in 1 .. Size(L + 1) PROVE Unread'[Len(Unread) + i] = e[i]
    BY <1>n, <2>2, <2>3
  <2>5. QED BY <1>n, <2>2, <2>3, <2>4 DEF e
<1>5. Genuine(L)'
  <2>1. Genuine(L) => Genuine(L)'
    <3>1. Read' = Read + 0 /\ Len(Unread') >= Len(Unread) - 0 /\ Len(Unread') \in Nat
      BY <1>t, <1>1, <1>4, <1>n
    <3>2. \A k \in 1 .. Len(Unread) : k > 0 => Unread'[k - 0] = Unread[k]
      BY <1>t, <1>4
    <3>3. QED BY <3>1, <3>2, StreamKept
  <2>2. QED BY <2>1 DEF Following
<1>6. Read + Len(Unread) = Before(L + 1)
  BY DEF Following
<1>7. Genuine(L + 1)'
  <2> SUFFICES ASSUME NEW n \in 1 .. L + 1, NEW i \in 1 .. Size(n), Ahead(n, i)'
               PROVE  /\ Position(n, i)' <= Len(Unread')
                      /\ Unread'[Position(n, i)'] = Encoded(SentMessage(n)')[i]
    BY DEF Genuine, Size, Encoded, Body, Delimiter, LengthOf
  <2>1. CASE n <= L
    <3>1. n \in 1 .. L
      BY <2>1
    <3>2. /\ Position(n, i)' <= Len(Unread')
          /\ Unread'[Position(n, i)'] = Encoded(SentMessage(n)')[i]
      BY <1>5, <3>1 DEF Genuine, Size, Encoded, Body, Delimiter, LengthOf
    <3>3. QED BY <3>2
  <2>2. CASE n = L + 1
    <3>1. Position(n, i)' = Len(Unread) + i
      <4>1. Position(n, i)' = Before(n) + i - Read'
        BY DEF Position, Before
      <4>2. i \in Nat /\ Len(Unread) \in Nat
        BY <1>t, <1>n, <2>2
      <4>3. QED BY <1>t, <1>n, <1>1, <1>6, <2>2, <4>1, <4>2
    <3>2. SentMessage(n)' = message /\ i \in 1 .. Size(L + 1)
      BY <2>2
    <3>3. Len(Unread) + i <= Len(Unread') /\ Unread'[Len(Unread) + i] = Encoded(message)[i]
      BY <1>t, <1>n, <1>4, <3>2
    <3>4. QED BY <3>1, <3>2, <3>3
  <2>3. QED BY <2>1, <2>2
<1>8. Read' + Len(Unread') = Before(L + 2)'
  <2>1. Before(L + 2)' = Before(L + 2)
    BY DEF Before
  <2>2. QED BY <1>t, <1>n, <1>b, <1>1, <1>4, <1>6, <2>1
<1>9. ssn <= L + 1
  BY DEF Following
<1>10. ASSUME state = "PostHandshake", decoder.state = "PartialFrame"
       PROVE  ssn <= L /\ decoder.length = PayloadLength
  <2>1. ssn # L + 1
    <3> SUFFICES ASSUME ssn = L + 1 PROVE FALSE
      OBVIOUS
    <3>1. Read = Before(L + 1) + DelimiterLength
      BY <1>10 DEF Read
    <3>2. QED BY <1>t, <1>n, <1>6, <3>1, CspAssumption
  <2>2. ssn \in Nat
    BY DEF TypeOK
  <2>3. QED BY <1>9, <1>10, <2>1, <2>2 DEF Following
<1>11. ssn \in Nat
  BY DEF TypeOK
<1>12. (L + 1) + 1 = L + 2
  OBVIOUS
<1>13. QED BY <1>7, <1>8, <1>9, <1>10, <1>11, <1>12 DEF Following

-----------------------------------------------------------------------------
(* The stream through the client's calls                                   *)

\* Adding a chunk changes nothing of what is unread.
LEMMA ChunksKeepStream ==
    ASSUME TypeOK, Stream, NEW n \in 1 .. Len(inbound), AddChunks(n)
    PROVE  Stream'
<1>1. CASE state = "Error"
  BY <1>1 DEF AddChunks, Stream
<1>2. CASE state # "Error"
  <2>1. decoder \in Decoders /\ decoder.data \in Seq(Units) /\ inbound \in Seq(Units)
    BY DEF TypeOK, Decoders
  <2>2. decoder' = AddChunk(decoder, First(inbound, n)) /\ inbound' = Drain(inbound, n)
    BY <1>2 DEF AddChunks
  <2>3. /\ decoder'.data = decoder.data \o First(inbound, n)
        /\ decoder'.state = decoder.state /\ decoder'.length = decoder.length
    BY <2>1, <2>2 DEF AddChunk, Decoders
  <2>4. Unread' = (decoder.data \o First(inbound, n)) \o Drain(inbound, n)
    BY <2>2, <2>3 DEF Unread
  <2>5. Unread' = Unread
    BY <2>1, <2>4, ChunkUnits DEF Unread
  <2>6. UNCHANGED <<state, ssn, srvSent, server>>
    BY DEF AddChunks, serverVars
  <2>7. QED BY <2>3, <2>5, <2>6, StreamSame
<1>3. QED BY <1>1, <1>2

\* A poll takes units off the front of the buffer.
LEMMA UnreadDrained ==
    ASSUME TypeOK, NEW c \in 0 .. Len(decoder.data),
           decoder'.data = Drain(decoder.data, c), inbound' = inbound
    PROVE  /\ Len(Unread') = Len(Unread) - c
           /\ \A k \in 1 .. Len(Unread) : k > c => Unread'[k - c] = Unread[k]
           /\ Unread' \in Seq(Units)
<1>1. decoder.data \in Seq(Units) /\ inbound \in Seq(Units)
  BY ReadType
<1>2. Unread' = Drain(decoder.data, c) \o inbound /\ Unread = decoder.data \o inbound
  BY DEF Unread
<1>3. /\ Drain(decoder.data, c) \in Seq(Units)
      /\ Len(Drain(decoder.data, c) \o inbound) = Len(decoder.data \o inbound) - c
      /\ \A k \in 1 .. Len(decoder.data \o inbound) : k > c =>
             (Drain(decoder.data, c) \o inbound)[k - c] = (decoder.data \o inbound)[k]
  BY <1>1, DrainUnits
<1>4. Drain(decoder.data, c) \o inbound \in Seq(Units)
  BY <1>1, <1>3, UnitsConcat
<1>5. QED BY <1>2, <1>3, <1>4

\* Reading a handshake message follows the server's stream, and a server that
\* follows the protocol sent one that is accepted (csp/mod.rs, poll).
LEMMA HandshakeFollows ==
    ASSUME TypeOK, NEW L \in Nat, Following(L), ssn \in {1, 2}, state # "PostHandshake",
           Len(decoder.data) >= Size(ssn),
           decoder' = NextDecoder(Size(ssn)), ssn' = ssn + 1,
           UNCHANGED <<inbound, serverVars>>
    PROVE  Following(L)'
<1>1. ssn <= L /\ Read = Before(ssn)
  BY HandshakeFrame
<1>2. ssn \in Nat \ {0}
  OBVIOUS
<1>3. Size(ssn) \in Nat /\ Before(ssn) \in Nat /\ Before(ssn + 1) = Before(ssn) + Size(ssn)
  BY <1>2, Places
<1>4. decoder'.state = "PartialDelimiter" /\ decoder'.data = Drain(decoder.data, Size(ssn))
  BY DEF NextDecoder, NewDecoder
<1>5. Read' = Read + Size(ssn)
  <2>1. Read' = Before(ssn)' + 0
    BY <1>4 DEF Read
  <2>2. Before(ssn)' = Before(ssn + 1)
    BY DEF Before
  <2>3. QED BY <1>1, <1>3, <2>1, <2>2
<1>9. /\ Len(Unread') = Len(Unread) - Size(ssn)
      /\ \A k \in 1 .. Len(Unread) : k > Size(ssn) => Unread'[k - Size(ssn)] = Unread[k]
      /\ Unread' \in Seq(Units)
  <2>1. Size(ssn) \in 0 .. Len(decoder.data)
    BY <1>3, ReadType
  <2>2. QED BY <1>4, <2>1, UnreadDrained
<1>10. ssn' <= L + 1
  BY <1>1, <1>2
<1>11. QED BY <1>3, <1>4, <1>5, <1>9, <1>10, FollowingRead DEF serverVars

\* What the buffer keeps when next_frame_and_then has taken c units off it.
LEMMA PayloadFollows ==
    ASSUME TypeOK, NEW L \in Nat, Following(L), NEW c \in 0 .. Len(decoder.data),
           decoder'.data = Drain(decoder.data, c), Read' = Read + c, ssn' <= L + 1,
           (state' = "PostHandshake" /\ decoder'.state = "PartialFrame" /\ ssn' <= L) =>
               decoder'.length = PayloadLength,
           UNCHANGED <<inbound, serverVars>>
    PROVE  Following(L)'
<1>1. decoder.data \in Seq(Units)
  BY ReadType
<1>2. /\ Len(Unread') = Len(Unread) - c
      /\ \A k \in 1 .. Len(Unread) : k > c => Unread'[k - c] = Unread[k]
      /\ Unread' \in Seq(Units)
  BY UnreadDrained
<1>3. c \in Nat
  BY <1>1
<1>4. QED BY <1>2, <1>3, FollowingRead DEF serverVars

\* Without a complete frame only a delimiter is read.
LEMMA NoFrameFollows ==
    ASSUME TypeOK, NEW L \in Nat, Following(L), state = "PostHandshake", ssn >= 3,
           ~HasFrame(decoder), decoder' = AfterNext(decoder),
           UNCHANGED <<state, ssn, inbound, serverVars>>
    PROVE  Following(L)'
<1> DEFINE d == TakeDelimiter(decoder)
           taken == IF decoder.state = "PartialDelimiter" /\ d.state = "PartialFrame"
                    THEN DelimiterLength ELSE 0
<1>1. decoder' = d
  BY DEF AfterNext
<1>2. /\ taken \in 0 .. Len(decoder.data)
      /\ d.state \in {"PartialDelimiter", "PartialFrame"}
      /\ d.data = Drain(decoder.data, taken)
      /\ decoder.state = "PartialFrame" => d = decoder
  BY DecoderParts
<1>3. decoder.state \in {"PartialDelimiter", "PartialFrame"}
  BY DEF TypeOK, Decoders
<1>t. Before(ssn) \in Nat /\ DelimiterLength \in Nat /\ ssn \in Nat
  BY ReadType, CspAssumption DEF TypeOK
<1>4. Read' = Read + taken
  <2>1. Before(ssn)' = Before(ssn)
    BY DEF Before
  <2>2. QED BY <1>t, <1>1, <1>2, <1>3, <2>1 DEF Read
<1>5. (d.state = "PartialFrame" /\ ssn <= L) => d.length = PayloadLength
  BY <1>t, PayloadFrame
<1>6. ssn' <= L + 1
  BY DEF Following
<1> HIDE DEF taken, d
<1>7. QED BY <1>1, <1>2, <1>4, <1>5, <1>6, PayloadFollows

\* A complete frame is the next message, unless the server repeats a box.
LEMMA FrameFollows ==
    ASSUME TypeOK, NEW L \in Nat, Following(L), state = "PostHandshake", ssn >= 3,
           HasFrame(decoder)
    PROVE  /\ (server.honest \/ (/\ Intact(NextFrame(decoder), "Payload")
                                 /\ Opens(NextFrame(decoder)[1].message.nonce)))
                  => ssn <= L
           /\ (ssn <= L /\ decoder' = AfterNext(decoder) /\ ssn' = ssn + 1
                 /\ UNCHANGED <<state, inbound, serverVars>>) => Following(L)'
<1> DEFINE d == TakeDelimiter(decoder)
           taken == IF decoder.state = "PartialDelimiter" /\ d.state = "PartialFrame"
                    THEN DelimiterLength ELSE 0
<1>t. /\ Read \in Nat /\ Before(ssn) \in Nat /\ ssn \in Nat \ {0}
      /\ decoder.data \in Seq(Units) /\ Len(decoder.data) \in Nat
      /\ Len(Unread) \in Nat /\ Len(Unread) >= Len(decoder.data)
      /\ DelimiterLength \in Nat \ {0} /\ PayloadLength \in Nat \ {0}
  <2>1. ssn \in Nat \ {0}
    BY CspAssumption DEF TypeOK
  <2>2. Len(Unread) = Len(decoder.data) + Len(inbound)
        /\ decoder.data \in Seq(Units) /\ inbound \in Seq(Units)
    BY ReadType
  <2>3. QED BY <2>1, <2>2, ReadType, CspAssumption
<1>p. /\ taken \in 0 .. Len(decoder.data)
      /\ d.data = Drain(decoder.data, taken)
      /\ d.state = "PartialFrame" /\ d.length \in Nat /\ Len(d.data) >= d.length
  BY DecoderParts
<1>r. Read + taken = Before(ssn) + DelimiterLength
  <2>1. decoder.state \in {"PartialDelimiter", "PartialFrame"}
    BY DEF TypeOK, Decoders
  <2>2. QED BY <1>t, <1>p, <2>1 DEF Read
<1>f. ssn <= L => d.length = PayloadLength
  BY <1>t, <1>p, PayloadFrame
<1>a. AfterNext(decoder) = NewDecoder(Drain(d.data, d.length))
  BY DEF AfterNext
<1> HIDE DEF taken, d
<1>1. ASSUME server.honest \/ (/\ Intact(NextFrame(decoder), "Payload")
                               /\ Opens(NextFrame(decoder)[1].message.nonce))
      PROVE ssn <= L
  <2> SUFFICES ASSUME ssn = L + 1 PROVE FALSE
    BY <1>t DEF Following
  <2>1. CASE server.honest
    <3>1. Read + Len(Unread) = Before(ssn)
      BY <2>1 DEF Following
    <3>2. Len(Unread) >= taken /\ taken \in Nat
      BY <1>t, <1>p
    <3>3. QED BY <1>t, <1>r, <3>1, <3>2
  <2>2. CASE ~server.honest
    <3>1. L >= 2 /\ Repeated(L)
      BY <2>2 DEF Following
    <3>2. QED BY <1>1, <2>2, <3>1, RepeatedFrame
  <2>3. QED BY <2>1, <2>2
<1>2. ASSUME ssn <= L, decoder' = AfterNext(decoder), ssn' = ssn + 1,
             UNCHANGED <<state, inbound, serverVars>>
      PROVE Following(L)'
  <2>1. taken \in Nat /\ taken + PayloadLength \in 0 .. Len(decoder.data)
        /\ Drain(d.data, PayloadLength) = Drain(decoder.data, taken + PayloadLength)
    <3>1. taken \in Nat /\ Len(d.data) = Len(decoder.data) - taken
      BY <1>t, <1>p DEF Drain
    <3>2. taken + PayloadLength \in 0 .. Len(decoder.data)
      BY <1>t, <1>p, <1>f, <1>2, <3>1
    <3>3. Drain(d.data, PayloadLength) = Drain(decoder.data, taken + PayloadLength)
      <4>1. taken + PayloadLength <= Len(decoder.data)
        BY <1>t, <3>2
      <4>2. QED BY <1>t, <1>p, <3>1, <4>1, DrainTwice
    <3>4. QED BY <3>1, <3>2, <3>3
  <2>2. decoder'.data = Drain(decoder.data, taken + PayloadLength)
        /\ decoder'.state = "PartialDelimiter"
    BY <1>a, <1>f, <1>2, <2>1 DEF NewDecoder
  <2>3. Read' = Read + (taken + PayloadLength)
    <3>1. Before(ssn + 1) = Before(ssn) + DelimiterLength + PayloadLength
      <4>1. Size(ssn) = DelimiterLength + PayloadLength
        BY DEF Size
      <4>2. QED BY <1>t, <4>1, Places
    <3>2. Read' = Before(ssn)' + 0
      BY <2>2 DEF Read
    <3>3. Before(ssn)' = Before(ssn + 1)
      BY <1>2 DEF Before
    <3>4. Before(ssn + 1) \in Nat
      BY <1>t, <3>1
    <3>5. QED BY <1>t, <1>r, <2>1, <3>1, <3>2, <3>3, <3>4
  <2>4. ssn' <= L + 1
    BY <1>t, <1>2
  <2>5. QED BY <1>2, <2>1, <2>2, <2>3, <2>4, PayloadFollows
<1>3. QED BY <1>1, <1>2

\* The units a handshake message is read from hold that message.
LEMMA HandshakeMessage ==
    ASSUME NEW n \in {1, 2}
    PROVE  /\ Body(SentMessage(n)) # <<>>
           /\ Body(SentMessage(n))[1].message = SentMessage(n)
<1>1. n \in Nat \ {0}
  OBVIOUS
<1>2. LengthOf(SentMessage(n)) \in Nat \ {0}
  BY <1>1, MessageForms, Places
<1>3. Len(Body(SentMessage(n))) # 0 /\ 1 \in 1 .. LengthOf(SentMessage(n))
  BY <1>2, BodyUnits
<1>4. Body(SentMessage(n))[1] = Unit(SentMessage(n), DelimiterLength + 1, 0)
  BY <1>3, BodyUnits
<1>5. Body(SentMessage(n)) # <<>>
  BY <1>3
<1>6. QED BY <1>4, <1>5 DEF Unit

LEMMA PollHelloStream ==
    ASSUME TypeOK, ServerPhase, ClientPhase, Stream, PollAwaitingServerHello
    PROVE  /\ Stream'
           /\ FollowsProtocol => state' # "Error"
<1> DEFINE hello == First(decoder.data, HelloLength)
<1>t. /\ decoder.data \in Seq(Units) /\ inbound \in Seq(Units) /\ Unread \in Seq(Units)
      /\ Len(Unread) = Len(decoder.data) + Len(inbound)
      /\ \A k \in 1 .. Len(decoder.data) : Unread[k] = decoder.data[k]
  BY ReadType
<1>s. state = "AwaitingServerHello" /\ ssn = 1 /\ Len(decoder.data) >= HelloLength
  BY DEF PollAwaitingServerHello, FixedHasFrame, ClientPhase
<1>z. Size(1) = HelloLength /\ HelloLength \in Nat \ {0}
  BY CspAssumption DEF Size
<1>1. CASE BadHello
  <2>1. ~Authentic(hello)
    <3> SUFFICES ASSUME Authentic(hello) PROVE FALSE
      OBVIOUS
    <3>1. hello[1] = Unread[1] /\ 1 \in 1 .. Len(Unread)
      BY <1>t, <1>s, <1>z DEF First
    <3>2. /\ hello[1].message.type = "ServerHello"
          /\ hello[1].message.key \in PermanentKeys
          /\ hello[1].message.sck # CCK
          /\ hello[1].message.repeated = CCK
      BY DEF Authentic, Intact
    <3>3. QED BY <1>1, <3>1, <3>2 DEF BadHello
  <2>2. state' = "Error"
    BY <2>1 DEF PollAwaitingServerHello, Fail
  <2>3. QED BY <1>1, <2>2 DEF Stream, BadHello, FollowsProtocol
<1>2. ASSUME NEW L \in Nat, Following(L)
      PROVE  Stream' /\ (FollowsProtocol => state' # "Error")
  <2>1. ssn <= L /\ hello = Body(SentMessage(1))
    BY <1>2, <1>s, <1>z, HandshakeFrame
  <2>2. /\ hello # <<>> /\ hello[1].message = SentMessage(1)
        /\ SentMessage(1) = ServerHello(server.key, server.sck, CCK)
    BY <2>1, HandshakeMessage DEF SentMessage
  <2>3. FollowsProtocol => Authentic(hello) /\ HasNext(1) /\ HasNext(2)
    <3> SUFFICES ASSUME FollowsProtocol PROVE Authentic(hello) /\ HasNext(1) /\ HasNext(2)
      OBVIOUS
    <3>1. server.honest /\ server.ssn >= 2
      BY <1>2, <1>s, <2>1 DEF FollowsProtocol, Following
    <3>2. server.key \in PermanentKeys /\ server.sck # CCK
      BY <3>1 DEF ServerPhase
    <3>3. Intact(hello, "ServerHello")
      BY <2>1, <2>2 DEF Intact, ServerHello
    <3>4. QED BY <2>2, <3>2, <3>3, CspAssumption DEF Authentic, HasNext, ServerHello
  <2>4. CASE Authentic(hello) /\ HasNext(1) /\ HasNext(2)
    <3>1. /\ state' = "AwaitingLoginAck" /\ ssn' = 2 /\ decoder' = NextDecoder(Size(ssn))
          /\ UNCHANGED <<inbound, serverVars>>
      BY <1>s, <1>z, <2>4 DEF PollAwaitingServerHello
    <3>2. Following(L)'
      BY <1>2, <1>s, <1>z, <3>1, HandshakeFollows
    <3>3. QED BY <3>1, <3>2 DEF Stream
  <2>5. CASE ~(Authentic(hello) /\ HasNext(1) /\ HasNext(2))
    <3>1. state' = "Error"
      BY <2>5 DEF PollAwaitingServerHello, Fail
    <3>2. QED BY <2>3, <2>5, <3>1 DEF Stream
  <2>6. QED BY <2>4, <2>5
<1>3. QED BY <1>1, <1>2, <1>s DEF Stream

LEMMA PollAckStream ==
    ASSUME TypeOK, LoginInv, ServerPhase, ClientPhase, Stream, PollAwaitingLoginAck
    PROVE  /\ Stream'
           /\ FollowsProtocol => state' # "Error"
           /\ state' # "Error" => server.ssn >= 3
<1> DEFINE ack == First(decoder.data, LoginAckLength)
<1>s. state = "AwaitingLoginAck" /\ ssn = 2 /\ Len(decoder.data) >= LoginAckLength
  BY DEF PollAwaitingLoginAck, FixedHasFrame, ClientPhase
<1>z. Size(2) = LoginAckLength /\ LoginAckLength \in Nat \ {0}
  BY CspAssumption DEF Size
<1>c. sck = server.sck
  BY <1>s DEF LoginInv, LoginOnlyToKnownServer
<1>1. PICK L \in Nat : Following(L)
  BY <1>s DEF Stream, BadHello
<1>2. ssn <= L /\ ack = Body(SentMessage(2))
  BY <1>1, <1>s, <1>z, HandshakeFrame
<1>3. /\ ack # <<>> /\ ack[1].message = SentMessage(2)
      /\ SentMessage(2) = LoginAck(Nonce(server.sck, 2))
  BY <1>2, HandshakeMessage DEF SentMessage
<1>4. Intact(ack, "LoginAck") /\ Opens(ack[1].message.nonce)
  <2>1. Intact(ack, "LoginAck")
    BY <1>2, <1>3 DEF Intact, LoginAck
  <2>2. QED BY <1>s, <1>c, <1>3, <2>1, CspAssumption DEF Opens, HasNext, LoginAck
<1>5. /\ state' = "PostHandshake" /\ ssn' = ssn + 1 /\ decoder' = NextDecoder(Size(ssn))
      /\ UNCHANGED <<inbound, serverVars>>
  BY <1>s, <1>z, <1>4 DEF PollAwaitingLoginAck
<1>6. Following(L)'
  BY <1>1, <1>s, <1>z, <1>5, HandshakeFollows
<1>7. server.ssn >= 3
  <2>1. server.ssn \in Nat
    BY DEF TypeOK, Servers
  <2>2. QED BY <1>1, <1>s, <1>2, <2>1 DEF Following
<1>8. QED BY <1>5, <1>6, <1>7 DEF Stream

\* The payload in a frame the client takes is the next one the server sent.
LEMMA PollPayloadStream ==
    ASSUME TypeOK, LoginInv, ServerPhase, ClientPhase, Stream, PollPostHandshake
    PROVE  /\ Stream'
           /\ FollowsProtocol => state' # "Error"
           /\ ssn' # ssn => /\ ssn' = ssn + 1
                            /\ Len(delivered) < Len(srvSent)
                            /\ delivered' = Append(delivered, srvSent[Len(delivered) + 1])
<1> DEFINE frame == NextFrame(decoder)
           Taken == /\ Intact(frame, "Payload")
                    /\ Opens(frame[1].message.nonce)
                    /\ frame[1].message.payload \notin Malformed
<1>s. state = "PostHandshake" /\ ssn \in Nat /\ ssn >= 3 /\ server.ssn \in Nat
      /\ server.ssn <= MaxSeq
  BY DEF PollPostHandshake, ClientPhase, TypeOK, Servers
<1>c. sck = server.sck
  BY <1>s DEF LoginInv, LoginOnlyToKnownServer
<1>l. PICK L \in Nat : Following(L)
  BY <1>s DEF Stream, BadHello
<1>1. CASE ~HasFrame(decoder)
  <2>1. /\ decoder' = AfterNext(decoder)
        /\ UNCHANGED <<state, ssn, delivered, inbound, serverVars>>
    BY <1>1 DEF PollPostHandshake
  <2>2. Following(L)'
    BY <1>1, <1>l, <1>s, <2>1, NoFrameFollows
  <2>3. QED BY <1>s, <2>1, <2>2 DEF Stream
<1>2. CASE HasFrame(decoder)
  <2>1. ASSUME ssn <= L
        PROVE  /\ frame = Body(SentMessage(ssn))
               /\ frame[1].message = Payload(Nonce(server.sck, ssn), srvSent[ssn - 2])
               /\ Intact(frame, "Payload") /\ Opens(frame[1].message.nonce)
               /\ ssn - 2 \in 1 .. Len(srvSent) /\ ssn - 2 = Len(delivered) + 1
    <3>1. ssn \in 3 .. L
      BY <1>s, <2>1
    <3>2. frame = Body(SentMessage(ssn))
      BY <1>l, <1>s, <1>2, <3>1, PayloadFrame
    <3>3. SentMessage(ssn) = Payload(Nonce(server.sck, ssn), srvSent[ssn - 2])
      BY <3>1 DEF SentMessage
    <3>4. LengthOf(SentMessage(ssn)) = PayloadLength
      BY <3>3 DEF LengthOf, Payload
    <3>5. Len(frame) # 0 /\ frame[1] = Unit(SentMessage(ssn), DelimiterLength + 1, 0)
      BY <3>2, <3>4, BodyUnits, CspAssumption
    <3>6. frame # <<>> /\ frame[1].message = SentMessage(ssn)
      BY <3>5 DEF Unit
    <3>7. Intact(frame, "Payload")
      BY <3>2, <3>3, <3>6 DEF Intact, Payload
    <3>8. Opens(frame[1].message.nonce)
      <4>1. ssn < MaxSeq
        BY <1>l, <1>s, <2>1, CspAssumption DEF Following
      <4>2. QED BY <1>c, <3>3, <3>6, <4>1 DEF Opens, HasNext, Payload
    <3>9. ssn - 2 \in 1 .. Len(srvSent) /\ ssn - 2 = Len(delivered) + 1
      <4>1. Len(srvSent) = server.ssn - 3
        BY <1>l, <1>s, <2>1 DEF Following, ServerPhase, SaturatingSub
      <4>2. Len(delivered) = ssn - 3
        BY <1>s DEF ClientPhase, SaturatingSub
      <4>3. QED BY <1>l, <1>s, <2>1, <4>1, <4>2 DEF Following
    <3>10. QED BY <3>2, <3>3, <3>6, <3>7, <3>8, <3>9
  <2>2. CASE Taken
    <3>1. ssn <= L
      BY <1>l, <1>s, <1>2, <2>2, FrameFollows
    <3>2. /\ decoder' = AfterNext(decoder) /\ ssn' = ssn + 1
          /\ delivered' = Append(delivered, frame[1].message.payload)
          /\ UNCHANGED <<state, inbound, serverVars>>
      BY <1>2, <2>2 DEF PollPostHandshake
    <3>3. Following(L)'
      BY <1>l, <1>s, <1>2, <3>1, <3>2, FrameFollows
    <3>4. /\ frame[1].message.payload = srvSent[Len(delivered) + 1]
          /\ Len(delivered) < Len(srvSent)
      <4>1. frame[1].message.payload = srvSent[ssn - 2]
        BY <2>1, <3>1 DEF Payload
      <4>2. Len(srvSent) \in Nat /\ Len(delivered) \in Nat
        BY DEF TypeOK
      <4>3. QED BY <2>1, <3>1, <4>1, <4>2
    <3>5. QED BY <1>s, <3>2, <3>3, <3>4 DEF Stream
  <2>3. CASE ~Taken
    <3>1. state' = "Error" /\ ssn' = ssn
      BY <1>2, <2>3 DEF PollPostHandshake, Fail
    <3>2. ~FollowsProtocol
      <4> SUFFICES ASSUME FollowsProtocol PROVE Taken
        BY <2>3
      <4>1. ssn <= L
        BY <1>l, <1>s, <1>2, FrameFollows DEF FollowsProtocol
      <4>2. frame[1].message.payload = srvSent[ssn - 2] /\ ssn - 2 \in 1 .. Len(srvSent)
        BY <2>1, <4>1 DEF Payload
      <4>3. QED BY <2>1, <4>1, <4>2 DEF FollowsProtocol
    <3>3. QED BY <3>1, <3>2 DEF Stream
  <2>4. QED BY <2>2, <2>3
<1>3. QED BY <1>1, <1>2

-----------------------------------------------------------------------------
(* The stream through the server's steps                                   *)

LEMMA HelloStream ==
    ASSUME TypeOK, LoginInv, ServerPhase, ClientPhase, Stream,
           NEW key \in Keys, NEW cookie \in Cookies, NEW repeated \in Cookies,
           SrvHello(key, cookie, repeated)
    PROVE  Stream'
<1> DEFINE hello == ServerHello(key, cookie, repeated)
<1>s. /\ state = "AwaitingServerHello" /\ ssn = 1
      /\ server.honest /\ server.ssn = 1
      /\ inbound = <<>> /\ decoder.data = <<>>
  BY DEF SrvHello, ServerPhase, ClientPhase, LoginInv
<1>e. Send(hello) /\ UNCHANGED <<state, decoder, ssn, srvSent>>
  BY DEF SrvHello, protocolVars
<1>n. /\ server'.key = key /\ server'.sck = cookie /\ server'.ssn = 2
      /\ server'.honest = (key \in PermanentKeys /\ cookie # CCK /\ repeated = CCK)
  BY DEF SrvHello, TypeOK, Servers
<1>h. hello.type = "ServerHello" /\ hello.key = key /\ hello.sck = cookie
      /\ hello.repeated = repeated
  BY DEF ServerHello
<1>m. hello \in ServerMessages
  BY CspAssumption DEF ServerHello, ServerMessages, Nonce, Nonces
<1> HIDE DEF hello
<1>u. Encoded(hello) \in Seq(Units)
  BY <1>m, EncodedType
<1>1. PICK L \in Nat : Following(L)
  BY <1>s DEF Stream, BadHello
<1>2. L = 0
  BY <1>1, <1>s DEF Following
<1>3. CASE server'.honest
  <2>1. SentMessage(L + 1)' = hello
    <3>1. SentMessage(1)' = ServerHello(server'.key, server'.sck, CCK)
      BY DEF SentMessage
    <3>2. repeated = CCK
      BY <1>3, <1>n
    <3>3. QED BY <1>2, <1>n, <3>1, <3>2 DEF hello
  <2>2. Following(L + 1)'
    BY <1>1, <1>2, <1>3, <1>s, <1>e, <1>n, <1>u, <2>1, MessageAppended
  <2>3. L + 1 \in Nat
    OBVIOUS
  <2>4. QED BY <2>2, <2>3 DEF Stream
<1>4. CASE ~server'.honest
  <2>1. Unread' = Encoded(hello)
    <3>1. <<>> \o Encoded(hello) = Encoded(hello)
      BY <1>u
    <3>2. Unread' = <<>> \o (<<>> \o Encoded(hello))
      BY <1>s, <1>e DEF Unread, Send
    <3>3. QED BY <3>1, <3>2
  <2>2. ASSUME NEW k \in 1 .. Len(Unread') PROVE Unread'[k].message = hello
    <3>1. Encoded(hello) = Body(hello)
      BY <1>h DEF Encoded
    <3>2. k \in 1 .. LengthOf(hello)
      BY <2>1, <3>1, BodyUnits
    <3>3. Unread'[k] = Unit(hello, DelimiterLength + k, 0)
      BY <2>1, <3>1, <3>2, BodyUnits
    <3>4. QED BY <3>3 DEF Unit
  <2>3. ~(key \in PermanentKeys /\ cookie # CCK /\ repeated = CCK)
    BY <1>4, <1>n
  <2>4. QED BY <1>4, <1>h, <1>s, <1>e, <2>2, <2>3 DEF Stream, BadHello
<1>5. QED BY <1>3, <1>4

LEMMA LoginStream ==
    ASSUME TypeOK, ServerPhase, ClientPhase, Stream, SrvLogin
    PROVE  Stream'
<1> DEFINE ack == LoginAck(Nonce(server.sck, 2))
<1>t. server \in Servers
  BY DEF TypeOK
<1>e. UNCHANGED <<state, decoder, ssn, srvSent>>
  BY DEF SrvLogin, protocolVars
<1>s. server.state = "AwaitingLogin" /\ server.ssn = 2 /\ state # "AwaitingServerHello"
  BY DEF SrvLogin, ServerPhase
<1>1. CASE server' = [server EXCEPT !.state = "Closed"] /\ UNCHANGED inbound
  <2>1. server'.ssn = server.ssn /\ server'.honest = server.honest
        /\ server'.key = server.key /\ server'.sck = server.sck
    BY <1>t, <1>1 DEF Servers
  <2>2. Unread' = Unread
    BY <1>e, <1>1 DEF Unread
  <2>3. QED BY <1>e, <2>1, <2>2, StreamSame
<1>2. CASE /\ Send(ack)
           /\ server' = [server EXCEPT !.state = "Connected", !.csn = 3, !.ssn = 3]
  <2>1. server'.ssn = 3 /\ server'.honest = server.honest
        /\ server'.key = server.key /\ server'.sck = server.sck
    BY <1>t, <1>2 DEF Servers
  <2>2. CASE state = "Error"
    BY <1>e, <2>2 DEF Stream
  <2>3. CASE state # "Error"
    <3>1. PICK L \in Nat : Following(L)
      BY <1>s, <2>3 DEF Stream, BadHello
    <3>2. L = 1 /\ server.honest
      BY <1>s, <3>1 DEF Following
    <3>3. SentMessage(L + 1)' = ack
      BY <2>1, <3>2 DEF SentMessage
    <3>4. \A n \in 1 .. L : SentMessage(n)' = SentMessage(n)
      BY <2>1, <3>2 DEF SentMessage
    <3>5. Encoded(ack) \in Seq(Units)
      <4>1. ack \in ServerMessages
        <5>1. server.sck \in Cookies
          BY <1>s, <3>2 DEF ServerPhase
        <5>2. QED BY <5>1, CspAssumption DEF LoginAck, ServerMessages, Nonce, Nonces
      <4>2. QED BY <4>1, EncodedType
    <3>6. Following(L + 1)'
      BY <1>e, <1>2, <2>1, <3>1, <3>2, <3>3, <3>4, <3>5, MessageAppended
    <3>7. L + 1 \in Nat
      OBVIOUS
    <3>8. QED BY <3>6, <3>7 DEF Stream
  <2>4. QED BY <2>2, <2>3
<1>3. QED BY <1>1, <1>2 DEF SrvLogin

\* Units behind those the client follows do not matter to it.
LEMMA UnreadAppended ==
    ASSUME TypeOK, NEW message, Encoded(message) \in Seq(Units),
           UNCHANGED <<state, decoder, ssn>>, Send(message)
    PROVE  /\ Read' = Read
           /\ Unread' \in Seq(Units)
           /\ Len(Unread') = Len(Unread) + Len(Encoded(message))
           /\ \A k \in 1 .. Len(Unread) : Unread'[k] = Unread[k]
           /\ \A i \in 1 .. Len(Encoded(message)) :
                  Unread'[Len(Unread) + i] = Encoded(message)[i]
<1> DEFINE e == Encoded(message)
<1>1. Read' = Read
  BY DEF Read, Before
<1>2. Unread \in Seq(Units) /\ decoder.data \in Seq(Units) /\ inbound \in Seq(Units)
  BY ReadType
<1>3. Unread' = Unread \o e
  <2>1. Unread' = decoder.data \o (inbound \o e)
    BY DEF Unread, Send
  <2>2. (decoder.data \o inbound) \o e = decoder.data \o (inbound \o e)
    BY <1>2, UnitsAssociative
  <2>3. QED BY <2>1, <2>2 DEF Unread
<1> HIDE DEF e
<1>4. e \in Seq(Units) /\ Len(e) \in Nat /\ Len(Unread) \in Nat
  BY <1>2 DEF e
<1>5. /\ Unread \o e \in Seq(Units) /\ Len(Unread \o e) = Len(Unread) + Len(e)
      /\ \A k \in 1 .. Len(Unread) + Len(e) :
             (Unread \o e)[k] = IF k <= Len(Unread) THEN Unread[k] ELSE e[k - Len(Unread)]
  BY <1>2, <1>4, UnitsConcat
<1>6. ASSUME NEW i \in 1 .. Len(e) PROVE Unread'[Len(Unread) + i] = e[i]
  BY <1>3, <1>4, <1>5
<1>7. QED BY <1>1, <1>3, <1>4, <1>5, <1>6 DEF e

LEMMA SendStream ==
    ASSUME TypeOK, ServerPhase, ClientPhase, Stream,
           NEW payload \in Incoming, SrvSend(payload)
    PROVE  Stream'
<1> DEFINE m == Payload(Nonce(server.sck, server.ssn), payload)
<1>t. server \in Servers /\ server.sck \in Cookies /\ server.ssn \in 3 .. MaxSeq
      /\ srvSent \in Seq(Incoming)
  BY DEF TypeOK, SrvSend
<1>e. /\ UNCHANGED <<state, decoder, ssn>> /\ Send(m)
      /\ srvSent' = Append(srvSent, payload)
  BY DEF SrvSend, protocolVars
<1>n. server'.ssn = server.ssn + 1 /\ server'.honest = server.honest
      /\ server'.key = server.key /\ server'.sck = server.sck
  BY <1>t DEF SrvSend, Servers
<1>s. state # "AwaitingServerHello" /\ Len(srvSent) = server.ssn - 3
  BY <1>t DEF SrvSend, ServerPhase, SaturatingSub
<1>u. Encoded(m) \in Seq(Units)
  <2>1. m \in ServerMessages
    BY <1>t DEF Payload, ServerMessages, Nonce, Nonces
  <2>2. QED BY <2>1, EncodedType
<1>x. PICK next \in 3 .. MaxSeq : next = server.ssn
  BY <1>t
<1>m. /\ \A n \in 1 .. next - 1 : SentMessage(n)' = SentMessage(n)
      /\ SentMessage(next)' = m
  <2>1. \A i \in 1 .. next - 3 : srvSent'[i] = srvSent[i]
    BY <1>t, <1>x, <1>e, <1>s
  <2>2. srvSent'[next - 2] = payload
    BY <1>t, <1>x, <1>e, <1>s
  <2>3. ASSUME NEW n \in 1 .. next - 1 PROVE SentMessage(n)' = SentMessage(n)
    <3>1. n \in {1, 2} \/ n - 2 \in 1 .. next - 3
      BY <1>x, CspAssumption
    <3>2. n - 2 \in 1 .. next - 3 => srvSent'[n - 2] = srvSent[n - 2]
      BY <2>1
    <3>3. QED BY <1>n, <3>1, <3>2 DEF SentMessage
  <2>4. SentMessage(next)' = m
    <3>1. SentMessage(next)' = Payload(Nonce(server'.sck, next), srvSent'[next - 2])
      BY <1>x DEF SentMessage
    <3>2. QED BY <1>x, <1>n, <2>2, <3>1
  <2>5. QED BY <2>3, <2>4
<1>1. CASE state = "Error"
  BY <1>e, <1>1 DEF Stream
<1>2. CASE state # "Error"
  <2>1. PICK L \in Nat : Following(L)
    BY <1>s, <1>2 DEF Stream, BadHello
  <2>2. L < next
    BY <1>x, <2>1 DEF Following
  <2>3. \A n \in 1 .. L : SentMessage(n)' = SentMessage(n)
    BY <1>x, <1>m, <2>2
  <2>4. CASE server.honest
    <3>1. L + 1 = next
      BY <1>x, <2>1, <2>4 DEF Following
    <3>2. SentMessage(L + 1)' = m /\ server'.ssn = L + 2
      BY <1>x, <1>m, <1>n, <3>1
    <3>3. Following(L + 1)'
      BY <1>e, <1>n, <1>u, <2>1, <2>3, <2>4, <3>2, MessageAppended
    <3>4. L + 1 \in Nat
      OBVIOUS
    <3>5. QED BY <3>3, <3>4 DEF Stream
  <2>5. CASE ~server.honest
    <3> HIDE DEF m
    <3>t. /\ Read \in Nat /\ Len(Unread) \in Nat /\ Len(Encoded(m)) \in Nat
      BY <1>u, ReadType
    <3>a. /\ Read' = Read /\ Unread' \in Seq(Units)
          /\ Len(Unread') = Len(Unread) + Len(Encoded(m))
          /\ \A k \in 1 .. Len(Unread) : Unread'[k] = Unread[k]
      BY <1>e, <1>u, UnreadAppended
    <3>1. Read' = Read + 0 /\ Len(Unread') \in Nat /\ Len(Unread') >= Len(Unread) - 0
      BY <3>t, <3>a
    <3>2. \A k \in 1 .. Len(Unread) : k > 0 => Unread'[k - 0] = Unread[k]
      BY <3>t, <3>a
    <3>3. (Genuine(L) => Genuine(L)') /\ (Repeated(L) => Repeated(L)')
      BY <2>3, <3>1, <3>2, StreamKept
    <3>4. Genuine(L) /\ Repeated(L) /\ L >= 2 /\ ssn <= L + 1
          /\ ((state = "PostHandshake" /\ decoder.state = "PartialFrame" /\ ssn <= L) =>
                  decoder.length = PayloadLength)
      BY <2>1, <2>5 DEF Following
    <3>5. L < server'.ssn
      BY <1>t, <1>x, <1>n, <2>2
    <3>6. Following(L)'
      BY <1>e, <1>n, <2>5, <3>3, <3>4, <3>5 DEF Following
    <3>7. QED BY <3>6 DEF Stream
  <2>6. QED BY <2>4, <2>5
<1>3. QED BY <1>1, <1>2

LEMMA RepeatStream ==
    ASSUME TypeOK, ServerPhase, ClientPhase, Stream,
           NEW payload \in Incoming, SrvRepeat(payload)
    PROVE  Stream'
<1> DEFINE m == Payload(Nonce(server.sck, server.ssn - 1), payload)
<1>t. server \in Servers /\ server.sck \in Cookies /\ server.ssn \in 3 .. MaxSeq
  BY DEF TypeOK, SrvRepeat
<1>e. UNCHANGED <<state, decoder, ssn, srvSent>> /\ Send(m)
  BY DEF SrvRepeat, protocolVars
<1>n. server'.ssn = server.ssn /\ ~server'.honest
      /\ server'.key = server.key /\ server'.sck = server.sck
  BY <1>t DEF SrvRepeat, Servers
<1>s. state # "AwaitingServerHello" /\ server.honest
  BY DEF SrvRepeat, ServerPhase
<1>u. Encoded(m) \in Seq(Units)
  <2>1. m \in ServerMessages
    <3>1. server.ssn - 1 \in 1 .. MaxSeq
      BY <1>t, CspAssumption
    <3>2. QED BY <1>t, <3>1 DEF Payload, ServerMessages, Nonce, Nonces
  <2>2. QED BY <2>1, EncodedType
<1>m. m.type = "Payload" /\ m.nonce.seq = server.ssn - 1
  BY DEF Payload, Nonce
<1> HIDE DEF m
<1>1. CASE state = "Error"
  BY <1>e, <1>1 DEF Stream
<1>2. CASE state # "Error"
  <2>1. PICK L \in Nat : Following(L)
    BY <1>s, <1>2 DEF Stream, BadHello
  <2>2. L + 1 = server.ssn /\ L >= 2 /\ Read + Len(Unread) = Before(L + 1)
    BY <1>s, <1>t, <2>1 DEF Following
  <2>t. Read \in Nat /\ Len(Unread) \in Nat /\ Len(Encoded(m)) \in Nat
    BY <1>u, ReadType
  <2>a. /\ Read' = Read /\ Unread' \in Seq(Units)
        /\ Len(Unread') = Len(Unread) + Len(Encoded(m))
        /\ \A k \in 1 .. Len(Unread) : Unread'[k] = Unread[k]
        /\ \A i \in 1 .. Len(Encoded(m)) : Unread'[Len(Unread) + i] = Encoded(m)[i]
    BY <1>e, <1>u, UnreadAppended
  <2>3. Genuine(L)'
    <3>1. Read' = Read + 0 /\ Len(Unread') \in Nat /\ Len(Unread') >= Len(Unread) - 0
      BY <2>t, <2>a
    <3>2. \A k \in 1 .. Len(Unread) : k > 0 => Unread'[k - 0] = Unread[k]
      BY <2>t, <2>a
    <3>3. \A n \in 1 .. L : SentMessage(n)' = SentMessage(n)
      BY <1>e, <1>n DEF SentMessage
    <3>4. Genuine(L) => Genuine(L)'
      BY <3>1, <3>2, <3>3, StreamKept
    <3>5. QED BY <2>1, <3>4 DEF Following
  <2>4. Repeated(L)'
    <3>1. Size(L + 1) = DelimiterLength + PayloadLength
      BY <2>2 DEF Size
    <3>2. Len(Encoded(m)) = Size(L + 1)
      BY <1>m, <3>1, PayloadUnits
    <3>3. \A i \in 1 .. Size(L + 1) : Encoded(m)[i].message = m
      <4>1. \A i \in 1 .. DelimiterLength : Encoded(m)[i] = Unit(m, i, PayloadLength)
        BY <1>m, PayloadUnits
      <4>2. \A i \in 1 .. PayloadLength :
                Encoded(m)[DelimiterLength + i] = Unit(m, DelimiterLength + i, 0)
        <5>1. LengthOf(m) = PayloadLength
          BY <1>m DEF LengthOf
        <5>2. \A i \in 1 .. PayloadLength : Encoded(m)[DelimiterLength + i] = Body(m)[i]
          BY <1>m, PayloadUnits
        <5>3. QED BY <5>1, <5>2, BodyUnits
      <4>3. ASSUME NEW i \in 1 .. Size(L + 1) PROVE Encoded(m)[i].message = m
        <5>1. CASE i <= DelimiterLength
          <6>1. i \in 1 .. DelimiterLength
            BY <3>1, <5>1, CspAssumption
          <6>2. Encoded(m)[i] = Unit(m, i, PayloadLength)
            BY <4>1, <6>1
          <6>3. QED BY <6>2 DEF Unit
        <5>2. CASE ~(i <= DelimiterLength)
          <6>1. /\ i - DelimiterLength \in 1 .. PayloadLength
                /\ DelimiterLength + (i - DelimiterLength) = i
            BY <3>1, <5>2, CspAssumption
          <6>2. Encoded(m)[i] = Unit(m, DelimiterLength + (i - DelimiterLength), 0)
            BY <4>2, <6>1
          <6>3. QED BY <6>2 DEF Unit
        <5>3. QED BY <5>1, <5>2
      <4>4. QED BY <4>3
    <3> SUFFICES ASSUME NEW i \in 1 .. Size(L + 1)
                 PROVE  /\ Position(L + 1, i)' <= Len(Unread')
                        /\ Unread'[Position(L + 1, i)'].message.nonce.seq = L
      BY DEF Repeated, Size
    <3>4. i \in Nat /\ Size(L + 1) \in Nat /\ Before(L + 1) \in Nat
      <4>1. L + 1 \in Nat \ {0}
        OBVIOUS
      <4>2. Size(L + 1) \in Nat /\ Before(L + 1) \in Nat
        BY <4>1, Places
      <4>3. QED BY <4>2
    <3>5. Position(L + 1, i)' = Len(Unread) + i
      <4>1. Position(L + 1, i)' = Before(L + 1) + i - Read'
        BY DEF Position, Before
      <4>2. QED BY <2>2, <2>t, <2>a, <3>4, <4>1
    <3>6. m.nonce.seq = L
      BY <1>m, <2>2
    <3>7. QED BY <2>t, <2>a, <3>2, <3>3, <3>4, <3>5, <3>6
  <2>5. ssn <= L + 1
        /\ ((state = "PostHandshake" /\ decoder.state = "PartialFrame" /\ ssn <= L) =>
                decoder.length = PayloadLength)
    BY <2>1 DEF Following
  <2>6. Following(L)'
    BY <1>e, <1>n, <2>2, <2>3, <2>4, <2>5 DEF Following
  <2>7. QED BY <2>6 DEF Stream
<1>3. QED BY <1>1, <1>2

-----------------------------------------------------------------------------
(* The two ends, step by step                                              *)

\* A step that leaves what they are made of alone keeps the phases and what is
\* on its way up.
LEMMA EndsSame ==
    ASSUME ServerPhase, ClientPhase, Upward,
           UNCHANGED <<state, ssn, csn, delivered, accepted, up, srvSent, srvReceived, server>>,
           failed => failed'
    PROVE  ServerPhase' /\ ClientPhase' /\ Upward'
<1>1. ServerPhase'
  BY DEF ServerPhase
<1>2. ClientPhase'
  BY DEF ClientPhase
<1>3. Upward'
  BY DEF Upward
<1>4. QED BY <1>1, <1>2, <1>3

LEMMA EndsFail ==
    ASSUME TypeOK, ServerPhase, ClientPhase, Upward, Fail, UNCHANGED serverVars,
           server.state # "AwaitingClientHello"
    PROVE  ServerPhase' /\ ClientPhase' /\ Upward'
<1>1. ServerPhase'
  BY DEF ServerPhase, Fail, serverVars
<1>2. ClientPhase'
  BY DEF ClientPhase, Fail
<1>3. Upward'
  BY DEF Upward, Fail, serverVars
<1>4. QED BY <1>1, <1>2, <1>3

LEMMA EndsPollHello ==
    ASSUME TypeOK, LoginInv, ServerPhase, ClientPhase, Upward, PollAwaitingServerHello
    PROVE  ServerPhase' /\ ClientPhase' /\ Upward'
<1>1. server.state # "AwaitingClientHello"
  <2>1. Len(decoder.data) >= HelloLength /\ HelloLength \in Nat \ {0}
    BY CspAssumption DEF PollAwaitingServerHello, FixedHasFrame
  <2>2. decoder.data # <<>>
    BY <2>1
  <2>3. QED BY <2>2 DEF LoginInv
<1>2. CASE Fail
  BY <1>1, <1>2, EndsFail DEF PollAwaitingServerHello
<1>3. CASE ~Fail
  <2> DEFINE message == First(decoder.data, HelloLength)[1].message
             login == [type |-> "Login",
                       data |-> Nonce(CCK, 1), extensions |-> Nonce(CCK, 2),
                       repeated |-> message.sck,
                       vouch |-> [key |-> message.key, sck |-> message.sck]]
  <2>1. /\ state = "AwaitingServerHello" /\ state' = "AwaitingLoginAck"
        /\ ssn' = 2 /\ csn' = 3 /\ up' = Append(up, login)
        /\ UNCHANGED <<failed, delivered, accepted, server, srvSent, srvReceived>>
    BY <1>3 DEF PollAwaitingServerHello, serverVars
  <2> HIDE DEF login
  <2>2. up \in Seq(ClientFrames)
    BY DEF TypeOK
  <2>3. server.state = "AwaitingLogin" => Len(up') <= 1
    <3> SUFFICES ASSUME server.state = "AwaitingLogin" PROVE Len(up') <= 1
      OBVIOUS
    <3>1. up = <<>>
      BY <2>1 DEF ServerPhase
    <3>2. QED BY <2>1, <3>1
  <2>4. ServerPhase'
    BY <1>1, <2>1, <2>3 DEF ServerPhase
  <2>5. ClientPhase'
    BY <2>1 DEF ClientPhase, SaturatingSub
  <2>6. Upward'
    BY <2>1 DEF ServerPhase, Upward
  <2>7. QED BY <2>4, <2>5, <2>6
<1>4. QED BY <1>2, <1>3

LEMMA EndsPollAck ==
    ASSUME TypeOK, ServerPhase, ClientPhase, Upward, PollAwaitingLoginAck,
           state' # "Error" => server.ssn >= 3
    PROVE  ServerPhase' /\ ClientPhase' /\ Upward'
<1>1. state = "AwaitingLoginAck" /\ server.state # "AwaitingClientHello"
  BY DEF PollAwaitingLoginAck, ServerPhase
<1>2. CASE Fail
  BY <1>1, <1>2, EndsFail DEF PollAwaitingLoginAck
<1>3. CASE ~Fail
  <2>1. /\ state' = "PostHandshake" /\ ssn' = ssn + 1 /\ ssn = 2
        /\ UNCHANGED <<csn, up, failed, delivered, accepted, server, srvSent, srvReceived>>
    BY <1>1, <1>3 DEF PollAwaitingLoginAck, serverVars, ClientPhase
  <2>2. server.ssn >= 3 /\ server.ssn # 2
    BY <2>1
  <2>3. ServerPhase'
    BY <1>1, <2>1, <2>2 DEF ServerPhase
  <2>4. ClientPhase'
    BY <1>1, <2>1 DEF ClientPhase, SaturatingSub
  <2>5. Upward'
    BY <1>1, <2>1 DEF Upward
  <2>6. QED BY <2>3, <2>4, <2>5
<1>4. QED BY <1>2, <1>3

LEMMA EndsPollPayload ==
    ASSUME TypeOK, ServerPhase, ClientPhase, Upward, PollPostHandshake,
           ssn' # ssn => /\ ssn' = ssn + 1
                         /\ delivered' = Append(delivered, srvSent[Len(delivered) + 1])
    PROVE  ServerPhase' /\ ClientPhase' /\ Upward'
<1>1. state = "PostHandshake" /\ server.state # "AwaitingClientHello" /\ ssn \in Nat
  BY DEF PollPostHandshake, ServerPhase, TypeOK
<1>2. CASE Fail
  BY <1>1, <1>2, EndsFail DEF PollPostHandshake
<1>3. CASE ~Fail
  <2>1. /\ UNCHANGED <<state, csn, up, failed, accepted, server, srvSent, srvReceived>>
        /\ ssn' = ssn => delivered' = delivered
    BY <1>1, <1>3 DEF PollPostHandshake, serverVars
  <2>2. CASE ssn' = ssn
    BY <2>1, <2>2, EndsSame
  <2>3. CASE ssn' # ssn
    <3>1. ssn' = ssn + 1 /\ Len(delivered') = Len(delivered) + 1
      BY <2>3 DEF TypeOK
    <3>2. ServerPhase'
      BY <2>1 DEF ServerPhase
    <3>3. ClientPhase'
      BY <1>1, <2>1, <3>1 DEF ClientPhase, SaturatingSub
    <3>4. Upward'
      BY <2>1 DEF Upward
    <3>5. QED BY <3>2, <3>3, <3>4
  <2>4. QED BY <2>2, <2>3
<1>4. QED BY <1>2, <1>3

LEMMA EndsCreate ==
    ASSUME TypeOK, ServerPhase, ClientPhase, Upward,
           NEW payload \in Outgoing, CreatePayload(payload)
    PROVE  ServerPhase' /\ ClientPhase' /\ Upward'
<1> DEFINE frame == Payload(Nonce(CCK, csn), payload)
<1>t. /\ up \in Seq(ClientFrames) /\ accepted \in Seq(Outgoing \ Oversized)
      /\ srvReceived \in Seq(Outgoing) /\ csn \in Nat /\ server.csn \in Nat
  BY DEF TypeOK, Servers
<1>u. UNCHANGED <<state, ssn, delivered, server, srvSent, srvReceived>>
  BY DEF CreatePayload, serverVars
<1>1. CASE state # "PostHandshake" \/ ~HasNext(csn)
  <2>1. UNCHANGED <<csn, accepted, up>> /\ failed'
    BY <1>1 DEF CreatePayload
  <2>2. QED BY <1>u, <2>1, EndsSame
<1>2. CASE ~(state # "PostHandshake" \/ ~HasNext(csn)) /\ payload \in Oversized
  <2>1. failed' /\ UNCHANGED <<accepted, up>> /\ state = "PostHandshake"
    BY <1>2 DEF CreatePayload
  <2>2. ServerPhase'
    BY <1>u, <2>1 DEF ServerPhase
  <2>3. ClientPhase'
    BY <1>u, <2>1 DEF ClientPhase
  <2>4. Upward'
    BY <1>u, <2>1 DEF Upward
  <2>5. QED BY <2>2, <2>3, <2>4
<1>3. CASE ~(state # "PostHandshake" \/ ~HasNext(csn)) /\ payload \notin Oversized
  <2>1. /\ state = "PostHandshake" /\ csn' = csn + 1
        /\ accepted' = Append(accepted, payload) /\ up' = Append(up, frame)
        /\ UNCHANGED failed
    BY <1>3 DEF CreatePayload, HasNext, Increment
  <2>2. ServerPhase'
    BY <1>u, <2>1 DEF ServerPhase
  <2>3. ClientPhase'
    BY <1>u, <2>1 DEF ClientPhase
  <2>f. frame.type = "Payload" /\ frame.payload = payload /\ frame.nonce = Nonce(CCK, csn)
    BY DEF Payload
  <2> HIDE DEF frame
  <2>4. /\ Len(up') = Len(up) + 1 /\ Len(up) \in Nat
        /\ \A i \in 1 .. Len(up) : up'[i] = up[i]
        /\ up'[Len(up) + 1] = frame
    BY <1>t, <2>1
  <2>5. /\ Len(accepted') = Len(accepted) + 1 /\ Len(accepted) \in Nat
        /\ \A i \in 1 .. Len(accepted) : accepted'[i] = accepted[i]
        /\ accepted'[Len(accepted) + 1] = payload
    BY <1>t, <2>1
  <2>6. Upward'
    <3> SUFFICES ASSUME server.state = "Connected"
                 PROVE  /\ Len(accepted') = Len(srvReceived) + Len(up')
                        /\ \A i \in 1 .. Len(srvReceived) : accepted'[i] = srvReceived[i]
                        /\ \A i \in 1 .. Len(up') :
                               /\ up'[i].type = "Payload"
                               /\ accepted'[Len(srvReceived) + i] = up'[i].payload
                        /\ ~failed =>
                               /\ csn' = server.csn + Len(up')
                               /\ \A i \in 1 .. Len(up') :
                                      up'[i].nonce = Nonce(CCK, server.csn + i - 1)
      BY <1>u, <2>1 DEF Upward
    <3>1. /\ Len(accepted) = Len(srvReceived) + Len(up)
          /\ \A i \in 1 .. Len(srvReceived) : accepted[i] = srvReceived[i]
          /\ \A i \in 1 .. Len(up) :
                 up[i].type = "Payload" /\ accepted[Len(srvReceived) + i] = up[i].payload
          /\ ~failed =>
                 /\ csn = server.csn + Len(up)
                 /\ \A i \in 1 .. Len(up) : up[i].nonce = Nonce(CCK, server.csn + i - 1)
      BY <2>1 DEF Upward
    <3>2. Len(srvReceived) \in Nat
      BY <1>t
    <3>3. Len(accepted') = Len(srvReceived) + Len(up')
      BY <2>4, <2>5, <3>1, <3>2
    <3>4. \A i \in 1 .. Len(srvReceived) : accepted'[i] = srvReceived[i]
      BY <2>4, <2>5, <3>1, <3>2
    <3>5. ASSUME NEW i \in 1 .. Len(up')
          PROVE  /\ up'[i].type = "Payload"
                 /\ accepted'[Len(srvReceived) + i] = up'[i].payload
                 /\ ~failed => up'[i].nonce = Nonce(CCK, server.csn + i - 1)
      <4>1. CASE i \in 1 .. Len(up)
        <5>1. Len(srvReceived) + i \in 1 .. Len(accepted)
          BY <2>4, <3>1, <3>2, <4>1
        <5>2. QED BY <2>4, <2>5, <3>1, <4>1, <5>1
      <4>2. CASE i = Len(up) + 1
        <5>1. Len(srvReceived) + i = Len(accepted) + 1
          BY <2>4, <3>1, <3>2, <4>2
        <5>2. ~failed => csn = server.csn + i - 1
          BY <1>t, <2>4, <3>1, <4>2
        <5>3. QED BY <2>4, <2>5, <2>f, <4>2, <5>1, <5>2
      <4>3. QED BY <2>4, <4>1, <4>2
    <3>6. ~failed => csn' = server.csn + Len(up')
      BY <1>t, <2>1, <2>4, <3>1
    <3>7. QED BY <3>3, <3>4, <3>5, <3>6
  <2>7. QED BY <2>2, <2>3, <2>6
<1>4. QED BY <1>1, <1>2, <1>3

LEMMA EndsHello ==
    ASSUME TypeOK, ServerPhase, ClientPhase, Upward,
           NEW key \in Keys, NEW cookie \in Cookies, NEW repeated \in Cookies,
           SrvHello(key, cookie, repeated)
    PROVE  ServerPhase' /\ ClientPhase' /\ Upward'
<1>1. /\ server.state = "AwaitingClientHello" /\ server.ssn = 1
      /\ state = "AwaitingServerHello" /\ Len(up) <= 1 /\ up # <<>>
      /\ up \in Seq(ClientFrames)
  BY DEF SrvHello, ServerPhase, TypeOK
<1>2. /\ up' = Tail(up)
      /\ UNCHANGED <<state, ssn, csn, failed, delivered, accepted, srvSent, srvReceived>>
  BY DEF SrvHello, protocolVars, callerVars
<1>3. /\ server'.state = "AwaitingLogin" /\ server'.ssn = 2
      /\ server'.key = key /\ server'.sck = cookie
      /\ server'.honest = (key \in PermanentKeys /\ cookie # CCK /\ repeated = CCK)
  BY DEF SrvHello, TypeOK, Servers
<1>4. up' = <<>>
  BY <1>1, <1>2
<1>5. ServerPhase'
  <2>1. Len(srvSent') = SaturatingSub(server'.ssn, 3)
    BY <1>1, <1>2, <1>3 DEF ServerPhase, SaturatingSub
  <2>2. srvReceived' = <<>> /\ accepted' = <<>> /\ Len(up') <= 1
    BY <1>1, <1>2, <1>4 DEF ServerPhase
  <2>3. server'.honest => server'.key \in PermanentKeys /\ server'.sck \in Cookies \ {CCK}
    BY <1>3
  <2>4. QED BY <1>1, <1>2, <1>3, <1>4, <2>1, <2>2, <2>3 DEF ServerPhase
<1>6. ClientPhase'
  BY <1>2 DEF ClientPhase
<1>7. Upward'
  BY <1>3 DEF Upward
<1>8. QED BY <1>5, <1>6, <1>7

LEMMA EndsLogin ==
    ASSUME TypeOK, ServerPhase, ClientPhase, Upward, SrvLogin
    PROVE  ServerPhase' /\ ClientPhase' /\ Upward'
<1>1. /\ server.state = "AwaitingLogin" /\ server.ssn = 2 /\ state # "PostHandshake"
      /\ state # "AwaitingServerHello" /\ Len(up) <= 1 /\ up # <<>>
      /\ up \in Seq(ClientFrames) /\ server \in Servers
      /\ srvReceived = <<>> /\ accepted = <<>>
  BY DEF SrvLogin, ServerPhase, TypeOK
<1>2. /\ up' = Tail(up)
      /\ UNCHANGED <<state, ssn, csn, failed, delivered, accepted, srvSent, srvReceived>>
  BY DEF SrvLogin, protocolVars, callerVars
<1>3. up' = <<>>
  BY <1>1, <1>2
<1>4. ClientPhase'
  BY <1>2 DEF ClientPhase
<1>5. CASE server' = [server EXCEPT !.state = "Closed"]
  <2>1. /\ server'.state = "Closed" /\ server'.ssn = server.ssn /\ server'.key = server.key
        /\ server'.sck = server.sck /\ server'.honest = server.honest
    BY <1>1, <1>5 DEF Servers
  <2>2. ServerPhase'
    BY <1>1, <1>2, <2>1 DEF ServerPhase
  <2>3. Upward'
    BY <2>1 DEF Upward
  <2>4. QED BY <1>4, <2>2, <2>3
<1>6. CASE server' = [server EXCEPT !.state = "Connected", !.csn = 3, !.ssn = 3]
  <2>1. /\ server'.state = "Connected" /\ server'.ssn = 3 /\ server'.csn = 3
        /\ server'.key = server.key /\ server'.sck = server.sck
        /\ server'.honest = server.honest
    BY <1>1, <1>6 DEF Servers
  <2>2. ServerPhase'
    BY <1>1, <1>2, <2>1 DEF ServerPhase, SaturatingSub
  <2>3. Upward'
    <3>1. Len(up') = 0 /\ Len(accepted') = 0 /\ Len(srvReceived') = 0
      BY <1>1, <1>2, <1>3
    <3>2. state' \in {"AwaitingLoginAck", "PostHandshake"} => csn' = 3
      BY <1>1, <1>2 DEF ClientPhase
    <3>3. QED BY <2>1, <3>1, <3>2 DEF Upward
  <2>4. QED BY <1>4, <2>2, <2>3
<1>7. QED BY <1>5, <1>6 DEF SrvLogin

LEMMA EndsSend ==
    ASSUME TypeOK, ServerPhase, ClientPhase, Upward,
           NEW payload \in Incoming, SrvSend(payload) \/ SrvRepeat(payload)
    PROVE  ServerPhase' /\ ClientPhase' /\ Upward'
<1>1. /\ server.state = "Connected" /\ server \in Servers /\ server.ssn \in 3 .. MaxSeq
      /\ server.ssn \in Nat
  BY DEF SrvSend, SrvRepeat, TypeOK
<1>2. UNCHANGED <<state, ssn, csn, failed, delivered, accepted, up, srvReceived>>
  BY DEF SrvSend, SrvRepeat, protocolVars, callerVars
<1>3. /\ server'.state = "Connected" /\ server'.csn = server.csn
      /\ server'.key = server.key /\ server'.sck = server.sck
      /\ server'.honest => server.honest
  BY <1>1 DEF SrvSend, SrvRepeat, Servers
<1>4. Len(srvSent') = SaturatingSub(server'.ssn, 3)
  <2>1. Len(srvSent) = server.ssn - 3 /\ srvSent \in Seq(Incoming)
    BY <1>1 DEF ServerPhase, SaturatingSub, TypeOK
  <2>2. CASE SrvSend(payload)
    <3>1. srvSent' = Append(srvSent, payload) /\ server'.ssn = server.ssn + 1
      BY <1>1, <2>2 DEF SrvSend, Servers
    <3>2. QED BY <1>1, <2>1, <3>1 DEF SaturatingSub
  <2>3. CASE SrvRepeat(payload)
    <3>1. srvSent' = srvSent /\ server'.ssn = server.ssn
      BY <1>1, <2>3 DEF SrvRepeat, Servers
    <3>2. QED BY <1>1, <2>1, <3>1 DEF SaturatingSub
  <2>4. QED BY <2>2, <2>3
<1>5. ServerPhase'
  BY <1>1, <1>2, <1>3, <1>4 DEF ServerPhase
<1>6. ClientPhase'
  BY <1>2 DEF ClientPhase
<1>7. Upward'
  BY <1>1, <1>2, <1>3 DEF Upward
<1>8. QED BY <1>5, <1>6, <1>7

\* The box the server opens holds the oldest payload it has not received yet.
LEMMA EndsReceive ==
    ASSUME TypeOK, ServerPhase, ClientPhase, Upward, SrvReceive
    PROVE  /\ ServerPhase' /\ ClientPhase' /\ Upward'
           /\ srvReceived' # srvReceived =>
                  /\ Len(srvReceived) < Len(accepted)
                  /\ srvReceived' = Append(srvReceived, accepted[Len(srvReceived) + 1])
<1>1. /\ server.state = "Connected" /\ server \in Servers /\ server.csn \in Nat
      /\ up \in Seq(ClientFrames) /\ up # <<>> /\ srvReceived \in Seq(Outgoing)
      /\ accepted \in Seq(Outgoing \ Oversized)
  BY DEF SrvReceive, TypeOK, Servers
<1>2. /\ up' = Tail(up)
      /\ UNCHANGED <<state, ssn, csn, failed, delivered, accepted, srvSent>>
  BY DEF SrvReceive, protocolVars, callerVars
<1>3. ClientPhase'
  BY <1>2 DEF ClientPhase
<1>4. CASE server' = [server EXCEPT !.state = "Closed"] /\ UNCHANGED srvReceived
  <2>1. /\ server'.state = "Closed" /\ server'.ssn = server.ssn /\ server'.key = server.key
        /\ server'.sck = server.sck /\ server'.honest = server.honest
    BY <1>1, <1>4 DEF Servers
  <2>2. ServerPhase'
    BY <1>1, <1>2, <2>1 DEF ServerPhase
  <2>3. Upward'
    BY <2>1 DEF Upward
  <2>4. QED BY <1>3, <1>4, <2>2, <2>3
<1>5. CASE /\ srvReceived' = Append(srvReceived, Head(up).payload)
           /\ server' = [server EXCEPT !.csn = @ + 1]
  <2>1. /\ server'.state = "Connected" /\ server'.ssn = server.ssn /\ server'.key = server.key
        /\ server'.sck = server.sck /\ server'.honest = server.honest
        /\ server'.csn = server.csn + 1
    BY <1>1, <1>5 DEF Servers
  <2>2. ServerPhase'
    BY <1>1, <1>2, <2>1 DEF ServerPhase
  <2>3. /\ Len(accepted) = Len(srvReceived) + Len(up)
        /\ \A i \in 1 .. Len(srvReceived) : accepted[i] = srvReceived[i]
        /\ \A i \in 1 .. Len(up) :
               up[i].type = "Payload" /\ accepted[Len(srvReceived) + i] = up[i].payload
    BY <1>1 DEF Upward
  <2>4. /\ Len(up) \in Nat \ {0} /\ Len(srvReceived) \in Nat
        /\ Head(up) = up[1]
        /\ Len(up') = Len(up) - 1
        /\ \A i \in 1 .. Len(up) - 1 : up'[i] = up[i + 1]
    BY <1>1, <1>2
  <2>5. /\ srvReceived' = Append(srvReceived, accepted[Len(srvReceived) + 1])
        /\ Len(srvReceived) < Len(accepted)
    BY <1>5, <2>3, <2>4
  <2>6. /\ Len(srvReceived') = Len(srvReceived) + 1
        /\ \A i \in 1 .. Len(srvReceived) : srvReceived'[i] = srvReceived[i]
        /\ srvReceived'[Len(srvReceived) + 1] = accepted[Len(srvReceived) + 1]
    <3> DEFINE payload == accepted[Len(srvReceived) + 1]
    <3>1. srvReceived' = Append(srvReceived, payload)
      BY <2>5
    <3> HIDE DEF payload
    <3>2. /\ Len(srvReceived') = Len(srvReceived) + 1
          /\ \A i \in 1 .. Len(srvReceived) : srvReceived'[i] = srvReceived[i]
          /\ srvReceived'[Len(srvReceived) + 1] = payload
      BY <1>1, <3>1
    <3>3. QED BY <3>2 DEF payload
  <2>7. Len(accepted) = Len(srvReceived') + Len(up')
    BY <2>3, <2>4, <2>6
  <2>8. ASSUME NEW i \in 1 .. Len(srvReceived') PROVE accepted[i] = srvReceived'[i]
    <3>1. i \in 1 .. Len(srvReceived) \/ i = Len(srvReceived) + 1
      BY <2>4, <2>6
    <3>2. QED BY <2>3, <2>6, <3>1
  <2>9. ASSUME NEW i \in 1 .. Len(up')
        PROVE  up'[i].type = "Payload" /\ accepted[Len(srvReceived') + i] = up'[i].payload
    <3>1. i + 1 \in 1 .. Len(up) /\ up'[i] = up[i + 1]
          /\ Len(srvReceived') + i = Len(srvReceived) + (i + 1)
      BY <2>4, <2>6
    <3>2. QED BY <2>3, <3>1
  <2>10. ASSUME ~failed, state \in {"AwaitingLoginAck", "PostHandshake"}
         PROVE  /\ csn = server'.csn + Len(up')
                /\ \A i \in 1 .. Len(up') : up'[i].nonce = Nonce(CCK, server'.csn + i - 1)
    <3>1. /\ csn = server.csn + Len(up)
          /\ \A i \in 1 .. Len(up) : up[i].nonce = Nonce(CCK, server.csn + i - 1)
      BY <1>1, <2>10 DEF Upward
    <3>2. csn = server'.csn + Len(up')
      BY <1>1, <2>1, <2>4, <3>1
    <3>3. ASSUME NEW i \in 1 .. Len(up')
          PROVE  up'[i].nonce = Nonce(CCK, server'.csn + i - 1)
      <4>1. i + 1 \in 1 .. Len(up) /\ up'[i] = up[i + 1]
            /\ server'.csn + i - 1 = server.csn + (i + 1) - 1
        BY <1>1, <2>1, <2>4
      <4>2. QED BY <3>1, <4>1
    <3>4. QED BY <3>2, <3>3
  <2>11. Upward'
    BY <1>2, <2>7, <2>8, <2>9, <2>10 DEF Upward
  <2>12. QED BY <1>3, <2>2, <2>5, <2>11
<1>6. QED BY <1>4, <1>5 DEF SrvReceive

-----------------------------------------------------------------------------
(* Nothing is lost                                                         *)

\* Once a server misbehaves or sends what cannot be decoded, it has done so.
LEMMA FollowsProtocolBefore ==
    ASSUME TypeOK, ServerPhase, [Next]_vars, FollowsProtocol'
    PROVE  FollowsProtocol
<1>t. server \in Servers /\ srvSent \in Seq(Incoming)
  BY DEF TypeOK
<1>1. ASSUME UNCHANGED <<server, srvSent>> PROVE FollowsProtocol
  BY <1>1 DEF FollowsProtocol
<1>2. ASSUME server'.honest = server.honest, srvSent' = srvSent PROVE FollowsProtocol
  BY <1>2 DEF FollowsProtocol
<1>3. ASSUME NEW n \in 1 .. Len(inbound), AddChunks(n) PROVE FollowsProtocol
  BY <1>1, <1>3 DEF AddChunks, serverVars
<1>4. ASSUME Poll PROVE FollowsProtocol
  BY <1>1, <1>4 DEF Poll, PollAwaitingServerHello, PollAwaitingLoginAck,
                    PollPostHandshake, PollError, serverVars
<1>5. ASSUME NEW payload \in Outgoing, CreatePayload(payload) PROVE FollowsProtocol
  BY <1>1, <1>5 DEF CreatePayload, serverVars
<1>6. ASSUME NEW key \in Keys, NEW cookie \in Cookies, NEW repeated \in Cookies,
             SrvHello(key, cookie, repeated)
      PROVE FollowsProtocol
  BY <1>6 DEF SrvHello, ServerPhase, FollowsProtocol
<1>7. ASSUME SrvLogin \/ SrvReceive \/ SrvClose PROVE FollowsProtocol
  <2>1. server'.honest = server.honest /\ srvSent' = srvSent
    BY <1>t, <1>7 DEF SrvLogin, SrvReceive, SrvClose, Servers
  <2>2. QED BY <1>2, <2>1
<1>8. ASSUME NEW payload \in Incoming, SrvSend(payload) PROVE FollowsProtocol
  <2>1. server'.honest = server.honest /\ srvSent' = Append(srvSent, payload)
    BY <1>t, <1>8 DEF SrvSend, Servers
  <2>2. \A i \in 1 .. Len(srvSent) : i \in 1 .. Len(srvSent') /\ srvSent'[i] = srvSent[i]
    BY <1>t, <2>1
  <2>3. QED BY <2>1, <2>2 DEF FollowsProtocol
<1>9. ASSUME NEW payload \in Incoming, SrvRepeat(payload) PROVE FollowsProtocol
  BY <1>t, <1>9 DEF SrvRepeat, FollowsProtocol, Servers
<1>10. CASE UNCHANGED vars
  BY <1>1, <1>10 DEF vars, serverVars
<1>11. QED
  BY <1>3, <1>4, <1>5, <1>6, <1>7, <1>8, <1>9, <1>10 DEF Next

LEMMA ChannelStep == TypeOK /\ LoginInv /\ ChannelInv /\ [Next]_vars => ChannelInv'
<1> SUFFICES ASSUME TypeOK, LoginInv, ChannelInv, [Next]_vars PROVE ChannelInv'
  OBVIOUS
<1>i. ServerPhase /\ ClientPhase /\ Stream /\ Upward /\ NoSpuriousError
  BY DEF ChannelInv
<1>t. server \in Servers
  BY DEF TypeOK
<1>f. FollowsProtocol' => FollowsProtocol
  BY <1>i, FollowsProtocolBefore
<1>n. (FollowsProtocol => state # "Error") <=> NoSpuriousError
  BY DEF FollowsProtocol, NoSpuriousError
<1>m. (FollowsProtocol' => state' # "Error") <=> NoSpuriousError'
  BY DEF FollowsProtocol, NoSpuriousError
<1>0. ASSUME state' = state PROVE NoSpuriousError'
  BY <1>0, <1>i, <1>f, <1>n, <1>m
<1>1. ASSUME NEW n \in 1 .. Len(inbound), AddChunks(n) PROVE ChannelInv'
  <2>1. /\ UNCHANGED <<state, ssn, csn, delivered, accepted, up, srvSent, srvReceived, server>>
        /\ failed => failed'
    BY <1>1 DEF AddChunks, serverVars
  <2>2. ServerPhase' /\ ClientPhase' /\ Upward'
    BY <1>i, <2>1, EndsSame
  <2>3. Stream'
    BY <1>1, <1>i, ChunksKeepStream
  <2>4. QED BY <1>0, <2>1, <2>2, <2>3 DEF ChannelInv
<1>2. ASSUME PollAwaitingServerHello PROVE ChannelInv'
  <2>1. Stream' /\ (FollowsProtocol => state' # "Error")
    BY <1>2, <1>i, PollHelloStream
  <2>2. ServerPhase' /\ ClientPhase' /\ Upward'
    BY <1>2, <1>i, EndsPollHello
  <2>3. QED BY <1>f, <1>m, <2>1, <2>2 DEF ChannelInv
<1>3. ASSUME PollAwaitingLoginAck PROVE ChannelInv'
  <2>1. /\ Stream' /\ (FollowsProtocol => state' # "Error")
        /\ state' # "Error" => server.ssn >= 3
    BY <1>3, <1>i, PollAckStream
  <2>2. ServerPhase' /\ ClientPhase' /\ Upward'
    BY <1>3, <1>i, <2>1, EndsPollAck
  <2>3. QED BY <1>f, <1>m, <2>1, <2>2 DEF ChannelInv
<1>4. ASSUME PollPostHandshake PROVE ChannelInv'
  <2>1. /\ Stream' /\ (FollowsProtocol => state' # "Error")
        /\ ssn' # ssn => /\ ssn' = ssn + 1
                         /\ delivered' = Append(delivered, srvSent[Len(delivered) + 1])
    BY <1>4, <1>i, PollPayloadStream
  <2>2. ServerPhase' /\ ClientPhase' /\ Upward'
    BY <1>4, <1>i, <2>1, EndsPollPayload
  <2>3. QED BY <1>f, <1>m, <2>1, <2>2 DEF ChannelInv
<1>5. ASSUME PollError \/ UNCHANGED vars PROVE ChannelInv'
  <2>1. /\ UNCHANGED <<state, ssn, csn, delivered, accepted, up, srvSent, srvReceived, server>>
        /\ UNCHANGED <<decoder, inbound>>
        /\ failed => failed'
    BY <1>5 DEF PollError, vars, protocolVars, callerVars, serverVars
  <2>2. ServerPhase' /\ ClientPhase' /\ Upward'
    BY <1>i, <2>1, EndsSame
  <2>3. Unread' = Unread
    BY <2>1 DEF Unread
  <2>4. Stream'
    BY <1>i, <2>1, <2>3, StreamSame
  <2>5. QED BY <1>0, <2>1, <2>2, <2>4 DEF ChannelInv
<1>6. ASSUME NEW payload \in Outgoing, CreatePayload(payload) PROVE ChannelInv'
  <2>1. UNCHANGED <<state, decoder, ssn, inbound, server, srvSent>>
    BY <1>6 DEF CreatePayload, serverVars
  <2>2. ServerPhase' /\ ClientPhase' /\ Upward'
    BY <1>6, <1>i, EndsCreate
  <2>3. Unread' = Unread
    BY <2>1 DEF Unread
  <2>4. Stream'
    BY <1>i, <2>1, <2>3, StreamSame
  <2>5. QED BY <1>0, <2>1, <2>2, <2>4 DEF ChannelInv
<1>7. ASSUME NEW key \in Keys, NEW cookie \in Cookies, NEW repeated \in Cookies,
             SrvHello(key, cookie, repeated)
      PROVE ChannelInv'
  <2>1. Stream'
    BY <1>7, <1>i, HelloStream
  <2>2. ServerPhase' /\ ClientPhase' /\ Upward'
    BY <1>7, <1>i, EndsHello
  <2>3. state' = state
    BY <1>7 DEF SrvHello, protocolVars
  <2>4. QED BY <1>0, <2>1, <2>2, <2>3 DEF ChannelInv
<1>8. ASSUME SrvLogin PROVE ChannelInv'
  <2>1. Stream'
    BY <1>8, <1>i, LoginStream
  <2>2. ServerPhase' /\ ClientPhase' /\ Upward'
    BY <1>8, <1>i, EndsLogin
  <2>3. state' = state
    BY <1>8 DEF SrvLogin, protocolVars
  <2>4. QED BY <1>0, <2>1, <2>2, <2>3 DEF ChannelInv
<1>9. ASSUME NEW payload \in Incoming, SrvSend(payload) \/ SrvRepeat(payload)
      PROVE ChannelInv'
  <2>1. Stream'
    BY <1>9, <1>i, SendStream, RepeatStream
  <2>2. ServerPhase' /\ ClientPhase' /\ Upward'
    BY <1>9, <1>i, EndsSend
  <2>3. state' = state
    BY <1>9 DEF SrvSend, SrvRepeat, protocolVars
  <2>4. QED BY <1>0, <2>1, <2>2, <2>3 DEF ChannelInv
<1>10. ASSUME SrvReceive PROVE ChannelInv'
  <2>1. /\ UNCHANGED <<state, ssn, decoder, inbound, srvSent>>
        /\ server'.ssn = server.ssn /\ server'.honest = server.honest
        /\ server'.key = server.key /\ server'.sck = server.sck
    BY <1>t, <1>10 DEF SrvReceive, protocolVars, Servers
  <2>2. Unread' = Unread
    BY <2>1 DEF Unread
  <2>3. Stream'
    BY <1>i, <2>1, <2>2, StreamSame
  <2>4. ServerPhase' /\ ClientPhase' /\ Upward'
    BY <1>10, <1>i, EndsReceive
  <2>5. QED BY <1>0, <2>1, <2>3, <2>4 DEF ChannelInv
<1>11. ASSUME SrvClose PROVE ChannelInv'
  <2>1. /\ UNCHANGED <<state, ssn, csn, failed, decoder, inbound, srvSent, delivered, srvReceived>>
        /\ UNCHANGED <<accepted, up>>
        /\ server'.state = "Closed"
        /\ server'.ssn = server.ssn /\ server'.honest = server.honest
        /\ server'.key = server.key /\ server'.sck = server.sck
    BY <1>t, <1>11 DEF SrvClose, protocolVars, callerVars, Servers
  <2>2. Unread' = Unread
    BY <2>1 DEF Unread
  <2>3. Stream'
    BY <1>i, <2>1, <2>2, StreamSame
  <2>4. ServerPhase'
    BY <1>i, <2>1 DEF ServerPhase
  <2>5. ClientPhase'
    BY <1>i, <2>1 DEF ClientPhase
  <2>6. Upward'
    BY <2>1 DEF Upward
  <2>7. QED BY <1>0, <2>1, <2>3, <2>4, <2>5, <2>6 DEF ChannelInv
<1>12. QED
  BY <1>1, <1>2, <1>3, <1>4, <1>5, <1>6, <1>7, <1>8, <1>9, <1>10, <1>11 DEF Next, Poll

LEMMA ChannelInit == Init => ChannelInv
<1> SUFFICES ASSUME Init PROVE ChannelInv
  OBVIOUS
<1>1. ServerPhase /\ ClientPhase /\ Upward /\ NoSpuriousError
  BY DEF Init, ServerPhase, ClientPhase, Upward, NoSpuriousError, SaturatingSub
<1>2. Following(0)
  <2>1. Unread = <<>> /\ Before(1) = 0 /\ ssn = 1
    BY DEF Init, Unread, NewDecoder, Before
  <2>2. Read = 0
    BY <2>1 DEF Init, Read
  <2>3. QED BY <2>1, <2>2 DEF Init, Following, Genuine
<1>3. QED BY <1>1, <1>2 DEF ChannelInv, Stream

\* What the two ends agree on follows from what is on its way.
LEMMA ChannelAgrees == TypeOK /\ ChannelInv => NothingLost
<1> SUFFICES ASSUME TypeOK, ChannelInv, ~failed, state = "PostHandshake",
                    server.state = "Connected"
             PROVE  /\ csn = server.csn + Len(up)
                    /\ accepted = srvReceived \o [i \in 1 .. Len(up) |-> up[i].payload]
  BY DEF ChannelInv, NothingLost
<1> DEFINE coming == [i \in 1 .. Len(up) |-> up[i].payload]
           both == srvReceived \o coming
<1>1. /\ Len(accepted) = Len(srvReceived) + Len(up)
      /\ \A i \in 1 .. Len(srvReceived) : accepted[i] = srvReceived[i]
      /\ \A i \in 1 .. Len(up) :
             up[i].type = "Payload" /\ accepted[Len(srvReceived) + i] = up[i].payload
      /\ csn = server.csn + Len(up)
  BY DEF ChannelInv, Upward
<1>2. /\ accepted \in Seq(Outgoing \ Oversized) /\ srvReceived \in Seq(Outgoing)
      /\ Len(up) \in Nat /\ Len(srvReceived) \in Nat
  BY DEF TypeOK
<1>3. coming \in Seq(Outgoing) /\ Len(coming) = Len(up)
      /\ \A i \in 1 .. Len(up) : coming[i] = up[i].payload
  <2>1. \A i \in 1 .. Len(up) : up[i].payload \in Outgoing
    <3>1. \A i \in 1 .. Len(up) : Len(srvReceived) + i \in 1 .. Len(accepted)
      BY <1>1, <1>2
    <3>2. QED BY <1>1, <1>2, <3>1
  <2>2. QED BY <1>2, <2>1
<1> HIDE DEF coming
<1>4. /\ both \in Seq(Outgoing) /\ Len(both) = Len(accepted)
      /\ \A i \in 1 .. Len(srvReceived) : both[i] = srvReceived[i]
      /\ \A i \in 1 .. Len(up) : both[Len(srvReceived) + i] = coming[i]
  <2>1. /\ both \in Seq(Outgoing) /\ Len(both) = Len(srvReceived) + Len(coming)
        /\ \A i \in 1 .. Len(srvReceived) : both[i] = srvReceived[i]
    <3>1. srvReceived \in Seq(Outgoing) /\ coming \in Seq(Outgoing)
      BY <1>2, <1>3
    <3>2. Len(both) = Len(srvReceived) + Len(coming) /\ both \in Seq(Outgoing)
      BY <3>1
    <3>3. QED BY <3>1, <3>2
  <2>2. \A i \in 1 .. Len(coming) : both[Len(srvReceived) + i] = coming[i]
    BY <1>2, <1>3
  <2> HIDE DEF both
  <2>3. QED BY <1>1, <1>3, <2>1, <2>2
<1>5. ASSUME NEW i \in 1 .. Len(accepted) PROVE accepted[i] = both[i]
  <2>1. CASE i \in 1 .. Len(srvReceived)
    BY <1>1, <1>4, <2>1
  <2>2. CASE i - Len(srvReceived) \in 1 .. Len(up)
    <3>1. Len(srvReceived) + (i - Len(srvReceived)) = i
      BY <1>2
    <3>2. QED BY <1>1, <1>3, <1>4, <2>2, <3>1
  <2>3. i \in 1 .. Len(srvReceived) \/ i - Len(srvReceived) \in 1 .. Len(up)
    BY <1>1, <1>2
  <2>4. QED BY <2>1, <2>2, <2>3
<1>6. accepted \in Seq(Outgoing)
  BY <1>2
<1> HIDE DEF both
<1>7. accepted = both
  BY <1>4, <1>5, <1>6, SeqEqual
<1>8. QED BY <1>1, <1>7 DEF both, coming

\* A connection to a server that follows the protocol never fails, however its
\* bytes are cut into chunks, and until a call fails the two ends agree on the
\* sequence numbers and on the payloads under way (csp/mod.rs, poll and
\* create_payload; csp/cipher.rs).
THEOREM ConnectionLosesNothing == Spec => []NothingLost
<1>1. Init => LoginInv
  BY EmptySeq DEF Init, NewDecoder, LoginInv, LoginOnlyToKnownServer
<1>2. QED
  BY <1>1, ChannelInit, ChannelStep, ChannelAgrees, LoginStep, TypeCorrect, PTL DEF Spec

-----------------------------------------------------------------------------
(* The abstract channel                                                    *)

\* Every step of the two ends is a step of the abstract channel or leaves its
\* variables alone.
LEMMA ChannelRefined ==
    TypeOK /\ LoginInv /\ ChannelInv /\ [Next]_vars => [Channel!Next]_(Channel!vars)
<1> SUFFICES ASSUME TypeOK, LoginInv, ChannelInv, [Next]_vars
             PROVE  [Channel!Next]_(Channel!vars)
  OBVIOUS
<1>i. ServerPhase /\ ClientPhase /\ Stream /\ Upward
  BY DEF ChannelInv
<1>t. server \in Servers
  BY DEF TypeOK
<1> DEFINE Still == UNCHANGED <<srvSent, delivered, accepted, srvReceived>>
<1>1. ASSUME Still, state' = "Error", server'.state = server.state
      PROVE  Channel!StopClient
  BY <1>1 DEF Channel!StopClient
<1>2. ASSUME Still, (state' = "Error") = (state = "Error"), server'.state = "Closed"
      PROVE  Channel!StopServer
  BY <1>2 DEF Channel!StopServer
<1>3. ASSUME Still, (state' = "Error") = (state = "Error"),
             (server'.state = "Closed") = (server.state = "Closed")
      PROVE  UNCHANGED Channel!vars
  BY <1>3 DEF Channel!vars
<1>4. ASSUME NEW n \in 1 .. Len(inbound), AddChunks(n) PROVE UNCHANGED Channel!vars
  BY <1>3, <1>4 DEF AddChunks, serverVars
<1>5. ASSUME Fail, UNCHANGED serverVars PROVE Channel!StopClient
  BY <1>1, <1>5 DEF Fail, serverVars
<1>6. ASSUME PollAwaitingServerHello \/ PollAwaitingLoginAck
      PROVE  Channel!StopClient \/ UNCHANGED Channel!vars
  <2>1. CASE Fail
    BY <1>5, <1>6, <2>1 DEF PollAwaitingServerHello, PollAwaitingLoginAck
  <2>2. CASE ~Fail
    <3>1. Still /\ state # "Error" /\ state' # "Error" /\ UNCHANGED server
      BY <1>6, <2>2 DEF PollAwaitingServerHello, PollAwaitingLoginAck, serverVars
    <3>2. QED BY <1>3, <3>1
  <2>3. QED BY <2>1, <2>2
<1>7. ASSUME PollPostHandshake
      PROVE  Channel!DeliverDown \/ Channel!StopClient \/ UNCHANGED Channel!vars
  <2>1. CASE Fail
    BY <1>5, <1>7, <2>1 DEF PollPostHandshake
  <2>2. CASE ~Fail
    <3>1. /\ state = "PostHandshake" /\ UNCHANGED <<state, accepted, server, srvSent, srvReceived>>
          /\ ssn' = ssn => delivered' = delivered
      <4>1. state = "PostHandshake" /\ UNCHANGED serverVars /\ ssn \in Nat
        BY <1>7 DEF PollPostHandshake, TypeOK
      <4>2. UNCHANGED <<state, accepted>> /\ (ssn' = ssn => delivered' = delivered)
        BY <1>7, <2>2, <4>1 DEF PollPostHandshake
      <4>3. QED BY <4>1, <4>2 DEF serverVars
    <3>2. CASE ssn' = ssn
      BY <1>3, <3>1, <3>2
    <3>3. CASE ssn' # ssn
      <4>1. /\ Len(delivered) < Len(srvSent)
            /\ delivered' = Append(delivered, srvSent[Len(delivered) + 1])
        BY <1>7, <1>i, <3>3, PollPayloadStream
      <4>2. QED BY <3>1, <4>1 DEF Channel!DeliverDown
    <3>4. QED BY <3>2, <3>3
  <2>3. QED BY <2>1, <2>2
<1>8. ASSUME PollError \/ UNCHANGED vars PROVE UNCHANGED Channel!vars
  BY <1>3, <1>8 DEF PollError, vars, protocolVars, callerVars, serverVars
<1>9. ASSUME NEW payload \in Outgoing, CreatePayload(payload)
      PROVE  Channel!SendUp \/ UNCHANGED Channel!vars
  <2>1. UNCHANGED <<state, delivered, server, srvSent, srvReceived>>
    BY <1>9 DEF CreatePayload, serverVars
  <2>2. CASE accepted' = accepted
    BY <1>3, <2>1, <2>2
  <2>3. CASE accepted' # accepted
    <3>1. state = "PostHandshake" /\ accepted' = Append(accepted, payload)
      BY <1>9, <2>3 DEF CreatePayload
    <3>2. QED BY <2>1, <3>1 DEF Channel!SendUp
  <2>4. QED BY <2>2, <2>3
<1>10. ASSUME NEW key \in Keys, NEW cookie \in Cookies, NEW repeated \in Cookies,
              SrvHello(key, cookie, repeated)
       PROVE  UNCHANGED Channel!vars
  <2>1. server.state = "AwaitingClientHello" /\ server'.state = "AwaitingLogin"
    BY <1>t, <1>10 DEF SrvHello, Servers
  <2>2. Still /\ UNCHANGED state
    BY <1>10 DEF SrvHello, protocolVars, callerVars
  <2>3. QED BY <1>3, <2>1, <2>2
<1>11. ASSUME SrvLogin PROVE Channel!StopServer \/ UNCHANGED Channel!vars
  <2>1. Still /\ UNCHANGED state
    BY <1>11 DEF SrvLogin, protocolVars, callerVars
  <2>2. server.state = "AwaitingLogin" /\ server'.state \in {"Connected", "Closed"}
    BY <1>t, <1>11 DEF SrvLogin, Servers
  <2>3. QED BY <1>2, <1>3, <2>1, <2>2
<1>12. ASSUME NEW payload \in Incoming, SrvSend(payload) PROVE Channel!SendDown
  <2>1. /\ server.state = "Connected" /\ server'.state = "Connected"
        /\ srvSent' = Append(srvSent, payload)
        /\ UNCHANGED <<state, delivered, accepted, srvReceived>>
    BY <1>t, <1>12 DEF SrvSend, protocolVars, callerVars, Servers
  <2>2. QED BY <2>1 DEF Channel!SendDown
<1>13. ASSUME NEW payload \in Incoming, SrvRepeat(payload) PROVE UNCHANGED Channel!vars
  <2>1. Still /\ UNCHANGED state /\ server'.state = server.state
    BY <1>t, <1>13 DEF SrvRepeat, protocolVars, callerVars, Servers
  <2>2. QED BY <1>3, <2>1
<1>14. ASSUME SrvReceive PROVE Channel!DeliverUp \/ Channel!StopServer
  <2>1. /\ server.state = "Connected"
        /\ UNCHANGED <<state, delivered, accepted, srvSent>>
        /\ \/ server'.state = "Connected" /\ srvReceived' = Append(srvReceived, Head(up).payload)
           \/ server'.state = "Closed" /\ srvReceived' = srvReceived
    BY <1>t, <1>14 DEF SrvReceive, protocolVars, callerVars, Servers
  <2>2. CASE server'.state = "Closed" /\ srvReceived' = srvReceived
    BY <1>2, <2>1, <2>2
  <2>3. CASE /\ server'.state = "Connected"
             /\ srvReceived' = Append(srvReceived, Head(up).payload)
    <3>1. srvReceived' # srvReceived
      <4>1. srvReceived \in Seq(Outgoing)
        BY DEF TypeOK
      <4>2. Len(srvReceived') = Len(srvReceived) + 1
        BY <2>3, <4>1
      <4>3. QED BY <4>1, <4>2
    <3>2. /\ Len(srvReceived) < Len(accepted)
          /\ srvReceived' = Append(srvReceived, accepted[Len(srvReceived) + 1])
      BY <1>14, <1>i, <3>1, EndsReceive
    <3>3. QED BY <2>1, <2>3, <3>2 DEF Channel!DeliverUp
  <2>4. QED BY <2>1, <2>2, <2>3
<1>15. ASSUME SrvClose PROVE Channel!StopServer
  <2>1. Still /\ UNCHANGED state /\ server'.state = "Closed"
    BY <1>t, <1>15 DEF SrvClose, protocolVars, callerVars, Servers
  <2>2. QED BY <1>2, <2>1
<1> HIDE DEF Still
<1>16. QED
  BY <1>4, <1>6, <1>7, <1>8, <1>9, <1>10, <1>11, <1>12, <1>13, <1>14, <1>15
     DEF Next, Poll, Channel!Next

\* The two ends implement the abstract channel: payloads arrive in the order
\* they were sent, none twice and none left out, in both directions, whatever
\* the chunks, the caller and the server do (the safety part of ChannelSpec).
THEOREM ImplementsChannel == Spec => Channel!Init /\ [][Channel!Next]_(Channel!vars)
<1>1. Init => LoginInv
  BY EmptySeq DEF Init, NewDecoder, LoginInv, LoginOnlyToKnownServer
<1>2. Init => Channel!Init
  BY DEF Init, Channel!Init
<1>3. QED
  BY <1>1, <1>2, ChannelInit, ChannelStep, ChannelRefined, LoginStep, TypeCorrect, PTL DEF Spec
=============================================================================

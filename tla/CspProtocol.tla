----------------------------- MODULE CspProtocol -----------------------------
(***************************************************************************)
(* The chat server protocol state machine of libthreema (lib/src/csp),     *)
(* against a chat server and a TCP stream.                                 *)
(*                                                                         *)
(* The caller is any caller of the library: it adds chunks, polls and      *)
(* creates payloads in any order, and it may go on calling after an error. *)
(* Frames a call returns are put on the TCP stream, payloads are handed to *)
(* the application.  The chat server is not part of the repository: it is  *)
(* the peer the code expects, which may misbehave in the ways the code     *)
(* checks for.                                                             *)
(*                                                                         *)
(* A box is a record of its nonce and its content; it opens under exactly  *)
(* that nonce.  The server's stream is a sequence of units, the bytes of a *)
(* message; a frame is intact when it holds the units of one message.      *)
(***************************************************************************)
EXTENDS Naturals, Sequences

CONSTANTS
    MaxSeq,            \* the largest value of a sequence number (2^64 - 1)
    Cookies, CCK,      \* cookies; the client connection cookie
    Keys,              \* permanent keys servers may use
    PermanentKeys,     \* the permanent server keys of the client's context
    HelloLength, LoginAckLength, PayloadLength,  \* units of the server's messages
    DelimiterLength,   \* units of a payload's length delimiter
    Incoming,          \* payloads the server sends
    Malformed,         \* those of them the client cannot decode
    Outgoing,          \* payloads the application creates
    Oversized          \* those of them whose box exceeds a u16 length

ASSUME CspAssumption ==
    /\ MaxSeq \in Nat /\ MaxSeq > 2   \* the handshake's nonces exist
    /\ CCK \in Cookies
    /\ PermanentKeys \subseteq Keys
    /\ HelloLength \in Nat \ {0}
    /\ LoginAckLength \in Nat \ {0}
    /\ PayloadLength \in Nat \ {0}
    /\ DelimiterLength \in Nat \ {0}
    /\ Malformed \subseteq Incoming
    /\ Oversized \subseteq Outgoing

VARIABLES
    \* the protocol
    state,      \* the name of its State
    decoder,    \* the decoder of that state
    csn, ssn,   \* client and server sequence number of the session cipher
    sck,        \* server connection cookie of the session cipher
    \* the caller
    failed,     \* whether a call has returned an error
    delivered,  \* incoming payloads handed to the application, in order
    accepted,   \* payloads create_payload made a frame of, in order
    \* the TCP stream
    up,         \* frames to the server
    inbound,    \* units from the server not yet added to the decoder
    \* the chat server
    server,     \* its state, cookie, key and sequence numbers
    srvSent,    \* payloads it sent, in order
    srvReceived,\* payloads it received, in order
    \* history
    sealed,     \* nonces of the boxes the client sealed with the session key, in order
    srvSealed   \* nonces of the boxes the server sealed with the session key

protocolVars == <<state, decoder, csn, ssn, sck, sealed>>
callerVars   == <<failed, delivered, accepted>>
serverVars   == <<server, srvSent, srvReceived, srvSealed>>
vars == <<protocolVars, callerVars, up, inbound, serverVars>>

NoCookie == "none"
Nonce(cookie, seq) == [cookie |-> cookie, seq |-> seq]

-----------------------------------------------------------------------------
(* Messages of the server and their units                                  *)

ServerHello(key, cookie, repeated) ==
    [type |-> "ServerHello", key |-> key, sck |-> cookie, nonce |-> Nonce(cookie, 1),
     repeated |-> repeated]
LoginAck(nonce) == [type |-> "LoginAck", nonce |-> nonce]
Payload(nonce, payload) == [type |-> "Payload", nonce |-> nonce, payload |-> payload]

LengthOf(message) ==
    IF message.type = "ServerHello" THEN HelloLength
    ELSE IF message.type = "LoginAck" THEN LoginAckLength ELSE PayloadLength

Unit(message, part, length) == [message |-> message, part |-> part, length |-> length]

Body(message) == [i \in 1 .. LengthOf(message) |-> Unit(message, DelimiterLength + i, 0)]

Delimiter(message) ==
    [i \in 1 .. DelimiterLength |-> Unit(message, i, LengthOf(message))]

\* Only payloads are length-prefixed.
Encoded(message) ==
    IF message.type = "Payload" THEN Delimiter(message) \o Body(message) ELSE Body(message)

DecodeDelimiter(units) == units[1].length

INSTANCE FrameDecoder WITH Decode <- DecodeDelimiter

\* The message a frame holds, if its units are those of one message of the type.
Intact(frame, type) ==
    /\ frame # <<>>
    /\ frame[1].message.type = type
    /\ frame = Body(frame[1].message)

-----------------------------------------------------------------------------
(* The sequence numbers                                                    *)

\* get_and_increment fails instead of wrapping: the largest value is never used.
\* (Mutant: it wraps.)
HasNextWrapping(n) == TRUE
HasNext(n) == n < MaxSeq
\* (Mutant: a copy is incremented.)
IncrementCopy(n) == n
Increment(n) == IF n < MaxSeq THEN n + 1 ELSE 0

-----------------------------------------------------------------------------
(* CspProtocol::new: the client hello is on its way.                       *)
Init ==
    /\ state = "AwaitingServerHello"
    /\ decoder = NewDecoder(<<>>)
    /\ csn = 1
    /\ ssn = 1
    /\ sck = NoCookie
    /\ failed = FALSE
    /\ delivered = <<>>
    /\ accepted = <<>>
    /\ up = <<[type |-> "ClientHello", cck |-> CCK]>>
    /\ inbound = <<>>
    /\ server = [state |-> "AwaitingClientHello", key |-> NoCookie, sck |-> NoCookie,
                 honest |-> TRUE, csn |-> 1, ssn |-> 1]
    /\ srvSent = <<>>
    /\ srvReceived = <<>>
    /\ sealed = <<>>
    /\ srvSealed = {}

-----------------------------------------------------------------------------
(* The caller's calls                                                      *)

\* add_chunks, with the next n units of the stream
AddChunks(n) ==
    /\ n \in 1 .. Len(inbound)
    /\ IF state = "Error"
       THEN failed' = TRUE /\ UNCHANGED decoder
       ELSE decoder' = AddChunk(decoder, First(inbound, n)) /\ UNCHANGED failed
    /\ inbound' = Drain(inbound, n)
    /\ UNCHANGED <<state, csn, ssn, sck, sealed, delivered, accepted, up, serverVars>>

\* An error of poll: the state machine's state is replaced by the error.
Fail ==
    /\ state' = "Error"
    /\ failed' = TRUE
    /\ UNCHANGED <<decoder, csn, ssn, sck, sealed, delivered, accepted, up>>

\* What the server hello must satisfy: its challenge response opens with one of
\* the permanent keys, its cookie is not the client's, and it repeats the client's.
\* (Mutants: any key will do; the comparison of the two cookies is missing.)
AuthenticAnyKey(hello) ==
    /\ Intact(hello, "ServerHello")
    /\ hello[1].message.sck # CCK
    /\ hello[1].message.repeated = CCK
AuthenticSameCookie(hello) ==
    /\ Intact(hello, "ServerHello")
    /\ hello[1].message.key \in PermanentKeys
    /\ hello[1].message.repeated = CCK
Authentic(hello) ==
    /\ Intact(hello, "ServerHello")
    /\ hello[1].message.key \in PermanentKeys
    /\ hello[1].message.sck # CCK
    /\ hello[1].message.repeated = CCK

\* The bytes behind a handshake message belong to the next decoder.
NextDecoder(length) == NewDecoder(Drain(decoder.data, length))

\* Opens with the server's next nonce
Opens(nonce) == HasNext(ssn) /\ nonce = Nonce(sck, ssn)

PollAwaitingServerHello ==
    /\ state = "AwaitingServerHello"
    /\ FixedHasFrame(decoder.data, HelloLength)
    /\ LET hello == First(decoder.data, HelloLength)
       IN  IF Authentic(hello) /\ HasNext(1) /\ HasNext(2)
           THEN /\ state' = "AwaitingLoginAck"
                /\ decoder' = NextDecoder(HelloLength)
                /\ sck' = hello[1].message.sck
                /\ ssn' = 2
                /\ csn' = 3
                /\ sealed' = <<Nonce(CCK, 1), Nonce(CCK, 2)>>
                /\ up' = Append(up, [type |-> "Login",
                                     data |-> Nonce(CCK, 1), extensions |-> Nonce(CCK, 2),
                                     repeated |-> hello[1].message.sck,
                                     vouch |-> [key |-> hello[1].message.key,
                                                sck |-> hello[1].message.sck]])
                /\ UNCHANGED <<failed, delivered, accepted>>
           ELSE Fail
    /\ UNCHANGED <<inbound, serverVars>>

PollAwaitingLoginAck ==
    /\ state = "AwaitingLoginAck"
    /\ FixedHasFrame(decoder.data, LoginAckLength)
    /\ LET ack == First(decoder.data, LoginAckLength)
       IN  IF Intact(ack, "LoginAck") /\ Opens(ack[1].message.nonce)
           THEN /\ state' = "PostHandshake"
                /\ decoder' = NextDecoder(LoginAckLength)
                /\ ssn' = ssn + 1
                /\ UNCHANGED <<csn, sck, sealed, failed, delivered, accepted, up>>
           ELSE Fail
    /\ UNCHANGED <<inbound, serverVars>>

\* Without a complete frame the decoder may still have taken the delimiter.
PollPostHandshake ==
    /\ state = "PostHandshake"
    /\ LET frame == NextFrame(decoder)
       IN  IF ~HasFrame(decoder)
           THEN /\ decoder' = AfterNext(decoder)
                /\ UNCHANGED <<state, csn, ssn, sck, sealed, failed, delivered, accepted, up>>
           ELSE IF /\ Intact(frame, "Payload")
                   /\ Opens(frame[1].message.nonce)
                   /\ frame[1].message.payload \notin Malformed
           THEN /\ decoder' = AfterNext(decoder)
                /\ ssn' = ssn + 1
                /\ delivered' = Append(delivered, frame[1].message.payload)
                /\ UNCHANGED <<state, csn, sck, sealed, failed, accepted, up>>
           ELSE Fail
    /\ UNCHANGED <<inbound, serverVars>>

\* poll returns the stored error again.
PollError ==
    /\ state = "Error"
    /\ failed' = TRUE
    /\ UNCHANGED <<protocolVars, delivered, accepted, up, inbound, serverVars>>

\* create_payload: an error leaves the state as it is, but a box that turns out
\* too large for a frame has already taken its sequence number.
CreatePayload(payload) ==
    /\ IF state # "PostHandshake" \/ ~HasNext(csn)
       THEN /\ failed' = TRUE
            /\ UNCHANGED <<csn, sealed, accepted, up>>
       ELSE /\ csn' = Increment(csn)
            /\ sealed' = Append(sealed, Nonce(CCK, csn))
            /\ IF payload \in Oversized
               THEN failed' = TRUE /\ UNCHANGED <<accepted, up>>
               ELSE /\ accepted' = Append(accepted, payload)
                    /\ up' = Append(up, Payload(Nonce(CCK, csn), payload))
                    /\ UNCHANGED failed
    /\ UNCHANGED <<state, decoder, ssn, sck, delivered, inbound, serverVars>>

-----------------------------------------------------------------------------
(* The chat server                                                         *)

Send(message) == inbound' = inbound \o Encoded(message)

\* A server that misbehaves in its hello is not the one the login was made for.
SrvHello(key, cookie, repeated) ==
    /\ server.state = "AwaitingClientHello"
    /\ up # <<>>
    /\ Head(up).type = "ClientHello"
    /\ up' = Tail(up)
    /\ HasNext(1)
    /\ Send(ServerHello(key, cookie, repeated))
    /\ server' = [server EXCEPT !.state = "AwaitingLogin", !.key = key, !.sck = cookie, !.ssn = 2,
                      !.honest = key \in PermanentKeys /\ cookie # CCK /\ repeated = CCK]
    /\ UNCHANGED <<protocolVars, callerVars, srvSent, srvReceived, srvSealed>>

\* The server acknowledges a login with the right nonces, cookie and vouch.
SrvLogin ==
    /\ server.state = "AwaitingLogin"
    /\ up # <<>>
    /\ up' = Tail(up)
    /\ IF /\ Head(up).type = "Login"
          /\ Head(up).data = Nonce(CCK, 1)
          /\ Head(up).extensions = Nonce(CCK, 2)
          /\ Head(up).repeated = server.sck
          /\ Head(up).vouch = [key |-> server.key, sck |-> server.sck]
          /\ HasNext(2)
       THEN /\ Send(LoginAck(Nonce(server.sck, 2)))
            /\ srvSealed' = srvSealed \cup {Nonce(server.sck, 2)}
            /\ server' = [server EXCEPT !.state = "Connected", !.csn = 3, !.ssn = 3]
       ELSE /\ server' = [server EXCEPT !.state = "Closed"]
            /\ UNCHANGED <<inbound, srvSealed>>
    /\ UNCHANGED <<protocolVars, callerVars, srvSent, srvReceived>>

SrvSend(payload) ==
    /\ server.state = "Connected"
    /\ HasNext(server.ssn)
    /\ Send(Payload(Nonce(server.sck, server.ssn), payload))
    /\ srvSealed' = srvSealed \cup {Nonce(server.sck, server.ssn)}
    /\ srvSent' = Append(srvSent, payload)
    /\ server' = [server EXCEPT !.ssn = @ + 1]
    /\ UNCHANGED <<protocolVars, callerVars, up, srvReceived>>

\* A misbehaving server sends its last box again.
SrvRepeat(payload) ==
    /\ server.state = "Connected"
    /\ server.honest
    /\ Send(Payload(Nonce(server.sck, server.ssn - 1), payload))
    /\ server' = [server EXCEPT !.honest = FALSE]
    /\ UNCHANGED <<protocolVars, callerVars, up, srvSent, srvReceived, srvSealed>>

\* The server opens the next box or closes the connection.
SrvReceive ==
    /\ server.state = "Connected"
    /\ up # <<>>
    /\ up' = Tail(up)
    /\ IF Head(up).type = "Payload" /\ Head(up).nonce = Nonce(CCK, server.csn)
       THEN /\ srvReceived' = Append(srvReceived, Head(up).payload)
            /\ server' = [server EXCEPT !.csn = @ + 1]
       ELSE /\ server' = [server EXCEPT !.state = "Closed"]
            /\ UNCHANGED srvReceived
    /\ UNCHANGED <<protocolVars, callerVars, inbound, srvSent, srvSealed>>

\* The server, or the network, may end the connection at any time.
SrvClose ==
    /\ server.state # "Closed"
    /\ server' = [server EXCEPT !.state = "Closed"]
    /\ UNCHANGED <<protocolVars, callerVars, up, inbound, srvSent, srvReceived, srvSealed>>

-----------------------------------------------------------------------------
Poll ==
    \/ PollAwaitingServerHello
    \/ PollAwaitingLoginAck
    \/ PollPostHandshake
    \/ PollError

Next ==
    \/ \E n \in 1 .. Len(inbound) : AddChunks(n)
    \/ Poll
    \/ \E payload \in Outgoing : CreatePayload(payload)
    \/ \E key \in Keys, cookie, repeated \in Cookies : SrvHello(key, cookie, repeated)
    \/ SrvLogin
    \/ \E payload \in Incoming : SrvSend(payload) \/ SrvRepeat(payload)
    \/ SrvReceive
    \/ SrvClose

\* The caller's loop adds what arrives and polls.
Fairness ==
    /\ WF_vars(\E n \in 1 .. Len(inbound) : AddChunks(n))
    /\ WF_vars(Poll)

Spec == Init /\ [][Next]_vars /\ Fairness

-----------------------------------------------------------------------------
(* What the protocol promises                                              *)

Nonces == [cookie : Cookies, seq : 1 .. MaxSeq]

ServerMessages ==
    [type : {"ServerHello"}, key : Keys, sck : Cookies, nonce : Nonces, repeated : Cookies]
        \cup [type : {"LoginAck"}, nonce : Nonces]
        \cup [type : {"Payload"}, nonce : Nonces, payload : Incoming]

Units == [message : ServerMessages, part : Nat, length : Nat]

Decoders == [state : {"PartialDelimiter", "PartialFrame"}, length : Nat, data : Seq(Units)]

ClientFrames ==
    [type : {"ClientHello"}, cck : {CCK}]
        \cup [type : {"Login"}, data : Nonces, extensions : Nonces, repeated : Cookies,
              vouch : [key : Keys, sck : Cookies]]
        \cup [type : {"Payload"}, nonce : Nonces, payload : Outgoing]

Servers ==
    [state : {"AwaitingClientHello", "AwaitingLogin", "Connected", "Closed"},
     key : Keys \cup {NoCookie}, sck : Cookies \cup {NoCookie},
     honest : BOOLEAN, csn : Nat, ssn : 1 .. MaxSeq]

\* Every variable keeps its shape: the state and decoder of the protocol, the
\* sequence numbers within their width, what is delivered decodable, what is
\* accepted within a frame's size, the two streams.
TypeOK ==
    /\ state \in {"AwaitingServerHello", "AwaitingLoginAck", "PostHandshake", "Error"}
    /\ decoder \in Decoders
    /\ csn \in 1 .. MaxSeq
    /\ ssn \in 1 .. MaxSeq
    /\ sck \in Cookies \cup {NoCookie}
    /\ failed \in BOOLEAN
    /\ delivered \in Seq(Incoming \ Malformed)
    /\ accepted \in Seq(Outgoing \ Oversized)
    /\ up \in Seq(ClientFrames)
    /\ inbound \in Seq(Units)
    /\ server \in Servers
    /\ server.state = "Connected" => server.sck \in Cookies /\ server.ssn \in 3 .. MaxSeq
    /\ srvSent \in Seq(Incoming)
    /\ srvReceived \in Seq(Outgoing)
    /\ sealed \in Seq(Nonces)
    /\ srvSealed \in SUBSET Nonces

\* No two boxes sealed with the session key share a nonce: not two of the
\* client's, whatever the caller does, errors and the end of the sequence
\* numbers included, and not one of the client's and one of the server's, which
\* is what the check of the server's cookie is for (cipher.rs, encrypt and
\* create_nonce; csp/mod.rs, "SCK must not be equal to CCK").
NonceUnique ==
    /\ \A i, j \in 1 .. Len(sealed) : i # j => sealed[i] # sealed[j]
    /\ \A i \in 1 .. Len(sealed) : sealed[i] \notin srvSealed

\* The login, and with it everything the client seals, only goes to a server
\* that has shown it holds a permanent key and this session's client cookie.
LoginOnlyToKnownServer ==
    sealed # <<>> =>
        /\ server.key \in PermanentKeys
        /\ sck = server.sck


\* A server that follows the protocol never drives the client into the error
\* state, however its messages are cut into chunks, several messages in one
\* chunk and a payload right behind the login ack included.
NoSpuriousError ==
    (server.honest /\ \A i \in 1 .. Len(srvSent) : srvSent[i] \notin Malformed)
        => state # "Error"

\* A connection to a server that follows the protocol never fails, and while no
\* call has failed the two ends agree on the sequence numbers, so the server
\* still receives every payload a frame was made of, in order (csp/mod.rs, poll
\* and create_payload; cipher.rs).
NothingLost ==
    /\ NoSpuriousError
    /\ (~failed /\ state = "PostHandshake" /\ server.state = "Connected") =>
          /\ csn = server.csn + Len(up)
          /\ accepted = srvReceived \o [i \in 1 .. Len(up) |-> up[i].payload]

\* "This state can never be left again", and nothing leaves the client in it.
ErrorIsFinal ==
    [][state = "Error" => /\ state' = "Error"
                          /\ UNCHANGED <<delivered, accepted, sealed, csn, ssn>>]_vars

\* The two ends implement a pair of reliable ordered channels that only the
\* error state, or the end of the connection, stops.
Channel == INSTANCE PayloadChannel WITH
    sentDown <- srvSent, gotDown <- delivered, clientStopped <- (state = "Error"),
    sentUp <- accepted, gotUp <- srvReceived, serverStopped <- (server.state = "Closed")
ChannelSpec == Channel!Spec
=============================================================================

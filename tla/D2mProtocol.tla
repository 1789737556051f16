----------------------------- MODULE D2mProtocol -----------------------------
(***************************************************************************)
(* A device connected to the mediator server: the protocol of libthreema   *)
(* (lib/src/d2m) and its caller, which is modelled after the documented    *)
(* flow and the example that follows it (lib/examples/bin/                 *)
(* d2m_ping_pong.rs): a runner moves datagrams between the connection and  *)
(* the protocol, and payloads between the protocol and an app, over two    *)
(* queues that hold a number of payloads at most.                          *)
(*                                                                         *)
(* The mediator is external.  It answers the client, sends what the other  *)
(* devices cause at any time, may send a datagram that is malformed, and   *)
(* may close the connection.                                               *)
(***************************************************************************)
EXTENDS D2mPayload

CONSTANTS
    MinVersion, MaxVersion, \* the versions of the protocol the client knows
    ServerVersions,         \* those a mediator may offer
    QueueCapacity,          \* payloads in the queue between runner and app (4)
    MaxReflectId,           \* the last reflect ID (2^32 - 1)
    Pushes,                 \* payloads the mediator sends without a request
    Malformed,              \* datagrams it sends that are none
    MaxPushes, MaxTicks, MaxEarly     \* bounds: pushes, ticks, early payloads

\* What other devices and the chat server cause.  The answers about the lock are
\* not among them, and an encrypted envelope is never empty.
PushedKinds == {"ReflectionQueueDry", "RolePromotedToLeader", "DevicesInfo", "DropDeviceAck"}
KnownTypes == {IncomingType[k] : k \in DOMAIN IncomingType}

PushedPayloads ==
    [kind : {"Proxy"}, data : Seq(Nat)]
    \cup [kind : {"UnknownPayload"}, type : Nat \ KnownTypes, length : Nat]
    \cup [kind : {"ReflectAck"}, id : Nat, timestamp : Nat]
    \cup [kind : {"Reflected"}, flags : Nat, id : Nat, timestamp : Nat,
         envelope : Seq(Nat) \ {<<>>}]
    \cup [kind : PushedKinds, fields : Seq(Nat)]

\* The fields have their widths, and a protobuf message its fields.
WellFormed(payload) ==
    /\ payload.kind \in {"ReflectAck", "Reflected"} =>
         FitsIn(payload.id, 4) /\ FitsIn(payload.timestamp, 8)
    /\ payload.kind = "Reflected" => FitsIn(payload.flags, 2)
    /\ payload.kind \in PushedKinds => Len(payload.fields) = FieldsOf[payload.kind]

ASSUME D2mAssumption ==
    /\ MinVersion \in Nat /\ MaxVersion \in Nat /\ MinVersion <= MaxVersion
    /\ ServerVersions \subseteq Nat
    /\ QueueCapacity \in Nat \ {0}
    /\ FitsIn(MaxReflectId, 4)
    /\ Pushes \subseteq PushedPayloads /\ \A payload \in Pushes : WellFormed(payload)
    /\ Malformed \subseteq Seq(Nat) /\ \A d \in Malformed : DecodeIncoming(d).error # "none"
    /\ MaxPushes \in Nat /\ MaxTicks \in Nat /\ MaxEarly \in Nat

VARIABLES
    protocol,   \* the D2mProtocol: its state and the datagrams it holds
    runner,     \* where the runner is, and the payload it waits to hand over
    incoming, outgoing,     \* the queues from and to the runner
    app,        \* where the app is, the payload it waits to send, its state
    handled,    \* payloads the app has handled, in order
    created,    \* payloads handed to the protocol to be sent, in order
    toClient, toMediator,   \* datagrams on their way
    mediator,   \* the mediator: its side of the handshake, the lock of the group
    sent,       \* payloads the mediator has sent, in order
    requests,   \* datagrams the mediator has received, in order
    budget      \* pushes, ticks and early payloads so far

client == <<protocol, runner, incoming, outgoing, app, handled, created>>
server == <<mediator, sent, requests>>
vars == <<client, server, toClient, toMediator, budget>>

-----------------------------------------------------------------------------
(* What the app sends                                                      *)

Scope == <<1>>
BeginTransaction == [kind |-> "BeginTransaction", scope |-> Scope, ttl |-> 0]
CommitTransaction == [kind |-> "CommitTransaction", fields |-> <<>>]
Proxied == [kind |-> "Proxy", data |-> <<7>>]
Reflect(id) == [kind |-> "Reflect", flags |-> EphemeralMarker, id |-> id, envelope |-> <<5, 6>>]

PayloadsFromClient ==
    {Proxied, BeginTransaction, CommitTransaction} \cup {Reflect(id) : id \in 1 .. MaxReflectId}

\* (functions, for TLC to encode and decode each payload once)
DatagramOf == [payload \in PayloadsFromClient |-> EncodeOutgoing(payload)]

\* A datagram from the client as a payload
KindOfRequest(type) == CHOOSE k \in DOMAIN OutgoingType : OutgoingType[k] = type

DecodeRequest(type, body) ==
    LET int(from, to) == FromLe(SubSeq(body, from, to))
    IN CASE type = 17 -> [kind |-> "ClientHello", version |-> body[1]]
         [] type = 0  -> [kind |-> "Proxy", data |-> body]
         [] type = 64 -> [kind |-> KindOfRequest(type), scope |-> <<body[1]>>, ttl |-> body[2]]
         [] type = 128 -> [kind |-> KindOfRequest(type), flags |-> int(3, 4), id |-> int(5, 8),
                           envelope |-> SubSeq(body, body[1] + 1, Len(body))]
         [] type = 131 -> [kind |-> KindOfRequest(type), id |-> int(5, 8)]
         [] OTHER -> [kind |-> KindOfRequest(type), fields |-> body]

DecodeByMediator(datagram) == DecodeRequest(datagram[1], SubSeq(datagram, 5, Len(datagram)))

RequestOf ==
    [datagram \in {DatagramOf[payload] : payload \in PayloadsFromClient}
                  \cup {EncodeClientHello(version) : version \in MinVersion .. MaxVersion} |->
        DecodeByMediator(datagram)]

-----------------------------------------------------------------------------
(* What the mediator sends                                                 *)

Empty(kind) == [kind |-> kind, fields |-> <<>>]
HeldBy(kind) == [kind |-> kind, fields |-> <<2, 1>>]
Reflected(id) ==
    [kind |-> "Reflected", flags |-> 0, id |-> id, timestamp |-> 3, envelope |-> <<8, 9>>]
MalformedPayload(datagram) == [kind |-> "Malformed", datagram |-> datagram]

PayloadsToClient ==
    Pushes \cup {MalformedPayload(d) : d \in Malformed}
    \cup {[kind |-> "ServerHello", version |-> v] : v \in ServerVersions}
    \cup {[kind |-> "ServerInfo", queue |-> 1], Reflected(1)}
    \cup {Empty(k) : k \in {"ReflectionQueueDry", "BeginTransactionAck", "CommitTransactionAck"}}
    \cup {HeldBy(k) : k \in {"TransactionRejected", "TransactionEnded"}}

\* A payload as a datagram.  The header of a reflected message has 16 bytes,
\* the one that holds its length included.
EncodeByMediator(payload) ==
    LET container(type, body) == <<type, 0, 0, 0>> \o body
    IN CASE payload.kind = "ServerHello"    -> container(16, <<payload.version, 1>>)
         [] payload.kind = "ServerInfo"     -> container(18, <<payload.queue>>)
         [] payload.kind = "Malformed"      -> payload.datagram
         [] payload.kind = "UnknownPayload" -> container(payload.type, ToLe(0, payload.length))
         [] payload.kind = "Proxy"          -> container(0, payload.data)
         [] payload.kind = "ReflectAck" ->
               container(129, <<0, 0, 0, 0>> \o ToLe(payload.id, 4) \o ToLe(payload.timestamp, 8))
         [] payload.kind = "Reflected" ->
               container(130, <<16, 0>> \o ToLe(payload.flags, 2) \o ToLe(payload.id, 4)
                              \o ToLe(payload.timestamp, 8) \o payload.envelope)
         [] OTHER -> container(IncomingType[payload.kind], payload.fields)

DatagramsToClient == {EncodeByMediator(payload) : payload \in PayloadsToClient}

-----------------------------------------------------------------------------
(* The protocol                                                            *)

\* What an instruction tells the caller
NoInstruction == [update |-> "None", datagrams |-> <<>>, payloads |-> <<>>]

\* What taking a datagram leads to
Advance(state, instruction) == [state |-> state, error |-> "none", instruction |-> instruction]
Abort(error) == [state |-> "Error", error |-> error, instruction |-> NoInstruction]

PollAwaitingServerHello(datagram) ==
    LET hello   == DecodeServerHello(datagram)
        offered == hello.payload.version
        chosen  == IF offered < MaxVersion THEN offered ELSE MaxVersion
    IN IF hello.error # "none" THEN Abort(hello.error)
       ELSE IF offered < MinVersion THEN Abort("UnsupportedVersion")
       ELSE Advance("AwaitingServerInfo",
                    [NoInstruction EXCEPT !.update = "AwaitingServerInfo",
                                          !.datagrams = <<EncodeClientHello(chosen)>>])

PollAwaitingServerInfo(datagram) ==
    LET info == DecodeServerInfo(datagram)
    IN IF info.error # "none" THEN Abort(info.error)
       ELSE Advance("PostHandshake", [NoInstruction EXCEPT !.update = "PostHandshake"])

PollPostHandshake(datagram) ==
    LET decoded == DecodeIncoming(datagram)
    IN IF decoded.error # "none" THEN Abort(decoded.error)
       ELSE Advance("PostHandshake", [NoInstruction EXCEPT !.payloads = <<decoded.payload>>])

\* (functions, for TLC to decode each datagram once)
PollDatagram ==
    [AwaitingServerHello |-> [d \in DatagramsToClient |-> PollAwaitingServerHello(d)],
     AwaitingServerInfo  |-> [d \in DatagramsToClient |-> PollAwaitingServerInfo(d)],
     PostHandshake       |-> [d \in DatagramsToClient |-> PollPostHandshake(d)]]

\* The datagrams the next state holds.  The error state holds none.
\* (Mutant: Each state starts with an empty buffer.)
BufferAfterEmptied(p, state) == IF state = p.state THEN Tail(p.datagrams) ELSE <<>>
\* (Mutant: The error state keeps the buffer.)
BufferAfterKept(p, state) == Tail(p.datagrams)
BufferAfter(p, state) == IF state = "Error" THEN <<>> ELSE Tail(p.datagrams)

\* poll: at most one datagram is taken.
Poll(p) ==
    IF p.state = "Error" \/ p.datagrams = <<>>
    THEN [protocol |-> p, instruction |-> NoInstruction]
    ELSE LET next == PollDatagram[p.state][Head(p.datagrams)]
         IN [protocol |-> [state |-> next.state, error |-> next.error,
                           datagrams |-> BufferAfter(p, next.state)],
             instruction |-> next.instruction]

AddDatagrams(p, datagrams) == [p EXCEPT !.datagrams = @ \o datagrams]

\* Before the handshake has ended only payloads for the chat server are taken.
CanCreate(p, payload) ==
    \/ p.state = "PostHandshake"
    \/ p.state \in {"AwaitingServerHello", "AwaitingServerInfo"} /\ payload.kind = "Proxy"

\* create_payload leaves the state as it is.
CreatePayload(payload) ==
    /\ CanCreate(protocol, payload)
    /\ EncodingError(payload) = "none"
    /\ created' = Append(created, payload)
    /\ toMediator' = Append(toMediator, DatagramOf[payload])

-----------------------------------------------------------------------------
(* The runner                                                              *)

Closed == [at |-> "closed", payload |-> <<>>]
Payload(at) == [at |-> at, payload |-> <<>>]

\* Handshake: receive, add, poll once.  The messages of the connection that
\* are there may be added at once.
RunHandshake ==
    /\ runner.at = "handshake"
    /\ \E n \in 1 .. Len(toClient) :
       \E polled \in {Poll(AddDatagrams(protocol, SubSeq(toClient, 1, n)))} :
         /\ protocol' = polled.protocol
         /\ toClient' = SubSeq(toClient, n + 1, Len(toClient))
         /\ toMediator' = toMediator \o polled.instruction.datagrams
         /\ runner' = CASE polled.protocol.state = "Error"             -> Closed
                        [] polled.instruction.update = "PostHandshake" -> Payload("poll")
                        [] OTHER                                       -> runner
    /\ UNCHANGED <<incoming, outgoing, app, handled, created, server, budget>>

\* Another caller may create payloads before the handshake has ended: only
\* those for the chat server are taken.
CreateEarly ==
    /\ runner.at = "handshake"
    /\ budget.early < MaxEarly
    /\ \E payload \in {Proxied, BeginTransaction} : CreatePayload(payload)
    /\ budget' = [budget EXCEPT !.early = @ + 1]
    /\ UNCHANGED <<protocol, runner, incoming, outgoing, app, handled, server, toClient>>

\* Payloads: poll until there is no instruction,
PollPayload ==
    /\ runner.at = "poll"
    /\ \E polled \in {Poll(protocol)} :
         /\ protocol' = polled.protocol
         /\ runner' = CASE polled.protocol.state = "Error" -> Closed
                        [] polled.instruction.payloads # <<>> ->
                              [at |-> "send", payload |-> polled.instruction.payloads]
                        [] OTHER -> Payload("select")
    /\ UNCHANGED <<incoming, outgoing, app, handled, created, server, toClient, toMediator, budget>>

\* (Mutant: wait before all instructions have been polled.)
OnceHandedOverWaiting == Payload("select")
OnceHandedOver == Payload("poll")

\* hand each payload to the app (and wait for room in the queue),
SendIncoming ==
    /\ runner.at = "send"
    /\ Len(incoming) < QueueCapacity
    /\ incoming' = incoming \o runner.payload
    /\ runner' = OnceHandedOver
    /\ UNCHANGED <<protocol, outgoing, app, handled, created, server, toClient, toMediator, budget>>

\* then wait for datagrams
Receive ==
    /\ runner.at = "select"
    /\ \E n \in 1 .. Len(toClient) :
         /\ protocol' = AddDatagrams(protocol, SubSeq(toClient, 1, n))
         /\ toClient' = SubSeq(toClient, n + 1, Len(toClient))
    /\ runner' = Payload("poll")
    /\ UNCHANGED <<incoming, outgoing, app, handled, created, server, toMediator, budget>>

\* and for a payload of the app.
SendOutgoing ==
    /\ runner.at = "select"
    /\ outgoing # <<>>
    /\ CreatePayload(Head(outgoing))
    /\ outgoing' = Tail(outgoing)
    /\ runner' = Payload("poll")
    /\ UNCHANGED <<protocol, incoming, app, handled, server, toClient, budget>>

\* The connection has ended: the runner and with it the app are stopped.
ConnectionLost ==
    /\ runner.at \in {"handshake", "select"}
    /\ toClient = <<>>
    /\ mediator.at = "closed"
    /\ runner' = Closed
    /\ UNCHANGED <<protocol, incoming, outgoing, app, handled, created, server,
                   toClient, toMediator, budget>>

-----------------------------------------------------------------------------
(* The app                                                                 *)

Running == runner.at \notin {"handshake", "closed"}

\* (Mutant: A transaction that has ended is taken for the lock.)
HandleEager(transaction, payload) ==
    CASE payload.kind = "BeginTransactionAck"  -> [to |-> "Running", send |-> <<>>]
      [] payload.kind = "CommitTransactionAck" -> [to |-> "None", send |-> <<>>]
      [] payload.kind = "TransactionRejected"  -> [to |-> "Blocked", send |-> <<>>]
      [] payload.kind = "TransactionEnded" /\ transaction = "Blocked" ->
            [to |-> "Running", send |-> <<>>]
      [] OTHER -> [to |-> transaction, send |-> <<>>]
\* handle_incoming_payload
Handle(transaction, payload) ==
    CASE payload.kind = "BeginTransactionAck"  -> [to |-> "Running", send |-> <<>>]
      [] payload.kind = "CommitTransactionAck" -> [to |-> "None", send |-> <<>>]
      [] payload.kind = "TransactionRejected"  -> [to |-> "Blocked", send |-> <<>>]
      [] payload.kind = "TransactionEnded" /\ transaction = "Blocked" ->
            [to |-> "None", send |-> <<BeginTransaction>>]
      [] OTHER -> [to |-> transaction, send |-> <<>>]

AppHandles ==
    /\ Running
    /\ app.send = <<>>
    /\ incoming # <<>>
    /\ LET payload == Head(incoming)
           result  == Handle(app.transaction, payload)
       IN /\ handled' = Append(handled, payload)
          /\ app' = [app EXCEPT !.transaction = result.to, !.send = result.send]
    /\ incoming' = Tail(incoming)
    /\ UNCHANGED <<protocol, runner, outgoing, created, server, toClient, toMediator, budget>>

\* create_outgoing_payload, each time the timer fires: without a transaction
\* it is up to chance to begin one.
AppTicks ==
    /\ Running
    /\ app.send = <<>>
    /\ budget.ticks < MaxTicks
    /\ budget' = [budget EXCEPT !.ticks = @ + 1]
    /\ \/ /\ app.transaction = "None"
          /\ app' = [app EXCEPT !.transaction = "AwaitingBeginAck",
                                !.send = <<BeginTransaction>>]
       \/ /\ app.transaction = "Running"
          /\ app' = [app EXCEPT !.transaction = "AwaitingCommitAck",
                                !.send = <<CommitTransaction>>]
       \/ /\ app.transaction # "Running"
          /\ IF app.reflectId = MaxReflectId
             THEN app' = app
             ELSE app' = [app EXCEPT !.reflectId = @ + 1, !.send = <<Reflect(app.reflectId + 1)>>]
    /\ UNCHANGED <<protocol, runner, incoming, outgoing, handled, created, server,
                   toClient, toMediator>>

\* The payload is put into the queue, when there is room.
AppSends ==
    /\ Running
    /\ app.send # <<>>
    /\ Len(outgoing) < QueueCapacity
    /\ outgoing' = outgoing \o app.send
    /\ app' = [app EXCEPT !.send = <<>>]
    /\ UNCHANGED <<protocol, runner, incoming, handled, created, server, toClient, toMediator,
                   budget>>

-----------------------------------------------------------------------------
(* The mediator                                                            *)

Send(payloads) ==
    /\ sent' = sent \o payloads
    /\ toClient' = toClient \o [i \in DOMAIN payloads |-> EncodeByMediator(payloads[i])]

\* The answer to a payload, and the mediator it leaves
Answer(payload) ==
    CASE payload.kind = "ClientHello" /\ mediator.at = "hello"
            /\ payload.version <= mediator.version ->
            [mediator |-> [mediator EXCEPT !.at = "open"],
             send |-> <<[kind |-> "ServerInfo", queue |-> 1], Reflected(1),
                        Empty("ReflectionQueueDry")>>]
      [] payload.kind = "Proxy" -> [mediator |-> mediator, send |-> <<>>]
      [] payload.kind = "BeginTransaction" /\ mediator.at = "open" ->
            IF mediator.lock = "none"
            THEN [mediator |-> [mediator EXCEPT !.lock = "client"],
                  send |-> <<Empty("BeginTransactionAck")>>]
            ELSE [mediator |-> mediator, send |-> <<HeldBy("TransactionRejected")>>]
      [] payload.kind = "CommitTransaction" /\ mediator.lock = "client" ->
            [mediator |-> [mediator EXCEPT !.lock = "none"],
             send |-> <<Empty("CommitTransactionAck")>>]
      [] payload.kind = "Reflect" /\ mediator.at = "open" ->
            [mediator |-> mediator,
             send |-> IF payload.flags = EphemeralMarker THEN <<>>
                      ELSE <<[kind |-> "ReflectAck", id |-> payload.id, timestamp |-> 3]>>]
      [] OTHER -> [mediator |-> [mediator EXCEPT !.at = "closed"], send |-> <<>>]

MediatorReceives ==
    /\ mediator.at # "closed"
    /\ toMediator # <<>>
    /\ \E payload \in {RequestOf[Head(toMediator)]} :
         /\ requests' = Append(requests, payload)
         /\ mediator' = Answer(payload).mediator
         /\ Send(Answer(payload).send)
    /\ toMediator' = Tail(toMediator)
    /\ UNCHANGED <<client, budget>>

\* Other devices reflect, the chat server answers, the role of the device
\* changes; or the mediator does not keep to the protocol.
MediatorPushes ==
    /\ budget.pushes < MaxPushes
    /\ \/ mediator.at = "open" /\ \E payload \in Pushes : Send(<<payload>>)
       \/ mediator.at # "closed"
          /\ \E datagram \in Malformed : Send(<<MalformedPayload(datagram)>>)
    /\ budget' = [budget EXCEPT !.pushes = @ + 1]
    /\ UNCHANGED <<client, mediator, requests, toMediator>>

\* Another device takes the lock and releases it.
OtherBegins ==
    /\ mediator.at # "closed"
    /\ mediator.lock = "none"
    /\ budget.pushes < MaxPushes
    /\ mediator' = [mediator EXCEPT !.lock = "other"]
    /\ budget' = [budget EXCEPT !.pushes = @ + 1]
    /\ UNCHANGED <<client, requests, sent, toClient, toMediator>>

OtherEnds ==
    /\ mediator.at # "closed"
    /\ mediator.lock = "other"
    /\ mediator' = [mediator EXCEPT !.lock = "none"]
    /\ Send(IF mediator.at = "open" THEN <<HeldBy("TransactionEnded")>> ELSE <<>>)
    /\ UNCHANGED <<client, requests, toMediator, budget>>

MediatorCloses ==
    /\ mediator.at # "closed"
    /\ mediator' = [mediator EXCEPT !.at = "closed"]
    /\ UNCHANGED <<client, requests, sent, toClient, toMediator, budget>>

-----------------------------------------------------------------------------
(* The specification                                                       *)

Init ==
    /\ protocol = [state |-> "AwaitingServerHello", datagrams |-> <<>>, error |-> "none"]
    /\ runner = Payload("handshake")
    /\ incoming = <<>> /\ outgoing = <<>>
    /\ app = [transaction |-> "None", reflectId |-> 0, send |-> <<>>]
    /\ handled = <<>> /\ created = <<>>
    /\ \E version \in ServerVersions :
         /\ mediator = [at |-> "hello", version |-> version, lock |-> "none"]
         /\ sent = <<[kind |-> "ServerHello", version |-> version]>>
    /\ toClient = [i \in DOMAIN sent |-> EncodeByMediator(sent[i])]
    /\ toMediator = <<>> /\ requests = <<>>
    /\ budget = [pushes |-> 0, ticks |-> 0, early |-> 0]

Runner == RunHandshake \/ PollPayload \/ SendIncoming \/ Receive \/ SendOutgoing \/ ConnectionLost
App == AppHandles \/ AppSends

Next ==
    \/ Runner \/ CreateEarly
    \/ App \/ AppTicks
    \/ MediatorReceives \/ MediatorPushes \/ OtherBegins \/ OtherEnds \/ MediatorCloses

\* The runner and the app are tasks of one executor, and the mediator answers;
\* nothing is assumed of the timer, the other devices and the caller.
Fairness == WF_vars(Runner \/ App \/ MediatorReceives)

Spec == Init /\ [][Next]_vars /\ Fairness

-----------------------------------------------------------------------------
(* Properties                                                              *)

ProtocolStates == {"AwaitingServerHello", "AwaitingServerInfo", "PostHandshake", "Error"}

\* The values the program can hold.  The payloads are handed out only after
\* the handshake, the queues never hold more than they have room for, and an
\* error leaves no datagrams behind.
TypeOK ==
    /\ protocol.state \in ProtocolStates
    /\ protocol.state = "Error" <=> protocol.error # "none"
    /\ protocol.state = "Error" => protocol.datagrams = <<>> /\ runner = Closed
    /\ runner.at \in {"handshake", "poll", "send", "select", "closed"}
    /\ runner.at \in {"poll", "send", "select"} => protocol.state = "PostHandshake"
    /\ Len(runner.payload) = (IF runner.at = "send" THEN 1 ELSE 0)
    /\ Len(incoming) <= QueueCapacity /\ Len(outgoing) <= QueueCapacity
    /\ app.transaction \in {"None", "Blocked", "AwaitingBeginAck", "Running", "AwaitingCommitAck"}
    /\ app.reflectId \in 0 .. MaxReflectId /\ Len(app.send) <= 1
    /\ mediator.at \in {"hello", "open", "closed"} /\ mediator.lock \in {"none", "client", "other"}

HandedOut == handled \o incoming \o runner.payload

\* The datagrams the handshake has taken
Taken ==
    CASE protocol.state = "AwaitingServerHello" -> 0
      [] protocol.state = "AwaitingServerInfo"  -> 1
      [] OTHER                                  -> 2

WithoutEnvelope(payload) ==
    IF payload.kind = "Reflected" THEN [payload EXCEPT !.envelope = <<>>] ELSE payload

\* However the datagrams are batched, and whatever state the protocol is in
\* when they are added, the app gets what the mediator has sent, once and in
\* order, and what it has not got yet is still buffered or on its way
\* (DatagramBuffer, State::poll_*).
PayloadsInOrder ==
    /\ HandedOut # <<>> => Taken + Len(HandedOut) <= Len(sent)
    /\ \A i \in DOMAIN HandedOut :
         WithoutEnvelope(HandedOut[i]) = WithoutEnvelope(sent[Taken + i])
    /\ protocol.state # "Error" =>
         protocol.datagrams \o toClient =
            [i \in 1 .. Len(sent) - Taken - Len(HandedOut) |->
                EncodeByMediator(sent[Taken + Len(HandedOut) + i])]

IsHello(payload) == payload.kind = "ClientHello"

\* Nothing but data for the chat server reaches the mediator before the
\* ClientHello, which is sent once, with a version both sides know
\* (poll_awaiting_server_hello, create_payload).
HelloFirst ==
    /\ \A i \in DOMAIN requests :
         requests[i].kind # "Proxy" => \E j \in 1 .. i : IsHello(requests[j])
    /\ \A i, j \in DOMAIN requests :
         IsHello(requests[i]) /\ IsHello(requests[j]) => i = j
    /\ \A i \in DOMAIN requests :
         IsHello(requests[i]) => requests[i].version \in MinVersion .. mediator.version

\* The place of a request among those that are payloads
PayloadNumber(i) == IF \E j \in 1 .. i : IsHello(requests[j]) THEN i - 1 ELSE i

\* What the mediator decodes is what was handed to create_payload, in order
\* (OutgoingPayload::encode_into).
RequestsArrive ==
    \A i \in DOMAIN requests : ~IsHello(requests[i]) =>
        /\ PayloadNumber(i) \in DOMAIN created
        /\ requests[i] = created[PayloadNumber(i)]

\* What either side sends arrives, once, in order and in the state it is meant
\* for (D2mProtocol::poll and create_payload).
PayloadsArrive == PayloadsInOrder /\ HelloFirst /\ RequestsArrive

\* The app takes its transaction for running only while it holds the lock of
\* the device group (handle_incoming_payload).
RunningHoldsLock == app.transaction = "Running" => mediator.lock = "client"

\* Each waits for room in the queue only the other can make.
BothWait ==
    /\ runner.at = "send" /\ Len(incoming) = QueueCapacity
    /\ app.send # <<>> /\ Len(outgoing) = QueueCapacity

Idle ==
    /\ protocol.datagrams = <<>> /\ toClient = <<>>
    /\ incoming = <<>> /\ outgoing = <<>> /\ app.send = <<>>

\* In the end everything that was sent has been handled and everything the
\* app created has been sent, unless the connection has ended or the runner
\* and the app wait for each other (run_payload_flow, D2mPingPongFlowRunner::run).
Settles == <>[](Idle \/ BothWait \/ runner.at = "closed")

\* "The protobuf-encoded and encrypted data to be reflected" is handed out as
\* it was sent (Reflected::decode).
EnvelopeIntact ==
    \A i \in DOMAIN HandedOut :
        HandedOut[i].kind = "Reflected" => HandedOut[i].envelope = sent[Taken + i].envelope

\* "No transaction": there is no request to begin one on its way either
\* (create_outgoing_payload).
NoneHasNotBegun ==
    app.transaction = "None" =>
        \A i \in DOMAIN (outgoing \o app.send) :
            (outgoing \o app.send)[i].kind # "BeginTransaction"

\* The queues between the runner and the app never block both.
NeverBothWait == ~BothWait
=============================================================================

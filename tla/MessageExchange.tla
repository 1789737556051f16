--------------------------- MODULE MessageExchange ---------------------------
(***************************************************************************)
(* Messages from one client to another through the chat server, end to     *)
(* end: the sender encodes what an application or the standard input of    *)
(* the bridge gives it (csp_e2e/message/task/outgoing.rs, the commands of  *)
(* src/main.rs), the server keeps or drops it by its flags and delivers it *)
(* again until it is acknowledged, and the receiver decodes, handles and   *)
(* acknowledges it (csp_e2e/message/task/incoming.rs).                     *)
(*                                                                         *)
(* The sender is a direct contact of the receiver, who has no other        *)
(* devices: its task then runs in one poll.  Contacts to be created,       *)
(* reflection and polls that fail are those of IncomingMessage.            *)
(*                                                                         *)
(* External: the chat server, and what other clients may send.             *)
(***************************************************************************)
EXTENDS MessageEncoding

CONSTANTS
    Sender, Receiver,
    Nickname,         \* the nickname the bridge is configured with
    OldNickname,      \* the one the receiver knows, if any
    BlockSize,        \* of the padding of raw messages
    MessageScenarios, \* what is sent, in order
    Paddings,         \* random numbers for the padding
    MaxMessages,      \* bound: messages of a scenario
    MaxLosses         \* bound: lost connections of the receiver

ASSUME ExchangeAssumption ==
    /\ {Sender, Receiver} \subseteq Identities
    /\ BlockSize \in Nat \ {0} /\ MaxMessages \in Nat /\ MaxLosses \in Nat
    /\ Paddings \subseteq Nat \ {0}
    /\ \A drafts \in MessageScenarios :
           /\ drafts \in Seq(ToSet(drafts)) /\ Len(drafts) <= MaxMessages
           /\ \A i, j \in DOMAIN drafts : drafts[i].id = drafts[j].id => i = j

VARIABLES
    scenario,   \* what is sent, in order
    sentUpTo,   \* how much of it was sent
    queue,      \* messages the server holds, the oldest with the least nonce
    connected,  \* whether the receiver is
    delivered,  \* messages of the queue delivered on this connection
    inbound,    \* messages on their way to the receiver
    acks,       \* acknowledgements on their way to the server
    nickname,   \* the nickname of the sender's contact, if any
    nonces,     \* nonces marked as used
    handed,     \* messages added to the conversation, in order
    receiptsDue, \* messages to send a delivery receipt for
    losses      \* lost connections

server == <<queue, connected, delivered, losses>>
receiver == <<nickname, nonces, handed, receiptsDue>>
exchangeVars == <<scenario, sentUpTo, server, inbound, acks, receiver>>

Numbers == 1..MaxMessages
Ids == {scenario[n].id : n \in DOMAIN scenario}

ExchangeInit ==
    /\ scenario \in MessageScenarios
    /\ sentUpTo = 0
    /\ queue = {}
    /\ connected \in BOOLEAN
    /\ delivered = {}
    /\ inbound = <<>> /\ acks = <<>>
    /\ nickname = OldNickname
    /\ nonces = {}
    /\ handed = <<>>
    /\ receiptsDue = {}
    /\ losses = 0

-----------------------------------------------------------------------------
(* The sender                                                              *)

\* The commands of the bridge
SendMessage(draft, padding, nonce) ==
    EncodeMessage(<<Sender, Receiver>>,
                  [id |-> draft.id, createdAt |-> draft.createdAt, disableReceipts |-> FALSE,
                   content |-> [conversation |-> "Contact",
                                body |-> [kind |-> "Text", text |-> draft.text]]],
                  Update(Nickname), {}, padding, nonce)

SendRaw(draft, nonce) ==
    LET container == <<draft.type>> \o draft.data
    IN  Payload(<<Sender, Receiver>>, draft, draft.createdAt \div 1000, {"push"}, {Nickname},
                EncodeMetadata(draft, Update(Nickname)), nonce,
                Padded(container, BlockSize - (Len(container) % BlockSize)))

\* What the sender may encode its next message as
Encodings(draft, nonce) ==
    CASE draft.via = "Library"     -> {EncodeMessage(<<Sender, Receiver>>, draft, draft.nickname,
                                                     draft.legacyNickname, padding, nonce) :
                                          padding \in Paddings}
      [] draft.via = "SendMessage" -> {SendMessage(draft, padding, nonce) : padding \in Paddings}
      [] draft.via = "SendRaw"     -> {SendRaw(draft, nonce)}
      [] OTHER                     -> {[draft.payload EXCEPT !.nonce = nonce]}

\* The server queues a message, unless its flags say otherwise
Send ==
    /\ sentUpTo < Len(scenario)
    /\ sentUpTo' = sentUpTo + 1
    /\ \E payload \in Encodings(scenario[sentUpTo + 1], sentUpTo + 1) :
        IF "noQueuing" \in payload.flags
        THEN /\ inbound' = IF connected THEN Append(inbound, payload) ELSE inbound
             /\ UNCHANGED queue
        ELSE /\ queue' = queue \cup {payload}
             /\ UNCHANGED inbound
    /\ UNCHANGED <<scenario, connected, delivered, losses, acks, receiver>>

-----------------------------------------------------------------------------
(* The chat server                                                         *)

Undelivered == {payload \in queue : payload.nonce \notin delivered}

Deliver ==
    /\ connected
    /\ \E payload \in Undelivered :
        /\ \A other \in Undelivered : payload.nonce <= other.nonce
        /\ delivered' = delivered \cup {payload.nonce}
        /\ inbound' = Append(inbound, payload)
    /\ UNCHANGED <<scenario, sentUpTo, queue, connected, losses, acks, receiver>>

TakeAck ==
    /\ acks # <<>>
    /\ acks' = Tail(acks)
    /\ queue' = {payload \in queue : payload.id # Head(acks)}
    /\ delivered' = delivered \cap {payload.nonce : payload \in queue'}
    /\ UNCHANGED <<scenario, sentUpTo, connected, losses, inbound, receiver>>

Lose ==
    /\ connected
    /\ losses < MaxLosses
    /\ losses' = losses + 1
    /\ connected' = FALSE
    /\ delivered' = {}
    /\ inbound' = <<>> /\ acks' = <<>>
    /\ UNCHANGED <<scenario, sentUpTo, queue, receiver>>

Reconnect ==
    /\ ~connected
    /\ connected' = TRUE
    /\ UNCHANGED <<scenario, sentUpTo, queue, delivered, losses, inbound, acks, receiver>>

-----------------------------------------------------------------------------
(* The receiver                                                            *)

\* Mark the nonce and acknowledge, each if needed
Acknowledge(payload, marked) ==
    /\ nonces' = IF marked THEN nonces \cup {payload.nonce} ELSE nonces
    /\ acks' = IF "noAck" \in payload.flags THEN acks ELSE Append(acks, payload.id)

\* A payload that cannot be decoded leaves no nonce to mark
DiscardPayload(payload) ==
    /\ ~IsDecodable(payload)
    /\ Acknowledge(payload, FALSE)
    /\ UNCHANGED <<nickname, handed, receiptsDue>>

\* (Mutant: a message whose nonce is known is not acknowledged again.)
DiscardReuseSilently(payload) ==
    /\ IsDecodable(payload)
    /\ payload.nonce \in nonces \/ payload.receiver # Receiver
    /\ UNCHANGED <<nonces, acks, nickname, handed, receiptsDue>>
DiscardReuse(payload) ==
    /\ IsDecodable(payload)
    /\ payload.nonce \in nonces \/ payload.receiver # Receiver
    /\ Acknowledge(payload, TRUE)
    /\ UNCHANGED <<nickname, handed, receiptsDue>>

IsNew(payload) ==
    /\ IsDecodable(payload)
    /\ payload.nonce \notin nonces
    /\ payload.receiver = Receiver

\* The messages of a new payload that may be handled
Accepted(payload) ==
    {message \in DecodeMessage(payload, {Sender, Receiver}) :
        /\ message.metadata # {} => The(message.metadata).id = payload.id
        /\ \A i \in DOMAIN handed : handed[i].message.id # payload.id}

DiscardMessage(payload) ==
    /\ Acknowledge(payload, TRUE)
    /\ UNCHANGED <<nickname, handed, receiptsDue>>

\* handle_message and what leads to it and follows: the contact's nickname
\* is updated first.  Messages of *3MAPUSH are discarded from others.
HandleMessage(payload, message) ==
    /\ nickname' = Apply(nickname, SenderNickname(payload, message))
    /\ IF message.inner.content.body.kind = "WebSessionResume"
       THEN /\ Acknowledge(payload, TRUE)
            /\ UNCHANGED <<handed, receiptsDue>>
       ELSE LET properties == EffectiveProperties(message.inner)
            IN  /\ handed' = Append(handed, [number |-> payload.nonce, message |-> message.inner])
                /\ Acknowledge(payload, properties.replay)
                /\ receiptsDue' = IF properties.receipts THEN receiptsDue \cup {payload.id}
                               ELSE receiptsDue

Receive ==
    /\ inbound # <<>>
    /\ inbound' = Tail(inbound)
    /\ \E payload \in {Head(inbound)} :
        \/ DiscardPayload(payload)
        \/ DiscardReuse(payload)
        \/ /\ IsNew(payload)
           /\ \E messages \in {Accepted(payload)} :
                  IF messages = {} THEN DiscardMessage(payload)
                  ELSE \E message \in messages : HandleMessage(payload, message)
    /\ UNCHANGED <<scenario, sentUpTo, server>>

-----------------------------------------------------------------------------
ExchangeProgress == Send \/ Deliver \/ TakeAck \/ Reconnect \/ Receive
ExchangeNext == ExchangeProgress \/ Lose

\* The clients and the server keep running, and the receiver connects again
ExchangeSpec == ExchangeInit /\ [][ExchangeNext]_exchangeVars /\ WF_exchangeVars(ExchangeProgress)

-----------------------------------------------------------------------------
(* What can be understood: not all that is sent comes back as it was.      *)

IsSequence(s) == s \in Seq(ToSet(s))
IsOption(option) == option = {} \/ option = {The(option)}

LegibleText(body) ==
    /\ body.kind = "Text" /\ body = [kind |-> "Text", text |-> body.text]
    /\ IsSequence(body.text) /\ IsUtf8(body.text)

LegibleReceipt(body, kind, types) ==
    /\ body.kind = kind /\ body = [kind |-> kind, type |-> body.type, ids |-> body.ids]
    /\ body.type \in types
    /\ body.ids \in Seq(MessageIds)

LegibleReaction(body) == LegibleReceipt(body, "LegacyReaction", {"Acknowledge", "Decline"})

\* A name needs an address, and neither may hold what ends or escapes it.
LegibleLocation(body) ==
    /\ body.kind = "Location"
    /\ body = [kind |-> "Location", latitude |-> body.latitude, longitude |-> body.longitude,
               accuracy |-> body.accuracy, name |-> body.name, address |-> body.address]
    /\ {body.latitude, body.longitude} \cup body.accuracy \subseteq Floats
    /\ IsOption(body.accuracy) /\ IsOption(body.name) /\ IsOption(body.address)
    /\ body.address = {} => body.name = {}
    /\ \A name \in body.name : IsSequence(name) /\ "NL" \notin ToSet(name)
    /\ \A address \in body.address : IsSequence(address) /\ "ESC" \notin ToSet(address)
    /\ IsUtf8(EncodeLocation(body))

LegibleResume(body) ==
    /\ body.kind = "WebSessionResume"
    /\ body = [kind |-> "WebSessionResume", payload |-> body.payload]
    /\ IsSequence(body.payload)

LegibleToContact(content) ==
    /\ content.conversation \in {"Contact", "DistributionList"}
    /\ content = [conversation |-> content.conversation, body |-> content.body]
    /\ \/ LegibleText(content.body)
       \/ LegibleLocation(content.body)
       \/ LegibleReceipt(content.body, "DeliveryReceipt", {"Received", "Read"})
       \/ LegibleReaction(content.body)
       \/ LegibleResume(content.body)

LegibleToGroup(content) ==
    /\ content.conversation = "Group"
    /\ content = [conversation |-> "Group", group |-> content.group, body |-> content.body]
    /\ content.group = [creator |-> content.group.creator, id |-> content.group.id]
    /\ content.group.creator \in Identities
    /\ LegibleText(content.body) \/ LegibleReaction(content.body)

\* A forward security envelope is not: the receiver cannot open it. What other
\* clients send is left to the server to queue and resumes no session.
Legible(draft, n) ==
    CASE draft.via = "Library" ->
             /\ LegibleToContact(draft.content) \/ LegibleToGroup(draft.content)
             /\ draft.disableReceipts \in BOOLEAN
             /\ \/ draft.nickname \in {Unchanged, Removal}
                \/ draft.nickname = Update(draft.nickname.value)
      [] draft.via = "SendMessage" -> IsSequence(draft.text) /\ IsUtf8(draft.text)
      [] draft.via = "SendRaw" ->
             /\ draft.type \in (LowTypes \cup HighTypes) \ {"ForwardSecurityEnvelope"}
             /\ IsSequence(draft.data)
             /\ DecodeContent(draft.type, draft.data) = {draft.meant}
             /\ draft.meant.body.kind # "WebSessionResume"
      [] draft.via = "Foreign" ->
             \A payload \in Encodings(draft, n) :
                 /\ payload.nonce = n
                 /\ "noQueuing" \notin payload.flags
                 /\ \A message \in DecodeMessage(payload, {Sender, Receiver}) :
                        message.inner.content.body.kind # "WebSessionResume"
      [] OTHER -> FALSE

\* Every draft can be understood.
AllLegible == \A drafts \in MessageScenarios : \A n \in DOMAIN drafts : Legible(drafts[n], n)

-----------------------------------------------------------------------------
(* What was meant                                                          *)

\* The conversation and body the sender gave.  A distribution list is a
\* 1:1 conversation for the receiver.
Meant(draft) ==
    CASE draft.via = "SendMessage" -> [conversation |-> "Contact",
                                       body |-> [kind |-> "Text", text |-> draft.text]]
      [] draft.via = "SendRaw"     -> draft.meant
      [] OTHER                     ->
             IF draft.content.conversation = "DistributionList"
             THEN [draft.content EXCEPT !.conversation = "Contact"]
             ELSE draft.content

IsOwn(n) == scenario[n].via # "Foreign"
HandedNumbers == {handed[i].number : i \in DOMAIN handed}

\* What the application says of the nickname
Announced(draft) == IF draft.via = "Library" THEN draft.nickname ELSE Update(Nickname)
IsAnnouncement(n) ==
    /\ IsOwn(n)
    /\ scenario[n].via = "SendRaw" \/ Meant(scenario[n]).body.kind # "DeliveryReceipt"
    /\ Announced(scenario[n]) # Unchanged

WantsReceipt(n) ==
    /\ Meant(scenario[n]).conversation = "Contact"
    /\ Meant(scenario[n]).body.kind \notin {"DeliveryReceipt", "LegacyReaction"}
    /\ scenario[n].via = "Library" => ~scenario[n].disableReceipts

IsSettled(n) ==
    n \in DOMAIN scenario =>
        /\ \A payload \in queue : payload.nonce # n
        /\ IsOwn(n) /\ Meant(scenario[n]).body.kind # "WebSessionResume" => n \in HandedNumbers

-----------------------------------------------------------------------------
(* Properties                                                              *)

\* The variables have their types; nothing is delivered or acknowledged
\* that was not sent, and no nonce is used but of what was sent
\* (IncomingMessageTask).
ExchangeTypeOK ==
    /\ scenario \in MessageScenarios
    /\ sentUpTo \in 0..Len(scenario)
    /\ connected \in BOOLEAN
    /\ losses \in 0..MaxLosses
    /\ delivered \subseteq {payload.nonce : payload \in queue}
    /\ nonces \subseteq 1..sentUpTo
    /\ ToSet(acks) \cup receiptsDue \subseteq Ids
    /\ \A i \in DOMAIN inbound : inbound[i].nonce \in 1..sentUpTo
    /\ HandedNumbers \subseteq 1..sentUpTo

\* What the receiver adds to its conversation is what the sender's
\* application meant, in the order it was sent: the body that goes through
\* the encoding, the padding and the decoding is the one that went in, and
\* so are the creation time and the overrides (OutgoingMessageBody::encode_into,
\* IncomingMessageBody::decode).
ArrivesIntact ==
    /\ \A i \in DOMAIN handed :
           LET n == handed[i].number
               message == handed[i].message
           IN  IsOwn(n) =>
                   /\ message.content = Meant(scenario[n])
                   /\ message.id = scenario[n].id
                   /\ message.createdAt = scenario[n].createdAt
    /\ \A i, j \in DOMAIN handed : i < j => handed[i].number < handed[j].number

\* The sender's contact has the nickname its application last announced with
\* a message that was handled, without surrounding spaces, and none once it
\* was removed: neither a message without a word about it nor one delivered
\* again changes it (Delta, MessageMetadata::from).
NicknameFollows ==
    LET announcements == {n \in HandedNumbers : IsAnnouncement(n)}
        last == Announced(scenario[Max(announcements)])
    IN  IF \E n \in HandedNumbers : ~IsOwn(n) THEN TRUE
        ELSE IF announcements = {} THEN nickname = OldNickname
        ELSE nickname = IF last = Removal \/ Trim(last.value) = <<>> THEN {} ELSE {Trim(last.value)}

\* A delivery receipt is due for exactly the handled 1:1 messages whose
\* sender wants one: what the sender overrides reaches the receiver as a
\* flag (MessageOverrides, MessageFlags).
ReceiptsAgreed ==
    receiptsDue = {scenario[n].id : n \in {m \in HandedNumbers : IsOwn(m) /\ WantsReceipt(m)}}
                   \cup {handed[i].message.id : i \in {j \in DOMAIN handed :
                            /\ ~IsOwn(handed[j].number)
                            /\ EffectiveProperties(handed[j].message).receipts}}

\* The two ends agree on what was said and on who waits for a receipt
\* (encode_and_encrypt_message, IncomingMessageTask).
EndsAgree == ArrivesIntact /\ ReceiptsAgreed

\* Every message the sender encodes is handled by the receiver in the end,
\* however often the connection is lost; one that cannot be read, or may only
\* come from *3MAPUSH, is acknowledged too and leaves the server's queue
\* (encode_and_encrypt_message, acknowledge_and_discard).
Arrives == \A n \in Numbers : (sentUpTo >= n) ~> IsSettled(n)

\* A nickname that anyone but a Gateway ID is sent is encrypted.
LegacyNicknameOnlyToGateways ==
    \A payload \in queue :
        IsOwn(payload.nonce) /\ payload.legacyNickname # <<>> => payload.receiver \in Gateways

\* The nickname of a contact is never the empty one, which is none.
NicknameNeverEmpty == <<>> \notin nickname

\* A forward security envelope, which this library cannot open, is discarded and
\* not handed over as a message of an unknown kind
\* (DiscardReason::MessageForwardSecurityUnsupported).
ForwardSecurityDiscarded ==
    \A i \in DOMAIN handed :
        LET body == handed[i].message.content.body
        IN  body.kind = "Unknown" => body.type # "ForwardSecurityEnvelope"
=============================================================================

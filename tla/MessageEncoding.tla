--------------------------- MODULE MessageEncoding ---------------------------
(***************************************************************************)
(* What a message is between two clients: its body, encoded into typed,    *)
(* padded data, its metadata, and the payload the chat server passes on    *)
(* (lib/src/model/message.rs, lib/src/csp_e2e/message/payload.rs,          *)
(* lib/src/common/mod.rs).                                                 *)
(*                                                                         *)
(* Bytes are sequences of tokens: a word of a text, a coordinate, an ID, a *)
(* line break "NL", the two characters "ESC" that stand for one, "COMMA".  *)
(* Padding is numbers.  What may be missing is a set of at most one.       *)
(***************************************************************************)
EXTENDS Integers, SequencesExt

CONSTANTS
    Identities,       \* valid Threema IDs
    Gateways,         \* those of them that start with an asterisk
    MessageIds,
    Floats,           \* tokens that parse as a number
    NotUtf8,          \* the token that is not UTF-8
    Wide,             \* characters of a nickname that take two bytes
    PaddingMin,       \* MESSAGE_DATA_PADDING_LENGTH_MIN
    NicknameLength,   \* LEGACY_SENDER_NICKNAME_LENGTH
    MaxLegacyCreated  \* u32::MAX

ASSUME EncodingAssumption ==
    /\ Gateways \subseteq Identities
    /\ PaddingMin \in Nat /\ NicknameLength \in Nat /\ MaxLegacyCreated \in Nat
    /\ {"COMMA", "NL"} \cap Floats = {}

The(option) == CHOOSE value \in option : TRUE
Rest(s, n) == SubSeq(s, n + 1, Len(s))
IsUtf8(data) == NotUtf8 \notin ToSet(data)

\* What the iterator of str::split goes through, from the first element on
Split(s, separator) ==
    LET End(from) == Min({i \in from..Len(s) : s[i] = separator} \cup {Len(s) + 1})
        parts[from \in 1..(Len(s) + 2)] ==
            IF from = Len(s) + 2 THEN <<>>
            ELSE <<SubSeq(s, from, End(from) - 1)>> \o parts[End(from) + 1]
    IN  parts[1]

\* str::trim, of a nickname
Trim(s) ==
    LET solid == {i \in DOMAIN s : s[i] # " "}
    IN  IF solid = {} THEN <<>> ELSE SubSeq(s, Min(solid), Max(solid))

-----------------------------------------------------------------------------
(* Types and properties                                                    *)

\* CspE2eMessageType, as far as the code tells its values apart.  The types
\* of 0x40 and above are those of calls, groups and control messages.
LowTypes == {"Text", "Location", "File"}
HighTypes ==
    {"GroupText", "GroupLocation", "GroupFile", "DeliveryReceipt", "GroupDeliveryReceipt",
     "TypingIndicator", "ForwardSecurityEnvelope", "WebSessionResume"}

TextProperties ==
    [push |-> TRUE, lifetime |-> "Indefinite", profile |-> TRUE, replay |-> TRUE, receipts |-> TRUE]
DeliveryReceiptProperties ==
    [push |-> FALSE, lifetime |-> "Indefinite", profile |-> FALSE, replay |-> FALSE,
     receipts |-> FALSE]
LegacyReactionProperties ==
    [push |-> FALSE, lifetime |-> "Indefinite", profile |-> TRUE, replay |-> TRUE,
     receipts |-> FALSE]
WebSessionResumeProperties ==
    [push |-> FALSE, lifetime |-> "Ephemeral", profile |-> FALSE, replay |-> TRUE,
     receipts |-> FALSE]

ContactProperties(body) ==
    CASE body.kind = "DeliveryReceipt"  -> DeliveryReceiptProperties
      [] body.kind = "LegacyReaction"   -> LegacyReactionProperties
      [] body.kind = "WebSessionResume" -> WebSessionResumeProperties
      [] OTHER                          -> TextProperties

GroupProperties(body) ==
    [(IF body.kind = "LegacyReaction" THEN LegacyReactionProperties ELSE TextProperties)
        EXCEPT !.receipts = FALSE]

\* properties of a body in its conversation, before and after the overrides
Properties(content) ==
    IF content.conversation = "Group" THEN GroupProperties(content.body)
    ELSE ContactProperties(content.body)
EffectiveProperties(message) ==
    [Properties(message.content) EXCEPT !.receipts = @ /\ ~message.disableReceipts]

Flags(message) ==
    LET properties == Properties(message.content)
    IN  (IF properties.push THEN {"push"} ELSE {})
            \cup (IF properties.lifetime = "Ephemeral" THEN {"noQueuing", "noAck"} ELSE {})
            \cup (IF message.disableReceipts THEN {"noReceipts"} ELSE {})

\* MessageOverrides::from
DisableReceipts(flags) == "noReceipts" \in flags

ContactType(body) ==
    CASE body.kind = "LegacyReaction" -> "DeliveryReceipt"
      [] body.kind = "Unknown"        -> body.type
      [] OTHER                        -> body.kind

\* GROUP_TYPE of a location is that of the 1:1 message
GroupType(body) ==
    CASE body.kind = "Text"           -> "GroupText"
      [] body.kind = "Location"       -> "Location"
      [] body.kind = "LegacyReaction" -> "GroupDeliveryReceipt"
      [] OTHER                        -> body.type

MessageType(content) ==
    IF content.conversation = "Group" THEN GroupType(content.body) ELSE ContactType(content.body)

-----------------------------------------------------------------------------
(* Bodies                                                                  *)

\* (Mutant: the line breaks of an address are left in.)
EscapeNothing(address) == address
Escape(address) == [i \in DOMAIN address |-> IF address[i] = "NL" THEN "ESC" ELSE address[i]]
Unescape(address) == [i \in DOMAIN address |-> IF address[i] = "ESC" THEN "NL" ELSE address[i]]

\* A name without an address is left out
EncodeLocation(body) ==
    <<body.latitude, "COMMA", body.longitude>>
        \o (IF body.accuracy = {} THEN <<>> ELSE <<"COMMA", The(body.accuracy)>>)
        \o (IF body.address = {} THEN <<>>
            ELSE (IF body.name = {} THEN <<>> ELSE <<"NL">> \o The(body.name))
                     \o <<"NL">> \o Escape(The(body.address)))

DecodeLocation(data) ==
    LET lines == Split(data, "NL")
        values == Split(lines[1], "COMMA")
        Number(n) == IF n <= Len(values) /\ Len(values[n]) = 1 THEN ToSet(values[n]) \cap Floats
                     ELSE {}
        name == IF Len(lines) < 3 THEN {} ELSE {lines[2]}
        address == CASE Len(lines) = 1 -> {}
                     [] Len(lines) = 2 -> {Unescape(lines[2])}
                     [] OTHER          -> {Unescape(lines[3])}
    IN  {[kind |-> "Location", latitude |-> latitude, longitude |-> longitude,
          accuracy |-> Number(3), name |-> name, address |-> address] :
            latitude \in IF IsUtf8(data) THEN Number(1) ELSE {}, longitude \in Number(2)}

DecodeText(data) == IF IsUtf8(data) THEN {[kind |-> "Text", text |-> data]} ELSE {}

\* Receipts and legacy reactions share a format
EncodeReceipt(body) == <<body.type>> \o body.ids
DecodeReceipt(data) ==
    LET kinds == IF data = <<>> THEN {}
                 ELSE CASE data[1] \in {"Received", "Read"}       -> {"DeliveryReceipt"}
                        [] data[1] \in {"Acknowledge", "Decline"} -> {"LegacyReaction"}
                        [] OTHER                                  -> {}
    IN  IF ToSet(Rest(data, 1)) \subseteq MessageIds
        THEN {[kind |-> kind, type |-> data[1], ids |-> Rest(data, 1)] : kind \in kinds}
        ELSE {}

EncodeBody(body) ==
    CASE body.kind = "Text"             -> body.text
      [] body.kind = "Location"         -> EncodeLocation(body)
      [] body.kind = "WebSessionResume" -> body.payload
      [] OTHER                          -> EncodeReceipt(body)

MemberHeader(group) == <<group.creator, group.id>>
EncodeContent(content) ==
    IF content.conversation = "Group" THEN MemberHeader(content.group) \o EncodeBody(content.body)
    ELSE EncodeBody(content.body)

\* decode_group_member_header
Groups(data) ==
    IF Len(data) >= 2 /\ data[1] \in Identities THEN {[creator |-> data[1], id |-> data[2]]} ELSE {}

Contact(bodies) == {[conversation |-> "Contact", body |-> body] : body \in bodies}
Group(data, bodies) ==
    {[conversation |-> "Group", group |-> group, body |-> body] :
        group \in Groups(data), body \in bodies}

\* IncomingMessageBody::decode: the content of a message, none when it is
\* invalid.  Of a type it does not know, the whole data is kept, and so it is
\* of a forward security envelope, which is not opened.
DecodeContent(type, data) ==
    LET unknown == {[kind |-> "Unknown", type |-> type, data |-> data]}
        inner == Rest(data, 2)
    IN  CASE type = "Text"             -> Contact(DecodeText(data))
          [] type = "Location"         -> Contact(DecodeLocation(data))
          [] type = "DeliveryReceipt"  -> Contact(DecodeReceipt(data))
          [] type = "WebSessionResume" ->
                 Contact({[kind |-> "WebSessionResume", payload |-> data]})
          [] type = "GroupText"        -> Group(data, DecodeText(inner))
          [] type = "GroupLocation"    -> Group(data, DecodeLocation(inner))
          [] type = "GroupDeliveryReceipt" ->
                 Group(data, {body \in DecodeReceipt(inner) : body.kind = "LegacyReaction"})
          [] type = "ForwardSecurityEnvelope" -> Contact(unknown)
          [] OTHER -> IF type \in HighTypes /\ Groups(data) # {} THEN Group(data, unknown)
                      ELSE Contact(unknown)

-----------------------------------------------------------------------------
(* The container: type, data and PKCS#7 padding                            *)

Padded(bytes, length) == bytes \o [i \in 1..length |-> length]

\* OutgoingMessageBody::encode_into, for a random padding
EncodeContainer(content, padding) ==
    LET data == EncodeContent(content)
        length == IF Len(data) + padding < PaddingMin THEN PaddingMin - Len(data) ELSE padding
    IN  Padded(<<MessageType(content)>> \o data, length)

\* The container without its padding, none when that is not valid
Unpad(container) ==
    IF container = <<>> THEN {}
    ELSE LET length == Last(container)
         IN  IF length \in 1..Len(container) THEN {SubSeq(container, 1, Len(container) - length)}
             ELSE {}

DecodeContainer(container) ==
    UNION {IF unpadded # <<>> /\ unpadded[1] \in LowTypes \cup HighTypes
           THEN DecodeContent(unpadded[1], Rest(unpadded, 1))
           ELSE {} : unpadded \in Unpad(container)}

-----------------------------------------------------------------------------
(* Nicknames                                                               *)

Unchanged == [delta |-> "Unchanged"]
Update(value) == [delta |-> "Update", value |-> value]
Removal == [delta |-> "Removal"]

IntoNonEmpty(delta) ==
    CASE delta = Unchanged -> {}
      [] delta = Removal    -> {<<>>}
      [] OTHER             -> {delta.value}

\* (Mutant: an empty nickname is an update like any other.)
FromNonEmptyLiterally(option) == IF option = {} THEN Unchanged ELSE Update(The(option))
FromNonEmpty(option) ==
    CASE option = {}   -> Unchanged
      [] option = {<<>>} -> Removal
      [] OTHER           -> Update(The(option))

\* What applying the change to the present nickname leaves
Apply(option, delta) ==
    CASE delta = Unchanged -> option
      [] delta = Removal    -> {}
      [] OTHER             -> {delta.value}

Bytes(character) == IF character \in Wide THEN <<<<character, 1>>, <<character, 2>>>>
                    ELSE <<<<character, 1>>>>
Utf8(nickname) == FlattenSeq([i \in DOMAIN nickname |-> Bytes(nickname[i])])

\* The legacy nickname of a payload: as many bytes as fit; the zeros that
\* fill the field are left out
EncodeNickname(option) ==
    IF option = {} THEN <<>>
    ELSE LET bytes == Utf8(The(option)) IN SubSeq(bytes, 1, Min({Len(bytes), NicknameLength}))

\* Whether the bytes end with a whole character
WholeCharacters(bytes) == bytes # <<>> => Last(Bytes(Last(bytes)[1])) = Last(bytes)
DecodeNickname(bytes) ==
    IF bytes = <<>> THEN {}
    ELSE LET first == SelectSeq(bytes, LAMBDA byte : byte[2] = 1)
         IN  {Trim([i \in DOMAIN first |-> first[i][1]])}

-----------------------------------------------------------------------------
(* Metadata and payload                                                    *)

\* External: what only the two ends can read, under a nonce
Seal(cipher, keys, nonce, content) ==
    [cipher |-> cipher, keys |-> keys, nonce |-> nonce, content |-> content]
Open(cipher, keys, nonce, box) ==
    IF box.cipher = cipher /\ box.keys = keys /\ box.nonce = nonce THEN {box.content} ELSE {}

\* MessageMetadata to and from its protobuf message
EncodeMetadata(message, nickname) ==
    [id |-> message.id, createdAt |-> message.createdAt, nickname |-> IntoNonEmpty(nickname)]
DecodeMetadata(metadata) ==
    [id |-> metadata.id, createdAt |-> metadata.createdAt,
     nickname |-> FromNonEmpty({Trim(nickname) : nickname \in metadata.nickname})]

\* OutgoingMessageWithMetadataBox in bytes, from one end to the other.  A
\* payload fits when its parts have the lengths it says.
Payload(ends, message, legacyCreated, flags, legacyNickname, metadata, nonce, container) ==
    [sender |-> ends[1], receiver |-> ends[2], id |-> message.id, nonce |-> nonce,
     legacyCreated |-> legacyCreated, flags |-> flags, fits |-> TRUE,
     legacyNickname |-> EncodeNickname(legacyNickname),
     metadata |-> {Seal("metadata", ToSet(ends), nonce, metadata)},
     container |-> Seal("message", ToSet(ends), nonce, container)]

\* encode_and_encrypt_message
EncodeMessage(ends, message, nickname, legacyNickname, padding, nonce) ==
    LET profile == EffectiveProperties(message).profile
    IN  Payload(ends, message, Min({message.createdAt \div 1000, MaxLegacyCreated}),
                Flags(message),
                IF profile /\ ends[2] \in Gateways THEN legacyNickname ELSE {},
                EncodeMetadata(message, IF profile THEN nickname ELSE Unchanged),
                nonce, EncodeContainer(message.content, padding))

\* IncomingMessageWithMetadataBox::try_from
IsDecodable(payload) ==
    /\ payload.fits
    /\ payload.receiver \in Identities
    /\ WholeCharacters(payload.legacyNickname)

\* decrypt_and_decode_metadata: none or one, which may fail
Metadata(payload, keys) ==
    IF payload.metadata = {} THEN {{}}
    ELSE {{DecodeMetadata(metadata)} :
              metadata \in Open("metadata", keys, payload.nonce, The(payload.metadata))}

\* decrypt_and_decode_message: the message and its metadata, none when the
\* message cannot be read
DecodeMessage(payload, keys) ==
    {[metadata |-> metadata,
      inner |-> [sender |-> payload.sender, id |-> payload.id,
                 disableReceipts |-> DisableReceipts(payload.flags),
                 createdAt |-> IF metadata = {} THEN payload.legacyCreated * 1000
                               ELSE The(metadata).createdAt,
                 content |-> content]] :
        metadata \in Metadata(payload, keys),
        content \in UNION {DecodeContainer(container) :
                               container \in Open("message", keys, payload.nonce,
                                                  payload.container)}}

\* The nickname the message says its sender has
SenderNickname(payload, message) ==
    CASE message.metadata # {} -> The(message.metadata).nickname
      [] message.metadata = {} /\ ~EffectiveProperties(message.inner).profile -> Unchanged
      [] OTHER -> LET legacy == DecodeNickname(payload.legacyNickname)
                  IN  IF legacy = {} THEN Removal ELSE Update(The(legacy))
=============================================================================

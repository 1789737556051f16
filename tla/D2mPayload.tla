----------------------------- MODULE D2mPayload -----------------------------
(***************************************************************************)
(* The payloads of the device to mediator protocol (lib/src/d2m/payload):  *)
(* how a datagram from the mediator is decoded, and how one to it is       *)
(* encoded, byte for byte.                                                 *)
(*                                                                         *)
(* A payload is a record of its kind and its fields.  A protobuf message   *)
(* is abstracted to one byte per field the client looks at: it is          *)
(* malformed when their number is wrong.                                   *)
(***************************************************************************)
EXTENDS ByteReader, FiniteSets

CONSTANT MaxTtl     \* the largest time to live of a transaction (2^32 - 1 seconds)

Reserved == <<0, 0, 0>>

ServerHelloType == 16   \* 0x10
ClientHelloType == 17
ServerInfoType  == 18

\* IncomingPayloadType
IncomingType ==
    [Proxy |-> 0, ReflectionQueueDry |-> 32, RolePromotedToLeader |-> 33,
     DevicesInfo |-> 49, DropDeviceAck |-> 51,
     BeginTransactionAck |-> 65, CommitTransactionAck |-> 67,
     TransactionRejected |-> 68, TransactionEnded |-> 69,
     ReflectAck |-> 129, Reflected |-> 130]

\* OutgoingPayloadType
OutgoingType ==
    [Proxy |-> 0, GetDevicesInfo |-> 48, DropDevice |-> 50, SetSharedDeviceData |-> 52,
     BeginTransaction |-> 64, CommitTransaction |-> 66,
     Reflect |-> 128, ReflectedAck |-> 131]

\* The protobuf messages, by the number of their fields
FieldsOf ==
    [ReflectionQueueDry |-> 0, RolePromotedToLeader |-> 0, DevicesInfo |-> 1,
     DropDeviceAck |-> 1, BeginTransactionAck |-> 0, CommitTransactionAck |-> 0,
     TransactionRejected |-> 2, TransactionEnded |-> 2]

EphemeralMarker == 1

-----------------------------------------------------------------------------
(* Decoding                                                                *)

Decoded(payload) == [error |-> "none", payload |-> payload]
DecodingError(error) == [error |-> error, payload |-> [kind |-> "None"]]

\* The payload made from the value read, or an error
DecodedWith(result, Payload(_)) ==
    IF result.ok THEN Decoded(Payload(result.value)) ELSE DecodingError("DecodingFailed")

\* prost decodes all that is left.
DecodeProtobuf(fields, reader) ==
    LET message == ReadRemaining(reader)
    IN IF Len(message.value) = fields THEN message ELSE Fail(reader)

\* The type, and a reader behind the reserved bytes
DecodeContainer(datagram) ==
    LET type == ReadInt(Reader(datagram), 1)
    IN Then(type, With(Skip(type.reader, Len(Reserved)), type.value))

\* The handshake expects one type of payload at a time.
DecodeSpecific(expected, container, decoded) ==
    IF ~container.ok THEN DecodingError("DecodingFailed")
    ELSE IF container.value # expected THEN DecodingError("UnexpectedPayloadType")
    ELSE decoded

\* The length of the ephemeral server key and of the challenge are checked.
DecodeServerHello(datagram) ==
    LET container == DecodeContainer(datagram)
        message   == DecodeProtobuf(2, container.reader)
    IN DecodeSpecific(ServerHelloType, container,
           IF message.ok /\ message.value[2] # 1
           THEN DecodingError("InvalidMessage")
           ELSE DecodedWith(message, LAMBDA fields :
                                [kind |-> "ServerHello", version |-> fields[1]]))

DecodeServerInfo(datagram) ==
    LET container == DecodeContainer(datagram)
    IN DecodeSpecific(ServerInfoType, container,
           DecodedWith(DecodeProtobuf(1, container.reader), LAMBDA fields :
                           [kind |-> "ServerInfo", queue |-> fields[1]]))

DecodeReflectAck(reader) ==
    LET reserved == Skip(reader, 4)
    IN DecodedWith(Then(reserved, ReadInts(reserved.reader, <<4, 8>>)), LAMBDA value :
                       [kind |-> "ReflectAck", id |-> value[1], timestamp |-> value[2]])

MinHeaderLength == 16

\* The fields of the header, of which the length has been read, and what follows the header
DecodeHeader(reader) ==
    LET reserved == Skip(RunAt(reader, 0).reader, 1)
    IN Then(reserved, ReadInts(reserved.reader, <<2, 4, 8>>))

DecodeEnvelope(reader, headerLength) ==
    LET skipped == Skip(reader, headerLength)
    IN Then(skipped, ReadRemaining(skipped.reader))

DecodeBehindLength(reader, headerLength) ==
    LET header == DecodeHeader(reader)
    IN IF headerLength < MinHeaderLength THEN DecodingError("InvalidMessage")
       ELSE IF ~header.ok THEN DecodingError("DecodingFailed")
       ELSE DecodedWith(DecodeEnvelope(reader, headerLength), LAMBDA value :
                [kind |-> "Reflected", flags |-> header.value[1], id |-> header.value[2],
                 timestamp |-> header.value[3], envelope |-> value])

DecodeReflected(reader) ==
    LET length == ReadInt(reader, 1)
    IN IF length.ok
       THEN DecodeBehindLength(length.reader, length.value)
       ELSE DecodingError("DecodingFailed")

DecodeOfKind(kind, reader) ==
    CASE kind = "Proxy"      -> Decoded([kind |-> kind, data |-> ReadRemaining(reader).value])
      [] kind = "ReflectAck" -> DecodeReflectAck(reader)
      [] kind = "Reflected"  -> DecodeReflected(reader)
      [] OTHER -> DecodedWith(DecodeProtobuf(FieldsOf[kind], reader), LAMBDA fields :
                                  [kind |-> kind, fields |-> fields])

\* A type that is not known is no error.
DecodeOfType(type, reader) ==
    IF \E k \in DOMAIN IncomingType : IncomingType[k] = type
    THEN DecodeOfKind(CHOOSE k \in DOMAIN IncomingType : IncomingType[k] = type, reader)
    ELSE Decoded([kind |-> "UnknownPayload", type |-> type, length |-> Remaining(reader)])

\* IncomingPayload
DecodeIncoming(datagram) ==
    LET container == DecodeContainer(datagram)
    IN IF container.ok
       THEN DecodeOfType(container.value, container.reader)
       ELSE DecodingError("DecodingFailed")

-----------------------------------------------------------------------------
(* Encoding                                                                *)

\* The container header and the encoded payload
EncodeToDatagram(type, parts) == WriteAll(VecWriter, <<<<type>>, Reserved>> \o parts).buffer

EncodeClientHello(version) == EncodeToDatagram(ClientHelloType, <<<<version>>>>)

ReflectHeaderLength == 8

EncodeReflect(payload) ==
    <<<<ReflectHeaderLength>>, <<0>>, ToLe(payload.flags, 2), ToLe(payload.id, 4),
      payload.envelope>>

EncodeReflectedAck(payload) == <<<<0, 0, 0, 0>>, ToLe(payload.id, 4)>>

\* BeginTransaction: the time to live in seconds must fit a u32.
EncodeBeginTransaction(payload) == <<payload.scope, <<payload.ttl>>>>

EncodeOutgoing(payload) ==
    EncodeToDatagram(OutgoingType[payload.kind],
        CASE payload.kind = "Proxy"            -> <<payload.data>>
          [] payload.kind = "Reflect"          -> EncodeReflect(payload)
          [] payload.kind = "ReflectedAck"     -> EncodeReflectedAck(payload)
          [] payload.kind = "BeginTransaction" -> EncodeBeginTransaction(payload)
          [] OTHER                             -> <<payload.fields>>)

EncodingError(payload) ==
    IF payload.kind = "BeginTransaction" /\ payload.ttl > MaxTtl
    THEN "InvalidParameter" ELSE "none"
=============================================================================

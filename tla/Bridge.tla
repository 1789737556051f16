------------------------------- MODULE Bridge -------------------------------
(***************************************************************************)
(* The bridge process (rust-bridge/src/main.rs) after the handshake: one   *)
(* select! over the payload flow, which owns the connection, the receive   *)
(* flow, which processes messages one by one, the standard input loop,     *)
(* which sends messages and adds contacts, and Ctrl-C.  They interleave at *)
(* their awaits and share two queues and the contacts; when one of them    *)
(* ends, all of them do.  The next process starts with an empty database.  *)
(*                                                                         *)
(* External: the chat server, the directory and the owner of the process,  *)
(* which writes a line per command and starts the process again.  The      *)
(* chat server protocol is its abstraction by CspProtocol: payloads in     *)
(* order in, numbered frames out.  The receive flow's task is that of      *)
(* IncomingMessage, reduced to what this module shares with it.            *)
(***************************************************************************)
EXTENDS Naturals, Sequences

CONSTANTS
    Identities,     \* senders and recipients
    Registered,     \* those the directory knows
    Inputs,         \* what a process may be given: sequences of lines
    Messages,       \* messages of the chat server
    MaxEchoes,      \* bound: echo requests on a connection
    MaxFaults,      \* bound: failed lookups and close-errors
    MaxRuns         \* bound: processes

\* A command is sending a message, as text or raw, or adding contacts.
Lines ==
    [type : {"Blank", "SendMessage", "SendRawInvalid", "AddContacts"},
     who : SUBSET Identities, id : Nat]

\* What the lines of a buffer hold besides blank ones
Texts(buf) == {k \in DOMAIN buf : buf[k].type # "Blank"}

\* (The lines of an input are numbered.)
ASSUME BridgeAssumption ==
    /\ Registered \subseteq Identities
    /\ Inputs \subseteq Seq(Lines)
    /\ \A input \in Inputs : \A j, k \in Texts(input) : j < k => input[j].id < input[k].id
    /\ Messages \subseteq [sender : Identities, id : Nat, group : BOOLEAN]
    /\ MaxEchoes \in Nat /\ MaxFaults \in Nat /\ MaxRuns \in Nat

VARIABLES
    \* the process and its database
    running,    \* FALSE once one of the flows has ended
    contacts,   \* the acquaintance level of every identity
    \* the payload flow
    buffer,     \* payloads added to the protocol and not yet polled
    csn,        \* the protocol's client sequence number
    next,       \* the frame of next_instruction, if any
    writing,    \* the frame being written, if any
    \* the queues between the flows
    incoming, outgoing,
    \* the receive flow
    pending,    \* pending_task
    \* the standard input loop
    lines,      \* lines not yet read
    current,    \* current_line, as the lines appended to it
    lookup,     \* the command whose directory lookup is awaited, if any
    \* the connection and the chat server
    wire,       \* payloads to the bridge
    up,         \* frames to the server
    srvCsn,     \* the sequence number of the next frame it reads
    mailbox,    \* messages the server holds
    delivered,  \* those it has sent on this connection
    blocked,    \* whether it holds back its messages
    echoes,     \* echo requests not yet responded to
    echoed, faults, runs,  \* counters behind the bounds
    \* history
    printed,    \* messages printed
    sent,       \* IDs of the lines a message was sent for, in order
    requested,  \* identities of the AddContacts lines read
    acked       \* messages the server has seen the acknowledgement of

flowVars  == <<buffer, csn, next, writing>>
stdinVars == <<lines, current, lookup, sent, requested>>
connectionVars == <<wire, up, srvCsn, mailbox, delivered, blocked, echoes, echoed, acked>>
processVars == <<running, contacts, flowVars, incoming, outgoing, pending, stdinVars, faults, runs,
                 printed>>
vars == <<processVars, connectionVars>>

None == [type |-> "None"]
Payload(type) == [type |-> type]
Frame(n, payload) == [type |-> "Frame", seq |-> n, payload |-> payload]

NoContacts == [i \in Identities |-> "Absent"]
Unblock == <<Payload("UnblockIncomingMessages")>>

\* The handshake has used the sequence numbers 1 and 2; the standard input loop
\* first unblocks the incoming messages.
Init ==
    /\ running = TRUE /\ contacts = NoContacts
    /\ buffer = <<>> /\ csn = 3 /\ next = None /\ writing = None
    /\ incoming = <<>> /\ outgoing = Unblock /\ pending = None
    /\ lines \in Inputs /\ current = <<>> /\ lookup = None /\ sent = <<>> /\ requested = {}
    /\ wire = <<>> /\ up = <<>> /\ srvCsn = 3 /\ mailbox = Messages
    /\ delivered = {} /\ blocked = TRUE /\ echoes = 0 /\ echoed = 0 /\ acked = {}
    /\ faults = 0 /\ runs = 1 /\ printed = {}

StartProcess ==
    /\ running' = TRUE /\ contacts' = NoContacts
    /\ buffer' = <<>> /\ csn' = 3 /\ next' = None /\ writing' = None
    /\ incoming' = <<>> /\ outgoing' = Unblock /\ pending' = None
    /\ current' = <<>> /\ lookup' = None /\ sent' = <<>> /\ requested' = {}
    /\ wire' = <<>> /\ up' = <<>> /\ srvCsn' = 3
    /\ delivered' = {} /\ blocked' = TRUE /\ echoes' = 0 /\ echoed' = 0

-----------------------------------------------------------------------------
(* run_payload_flow                                                        *)

\* The flow polls or waits unless it has a frame to write.
\* (Mutant: an instruction that is left does not keep it from polling.)
MayPollAlways == running /\ writing = None
MayPoll == running /\ writing = None /\ next = None

\* create_payload: a frame takes the next sequence number when it is made.
MakeFrame(payload) == next' = Frame(csn, payload) /\ csn' = csn + 1

\* What is for the receive flow
Forwarded(payload) == payload.type \in {"Message", "MessageAck"}

\* A polled payload: the response to an echo request is the next instruction,
\* messages and their acknowledgements go to the receive flow, a close-error is
\* ignored like the rest.
PollPayload ==
    LET payload == Head(buffer)
    IN  /\ MayPoll
        /\ buffer # <<>>
        /\ buffer' = Tail(buffer)
        /\ IF payload.type = "EchoRequest" THEN MakeFrame(Payload("EchoResponse"))
           ELSE UNCHANGED <<next, csn>>
        /\ incoming' = IF Forwarded(payload) THEN Append(incoming, payload) ELSE incoming
        /\ UNCHANGED <<running, contacts, writing, outgoing, pending, stdinVars, connectionVars,
                       faults, runs, printed>>

\* select!, when there is nothing to poll: chunks of the stream ...
ReceiveChunks(n) ==
    /\ MayPoll /\ buffer = <<>>
    /\ buffer' = SubSeq(wire, 1, n)
    /\ wire' = SubSeq(wire, n + 1, Len(wire))
    /\ UNCHANGED <<running, contacts, csn, next, writing, incoming, outgoing, pending, stdinVars,
                   up, srvCsn, mailbox, delivered, blocked, echoes, echoed, acked, faults, runs,
                   printed>>

\* ... or an outgoing payload
TakeOutgoing ==
    /\ MayPoll /\ buffer = <<>>
    /\ outgoing # <<>>
    /\ outgoing' = Tail(outgoing)
    /\ MakeFrame(Head(outgoing))
    /\ UNCHANGED <<running, contacts, buffer, writing, incoming, pending, stdinVars,
                   connectionVars, faults, runs, printed>>

\* The frame is written, which may take until the server reads.
StartWrite ==
    /\ running /\ writing = None /\ next # None
    /\ writing' = next
    /\ next' = None
    /\ UNCHANGED <<running, contacts, buffer, csn, incoming, outgoing, pending, stdinVars,
                   connectionVars, faults, runs, printed>>

EndWrite ==
    /\ running /\ writing # None
    /\ up' = Append(up, writing)
    /\ writing' = None
    /\ UNCHANGED <<running, contacts, buffer, csn, next, incoming, outgoing, pending,
                   stdinVars, wire, srvCsn, mailbox, delivered, blocked, echoes, echoed, acked,
                   faults, runs, printed>>

-----------------------------------------------------------------------------
(* run_receive_flow                                                        *)

\* The next message gets a task; a message-ack is only logged.
TakeIncoming ==
    /\ running /\ pending = None
    /\ incoming # <<>>
    /\ incoming' = Tail(incoming)
    /\ pending' = IF Head(incoming).type = "Message"
                  THEN [type |-> "Init", message |-> Head(incoming).message] ELSE None
    /\ UNCHANGED <<running, contacts, flowVars, outgoing, stdinVars, connectionVars, faults, runs,
                   printed>>

\* The task is done: its acknowledgement is queued.
\* (Mutant: a discarded message is not acknowledged.)
DonePrinted(m) ==
    /\ pending' = None
    /\ outgoing' = IF m \in printed' THEN Append(outgoing, [type |-> "MessageAck", message |-> m])
                   ELSE outgoing
Done(m) ==
    /\ pending' = None
    /\ outgoing' = Append(outgoing, [type |-> "MessageAck", message |-> m])

\* A message is handed over once its sender is a contact, a direct one if it is
\* a 1:1 message.
HandOver(m) ==
    /\ printed' = printed \cup {m}
    /\ contacts' = IF m.group THEN contacts ELSE [contacts EXCEPT ![m.sender] = "Direct"]

\* The task's first poll: the message of a contact is processed at once.
PollTask ==
    LET m == pending.message
    IN  /\ running /\ pending.type = "Init"
        /\ IF contacts[m.sender] # "Absent" THEN HandOver(m) /\ Done(m)
           ELSE /\ pending' = [pending EXCEPT !.type = "FetchSender"]
                /\ UNCHANGED <<contacts, outgoing, printed>>
        /\ UNCHANGED <<running, flowVars, incoming, stdinVars, connectionVars, faults, runs>>

\* The poll with the directory's answer: the sender of a 1:1 message becomes a
\* contact, whatever it is by now; any other message is discarded.
\* (Mutant: so is that of a sender who has become a contact in the meantime.)
AdmittedIfUnknown(m) == m.sender \in Registered /\ ~m.group /\ contacts[m.sender] = "Absent"
Admitted(m) == m.sender \in Registered /\ ~m.group

PollFetched ==
    LET m == pending.message
    IN  /\ running /\ pending.type = "FetchSender"
        /\ IF Admitted(m) THEN HandOver(m) ELSE UNCHANGED <<contacts, printed>>
        /\ Done(m)
        /\ UNCHANGED <<running, flowVars, incoming, stdinVars, connectionVars, faults, runs>>

\* A failed lookup ends the flow, and with it the process.
FetchFails ==
    /\ running /\ pending.type = "FetchSender"
    /\ faults < MaxFaults
    /\ faults' = faults + 1
    /\ running' = FALSE
    /\ UNCHANGED <<contacts, flowVars, incoming, outgoing, pending, stdinVars, connectionVars, runs,
                   printed>>

-----------------------------------------------------------------------------
(* The standard input loop                                                 *)

Unknown(line) == {i \in line.who : contacts[i] = "Absent"}

Skip(buf) == current' = buf /\ UNCHANGED <<outgoing, lookup, sent>>

\* current_line after a command was carried out
\* (Mutant: it is not cleared.)
AfterCommandKept(buf) == buf
AfterCommand(buf) == <<>>

SendMessage(id, buf) ==
    /\ outgoing' = Append(outgoing, Payload("MessageWithMetadataBox"))
    /\ sent' = Append(sent, id)
    /\ current' = AfterCommand(buf)

\* An iteration: a blank line, raw data that is no hex and contacts that are all
\* known leave current_line as it is; what cannot be parsed, like a line behind
\* another, clears it; a command may have to wait for a lookup.
Iterate(buf) ==
    LET texts  == Texts(buf)
        single == \E k \in texts : texts = {k}
        line   == buf[CHOOSE k \in texts : TRUE]
    IN  CASE texts = {} -> Skip(buf)
          [] texts # {} /\ ~single -> Skip(<<>>)
          [] single /\ line.type = "SendRawInvalid" -> Skip(buf)
          [] single /\ line.type = "AddContacts" /\ Unknown(line) = {} -> Skip(buf)
          [] single /\ line.type = "SendMessage" /\ Unknown(line) = {} ->
                SendMessage(line.id, buf) /\ UNCHANGED lookup
          [] OTHER ->
                /\ lookup' = [line EXCEPT !.who = Unknown(line)]
                /\ current' = buf
                /\ UNCHANGED <<outgoing, sent>>

ReadLine ==
    /\ running /\ lookup = None
    /\ lines # <<>>
    /\ lines' = Tail(lines)
    /\ Iterate(Append(current, Head(lines)))
    /\ requested' = IF Head(lines).type = "AddContacts" THEN requested \cup Head(lines).who
                    ELSE requested
    /\ UNCHANGED <<running, contacts, flowVars, incoming, pending, connectionVars, faults, runs,
                   printed>>

\* The directory's answer: the identities it knows are stored as contacts, over
\* what they may have become in the meantime, and the message is sent.
LookupAnswered ==
    LET found == lookup.who \cap Registered
    IN  /\ running /\ lookup # None
        /\ contacts' = [i \in Identities |->
                           IF i \in found THEN "GroupOrDeleted" ELSE contacts[i]]
        /\ IF lookup.type = "SendMessage" /\ found # {}
           THEN SendMessage(lookup.id, current)
           ELSE current' = <<>> /\ UNCHANGED <<outgoing, sent>>
        /\ lookup' = None
        /\ UNCHANGED <<running, flowVars, incoming, pending, lines, requested, connectionVars,
                       faults, runs, printed>>

\* A lookup that fails is logged.
LookupFails ==
    /\ running /\ lookup # None
    /\ faults < MaxFaults
    /\ faults' = faults + 1
    /\ current' = <<>>
    /\ lookup' = None
    /\ UNCHANGED <<running, contacts, flowVars, incoming, outgoing, pending, lines, sent,
                   requested, connectionVars, runs, printed>>

-----------------------------------------------------------------------------
(* The process                                                             *)

\* Ctrl-C, the end of the standard input or of the connection: select! drops
\* what the other flows are doing.
End ==
    /\ running
    /\ runs < MaxRuns
    /\ running' = FALSE
    /\ UNCHANGED <<contacts, flowVars, incoming, outgoing, pending, stdinVars, connectionVars,
                   faults, runs, printed>>

\* A new process on a new connection: only the server remembers anything.
Restart ==
    /\ ~running
    /\ runs < MaxRuns
    /\ runs' = runs + 1
    /\ lines' \in Inputs
    /\ StartProcess
    /\ UNCHANGED <<mailbox, faults, printed, acked>>

-----------------------------------------------------------------------------
(* The chat server                                                         *)

SrvSend(payload) == wire' = Append(wire, payload)

SrvMessage(m) ==
    /\ ~blocked
    /\ m \in mailbox \ delivered
    /\ SrvSend([type |-> "Message", message |-> m])
    /\ delivered' = delivered \cup {m}
    /\ UNCHANGED <<processVars, up, srvCsn, mailbox, blocked, echoes, echoed, acked>>

SrvEcho ==
    /\ running
    /\ echoed < MaxEchoes
    /\ SrvSend(Payload("EchoRequest"))
    /\ echoes' = echoes + 1
    /\ echoed' = echoed + 1
    /\ UNCHANGED <<processVars, up, srvCsn, mailbox, delivered, blocked, acked>>

\* The server gives the connection up; the code expects it may still read.
SrvCloseError ==
    /\ faults < MaxFaults
    /\ faults' = faults + 1
    /\ SrvSend(Payload("CloseError"))
    /\ UNCHANGED <<running, contacts, flowVars, incoming, outgoing, pending, stdinVars, runs,
                   printed, up, srvCsn, mailbox, delivered, blocked, echoes, echoed, acked>>

\* The server reads a frame, and acknowledges a message.
SrvReceive ==
    LET payload == Head(up).payload
    IN  /\ up # <<>>
        /\ up' = Tail(up)
        /\ srvCsn' = srvCsn + 1
        /\ blocked' = (blocked /\ payload.type # "UnblockIncomingMessages")
        /\ IF payload.type = "MessageAck"
           THEN mailbox' = mailbox \ {payload.message} /\ acked' = acked \cup {payload.message}
           ELSE UNCHANGED <<mailbox, acked>>
        /\ IF payload.type = "MessageWithMetadataBox"
           THEN SrvSend(Payload("MessageAck")) ELSE UNCHANGED wire
        /\ echoes' = IF payload.type = "EchoResponse" THEN echoes - 1 ELSE echoes
        /\ UNCHANGED <<processVars, delivered, echoed>>

-----------------------------------------------------------------------------
PayloadFlow ==
    \/ PollPayload
    \/ \E n \in 1 .. Len(wire) : ReceiveChunks(n)
    \/ TakeOutgoing
    \/ StartWrite
    \/ EndWrite

ReceiveFlow == TakeIncoming \/ PollTask \/ PollFetched \/ FetchFails

StdinLoop == ReadLine \/ LookupAnswered \/ LookupFails

Server ==
    \/ \E m \in Messages : SrvMessage(m)
    \/ SrvEcho
    \/ SrvCloseError
    \/ SrvReceive

Next == PayloadFlow \/ ReceiveFlow \/ StdinLoop \/ End \/ Restart \/ Server

\* The runtime polls the flows that are ready, requests are answered or time out,
\* the server reads its end.
Fairness == WF_vars(PayloadFlow) /\ WF_vars(ReceiveFlow) /\ WF_vars(SrvReceive)

Spec == Init /\ [][Next]_vars /\ Fairness

-----------------------------------------------------------------------------
Payloads ==
    [type : {"UnblockIncomingMessages", "MessageWithMetadataBox", "EchoResponse"}]
        \cup [type : {"MessageAck"}, message : Messages]
Frames == [type : {"Frame"}, seq : Nat, payload : Payloads]
Incoming == [type : {"MessageAck"}] \cup [type : {"Message"}, message : Messages]

\* Every variable keeps its shape: only messages and acknowledgements reach the
\* receive flow, only what can be framed the payload flow.
TypeOK ==
    /\ running \in BOOLEAN
    /\ contacts \in [Identities -> {"Absent", "GroupOrDeleted", "Direct"}]
    /\ buffer \in Seq(Incoming \cup [type : {"EchoRequest", "CloseError"}])
    /\ csn \in Nat
    /\ next \in Frames \cup {None}
    /\ writing \in Frames \cup {None}
    /\ incoming \in Seq(Incoming)
    /\ outgoing \in Seq(Payloads)
    /\ pending \in {None} \cup [type : {"Init", "FetchSender"}, message : Messages]
    /\ lines \in Seq(Lines)
    /\ current \in Seq(Lines)
    /\ lookup \in Lines \cup {None}
    /\ up \in Seq(Frames)
    /\ mailbox \subseteq Messages

\* The frames on the connection, the one being written and the one to write
\* next are those sealed since the server last read, in order and without a
\* gap: a frame lost or overtaken on the way would end the session, since the
\* server opens it under the next nonce only (cipher.rs).
Present(frame) == IF frame = None THEN <<>> ELSE <<frame>>
FramesConsecutive ==
    running =>
        LET frames == up \o Present(writing) \o Present(next)
        IN  /\ csn = srvCsn + Len(frames)
            /\ \A k \in 1 .. Len(frames) : frames[k].seq = srvCsn + k - 1

\* The server only forgets a 1:1 message of a registered sender that was
\* printed, by this process or one before it.
AckedIsPrinted ==
    \A m \in acked : (m.sender \in Registered /\ ~m.group) => m \in printed

\* Messages are sent in the order of their lines and none is sent twice, though
\* a line may stay in current_line over several iterations.
SentInOrder == \A j, k \in 1 .. Len(sent) : j < k => sent[j] < sent[k]

\* Every message the server delivers is acknowledged, unless the process ends.
MessagesAnswered ==
    \A m \in Messages : (m \in delivered) ~> (m \in acked \/ ~running)

\* Every echo request is responded to, unless the process ends.
EchoesAnswered == (echoes > 0) ~> (echoes = 0 \/ ~running)

\* Whatever the server sends is answered, as long as the process runs: the flow
\* that writes a frame and the one that handles a message never wait for each
\* other for good (main.rs, run_payload_flow and run_receive_flow).
Answered == MessagesAnswered /\ EchoesAnswered

\* "Seed the in-memory contact store (directory lookup) so that incoming group
\* messages from these identities are not discarded" (main.rs): once the loop
\* waits for the next line, the registered identities are contacts.
AddContactsHonoured ==
    (running /\ lookup = None) => \A i \in requested \cap Registered : contacts[i] # "Absent"

\* A message "requires to create a direct contact upon reception" (message.rs):
\* the sender of a message that was printed and acknowledged stays one.
SenderStaysDirect ==
    [][\A i \in Identities : (contacts[i] = "Direct" /\ running /\ running')
                                => contacts'[i] = "Direct"]_vars
=============================================================================

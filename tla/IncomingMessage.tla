--------------------------- MODULE IncomingMessage ---------------------------
(***************************************************************************)
(* The task that processes an incoming end-to-end encrypted message        *)
(* (lib/src/csp_e2e/message/task/incoming.rs): look up the sender, decide  *)
(* whether the message is discarded, create or update the sender's         *)
(* contact, hand the message over, reflect it to the other devices, mark   *)
(* its nonce as used and acknowledge it to the chat server.                *)
(*                                                                         *)
(* The chat server keeps a message until it is acknowledged and delivers   *)
(* it again on the next connection.  The storage (contacts, nonces,        *)
(* conversations) outlives a connection, the protocol instance (task,      *)
(* lookup cache, role) does not.                                           *)
(*                                                                         *)
(* External: the chat server, the directory, the application, which runs   *)
(* one task at a time, and the other devices.  The transactions a contact  *)
(* is created or updated in are those of ContactTransactions; here they    *)
(* are the step in which they commit.                                      *)
(***************************************************************************)
EXTENDS Naturals, Sequences

CONSTANTS
    User,             \* the user's identity
    Push,             \* *3MAPUSH
    Special,          \* special contacts, *3MAPUSH among them
    Predefined,       \* predefined contacts, the special ones among them
    Senders,          \* other identities
    Registered,       \* those of them the directory knows
    Blocked,          \* those the user has blocked
    BlockUnknown,     \* whether the user blocks unknown identities
    GroupMembers,     \* members of an active group
    Nicknames,
    Messages,         \* messages the chat server may hold
    Mailboxes,        \* those it holds at first
    AddressBooks,     \* contacts the user may have at first
    MaxFaults,        \* bound: lost connections and failed requests
    MaxChanges        \* bound: contacts changed by other devices

Absent == [level |-> "Absent", nickname |-> "none"]
Contact(level, nickname) == [level |-> level, nickname |-> nickname]

\* A message is undecodable as a payload or as content, or is not.  Its
\* nickname is "unchanged" when it does not say anything about it.
MessageBoxes ==
    [sender : Senders \cup Special \cup {User}, receiver : Senders \cup {User},
     id : Nat, nonce : Nat, fault : {"None", "Payload", "Content"}, serverAck : BOOLEAN,
     type : {"Text", "DeliveryReceipt", "LegacyReaction", "WebSessionResume", "GroupText"},
     nickname : Nicknames \cup {"unchanged"}]

ASSUME IncomingAssumption ==
    /\ BlockUnknown \in BOOLEAN
    /\ Push \in Special /\ Special \subseteq Predefined
    /\ Predefined \subseteq Senders \cup Special
    /\ User \notin Senders \cup Special /\ Senders \cap Special = {}
    /\ Registered \subseteq Senders /\ Blocked \subseteq Senders /\ GroupMembers \subseteq Senders
    /\ "none" \in Nicknames
    /\ Messages \subseteq MessageBoxes
    /\ Mailboxes \subseteq SUBSET Messages
    /\ AddressBooks \subseteq
           [Senders -> {Absent} \cup [level : {"Direct", "Group", "Revoked"}, nickname : Nicknames]]
    /\ MaxFaults \in Nat /\ MaxChanges \in Nat

VARIABLES
    \* the storage
    contacts,       \* the contact of every sender
    nonces,         \* nonces marked as used
    conversations,  \* messages of the conversations, by sender and ID
    \* the protocol instance
    task,           \* the task
    cache,          \* contact_lookup_cache
    role,           \* the device's D2M role, "None" without multi-device
    \* the connection and the chat server
    mailbox,        \* messages the server holds
    delivered,      \* those it has delivered on this connection
    acks,           \* acknowledgements on their way
    faults, changes,\* counters behind the bounds
    \* history
    handed,         \* messages handed to the conversation provider, in order
    reflected,      \* messages all other devices have
    acked           \* messages the server has seen the acknowledgement of

storage  == <<contacts, nonces, conversations>>
instance == <<task, cache, role>>
server   == <<mailbox, delivered, acks, acked>>
counters == <<faults, changes>>
vars == <<storage, instance, server, counters, handed, reflected>>

Key(m) == <<m.sender, m.id>>

\* Whether the protocol instance has a D2X context
MultiDevice == role # "None"

-----------------------------------------------------------------------------
(* Properties of the message types (model/message.rs)                      *)

RequiresDirectContact(m) == m.type = "Text"
ReplayProtection(m) == m.type # "DeliveryReceipt"
ReflectIncoming(m) == m.type # "WebSessionResume"
ExemptFromBlocking(m) == m.type = "WebSessionResume"

-----------------------------------------------------------------------------
NoTask == [state |-> "None"]
Task(state, m) == [state |-> state, message |-> m]
UpdateTask(m, level, nickname, retries) ==
    [state |-> "UpdateContact", message |-> m, level |-> level, nickname |-> nickname,
     retries |-> retries]

NewCache == [s \in Senders |-> "Unknown"]

Init ==
    /\ contacts \in AddressBooks
    /\ nonces = {}
    /\ conversations = {}
    /\ task = NoTask
    /\ cache = NewCache
    /\ role \in {"None", "Follower"}
    /\ mailbox \in Mailboxes
    /\ delivered = {}
    /\ acks = {}
    /\ faults = 0 /\ changes = 0
    /\ handed = <<>>
    /\ reflected = {}
    /\ acked = {}

-----------------------------------------------------------------------------
(* Looking up and judging the sender                                       *)

\* The lookup of a sender without the directory
Lookup(sender) ==
    IF sender = User THEN "User"
    ELSE IF sender \in Special THEN "New"
    ELSE IF contacts[sender].level = "Revoked" THEN "Invalid"
    ELSE IF contacts[sender] # Absent THEN "Existing"
    ELSE cache[sender]

\* communication_permission
Permitted(sender, result) ==
    \/ sender \in Special
    \/ /\ sender \notin Blocked
       /\ \/ ~BlockUnknown
          \/ sender \in Predefined
          \/ /\ result = "Existing"
             /\ contacts[sender].level = "Direct" \/ sender \in GroupMembers

\* (Mutant: the message ID is not checked.)
MarkedUsedNever(m) == FALSE
MarkedUsed(m) == Key(m) \in conversations

\* The reasons to discard a message once its sender is known, ...
DiscardForSender(m, result) ==
    \/ result \in {"User", "Invalid"}
    \/ m.fault = "Content"
    \/ MarkedUsed(m)
    \/ ~ExemptFromBlocking(m) /\ ~Permitted(m.sender, result)
    \/ m.sender = Push /\ m.type # "WebSessionResume"
    \/ m.sender \notin Special /\ ~RequiresDirectContact(m) /\ result = "New"

\* ... and before that
DiscardAtOnce(m) ==
    \/ m.fault = "Payload"
    \/ m.nonce \in nonces
    \/ m.receiver # User

-----------------------------------------------------------------------------
(* How a task ends                                                         *)

\* acknowledge: the nonce is marked as used if need be, and the message is
\* acknowledged if the server wants it to be.
Acknowledge(m, markUsed) ==
    /\ nonces' = IF markUsed THEN nonces \cup {m.nonce} ELSE nonces
    /\ acks' = IF m.serverAck THEN acks \cup {Key(m)} ELSE acks
    /\ task' = NoTask

\* (Mutant: a discarded message is not acknowledged.)
DiscardUnacknowledged(m) == task' = NoTask /\ UNCHANGED <<nonces, acks>>
Discard(m) == Acknowledge(m, m.fault # "Payload")

\* An error: the application restarts the connection.
\* (Mutant: the message is discarded.)
FailDiscards(m) == Acknowledge(m, TRUE)
Fail(m) == task' = Task("Error", m) /\ UNCHANGED <<nonces, acks>>

ReflectAndAcknowledge(m) ==
    IF MultiDevice /\ ReflectIncoming(m)
    THEN task' = Task("ReflectMessage", m) /\ UNCHANGED <<nonces, acks>>
    ELSE Acknowledge(m, ReplayProtection(m))

HandleMessage(m) ==
    IF m.type = "WebSessionResume"
    THEN Discard(m) /\ UNCHANGED <<conversations, handed>>
    ELSE /\ handed' = Append(handed, m)
         /\ conversations' = conversations \cup {Key(m)}
         /\ ReflectAndAcknowledge(m)

\* Nothing is handed over.
Unhandled == UNCHANGED <<conversations, handed>>

-----------------------------------------------------------------------------
(* Creating and updating the sender's contact                              *)

\* (Mutant: what is unchanged is stored as such.)
UpdatedLiterally(contact, level, nickname) ==
    [level |-> IF level = "Direct" THEN "Direct" ELSE contact.level, nickname |-> nickname]
Updated(contact, level, nickname) ==
    [level |-> IF level = "Direct" THEN "Direct" ELSE contact.level,
     nickname |-> IF nickname = "unchanged" THEN contact.nickname ELSE nickname]

\* ensure_correct_sender_contact_acquaintance_level, once a contact task is
\* done: handle the message or update the contact again
\* (Mutant: the level is not looked at again.)
IsDirectAssumed(m, contact) == TRUE
IsDirect(m, contact) == ~RequiresDirectContact(m) \/ contact.level = "Direct"

Ensure(m, contact, retries) ==
    CASE RequiresDirectContact(m) /\ (retries = 3 \/ contact = Absent) ->
            Fail(m) /\ Unhandled
      [] RequiresDirectContact(m) /\ retries # 3 /\ contact # Absent
            /\ ~IsDirect(m, contact) ->
            /\ task' = UpdateTask(m, "Direct", "unchanged", retries + 1)
            /\ UNCHANGED <<nonces, acks>> /\ Unhandled
      [] OTHER -> HandleMessage(m)

\* The sender's contact becomes `contact`, and the message is handled.
Stored(m, contact) ==
    /\ contacts' = [contacts EXCEPT ![m.sender] = contact]
    /\ Ensure(m, contact, 0)

CreateContact(m) ==
    IF MultiDevice
    THEN /\ task' = Task("CreateContact", m)
         /\ UNCHANGED <<contacts, nonces, acks>> /\ Unhandled
    ELSE Stored(m, Contact("Direct", IF m.nickname = "unchanged" THEN "none" ELSE m.nickname))

NeedsLevel(m) == RequiresDirectContact(m) /\ contacts[m.sender].level # "Direct"
NeedsNickname(m) == m.nickname \notin {"unchanged", contacts[m.sender].nickname}

UpdateContact(m) ==
    LET level    == IF NeedsLevel(m) THEN "Direct" ELSE "unchanged"
        nickname == IF NeedsNickname(m) THEN m.nickname ELSE "unchanged"
    IN  IF ~NeedsLevel(m) /\ ~NeedsNickname(m)
        THEN HandleMessage(m) /\ UNCHANGED contacts
        ELSE IF MultiDevice
        THEN /\ task' = UpdateTask(m, level, nickname, 0)
             /\ UNCHANGED <<contacts, nonces, acks>> /\ Unhandled
        ELSE Stored(m, Updated(contacts[m.sender], level, nickname))

\* process_fetch_sender_state, with the sender looked up
ProcessSender(m, result) ==
    CASE DiscardForSender(m, result) ->
            Discard(m) /\ Unhandled /\ UNCHANGED contacts
      [] ~DiscardForSender(m, result) /\ m.sender = Push ->
            /\ Acknowledge([m EXCEPT !.serverAck = TRUE], FALSE)
            /\ Unhandled /\ UNCHANGED contacts
      [] ~DiscardForSender(m, result) /\ m.sender \in Special \ {Push} ->
            ReflectAndAcknowledge(m) /\ Unhandled /\ UNCHANGED contacts
      [] OTHER -> IF result = "New" THEN CreateContact(m) ELSE UpdateContact(m)

-----------------------------------------------------------------------------
(* The task's polls                                                        *)

\* The application starts a task for a message it is delivered.
HandleIncomingMessage(m) ==
    /\ task.state = "None"
    /\ m \in mailbox \ delivered
    /\ task' = Task("Init", m)
    /\ delivered' = delivered \cup {m}
    /\ mailbox' = IF m.serverAck THEN mailbox ELSE mailbox \ {m}
    /\ UNCHANGED <<storage, cache, role, acks, acked, counters, handed, reflected>>

PollInit ==
    LET m == task.message
        result == Lookup(m.sender)
    IN  /\ task.state = "Init"
        /\ CASE MultiDevice /\ role # "Leader" ->
                   Fail(m) /\ Unhandled /\ UNCHANGED contacts
             [] (~MultiDevice \/ role = "Leader") /\ DiscardAtOnce(m) ->
                   Discard(m) /\ Unhandled /\ UNCHANGED contacts
             [] OTHER ->
                   IF result = "Unknown"
                   THEN /\ task' = Task("FetchSender", m)
                        /\ UNCHANGED <<contacts, nonces, acks>> /\ Unhandled
                   ELSE ProcessSender(m, result)
        /\ UNCHANGED <<cache, role, mailbox, delivered, acked, counters, reflected>>

\* The directory's answer names the sender, or does not, which makes it invalid.
PollFetchSender ==
    LET m == task.message
        result == IF m.sender \in Registered THEN "New" ELSE "Invalid"
    IN  /\ task.state = "FetchSender"
        /\ cache' = [cache EXCEPT ![m.sender] = result]
        /\ ProcessSender(m, result)
        /\ UNCHANGED <<role, mailbox, delivered, acked, counters, reflected>>

\* The create task is done: the contact is there when another device has created
\* it in the meantime, since the task creates none that is missing
\* (ContactTransactions, CreatesOnlyMissing).
PollCreateContact ==
    LET m == task.message
    IN  /\ task.state = "CreateContact"
        /\ Ensure(m, contacts[m.sender], 0)
        /\ UNCHANGED <<contacts, cache, role, mailbox, delivered, acked, counters, reflected>>

\* The update task is done, or has failed since the contact is gone.
PollUpdateContact ==
    LET m == task.message
        contact == Updated(contacts[m.sender], task.level, task.nickname)
    IN  /\ task.state = "UpdateContact"
        /\ IF contacts[m.sender] = Absent
           THEN Fail(m) /\ Unhandled /\ UNCHANGED contacts
           ELSE /\ contacts' = [contacts EXCEPT ![m.sender] = contact]
                /\ Ensure(m, contact, task.retries)
        /\ UNCHANGED <<cache, role, mailbox, delivered, acked, counters, reflected>>

PollReflectMessage ==
    /\ task.state = "ReflectMessage"
    /\ reflected' = reflected \cup {Key(task.message)}
    /\ Acknowledge(task.message, ReplayProtection(task.message))
    /\ UNCHANGED <<contacts, conversations, cache, role, mailbox, delivered, acked, counters,
                   handed>>

\* A request to the directory or the mediator fails.
RequestFails ==
    /\ task.state \in {"FetchSender", "CreateContact", "UpdateContact", "ReflectMessage"}
    /\ faults < MaxFaults
    /\ faults' = faults + 1
    /\ Fail(task.message)
    /\ UNCHANGED <<contacts, conversations, cache, role, mailbox, delivered, acked, changes,
                   handed, reflected>>

Poll ==
    \/ PollInit
    \/ PollFetchSender
    \/ PollCreateContact
    \/ PollUpdateContact
    \/ PollReflectMessage

-----------------------------------------------------------------------------
(* The connection, the server and the other devices                        *)

\* A new connection has a new protocol instance; acknowledgements on their way
\* may be lost.
Reconnect ==
    /\ IF task.state = "Error" THEN UNCHANGED faults
       ELSE faults < MaxFaults /\ faults' = faults + 1
    /\ task' = NoTask
    /\ cache' = NewCache
    /\ role' = IF MultiDevice THEN "Follower" ELSE "None"
    /\ delivered' = {}
    /\ acks' = {}
    /\ UNCHANGED <<storage, mailbox, acked, changes, handed, reflected>>

ServerAck(key) ==
    /\ key \in acks
    /\ acks' = acks \ {key}
    /\ mailbox' = {m \in mailbox : Key(m) # key \/ m \notin delivered}
    /\ acked' = acked \cup {key}
    /\ UNCHANGED <<storage, instance, delivered, counters, handed, reflected>>

\* update_d2m_state
BecomeLeader ==
    /\ MultiDevice
    /\ role' = "Leader"
    /\ UNCHANGED <<storage, task, cache, server, counters, handed, reflected>>

\* Entries of the cache expire.
Expire(sender) ==
    /\ cache[sender] # "Unknown"
    /\ cache' = [cache EXCEPT ![sender] = "Unknown"]
    /\ UNCHANGED <<storage, task, role, server, counters, handed, reflected>>

\* Another device changes a contact in a transaction of its own, and the
\* application applies what it reflects, whatever the task waits for.
PeerChange(sender, contact) ==
    /\ MultiDevice
    /\ changes < MaxChanges
    /\ changes' = changes + 1
    /\ contact # contacts[sender]
    /\ contacts' = [contacts EXCEPT ![sender] = contact]
    /\ UNCHANGED <<nonces, conversations, instance, server, faults, handed, reflected>>

-----------------------------------------------------------------------------
Next ==
    \/ \E m \in Messages : HandleIncomingMessage(m)
    \/ Poll
    \/ RequestFails
    \/ Reconnect
    \/ \E key \in acks : ServerAck(key)
    \/ BecomeLeader
    \/ \E sender \in Senders : Expire(sender)
    \/ \E sender \in Senders, level \in {"Absent", "Direct", "Group"} :
          PeerChange(sender, Contact(level, "none"))

\* The application starts a task for what it is delivered, polls with the answers
\* to the requests and restarts after an error; the server handles the
\* acknowledgements of a connection that stays up.
Fairness ==
    /\ WF_vars(\E m \in Messages : HandleIncomingMessage(m))
    /\ WF_vars(Poll)
    /\ WF_vars(task.state = "Error" /\ Reconnect)
    /\ WF_vars(\E key \in acks : ServerAck(key))

Spec == Init /\ [][Next]_vars /\ Fairness

-----------------------------------------------------------------------------
Tasks ==
    {NoTask}
        \cup [state : {"Init", "FetchSender", "CreateContact", "ReflectMessage", "Error"},
              message : Messages]
        \cup [state : {"UpdateContact"}, message : Messages, level : {"Direct", "unchanged"},
              nickname : Nicknames \cup {"unchanged"}, retries : 0 .. 3]

\* Every variable keeps its shape.
TypeOK ==
    /\ contacts \in [Senders -> {Absent} \cup [level : {"Direct", "Group", "Revoked"},
                                               nickname : Nicknames]]
    /\ nonces \subseteq Nat
    /\ conversations \subseteq {Key(m) : m \in Messages}
    /\ task \in Tasks
    /\ cache \in [Senders -> {"Unknown", "New", "Invalid"}]
    /\ role \in {"None", "Follower", "Leader"}
    /\ mailbox \subseteq Messages
    /\ delivered \subseteq Messages
    /\ acks \subseteq {Key(m) : m \in Messages}
    /\ faults \in 0 .. MaxFaults
    /\ changes \in 0 .. MaxChanges
    /\ handed \in Seq(Messages)
    /\ reflected \subseteq {Key(m) : m \in Messages}
    /\ acked \subseteq {Key(m) : m \in Messages}

\* No message is handed to the application twice, however often the server
\* delivers it again or the sender repeats it under a new nonce, and wherever a
\* connection was lost in between (incoming.rs, nonce and message ID reuse).
HandledOnce ==
    \A i, j \in 1 .. Len(handed) : i # j => Key(handed[i]) # Key(handed[j])

\* A message the user should see: valid, from a registered and permitted sender
Wanted(m) ==
    /\ m.fault = "None" /\ m.receiver = User /\ m.type = "Text"
    /\ m.sender \in Registered \ Blocked
    /\ ~BlockUnknown \/ m.sender \in Predefined
    /\ \A book \in AddressBooks : book[m.sender].level # "Revoked"
    /\ \A n \in Messages : n.nonce = m.nonce => n = m

\* The server forgets a message only once it is in the user's conversation: no
\* failure on the way may turn into an acknowledgement, nor into a nonce or a
\* message ID that discards the message when it is delivered again.  (An
\* acknowledgement names a sender and an ID: it may be that of another message
\* the sender gave the same ID, if that one is not wanted.)
AckedIsHandled ==
    \A m \in Messages :
        (/\ Key(m) \in acks \cup acked
         /\ \A n \in Messages : Key(n) = Key(m) => Wanted(n))
            => Key(m) \in conversations

\* A message that requires it is only handed over while its sender is a direct
\* contact, though other devices change the contact while the task waits.
DirectWhenHandled ==
    [][\A m \in Messages :
          (handed' = Append(handed, m) /\ RequiresDirectContact(m))
              => contacts'[m.sender].level = "Direct"]_vars

\* The contact needs to be adjusted at most once more, so the error for other
\* devices that keep changing it (ensure_correct_..., n_retries) is never met.
RetriesOnce == task.state = "UpdateContact" => task.retries <= 1

\* Adjusting the level of a sender comes to its end, with the level it was
\* started for (ensure_correct_sender_contact_acquaintance_level).
LevelAdjusted == []RetriesOnce /\ DirectWhenHandled

\* Every message the server holds is acknowledged in the end, at least if the
\* device need not become the leader first: whatever fails, no message blocks
\* those behind it for good.
AllAcknowledged ==
    ~MultiDevice => <>[](\A m \in mailbox : ~m.serverAck)

\* "Messages are not acknowledged from the server until they are fully
\* processed" (provider.rs), reflection to the other devices included.
AckedIsReflected ==
    \A m \in Messages :
        (Wanted(m) /\ Key(m) \in acks \cup acked) => Key(m) \in reflected

\* "Whether the message requires replay protection (by storing the nonce)"
\* (message.rs): the nonce of such a message is stored once it is acknowledged.
AckedIsProtected ==
    \A m \in Messages :
        (/\ m.fault = "None" /\ ReplayProtection(m) /\ Key(m) \in acks
         /\ \A n \in Messages : Key(n) = Key(m) => n = m)
            => m.nonce \in nonces
=============================================================================

------------------------ MODULE IncomingMessageProofs ------------------------
(***************************************************************************)
(* Proofs about IncomingMessage, for every value of its constants: its     *)
(* types, that no message is handed over twice, that its sender is a       *)
(* direct contact then, that one retry is enough for that, and that a      *)
(* message which is acknowledged has been handled.                         *)
(***************************************************************************)
EXTENDS IncomingMessage, SequenceTheorems, TLAPS

Books == [Senders -> {Absent} \cup [level : {"Direct", "Group", "Revoked"},
                                    nickname : Nicknames]]

-----------------------------------------------------------------------------
(* What a poll may lead to, for the message m of the task                  *)

Quiet == UNCHANGED <<conversations, handed>>

\* The task is done, has failed, or only has to reflect the message.
Ended(m) ==
    /\ nonces' \in {nonces, nonces \cup {m.nonce}}
    /\ acks' \in {acks, acks \cup {Key(m)}}
    /\ task' \in {NoTask, Task("Error", m), Task("ReflectMessage", m)}

HandedOver(m) ==
    /\ handed' = Append(handed, m)
    /\ conversations' = conversations \cup {Key(m)}

\* The task waits for its contact; a second attempt asks for a direct contact.
UpdateTasks(m) ==
    {UpdateTask(m, level, nickname, 0) :
        level \in {"Direct", "unchanged"}, nickname \in Nicknames \cup {"unchanged"}}
Waiting(m) ==
    {Task("CreateContact", m), UpdateTask(m, "Direct", "unchanged", 1)} \cup UpdateTasks(m)

Outcome(m) ==
    /\ contacts' \in Books
    /\ \/ Ended(m) /\ Quiet
       \/ /\ Ended(m) /\ HandedOver(m)
          /\ Key(m) \notin conversations
          /\ RequiresDirectContact(m) => contacts'[m.sender].level = "Direct"
       \/ /\ Quiet /\ UNCHANGED <<nonces, acks>>
          /\ Key(m) \notin conversations /\ m.sender \in Senders
          /\ task' \in Waiting(m)

\* Every message the task may have has the fields of a message box.
LEMMA MessageType ==
    ASSUME NEW m \in Messages
    PROVE  /\ m.nonce \in Nat /\ m.serverAck \in BOOLEAN
           /\ m.sender \in Senders \cup Special \cup {User}
           /\ m.nickname \in Nicknames \cup {"unchanged"}
           /\ Key([m EXCEPT !.serverAck = TRUE]) = Key(m)
           /\ [m EXCEPT !.serverAck = TRUE].nonce = m.nonce
<1>1. m \in MessageBoxes
  BY IncomingAssumption
<1>2. QED BY <1>1 DEF MessageBoxes, Key

\* Acknowledging, discarding and failing end the task (acknowledge).
LEMMA AcknowledgeEnds ==
    ASSUME NEW m \in Messages, NEW markUsed \in BOOLEAN, Acknowledge(m, markUsed)
    PROVE  Ended(m)
BY DEF Acknowledge, Ended

LEMMA DiscardEnds ==
    ASSUME NEW m \in Messages, Discard(m)
    PROVE  Ended(m)
BY AcknowledgeEnds DEF Discard

LEMMA FailEnds ==
    ASSUME NEW m \in Messages, Fail(m)
    PROVE  Ended(m)
BY DEF Fail, Ended

LEMMA ReflectEnds ==
    ASSUME NEW m \in Messages, ReflectAndAcknowledge(m)
    PROVE  Ended(m)
BY AcknowledgeEnds DEF ReflectAndAcknowledge, ReplayProtection, Ended

\* handle_message ends the task, and hands the message over unless it resumes a
\* web session.
LEMMA HandleEnds ==
    ASSUME NEW m \in Messages, HandleMessage(m)
    PROVE  Ended(m) /\ (Quiet \/ HandedOver(m))
BY DiscardEnds, ReflectEnds DEF HandleMessage, Quiet, HandedOver

\* ensure_correct_sender_contact_acquaintance_level: a message is handed over only
\* with the contact it requires, and the contact is updated again only while it is
\* not a direct one.
LEMMA EnsureOutcome ==
    ASSUME NEW m \in Messages, NEW contact, NEW retries \in 0 .. 3,
           Ensure(m, contact, retries)
    PROVE  \/ Ended(m) /\ Quiet
           \/ /\ Ended(m) /\ HandedOver(m)
              /\ RequiresDirectContact(m) => contact.level = "Direct"
           \/ /\ Quiet /\ UNCHANGED <<nonces, acks>>
              /\ contact.level # "Direct"
              /\ task' = UpdateTask(m, "Direct", "unchanged", retries + 1)
<1>1. CASE RequiresDirectContact(m) /\ (retries = 3 \/ contact = Absent)
  BY <1>1, FailEnds DEF Ensure, Unhandled, Quiet
<1>2. CASE RequiresDirectContact(m) /\ retries # 3 /\ contact # Absent /\ ~IsDirect(m, contact)
  BY <1>2 DEF Ensure, Unhandled, Quiet, IsDirect
<1>3. CASE ~RequiresDirectContact(m) \/ (retries # 3 /\ contact # Absent /\ IsDirect(m, contact))
  <2>1. HandleMessage(m)
    BY <1>3 DEF Ensure, IsDirect
  <2>2. RequiresDirectContact(m) => contact.level = "Direct"
    BY <1>3 DEF IsDirect
  <2>3. QED BY <2>1, <2>2, HandleEnds
<1>4. QED BY <1>1, <1>2, <1>3

\* Storing a direct contact, or one to be looked at, before the message is handled
LEMMA StoredOutcome ==
    ASSUME NEW m \in Messages, m.sender \in Senders, contacts \in Books,
           NEW contact \in {Absent} \cup [level : {"Direct", "Group", "Revoked"},
                                          nickname : Nicknames],
           Key(m) \notin conversations, Stored(m, contact)
    PROVE  Outcome(m)
<1>1. contacts' = [contacts EXCEPT ![m.sender] = contact] /\ Ensure(m, contact, 0)
  BY DEF Stored
<1>2. contacts' \in Books /\ contacts'[m.sender] = contact
  BY <1>1 DEF Books
<1>3. UpdateTask(m, "Direct", "unchanged", 0 + 1) \in Waiting(m)
  BY DEF Waiting
<1>4. QED BY <1>1, <1>2, <1>3, EnsureOutcome DEF Outcome

\* A contact that is updated is a contact with the level asked for (update.rs).
LEMMA UpdatedType ==
    ASSUME NEW contact \in [level : {"Direct", "Group", "Revoked"}, nickname : Nicknames],
           NEW level, NEW nickname \in Nicknames \cup {"unchanged"}
    PROVE  /\ Updated(contact, level, nickname)
                  \in [level : {"Direct", "Group", "Revoked"}, nickname : Nicknames]
           /\ level = "Direct" => Updated(contact, level, nickname).level = "Direct"
BY DEF Updated

\* process_fetch_sender_state: nothing is handed over whose message ID is in use.
LEMMA ProcessSenderOutcome ==
    ASSUME NEW m \in Messages, contacts \in Books,
           NEW result \in {"User", "New", "Invalid", "Existing"},
           m.sender = User => result = "User",
           result = "Existing" => contacts[m.sender] # Absent,
           ProcessSender(m, result)
    PROVE  Outcome(m)
<1>1. CASE DiscardForSender(m, result)
  <2>1. Discard(m) /\ Unhandled /\ contacts' = contacts
    BY <1>1 DEF ProcessSender
  <2>2. QED BY <2>1, DiscardEnds DEF Outcome, Unhandled, Quiet
<1>2. CASE ~DiscardForSender(m, result) /\ m.sender = Push
  <2>1. /\ Acknowledge([m EXCEPT !.serverAck = TRUE], FALSE)
        /\ Unhandled /\ contacts' = contacts
    BY <1>2 DEF ProcessSender
  <2>2. Ended(m)
    BY <2>1, MessageType DEF Acknowledge, Ended
  <2>3. QED BY <2>1, <2>2 DEF Outcome, Unhandled, Quiet
<1>3. CASE ~DiscardForSender(m, result) /\ m.sender \in Special \ {Push}
  <2>1. ReflectAndAcknowledge(m) /\ Unhandled /\ contacts' = contacts
    BY <1>3 DEF ProcessSender
  <2>2. QED BY <2>1, ReflectEnds DEF Outcome, Unhandled, Quiet
<1>4. CASE ~DiscardForSender(m, result) /\ m.sender \notin Special
  <2>1. Key(m) \notin conversations /\ result \in {"New", "Existing"}
    BY <1>4 DEF DiscardForSender, MarkedUsed
  <2>2. m.sender \in Senders
    BY <1>4, <2>1, MessageType
  <2>3. Push \in Special /\ "none" \in Nicknames
    BY IncomingAssumption
  <2>4. IF result = "New" THEN CreateContact(m) ELSE UpdateContact(m)
    BY <1>4, <2>3 DEF ProcessSender
  <2>5. CASE result = "New"
    <3>1. CASE MultiDevice
      <4>1. /\ task' = Task("CreateContact", m)
            /\ UNCHANGED <<contacts, nonces, acks>> /\ Unhandled
        BY <2>4, <2>5, <3>1 DEF CreateContact
      <4>2. QED BY <2>1, <2>2, <4>1 DEF Outcome, Waiting, Unhandled, Quiet
    <3>2. CASE ~MultiDevice
      <4> DEFINE nickname == IF m.nickname = "unchanged" THEN "none" ELSE m.nickname
      <4>1. Stored(m, Contact("Direct", nickname))
        BY <2>4, <2>5, <3>2 DEF CreateContact
      <4>2. nickname \in Nicknames
        BY <2>3, MessageType
      <4>3. Contact("Direct", nickname)
                \in [level : {"Direct", "Group", "Revoked"}, nickname : Nicknames]
        BY <4>2 DEF Contact
      <4>4. QED BY <2>1, <2>2, <4>1, <4>3, StoredOutcome
    <3>3. QED BY <3>1, <3>2
  <2>6. CASE result = "Existing"
    <3> DEFINE level    == IF NeedsLevel(m) THEN "Direct" ELSE "unchanged"
               nickname == IF NeedsNickname(m) THEN m.nickname ELSE "unchanged"
    <3>1. UpdateContact(m)
      BY <2>4, <2>6
    <3>2. level \in {"Direct", "unchanged"} /\ nickname \in Nicknames \cup {"unchanged"}
      BY MessageType
    <3>3. CASE ~NeedsLevel(m) /\ ~NeedsNickname(m)
      <4>1. HandleMessage(m) /\ contacts' = contacts
        BY <3>1, <3>3 DEF UpdateContact
      <4>2. RequiresDirectContact(m) => contacts[m.sender].level = "Direct"
        BY <3>3 DEF NeedsLevel
      <4>3. QED BY <2>1, <4>1, <4>2, HandleEnds DEF Outcome
    <3>4. CASE ~(~NeedsLevel(m) /\ ~NeedsNickname(m)) /\ MultiDevice
      <4>1. /\ task' = UpdateTask(m, level, nickname, 0)
            /\ UNCHANGED <<contacts, nonces, acks>> /\ Unhandled
        BY <3>1, <3>4 DEF UpdateContact
      <4>2. task' \in Waiting(m)
        BY <3>2, <4>1 DEF Waiting, UpdateTasks
      <4>3. QED BY <2>1, <2>2, <4>1, <4>2 DEF Outcome, Unhandled, Quiet
    <3>5. CASE ~(~NeedsLevel(m) /\ ~NeedsNickname(m)) /\ ~MultiDevice
      <4>1. Stored(m, Updated(contacts[m.sender], level, nickname))
        BY <3>1, <3>5 DEF UpdateContact
      <4>2. contacts[m.sender] \in [level : {"Direct", "Group", "Revoked"}, nickname : Nicknames]
        BY <2>2, <2>6 DEF Books
      <4>3. Updated(contacts[m.sender], level, nickname)
                \in [level : {"Direct", "Group", "Revoked"}, nickname : Nicknames]
        BY <3>2, <4>2, UpdatedType
      <4>4. QED BY <2>1, <2>2, <4>1, <4>3, StoredOutcome
    <3>6. QED BY <3>3, <3>4, <3>5
  <2>7. QED BY <2>1, <2>5, <2>6
<1>5. QED BY <1>1, <1>2, <1>3, <1>4, IncomingAssumption
-----------------------------------------------------------------------------
(* The inductive invariant                                                 *)
(*                                                                         *)
(* Whether a message ID is in use is only looked at when the sender is     *)
(* known; the task remembers nothing of it while it waits for its contact. *)
(* HandledInv says that it need not: until the task hands its message over *)
(* nobody else adds to the conversations.                                  *)

HandledInv ==
    /\ HandledOnce
    /\ \A i \in 1 .. Len(handed) : Key(handed[i]) \in conversations
    /\ task.state \in {"CreateContact", "UpdateContact"} =>
           Key(task.message) \notin conversations /\ task.message.sender \in Senders

\* A task that tries again asks for a direct contact, and gets one.
RetriesInv ==
    task.state = "UpdateContact" =>
        /\ task.retries \in 0 .. 1
        /\ task.retries = 1 => task.level = "Direct"

IncomingInv == TypeOK /\ HandledInv /\ RetriesInv

PollOutcome(m) ==
    \/ Outcome(m)
    \/ /\ UNCHANGED <<contacts, nonces, acks>> /\ Quiet
       /\ task' = Task("FetchSender", m)

Keys == {Key(m) : m \in Messages}

\* A task that waits for something has a message.
LEMMA TaskType ==
    ASSUME TypeOK,
           task.state \in {"Init", "FetchSender", "CreateContact", "ReflectMessage", "Error",
                           "UpdateContact"}
    PROVE  task.message \in Messages
BY DEF TypeOK, Tasks, NoTask

\* Every poll is one of the outcomes above.
LEMMA PollOutcomes ==
    ASSUME IncomingInv, Poll
    PROVE  /\ task.message \in Messages
           /\ PollOutcome(task.message)
           /\ UNCHANGED <<role, mailbox, delivered, acked, counters>>
           /\ cache' \in [Senders -> {"Unknown", "New", "Invalid"}]
           /\ reflected' \in {reflected, reflected \cup {Key(task.message)}}
<1> DEFINE m == task.message
<1>t. /\ contacts \in Books /\ cache \in [Senders -> {"Unknown", "New", "Invalid"}]
      /\ task \in Tasks
  BY DEF IncomingInv, TypeOK, Books
<1>1. CASE PollInit
  <2>1. m \in Messages
    BY <1>1, TaskType DEF PollInit, IncomingInv
  <2>2. UNCHANGED <<cache, role, mailbox, delivered, acked, counters, reflected>>
    BY <1>1 DEF PollInit
  <2>3. PollOutcome(m)
    <3>1. CASE MultiDevice /\ role # "Leader"
      <4>1. Fail(m) /\ Unhandled /\ contacts' = contacts
        BY <1>1, <3>1 DEF PollInit
      <4>2. QED BY <1>t, <2>1, <4>1, FailEnds DEF PollOutcome, Outcome, Unhandled, Quiet
    <3>2. CASE (~MultiDevice \/ role = "Leader") /\ DiscardAtOnce(m)
      <4>1. Discard(m) /\ Unhandled /\ contacts' = contacts
        BY <1>1, <3>2 DEF PollInit
      <4>2. QED BY <1>t, <2>1, <4>1, DiscardEnds DEF PollOutcome, Outcome, Unhandled, Quiet
    <3>3. CASE (~MultiDevice \/ role = "Leader") /\ ~DiscardAtOnce(m)
      <4> DEFINE result == Lookup(m.sender)
      <4>1. IF result = "Unknown"
            THEN /\ task' = Task("FetchSender", m)
                 /\ UNCHANGED <<contacts, nonces, acks>> /\ Unhandled
            ELSE ProcessSender(m, result)
        BY <1>1, <3>3 DEF PollInit
      <4>2. CASE result = "Unknown"
        BY <4>1, <4>2 DEF PollOutcome, Unhandled, Quiet
      <4>3. CASE result # "Unknown"
        <5>1. m.sender \in Senders \cup Special \cup {User}
          BY <2>1, MessageType
        <5>2. /\ result \in {"User", "New", "Invalid", "Existing"}
              /\ m.sender = User => result = "User"
              /\ result = "Existing" => contacts[m.sender] # Absent
          BY <1>t, <4>3, <5>1 DEF Lookup
        <5>3. ProcessSender(m, result)
          BY <4>1, <4>3
        <5>4. QED BY <1>t, <2>1, <5>2, <5>3, ProcessSenderOutcome DEF PollOutcome
      <4>4. QED BY <4>2, <4>3
    <3>4. QED BY <3>1, <3>2, <3>3
  <2>4. QED BY <1>t, <2>1, <2>2, <2>3
<1>2. CASE PollFetchSender
  <2> DEFINE result == IF m.sender \in Registered THEN "New" ELSE "Invalid"
  <2>1. m \in Messages
    BY <1>2, TaskType DEF PollFetchSender, IncomingInv
  <2>2. /\ ProcessSender(m, result)
        /\ cache' = [cache EXCEPT ![m.sender] = result]
        /\ UNCHANGED <<role, mailbox, delivered, acked, counters, reflected>>
    BY <1>2 DEF PollFetchSender
  <2>3. CASE m.sender # User
    <3>1. Outcome(m)
      BY <1>t, <2>1, <2>2, <2>3, ProcessSenderOutcome
    <3>2. cache' \in [Senders -> {"Unknown", "New", "Invalid"}]
      BY <1>t, <2>2
    <3>3. QED BY <2>1, <2>2, <3>1, <3>2 DEF PollOutcome
  <2>4. CASE m.sender = User
    <3>1. result = "Invalid"
      BY <2>4, IncomingAssumption
    <3>2. Discard(m) /\ Unhandled /\ contacts' = contacts
      BY <2>2, <3>1 DEF ProcessSender, DiscardForSender
    <3>3. Outcome(m)
      BY <1>t, <2>1, <3>2, DiscardEnds DEF Outcome, Unhandled, Quiet
    <3>4. cache' \in [Senders -> {"Unknown", "New", "Invalid"}]
      BY <1>t, <2>2
    <3>5. QED BY <2>1, <2>2, <3>3, <3>4 DEF PollOutcome
  <2>5. QED BY <2>3, <2>4
<1>3. CASE PollCreateContact
  <2>1. m \in Messages /\ Key(m) \notin conversations /\ m.sender \in Senders
    BY <1>3, TaskType DEF PollCreateContact, IncomingInv, HandledInv
  <2>2. /\ Ensure(m, contacts[m.sender], 0)
        /\ UNCHANGED <<contacts, cache, role, mailbox, delivered, acked, counters, reflected>>
    BY <1>3 DEF PollCreateContact
  <2>3. UpdateTask(m, "Direct", "unchanged", 0 + 1) \in Waiting(m)
    BY DEF Waiting
  <2>4. Outcome(m)
    BY <1>t, <2>1, <2>2, <2>3, EnsureOutcome DEF Outcome
  <2>5. QED BY <1>t, <2>1, <2>2, <2>4 DEF PollOutcome
<1>4. CASE PollUpdateContact
  <2> DEFINE contact == Updated(contacts[m.sender], task.level, task.nickname)
  <2>1. /\ m \in Messages /\ Key(m) \notin conversations /\ m.sender \in Senders
        /\ task.state = "UpdateContact"
    BY <1>4, TaskType DEF PollUpdateContact, IncomingInv, HandledInv
  <2>2. /\ task.retries \in 0 .. 1
        /\ task.retries = 1 => task.level = "Direct"
        /\ task.level \in {"Direct", "unchanged"}
        /\ task.nickname \in Nicknames \cup {"unchanged"}
    BY <1>t, <2>1 DEF IncomingInv, RetriesInv, Tasks, NoTask
  <2>3. UNCHANGED <<cache, role, mailbox, delivered, acked, counters, reflected>>
    BY <1>4 DEF PollUpdateContact
  <2>4. CASE contacts[m.sender] = Absent
    <3>1. Fail(m) /\ Unhandled /\ contacts' = contacts
      BY <1>4, <2>4 DEF PollUpdateContact
    <3>2. QED BY <1>t, <2>1, <2>3, <3>1, FailEnds DEF PollOutcome, Outcome, Unhandled, Quiet
  <2>5. CASE contacts[m.sender] # Absent /\ m.sender \in Senders
    <3>1. contacts' = [contacts EXCEPT ![m.sender] = contact] /\ Ensure(m, contact, task.retries)
      BY <1>4, <2>5 DEF PollUpdateContact
    <3>2. contacts[m.sender] \in [level : {"Direct", "Group", "Revoked"}, nickname : Nicknames]
      BY <1>t, <2>5 DEF Books
    <3>3. /\ contact \in [level : {"Direct", "Group", "Revoked"}, nickname : Nicknames]
          /\ task.level = "Direct" => contact.level = "Direct"
      BY <2>2, <3>2, UpdatedType
    <3>4. contacts' \in Books /\ contacts'[m.sender] = contact
      BY <1>t, <2>5, <3>1, <3>3 DEF Books
    <3>5. contact.level # "Direct" =>
              UpdateTask(m, "Direct", "unchanged", task.retries + 1) \in Waiting(m)
      <4>1. contact.level # "Direct" => task.retries + 1 = 1
        BY <2>2, <3>3
      <4>2. QED BY <4>1 DEF Waiting
    <3>6. Outcome(m)
      BY <2>1, <2>2, <3>1, <3>4, <3>5, EnsureOutcome DEF Outcome
    <3>7. QED BY <1>t, <2>1, <2>3, <3>6 DEF PollOutcome
  <2>6. QED BY <2>1, <2>4, <2>5
<1>5. CASE PollReflectMessage
  <2>1. m \in Messages
    BY <1>5, TaskType DEF PollReflectMessage, IncomingInv
  <2>2. /\ Acknowledge(m, ReplayProtection(m))
        /\ UNCHANGED <<contacts, conversations, cache, role, mailbox, delivered, acked, counters,
                       handed>>
        /\ reflected' = reflected \cup {Key(m)}
    BY <1>5 DEF PollReflectMessage
  <2>3. Ended(m)
    BY <2>1, <2>2, AcknowledgeEnds DEF ReplayProtection
  <2>4. QED BY <1>t, <2>1, <2>2, <2>3 DEF PollOutcome, Outcome, Quiet
<1>6. QED BY <1>1, <1>2, <1>3, <1>4, <1>5 DEF Poll

\* An outcome keeps the types of what it writes.
LEMMA OutcomeTypes ==
    ASSUME TypeOK, NEW m \in Messages, PollOutcome(m)
    PROVE  /\ contacts' \in Books /\ nonces' \subseteq Nat /\ task' \in Tasks
           /\ conversations' \subseteq Keys /\ acks' \subseteq Keys
           /\ handed' \in Seq(Messages)
<1>t. /\ contacts \in Books /\ nonces \subseteq Nat /\ conversations \subseteq Keys
      /\ acks \subseteq Keys /\ handed \in Seq(Messages)
  BY DEF TypeOK, Books, Keys
<1>1. contacts' \in Books
  BY <1>t DEF PollOutcome, Outcome
<1>2. nonces' \subseteq Nat
  BY <1>t, MessageType DEF PollOutcome, Outcome, Ended
<1>3. acks' \subseteq Keys
  BY <1>t DEF PollOutcome, Outcome, Ended, Keys
<1>4. conversations' \subseteq Keys /\ handed' \in Seq(Messages)
  BY <1>t DEF PollOutcome, Outcome, HandedOver, Quiet, Keys
<1>5. Waiting(m) \subseteq Tasks
  <2>1. UpdateTask(m, "Direct", "unchanged", 1) \in Tasks
    BY DEF UpdateTask, Tasks
  <2>2. UpdateTasks(m) \subseteq Tasks
    BY DEF UpdateTasks, UpdateTask, Tasks
  <2>3. Task("CreateContact", m) \in Tasks
    BY DEF Task, Tasks
  <2>4. QED BY <2>1, <2>2, <2>3 DEF Waiting
<1>6. {NoTask, Task("Error", m), Task("ReflectMessage", m), Task("FetchSender", m)} \subseteq Tasks
  BY DEF NoTask, Task, Tasks
<1>7. task' \in Tasks
  BY <1>5, <1>6 DEF PollOutcome, Outcome, Ended
<1>8. QED BY <1>1, <1>2, <1>3, <1>4, <1>7

\* A task that waits is one with its message and at most one retry.
LEMMA WaitingTasks ==
    ASSUME NEW m \in Messages, NEW t \in Waiting(m)
    PROVE  /\ t.message = m
           /\ t.state = "UpdateContact" =>
                  t.retries \in 0 .. 1 /\ (t.retries = 1 => t.level = "Direct")
BY DEF Waiting, UpdateTasks, UpdateTask, Task

\* An outcome keeps the invariant: a message is only handed over when its ID is not
\* in use, and then it is.
LEMMA OutcomeKeeps ==
    ASSUME TypeOK, HandledInv, NEW m \in Messages, PollOutcome(m)
    PROVE  HandledInv' /\ RetriesInv'
<1>t. handed \in Seq(Messages)
  BY DEF TypeOK
<1>e. ASSUME Ended(m) PROVE task'.state \notin {"CreateContact", "UpdateContact"}
  BY <1>e DEF Ended, NoTask, Task
<1>1. CASE Ended(m) /\ Quiet
  BY <1>1, <1>e DEF Quiet, HandledInv, HandledOnce, RetriesInv
<1>2. CASE Ended(m) /\ HandedOver(m) /\ Key(m) \notin conversations
  <2>1. /\ Len(handed') = Len(handed) + 1
        /\ \A i \in 1 .. Len(handed') : handed'[i] = IF i <= Len(handed) THEN handed[i] ELSE m
    BY <1>t, <1>2 DEF HandedOver
  <2>2. \A i \in 1 .. Len(handed') : i <= Len(handed) => Key(handed'[i]) \in conversations
    BY <1>t, <2>1 DEF HandledInv
  <2>3. \A i \in 1 .. Len(handed') : Key(handed'[i]) \in conversations'
    BY <1>t, <1>2, <2>1, <2>2 DEF HandedOver
  <2>4. ASSUME NEW i \in 1 .. Len(handed'), NEW k \in 1 .. Len(handed'), i # k
        PROVE  Key(handed'[i]) # Key(handed'[k])
    <3>1. CASE i <= Len(handed) /\ k <= Len(handed)
      BY <1>t, <2>1, <2>4, <3>1 DEF HandledInv, HandledOnce
    <3>2. CASE i <= Len(handed) /\ ~(k <= Len(handed))
      BY <1>2, <2>1, <2>2, <3>2
    <3>3. CASE ~(i <= Len(handed)) /\ k <= Len(handed)
      BY <1>2, <2>1, <2>2, <3>3
    <3>4. CASE ~(i <= Len(handed)) /\ ~(k <= Len(handed))
      BY <1>t, <2>1, <2>4, <3>4
    <3>5. QED BY <3>1, <3>2, <3>3, <3>4
  <2>5. QED BY <1>2, <1>e, <2>3, <2>4 DEF HandledInv, HandledOnce, RetriesInv
<1>3. CASE /\ Quiet /\ Key(m) \notin conversations /\ m.sender \in Senders
           /\ task' \in Waiting(m)
  BY <1>3, WaitingTasks DEF Quiet, HandledInv, HandledOnce, RetriesInv
<1>4. CASE Quiet /\ task' = Task("FetchSender", m)
  <2>1. task'.state \notin {"CreateContact", "UpdateContact"}
    BY <1>4 DEF Task
  <2>2. QED BY <1>4, <2>1 DEF Quiet, HandledInv, HandledOnce, RetriesInv
<1>5. QED BY <1>1, <1>2, <1>3, <1>4 DEF PollOutcome, Outcome

\* The invariant holds initially and is kept by every step.
LEMMA IncomingInit == Init => IncomingInv
<1> SUFFICES ASSUME Init PROVE IncomingInv
  OBVIOUS
<1>1. task = NoTask /\ task \in Tasks /\ task.state = "None"
  BY DEF Init, NoTask, Tasks
<1>2. contacts \in Books
  BY IncomingAssumption DEF Init, Books
<1>3. mailbox \subseteq Messages
  BY IncomingAssumption DEF Init
<1>4. cache \in [Senders -> {"Unknown", "New", "Invalid"}]
  BY DEF Init, NewCache
<1>5. handed = <<>> /\ handed \in Seq(Messages)
  BY EmptySeq DEF Init
<1>6. TypeOK
  BY <1>1, <1>2, <1>3, <1>4, <1>5, IncomingAssumption DEF Init, TypeOK, Books
<1>7. HandledInv /\ RetriesInv
  BY <1>1, <1>5 DEF HandledInv, HandledOnce, RetriesInv
<1>8. QED BY <1>6, <1>7 DEF IncomingInv

LEMMA IncomingStep == IncomingInv /\ [Next]_vars => IncomingInv'
<1> SUFFICES ASSUME IncomingInv, [Next]_vars PROVE IncomingInv'
  OBVIOUS
<1>i. TypeOK /\ HandledInv /\ RetriesInv
  BY DEF IncomingInv
<1>b. MaxFaults \in Nat /\ MaxChanges \in Nat
  BY IncomingAssumption
<1>1. ASSUME NEW m \in Messages, HandleIncomingMessage(m) PROVE IncomingInv'
  <2>1. task' = Task("Init", m) /\ task' \in Tasks /\ task'.state = "Init"
    BY <1>1 DEF HandleIncomingMessage, Task, Tasks
  <2>2. TypeOK'
    BY <1>i, <1>1, <2>1 DEF HandleIncomingMessage, TypeOK, storage, counters
  <2>3. HandledInv' /\ RetriesInv'
    BY <1>i, <1>1, <2>1
       DEF HandleIncomingMessage, storage, HandledInv, HandledOnce, RetriesInv
  <2>4. QED BY <2>2, <2>3 DEF IncomingInv
<1>2. CASE Poll
  <2>1. /\ task.message \in Messages
        /\ PollOutcome(task.message)
        /\ UNCHANGED <<role, mailbox, delivered, acked, counters>>
        /\ cache' \in [Senders -> {"Unknown", "New", "Invalid"}]
        /\ reflected' \in {reflected, reflected \cup {Key(task.message)}}
    BY <1>2, PollOutcomes
  <2>2. /\ contacts' \in Books /\ nonces' \subseteq Nat /\ task' \in Tasks
        /\ conversations' \subseteq Keys /\ acks' \subseteq Keys
        /\ handed' \in Seq(Messages)
    BY <1>i, <2>1, OutcomeTypes
  <2>3. reflected' \subseteq Keys
    BY <1>i, <2>1 DEF TypeOK, Keys
  <2>4. TypeOK'
    BY <1>i, <2>1, <2>2, <2>3 DEF TypeOK, Books, Keys, counters
  <2>5. QED BY <1>i, <2>1, <2>4, OutcomeKeeps DEF IncomingInv
<1>3. CASE RequestFails
  <2>1. task.message \in Messages
    BY <1>i, <1>3, TaskType DEF RequestFails
  <2>2. task' = Task("Error", task.message) /\ task' \in Tasks /\ task'.state = "Error"
        /\ UNCHANGED <<nonces, acks>>
    BY <1>3, <2>1 DEF RequestFails, Fail, Task, Tasks
  <2>3. faults' \in 0 .. MaxFaults
    BY <1>i, <1>b, <1>3 DEF RequestFails, TypeOK
  <2>4. TypeOK'
    BY <1>i, <1>3, <2>2, <2>3 DEF RequestFails, TypeOK
  <2>5. HandledInv' /\ RetriesInv'
    BY <1>i, <1>3, <2>2 DEF RequestFails, HandledInv, HandledOnce, RetriesInv
  <2>6. QED BY <2>4, <2>5 DEF IncomingInv
<1>4. CASE Reconnect
  <2>1. task' = NoTask /\ task' \in Tasks /\ task'.state = "None"
    BY <1>4 DEF Reconnect, NoTask, Tasks
  <2>2. faults' \in 0 .. MaxFaults
    BY <1>i, <1>b, <1>4 DEF Reconnect, TypeOK
  <2>3. TypeOK'
    BY <1>i, <1>4, <2>1, <2>2 DEF Reconnect, TypeOK, storage, NewCache
  <2>4. HandledInv' /\ RetriesInv'
    BY <1>i, <1>4, <2>1 DEF Reconnect, storage, HandledInv, HandledOnce, RetriesInv
  <2>5. QED BY <2>3, <2>4 DEF IncomingInv
<1>5. ASSUME NEW key \in acks, ServerAck(key) PROVE IncomingInv'
  <2>1. TypeOK'
    BY <1>i, <1>5 DEF ServerAck, TypeOK, storage, instance, counters
  <2>2. HandledInv' /\ RetriesInv'
    BY <1>i, <1>5 DEF ServerAck, storage, instance, HandledInv, HandledOnce, RetriesInv
  <2>3. QED BY <2>1, <2>2 DEF IncomingInv
<1>6. CASE BecomeLeader
  <2>1. TypeOK'
    BY <1>i, <1>6 DEF BecomeLeader, TypeOK, storage, server, counters
  <2>2. HandledInv' /\ RetriesInv'
    BY <1>i, <1>6 DEF BecomeLeader, storage, HandledInv, HandledOnce, RetriesInv
  <2>3. QED BY <2>1, <2>2 DEF IncomingInv
<1>7. ASSUME NEW sender \in Senders, Expire(sender) PROVE IncomingInv'
  <2>1. TypeOK'
    BY <1>i, <1>7 DEF Expire, TypeOK, storage, server, counters
  <2>2. HandledInv' /\ RetriesInv'
    BY <1>i, <1>7 DEF Expire, storage, HandledInv, HandledOnce, RetriesInv
  <2>3. QED BY <2>1, <2>2 DEF IncomingInv
<1>8. ASSUME NEW sender \in Senders, NEW level \in {"Absent", "Direct", "Group"},
             PeerChange(sender, Contact(level, "none"))
      PROVE IncomingInv'
  <2>1. Contact(level, "none") \in {Absent} \cup [level : {"Direct", "Group", "Revoked"},
                                                  nickname : Nicknames]
    BY IncomingAssumption DEF Contact, Absent
  <2>2. contacts' \in Books
    BY <1>i, <1>8, <2>1 DEF PeerChange, TypeOK, Books
  <2>3. changes' \in 0 .. MaxChanges
    BY <1>i, <1>b, <1>8 DEF PeerChange, TypeOK
  <2>4. TypeOK'
    BY <1>i, <1>8, <2>2, <2>3 DEF PeerChange, TypeOK, Books, instance, server
  <2>5. HandledInv' /\ RetriesInv'
    BY <1>i, <1>8 DEF PeerChange, instance, HandledInv, HandledOnce, RetriesInv
  <2>6. QED BY <2>4, <2>5 DEF IncomingInv
<1>9. CASE UNCHANGED vars
  <2>1. TypeOK'
    BY <1>i, <1>9 DEF vars, TypeOK, storage, instance, server, counters
  <2>2. HandledInv' /\ RetriesInv'
    BY <1>i, <1>9 DEF vars, storage, instance, HandledInv, HandledOnce, RetriesInv
  <2>3. QED BY <2>1, <2>2 DEF IncomingInv
<1>10. QED BY <1>1, <1>2, <1>3, <1>4, <1>5, <1>6, <1>7, <1>8, <1>9 DEF Next

-----------------------------------------------------------------------------
(* What an acknowledgement, a used nonce and a reflection stand for        *)
(*                                                                         *)
(* A message that is wanted leaves none of these behind unless it is in    *)
(* the conversations: ProtectedBy is what each method of the task does for *)
(* that, and AckedInv adds what the task, the nonces, the lookup cache and *)
(* the contacts may say of a sender to keep it.                            *)

NeverRevoked(sender) == \A book \in AddressBooks : book[sender].level # "Revoked"

Protected(m) ==
    \/ Key(m) \in conversations'
    \/ UNCHANGED <<nonces, acks>> /\ task'.state # "ReflectMessage"

AckedInv ==
    /\ AckedIsHandled
    /\ \A m \in Messages : (Wanted(m) /\ m.nonce \in nonces) => Key(m) \in conversations
    /\ (task.state = "ReflectMessage" /\ Wanted(task.message))
           => Key(task.message) \in conversations
    /\ \A sender \in Registered : cache[sender] # "Invalid"
    /\ \A sender \in Senders : NeverRevoked(sender) => contacts[sender].level # "Revoked"

\* What makes a message wanted, as the task sees it
LEMMA WantedMessage ==
    ASSUME NEW m \in Messages, Wanted(m)
    PROVE  /\ m.fault = "None" /\ m.receiver = User /\ m.type = "Text"
           /\ m.sender \in Registered /\ m.sender \in Senders /\ m.sender \notin Blocked
           /\ m.sender \notin Special /\ m.sender # User /\ m.sender # Push
           /\ NeverRevoked(m.sender)
           /\ ~BlockUnknown \/ m.sender \in Predefined
BY IncomingAssumption DEF Wanted, NeverRevoked

\* A message that fails leaves nothing behind, one that is handled is in the
\* conversations.
LEMMA FailProtects ==
    ASSUME NEW m \in Messages, Fail(m)
    PROVE  Protected(m)
BY DEF Fail, Task, Protected

LEMMA HandleProtects ==
    ASSUME NEW m \in Messages, Wanted(m), HandleMessage(m)
    PROVE  Protected(m)
<1>1. m.type = "Text"
  BY WantedMessage
<1>2. conversations' = conversations \cup {Key(m)}
  BY <1>1 DEF HandleMessage
<1>3. QED BY <1>2 DEF Protected

LEMMA EnsureProtects ==
    ASSUME NEW m \in Messages, Wanted(m), NEW contact, NEW retries, Ensure(m, contact, retries)
    PROVE  Protected(m)
<1>1. RequiresDirectContact(m)
  BY WantedMessage DEF RequiresDirectContact
<1>2. CASE retries = 3 \/ contact = Absent
  <2>1. Fail(m)
    BY <1>1, <1>2 DEF Ensure
  <2>2. QED BY <2>1, FailProtects
<1>3. CASE retries # 3 /\ contact # Absent /\ ~IsDirect(m, contact)
  <2>1. /\ task' = UpdateTask(m, "Direct", "unchanged", retries + 1)
        /\ UNCHANGED <<nonces, acks>>
    BY <1>1, <1>3 DEF Ensure
  <2>2. QED BY <2>1 DEF UpdateTask, Protected
<1>4. CASE retries # 3 /\ contact # Absent /\ IsDirect(m, contact)
  <2>1. HandleMessage(m)
    BY <1>1, <1>4 DEF Ensure
  <2>2. QED BY <2>1, HandleProtects
<1>5. QED BY <1>2, <1>3, <1>4

\* process_fetch_sender_state: a wanted message is only discarded when its message ID
\* is in use.
LEMMA ProcessSenderProtects ==
    ASSUME NEW m \in Messages, Wanted(m), conversations \subseteq conversations',
           NEW result \in {"New", "Existing"},
           ProcessSender(m, result)
    PROVE  Protected(m)
<1>w. /\ m.fault = "None" /\ m.type = "Text" /\ m.sender \notin Blocked
      /\ m.sender \notin Special /\ m.sender # Push
      /\ ~BlockUnknown \/ m.sender \in Predefined
  BY WantedMessage
<1>1. CASE DiscardForSender(m, result)
  <2>1. Permitted(m.sender, result) /\ RequiresDirectContact(m)
    BY <1>w DEF Permitted, RequiresDirectContact
  <2>2. MarkedUsed(m)
    BY <1>1, <1>w, <2>1 DEF DiscardForSender
  <2>3. QED BY <2>2 DEF MarkedUsed, Protected
<1>2. CASE ~DiscardForSender(m, result)
  <2>1. IF result = "New" THEN CreateContact(m) ELSE UpdateContact(m)
    BY <1>w, <1>2 DEF ProcessSender
  <2>2. CASE CreateContact(m)
    <3>1. CASE MultiDevice
      <4>1. task' = Task("CreateContact", m) /\ UNCHANGED <<nonces, acks>>
        BY <2>2, <3>1 DEF CreateContact
      <4>2. QED BY <4>1 DEF Task, Protected
    <3>2. CASE ~MultiDevice
      BY <2>2, <3>2, EnsureProtects DEF CreateContact, Stored
    <3>3. QED BY <3>1, <3>2
  <2>3. CASE UpdateContact(m)
    <3> DEFINE level    == IF NeedsLevel(m) THEN "Direct" ELSE "unchanged"
               nickname == IF NeedsNickname(m) THEN m.nickname ELSE "unchanged"
    <3>1. CASE ~NeedsLevel(m) /\ ~NeedsNickname(m)
      BY <2>3, <3>1, HandleProtects DEF UpdateContact
    <3>2. CASE ~(~NeedsLevel(m) /\ ~NeedsNickname(m)) /\ MultiDevice
      <4>1. task' = UpdateTask(m, level, nickname, 0) /\ UNCHANGED <<nonces, acks>>
        BY <2>3, <3>2 DEF UpdateContact
      <4>2. QED BY <4>1 DEF UpdateTask, Protected
    <3>3. CASE ~(~NeedsLevel(m) /\ ~NeedsNickname(m)) /\ ~MultiDevice
      <4>1. Ensure(m, Updated(contacts[m.sender], level, nickname), 0)
        BY <2>3, <3>3 DEF UpdateContact, Stored
      <4>2. QED BY <4>1, EnsureProtects
    <3>4. QED BY <3>1, <3>2, <3>3
  <2>4. QED BY <2>1, <2>2, <2>3
<1>3. QED BY <1>1, <1>2

\* An outcome adds to the conversations, and to nonces and acknowledgements those of its
\* message alone.
LEMMA OutcomeAdds ==
    ASSUME NEW m \in Messages, PollOutcome(m)
    PROVE  /\ conversations \subseteq conversations'
           /\ nonces' \subseteq nonces \cup {m.nonce}
           /\ acks' \subseteq acks \cup {Key(m)}
           /\ task' = NoTask \/ task'.message = m
<1>1. \A t \in Waiting(m) : t.message = m
  BY WaitingTasks
<1>2. QED BY <1>1 DEF PollOutcome, Outcome, Ended, Quiet, HandedOver, Task

\* No poll discards a wanted message that is not in the conversations.
LEMMA PollProtects ==
    ASSUME IncomingInv, AckedInv, Poll, Wanted(task.message)
    PROVE  Protected(task.message)
<1> DEFINE m == task.message
<1>m. m \in Messages /\ conversations \subseteq conversations'
  BY PollOutcomes, OutcomeAdds
<1>w. /\ m.fault = "None" /\ m.receiver = User
      /\ m.sender \in Registered /\ m.sender \in Senders
      /\ m.sender \notin Special /\ m.sender # User /\ NeverRevoked(m.sender)
  BY <1>m, WantedMessage
<1>t. cache \in [Senders -> {"Unknown", "New", "Invalid"}]
  BY DEF IncomingInv, TypeOK
<1>1. CASE PollInit
  <2> DEFINE result == Lookup(m.sender)
  <2>1. CASE MultiDevice /\ role # "Leader"
    BY <1>1, <1>m, <2>1, FailProtects DEF PollInit
  <2>2. CASE (~MultiDevice \/ role = "Leader") /\ DiscardAtOnce(m)
    <3>1. m.nonce \in nonces
      BY <1>w, <2>2 DEF DiscardAtOnce
    <3>2. Key(m) \in conversations
      BY <1>m, <3>1 DEF AckedInv
    <3>3. QED BY <1>m, <3>2 DEF Protected
  <2>3. CASE (~MultiDevice \/ role = "Leader") /\ ~DiscardAtOnce(m)
    <3>1. IF result = "Unknown"
          THEN task' = Task("FetchSender", m) /\ UNCHANGED <<nonces, acks>>
          ELSE ProcessSender(m, result)
      BY <1>1, <2>3 DEF PollInit
    <3>2. contacts[m.sender].level # "Revoked" /\ cache[m.sender] # "Invalid"
      BY <1>w DEF AckedInv
    <3>3. result \in {"Unknown", "New", "Existing"}
      BY <1>t, <1>w, <3>2 DEF Lookup
    <3>4. CASE result = "Unknown"
      BY <3>1, <3>4 DEF Task, Protected
    <3>5. CASE result # "Unknown"
      BY <1>m, <3>1, <3>3, <3>5, ProcessSenderProtects
    <3>6. QED BY <3>4, <3>5
  <2>4. QED BY <2>1, <2>2, <2>3
<1>2. CASE PollFetchSender
  <2>1. ProcessSender(m, "New")
    BY <1>2, <1>w DEF PollFetchSender
  <2>2. QED BY <1>m, <2>1, ProcessSenderProtects
<1>3. CASE PollCreateContact
  BY <1>3, <1>m, EnsureProtects DEF PollCreateContact
<1>4. CASE PollUpdateContact
  <2>1. CASE contacts[m.sender] = Absent
    BY <1>4, <1>m, <2>1, FailProtects DEF PollUpdateContact
  <2>2. CASE contacts[m.sender] # Absent
    <3>1. Ensure(m, Updated(contacts[m.sender], task.level, task.nickname), task.retries)
      BY <1>4, <2>2 DEF PollUpdateContact
    <3>2. QED BY <1>m, <3>1, EnsureProtects
  <2>3. QED BY <2>1, <2>2
<1>5. CASE PollReflectMessage
  BY <1>5, <1>m DEF PollReflectMessage, AckedInv, Protected
<1>6. QED BY <1>1, <1>2, <1>3, <1>4, <1>5 DEF Poll

\* No poll revokes a contact.
NoneRevoked ==
    \A sender \in Senders :
        contacts'[sender].level = "Revoked" => contacts[sender].level = "Revoked"

LEMMA StoredKeepsLevels ==
    ASSUME contacts \in Books, NEW m, m.sender \in Senders, NEW contact,
           contact.level = "Revoked" => contacts[m.sender].level = "Revoked",
           contacts' = [contacts EXCEPT ![m.sender] = contact]
    PROVE  NoneRevoked
BY DEF Books, NoneRevoked

LEMMA ProcessSenderRevokes ==
    ASSUME NEW m \in Messages, contacts \in Books, NEW result,
           result \in {"New", "Existing", "Invalid", "User"}, m.sender = User => result # "New",
           result = "Existing" => m.sender \in Senders,
           ProcessSender(m, result)
    PROVE  NoneRevoked
<1>1. CASE contacts' = contacts
  BY <1>1 DEF NoneRevoked
<1>2. CASE contacts' # contacts
  <2>1. /\ ~DiscardForSender(m, result) /\ m.sender \notin Special
        /\ IF result = "New" THEN CreateContact(m) ELSE UpdateContact(m)
    BY <1>2, IncomingAssumption DEF ProcessSender
  <2>2. m.sender \in Senders
    BY <2>1, MessageType DEF DiscardForSender
  <2>3. CASE CreateContact(m)
    <3> DEFINE contact == Contact("Direct", IF m.nickname = "unchanged" THEN "none" ELSE m.nickname)
    <3>1. contacts' = [contacts EXCEPT ![m.sender] = contact]
      BY <1>2, <2>3 DEF CreateContact, Stored
    <3>2. contact.level # "Revoked"
      BY DEF Contact
    <3>3. QED BY <2>2, <3>1, <3>2, StoredKeepsLevels
  <2>4. CASE UpdateContact(m)
    <3>1. PICK level, nickname :
             contacts' = [contacts EXCEPT ![m.sender]
                             = Updated(contacts[m.sender], level, nickname)]
      BY <1>2, <2>4 DEF UpdateContact, Stored
    <3>2. Updated(contacts[m.sender], level, nickname).level = "Revoked"
              => contacts[m.sender].level = "Revoked"
      BY DEF Updated
    <3>3. QED BY <2>2, <3>1, <3>2, StoredKeepsLevels
  <2>5. QED BY <2>1, <2>3, <2>4
<1>3. QED BY <1>1, <1>2

LEMMA PollKeepsSenders ==
    ASSUME IncomingInv, AckedInv, Poll
    PROVE  /\ NoneRevoked
           /\ \A sender \in Registered : cache'[sender] # "Invalid"
<1> DEFINE m == task.message
<1>t. contacts \in Books /\ cache \in [Senders -> {"Unknown", "New", "Invalid"}]
  BY DEF IncomingInv, TypeOK, Books
<1>m. m \in Messages /\ m.sender \in Senders \cup Special \cup {User}
  BY PollOutcomes, MessageType
<1>r. Registered \subseteq Senders /\ User \notin Senders
  BY IncomingAssumption
<1>c. \A sender \in Registered : cache[sender] # "Invalid"
  BY DEF AckedInv
<1>1. CASE PollInit
  <2>1. cache' = cache
    BY <1>1 DEF PollInit
  <2>2. CASE contacts' = contacts
    BY <2>1, <2>2, <1>c DEF NoneRevoked
  <2>3. CASE contacts' # contacts
    <3>1. ProcessSender(m, Lookup(m.sender)) /\ Lookup(m.sender) # "Unknown"
      BY <1>1, <2>3 DEF PollInit
    <3>2. /\ Lookup(m.sender) \in {"New", "Existing", "Invalid", "User"}
          /\ m.sender = User => Lookup(m.sender) # "New"
          /\ Lookup(m.sender) = "Existing" => m.sender \in Senders
      BY <1>t, <1>m, <3>1 DEF Lookup
    <3>3. QED BY <1>t, <1>m, <1>c, <2>1, <3>1, <3>2, ProcessSenderRevokes
  <2>4. QED BY <2>2, <2>3
<1>2. CASE PollFetchSender
  <2> DEFINE result == IF m.sender \in Registered THEN "New" ELSE "Invalid"
  <2>1. ProcessSender(m, result) /\ cache' = [cache EXCEPT ![m.sender] = result]
    BY <1>2 DEF PollFetchSender
  <2>2. \A sender \in Registered : cache'[sender] # "Invalid"
    BY <1>t, <1>c, <1>r, <2>1
  <2>3. NoneRevoked
    BY <1>t, <1>m, <1>r, <2>1, ProcessSenderRevokes
  <2>4. QED BY <2>2, <2>3
<1>3. CASE PollCreateContact
  BY <1>3, <1>c DEF PollCreateContact, NoneRevoked
<1>4. CASE PollUpdateContact
  <2>1. cache' = cache
    BY <1>4 DEF PollUpdateContact
  <2>2. CASE contacts[m.sender] = Absent
    BY <1>4, <1>c, <2>2 DEF PollUpdateContact, NoneRevoked
  <2>3. CASE contacts[m.sender] # Absent
    <3> DEFINE contact == Updated(contacts[m.sender], task.level, task.nickname)
    <3>1. contacts' = [contacts EXCEPT ![m.sender] = contact]
      BY <1>4, <2>3 DEF PollUpdateContact
    <3>2. contact.level = "Revoked" => contacts[m.sender].level = "Revoked"
      BY DEF Updated
    <3>3. m.sender \in Senders
      BY <1>4 DEF PollUpdateContact, IncomingInv, HandledInv
    <3>4. QED BY <1>t, <1>c, <2>1, <3>1, <3>2, <3>3, StoredKeepsLevels
  <2>4. QED BY <2>2, <2>3
<1>5. CASE PollReflectMessage
  BY <1>5, <1>c DEF PollReflectMessage, NoneRevoked
<1>6. QED BY <1>1, <1>2, <1>3, <1>4, <1>5 DEF Poll

\* A poll keeps the invariant: what is left behind is the message's own.
LEMMA PollKeepsAcked ==
    ASSUME IncomingInv, AckedInv, Poll
    PROVE  AckedInv'
<1> DEFINE m == task.message
<1>1. /\ m \in Messages /\ acked' = acked
      /\ conversations \subseteq conversations'
      /\ nonces' \subseteq nonces \cup {m.nonce}
      /\ acks' \subseteq acks \cup {Key(m)}
      /\ task' = NoTask \/ task'.message = m
  BY PollOutcomes, OutcomeAdds
<1>2. Wanted(m) => Protected(m)
  BY PollProtects
<1>3. NoneRevoked /\ \A sender \in Registered : cache'[sender] # "Invalid"
  BY PollKeepsSenders
<1>4. ASSUME NEW n \in Messages, Key(n) \in acks' \cup acked',
             \A k \in Messages : Key(k) = Key(n) => Wanted(k)
      PROVE  Key(n) \in conversations'
  <2>1. CASE Key(n) \in acks \cup acked
    BY <1>1, <1>4, <2>1 DEF AckedInv, AckedIsHandled
  <2>2. CASE Key(n) \notin acks \cup acked
    <3>1. Key(n) = Key(m) /\ Key(n) \in acks' /\ Wanted(m)
      BY <1>1, <1>4, <2>2
    <3>2. acks' # acks
      BY <2>2, <3>1
    <3>3. QED BY <1>2, <3>1, <3>2 DEF Protected
  <2>3. QED BY <2>1, <2>2
<1>5. ASSUME NEW n \in Messages, Wanted(n), n.nonce \in nonces'
      PROVE  Key(n) \in conversations'
  <2>1. CASE n.nonce \in nonces
    BY <1>1, <1>5, <2>1 DEF AckedInv
  <2>2. CASE n.nonce \notin nonces
    <3>1. n.nonce = m.nonce /\ nonces' # nonces
      BY <1>1, <1>5, <2>2
    <3>2. n = m
      BY <1>1, <1>5, <3>1 DEF Wanted
    <3>3. QED BY <1>2, <1>5, <3>1, <3>2 DEF Protected
  <2>3. QED BY <2>1, <2>2
<1>6. ASSUME task'.state = "ReflectMessage", Wanted(task'.message)
      PROVE  Key(task'.message) \in conversations'
  <2>1. task'.message = m
    BY <1>1, <1>6 DEF NoTask
  <2>2. QED BY <1>2, <1>6, <2>1 DEF Protected
<1>7. \A sender \in Senders : NeverRevoked(sender) => contacts'[sender].level # "Revoked"
  BY <1>3 DEF NoneRevoked, AckedInv
<1>8. AckedIsHandled'
  BY <1>4 DEF AckedIsHandled, Wanted, Key
<1>9. QED BY <1>3, <1>5, <1>6, <1>7, <1>8 DEF AckedInv, Wanted, Key, NeverRevoked

LEMMA AckedInit == Init => AckedInv
<1> SUFFICES ASSUME Init PROVE AckedInv
  OBVIOUS
<1>1. nonces = {} /\ acks = {} /\ acked = {} /\ task = NoTask /\ cache = NewCache
  BY DEF Init
<1>2. \A sender \in Senders : NeverRevoked(sender) => contacts[sender].level # "Revoked"
  BY DEF Init, NeverRevoked
<1>3. \A sender \in Registered : cache[sender] # "Invalid"
  BY <1>1, IncomingAssumption DEF NewCache
<1>4. QED BY <1>1, <1>2, <1>3 DEF AckedInv, AckedIsHandled, NoTask

LEMMA AckedStep == IncomingInv /\ AckedInv /\ [Next]_vars => AckedInv'
<1> SUFFICES ASSUME IncomingInv, AckedInv, [Next]_vars PROVE AckedInv'
  OBVIOUS
<1> USE DEF AckedInv, AckedIsHandled, Wanted, Key, NeverRevoked
<1>1. ASSUME NEW m \in Messages, HandleIncomingMessage(m) PROVE AckedInv'
  BY <1>1 DEF HandleIncomingMessage, storage, Task
<1>2. CASE Poll
  BY <1>2, PollKeepsAcked
<1>3. CASE RequestFails
  BY <1>3 DEF RequestFails, Fail, Task
<1>4. CASE Reconnect
  <2>1. \A sender \in Registered : cache'[sender] # "Invalid"
    BY <1>4, IncomingAssumption DEF Reconnect, NewCache
  <2>2. QED BY <1>4, <2>1 DEF Reconnect, storage, NoTask
<1>5. ASSUME NEW key \in acks, ServerAck(key) PROVE AckedInv'
  <2>1. acks' \cup acked' = acks \cup acked
    BY <1>5 DEF ServerAck
  <2>2. QED BY <1>5, <2>1 DEF ServerAck, storage, instance
<1>6. CASE BecomeLeader
  BY <1>6 DEF BecomeLeader, storage, server
<1>7. ASSUME NEW sender \in Senders, Expire(sender) PROVE AckedInv'
  <2>1. \A s \in Registered : cache'[s] # "Invalid"
    BY <1>7, IncomingAssumption DEF Expire, IncomingInv, TypeOK
  <2>2. QED BY <1>7, <2>1 DEF Expire, storage, server
<1>8. ASSUME NEW sender \in Senders, NEW level \in {"Absent", "Direct", "Group"},
             PeerChange(sender, Contact(level, "none"))
      PROVE  AckedInv'
  <2>1. \A s \in Senders : contacts'[s].level = "Revoked" => contacts[s].level = "Revoked"
    BY <1>8 DEF PeerChange, Contact, IncomingInv, TypeOK
  <2>2. QED BY <1>8, <2>1 DEF PeerChange, instance, server
<1>9. CASE UNCHANGED vars
  BY <1>9 DEF vars, storage, instance, server
<1>10. QED BY <1>1, <1>2, <1>3, <1>4, <1>5, <1>6, <1>7, <1>8, <1>9 DEF Next

-----------------------------------------------------------------------------
(* The theorems                                                            *)

\* The storage, the task and what the server holds keep their types.
THEOREM IncomingTypes == Spec => []TypeOK
<1>1. IncomingInv => TypeOK
  BY DEF IncomingInv
<1>2. QED BY <1>1, IncomingInit, IncomingStep, PTL DEF Spec

\* No message is handed to the application twice, whatever is delivered again, fails
\* or is changed by other devices, and however often (incoming.rs).
THEOREM HandedOverOnce == Spec => []HandledOnce
<1>1. IncomingInv => HandledOnce
  BY DEF IncomingInv, HandledInv
<1>2. QED BY <1>1, IncomingInit, IncomingStep, PTL DEF Spec

\* The contact of a sender is adjusted at most once more, however often other
\* devices change it (n_retries).
THEOREM OneRetryIsEnough == Spec => []RetriesOnce
<1>1. IncomingInv => RetriesOnce
  BY DEF IncomingInv, RetriesInv, RetriesOnce
<1>2. QED BY <1>1, IncomingInit, IncomingStep, PTL DEF Spec

\* The sender of a message is a direct contact in the step that hands it over, if
\* the message requires it.
THEOREM HandedOverFromDirectContact == Spec => DirectWhenHandled
<1> DEFINE Handing == \A m \in Messages :
               (handed' = Append(handed, m) /\ RequiresDirectContact(m))
                   => contacts'[m.sender].level = "Direct"
<1>1. IncomingInv /\ [Next]_vars => [Handing]_vars
  <2> SUFFICES ASSUME IncomingInv, [Next]_vars,
                      NEW m \in Messages, handed' = Append(handed, m), RequiresDirectContact(m)
               PROVE  contacts'[m.sender].level = "Direct"
    OBVIOUS
  <2>1. handed \in Seq(Messages)
    BY DEF IncomingInv, TypeOK
  <2>2. handed' # handed
    BY <2>1
  <2>3. Poll
    BY <2>2 DEF Next, HandleIncomingMessage, RequestFails, Reconnect, ServerAck, BecomeLeader,
                Expire, PeerChange, vars
  <2>4. PollOutcome(task.message) /\ task.message \in Messages
    BY <2>3, PollOutcomes
  <2>5. /\ HandedOver(task.message)
        /\ RequiresDirectContact(task.message) => contacts'[task.message.sender].level = "Direct"
    BY <2>2, <2>4 DEF PollOutcome, Outcome, Quiet
  <2>6. task.message = m
    <3>1. \A n \in Messages : Append(handed, n)[Len(handed) + 1] = n
      BY <2>1, AppendProperties
    <3>2. Append(handed, m) = Append(handed, task.message)
      BY <2>5 DEF HandedOver
    <3>3. QED BY <2>4, <3>1, <3>2
  <2>7. QED BY <2>5, <2>6
<1>2. QED BY <1>1, IncomingInit, IncomingStep, PTL DEF Spec, DirectWhenHandled

\* Adjusting the acquaintance level of a sender comes to its end, with the level
\* it was started for, however often other devices change the contact.
THEOREM LevelStaysAdjusted == Spec => LevelAdjusted
BY OneRetryIsEnough, HandedOverFromDirectContact, PTL DEF LevelAdjusted
\* The server forgets a message the user should see only once it is in the
\* conversations, through lost connections, failed requests, contacts changed
\* meanwhile and repeated deliveries.
THEOREM AckedWasHandled == Spec => []AckedIsHandled
<1>1. AckedInv => AckedIsHandled
  BY DEF AckedInv
<1>2. QED BY <1>1, IncomingInit, IncomingStep, AckedInit, AckedStep, PTL DEF Spec
=============================================================================

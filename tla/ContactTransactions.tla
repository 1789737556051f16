------------------------- MODULE ContactTransactions -------------------------
(***************************************************************************)
(* The tasks that create and update contacts (lib/src/csp_e2e/contacts)    *)
(* and the transactions they run in (lib/src/csp_e2e/transaction), for the *)
(* devices of a device group and the mediator server between them.         *)
(*                                                                         *)
(* A task asks the mediator for the transaction, checks its precondition   *)
(* before and after, reflects its contacts to the other devices, commits   *)
(* and only then changes the device's own contacts.  A device that is not  *)
(* linked has no D2X context and changes its contacts at once.             *)
(*                                                                         *)
(* External: the mediator, a FIFO connection to each device; the           *)
(* application, which runs one task at a time, answers an instruction and  *)
(* polls again, and applies reflected messages in order; and peers, other  *)
(* implementations in the group whose transactions are seen as one step.   *)
(***************************************************************************)
EXTENDS Naturals, Sequences, FiniteSets

CONSTANTS
    Devices,
    Links,             \* sets of devices that may have multi-device enabled
    Identities, Values,\* contacts and what a contact's data may be
    Groups,            \* contacts the device group may start with
    Batches,           \* lists of contacts a task is started with
    MaxTasks,          \* bound: tasks a device starts
    MaxPeers,          \* bound: transactions of peers
    MaxFaults,         \* bound: lost connections, lost acks, polls too early
    Absent, Nobody, NoContext

ASSUME TransactionAssumption ==
    /\ Links \subseteq SUBSET Devices
    /\ NoContext \notin Nat
    /\ Nobody \notin Devices
    /\ Absent \notin Values
    /\ Groups \subseteq [Identities -> Values \cup {Absent}]
    /\ Batches \subseteq Seq([identity : Identities, value : Values])
    /\ MaxTasks \in Nat /\ MaxPeers \in Nat /\ MaxFaults \in Nat

VARIABLES
    contacts,  \* contacts[d]: the contacts device d stores
    task,      \* task[d]: the task device d runs
    reflectId, \* reflectId[d]: the next reflect ID of its D2X context, if it has one
    outbox,    \* outbox[d]: messages from device d to the mediator
    inbox,     \* inbox[d]: messages from the mediator to device d
    holder,    \* the device whose transaction is in progress
    started, peers, faults,  \* counters behind the bounds
    torn       \* history: a transaction broke off with its messages reflected

deviceVars   == <<contacts, task, reflectId>>
mediatorVars == <<outbox, inbox, holder>>
counters     == <<started, peers, faults>>
vars == <<deviceVars, mediatorVars, counters, torn>>

Linked == {d \in Devices : reflectId[d] # NoContext}

-----------------------------------------------------------------------------
(* Contacts of a device                                                    *)

Has(d, identity) == contacts[d][identity] # Absent

Holds(batch, identity) == \E k \in 1 .. Len(batch) : batch[k].identity = identity

\* Of several updates of one contact the last one stays; a batch to create
\* names a contact once.
ValueIn(batch, identity) ==
    batch[CHOOSE k \in 1 .. Len(batch) :
              /\ batch[k].identity = identity
              /\ \A l \in k + 1 .. Len(batch) : batch[l].identity # identity].value

\* A device's contacts with those of a batch stored
Store(d, batch) ==
    [i \in Identities |-> IF Holds(batch, i) THEN ValueIn(batch, i) ELSE contacts[d][i]]

\* What a sequence holds at some of its positions, in order
Kept(s, positions) ==
    LET kept[k \in 0 .. Len(s)] ==
            IF k = 0 THEN <<>>
            ELSE IF k \in positions THEN Append(kept[k - 1], s[k]) ELSE kept[k - 1]
    IN  kept[Len(s)]

\* add_contacts: contacts that already exist are skipped.
\* (Mutant: nothing is skipped.)
MissingAll(d, batch) == batch
Missing(d, batch) ==
    Kept(batch, {k \in 1 .. Len(batch) : ~Has(d, batch[k].identity)})
Existing(d, batch) ==
    Kept(batch, {k \in 1 .. Len(batch) : Has(d, batch[k].identity)})

\* ContactProvider::update stops at the first contact that does not exist.
Updatable(d, batch) ==
    SubSeq(batch, 1,
           Cardinality({n \in 1 .. Len(batch) :
                            \A k \in 1 .. n : Has(d, batch[k].identity)}))

-----------------------------------------------------------------------------
(* Tasks and messages                                                      *)

NewTask(kind, batch) ==
    [kind |-> kind, batch |-> batch, state |-> "Init", expected |-> {}, acked |-> {}]
NoTask == [NewTask("Create", <<>>) EXCEPT !.state = "Done"]

Message(type) == [type |-> type]
Reflect(id, action, contact) ==
    [type |-> "Reflect", id |-> id, action |-> action,
     identity |-> contact.identity, value |-> contact.value]

\* The reflect IDs of n messages.
\* (Mutant: the counter's next value is taken for its last.)
ReflectIdsBehind(first, n) == (first - 1) .. (first + n - 2)
ReflectIds(first, n) == first .. (first + n - 1)

\* What a batch reflects, each contact under an ID of its own, and the commit
ReflectAndCommit(kind, batch, first) ==
    [k \in 1 .. Len(batch) |-> Reflect(first + k - 1, kind, batch[k])]
        \o <<Message("CommitTransaction")>>

\* A reflected message, in the hands of another device's application
Applied(store, message) ==
    [store EXCEPT ![message.identity] = message.value]

Init ==
    /\ \E group \in Groups : contacts = [d \in Devices |-> group]
    /\ task = [d \in Devices |-> NoTask]
    /\ \E linked \in Links :
          reflectId = [d \in Devices |-> IF d \in linked THEN 0 ELSE NoContext]
    /\ outbox = [d \in Devices |-> <<>>]
    /\ inbox = [d \in Devices |-> <<>>]
    /\ holder = Nobody
    /\ started = [d \in Devices |-> 0]
    /\ peers = 0
    /\ faults = 0
    /\ torn = FALSE

-----------------------------------------------------------------------------
(* The begin transaction subtask                                           *)

\* Create: at least one contact has not been added.  Update: all contacts exist.
Precondition(d, t) ==
    LET existing == Len(Existing(d, t.batch))
    IN  IF t.kind = "Create"
        THEN IF existing < Len(t.batch) THEN "Continue" ELSE "Abort"
        ELSE IF existing = Len(t.batch) THEN "Continue" ELSE "Error"

\* Mutant: the precondition is only checked before the transaction.
PreconditionAfterAckSkipped(d) == "Continue"
PreconditionAfterAck(d) == Precondition(d, task[d])

Send(d, messages) == outbox' = [outbox EXCEPT ![d] = @ \o messages]
Become(d, t) == task' = [task EXCEPT ![d] = t]

\* poll_init_or_transaction_rejected, of a task that is new or was rejected
PollInitOrTransactionRejected(d, t) ==
    CASE Precondition(d, t) = "Continue" ->
            /\ Become(d, [t EXCEPT !.state = "BeginTransaction"])
            /\ Send(d, <<Message("BeginTransaction")>>)
      [] Precondition(d, t) = "Abort" ->
            Become(d, [t EXCEPT !.state = "Done"]) /\ UNCHANGED outbox
      [] OTHER ->
            Become(d, [t EXCEPT !.state = "Error"]) /\ UNCHANGED outbox

\* The contacts a create task reflects once its transaction is in progress:
\* those of the batch that exist.  An update task reflects its whole batch.
Affected(d, t) == IF t.kind = "Create" THEN Existing(d, t.batch) ELSE t.batch

BeginReflecting(d) ==
    LET batch == Affected(d, task[d])
        first == reflectId[d]
    IN  /\ Become(d, [task[d] EXCEPT !.state    = "ReflectAndCommit",
                                     !.batch    = batch,
                                     !.expected = ReflectIds(first, Len(batch))])
        /\ reflectId' = [reflectId EXCEPT ![d] = @ + Len(batch)]
        /\ Send(d, ReflectAndCommit(task[d].kind, batch, first))

\* A precondition that aborts commits nothing at once; one that fails leaves the
\* transaction open.
\* (Mutant: the obsolete transaction is not committed.)
AbortWithoutCommit(d) ==
    Become(d, [task[d] EXCEPT !.state = "Done"]) /\ UNCHANGED <<reflectId, outbox>>
Abort(d) ==
    /\ Become(d, [task[d] EXCEPT !.state = "AbortTransaction"])
    /\ Send(d, <<Message("CommitTransaction")>>)
    /\ UNCHANGED reflectId

BeginAcknowledged(d) ==
    CASE PreconditionAfterAck(d) = "Continue" -> BeginReflecting(d)
      [] PreconditionAfterAck(d) = "Abort" -> Abort(d)
      [] OTHER -> /\ Become(d, [task[d] EXCEPT !.state = "Error"])
                  /\ UNCHANGED <<reflectId, outbox>>

\* Mutant: a rejection is taken for the acknowledgement.
BeginRejectedIgnored(d) == BeginAcknowledged(d)
BeginRejected(d) ==
    /\ Become(d, [task[d] EXCEPT !.state = "InitOrTransactionRejected"])
    /\ UNCHANGED <<reflectId, outbox>>

-----------------------------------------------------------------------------
(* The tasks                                                               *)

\* Without multi-device the contacts are stored by the first poll.
StartUnlinked(d, t) ==
    LET stored == IF t.kind = "Create" THEN Missing(d, t.batch) ELSE Updatable(d, t.batch)
    IN  /\ contacts' = [contacts EXCEPT ![d] = Store(d, stored)]
        /\ Become(d, [t EXCEPT !.state =
                        IF t.kind = "Update" /\ stored # t.batch THEN "Error" ELSE "Done"])
        /\ UNCHANGED outbox

Start(d, kind, batch) ==
    /\ task[d].state = "Done"
    /\ started[d] < MaxTasks
    /\ started' = [started EXCEPT ![d] = @ + 1]
    /\ IF d \in Linked
       THEN PollInitOrTransactionRejected(d, NewTask(kind, batch)) /\ UNCHANGED contacts
       ELSE StartUnlinked(d, NewTask(kind, batch))
    /\ UNCHANGED <<reflectId, inbox, holder, peers, faults, torn>>

\* The next message from the mediator, and the rest
Receives(d, type) == inbox[d] # <<>> /\ Head(inbox[d]).type = type
Consume(d) == inbox' = [inbox EXCEPT ![d] = Tail(@)]

\* Only a rejected task waits for the end of a transaction.
Retry(d) ==
    IF task[d].state = "InitOrTransactionRejected"
    THEN PollInitOrTransactionRejected(d, task[d])
    ELSE UNCHANGED <<task, outbox>>

PollTransactionEnded(d) ==
    /\ Receives(d, "TransactionEnded")
    /\ Consume(d)
    /\ Retry(d)
    /\ UNCHANGED <<contacts, reflectId, holder, counters, torn>>

PollBeginTransaction(d) ==
    /\ task[d].state = "BeginTransaction"
    /\ \/ Receives(d, "BeginTransactionAck") /\ BeginAcknowledged(d)
       \/ Receives(d, "TransactionRejected") /\ BeginRejected(d)
    /\ Consume(d)
    /\ UNCHANGED <<contacts, holder, counters, torn>>

ReceiveReflectAck(d) ==
    /\ Receives(d, "ReflectAck")
    /\ Consume(d)
    /\ Become(d, [task[d] EXCEPT !.acked = @ \cup {Head(inbox[d]).id}])
    /\ UNCHANGED <<contacts, reflectId, outbox, holder, counters, torn>>

PollAbortTransaction(d) ==
    /\ task[d].state = "AbortTransaction"
    /\ Receives(d, "CommitTransactionAck")
    /\ Consume(d)
    /\ Become(d, [task[d] EXCEPT !.state = "Done"])
    /\ UNCHANGED <<contacts, reflectId, outbox, holder, counters, torn>>

\* What a committed task stores; without an acknowledgement of every message
\* it reflected it stores nothing.
AllAcknowledged(t) == t.expected \subseteq t.acked

PollReflectAndCommitTransaction(d) ==
    LET t      == task[d]
        stored == IF ~AllAcknowledged(t) THEN <<>>
                  ELSE IF t.kind = "Create" THEN Missing(d, t.batch)
                  ELSE Updatable(d, t.batch)
        ok     == AllAcknowledged(t) /\ stored = t.batch
    IN  /\ t.state = "ReflectAndCommit"
        /\ Receives(d, "CommitTransactionAck")
        /\ Consume(d)
        /\ contacts' = [contacts EXCEPT ![d] = Store(d, stored)]
        /\ Become(d, [t EXCEPT !.state = IF ok THEN "Done" ELSE "Error"])
        /\ torn' = (torn \/ ~ok)
        /\ UNCHANGED <<reflectId, outbox, holder, counters>>

\* A poll before the response: InvalidState.
PollEarly(d) ==
    /\ task[d].state \in {"BeginTransaction", "AbortTransaction", "ReflectAndCommit"}
    /\ faults < MaxFaults
    /\ faults' = faults + 1
    /\ Become(d, [task[d] EXCEPT !.state = "Error"])
    /\ torn' = (torn \/ task[d].state = "ReflectAndCommit")
    /\ UNCHANGED <<contacts, reflectId, mediatorVars, started, peers>>

-----------------------------------------------------------------------------
(* The application and the peers                                           *)

ApplyReflected(d) ==
    /\ Receives(d, "Reflect")
    /\ Consume(d)
    /\ contacts' = [contacts EXCEPT ![d] = Applied(@, Head(inbox[d]))]
    /\ UNCHANGED <<task, reflectId, outbox, holder, counters, torn>>

\* The connection is lost, or restarted because a task failed: the transaction
\* ends, the task and its D2X context are gone, and only reflected messages wait
\* for the device to reconnect.
Disconnect(d) ==
    /\ IF task[d].state = "Error" THEN UNCHANGED faults
       ELSE faults < MaxFaults /\ faults' = faults + 1
    /\ task' = [task EXCEPT ![d] = NoTask]
    /\ reflectId' = [reflectId EXCEPT ![d] = IF d \in Linked THEN 0 ELSE NoContext]
    /\ outbox' = [outbox EXCEPT ![d] = <<>>]
    /\ holder' = IF holder = d THEN Nobody ELSE holder
    /\ inbox' = [e \in Devices |->
                    IF e = d
                    THEN Kept(inbox[e], {k \in 1 .. Len(inbox[e]) :
                                             inbox[e][k].type = "Reflect"})
                    ELSE IF holder = d /\ e \in Linked
                    THEN Append(inbox[e], Message("TransactionEnded"))
                    ELSE inbox[e]]
    /\ torn' = (torn \/ task[d].state = "ReflectAndCommit")
    /\ UNCHANGED <<contacts, started, peers>>

\* A peer creates (or replaces) or deletes a contact in a transaction of its own.
PeerTransaction(identity, value) ==
    /\ holder = Nobody
    /\ peers < MaxPeers
    /\ peers' = peers + 1
    /\ inbox' = [d \in Devices |->
                    IF d \in Linked
                    THEN Append(inbox[d],
                                Reflect(0, IF value = Absent THEN "Delete" ELSE "Create",
                                        [identity |-> identity, value |-> value]))
                    ELSE inbox[d]]
    /\ UNCHANGED <<deviceVars, outbox, holder, started, faults, torn>>

-----------------------------------------------------------------------------
(* The mediator                                                            *)

Serves(d, type) == outbox[d] # <<>> /\ Head(outbox[d]).type = type
Served(d) == outbox' = [outbox EXCEPT ![d] = Tail(@)]

\* One answer for the device, another message for all other linked devices
Answer(d, answer, others) ==
    inbox' = [e \in Devices |->
                 IF e = d THEN inbox[e] \o answer
                 ELSE IF e \in Linked THEN inbox[e] \o others ELSE inbox[e]]

ServeBegin(d) ==
    /\ Serves(d, "BeginTransaction")
    /\ Served(d)
    /\ holder' = IF holder = Nobody THEN d ELSE holder
    /\ Answer(d, <<Message(IF holder = Nobody THEN "BeginTransactionAck"
                           ELSE "TransactionRejected")>>, <<>>)
    /\ UNCHANGED <<deviceVars, counters, torn>>

\* The mediator forwards a message and acknowledges it; the acknowledgement may
\* be missing.
ServeReflect(d) ==
    /\ Serves(d, "Reflect")
    /\ Served(d)
    /\ \/ /\ Answer(d, <<[type |-> "ReflectAck", id |-> Head(outbox[d]).id]>>,
                    <<Head(outbox[d])>>)
          /\ UNCHANGED faults
       \/ /\ faults < MaxFaults
          /\ faults' = faults + 1
          /\ Answer(d, <<>>, <<Head(outbox[d])>>)
    /\ UNCHANGED <<deviceVars, holder, started, peers, torn>>

ServeCommit(d) ==
    /\ Serves(d, "CommitTransaction")
    /\ Served(d)
    /\ holder' = IF holder = d THEN Nobody ELSE holder
    /\ Answer(d, <<Message("CommitTransactionAck")>>, <<Message("TransactionEnded")>>)
    /\ UNCHANGED <<deviceVars, counters, torn>>

-----------------------------------------------------------------------------
Deliver(d) ==
    \/ PollTransactionEnded(d)
    \/ PollBeginTransaction(d)
    \/ ReceiveReflectAck(d)
    \/ PollAbortTransaction(d)
    \/ PollReflectAndCommitTransaction(d)
    \/ ApplyReflected(d)

Serve(d) == ServeBegin(d) \/ ServeReflect(d) \/ ServeCommit(d)

Next ==
    \/ \E d \in Devices :
          \/ \E kind \in {"Create", "Update"}, batch \in Batches : Start(d, kind, batch)
          \/ Deliver(d)
          \/ PollEarly(d)
          \/ Disconnect(d)
          \/ Serve(d)
    \/ \E identity \in Identities, value \in Values \cup {Absent} :
          PeerTransaction(identity, value)

\* Devices and the mediator handle what they receive; a failed task has its
\* connection restarted.
Fairness ==
    \A d \in Devices :
        /\ WF_vars(Deliver(d))
        /\ WF_vars(Serve(d))
        /\ WF_vars(task[d].state = "Error" /\ Disconnect(d))

Spec == Init /\ [][Next]_vars /\ Fairness

-----------------------------------------------------------------------------
Contacts == [identity : Identities, value : Values]
Reflected ==
    [type : {"Reflect"}, id : Nat, action : {"Create", "Update", "Delete"},
     identity : Identities, value : Values \cup {Absent}]
Requests == [type : {"BeginTransaction", "CommitTransaction"}] \cup Reflected
Answers ==
    [type : {"BeginTransactionAck", "TransactionRejected", "TransactionEnded",
             "CommitTransactionAck"}]
        \cup [type : {"ReflectAck"}, id : Nat] \cup Reflected
Tasks ==
    [kind : {"Create", "Update"}, batch : Seq(Contacts),
     state : {"InitOrTransactionRejected", "BeginTransaction", "AbortTransaction",
              "ReflectAndCommit", "Done", "Error"},
     expected : SUBSET Nat, acked : SUBSET Nat]

\* Every variable keeps its shape; in particular a task is never left in its
\* initial state by its first poll.
TypeOK ==
    /\ contacts \in [Devices -> [Identities -> Values \cup {Absent}]]
    /\ task \in [Devices -> Tasks]
    /\ reflectId \in [Devices -> Nat \cup {NoContext}]
    /\ outbox \in [Devices -> Seq(Requests)]
    /\ inbox \in [Devices -> Seq(Answers)]
    /\ holder \in Devices \cup {Nobody}
    /\ started \in [Devices -> 0 .. MaxTasks]
    /\ peers \in 0 .. MaxPeers
    /\ faults \in 0 .. MaxFaults
    /\ torn \in BOOLEAN

\* A device reflects and commits only while the transaction is its own, however
\* its requests, rejections and lost connections interleave with those of the
\* other devices (begin.rs, poll_begin_transaction).
ReflectsOnlyInTransaction ==
    \A d \in Devices :
        (task[d].state \in {"ReflectAndCommit", "AbortTransaction"}
            /\ \E k \in 1 .. Len(outbox[d]) : outbox[d][k].type # "BeginTransaction")
        => holder = d

\* A device that receives the update of a contact knows the contact: the second
\* run of the precondition, after the acknowledgement, sees everything that was
\* reflected before the transaction (update.rs, "All of the contacts must exist").
UpdatesKnownContact ==
    \A d \in Devices :
        (Receives(d, "Reflect") /\ Head(inbox[d]).action = "Update")
            => Has(d, Head(inbox[d]).identity)

\* A transaction protects what it was begun for: it is held while a device
\* reflects, and what it reflects still applies to the others (begin.rs, the
\* transaction and its precondition).
TransactionsProtect == ReflectsOnlyInTransaction /\ UpdatesKnownContact

\* Devices that have nothing left to apply and no commit to wait for agree on
\* the contacts, unless a transaction broke off between reflecting and storing.
Settled(d) ==
    /\ task[d].state # "ReflectAndCommit"
    /\ \A k \in 1 .. Len(inbox[d]) : inbox[d][k].type # "Reflect"
Converge ==
    \A d, e \in Linked :
        (Settled(d) /\ Settled(e) /\ ~torn) => contacts[d] = contacts[e]

\* A task that failed for want of acknowledgements has not touched the store: a
\* device only stores what the mediator has taken from it (reflect.rs, poll).
StoresOnlyAcknowledged ==
    [][\A d \in Linked :
          (task[d].state = "ReflectAndCommit" /\ contacts'[d] # contacts[d])
              => task[d].expected \subseteq task[d].acked]_vars

\* Creating contacts never overwrites one: what arrived from another device
\* while the task waited for its transaction is kept (create.rs, add_contacts).
CreateNeverOverwrites ==
    [][\A d \in Devices, i \in Identities :
          (/\ Has(d, i)
           /\ contacts'[d][i] # contacts[d][i]
           /\ task'[d] # task[d])
              => task'[d].kind = "Update"]_vars

\* What a task stores was acknowledged and takes nothing away: neither a missing
\* acknowledgement nor a contact that another device created while the task
\* waited is overlooked (create.rs, update.rs, reflect.rs).
StoresSafely == StoresOnlyAcknowledged /\ CreateNeverOverwrites

\* No transaction stays open: whoever obtained it commits, aborts or fails and
\* is disconnected, so that a rejected task is not kept waiting.
TransactionEnds == \A d \in Devices : (holder = d) ~> (holder # d)

\* Every task comes to an end, and no transaction outlives it (mod.rs, poll of the
\* tasks; begin.rs).
TaskEnds ==
    /\ TransactionEnds
    /\ \A d \in Devices : []<>(task[d].state \in {"Done", "Error"})

\* "Contacts may have been added in between states, so we need to filter
\* affected" (create.rs): what is left to create is not in the store.
CreatesOnlyMissing ==
    \A d \in Linked :
        (task[d].kind = "Create" /\ task[d].state = "ReflectAndCommit")
            => \A k \in 1 .. Len(task[d].batch) : ~Has(d, task[d].batch[k].identity)
=============================================================================

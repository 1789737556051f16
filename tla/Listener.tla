------------------------------ MODULE Listener ------------------------------
(* The OpenClaw listener (scripts/listener-openclaw.ts): envelopes of the   *)
(* mediator client become messages, messages become requests in the         *)
(* database and tasks in memory, and tasks ask Gemini and send the answer.  *)
(* Every handler is asynchronous: between two awaits any other may run. The *)
(* process exits on errors and is started again; what is in memory is lost, *)
(* the database stays, and incomplete requests are resumed.                 *)
(*                                                                          *)
(* An envelope is a message and the number of its delivery. A handler of an *)
(* envelope is named by it; "at" says before which await-free part it is.   *)
(* Left out: media and transcription, the setup and the name of groups,     *)
(* Telegram, history, wording, HTTP.                                        *)
EXTENDS Naturals, Sequences, FiniteSets, SequencesExt

CONSTANTS
    Messages,        \* provider message ids
    Scenarios,       \* functions from envelopes to what they contain, if they come
    MaxConcurrency,  \* MAX_CONCURRENCY
    Envelopes,       \* bound: a message and the number of its delivery
    MaxCrashes,      \* bound: how often the process exits
    MaxFailures      \* bound: how often the database, Gemini or the client fails

ASSUME ListenerAssumption ==
    /\ MaxConcurrency \in Nat \ {0}
    /\ {MaxCrashes, MaxFailures} \subseteq Nat
    /\ Envelopes \subseteq Messages \X (Nat \ {0})
    /\ IsFiniteSet(Envelopes)

\* "echo" is what ECHOECHO sends, "ignored" what the own identity sends, a health
\* check ping, or a control message such as a receipt.
Contents == {"ask", "groupAsk", "groupChat", "groupCommand", "groupLeave", "approve",
             "echo", "ignored"}
Message(envelope) == envelope[1]

\* A message that is delivered again is the same.
ASSUME ScenariosAssumption ==
    /\ Scenarios \subseteq [Envelopes -> Contents \cup {"nothing"}]
    /\ \A scenario \in Scenarios : \A e1, e2 \in Envelopes :
           Message(e1) = Message(e2) /\ "nothing" \notin {scenario[e1], scenario[e2]}
               => scenario[e1] = scenario[e2]

VARIABLES
    content,       \* what each envelope contains
    up,            \* the process runs
    ready,         \* client.isCspReady()
    at,            \* the handler of each envelope
    envelopeQueue, \* envelopes that came before CSP was ready
    draining,      \* the cspReady handler empties the queue
    awaited,       \* the envelope it awaits, if any
    resuming,      \* resumeRequests: "off", "timer", "loop"
    remaining,     \* the requests resumeRequests has not come to yet
    taskQueue,     \* tasks that wait
    active,        \* tasks that run, with their next step
    isMember,      \* observedGroups: whoever writes to the group is a member
    savedMember,   \* the database: the same
    logged,        \* the database: messages by provider_msg_id
    requests,      \* the database: the status of each envelope's request
    finding,       \* the database: the state of an evolution finding
    receipts,      \* messages a read receipt was sent for
    answers,       \* answers sent, by envelope
    burnTasks,     \* tasks added to the burn queue for the finding
    resumed,       \* how often the request of an envelope was resumed
    unlogged,      \* envelopes whose message could not be logged
    crashes,
    failures,
    abandoned      \* a failure left a request to the next start

intake == <<ready, at, envelopeQueue, draining, awaited>>
recovery == <<resuming, remaining, resumed>>
tasks == <<taskQueue, active>>
groups == <<isMember, savedMember>>
database == <<logged, requests, finding, unlogged>>
sent == <<receipts, answers, burnTasks>>
fixed == <<content, up, crashes>>
failing == <<failures, abandoned>>
vars == <<intake, recovery, tasks, groups, database, sent, fixed, failing>>

\* A call that the program awaits throws.
Fails(leavesRequest) ==
    /\ failures < MaxFailures
    /\ failures' = failures + 1
    /\ abandoned' = (abandoned \/ leavesRequest)
Succeeds == UNCHANGED failing

Statuses == {"none", "pending", "processing", "completed", "failed", "enqueued"}
\* getIncompleteRequests; "enqueued" is the status processing of a request that
\* the database's own task queue has taken over.
Incomplete == {"pending", "processing"}
Ended == {"completed", "failed", "enqueued"}

-----------------------------------------------------------------------------
\* The task queue.

Task(envelope, number, step) == [of |-> envelope, no |-> number, step |-> step]

\* One task is started, if there is a place for it.
ProcessQueue(queue, running) ==
    IF queue = <<>> \/ Cardinality(running) >= MaxConcurrency
    THEN taskQueue' = queue /\ active' = running
    ELSE taskQueue' = Tail(queue) /\ active' = running \cup {Head(queue)}

EnqueueTask(task) == ProcessQueue(Append(taskQueue, task), active)

\* (Mutant: the place of a task that ends is not given to another.)
FinishAlone(task) == taskQueue' = taskQueue /\ active' = active \ {task}

\* The finally block of processQueue.
Finish(task) == ProcessQueue(taskQueue, active \ {task})

Goto(task, step) ==
    /\ active' = (active \ {task}) \cup {[task EXCEPT !.step = step]}
    /\ UNCHANGED taskQueue

-----------------------------------------------------------------------------
Init ==
    /\ content \in Scenarios
    /\ up = TRUE
    /\ ready = FALSE
    /\ at = [envelope \in Envelopes |-> "none"]
    /\ envelopeQueue = <<>>
    /\ draining = FALSE
    /\ awaited = {}
    /\ resuming = "off"
    /\ remaining = <<>>
    /\ taskQueue = <<>>
    /\ active = {}
    /\ isMember = TRUE
    /\ savedMember = TRUE
    /\ logged = {}
    /\ requests = [envelope \in Envelopes |-> "none"]
    /\ finding = "pending"
    /\ receipts = {}
    /\ answers = [envelope \in Envelopes |-> 0]
    /\ burnTasks = 0
    /\ resumed = [envelope \in Envelopes |-> 0]
    /\ unlogged = {}
    /\ abandoned = FALSE
    /\ crashes = 0
    /\ failures = 0

-----------------------------------------------------------------------------
\* Envelopes.

Goes(envelope, from, to) == at[envelope] = from /\ at' = [at EXCEPT ![envelope] = to]
IntakeOnly == UNCHANGED <<recovery, tasks, groups, database, sent, fixed, failing>>

\* onEnvelope: isCspReady is asked at once, the rest comes after an await.
OnEnvelope(envelope) ==
    /\ up
    /\ content[envelope] # "nothing"
    /\ envelope[2] > 1 => at[<<envelope[1], envelope[2] - 1>>] # "none"
    /\ Goes(envelope, "none", IF ready THEN "process" ELSE "queueing")
    /\ UNCHANGED <<ready, envelopeQueue, draining, awaited>>
    /\ IntakeOnly

QueueEnvelope(envelope) ==
    /\ Goes(envelope, "queueing", "queued")
    /\ envelopeQueue' = Append(envelopeQueue, envelope)
    /\ UNCHANGED <<ready, draining, awaited>>
    /\ IntakeOnly

\* The handler of the event cspReady: it awaits each queued envelope, then
\* sets the timer of resumeRequests.
CspReady ==
    /\ up
    /\ ~ready
    /\ ready' = TRUE
    /\ draining' = TRUE
    /\ UNCHANGED <<at, envelopeQueue, awaited>>
    /\ IntakeOnly

Drains == draining /\ \A envelope \in awaited : at[envelope] = "done"

DrainQueue ==
    /\ Drains
    /\ envelopeQueue # <<>>
    /\ Goes(Head(envelopeQueue), "queued", "process")
    /\ envelopeQueue' = Tail(envelopeQueue)
    /\ awaited' = {Head(envelopeQueue)}
    /\ UNCHANGED <<ready, draining>>
    /\ IntakeOnly

EndDrain ==
    /\ Drains
    /\ envelopeQueue = <<>>
    /\ draining' = FALSE
    /\ awaited' = {}
    /\ resuming' = "timer"
    /\ UNCHANGED <<ready, at, envelopeQueue, remaining, resumed, tasks, groups,
                   database, sent, fixed, failing>>

HandlerOnly == UNCHANGED <<ready, envelopeQueue, draining, awaited, recovery, fixed>>
InGroup(envelope) ==
    content[envelope] \in {"groupAsk", "groupChat", "groupCommand", "groupLeave"}

\* handleMessage, before its first await: it returns when the message is its own or
\* a ping, and looks whether ECHOECHO is the sender.
BeginMessage(envelope) ==
    \/ content[envelope] = "ignored" /\ Goes(envelope, "process", "done")
    \/ content[envelope] = "echo" /\ Goes(envelope, "process", "echo")
    \/ /\ content[envelope] \notin {"ignored", "echo"}
       /\ Goes(envelope, "process", "log")

\* processEnvelope: a member who leaves is removed and the groups are saved;
\* every other message but a control message goes to handleMessage.
ProcessEnvelope(envelope) ==
    /\ \/ /\ content[envelope] = "groupLeave"
          /\ Goes(envelope, "process", IF isMember THEN "saveGroups" ELSE "done")
          /\ isMember' = FALSE
       \/ /\ content[envelope] # "groupLeave"
          /\ BeginMessage(envelope)
          /\ UNCHANGED isMember
    /\ UNCHANGED <<savedMember, tasks, database, sent>>
    /\ Succeeds
    /\ HandlerOnly

\* What is saved was read when saveGroups was called; it may fail unnoticed.
SaveGroups(envelope) ==
    /\ LET leaves == content[envelope] = "groupLeave" IN
       /\ Goes(envelope, "saveGroups", IF leaves THEN "done" ELSE "store")
       /\ \/ savedMember' = ~leaves /\ Succeeds
          \/ UNCHANGED savedMember /\ Fails(FALSE)
    /\ UNCHANGED <<isMember, tasks, database, sent>>
    /\ HandlerOnly

\* A message of ECHOECHO is not logged or answered, to prevent a loop, but a read
\* receipt is sent.
IgnoreEcho(envelope) ==
    /\ Goes(envelope, "echo", "done")
    /\ receipts' = receipts \cup {Message(envelope)}
    /\ UNCHANGED <<groups, tasks, database, answers, burnTasks>>
    /\ Succeeds
    /\ HandlerOnly

\* Whoever writes to a group is noted as a member first.
Logged(envelope) == IF InGroup(envelope) THEN "member" ELSE "store"

\* (Mutant: a message that is known already is handled like any other.)
LogMessageAgain(envelope) ==
    /\ \/ /\ Goes(envelope, "log", Logged(envelope))
          /\ logged' = logged \cup {Message(envelope)}
          /\ receipts' = receipts \cup {Message(envelope)}
          /\ UNCHANGED unlogged
          /\ Succeeds
       \/ /\ Goes(envelope, "log", Logged(envelope))
          /\ unlogged' = unlogged \cup {envelope}
          /\ Fails(FALSE)
          /\ UNCHANGED <<logged, receipts>>
    /\ UNCHANGED <<groups, tasks, requests, finding, answers, burnTasks>>
    /\ HandlerOnly

\* handleMessage: the message is logged unless it is known already, and a read
\* receipt is sent; when the database fails, neither, and handling goes on.
LogMessage(envelope) ==
    /\ \/ /\ Goes(envelope, "log",
                  IF Message(envelope) \in logged THEN "done" ELSE Logged(envelope))
          /\ logged' = logged \cup {Message(envelope)}
          /\ receipts' = receipts \cup {Message(envelope)}
          /\ UNCHANGED unlogged
          /\ Succeeds
       \/ /\ Goes(envelope, "log", Logged(envelope))
          /\ unlogged' = unlogged \cup {envelope}
          /\ Fails(FALSE)
          /\ UNCHANGED <<logged, receipts>>
    /\ UNCHANGED <<groups, tasks, requests, finding, answers, burnTasks>>
    /\ HandlerOnly

\* Whoever writes to a group is a member of it.
AddMember(envelope) ==
    /\ Goes(envelope, "member", IF isMember THEN "store" ELSE "saveGroups")
    /\ isMember' = TRUE
    /\ UNCHANGED <<savedMember, tasks, database, sent>>
    /\ Succeeds
    /\ HandlerOnly

\* A command is a task of its own; a message that is to be answered becomes a
\* request; one that does not mention the assistant stays in the history.
StoreMessage(envelope) ==
    /\ \/ /\ content[envelope] = "approve"
          /\ Goes(envelope, "store", "done")
          /\ EnqueueTask(Task(envelope, 0, "select"))
          /\ UNCHANGED requests
       \/ /\ content[envelope] = "groupChat"
          /\ Goes(envelope, "store", "done")
          /\ UNCHANGED <<tasks, requests>>
       \/ /\ content[envelope] \in {"ask", "groupAsk", "groupCommand"}
          /\ Goes(envelope, "store", "enqueue")
          /\ requests' = [requests EXCEPT ![envelope] = "pending"]
          /\ UNCHANGED tasks
    /\ UNCHANGED <<groups, logged, finding, unlogged, sent>>
    /\ Succeeds
    /\ HandlerOnly

\* The database fails: the handler ends, with or without a request in the
\* database that no task knows of.
StoreMessageFails(envelope) ==
    /\ \/ Goes(envelope, "store", "done") /\ Fails(FALSE)
       \/ Goes(envelope, "enqueue", "done") /\ Fails(TRUE)
    /\ UNCHANGED <<groups, tasks, database, sent>>
    /\ HandlerOnly

\* A command of the owner in a group waits for an approval; one for the
\* developer session goes to the database's task queue.
HandOver(envelope) ==
    /\ \/ content[envelope] = "groupCommand"
          /\ requests' = [requests EXCEPT ![envelope] = "completed"]
       \/ content[envelope] = "ask"
          /\ requests' = [requests EXCEPT ![envelope] = "enqueued"]
    /\ Goes(envelope, "enqueue", "done")
    /\ UNCHANGED <<groups, tasks, logged, finding, unlogged, sent>>
    /\ Succeeds
    /\ HandlerOnly

AskGemini(envelope) ==
    /\ Goes(envelope, "enqueue", "done")
    /\ EnqueueTask(Task(envelope, 0, "mark"))
    /\ UNCHANGED <<groups, database, sent>>
    /\ Succeeds
    /\ HandlerOnly

-----------------------------------------------------------------------------
\* Tasks: each step ends with an await.

TaskOnly == UNCHANGED <<intake, recovery, groups, logged, unlogged, receipts, fixed>>
Runs(task, step) == task \in active /\ task.step = step
SetStatus(task, status) == requests' = [requests EXCEPT ![task.of] = status]

Mark(task) ==
    /\ Runs(task, "mark")
    /\ SetStatus(task, "processing")
    /\ Goto(task, "gemini")
    /\ UNCHANGED <<finding, answers, burnTasks>>
    /\ Succeeds
    /\ TaskOnly

\* runSmartGemini: an answer (or a refusal that is sent like one), a request
\* taken over by the database's task queue, or no output. The task of
\* resumeRequests does not look at "persistent".
Gemini(task) ==
    /\ Runs(task, "gemini")
    /\ \/ Goto(task, "send") /\ UNCHANGED requests
       \/ task.no = 0 /\ Goto(task, "sendPersistent") /\ UNCHANGED requests
       \/ SetStatus(task, "completed") /\ Finish(task)
    /\ UNCHANGED <<finding, answers, burnTasks>>
    /\ Succeeds
    /\ TaskOnly

SendAnswer(task) ==
    /\ Runs(task, "send")
    /\ answers' = [answers EXCEPT ![task.of] = @ + 1]
    /\ Goto(task, "complete")
    /\ UNCHANGED <<requests, finding, burnTasks>>
    /\ Succeeds
    /\ TaskOnly

SendPersistent(task) ==
    /\ Runs(task, "sendPersistent")
    /\ SetStatus(task, "enqueued")
    /\ Finish(task)
    /\ UNCHANGED <<finding, answers, burnTasks>>
    /\ Succeeds
    /\ TaskOnly

Complete(task) ==
    /\ Runs(task, "complete")
    /\ SetStatus(task, "completed")
    /\ Finish(task)
    /\ UNCHANGED <<finding, answers, burnTasks>>
    /\ Succeeds
    /\ TaskOnly

\* The database, Gemini or the client throws: the catch block, which may fail
\* like the step it follows.
StepFails(task) ==
    /\ task \in active
    /\ task.step \in {"mark", "gemini", "send", "sendPersistent", "complete"}
    /\ \/ SetStatus(task, "failed") /\ Fails(FALSE)
       \/ UNCHANGED requests /\ Fails(TRUE)
    /\ Finish(task)
    /\ UNCHANGED <<finding, answers, burnTasks>>
    /\ TaskOnly

\* /evolution approve: the state is read, then written, then a task is added.
SelectFinding(task) ==
    /\ Runs(task, "select")
    /\ IF finding = "pending" THEN Goto(task, "update") ELSE Finish(task)
    /\ UNCHANGED <<requests, finding, answers, burnTasks>>
    /\ Succeeds
    /\ TaskOnly

UpdateFinding(task) ==
    /\ Runs(task, "update")
    /\ finding' = "approved"
    /\ Goto(task, "addQuotaTask")
    /\ UNCHANGED <<requests, answers, burnTasks>>
    /\ Succeeds
    /\ TaskOnly

\* What was written before stays.
ApproveFails(task) ==
    /\ task \in active
    /\ task.step \in {"select", "update", "addQuotaTask"}
    /\ Finish(task)
    /\ Fails(FALSE)
    /\ UNCHANGED <<requests, finding, answers, burnTasks>>
    /\ TaskOnly

AddQuotaTask(task) ==
    /\ Runs(task, "addQuotaTask")
    /\ burnTasks' = burnTasks + 1
    /\ Finish(task)
    /\ UNCHANGED <<requests, finding, answers>>
    /\ Succeeds
    /\ TaskOnly

-----------------------------------------------------------------------------
\* resumeRequests.

ResumeOnly == UNCHANGED <<intake, groups, database, sent, fixed>>

\* (Mutant: only requests that were not begun are resumed.)
ResumeRequestsPending ==
    /\ resuming = "timer"
    /\ remaining' = SetToSeq({envelope \in Envelopes : requests[envelope] = "pending"})
    /\ resuming' = "loop"
    /\ UNCHANGED <<resumed, tasks>>
    /\ Succeeds
    /\ ResumeOnly

\* Whether the database counts the requests that were handed over to its own
\* queue is not in this repository.
ResumeRequests ==
    /\ resuming = "timer"
    /\ \E handedOver \in SUBSET {"enqueued"} :
         remaining' = SetToSeq({envelope \in Envelopes :
                                   requests[envelope] \in Incomplete \cup handedOver})
    /\ resuming' = "loop"
    /\ UNCHANGED <<resumed, tasks>>
    /\ Succeeds
    /\ ResumeOnly

\* The user is told, and the request is asked again.
ResumeRequest ==
    /\ resuming = "loop"
    /\ remaining # <<>>
    /\ LET envelope == Head(remaining) IN
       /\ resumed' = [resumed EXCEPT ![envelope] = @ + 1]
       /\ EnqueueTask(Task(envelope, resumed[envelope] + 1, "mark"))
    /\ remaining' = Tail(remaining)
    /\ UNCHANGED resuming
    /\ Succeeds
    /\ ResumeOnly

\* The user cannot be told: the one catch block is around the loop.
ResumeFails ==
    /\ resuming = "loop"
    /\ remaining # <<>>
    /\ remaining' = <<>>
    /\ resuming' = "off"
    /\ UNCHANGED <<resumed, tasks>>
    /\ Fails(TRUE)
    /\ ResumeOnly

ResumeEnds ==
    /\ resuming = "loop"
    /\ remaining = <<>>
    /\ resuming' = "off"
    /\ UNCHANGED <<remaining, resumed, tasks>>
    /\ Succeeds
    /\ ResumeOnly

-----------------------------------------------------------------------------
\* The process exits on cspError and on close, and is started again.

Crash ==
    /\ up
    /\ crashes < MaxCrashes
    /\ crashes' = crashes + 1
    /\ up' = FALSE
    /\ ready' = FALSE
    /\ at' = [envelope \in Envelopes |-> IF at[envelope] = "none" THEN "none" ELSE "done"]
    /\ envelopeQueue' = <<>>
    /\ draining' = FALSE
    /\ awaited' = {}
    /\ resuming' = "off"
    /\ remaining' = <<>>
    /\ abandoned' = FALSE
    /\ taskQueue' = <<>>
    /\ active' = {}
    /\ UNCHANGED <<content, groups, database, sent, resumed, failures>>

\* start: groups are loaded from the database.
Start ==
    /\ ~up
    /\ up' = TRUE
    /\ isMember' = savedMember
    /\ UNCHANGED <<content, crashes, savedMember, intake, recovery, tasks, database, sent,
                   failing>>

HandleEnvelope(envelope) ==
    \/ QueueEnvelope(envelope)
    \/ ProcessEnvelope(envelope) \/ SaveGroups(envelope) \/ IgnoreEcho(envelope)
    \/ LogMessage(envelope) \/ AddMember(envelope)
    \/ StoreMessage(envelope) \/ StoreMessageFails(envelope)
    \/ HandOver(envelope) \/ AskGemini(envelope)

RunTask(task) ==
    \/ Mark(task) \/ Gemini(task) \/ SendAnswer(task) \/ SendPersistent(task)
    \/ Complete(task) \/ StepFails(task)
    \/ SelectFinding(task) \/ UpdateFinding(task) \/ AddQuotaTask(task)
    \/ ApproveFails(task)

Resume == ResumeRequests \/ ResumeRequest \/ ResumeFails \/ ResumeEnds

\* What the event loop, the supervisor and the servers get done.
Progress ==
    \/ Start \/ CspReady
    \/ DrainQueue \/ EndDrain
    \/ \E envelope \in Envelopes : HandleEnvelope(envelope)
    \/ \E task \in active : RunTask(task)
    \/ Resume

Next ==
    \/ \E envelope \in Envelopes : OnEnvelope(envelope)
    \/ Progress
    \/ Crash

\* Every await ends, and a process that exited is started again. All behaviours
\* are finite, so fairness of the whole lets nothing starve.
Spec == Init /\ [][Next]_vars /\ WF_vars(Progress)

-----------------------------------------------------------------------------
TypeOK ==
    /\ content \in Scenarios
    /\ {up, ready, draining, isMember, savedMember, abandoned} \subseteq BOOLEAN
    /\ at \in [Envelopes -> {"none", "queueing", "queued", "process", "echo", "saveGroups",
                             "log", "member", "store", "enqueue", "done"}]
    /\ \A i \in DOMAIN envelopeQueue : at[envelopeQueue[i]] = "queued"
    /\ awaited \subseteq Envelopes
    /\ resuming \in {"off", "timer", "loop"}
    /\ remaining # <<>> => resuming = "loop"
    /\ ~up => active = {} /\ ~ready
    /\ requests \in [Envelopes -> Statuses]
    /\ finding \in {"pending", "approved"}
    /\ receipts \cup logged \subseteq Messages
    /\ unlogged \subseteq Envelopes
    /\ crashes \in 0 .. MaxCrashes
    /\ failures \in 0 .. MaxFailures

\* Never do more than MAX_CONCURRENCY tasks run, and a task waits only while
\* that many do: no end of a task, failed or not, leaves its place empty
\* (listener-openclaw.ts:83, processQueue starts one task per call).
QueueServed ==
    /\ Cardinality(active) <= MaxConcurrency
    /\ taskQueue # <<>> => Cardinality(active) = MaxConcurrency

FromEcho == {Message(envelope) : envelope \in {e \in Envelopes : content[e] = "echo"}}

\* "SUCCESS: Message is in DB. Now we can acknowledge to Threema"
\* (listener-openclaw.ts:661): across restarts and failures of the database, a
\* read receipt is only sent for a message that is in the database, but for those
\* of ECHOECHO, which get theirs without being logged (listener-openclaw.ts:632).
ReceiptMeansLogged == receipts \subseteq logged \cup FromEcho

\* "to prevent loop" (listener-openclaw.ts:630), "Ignore self" (:618), "Ignore
\* internal health pings" (:625): such messages are not asked and not answered, by
\* no delivery, resumption or restart.
LoopsPrevented ==
    \A envelope \in Envelopes :
        content[envelope] \in {"echo", "ignored"} =>
            requests[envelope] = "none" /\ answers[envelope] = 0

\* A message that is delivered again, after a restart or at the same time,
\* is not asked again: another request exists only when the database failed to
\* log a delivery, and another answer is sent only by resumeRequests.
AskedOnce ==
    /\ \A message \in Messages :
         LET deliveries == {envelope \in Envelopes : Message(envelope) = message} IN
         Cardinality({envelope \in deliveries : requests[envelope] # "none"})
             <= 1 + Cardinality(deliveries \cap unlogged)
    /\ \A envelope \in Envelopes : answers[envelope] <= 1 + resumed[envelope]

\* Delivering a message again is safe: what was receipted is in the database, and
\* what is in the database is not asked again (listener-openclaw.ts:639-666); what
\* is receipted without that, or ignored, is never answered (616-637).
RedeliverySafe == ReceiptMeansLogged /\ LoopsPrevented /\ AskedOnce

\* A request that is in the database is completed, failed or handed over in
\* the end, whatever is restarted meanwhile (listener-openclaw.ts:1176,
\* resumeRequests), unless a failure outside the task's own try block left it
\* to the next start.
RequestsEnd ==
    \A envelope \in Envelopes :
        requests[envelope] \in Incomplete ~> (requests[envelope] \in Ended \/ abandoned)

\* "It listens for all incoming messages and uses the Gemini CLI to
\* automatically respond to them" (SKILL.md:8): a question whose receipt was
\* sent has its request ended.
ReceiptedIsAnswered ==
    \A asked \in Envelopes :
        (content[asked] = "ask" /\ Message(asked) \in receipts)
            ~> \E envelope \in Envelopes :
                   Message(envelope) = Message(asked) /\ requests[envelope] \in Ended

\* "Process queued envelopes" (listener-openclaw.ts:1157): an envelope that is
\* queued is processed, or lost with the process.
QueuedIsProcessed ==
    \A envelope \in Envelopes : at[envelope] = "queued" ~> at[envelope] = "done"

\* Without a restart, a request is answered once: what resumeRequests resumes
\* was interrupted by one.
ResumedAfterRestart == crashes = 0 => \A envelope \in Envelopes : answers[envelope] <= 1

\* When nothing failed and nothing is being saved, the groups in memory are the
\* groups in the database, which the next start loads.
MembersSaved ==
    (failures = 0 /\ \A envelope \in Envelopes : at[envelope] # "saveGroups")
        => savedMember = isMember

\* A finding is only approved while it is pending (listener-openclaw.ts:907),
\* so it is enqueued once.
ApprovedOnce == burnTasks <= 1
=============================================================================

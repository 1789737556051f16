--------------------------- MODULE ListenerProofs ---------------------------
(***************************************************************************)
(* Proofs about Listener, for every number of messages, deliveries,        *)
(* restarts, failures and places in the task queue: the queue is served,   *)
(* and it is safe to deliver a message again.                              *)
(*                                                                         *)
(* A task is known by its request and by how often that was resumed: it    *)
(* lives once, so the count of the tasks that run is right whenever one is *)
(* put in, moves on or ends, and each may send its answer once.            *)
(*                                                                         *)
(* The second part is about the messages the listener and others exchange, *)
(* MessageExchange: what is handed on is what was meant.                   *)
(***************************************************************************)
EXTENDS
    Listener, MessageExchange,
    FiniteSetTheorems, SequenceTheorems, WellFoundedInduction, TLAPS

AskSteps == {"mark", "gemini", "send", "sendPersistent", "complete"}
ApproveSteps == {"select", "update", "addQuotaTask"}
BeforeAnswer == {"mark", "gemini", "send"}
Tasks == [of : Envelopes, no : Nat, step : AskSteps \cup ApproveSteps]
Places == {"none", "queueing", "queued", "process", "echo", "saveGroups", "log", "member",
           "store", "enqueue", "done"}

-----------------------------------------------------------------------------
(* The inductive invariant.                                                *)

SameTask(t1, t2) == t1.of = t2.of /\ t1.no = t2.no
Elements(waiting) == {waiting[i] : i \in DOMAIN waiting}
Live == active \cup Elements(taskQueue)

\* No task waits or runs twice.
Distinct(waiting, running) ==
    /\ \A i, j \in DOMAIN waiting : SameTask(waiting[i], waiting[j]) => i = j
    /\ \A i \in DOMAIN waiting : \A t \in running : ~SameTask(waiting[i], t)
    /\ \A t1, t2 \in running : SameTask(t1, t2) => t1 = t2

QueueInv ==
    /\ taskQueue \in Seq(Tasks)
    /\ active \in SUBSET Tasks
    /\ IsFiniteSet(active)
    /\ Distinct(taskQueue, active)
    /\ QueueServed

StateTypes ==
    /\ at \in [Envelopes -> Places]
    /\ remaining \in Seq(Envelopes)
    /\ requests \in [Envelopes -> Statuses]
    /\ answers \in [Envelopes -> Nat]
    /\ resumed \in [Envelopes -> Nat]
    /\ unlogged \subseteq Envelopes

\* A task that lives was put in the queue by a handler that has ended, or was
\* resumed, and one that asks has a request in the database.
IsTrue(task) ==
    /\ task.no <= resumed[task.of]
    /\ task.no = 0 => at[task.of] = "done"
    /\ task.step \in AskSteps => requests[task.of] # "none"
TasksTrue == \A task \in Live : IsTrue(task)

RequestsPlaced ==
    /\ \A envelope \in Envelopes : at[envelope] = "enqueue" => requests[envelope] # "none"
    /\ \A i \in DOMAIN remaining : requests[remaining[i]] # "none"

\* The tasks of an envelope that may still send their answer: one for each time
\* its request was resumed, and the first.
Unsent(envelope) ==
    {no \in 0 .. resumed[envelope] :
        \/ no = 0 /\ at[envelope] # "done"
        \/ \E task \in Live :
               task.of = envelope /\ task.no = no /\ task.step \in BeforeAnswer}
AnswersFit ==
    \A envelope \in Envelopes :
        answers[envelope] + Cardinality(Unsent(envelope)) <= 1 + resumed[envelope]

\* A delivery that was logged and goes on to be handled: of a message there is
\* only one, since the next finds it logged.
GoesOn(envelope) ==
    /\ envelope \notin unlogged
    /\ \/ requests[envelope] # "none"
       \/ at[envelope] \in {"member", "store", "enqueue"}
       \/ at[envelope] = "saveGroups" /\ content[envelope] # "groupLeave"
LogsFit ==
    \A e1 \in Envelopes : GoesOn(e1) =>
        /\ Message(e1) \in logged
        /\ \A e2 \in Envelopes : GoesOn(e2) /\ Message(e1) = Message(e2) => e1 = e2

\* Only a message of ECHOECHO gets its receipt without being logged.
EchoesPlaced == \A envelope \in Envelopes : at[envelope] = "echo" => content[envelope] = "echo"

RequestInv ==
    /\ StateTypes
    /\ TasksTrue
    /\ RequestsPlaced
    /\ AnswersFit
    /\ LogsFit
    /\ EchoesPlaced
    /\ ReceiptMeansLogged
    /\ LoopsPrevented

ListenerInv == QueueInv /\ RequestInv

-----------------------------------------------------------------------------
(* The task queue.                                                         *)

\* The elements of a queue are its head and those of its tail.
LEMMA HeadAndTail ==
    ASSUME NEW S, NEW waiting \in Seq(S), waiting # <<>>
    PROVE  Elements(waiting) = {Head(waiting)} \cup Elements(Tail(waiting))
<1>1. Tail(waiting) \in Seq(S) /\ Len(Tail(waiting)) = Len(waiting) - 1
  OBVIOUS
<1>2. \A i \in DOMAIN Tail(waiting) : Tail(waiting)[i] = waiting[i + 1]
  OBVIOUS
<1>3. \A i \in DOMAIN waiting : i = 1 \/ i - 1 \in DOMAIN Tail(waiting)
  BY <1>1
<1>4. QED BY <1>1, <1>2, <1>3 DEF Elements

\* One task more waits.
LEMMA OneMore ==
    ASSUME NEW S, NEW waiting \in Seq(S), NEW task \in S
    PROVE  /\ Append(waiting, task) \in Seq(S)
           /\ Append(waiting, task) # <<>>
           /\ DOMAIN Append(waiting, task) = 1 .. Len(waiting) + 1
           /\ \A i \in 1 .. Len(waiting) : Append(waiting, task)[i] = waiting[i]
           /\ Append(waiting, task)[Len(waiting) + 1] = task
           /\ Elements(Append(waiting, task)) = Elements(waiting) \cup {task}
<1>1. /\ Append(waiting, task) \in Seq(S)
      /\ Append(waiting, task) # <<>>
      /\ DOMAIN Append(waiting, task) = 1 .. Len(waiting) + 1
      /\ \A i \in 1 .. Len(waiting) : Append(waiting, task)[i] = waiting[i]
      /\ Append(waiting, task)[Len(waiting) + 1] = task
  OBVIOUS
<1>2. Elements(Append(waiting, task)) = Elements(waiting) \cup {task}
  BY <1>1 DEF Elements
<1>3. QED BY <1>1, <1>2

\* processQueue is only called when at most one place is free, or one task waits:
\* then it leaves no place free while a task waits.
LEMMA ProcessQueueServes ==
    ASSUME NEW waiting \in Seq(Tasks), NEW running \in SUBSET Tasks,
           IsFiniteSet(running), Distinct(waiting, running),
           Cardinality(running) <= MaxConcurrency,
           Len(waiting) > 1 => Cardinality(running) >= MaxConcurrency - 1,
           ProcessQueue(waiting, running)
    PROVE  QueueInv' /\ Live' = running \cup Elements(waiting)
<1>n. Cardinality(running) \in Nat /\ MaxConcurrency \in Nat \ {0}
  BY FS_CardinalityType, ListenerAssumption
<1>1. CASE waiting = <<>> \/ Cardinality(running) >= MaxConcurrency
  BY <1>1, <1>n DEF ProcessQueue, QueueInv, QueueServed, Live
<1>2. CASE waiting # <<>> /\ Cardinality(running) < MaxConcurrency
  <2> DEFINE head == Head(waiting)
             tail == Tail(waiting)
  <2>1. /\ head \in Tasks /\ tail \in Seq(Tasks) /\ Len(tail) = Len(waiting) - 1
        /\ Len(waiting) \in Nat \ {0}
        /\ head = waiting[1]
        /\ DOMAIN waiting = 1 .. Len(waiting) /\ DOMAIN tail = 1 .. Len(waiting) - 1
        /\ \A i \in DOMAIN tail : tail[i] = waiting[i + 1]
    BY <1>2
  <2>2. taskQueue' = tail /\ active' = running \cup {head}
    BY <1>2, <1>n DEF ProcessQueue
  <2>3. Elements(waiting) = {head} \cup Elements(tail)
    BY <1>2, HeadAndTail
  <2> HIDE DEF head, tail
  <2>4. head \notin running
    BY <2>1 DEF Distinct, SameTask
  <2>5. /\ IsFiniteSet(running \cup {head})
        /\ Cardinality(running \cup {head}) = Cardinality(running) + 1
    BY <2>4, FS_AddElement
  <2>6. Distinct(tail, running \cup {head})
    <3>1. \A i, j \in DOMAIN tail : SameTask(tail[i], tail[j]) => i = j
      <4> SUFFICES ASSUME NEW i \in DOMAIN tail, NEW j \in DOMAIN tail,
                          SameTask(tail[i], tail[j])
                   PROVE  i = j
        OBVIOUS
      <4>1. i + 1 \in DOMAIN waiting /\ j + 1 \in DOMAIN waiting
        BY <2>1
      <4>2. SameTask(waiting[i + 1], waiting[j + 1])
        BY <2>1
      <4>3. i + 1 = j + 1
        BY <4>1, <4>2 DEF Distinct
      <4>4. QED BY <4>3, <2>1
    <3>2. \A i \in DOMAIN tail : ~SameTask(tail[i], head)
      <4> SUFFICES ASSUME NEW i \in DOMAIN tail, SameTask(tail[i], head)
                   PROVE  FALSE
        OBVIOUS
      <4>1. i + 1 \in DOMAIN waiting /\ 1 \in DOMAIN waiting /\ i + 1 # 1
        BY <2>1
      <4>2. SameTask(waiting[i + 1], waiting[1])
        BY <2>1
      <4>3. QED BY <4>1, <4>2 DEF Distinct
    <3>3. \A i \in DOMAIN tail : \A t \in running : ~SameTask(tail[i], t)
      <4> SUFFICES ASSUME NEW i \in DOMAIN tail
                   PROVE  \A t \in running : ~SameTask(tail[i], t)
        OBVIOUS
      <4>1. i + 1 \in DOMAIN waiting
        BY <2>1
      <4>2. QED BY <4>1, <2>1 DEF Distinct
    <3>4. \A t \in running : ~SameTask(head, t) /\ ~SameTask(t, head)
      BY <2>1 DEF Distinct, SameTask
    <3>5. QED BY <3>1, <3>2, <3>3, <3>4 DEF Distinct
  <2>7. tail # <<>> => Cardinality(running) + 1 = MaxConcurrency
    BY <1>2, <1>n, <2>1
  <2>8. QueueInv'
    BY <1>2, <1>n, <2>1, <2>2, <2>5, <2>6, <2>7 DEF QueueInv, QueueServed
  <2>9. QED BY <2>2, <2>3, <2>8 DEF Live
<1>3. QED BY <1>1, <1>2, <1>n

\* enqueueTask keeps the queue served, if the task is a new one.
LEMMA EnqueueServes ==
    ASSUME QueueInv, NEW task \in Tasks, \A t \in Live : ~SameTask(task, t),
           EnqueueTask(task)
    PROVE  QueueInv' /\ Live' = Live \cup {task}
<1> DEFINE waiting == Append(taskQueue, task)
<1>1. /\ waiting \in Seq(Tasks)
      /\ DOMAIN waiting = 1 .. Len(taskQueue) + 1
      /\ \A i \in 1 .. Len(taskQueue) : waiting[i] = taskQueue[i]
      /\ waiting[Len(taskQueue) + 1] = task
      /\ Elements(waiting) = Elements(taskQueue) \cup {task}
  BY OneMore DEF QueueInv
<1>2. Len(waiting) = Len(taskQueue) + 1 /\ DOMAIN taskQueue = 1 .. Len(taskQueue)
  BY DEF QueueInv
<1>3. ProcessQueue(waiting, active)
  BY DEF EnqueueTask
<1> HIDE DEF waiting
<1>4. \A i \in DOMAIN taskQueue :
          ~SameTask(task, taskQueue[i]) /\ ~SameTask(taskQueue[i], task)
  BY DEF Live, Elements, SameTask
<1>5. Distinct(waiting, active)
  <2>1. \A i, j \in DOMAIN waiting : SameTask(waiting[i], waiting[j]) => i = j
    BY <1>1, <1>2, <1>4 DEF QueueInv, Distinct
  <2>2. \A i \in DOMAIN waiting : \A t \in active : ~SameTask(waiting[i], t)
    BY <1>1, <1>2 DEF QueueInv, Distinct, Live
  <2>3. QED BY <2>1, <2>2 DEF QueueInv, Distinct
<1>6. Len(waiting) > 1 => Cardinality(active) >= MaxConcurrency - 1
  BY <1>2, ListenerAssumption DEF QueueInv, QueueServed
<1>7. QED BY <1>1, <1>3, <1>5, <1>6, ProcessQueueServes DEF QueueInv, QueueServed, Live

\* The finally block keeps the queue served: the place is given to the next task.
LEMMA FinishServes ==
    ASSUME QueueInv, NEW task \in active, Finish(task)
    PROVE  QueueInv' /\ Live' = Live \ {task}
<1>1. task \notin Elements(taskQueue)
  BY DEF QueueInv, Distinct, Elements, SameTask
<1>2. /\ IsFiniteSet(active \ {task})
      /\ Cardinality(active \ {task}) = Cardinality(active) - 1
      /\ Cardinality(active) \in Nat
  BY FS_RemoveElement, FS_CardinalityType DEF QueueInv
<1>3. Distinct(taskQueue, active \ {task})
  BY DEF QueueInv, Distinct
<1>4. Len(taskQueue) > 1 => Cardinality(active \ {task}) >= MaxConcurrency - 1
  BY <1>2 DEF QueueInv, QueueServed
<1>5. Cardinality(active \ {task}) <= MaxConcurrency
  BY <1>2, ListenerAssumption DEF QueueInv, QueueServed
<1>6. ProcessQueue(taskQueue, active \ {task})
  BY DEF Finish
<1>7. QueueInv' /\ Live' = (active \ {task}) \cup Elements(taskQueue)
  BY <1>2, <1>3, <1>4, <1>5, <1>6, ProcessQueueServes DEF QueueInv
<1>8. QED BY <1>1, <1>7 DEF Live

\* A task that goes on keeps its place.
LEMMA GotoServes ==
    ASSUME QueueInv, NEW task \in active, NEW step \in AskSteps \cup ApproveSteps,
           Goto(task, step)
    PROVE  /\ QueueInv'
           /\ Live' = (Live \ {task}) \cup {[task EXCEPT !.step = step]}
<1> DEFINE next == [task EXCEPT !.step = step]
<1>1. task \in Tasks
  BY DEF QueueInv
<1>2. next \in Tasks /\ next.of = task.of /\ next.no = task.no
  BY <1>1 DEF Tasks
<1>3. active' = (active \ {task}) \cup {next} /\ taskQueue' = taskQueue
  BY DEF Goto
<1> HIDE DEF next
<1>4. task \notin Elements(taskQueue)
  BY DEF QueueInv, Distinct, Elements, SameTask
<1>5. next \notin active \ {task}
  BY <1>2 DEF QueueInv, Distinct, SameTask
<1>6. /\ IsFiniteSet(active')
      /\ Cardinality(active') = Cardinality(active)
  <2>1. /\ IsFiniteSet(active \ {task})
        /\ Cardinality(active \ {task}) = Cardinality(active) - 1
        /\ Cardinality(active) \in Nat
    BY FS_RemoveElement, FS_CardinalityType DEF QueueInv
  <2>2. QED BY <2>1, <1>3, <1>5, FS_AddElement
<1>7. Distinct(taskQueue, active')
  BY <1>2, <1>3 DEF QueueInv, Distinct, SameTask
<1>8. QueueInv'
  BY <1>2, <1>3, <1>6, <1>7 DEF QueueInv, QueueServed
<1>9. QED BY <1>3, <1>4, <1>8 DEF Live, next

-----------------------------------------------------------------------------
(* What a step may do to the tasks, the requests and the answers.          *)

\* Handlers do not begin again, and no request is forgotten.
Lasts ==
    \A envelope \in Envelopes :
        /\ at[envelope] = "done" => at'[envelope] = "done"
        /\ requests[envelope] # "none" => requests'[envelope] # "none"

\* A task after a step is one that lived before and may have gone on, or it is put
\* in by a handler that ends with that.
GoesOnFrom(task, before) ==
    /\ SameTask(before, task)
    /\ task.step \in AskSteps => before.step \in AskSteps
    /\ task.step \in BeforeAnswer => before.step \in BeforeAnswer
IsPutIn(task) ==
    /\ task.of \in Envelopes
    /\ task.no = 0
    /\ at[task.of] # "done"
    /\ at'[task.of] = "done"
    /\ task.step \in AskSteps => requests'[task.of] # "none"
TasksFollow ==
    \A task \in Live' : (\E before \in Live : GoesOnFrom(task, before)) \/ IsPutIn(task)

LEMMA LiveAreTasks ==
    ASSUME QueueInv
    PROVE  Live \subseteq Tasks
BY DEF QueueInv, Live, Elements

LEMMA UnsentFinite ==
    ASSUME StateTypes, NEW envelope \in Envelopes
    PROVE  IsFiniteSet(Unsent(envelope)) /\ Cardinality(Unsent(envelope)) \in Nat
<1>1. resumed[envelope] \in Nat
  BY DEF StateTypes
<1>2. IsFiniteSet(0 .. resumed[envelope])
  BY <1>1, FS_Interval
<1>3. Unsent(envelope) \in SUBSET (0 .. resumed[envelope])
  BY DEF Unsent
<1>4. QED BY <1>2, <1>3, FS_Subset, FS_CardinalityType

\* The tasks stay true to the handlers and the database.
LEMMA TasksStayTrue ==
    ASSUME QueueInv, StateTypes, TasksTrue, Lasts, TasksFollow, resumed' = resumed
    PROVE  TasksTrue'
<1> SUFFICES ASSUME NEW task \in Live'
             PROVE  IsTrue(task)'
  BY DEF TasksTrue
<1>1. CASE \E before \in Live : GoesOnFrom(task, before)
  <2>1. PICK before \in Live : GoesOnFrom(task, before)
    BY <1>1
  <2>2. before.of \in Envelopes /\ before.of = task.of /\ before.no = task.no
    BY <2>1, LiveAreTasks DEF Tasks, GoesOnFrom, SameTask
  <2>3. IsTrue(before)
    BY <2>1 DEF TasksTrue
  <2>4. QED BY <2>1, <2>2, <2>3 DEF IsTrue, Lasts, GoesOnFrom
<1>2. CASE IsPutIn(task)
  BY <1>2 DEF IsPutIn, IsTrue, StateTypes
<1>3. QED BY <1>1, <1>2 DEF TasksFollow

\* While no answer is sent and no request resumed, no task gains the right to
\* send one.
LEMMA AnswersStayFit ==
    ASSUME QueueInv, StateTypes, AnswersFit, Lasts, TasksFollow,
           UNCHANGED <<answers, resumed>>
    PROVE  AnswersFit'
<1> SUFFICES ASSUME NEW envelope \in Envelopes
             PROVE  answers[envelope] + Cardinality(Unsent(envelope)')
                        <= 1 + resumed[envelope]
  BY DEF AnswersFit
<1>1. ASSUME NEW no \in Unsent(envelope)'
      PROVE  no \in Unsent(envelope)
  <2>1. no \in 0 .. resumed[envelope]
    BY <1>1 DEF Unsent
  <2>2. CASE no = 0 /\ at'[envelope] # "done"
    BY <2>1, <2>2 DEF Unsent, Lasts
  <2>3. CASE \E task \in Live' :
                 task.of = envelope /\ task.no = no /\ task.step \in BeforeAnswer
    <3>1. PICK task \in Live' :
              task.of = envelope /\ task.no = no /\ task.step \in BeforeAnswer
      BY <2>3
    <3>2. CASE IsPutIn(task)
      BY <2>1, <3>1, <3>2 DEF IsPutIn, Unsent
    <3>3. CASE \E before \in Live : GoesOnFrom(task, before)
      BY <2>1, <3>1, <3>3 DEF GoesOnFrom, SameTask, Unsent
    <3>4. QED BY <3>2, <3>3 DEF TasksFollow
  <2>4. QED BY <1>1, <2>2, <2>3 DEF Unsent
<1>2. Unsent(envelope)' \in SUBSET Unsent(envelope)
  BY <1>1
<1>3. /\ Cardinality(Unsent(envelope)') <= Cardinality(Unsent(envelope))
      /\ Cardinality(Unsent(envelope)') \in Nat
  BY <1>2, UnsentFinite, FS_Subset, FS_CardinalityType
<1>4. answers[envelope] + Cardinality(Unsent(envelope)) <= 1 + resumed[envelope]
  BY DEF AnswersFit
<1>5. /\ answers[envelope] \in Nat /\ resumed[envelope] \in Nat
      /\ Cardinality(Unsent(envelope)) \in Nat
  BY UnsentFinite DEF StateTypes
<1>6. QED BY <1>3, <1>4, <1>5

\* While no other delivery goes on to be handled, those that do were logged.
LEMMA LogsStayFit ==
    ASSUME LogsFit, logged \subseteq logged',
           \A envelope \in Envelopes : GoesOn(envelope)' => GoesOn(envelope)
    PROVE  LogsFit'
BY DEF LogsFit

\* While nothing else begins to be answered or gets a receipt, what loops is left
\* alone.
LEMMA IgnoredStay ==
    ASSUME RequestInv, logged \subseteq logged', receipts' = receipts, content' = content,
           \A envelope \in Envelopes :
               /\ at'[envelope] = "echo" => at[envelope] = "echo"
               /\ requests[envelope] = "none" => requests'[envelope] = "none"
               /\ answers'[envelope] = answers[envelope]
    PROVE  EchoesPlaced' /\ ReceiptMeansLogged' /\ LoopsPrevented'
<1>1. FromEcho' = FromEcho
  BY DEF FromEcho
<1>2. EchoesPlaced'
  BY DEF RequestInv, EchoesPlaced
<1>3. ReceiptMeansLogged'
  BY <1>1 DEF RequestInv, ReceiptMeansLogged
<1>4. LoopsPrevented'
  BY DEF RequestInv, LoopsPrevented
<1>5. QED BY <1>2, <1>3, <1>4

\* Most steps of a handler only take it to its next part, or end what ECHOECHO sent.
LEMMA MoveOn ==
    ASSUME ListenerInv, NEW envelope, NEW from, NEW to \in Places, from # "done",
           Goes(envelope, from, to),
           UNCHANGED <<content, recovery, tasks, database, answers>>,
           to = "echo" /\ envelope \in Envelopes => content[envelope] = "echo",
           \/ receipts' = receipts
           \/ /\ envelope \in Envelopes /\ content[envelope] = "echo"
              /\ receipts' = receipts \cup {Message(envelope)},
           to = "enqueue" => requests[envelope] # "none",
           envelope \in Envelopes => (GoesOn(envelope)' => GoesOn(envelope))
    PROVE  ListenerInv'
<1> USE DEF recovery, tasks, database
<1>1. at' \in [Envelopes -> Places] /\ at[envelope] = from
  BY DEF Goes, ListenerInv, RequestInv, StateTypes
<1>2. \A other \in Envelopes : at'[other] = IF other = envelope THEN to ELSE at[other]
  BY DEF Goes, ListenerInv, RequestInv, StateTypes
<1>3. QueueInv' /\ Live' = Live
  BY DEF ListenerInv, QueueInv, QueueServed, Live
<1>4. Lasts
  BY <1>1, <1>2 DEF Lasts
<1>5. TasksFollow
  BY <1>3 DEF TasksFollow, GoesOnFrom, SameTask
<1>6. StateTypes'
  BY <1>1 DEF ListenerInv, RequestInv, StateTypes
<1>7. TasksTrue' /\ AnswersFit'
  BY <1>4, <1>5, TasksStayTrue, AnswersStayFit DEF ListenerInv, RequestInv
<1>8. RequestsPlaced'
  BY <1>2 DEF ListenerInv, RequestInv, RequestsPlaced
<1>9. LogsFit'
  <2>1. \A other \in Envelopes : GoesOn(other)' => GoesOn(other)
    BY <1>2 DEF GoesOn
  <2>2. QED BY <2>1, LogsStayFit DEF ListenerInv, RequestInv
<1>10. EchoesPlaced' /\ LoopsPrevented'
  BY <1>2 DEF ListenerInv, RequestInv, EchoesPlaced, LoopsPrevented
<1>11. ReceiptMeansLogged'
  <2>1. FromEcho' = FromEcho
    BY DEF FromEcho
  <2>2. envelope \in Envelopes /\ content[envelope] = "echo" => Message(envelope) \in FromEcho
    BY DEF FromEcho
  <2>3. QED BY <2>1, <2>2 DEF ListenerInv, RequestInv, ReceiptMeansLogged
<1>12. QED
  BY <1>3, <1>6, <1>7, <1>8, <1>9, <1>10, <1>11 DEF ListenerInv, RequestInv

\* Most steps of a task take it on or end it, and may set its request's status.
LEMMA TaskGoesOn ==
    ASSUME ListenerInv, NEW task \in active, QueueInv', TasksFollow,
           \/ requests' = requests
           \/ /\ task.step \in AskSteps
              /\ \E status \in Statuses \ {"none"} : SetStatus(task, status),
           answers' = answers, TaskOnly
    PROVE  ListenerInv'
<1> USE DEF TaskOnly, intake, recovery, groups, fixed
<1>1. task \in Live /\ task \in Tasks /\ IsTrue(task)
  BY DEF ListenerInv, QueueInv, RequestInv, TasksTrue, Live
<1>2. /\ requests' \in [Envelopes -> Statuses]
      /\ \A envelope \in Envelopes :
             (requests'[envelope] # "none") <=> (requests[envelope] # "none")
  BY <1>1 DEF ListenerInv, RequestInv, StateTypes, SetStatus, IsTrue, Tasks
<1>3. Lasts
  BY <1>2 DEF Lasts
<1>4. StateTypes'
  BY <1>2 DEF ListenerInv, RequestInv, StateTypes
<1>5. TasksTrue' /\ AnswersFit'
  BY <1>3, TasksStayTrue, AnswersStayFit DEF ListenerInv, RequestInv
<1>6. RequestsPlaced'
  <2>1. \A i \in DOMAIN remaining : remaining[i] \in Envelopes
    BY DEF ListenerInv, RequestInv, StateTypes
  <2>2. QED BY <1>2, <2>1 DEF ListenerInv, RequestInv, RequestsPlaced
<1>7. LogsFit'
  <2>1. \A envelope \in Envelopes : GoesOn(envelope)' => GoesOn(envelope)
    BY <1>2 DEF GoesOn
  <2>2. QED BY <2>1, LogsStayFit DEF ListenerInv, RequestInv
<1>8. EchoesPlaced' /\ ReceiptMeansLogged' /\ LoopsPrevented'
  BY <1>2, IgnoredStay DEF ListenerInv
<1>9. QED
  BY <1>4, <1>5, <1>6, <1>7, <1>8 DEF ListenerInv, RequestInv

\* A task that goes from one step to the next follows.
LEMMA GotoFollows ==
    ASSUME ListenerInv, NEW task \in active, NEW step \in AskSteps \cup ApproveSteps,
           step \in AskSteps => task.step \in AskSteps,
           step \in BeforeAnswer => task.step \in BeforeAnswer,
           Goto(task, step)
    PROVE  QueueInv' /\ TasksFollow
<1> DEFINE next == [task EXCEPT !.step = step]
<1>1. task \in Tasks /\ task \in Live
  BY DEF ListenerInv, QueueInv, Live
<1>2. GoesOnFrom(next, task)
  BY <1>1 DEF GoesOnFrom, SameTask, Tasks
<1>3. QueueInv' /\ Live' = (Live \ {task}) \cup {next}
  BY GotoServes DEF ListenerInv
<1> HIDE DEF next
<1>4. \A other \in Live : GoesOnFrom(other, other)
  BY DEF GoesOnFrom, SameTask
<1>5. QED BY <1>1, <1>2, <1>3, <1>4 DEF TasksFollow

\* When a task ends, the others stay.
LEMMA FinishFollows ==
    ASSUME ListenerInv, NEW task \in active, Finish(task)
    PROVE  QueueInv' /\ TasksFollow
<1>1. QueueInv' /\ Live' = Live \ {task}
  BY FinishServes DEF ListenerInv
<1>2. QED BY <1>1 DEF TasksFollow, GoesOnFrom, SameTask

-----------------------------------------------------------------------------
(* The steps of the handlers.                                              *)

LEMMA InitHolds == Init => ListenerInv
<1> SUFFICES ASSUME Init PROVE ListenerInv
  OBVIOUS
<1>1. Live = {}
  BY DEF Init, Live, Elements
<1>2. QueueInv
  <2>1. IsFiniteSet({}) /\ Cardinality({}) = 0
    BY FS_EmptySet
  <2>2. QED BY <2>1, ListenerAssumption DEF Init, QueueInv, QueueServed, Distinct
<1>3. StateTypes
  BY DEF Init, StateTypes, Places, Statuses
<1>4. AnswersFit
  <2> SUFFICES ASSUME NEW envelope \in Envelopes
               PROVE  Cardinality(Unsent(envelope)) = 1
    BY DEF Init, AnswersFit
  <2>1. Unsent(envelope) = {0}
    BY <1>1 DEF Init, Unsent
  <2>2. QED BY <2>1, FS_Singleton
<1>5. TasksTrue /\ RequestsPlaced /\ LogsFit
  BY <1>1 DEF Init, TasksTrue, RequestsPlaced, LogsFit, GoesOn
<1>6. EchoesPlaced /\ ReceiptMeansLogged /\ LoopsPrevented
  BY DEF Init, EchoesPlaced, ReceiptMeansLogged, LoopsPrevented
<1>7. QED BY <1>2, <1>3, <1>4, <1>5, <1>6 DEF ListenerInv, RequestInv

\* What only takes a handler on: arrival, the queue before the session is ready,
\* what is ignored, the groups, and failures of the database.
LEMMA HandlersMoveOn ==
    ASSUME ListenerInv, NEW envelope \in Envelopes,
           \/ OnEnvelope(envelope) \/ QueueEnvelope(envelope) \/ DrainQueue
           \/ ProcessEnvelope(envelope) \/ SaveGroups(envelope) \/ AddMember(envelope)
           \/ IgnoreEcho(envelope) \/ StoreMessageFails(envelope)
    PROVE  ListenerInv'
<1> USE DEF IntakeOnly, HandlerOnly, fixed, sent
<1>1. CASE OnEnvelope(envelope)
  <2>1. Goes(envelope, "none", IF ready THEN "process" ELSE "queueing")
    BY <1>1 DEF OnEnvelope
  <2>2. GoesOn(envelope)' => GoesOn(envelope)
    BY <1>1, <2>1 DEF OnEnvelope, GoesOn, Goes, ListenerInv, RequestInv, StateTypes, database
  <2>3. QED BY <1>1, <2>1, <2>2, MoveOn DEF OnEnvelope, Places
<1>2. CASE QueueEnvelope(envelope)
  <2>1. GoesOn(envelope)' => GoesOn(envelope)
    BY <1>2 DEF QueueEnvelope, GoesOn, Goes, ListenerInv, RequestInv, StateTypes, database
  <2>2. QED BY <1>2, <2>1, MoveOn DEF QueueEnvelope, Places
<1>3. CASE DrainQueue
  <2>1. PICK first : Goes(first, "queued", "process")
    BY <1>3 DEF DrainQueue
  <2>2. first \in Envelopes => (GoesOn(first)' => GoesOn(first))
    BY <1>3, <2>1 DEF DrainQueue, GoesOn, Goes, ListenerInv, RequestInv, StateTypes, database
  <2>3. QED BY <1>3, <2>1, <2>2, MoveOn DEF DrainQueue, Places
<1>4. CASE ProcessEnvelope(envelope)
  <2>1. CASE content[envelope] = "groupLeave"
    <3>1. Goes(envelope, "process", IF isMember THEN "saveGroups" ELSE "done")
      BY <1>4, <2>1 DEF ProcessEnvelope
    <3>2. GoesOn(envelope)' => GoesOn(envelope)
      BY <1>4, <2>1, <3>1
      DEF ProcessEnvelope, GoesOn, Goes, ListenerInv, RequestInv, StateTypes, database
    <3>3. QED BY <1>4, <3>1, <3>2, MoveOn DEF ProcessEnvelope, Places
  <2>2. CASE content[envelope] # "groupLeave"
    <3>1. PICK to \in {"done", "echo", "log"} :
              /\ Goes(envelope, "process", to)
              /\ to = "echo" => content[envelope] = "echo"
      BY <1>4, <2>2 DEF ProcessEnvelope, BeginMessage
    <3>2. GoesOn(envelope)' => GoesOn(envelope)
      BY <1>4, <3>1
      DEF ProcessEnvelope, GoesOn, Goes, ListenerInv, RequestInv, StateTypes, database
    <3>3. QED BY <1>4, <3>1, <3>2, MoveOn DEF ProcessEnvelope, Places
  <2>3. QED BY <2>1, <2>2
<1>5. CASE SaveGroups(envelope)
  <2>1. Goes(envelope, "saveGroups",
             IF content[envelope] = "groupLeave" THEN "done" ELSE "store")
    BY <1>5 DEF SaveGroups
  <2>2. GoesOn(envelope)' => GoesOn(envelope)
    BY <1>5, <2>1
    DEF SaveGroups, GoesOn, Goes, ListenerInv, RequestInv, StateTypes, database
  <2>3. QED BY <1>5, <2>1, <2>2, MoveOn DEF SaveGroups, Places
<1>6. CASE AddMember(envelope)
  <2>1. Goes(envelope, "member", IF isMember THEN "store" ELSE "saveGroups")
    BY <1>6 DEF AddMember
  <2>2. GoesOn(envelope)' => GoesOn(envelope)
    BY <1>6, <2>1
    DEF AddMember, GoesOn, Goes, ListenerInv, RequestInv, StateTypes, database
  <2>3. QED BY <1>6, <2>1, <2>2, MoveOn DEF AddMember, Places
<1>7. CASE StoreMessageFails(envelope)
  <2>1. \/ Goes(envelope, "store", "done")
        \/ Goes(envelope, "enqueue", "done")
    BY <1>7 DEF StoreMessageFails
  <2>2. GoesOn(envelope)' => GoesOn(envelope)
    BY <1>7, <2>1
    DEF StoreMessageFails, GoesOn, Goes, ListenerInv, RequestInv, StateTypes, database
  <2>3. QED BY <1>7, <2>1, <2>2, MoveOn DEF StoreMessageFails, Places
<1>8. CASE IgnoreEcho(envelope)
  <2>1. Goes(envelope, "echo", "done") /\ content[envelope] = "echo"
    BY <1>8 DEF IgnoreEcho, Goes, ListenerInv, RequestInv, EchoesPlaced
  <2>2. GoesOn(envelope)' => GoesOn(envelope)
    BY <1>8, <2>1
    DEF IgnoreEcho, GoesOn, Goes, ListenerInv, RequestInv, StateTypes, database
  <2>3. QED BY <1>8, <2>1, <2>2, MoveOn DEF IgnoreEcho, Places
<1>9. QED BY <1>1, <1>2, <1>3, <1>4, <1>5, <1>6, <1>7, <1>8

\* A delivery only goes on to be handled if its message was not logged before, or
\* could not be logged.
LEMMA LogMessageKeeps ==
    ASSUME ListenerInv, NEW envelope \in Envelopes, LogMessage(envelope)
    PROVE  ListenerInv'
<1> USE DEF HandlerOnly, recovery, tasks, fixed
<1>1. at[envelope] = "log"
  BY DEF LogMessage, Goes
<1>2. /\ at' \in [Envelopes -> Places]
      /\ \A other \in Envelopes : other # envelope => at'[other] = at[other]
      /\ at'[envelope] \in {"done", "member", "store"}
  BY DEF LogMessage, Goes, Logged, Places, ListenerInv, RequestInv, StateTypes
<1>3. QueueInv' /\ Live' = Live
  BY DEF LogMessage, ListenerInv, QueueInv, QueueServed, Live
<1>4. Lasts /\ TasksFollow
  BY <1>1, <1>2, <1>3 DEF LogMessage, Lasts, TasksFollow, GoesOnFrom, SameTask
<1>5. StateTypes'
  BY <1>2 DEF LogMessage, ListenerInv, RequestInv, StateTypes
<1>6. TasksTrue' /\ AnswersFit'
  BY <1>4, TasksStayTrue, AnswersStayFit DEF LogMessage, ListenerInv, RequestInv
<1>7. RequestsPlaced'
  BY <1>2 DEF LogMessage, ListenerInv, RequestInv, RequestsPlaced
<1>8. EchoesPlaced' /\ ReceiptMeansLogged' /\ LoopsPrevented'
  <2>1. FromEcho' = FromEcho
    BY DEF LogMessage, FromEcho
  <2>2. ReceiptMeansLogged'
    BY <2>1 DEF LogMessage, ListenerInv, RequestInv, ReceiptMeansLogged
  <2>3. EchoesPlaced'
    BY <1>2 DEF LogMessage, ListenerInv, RequestInv, EchoesPlaced
  <2>4. LoopsPrevented'
    BY DEF LogMessage, ListenerInv, RequestInv, LoopsPrevented
  <2>5. QED BY <2>2, <2>3, <2>4
<1>9. \A other \in Envelopes : other # envelope => (GoesOn(other)' => GoesOn(other))
  BY <1>2 DEF LogMessage, GoesOn
<1>10. LogsFit'
  <2>1. CASE envelope \in unlogged'
    <3>1. \A other \in Envelopes : GoesOn(other)' => GoesOn(other)
      BY <1>9, <2>1 DEF GoesOn
    <3>2. QED BY <3>1, LogsStayFit DEF LogMessage, ListenerInv, RequestInv
  <2>2. CASE envelope \notin unlogged' /\ Message(envelope) \in logged
    <3>1. Goes(envelope, "log", "done") /\ UNCHANGED unlogged
      BY <2>2 DEF LogMessage
    <3>2. at'[envelope] = "done"
      BY <3>1 DEF Goes, ListenerInv, RequestInv, StateTypes
    <3>3. GoesOn(envelope)' => GoesOn(envelope)
      BY <3>1, <3>2 DEF LogMessage, GoesOn
    <3>4. QED BY <1>9, <3>3, LogsStayFit DEF LogMessage, ListenerInv, RequestInv
  <2>3. CASE envelope \notin unlogged' /\ Message(envelope) \notin logged
    <3>1. \A other \in Envelopes : GoesOn(other) => Message(other) # Message(envelope)
      BY <2>3 DEF ListenerInv, RequestInv, LogsFit
    <3>2. logged' = logged \cup {Message(envelope)}
      BY <2>3 DEF LogMessage
    <3>3. QED BY <1>9, <3>1, <3>2 DEF ListenerInv, RequestInv, LogsFit
  <2>4. QED BY <2>1, <2>2, <2>3
<1>11. QED
  BY <1>3, <1>5, <1>6, <1>7, <1>8, <1>10 DEF ListenerInv, RequestInv

\* A handler that ends with its first task.
LEMMA PutIn ==
    ASSUME ListenerInv, NEW envelope \in Envelopes, NEW from, from # "done",
           NEW step \in AskSteps \cup ApproveSteps,
           step \in AskSteps => requests[envelope] # "none",
           Goes(envelope, from, "done"),
           EnqueueTask(Task(envelope, 0, step)),
           UNCHANGED <<content, recovery, database, sent>>
    PROVE  ListenerInv'
<1> USE DEF recovery, database, sent
<1> DEFINE task == Task(envelope, 0, step)
<1>1. /\ at' \in [Envelopes -> Places] /\ at[envelope] = from /\ at'[envelope] = "done"
      /\ \A other \in Envelopes : other # envelope => at'[other] = at[other]
  BY DEF Goes, ListenerInv, RequestInv, StateTypes, Places
<1>2. /\ task \in Tasks
      /\ task.of = envelope /\ task.no = 0 /\ task.step = step
  BY DEF Task, Tasks
<1>3. EnqueueTask(task)
  OBVIOUS
<1> HIDE DEF task
<1>4. \A other \in Live : ~SameTask(task, other)
  BY <1>1, <1>2 DEF ListenerInv, RequestInv, TasksTrue, IsTrue, SameTask
<1>5. QueueInv' /\ Live' = Live \cup {task}
  BY <1>2, <1>3, <1>4, EnqueueServes DEF ListenerInv
<1>6. Lasts
  BY <1>1 DEF Lasts
<1>7. TasksFollow
  <2>1. IsPutIn(task)
    BY <1>1, <1>2 DEF IsPutIn
  <2>2. \A other \in Live : GoesOnFrom(other, other)
    BY DEF GoesOnFrom, SameTask
  <2>3. QED BY <1>5, <2>1, <2>2 DEF TasksFollow
<1>8. StateTypes'
  BY <1>1 DEF ListenerInv, RequestInv, StateTypes
<1>9. TasksTrue' /\ AnswersFit'
  BY <1>6, <1>7, TasksStayTrue, AnswersStayFit DEF ListenerInv, RequestInv
<1>10. RequestsPlaced'
  BY <1>1 DEF ListenerInv, RequestInv, RequestsPlaced
<1>11. LogsFit'
  <2>1. \A other \in Envelopes : GoesOn(other)' => GoesOn(other)
    BY <1>1 DEF GoesOn
  <2>2. QED BY <2>1, LogsStayFit DEF ListenerInv, RequestInv
<1>12. EchoesPlaced' /\ ReceiptMeansLogged' /\ LoopsPrevented'
  BY <1>1, IgnoredStay DEF ListenerInv
<1>13. QED
  BY <1>5, <1>8, <1>9, <1>10, <1>11, <1>12 DEF ListenerInv, RequestInv

\* A handler that sets the status of its own request.
LEMMA RequestStored ==
    ASSUME ListenerInv, NEW envelope \in Envelopes, NEW from, NEW to \in Places,
           NEW status \in Statuses \ {"none"},
           from = "store" \/ requests[envelope] # "none", from # "done",
           content[envelope] \notin {"echo", "ignored"},
           Goes(envelope, from, to), to \in {"enqueue", "done"},
           requests' = [requests EXCEPT ![envelope] = status],
           UNCHANGED <<content, recovery, tasks, logged, unlogged, sent>>
    PROVE  ListenerInv'
<1> USE DEF recovery, tasks, sent
<1>1. /\ at' \in [Envelopes -> Places] /\ at[envelope] = from /\ at'[envelope] = to
      /\ \A other \in Envelopes : other # envelope => at'[other] = at[other]
  BY DEF Goes, ListenerInv, RequestInv, StateTypes
<1>2. /\ requests' \in [Envelopes -> Statuses] /\ requests'[envelope] # "none"
      /\ \A other \in Envelopes : other # envelope => requests'[other] = requests[other]
  BY DEF ListenerInv, RequestInv, StateTypes
<1>3. QueueInv' /\ Live' = Live
  BY DEF ListenerInv, QueueInv, QueueServed, Live
<1>4. Lasts /\ TasksFollow
  BY <1>1, <1>2, <1>3 DEF Lasts, TasksFollow, GoesOnFrom, SameTask
<1>5. StateTypes'
  BY <1>1, <1>2 DEF ListenerInv, RequestInv, StateTypes
<1>6. TasksTrue' /\ AnswersFit'
  BY <1>4, TasksStayTrue, AnswersStayFit DEF ListenerInv, RequestInv
<1>7. RequestsPlaced'
  <2>1. \A i \in DOMAIN remaining : remaining[i] \in Envelopes
    BY DEF ListenerInv, RequestInv, StateTypes
  <2>2. QED BY <1>1, <1>2, <2>1 DEF ListenerInv, RequestInv, RequestsPlaced
<1>8. LogsFit'
  <2>1. \A other \in Envelopes : GoesOn(other)' => GoesOn(other)
    BY <1>1, <1>2 DEF GoesOn
  <2>2. QED BY <2>1, LogsStayFit DEF ListenerInv, RequestInv
<1>9. EchoesPlaced' /\ ReceiptMeansLogged' /\ LoopsPrevented'
  <2>1. FromEcho' = FromEcho
    BY DEF FromEcho
  <2>2. ReceiptMeansLogged'
    BY <2>1 DEF ListenerInv, RequestInv, ReceiptMeansLogged
  <2>3. EchoesPlaced'
    BY <1>1 DEF ListenerInv, RequestInv, EchoesPlaced
  <2>4. LoopsPrevented'
    BY <1>2 DEF ListenerInv, RequestInv, LoopsPrevented
  <2>5. QED BY <2>2, <2>3, <2>4
<1>10. QED
  BY <1>3, <1>5, <1>6, <1>7, <1>8, <1>9 DEF ListenerInv, RequestInv

\* What is to be answered becomes a request, which is handed over or asked.
LEMMA HandlersStore ==
    ASSUME ListenerInv, NEW envelope \in Envelopes,
           StoreMessage(envelope) \/ HandOver(envelope) \/ AskGemini(envelope)
    PROVE  ListenerInv'
<1> USE DEF HandlerOnly, fixed
<1>1. CASE StoreMessage(envelope) /\ content[envelope] = "approve"
  <2>1. /\ Goes(envelope, "store", "done")
        /\ EnqueueTask(Task(envelope, 0, "select"))
        /\ UNCHANGED requests
    BY <1>1 DEF StoreMessage
  <2>2. UNCHANGED <<content, recovery, database, sent>>
    BY <1>1, <2>1 DEF StoreMessage, database
  <2>3. QED BY <2>1, <2>2, PutIn DEF AskSteps, ApproveSteps
<1>2. CASE StoreMessage(envelope) /\ content[envelope] = "groupChat"
  <2>1. Goes(envelope, "store", "done") /\ UNCHANGED <<tasks, requests>>
    BY <1>2 DEF StoreMessage
  <2>2. UNCHANGED <<content, recovery, tasks, database, sent>>
    BY <1>2, <2>1 DEF StoreMessage, database
  <2>3. GoesOn(envelope)' => GoesOn(envelope)
    BY <2>1, <2>2 DEF GoesOn, Goes, ListenerInv, RequestInv, StateTypes, database
  <2>4. QED BY <2>1, <2>2, <2>3, MoveOn DEF Places, sent
<1>3. CASE StoreMessage(envelope) /\ content[envelope] \in {"ask", "groupAsk", "groupCommand"}
  <2>1. /\ Goes(envelope, "store", "enqueue")
        /\ requests' = [requests EXCEPT ![envelope] = "pending"]
        /\ UNCHANGED <<tasks, logged, unlogged, sent, content, recovery>>
    BY <1>3 DEF StoreMessage
  <2>2. content[envelope] \notin {"echo", "ignored"}
    BY <1>3
  <2>3. QED BY <2>1, <2>2, RequestStored DEF Places, Statuses
<1>4. CASE HandOver(envelope)
  <2>1. /\ Goes(envelope, "enqueue", "done")
        /\ \/ requests' = [requests EXCEPT ![envelope] = "completed"]
           \/ requests' = [requests EXCEPT ![envelope] = "enqueued"]
        /\ UNCHANGED <<tasks, logged, unlogged, sent, content, recovery>>
    BY <1>4 DEF HandOver
  <2>2. requests[envelope] # "none" /\ content[envelope] \notin {"echo", "ignored"}
    BY <1>4, <2>1 DEF HandOver, Goes, ListenerInv, RequestInv, RequestsPlaced
  <2>3. QED BY <2>1, <2>2, RequestStored DEF Places, Statuses
<1>5. CASE AskGemini(envelope)
  <2>1. /\ Goes(envelope, "enqueue", "done")
        /\ EnqueueTask(Task(envelope, 0, "mark"))
        /\ UNCHANGED <<content, recovery, database, sent>>
    BY <1>5 DEF AskGemini
  <2>2. requests[envelope] # "none"
    BY <2>1 DEF Goes, ListenerInv, RequestInv, RequestsPlaced
  <2>3. QED BY <2>1, <2>2, PutIn DEF AskSteps, ApproveSteps
<1>6. StoreMessage(envelope) =>
          content[envelope] \in {"approve", "groupChat", "ask", "groupAsk", "groupCommand"}
  BY DEF StoreMessage
<1>7. QED BY <1>1, <1>2, <1>3, <1>4, <1>5, <1>6

-----------------------------------------------------------------------------
(* The steps of the tasks.                                                 *)

\* Each task sends one answer: after that it is no more one that may.
LEMMA SendAnswerKeeps ==
    ASSUME ListenerInv, NEW task \in active, SendAnswer(task)
    PROVE  ListenerInv'
<1> USE DEF TaskOnly, intake, recovery, groups, fixed
<1> DEFINE next == [task EXCEPT !.step = "complete"]
<1>1. /\ task \in Tasks /\ task \in Live /\ IsTrue(task)
      /\ task.step = "send" /\ task.of \in Envelopes /\ task.no \in Nat
  BY DEF SendAnswer, Runs, ListenerInv, QueueInv, RequestInv, TasksTrue, Live, Tasks
<1>2. /\ Goto(task, "complete")
      /\ answers' = [answers EXCEPT ![task.of] = @ + 1]
      /\ UNCHANGED <<requests, content, at, remaining, resumed, logged, unlogged, receipts>>
  BY DEF SendAnswer
<1>3. QueueInv' /\ TasksFollow
  BY <1>1, <1>2, GotoFollows DEF AskSteps, ApproveSteps, BeforeAnswer
<1>4. Live' = (Live \ {task}) \cup {next}
  BY <1>2, GotoServes DEF ListenerInv, AskSteps
<1>5. next.step = "complete"
  BY <1>1 DEF Tasks
<1> HIDE DEF next
<1>6. Lasts
  BY <1>2 DEF Lasts
<1>7. /\ answers' \in [Envelopes -> Nat] /\ answers'[task.of] = answers[task.of] + 1
      /\ \A envelope \in Envelopes :
             envelope # task.of => answers'[envelope] = answers[envelope]
  BY <1>1, <1>2 DEF ListenerInv, RequestInv, StateTypes
<1>8. StateTypes'
  BY <1>2, <1>7 DEF ListenerInv, RequestInv, StateTypes
<1>9. TasksTrue'
  BY <1>2, <1>3, <1>6, TasksStayTrue DEF ListenerInv, RequestInv
<1>10. AnswersFit'
  <2> SUFFICES ASSUME NEW envelope \in Envelopes
               PROVE  answers'[envelope] + Cardinality(Unsent(envelope)')
                          <= 1 + resumed[envelope]
    BY <1>2 DEF AnswersFit
  <2>1. /\ answers[envelope] \in Nat /\ resumed[envelope] \in Nat
        /\ IsFiniteSet(Unsent(envelope)) /\ Cardinality(Unsent(envelope)) \in Nat
        /\ answers[envelope] + Cardinality(Unsent(envelope)) <= 1 + resumed[envelope]
    BY UnsentFinite DEF ListenerInv, RequestInv, StateTypes, AnswersFit
  <2>2. Unsent(envelope)' \subseteq Unsent(envelope)
    <3>1. \A other \in Live' : other.step \in BeforeAnswer => other \in Live
      BY <1>4, <1>5 DEF BeforeAnswer
    <3>2. QED BY <1>2, <3>1 DEF Unsent
  <2>3. CASE envelope # task.of
    <3>1. /\ Cardinality(Unsent(envelope)') <= Cardinality(Unsent(envelope))
          /\ Cardinality(Unsent(envelope)') \in Nat
      BY <2>1, <2>2, FS_Subset, FS_CardinalityType
    <3>2. QED BY <1>7, <2>1, <2>3, <3>1
  <2>4. CASE envelope = task.of
    <3>1. task.no \in Unsent(envelope)
      BY <1>1, <2>1, <2>4 DEF Unsent, IsTrue, BeforeAnswer
    <3>2. task.no \notin Unsent(envelope)'
      <4>1. ~(task.no = 0 /\ at'[envelope] # "done")
        BY <1>1, <1>2, <2>4 DEF IsTrue
      <4>2. ASSUME NEW other \in Live', other.of = envelope, other.no = task.no,
                   other.step \in BeforeAnswer
            PROVE  FALSE
        <5>1. other \in Live /\ other # task
          BY <1>4, <1>5, <4>2 DEF BeforeAnswer
        <5>2. SameTask(other, task) /\ SameTask(task, other)
          BY <2>4, <4>2 DEF SameTask
        <5>3. QED BY <5>1, <5>2 DEF ListenerInv, QueueInv, Distinct, Live, Elements
      <4>3. QED BY <4>1, <4>2 DEF Unsent
    <3>3. Unsent(envelope)' \subseteq Unsent(envelope) \ {task.no}
      BY <2>2, <3>2
    <3>4. /\ IsFiniteSet(Unsent(envelope) \ {task.no})
          /\ Cardinality(Unsent(envelope) \ {task.no}) = Cardinality(Unsent(envelope)) - 1
      BY <2>1, <3>1, FS_RemoveElement
    <3>5. /\ Cardinality(Unsent(envelope)') <= Cardinality(Unsent(envelope)) - 1
          /\ Cardinality(Unsent(envelope)') \in Nat
      BY <3>3, <3>4, FS_Subset, FS_CardinalityType
    <3>6. QED BY <1>7, <2>1, <2>4, <3>5
  <2>5. QED BY <2>3, <2>4
<1>11. RequestsPlaced'
  BY <1>2 DEF ListenerInv, RequestInv, RequestsPlaced
<1>12. LogsFit'
  <2>1. \A envelope \in Envelopes : GoesOn(envelope)' => GoesOn(envelope)
    BY <1>2 DEF GoesOn
  <2>2. QED BY <1>2, <2>1, LogsStayFit DEF ListenerInv, RequestInv
<1>13. EchoesPlaced' /\ ReceiptMeansLogged' /\ LoopsPrevented'
  <2>1. requests[task.of] # "none"
    BY <1>1 DEF IsTrue, AskSteps
  <2>2. FromEcho' = FromEcho
    BY <1>2 DEF FromEcho
  <2>3. ReceiptMeansLogged'
    BY <1>2, <2>2 DEF ListenerInv, RequestInv, ReceiptMeansLogged
  <2>4. EchoesPlaced'
    BY <1>2 DEF ListenerInv, RequestInv, EchoesPlaced
  <2>5. LoopsPrevented'
    BY <1>2, <1>7, <2>1 DEF ListenerInv, RequestInv, LoopsPrevented
  <2>6. QED BY <2>3, <2>4, <2>5
<1>14. QED
  BY <1>3, <1>8, <1>9, <1>10, <1>11, <1>12, <1>13 DEF ListenerInv, RequestInv

LEMMA TasksKeep ==
    ASSUME ListenerInv, NEW task \in active, RunTask(task)
    PROVE  ListenerInv'
<1> USE DEF Runs, AskSteps, ApproveSteps, BeforeAnswer
<1>1. CASE Mark(task)
  <2>1. QueueInv' /\ TasksFollow
    BY <1>1, GotoFollows DEF Mark
  <2>2. QED BY <1>1, <2>1, TaskGoesOn DEF Mark, Statuses
<1>2. CASE Gemini(task)
  <2>1. QueueInv' /\ TasksFollow
    <3>1. \/ Goto(task, "send") \/ Goto(task, "sendPersistent") \/ Finish(task)
      BY <1>2 DEF Gemini
    <3>2. CASE Goto(task, "send")
      BY <1>2, <3>2, GotoFollows DEF Gemini
    <3>3. CASE Goto(task, "sendPersistent")
      BY <1>2, <3>3, GotoFollows DEF Gemini
    <3>4. CASE Finish(task)
      BY <3>4, FinishFollows
    <3>5. QED BY <3>1, <3>2, <3>3, <3>4
  <2>2. requests' = requests \/ SetStatus(task, "completed")
    BY <1>2 DEF Gemini
  <2>3. QED BY <1>2, <2>1, <2>2, TaskGoesOn DEF Gemini, Statuses
<1>3. CASE SendAnswer(task)
  BY <1>3, SendAnswerKeeps
<1>4. CASE SendPersistent(task)
  BY <1>4, FinishFollows, TaskGoesOn DEF SendPersistent, Statuses
<1>5. CASE Complete(task)
  BY <1>5, FinishFollows, TaskGoesOn DEF Complete, Statuses
<1>6. CASE StepFails(task)
  <2>1. requests' = requests \/ SetStatus(task, "failed")
    BY <1>6 DEF StepFails
  <2>2. QED BY <1>6, <2>1, FinishFollows, TaskGoesOn DEF StepFails, Statuses
<1>7. CASE SelectFinding(task)
  <2>1. Goto(task, "update") \/ Finish(task)
    BY <1>7 DEF SelectFinding
  <2>2. QueueInv' /\ TasksFollow
    BY <2>1, FinishFollows, GotoFollows
  <2>3. QED BY <1>7, <2>2, TaskGoesOn DEF SelectFinding
<1>8. CASE UpdateFinding(task)
  <2>1. QueueInv' /\ TasksFollow
    BY <1>8, GotoFollows DEF UpdateFinding
  <2>2. QED BY <1>8, <2>1, TaskGoesOn DEF UpdateFinding
<1>9. CASE AddQuotaTask(task)
  BY <1>9, FinishFollows, TaskGoesOn DEF AddQuotaTask
<1>10. CASE ApproveFails(task)
  BY <1>10, FinishFollows, TaskGoesOn DEF ApproveFails
<1>11. QED
  BY <1>1, <1>2, <1>3, <1>4, <1>5, <1>6, <1>7, <1>8, <1>9, <1>10 DEF RunTask

-----------------------------------------------------------------------------
(* Requests that are resumed, and restarts.                                *)

\* A set in the order SetToSeq gives it is a sequence of its elements.
LEMMA SetToSeqOfFinite ==
    ASSUME NEW S, IsFiniteSet(S)
    PROVE  SetToSeq(S) \in Seq(S)
<1>1. Cardinality(S) \in Nat /\ ExistsBijection(1 .. Cardinality(S), S)
  BY FS_CardinalityType
<1>2. PICK f \in [1 .. Cardinality(S) -> S] : IsInjective(f)
  BY <1>1 DEF ExistsBijection, Bijection, Injection, IsInjective
<1>3. SetToSeq(S) \in [1 .. Cardinality(S) -> S]
  BY <1>2 DEF SetToSeq
<1>4. QED BY <1>1, <1>3

\* The requests to resume are in the database.
LEMMA ResumeRequestsKeeps ==
    ASSUME ListenerInv, ResumeRequests
    PROVE  ListenerInv'
<1> USE DEF ResumeOnly, intake, groups, database, sent, fixed, tasks
<1>1. PICK handedOver \in SUBSET {"enqueued"} :
          remaining' = SetToSeq({envelope \in Envelopes :
                                    requests[envelope] \in Incomplete \cup handedOver})
  BY DEF ResumeRequests
<1> DEFINE incomplete == {envelope \in Envelopes :
                             requests[envelope] \in Incomplete \cup handedOver}
<1>2. incomplete \in SUBSET Envelopes
  OBVIOUS
<1>3. IsFiniteSet(incomplete)
  BY <1>2, ListenerAssumption, FS_Subset
<1>4. \A envelope \in incomplete : requests[envelope] # "none"
  BY DEF Incomplete
<1>5. remaining' = SetToSeq(incomplete)
  BY <1>1
<1> HIDE DEF incomplete
<1>6. remaining' \in Seq(incomplete)
  BY <1>3, <1>5, SetToSeqOfFinite
<1>7. remaining' \in Seq(Envelopes) /\ \A i \in DOMAIN remaining' : remaining'[i] \in incomplete
  BY <1>2, <1>6
<1>8. UNCHANGED <<at, requests, answers, resumed, unlogged, logged, receipts, content, taskQueue,
                  active>>
  BY DEF ResumeRequests
<1>9. StateTypes'
  BY <1>7, <1>8 DEF ListenerInv, RequestInv, StateTypes
<1>10. RequestsPlaced'
  BY <1>4, <1>7, <1>8 DEF ListenerInv, RequestInv, RequestsPlaced
<1>11. QueueInv' /\ Live' = Live
  BY <1>8 DEF ListenerInv, QueueInv, QueueServed, Live
<1>12. Lasts /\ TasksFollow
  BY <1>8, <1>11 DEF Lasts, TasksFollow, GoesOnFrom, SameTask
<1>13. TasksTrue' /\ AnswersFit'
  BY <1>8, <1>12, TasksStayTrue, AnswersStayFit DEF ListenerInv, RequestInv
<1>14. LogsFit'
  <2>1. \A envelope \in Envelopes : GoesOn(envelope)' => GoesOn(envelope)
    BY <1>8 DEF GoesOn
  <2>2. QED BY <1>8, <2>1, LogsStayFit DEF ListenerInv, RequestInv
<1>15. EchoesPlaced' /\ ReceiptMeansLogged' /\ LoopsPrevented'
  BY <1>8, IgnoredStay DEF ListenerInv
<1>16. QED
  BY <1>9, <1>10, <1>11, <1>13, <1>14, <1>15 DEF ListenerInv, RequestInv

\* A request that is resumed is asked by a task that is new, and may be answered
\* once more.
LEMMA ResumeRequestKeeps ==
    ASSUME ListenerInv, ResumeRequest
    PROVE  ListenerInv'
<1> USE DEF ResumeOnly, intake, groups, database, sent, fixed
<1>1. PICK envelope : envelope = Head(remaining)
  OBVIOUS
<1>2. /\ envelope \in Envelopes /\ requests[envelope] # "none"
      /\ remaining' \in Seq(Envelopes)
      /\ \A i \in DOMAIN remaining' : i + 1 \in DOMAIN remaining /\ remaining'[i] = remaining[i + 1]
  <2>1. remaining # <<>> /\ remaining' = Tail(remaining) /\ remaining \in Seq(Envelopes)
    BY DEF ResumeRequest, ListenerInv, RequestInv, StateTypes
  <2>2. 1 \in DOMAIN remaining /\ envelope = remaining[1] /\ envelope \in Envelopes
    BY <1>1, <2>1
  <2>3. requests[envelope] # "none"
    BY <2>2 DEF ListenerInv, RequestInv, RequestsPlaced
  <2>4. QED BY <2>1, <2>2, <2>3
<1>3. PICK number : number = resumed[envelope] + 1
  OBVIOUS
<1>4. resumed[envelope] \in Nat /\ number \in Nat
  BY <1>2, <1>3 DEF ListenerInv, RequestInv, StateTypes
<1>5. PICK task : task = Task(envelope, number, "mark")
  OBVIOUS
<1>6. /\ task \in Tasks
      /\ task.of = envelope /\ task.no = number /\ task.step = "mark"
  BY <1>2, <1>4, <1>5 DEF Task, Tasks, AskSteps
<1>7. /\ resumed' = [resumed EXCEPT ![envelope] = @ + 1]
      /\ EnqueueTask(task)
      /\ UNCHANGED <<at, requests, answers, unlogged, logged, receipts, content>>
  BY <1>1, <1>3, <1>5 DEF ResumeRequest
<1>8. /\ resumed' \in [Envelopes -> Nat] /\ resumed'[envelope] = number
      /\ \A other \in Envelopes : other # envelope => resumed'[other] = resumed[other]
  BY <1>2, <1>3, <1>4, <1>7 DEF ListenerInv, RequestInv, StateTypes
<1>9. \A other \in Live : ~SameTask(task, other)
  BY <1>3, <1>4, <1>6 DEF ListenerInv, RequestInv, TasksTrue, IsTrue, SameTask
<1>10. QueueInv' /\ Live' = Live \cup {task}
  BY <1>6, <1>7, <1>9, EnqueueServes DEF ListenerInv
<1>11. StateTypes'
  BY <1>2, <1>7, <1>8 DEF ListenerInv, RequestInv, StateTypes
<1>12. TasksTrue'
  <2>1. \A other \in Live : other.of \in Envelopes /\ other.no \in Nat
    BY LiveAreTasks DEF ListenerInv, Tasks
  <2>2. \A other \in Live : IsTrue(other)'
    BY <1>3, <1>4, <1>7, <1>8, <2>1 DEF ListenerInv, RequestInv, TasksTrue, IsTrue, StateTypes
  <2>3. IsTrue(task)'
    BY <1>2, <1>3, <1>4, <1>6, <1>7, <1>8 DEF IsTrue
  <2>4. QED BY <1>10, <2>2, <2>3 DEF TasksTrue
<1>13. RequestsPlaced'
  BY <1>2, <1>7 DEF ListenerInv, RequestInv, RequestsPlaced
<1>14. AnswersFit'
  <2> SUFFICES ASSUME NEW other \in Envelopes
               PROVE  answers[other] + Cardinality(Unsent(other)') <= 1 + resumed'[other]
    BY <1>7 DEF AnswersFit
  <2>1. /\ answers[other] \in Nat /\ resumed[other] \in Nat
        /\ IsFiniteSet(Unsent(other)) /\ Cardinality(Unsent(other)) \in Nat
        /\ answers[other] + Cardinality(Unsent(other)) <= 1 + resumed[other]
    BY UnsentFinite DEF ListenerInv, RequestInv, StateTypes, AnswersFit
  <2>2. CASE other # envelope
    <3>1. Unsent(other)' \subseteq Unsent(other)
      BY <1>6, <1>7, <1>8, <1>10, <2>2 DEF Unsent
    <3>2. /\ Cardinality(Unsent(other)') <= Cardinality(Unsent(other))
          /\ Cardinality(Unsent(other)') \in Nat
      BY <2>1, <3>1, FS_Subset, FS_CardinalityType
    <3>3. QED BY <1>8, <2>1, <2>2, <3>2
  <2>3. CASE other = envelope
    <3>1. Unsent(other)' \subseteq Unsent(other) \cup {number}
      <4>1. ASSUME NEW no \in Unsent(other)', no # number
            PROVE  no \in Unsent(other)
        <5>1. no \in 0 .. resumed[other]
          BY <1>3, <1>4, <1>8, <2>3, <4>1 DEF Unsent
        <5>2. QED BY <1>6, <1>7, <1>10, <4>1, <5>1 DEF Unsent
      <4>2. QED BY <4>1
    <3>2. /\ IsFiniteSet(Unsent(other) \cup {number})
          /\ Cardinality(Unsent(other) \cup {number}) <= Cardinality(Unsent(other)) + 1
      BY <2>1, FS_AddElement
    <3>3. /\ Cardinality(Unsent(other)') <= Cardinality(Unsent(other) \cup {number})
          /\ Cardinality(Unsent(other)') \in Nat
          /\ Cardinality(Unsent(other) \cup {number}) \in Nat
      BY <3>1, <3>2, FS_Subset, FS_CardinalityType
    <3>4. QED BY <1>3, <1>8, <2>1, <2>3, <3>2, <3>3
  <2>4. QED BY <2>2, <2>3
<1>15. LogsFit'
  <2>1. \A other \in Envelopes : GoesOn(other)' => GoesOn(other)
    BY <1>7 DEF GoesOn
  <2>2. QED BY <1>7, <2>1, LogsStayFit DEF ListenerInv, RequestInv
<1>16. EchoesPlaced' /\ ReceiptMeansLogged' /\ LoopsPrevented'
  BY <1>7, IgnoredStay DEF ListenerInv
<1>17. QED
  BY <1>10, <1>11, <1>12, <1>13, <1>14, <1>15, <1>16 DEF ListenerInv, RequestInv

\* What leaves tasks, requests and handlers alone.
LEMMA OthersKeep ==
    ASSUME ListenerInv,
           UNCHANGED <<at, requests, answers, resumed, unlogged, logged, receipts, content,
                       taskQueue, active>>,
           remaining' \in {remaining, <<>>}
    PROVE  ListenerInv'
<1>1. QueueInv' /\ Live' = Live
  BY DEF ListenerInv, QueueInv, QueueServed, Live
<1>2. Lasts /\ TasksFollow
  BY <1>1 DEF Lasts, TasksFollow, GoesOnFrom, SameTask
<1>3. TasksTrue' /\ AnswersFit'
  BY <1>2, TasksStayTrue, AnswersStayFit DEF ListenerInv, RequestInv
<1>4. LogsFit'
  <2>1. \A envelope \in Envelopes : GoesOn(envelope)' => GoesOn(envelope)
    BY DEF GoesOn
  <2>2. QED BY <2>1, LogsStayFit DEF ListenerInv, RequestInv
<1>5. StateTypes' /\ RequestsPlaced'
  <2>1. remaining' \in Seq(Envelopes)
    <3>1. remaining \in Seq(Envelopes) /\ <<>> \in Seq(Envelopes)
      BY DEF ListenerInv, RequestInv, StateTypes
    <3>2. QED BY <3>1
  <2>2. \A i \in DOMAIN remaining' : requests[remaining'[i]] # "none"
    BY DEF ListenerInv, RequestInv, RequestsPlaced
  <2>3. QED BY <2>1, <2>2 DEF ListenerInv, RequestInv, StateTypes, RequestsPlaced
<1>6. EchoesPlaced' /\ ReceiptMeansLogged' /\ LoopsPrevented'
  BY IgnoredStay DEF ListenerInv
<1>7. QED BY <1>1, <1>3, <1>4, <1>5, <1>6 DEF ListenerInv, RequestInv

\* A restart ends the handlers and forgets the tasks.
LEMMA CrashKeeps ==
    ASSUME ListenerInv, Crash
    PROVE  ListenerInv'
<1> USE DEF groups, database, sent
<1>1. /\ at' = [envelope \in Envelopes |-> IF at[envelope] = "none" THEN "none" ELSE "done"]
      /\ taskQueue' = <<>> /\ active' = {} /\ remaining' = <<>>
      /\ UNCHANGED <<requests, answers, resumed, unlogged, logged, receipts, content>>
  BY DEF Crash
<1>2. QueueInv'
  <2>1. IsFiniteSet({}) /\ Cardinality({}) = 0
    BY FS_EmptySet
  <2>2. QED BY <1>1, <2>1, ListenerAssumption DEF QueueInv, QueueServed, Distinct
<1>3. Live' = {}
  BY <1>1 DEF Live, Elements
<1>4. Lasts /\ TasksFollow
  BY <1>1, <1>3 DEF Lasts, TasksFollow
<1>5. TasksTrue' /\ AnswersFit'
  BY <1>1, <1>4, TasksStayTrue, AnswersStayFit DEF ListenerInv, RequestInv
<1>6. StateTypes' /\ RequestsPlaced'
  BY <1>1 DEF ListenerInv, RequestInv, StateTypes, RequestsPlaced, Places
<1>7. LogsFit'
  <2>1. \A envelope \in Envelopes : GoesOn(envelope)' => GoesOn(envelope)
    BY <1>1 DEF GoesOn
  <2>2. QED BY <1>1, <2>1, LogsStayFit DEF ListenerInv, RequestInv
<1>8. EchoesPlaced' /\ ReceiptMeansLogged' /\ LoopsPrevented'
  <2>1. \A envelope \in Envelopes : at'[envelope] # "echo"
    BY <1>1
  <2>2. QED BY <1>1, <2>1, IgnoredStay DEF ListenerInv
<1>9. QED BY <1>2, <1>5, <1>6, <1>7, <1>8 DEF ListenerInv, RequestInv

LEMMA StepKeeps ==
    ASSUME ListenerInv, [Next]_vars
    PROVE  ListenerInv'
<1> USE DEF intake, recovery, tasks, groups, database, sent, fixed
<1>1. ASSUME NEW envelope \in Envelopes, OnEnvelope(envelope)
      PROVE  ListenerInv'
  BY <1>1, HandlersMoveOn
<1>2. ASSUME NEW envelope \in Envelopes, HandleEnvelope(envelope)
      PROVE  ListenerInv'
  BY <1>2, HandlersMoveOn, LogMessageKeeps, HandlersStore DEF HandleEnvelope
<1>3. ASSUME NEW task \in active, RunTask(task)
      PROVE  ListenerInv'
  BY <1>3, TasksKeep
<1>4. CASE DrainQueue
  <2>1. CASE Envelopes = {}
    <3>1. at' = at
      BY <1>4, <2>1 DEF DrainQueue, Goes, ListenerInv, RequestInv, StateTypes
    <3>2. QED BY <1>4, <3>1, OthersKeep DEF DrainQueue, IntakeOnly
  <2>2. QED BY <1>4, <2>1, HandlersMoveOn
<1>5. CASE CspReady
  BY <1>5, OthersKeep DEF CspReady, IntakeOnly
<1>6. CASE EndDrain
  BY <1>6, OthersKeep DEF EndDrain
<1>7. CASE Start
  BY <1>7, OthersKeep DEF Start
<1>8. CASE Resume
  BY <1>8, ResumeRequestsKeeps, ResumeRequestKeeps, OthersKeep
  DEF Resume, ResumeFails, ResumeEnds, ResumeOnly
<1>9. CASE Crash
  BY <1>9, CrashKeeps
<1>10. CASE UNCHANGED vars
  BY <1>10, OthersKeep DEF vars
<1>11. QED
  BY <1>1, <1>2, <1>3, <1>4, <1>5, <1>6, <1>7, <1>8, <1>9, <1>10 DEF Next, Progress

\* What is invariant of the listener, whatever it is asked and however it fails.
THEOREM ListenerInvariant == Spec => []ListenerInv
BY InitHolds, StepKeeps, PTL DEF Spec

-----------------------------------------------------------------------------
(* The properties.                                                         *)

\* Never more than MAX_CONCURRENCY tasks run, and none waits while fewer do, for
\* any number of tasks and places (processQueue).
THEOREM TasksAreServed == Spec => []QueueServed
<1>1. ListenerInv => QueueServed
  BY DEF ListenerInv, QueueInv
<1>2. QED BY <1>1, ListenerInvariant, PTL

\* Of the deliveries of a message one was logged and went on, the others are those
\* whose message could not be logged.
LEMMA AskedOnceHolds == ListenerInv => AskedOnce
<1> SUFFICES ASSUME ListenerInv PROVE AskedOnce
  OBVIOUS
<1>1. ASSUME NEW message \in Messages,
             NEW deliveries, deliveries = {envelope \in Envelopes : Message(envelope) = message}
      PROVE  Cardinality({envelope \in deliveries : requests[envelope] # "none"})
                 <= 1 + Cardinality(deliveries \cap unlogged)
  <2> DEFINE asked == {envelope \in deliveries : requests[envelope] # "none"}
             lost == deliveries \cap unlogged
             handled == asked \ unlogged
  <2>1. lost \in SUBSET Envelopes /\ handled \in SUBSET Envelopes /\ asked \in SUBSET Envelopes
    BY <1>1
  <2>2. IsFiniteSet(lost) /\ IsFiniteSet(handled) /\ IsFiniteSet(asked)
    BY <2>1, ListenerAssumption, FS_Subset
  <2>3. \A e1 \in handled : \A e2 \in handled : e1 = e2
    BY <1>1 DEF ListenerInv, RequestInv, LogsFit, GoesOn
  <2>4. Cardinality(handled) <= 1
    <3>1. CASE handled = {}
      BY <3>1, FS_EmptySet
    <3>2. CASE handled # {}
      <4>1. PICK e \in handled : TRUE
        BY <3>2
      <4>2. handled = {e}
        BY <2>3, <4>1
      <4>3. QED BY <4>2, FS_Singleton
    <3>3. QED BY <3>1, <3>2
  <2>5. asked \in SUBSET (handled \cup lost)
    OBVIOUS
  <2> HIDE DEF asked, lost, handled
  <2>6. /\ IsFiniteSet(handled \cup lost)
        /\ Cardinality(handled \cup lost)
               = Cardinality(handled) + Cardinality(lost) - Cardinality(handled \cap lost)
    BY <2>2, FS_Union
  <2>7. handled \cap lost \in SUBSET lost
    OBVIOUS
  <2>8. /\ Cardinality(handled) \in Nat /\ Cardinality(lost) \in Nat
        /\ Cardinality(handled \cap lost) \in Nat /\ Cardinality(asked) \in Nat
    BY <2>2, <2>7, FS_Subset, FS_CardinalityType
  <2>9. Cardinality(asked) <= Cardinality(handled \cup lost)
    BY <2>5, <2>6, FS_Subset
  <2>10. Cardinality(asked) <= 1 + Cardinality(lost)
    BY <2>4, <2>6, <2>8, <2>9
  <2>11. QED BY <2>10 DEF asked, lost
<1>2. ASSUME NEW envelope \in Envelopes
      PROVE  answers[envelope] <= 1 + resumed[envelope]
  <2>1. /\ answers[envelope] \in Nat /\ resumed[envelope] \in Nat
        /\ Cardinality(Unsent(envelope)) \in Nat
        /\ answers[envelope] + Cardinality(Unsent(envelope)) <= 1 + resumed[envelope]
    BY UnsentFinite DEF ListenerInv, RequestInv, StateTypes, AnswersFit
  <2>2. QED BY <2>1
<1>3. QED BY <1>1, <1>2 DEF AskedOnce

\* Delivering a message again is safe, for any number of deliveries, restarts and
\* failures of the database: a receipt is only sent for what is logged or comes from
\* ECHOECHO, which is not answered, and only a failure to log it, or resumeRequests,
\* has a message asked again.
THEOREM RedeliveriesAreSafe == Spec => []RedeliverySafe
<1>1. ListenerInv => RedeliverySafe
  BY AskedOnceHolds DEF ListenerInv, RequestInv, RedeliverySafe
<1>2. QED BY <1>1, ListenerInvariant, PTL

-----------------------------------------------------------------------------
(***************************************************************************)
(* Messages from one client to the other, MessageExchange, for any         *)
(* identities, texts, coordinates, padding and number of messages and of   *)
(* lost connections, as long as what is sent can be understood (Legible).  *)
(*                                                                         *)
(* First, what is encoded is decoded as it was meant: each kind of body,   *)
(* the header of a group, the padding, the metadata with the nickname.     *)
(* Then, the server delivers what it holds in order, and again until it is *)
(* acknowledged, but nothing older than what was handed on is new to the   *)
(* receiver.  So what it adds to the conversation is one more message, and *)
(* the last: the order, the receipts and the nickname follow from that.    *)
(***************************************************************************)
\* Every non-empty set of numbers has a least element: the strict subsets of finite
\* sets are well-founded, and a number is one with the set of those up to it.
LEMMA Least ==
    ASSUME NEW N \in SUBSET Nat, N # {}
    PROVE  \E m \in N : \A n \in N : m <= n
<1> DEFINE T == {0 .. n : n \in N}
<1>1. IsWellFoundedOn(StrictSubsetOrdering(Nat), FiniteSubsetsOf(Nat))
  BY FS_StrictSubsetOrderingWellFounded
<1>2. T \subseteq FiniteSubsetsOf(Nat)
  <2>1. \A n \in N : IsFiniteSet(0 .. n) /\ 0 .. n \in SUBSET Nat
    BY FS_Interval
  <2>2. QED
    BY <2>1 DEF FiniteSubsetsOf
<1>3. T # {}
  OBVIOUS
<1> HIDE DEF T
<1>4. PICK x \in T : \A y \in T : ~(<<y, x>> \in StrictSubsetOrdering(Nat))
  BY <1>1, <1>2, <1>3, WFMin
<1>5. PICK m \in N : x = 0 .. m
  BY DEF T
<1>6. ASSUME NEW n \in N, n < m
      PROVE  FALSE
  <2>1. 0 .. n \in T
    BY DEF T
  <2>2. 0 .. n \subseteq 0 .. m /\ m \notin 0 .. n /\ m \in 0 .. m
    BY <1>6
  <2>3. <<0 .. n, 0 .. m>> \in StrictSubsetOrdering(Nat)
    BY <2>2 DEF StrictSubsetOrdering
  <2>4. QED
    BY <1>4, <1>5, <2>1, <2>3
<1>7. QED
  BY <1>6

\* Induction: a set that holds 0 and with a number below n the next one holds all
\* numbers up to n.
LEMMA UpTo ==
    ASSUME NEW n \in Nat, NEW S,
           0 \in S,
           \A i \in 0 .. n - 1 : i \in S => i + 1 \in S
    PROVE  0 .. n \subseteq S
<1> SUFFICES ASSUME NEW bad \in 0 .. n, bad \notin S
             PROVE  FALSE
  OBVIOUS
<1> DEFINE N == {i \in 0 .. n : i \notin S}
<1>1. N \in SUBSET Nat /\ N # {}
  OBVIOUS
<1> HIDE DEF N
<1>2. PICK m \in N : \A k \in N : m <= k
  BY <1>1, Least
<1>3. m \in 0 .. n /\ m \notin S /\ m # 0
  BY <1>2 DEF N
<1>4. m - 1 \in S
  BY <1>2, <1>3 DEF N
<1>5. QED
  BY <1>3, <1>4

-----------------------------------------------------------------------------
(* Sequences                                                               *)

\* A sequence is one of its elements.
LEMMA SequenceOfElements ==
    ASSUME NEW S, NEW s \in Seq(S)
    PROVE  IsSequence(s) /\ ToSet(s) \subseteq S /\ ToSet(s) = {s[i] : i \in 1 .. Len(s)}
<1>1. Len(s) \in Nat /\ s = [i \in 1 .. Len(s) |-> s[i]] /\ DOMAIN s = 1 .. Len(s)
  OBVIOUS
<1>2. \A i \in 1 .. Len(s) : s[i] \in ToSet(s)
  BY <1>1 DEF ToSet
<1>3. [i \in 1 .. Len(s) |-> s[i]] \in Seq(ToSet(s))
  BY <1>1, <1>2, IsASeq
<1>4. IsSequence(s)
  BY <1>1, <1>3 DEF IsSequence
<1>5. ToSet(s) \subseteq S
  BY DEF ToSet
<1>6. QED
  BY <1>1, <1>4, <1>5 DEF ToSet

\* The first elements of a concatenation, and those behind.
LEMMA Parts ==
    ASSUME NEW S, NEW s \in Seq(S), NEW t \in Seq(S)
    PROVE  /\ SubSeq(s \o t, 1, Len(s)) = s
           /\ SubSeq(s \o t, Len(s) + 1, Len(s) + Len(t)) = t
<1>1. /\ s \o t \in Seq(S)
      /\ Len(s \o t) = Len(s) + Len(t)
      /\ \A i \in 1 .. Len(s) + Len(t) : (s \o t)[i] =
             IF i <= Len(s) THEN s[i] ELSE t[i - Len(s)]
  BY ConcatProperties
<1>2. Len(s) \in Nat /\ Len(t) \in Nat
  OBVIOUS
<1>3. SubSeq(s \o t, 1, Len(s)) = s
  <2> DEFINE u == SubSeq(s \o t, 1, Len(s))
  <2>1. \A i \in 1 .. Len(s) : (s \o t)[i] \in S
    BY <1>1, <1>2
  <2>2. /\ u \in Seq(S) /\ Len(u) = Len(s)
        /\ \A i \in 1 .. Len(s) : u[i] = (s \o t)[i]
    BY <1>2, <2>1, SubSeqProperties
  <2> HIDE DEF u
  <2>3. \A i \in 1 .. Len(s) : u[i] = s[i]
    BY <1>1, <1>2, <2>2
  <2>4. u = s
    BY <2>2, <2>3, SeqEqual
  <2>5. QED
    BY <2>4 DEF u
<1>4. SubSeq(s \o t, Len(s) + 1, Len(s) + Len(t)) = t
  <2> DEFINE u == SubSeq(s \o t, Len(s) + 1, Len(s) + Len(t))
  <2>1. \A i \in Len(s) + 1 .. Len(s) + Len(t) : (s \o t)[i] \in S
    BY <1>1, <1>2
  <2>2. /\ u \in Seq(S)
        /\ Len(u) = IF Len(s) + 1 <= Len(s) + Len(t)
                    THEN (Len(s) + Len(t)) - (Len(s) + 1) + 1 ELSE 0
        /\ \A i \in 1 .. (Len(s) + Len(t)) - (Len(s) + 1) + 1 :
               u[i] = (s \o t)[(Len(s) + 1) + i - 1]
    BY <1>2, <2>1, SubSeqProperties
  <2> HIDE DEF u
  <2>3. Len(u) = Len(t)
    BY <1>2, <2>2
  <2>4. \A i \in 1 .. Len(t) : u[i] = t[i]
    BY <1>1, <1>2, <2>2
  <2>5. u = t
    BY <2>2, <2>3, <2>4, SeqEqual
  <2>6. QED
    BY <2>5 DEF u
<1>5. QED
  BY <1>3, <1>4

\* What follows the first elements.
LEMMA RestFollows ==
    ASSUME NEW S, NEW s \in Seq(S), NEW t \in Seq(S)
    PROVE  Rest(s \o t, Len(s)) = t
<1>1. Len(s \o t) = Len(s) + Len(t)
  BY ConcatProperties
<1>2. QED
  BY <1>1, Parts DEF Rest

\* The elements of a concatenation.
LEMMA ElementsJoin ==
    ASSUME NEW S, NEW s \in Seq(S), NEW t \in Seq(S)
    PROVE  ToSet(s \o t) = ToSet(s) \cup ToSet(t)
<1>1. /\ s \o t \in Seq(S)
      /\ Len(s \o t) = Len(s) + Len(t)
      /\ \A i \in 1 .. Len(s) + Len(t) : (s \o t)[i] =
             IF i <= Len(s) THEN s[i] ELSE t[i - Len(s)]
  BY ConcatProperties
<1>2. Len(s) \in Nat /\ Len(t) \in Nat
  OBVIOUS
<1>3. /\ ToSet(s) = {s[i] : i \in 1 .. Len(s)}
      /\ ToSet(t) = {t[i] : i \in 1 .. Len(t)}
      /\ ToSet(s \o t) = {(s \o t)[i] : i \in 1 .. Len(s) + Len(t)}
  BY <1>1, SequenceOfElements
<1>4. ASSUME NEW x \in ToSet(s)
      PROVE  x \in ToSet(s \o t)
  BY <1>1, <1>2, <1>3
<1>5. ASSUME NEW x \in ToSet(t)
      PROVE  x \in ToSet(s \o t)
  <2>1. PICK i \in 1 .. Len(t) : x = t[i]
    BY <1>3
  <2>2. Len(s) + i \in 1 .. Len(s) + Len(t) /\ (s \o t)[Len(s) + i] = t[i]
    BY <1>1, <1>2
  <2>3. QED
    BY <1>3, <2>1, <2>2
<1>6. ASSUME NEW x \in ToSet(s \o t)
      PROVE  x \in ToSet(s) \cup ToSet(t)
  BY <1>1, <1>2, <1>3
<1>7. QED
  BY <1>4, <1>5, <1>6

\* Tuples are sequences.
LEMMA TuplesOf ==
    ASSUME NEW S, NEW a \in S, NEW b \in S, NEW c \in S
    PROVE  <<a>> \in Seq(S) /\ <<a, b>> \in Seq(S) /\ <<a, b, c>> \in Seq(S)
  OBVIOUS

\* They can be joined.
LEMMA JoinTwo ==
    ASSUME NEW a, NEW b
    PROVE  <<a>> \o <<b>> = <<a, b>>
<1> DEFINE S == {a, b}
           s == <<a>>
           t == <<b>>
           u == <<a, b>>
<1>1. s \in Seq(S) /\ t \in Seq(S) /\ u \in Seq(S) /\ Len(s) = 1 /\ Len(t) = 1 /\ Len(u) = 2
  OBVIOUS
<1>2. /\ s \o t \in Seq(S) /\ Len(s \o t) = 1 + 1
      /\ \A i \in 1 .. 1 + 1 : (s \o t)[i] = IF i <= 1 THEN s[i] ELSE t[i - 1]
  BY <1>1, ConcatProperties
<1>3. \A i \in 1 .. 2 : (s \o t)[i] = u[i]
  BY <1>2
<1> HIDE DEF s, t, u, S
<1>4. Len(s \o t) = Len(u)
  BY <1>1, <1>2
<1>5. s \o t = u
  BY <1>1, <1>2, <1>3, <1>4, SeqEqual
<1>6. QED
  BY <1>5 DEF s, t, u

LEMMA JoinThree ==
    ASSUME NEW a, NEW b, NEW c
    PROVE  <<a>> \o <<b, c>> = <<a, b, c>>
<1> DEFINE S == {a, b, c}
           s == <<a>>
           t == <<b, c>>
           u == <<a, b, c>>
<1>1. s \in Seq(S) /\ t \in Seq(S) /\ u \in Seq(S) /\ Len(s) = 1 /\ Len(t) = 2 /\ Len(u) = 3
  OBVIOUS
<1>2. /\ s \o t \in Seq(S) /\ Len(s \o t) = 1 + 2
      /\ \A i \in 1 .. 1 + 2 : (s \o t)[i] = IF i <= 1 THEN s[i] ELSE t[i - 1]
  BY <1>1, ConcatProperties
<1>3. \A i \in 1 .. 3 : (s \o t)[i] = u[i]
  BY <1>2
<1> HIDE DEF s, t, u, S
<1>4. Len(s \o t) = Len(u)
  BY <1>1, <1>2
<1>5. s \o t = u
  BY <1>1, <1>2, <1>3, <1>4, SeqEqual
<1>6. QED
  BY <1>5 DEF s, t, u

LEMMA JoinFour ==
    ASSUME NEW a, NEW b, NEW c, NEW d
    PROVE  <<a>> \o <<b, c, d>> = <<a, b, c, d>>
<1> DEFINE S == {a, b, c, d}
           s == <<a>>
           t == <<b, c, d>>
           u == <<a, b, c, d>>
<1>1. s \in Seq(S) /\ t \in Seq(S) /\ u \in Seq(S) /\ Len(s) = 1 /\ Len(t) = 3 /\ Len(u) = 4
  OBVIOUS
<1>2. /\ s \o t \in Seq(S) /\ Len(s \o t) = 1 + 3
      /\ \A i \in 1 .. 1 + 3 : (s \o t)[i] = IF i <= 1 THEN s[i] ELSE t[i - 1]
  BY <1>1, ConcatProperties
<1>3. \A i \in 1 .. 4 : (s \o t)[i] = u[i]
  BY <1>2
<1> HIDE DEF s, t, u, S
<1>4. Len(s \o t) = Len(u)
  BY <1>1, <1>2
<1>5. s \o t = u
  BY <1>1, <1>2, <1>3, <1>4, SeqEqual
<1>6. QED
  BY <1>5 DEF s, t, u

LEMMA JoinFive ==
    ASSUME NEW a, NEW b, NEW c, NEW d, NEW e
    PROVE  <<a>> \o <<b, c, d, e>> = <<a, b, c, d, e>>
<1> DEFINE S == {a, b, c, d, e}
           s == <<a>>
           t == <<b, c, d, e>>
           u == <<a, b, c, d, e>>
<1>1. s \in Seq(S) /\ t \in Seq(S) /\ u \in Seq(S) /\ Len(s) = 1 /\ Len(t) = 4 /\ Len(u) = 5
  OBVIOUS
<1>2. /\ s \o t \in Seq(S) /\ Len(s \o t) = 1 + 4
      /\ \A i \in 1 .. 1 + 4 : (s \o t)[i] = IF i <= 1 THEN s[i] ELSE t[i - 1]
  BY <1>1, ConcatProperties
<1>3. \A i \in 1 .. 5 : (s \o t)[i] = u[i]
  BY <1>2
<1> HIDE DEF s, t, u, S
<1>4. Len(s \o t) = Len(u)
  BY <1>1, <1>2
<1>5. s \o t = u
  BY <1>1, <1>2, <1>3, <1>4, SeqEqual
<1>6. QED
  BY <1>5 DEF s, t, u

LEMMA JoinCoordinates ==
    ASSUME NEW a, NEW b, NEW c, NEW d, NEW e
    PROVE  <<a, b, c>> \o <<d, e>> = <<a, b, c, d, e>>
<1> DEFINE S == {a, b, c, d, e}
           s == <<a, b, c>>
           t == <<d, e>>
           u == <<a, b, c, d, e>>
<1>1. s \in Seq(S) /\ t \in Seq(S) /\ u \in Seq(S) /\ Len(s) = 3 /\ Len(t) = 2 /\ Len(u) = 5
  OBVIOUS
<1>2. /\ s \o t \in Seq(S) /\ Len(s \o t) = 3 + 2
      /\ \A i \in 1 .. 3 + 2 : (s \o t)[i] = IF i <= 3 THEN s[i] ELSE t[i - 3]
  BY <1>1, ConcatProperties
<1>3. \A i \in 1 .. 5 : (s \o t)[i] = u[i]
  BY <1>2
<1> HIDE DEF s, t, u, S
<1>4. Len(s \o t) = Len(u)
  BY <1>1, <1>2
<1>5. s \o t = u
  BY <1>1, <1>2, <1>3, <1>4, SeqEqual
<1>6. QED
  BY <1>5 DEF s, t, u

-----------------------------------------------------------------------------
(* Split                                                                   *)

\* Where the part that starts at an index ends, and the parts from each index on: the
\* recursion of Split.
Separators(s, separator, from) == {i \in from .. Len(s) : s[i] = separator} \cup {Len(s) + 1}
EndOf(s, separator, from) == Min(Separators(s, separator, from))

PartsFrom(s, separator, parts, from) ==
    IF from = Len(s) + 2 THEN <<>>
    ELSE <<SubSeq(s, from, EndOf(s, separator, from) - 1)>> \o parts[EndOf(s, separator, from) + 1]
PartsOf(s, separator, first, parts) ==
    parts = [from \in first .. Len(s) + 2 |-> PartsFrom(s, separator, parts, from)]

\* The least element of a set of numbers.
LEMMA MinIs ==
    ASSUME NEW N \in SUBSET Nat, NEW m \in N, \A n \in N : m <= n
    PROVE  Min(N) = m
<1>1. \E x \in N : \A y \in N : x <= y
  OBVIOUS
<1>2. Min(N) \in N /\ \A y \in N : Min(N) <= y
  BY <1>1 DEF Min
<1>3. m \in Nat /\ Min(N) \in Nat /\ m <= Min(N) /\ Min(N) <= m
  BY <1>2
<1> HIDE DEF Min
<1>4. QED
  BY <1>3

\* It exists.
LEMMA MinExists ==
    ASSUME NEW N \in SUBSET Nat, N # {}
    PROVE  Min(N) \in N /\ \A n \in N : Min(N) <= n
<1>1. PICK m \in N : \A n \in N : m <= n
  BY Least
<1>2. QED
  BY <1>1, MinIs

\* A part ends at the first separator, or with the sequence.
LEMMA EndOfPart ==
    ASSUME NEW S, NEW s \in Seq(S), NEW separator, NEW from \in 1 .. Len(s) + 1
    PROVE  /\ EndOf(s, separator, from) \in from .. Len(s) + 1
           /\ EndOf(s, separator, from) <= Len(s) => s[EndOf(s, separator, from)] = separator
           /\ \A i \in from .. EndOf(s, separator, from) - 1 : s[i] # separator
<1> DEFINE N == Separators(s, separator, from)
<1>1. Len(s) \in Nat
  OBVIOUS
<1>2. N \in SUBSET Nat /\ N # {} /\ N \subseteq from .. Len(s) + 1
  BY <1>1 DEF Separators
<1>3. Min(N) \in N /\ \A n \in N : Min(N) <= n
  BY <1>2, MinExists
<1>4. Min(N) <= Len(s) => s[Min(N)] = separator
  BY <1>1, <1>3 DEF Separators
<1>5. ASSUME NEW i \in from .. Min(N) - 1, s[i] = separator
      PROVE  FALSE
  <2>1. Min(N) \in from .. Len(s) + 1
    BY <1>2, <1>3
  <2> HIDE DEF N
  <2>2. i \in from .. Len(s) /\ i < Min(N)
    BY <1>1, <2>1
  <2>3. i \in N
    BY <1>5, <2>2 DEF N, Separators
  <2>4. QED
    BY <1>3, <2>1, <2>2, <2>3
<1> HIDE DEF N
<1>6. Min(N) \in from .. Len(s) + 1
  BY <1>2, <1>3
<1>7. QED
  BY <1>4, <1>5, <1>6 DEF EndOf, N

\* That determines the end.
LEMMA EndOfIs ==
    ASSUME NEW S, NEW s \in Seq(S), NEW separator, NEW from \in 1 .. Len(s) + 1,
           NEW end \in from .. Len(s) + 1,
           end <= Len(s) => s[end] = separator,
           \A i \in from .. end - 1 : s[i] # separator
    PROVE  EndOf(s, separator, from) = end
<1>1. Len(s) \in Nat
  OBVIOUS
<1>2. Separators(s, separator, from) \in SUBSET Nat /\ end \in Separators(s, separator, from)
  BY <1>1 DEF Separators
<1>3. \A n \in Separators(s, separator, from) : end <= n
  BY <1>1 DEF Separators
<1>4. QED
  BY <1>2, <1>3, MinIs DEF EndOf

\* The recursion behind Split has a solution.
LEMMA SplitIsDefined ==
    ASSUME NEW S, NEW s \in Seq(S), NEW separator
    PROVE  \E parts :
               /\ Split(s, separator) = parts[1]
               /\ \A from \in 1 .. Len(s) + 2 : parts[from] = PartsFrom(s, separator, parts, from)
<1> DEFINE L == Len(s)
           H == {k \in 0 .. L + 1 : \E parts : PartsOf(s, separator, (L + 2) - k, parts)}
<1>1. L \in Nat
  OBVIOUS
<1>2. 0 \in H
  <2>1. PartsOf(s, separator, L + 2, [from \in L + 2 .. L + 2 |-> <<>>])
    BY <1>1 DEF PartsOf, PartsFrom
  <2>2. (L + 2) - 0 = L + 2
    BY <1>1
  <2> HIDE DEF L
  <2>3. QED
    BY <1>1, <2>1, <2>2
<1>3. ASSUME NEW k \in 0 .. (L + 1) - 1, k \in H
      PROVE  k + 1 \in H
  <2> DEFINE f == (L + 2) - k
             low == f - 1
             end == EndOf(s, separator, low)
  <2>1. PICK parts : PartsOf(s, separator, f, parts)
    BY <1>3
  <2>2. low \in 1 .. L + 1 /\ f = low + 1 /\ f \in 2 .. L + 2
    BY <1>1
  <2>3. end \in low .. L + 1
    BY <2>2, EndOfPart
  <2> DEFINE next == <<SubSeq(s, low, end - 1)>> \o parts[end + 1]
             longer == [from \in low .. L + 2 |-> IF from = low THEN next ELSE parts[from]]
  <2>4. \A from \in f .. L + 2 : parts[from] = PartsFrom(s, separator, parts, from)
    BY <2>1 DEF PartsOf
  <2> HIDE DEF end, L, next, f
  <2>5. \A from \in f .. L + 2 : longer[from] = parts[from]
    BY <1>1, <2>2
  <2>6. ASSUME NEW from \in low .. L + 2
        PROVE  longer[from] = PartsFrom(s, separator, longer, from)
    <3>1. CASE from = low
      <4>1. from # L + 2 /\ end + 1 \in f .. L + 2
        BY <1>1, <2>2, <2>3, <3>1
      <4>2. longer[end + 1] = parts[end + 1] /\ longer[low] = next
        BY <1>1, <2>2, <2>5, <4>1
      <4> HIDE DEF longer
      <4>3. longer[low] = <<SubSeq(s, low, end - 1)>> \o longer[end + 1]
        BY <4>2 DEF next
      <4>4. QED
        BY <3>1, <4>1, <4>3 DEF PartsFrom, end, L
    <3>2. CASE from # low
      <4>1. from \in f .. L + 2
        BY <1>1, <2>2, <3>2
      <4>2. longer[from] = parts[from] /\ parts[from] = PartsFrom(s, separator, parts, from)
        BY <2>4, <2>5, <4>1
      <4>3. CASE from = L + 2
        BY <4>2, <4>3 DEF PartsFrom, L
      <4>4. CASE from # L + 2
        <5>1. from \in 1 .. L + 1
          BY <1>1, <2>2, <4>1, <4>4
        <5>2. EndOf(s, separator, from) \in from .. L + 1
          BY <5>1, EndOfPart DEF L
        <5>3. EndOf(s, separator, from) + 1 \in f .. L + 2
          BY <1>1, <2>2, <4>1, <5>2
        <5>4. longer[EndOf(s, separator, from) + 1] = parts[EndOf(s, separator, from) + 1]
          BY <2>5, <5>3
        <5> HIDE DEF longer
        <5>5. QED
          BY <4>2, <4>4, <5>4 DEF PartsFrom, L
      <4>5. QED
        BY <4>3, <4>4
    <3>3. QED
      BY <3>1, <3>2
  <2>7. longer = [from \in low .. L + 2 |-> longer[from]]
    OBVIOUS
  <2>8. (L + 2) - (k + 1) = low /\ k + 1 \in 0 .. L + 1
    BY <1>1 DEF f
  <2> HIDE DEF longer, low
  <2>9. PartsOf(s, separator, low, longer)
    BY <2>6, <2>7 DEF PartsOf, L
  <2>10. QED
    BY <2>8, <2>9
<1>4. L + 1 \in Nat
  BY <1>1
<1> HIDE DEF H
<1>5. 0 .. L + 1 \subseteq H
  BY <1>2, <1>3, <1>4, UpTo
<1>6. L + 1 \in H /\ (L + 2) - (L + 1) = 1
  BY <1>1, <1>5
<1>7. \E parts : PartsOf(s, separator, 1, parts)
  BY <1>6 DEF H
<1> DEFINE parts == CHOOSE parts : PartsOf(s, separator, 1, parts)
<1>8. PartsOf(s, separator, 1, parts)
  BY <1>7
<1>9. Split(s, separator) = parts[1]
  BY DEF Split, PartsOf, PartsFrom, EndOf, Separators
<1> HIDE DEF parts
<1>10. \A from \in 1 .. Len(s) + 2 : parts[from] = PartsFrom(s, separator, parts, from)
  BY <1>8 DEF PartsOf
<1>11. QED
  BY <1>9, <1>10

\* What holds no separator is one part.
LEMMA SplitAlone ==
    ASSUME NEW S, NEW s \in Seq(S), NEW separator, separator \notin ToSet(s)
    PROVE  Split(s, separator) = <<s>>
<1> DEFINE L == Len(s)
<1>1. L \in Nat /\ \A i \in 1 .. L : s[i] \in S
  OBVIOUS
<1>2. PICK parts : /\ Split(s, separator) = parts[1]
                   /\ \A from \in 1 .. L + 2 : parts[from] = PartsFrom(s, separator, parts, from)
  BY SplitIsDefined
<1>3. \A i \in 1 .. L : s[i] # separator
  BY SequenceOfElements
<1>4. EndOf(s, separator, 1) = L + 1
  BY <1>1, <1>3, EndOfIs
<1>5. /\ (L + 1) - 1 = L /\ (L + 1) + 1 = L + 2
      /\ 1 # L + 2 /\ 1 \in 1 .. L + 2 /\ L + 2 \in 1 .. L + 2
  BY <1>1
<1>6. parts[L + 2] = <<>>
  BY <1>2, <1>5 DEF PartsFrom
<1>7. parts[1] = <<SubSeq(s, 1, L)>> \o <<>>
  BY <1>2, <1>4, <1>5, <1>6 DEF PartsFrom
<1>8. SubSeq(s, 1, L) = s
  BY SubSeqFull
<1>9. <<s>> \o <<>> = <<s>>
  <2>1. <<s>> \in Seq({s})
    OBVIOUS
  <2>2. QED
    BY <2>1, ConcatEmptySeq
<1>10. QED
  BY <1>2, <1>7, <1>8, <1>9

\* What holds one is its first part, and the parts of what follows.
LEMMA SplitFirst ==
    ASSUME NEW S, NEW a \in Seq(S), NEW b \in Seq(S), NEW separator \in S,
           separator \notin ToSet(a)
    PROVE  Split(a \o (<<separator>> \o b), separator) = <<a>> \o Split(b, separator)
<1> DEFINE s == a \o (<<separator>> \o b)
           A == Len(a)
           B == Len(b)
           L == Len(s)
<1>1. A \in Nat /\ B \in Nat
  OBVIOUS
<1>2. /\ <<separator>> \o b \in Seq(S) /\ Len(<<separator>> \o b) = 1 + B
      /\ \A i \in 1 .. 1 + B : (<<separator>> \o b)[i] = IF i = 1 THEN separator ELSE b[i - 1]
  <2>1. <<separator>> \in Seq(S) /\ Len(<<separator>>) = 1 /\ <<separator>>[1] = separator
    OBVIOUS
  <2>2. /\ <<separator>> \o b \in Seq(S) /\ Len(<<separator>> \o b) = 1 + B
        /\ \A i \in 1 .. 1 + B : (<<separator>> \o b)[i] =
               IF i <= 1 THEN <<separator>>[i] ELSE b[i - 1]
    BY <2>1, ConcatProperties
  <2>3. \A i \in 1 .. 1 + B : i <= 1 <=> i = 1
    BY <1>1
  <2>4. QED
    BY <2>1, <2>2, <2>3
<1>3. /\ s \in Seq(S) /\ L = A + (1 + B)
      /\ \A i \in 1 .. A + (1 + B) :
             s[i] = IF i <= A THEN a[i] ELSE (<<separator>> \o b)[i - A]
  BY <1>2, ConcatProperties
<1>4. \A i \in 1 .. A : s[i] = a[i] /\ s[i] # separator
  BY <1>1, <1>3, SequenceOfElements
<1>5. s[A + 1] = separator
  BY <1>1, <1>2, <1>3
<1>6. \A i \in 1 .. B : s[A + 1 + i] = b[i]
  <2> TAKE i \in 1 .. B
  <2>1. A + 1 + i \in 1 .. A + (1 + B) /\ ~(A + 1 + i <= A) /\ (A + 1 + i) - A = 1 + i
    BY <1>1
  <2>2. 1 + i \in 1 .. 1 + B /\ 1 + i # 1 /\ (1 + i) - 1 = i
    BY <1>1
  <2>3. QED
    BY <1>2, <1>3, <2>1, <2>2
<1>7. SubSeq(s, 1, A) = a
  BY <1>2, Parts
<1>8. PICK parts : /\ Split(s, separator) = parts[1]
                   /\ \A from \in 1 .. L + 2 : parts[from] = PartsFrom(s, separator, parts, from)
  BY <1>3, SplitIsDefined
<1>9. PICK rest : /\ Split(b, separator) = rest[1]
                  /\ \A from \in 1 .. B + 2 : rest[from] = PartsFrom(b, separator, rest, from)
  BY SplitIsDefined
<1> HIDE DEF s, A, B, L
<1> DEFINE K == {k \in 0 .. B + 1 : \A i \in (B + 2) - k .. B + 2 : parts[A + 1 + i] = rest[i]}
<1>10. 0 \in K
  <2>1. A + 1 + (B + 2) = L + 2 /\ L + 2 \in 1 .. L + 2 /\ B + 2 \in 1 .. B + 2
    BY <1>1, <1>3
  <2>2. parts[A + 1 + (B + 2)] = <<>> /\ rest[B + 2] = <<>>
    BY <1>8, <1>9, <2>1 DEF PartsFrom, L, B
  <2>3. \A i \in (B + 2) - 0 .. B + 2 : i = B + 2
    BY <1>1
  <2>4. QED
    BY <1>1, <2>2, <2>3
<1>11. ASSUME NEW k \in 0 .. (B + 1) - 1, k \in K
       PROVE  k + 1 \in K
  <2> DEFINE i == (B + 2) - (k + 1)
             end == EndOf(b, separator, i)
  <2>1. i \in 1 .. B + 1 /\ i + 1 = (B + 2) - k /\ k + 1 \in 0 .. B + 1
    BY <1>1
  <2>2. \A j \in i + 1 .. B + 2 : parts[A + 1 + j] = rest[j]
    BY <1>11, <2>1
  <2> HIDE DEF i, K
  <2>3. /\ end \in i .. B + 1
        /\ end <= B => b[end] = separator
        /\ \A j \in i .. end - 1 : b[j] # separator
    BY <2>1, EndOfPart DEF B
  <2> HIDE DEF end
  <2>4. /\ A + 1 + i \in 1 .. L + 1
        /\ A + 1 + end \in A + 1 + i .. L + 1
        /\ A + 1 + end <= L => end <= B
    BY <1>1, <1>3, <2>1, <2>3
  <2>5. A + 1 + end <= L => s[A + 1 + end] = separator
    <3>1. end <= B => end \in 1 .. B
      BY <1>1, <2>1, <2>3
    <3>2. QED
      BY <1>6, <2>3, <2>4, <3>1
  <2>6. ASSUME NEW j \in A + 1 + i .. (A + 1 + end) - 1
        PROVE  s[j] # separator
    <3>1. j - (A + 1) \in i .. end - 1 /\ j - (A + 1) \in 1 .. B /\ j = A + 1 + (j - (A + 1))
      BY <1>1, <2>1, <2>3
    <3>2. s[j] = b[j - (A + 1)]
      BY <1>6, <3>1
    <3>3. QED
      BY <2>3, <3>1, <3>2
  <2>7. EndOf(s, separator, A + 1 + i) = A + 1 + end
    <3> DEFINE from == A + 1 + i
               to == A + 1 + end
    <3>1. /\ s \in Seq(S) /\ from \in 1 .. Len(s) + 1 /\ to \in from .. Len(s) + 1
          /\ to <= Len(s) => s[to] = separator
          /\ \A j \in from .. to - 1 : s[j] # separator
      BY <1>3, <2>4, <2>5, <2>6 DEF L
    <3> HIDE DEF from, to
    <3>2. EndOf(s, separator, from) = to
      BY <3>1, EndOfIs, SMTT(30)
    <3>3. QED
      BY <3>2 DEF from, to
  <2>8. SubSeq(s, A + 1 + i, (A + 1 + end) - 1) = SubSeq(b, i, end - 1)
    <3> DEFINE u == SubSeq(s, A + 1 + i, (A + 1 + end) - 1)
               v == SubSeq(b, i, end - 1)
    <3>1. /\ \A j \in A + 1 + i .. (A + 1 + end) - 1 : s[j] \in S
          /\ \A j \in i .. end - 1 : b[j] \in S
      <4>1. \A j \in 1 .. L : s[j] \in S
        BY <1>3 DEF L
      <4>2. \A j \in 1 .. B : b[j] \in S
        BY DEF B
      <4>3. \A j \in A + 1 + i .. (A + 1 + end) - 1 : j \in 1 .. L
        BY <1>1, <1>3, <2>1, <2>3
      <4>4. \A j \in i .. end - 1 : j \in 1 .. B
        BY <1>1, <2>1, <2>3
      <4>5. QED
        BY <4>1, <4>2, <4>3, <4>4
    <3>2. /\ u \in Seq(S)
          /\ Len(u) = IF A + 1 + i <= (A + 1 + end) - 1
                      THEN ((A + 1 + end) - 1) - (A + 1 + i) + 1 ELSE 0
          /\ \A j \in 1 .. ((A + 1 + end) - 1) - (A + 1 + i) + 1 : u[j] = s[(A + 1 + i) + j - 1]
      <4> DEFINE from == A + 1 + i
                 to == (A + 1 + end) - 1
      <4>1. from \in Int /\ to \in Int
        BY <1>1, <2>1, <2>3
      <4>2. \A j \in from .. to : s[j] \in S
        BY <3>1
      <4> HIDE DEF from, to
      <4>3. /\ SubSeq(s, from, to) \in Seq(S)
            /\ Len(SubSeq(s, from, to)) = IF from <= to THEN to - from + 1 ELSE 0
            /\ \A j \in 1 .. to - from + 1 : SubSeq(s, from, to)[j] = s[from + j - 1]
        BY <4>1, <4>2, SubSeqProperties
      <4>4. QED
        BY <4>3 DEF from, to
    <3>3. /\ v \in Seq(S)
          /\ Len(v) = IF i <= end - 1 THEN (end - 1) - i + 1 ELSE 0
          /\ \A j \in 1 .. (end - 1) - i + 1 : v[j] = b[i + j - 1]
      BY <1>1, <2>1, <2>3, <3>1, SubSeqProperties
    <3> HIDE DEF u, v
    <3>4. Len(u) = Len(v) /\ Len(u) = end - i
      BY <1>1, <2>1, <2>3, <3>2, <3>3
    <3>5. \A j \in 1 .. Len(u) : u[j] = v[j]
      <4> TAKE j \in 1 .. Len(u)
      <4>1. /\ j \in 1 .. ((A + 1 + end) - 1) - (A + 1 + i) + 1
            /\ j \in 1 .. (end - 1) - i + 1
            /\ i + j - 1 \in 1 .. B
            /\ (A + 1 + i) + j - 1 = A + 1 + (i + j - 1)
        BY <1>1, <2>1, <2>3, <3>4
      <4>2. QED
        BY <1>6, <3>2, <3>3, <4>1
    <3>6. u = v
      BY <3>2, <3>3, <3>4, <3>5, SeqEqual
    <3>7. QED
      BY <3>6 DEF u, v
  <2>9. /\ A + 1 + i # L + 2 /\ A + 1 + i \in 1 .. L + 2 /\ i # B + 2 /\ i \in 1 .. B + 2
        /\ (A + 1 + end) + 1 = A + 1 + (end + 1) /\ end + 1 \in i + 1 .. B + 2
    BY <1>1, <1>3, <2>1, <2>3
  <2>10. parts[A + 1 + (end + 1)] = rest[end + 1]
    BY <2>2, <2>9
  <2>11. parts[A + 1 + i] = <<SubSeq(s, A + 1 + i, (A + 1 + end) - 1)>> \o parts[A + 1 + (end + 1)]
    BY <1>8, <2>7, <2>9 DEF PartsFrom, L
  <2>12. rest[i] = <<SubSeq(b, i, end - 1)>> \o rest[end + 1]
    BY <1>9, <2>9 DEF PartsFrom, B, end
  <2>13. parts[A + 1 + i] = rest[i]
    BY <2>8, <2>10, <2>11, <2>12
  <2>14. \A j \in (B + 2) - (k + 1) .. B + 2 : j = i \/ j \in i + 1 .. B + 2
    BY <1>1, <2>1 DEF i
  <2>15. QED
    BY <2>1, <2>2, <2>13, <2>14 DEF K
<1>12. B + 1 \in Nat
  BY <1>1
<1> HIDE DEF K
<1>13. 0 .. B + 1 \subseteq K
  BY <1>10, <1>11, <1>12, UpTo
<1>14. parts[A + 2] = rest[1]
  <2>1. B + 1 \in K /\ 1 \in (B + 2) - (B + 1) .. B + 2 /\ A + 1 + 1 = A + 2
    BY <1>1, <1>13
  <2>2. QED
    BY <2>1 DEF K
<1>15. EndOf(s, separator, 1) = A + 1
  <2>1. 1 \in 1 .. L + 1 /\ A + 1 \in 1 .. L + 1 /\ (A + 1) - 1 = A
    BY <1>1, <1>3
  <2>2. QED
    <3> DEFINE to == A + 1
    <3>1. /\ s \in Seq(S) /\ 1 \in 1 .. Len(s) + 1 /\ to \in 1 .. Len(s) + 1
          /\ to <= Len(s) => s[to] = separator
          /\ \A j \in 1 .. to - 1 : s[j] # separator
      BY <1>3, <1>4, <1>5, <2>1 DEF L
    <3> HIDE DEF to
    <3>2. EndOf(s, separator, 1) = to
      BY <3>1, EndOfIs, Zenon
    <3>3. QED
      BY <3>2 DEF to
<1>16. parts[1] = <<a>> \o parts[A + 2]
  <2>1. 1 \in 1 .. L + 2 /\ 1 # L + 2 /\ (A + 1) - 1 = A /\ (A + 1) + 1 = A + 2
    BY <1>1, <1>3
  <2>2. QED
    BY <1>7, <1>8, <1>15, <2>1 DEF PartsFrom, L
<1>17. QED
  BY <1>8, <1>9, <1>14, <1>16 DEF s

-----------------------------------------------------------------------------
(* Bodies                                                                  *)

\* A container keeps its type and data, whatever its padding.
LEMMA PaddingRemoved ==
    ASSUME NEW S, NEW data \in Seq(S), NEW type \in LowTypes \cup HighTypes,
           NEW length \in Nat \ {0}
    PROVE  DecodeContainer(Padded(<<type>> \o data, length)) = DecodeContent(type, data)
<1> DEFINE T == S \cup {type, length}
           bytes == <<type>> \o data
           pad == [i \in 1 .. length |-> length]
<1>1. data \in Seq(T) /\ <<type>> \in Seq(T) /\ Len(<<type>>) = 1 /\ <<type>>[1] = type
  <2>1. S \subseteq T
    OBVIOUS
  <2>2. data \in Seq(T)
    BY <2>1, SeqMonotonic
  <2>3. QED
    BY <2>2
<1>2. /\ bytes \in Seq(T) /\ Len(bytes) = 1 + Len(data)
      /\ \A i \in 1 .. 1 + Len(data) : bytes[i] = IF i <= 1 THEN <<type>>[i] ELSE data[i - 1]
  BY <1>1, ConcatProperties
<1>3. pad \in Seq(T) /\ Len(pad) = length /\ \A i \in 1 .. length : pad[i] = length
  OBVIOUS
<1>4. Len(data) \in Nat
  OBVIOUS
<1>5. Rest(bytes, 1) = data
  BY <1>1, RestFollows
<1>6. bytes[1] = type /\ bytes # <<>>
  BY <1>1, <1>2, <1>4
<1> HIDE DEF bytes, pad, T
<1>7. /\ bytes \o pad \in Seq(T) /\ Len(bytes \o pad) = Len(bytes) + Len(pad)
      /\ \A i \in 1 .. Len(bytes) + Len(pad) : (bytes \o pad)[i] =
             IF i <= Len(bytes) THEN bytes[i] ELSE pad[i - Len(bytes)]
  BY <1>2, <1>3, ConcatProperties
<1>8. Last(bytes \o pad) = length
  <2>1. (bytes \o pad)[Len(bytes) + Len(pad)] = length
    BY <1>2, <1>3, <1>4, <1>7
  <2>2. QED
    BY <1>7, <2>1 DEF Last
<1>9. /\ length \in 1 .. Len(bytes \o pad) /\ Len(bytes \o pad) - length = Len(bytes)
      /\ bytes \o pad # <<>>
  BY <1>2, <1>3, <1>4, <1>7
<1>10. SubSeq(bytes \o pad, 1, Len(bytes)) = bytes
  BY <1>2, <1>3, Parts
<1>11. Unpad(bytes \o pad) = {bytes}
  BY <1>8, <1>9, <1>10 DEF Unpad
<1>12. DecodeContainer(bytes \o pad) = DecodeContent(type, data)
  BY <1>5, <1>6, <1>11 DEF DecodeContainer
<1>13. QED
  BY <1>12 DEF Padded, bytes, pad

\* The types the encoding tells apart.
LEMMA DecodeByType ==
    ASSUME NEW data
    PROVE  /\ DecodeContent("Text", data) = Contact(DecodeText(data))
           /\ DecodeContent("Location", data) = Contact(DecodeLocation(data))
           /\ DecodeContent("DeliveryReceipt", data) = Contact(DecodeReceipt(data))
           /\ DecodeContent("WebSessionResume", data) =
                  Contact({[kind |-> "WebSessionResume", payload |-> data]})
           /\ DecodeContent("GroupText", data) = Group(data, DecodeText(Rest(data, 2)))
           /\ DecodeContent("GroupDeliveryReceipt", data) =
                  Group(data, {body \in DecodeReceipt(Rest(data, 2)) :
                                   body.kind = "LegacyReaction"})
  BY DEF DecodeContent

\* A receipt or reaction is decoded as it was encoded.
LEMMA ReceiptKept ==
    ASSUME NEW body, NEW kind, NEW types,
           LegibleReceipt(body, kind, types),
           \/ kind = "DeliveryReceipt" /\ types = {"Received", "Read"}
           \/ kind = "LegacyReaction" /\ types = {"Acknowledge", "Decline"}
    PROVE  /\ EncodeReceipt(body) \in Seq({body.type} \cup MessageIds)
           /\ DecodeReceipt(EncodeReceipt(body)) = {body}
<1> DEFINE T == {body.type} \cup MessageIds
           data == <<body.type>> \o body.ids
<1>1. /\ body = [kind |-> kind, type |-> body.type, ids |-> body.ids]
      /\ body.type \in types /\ body.ids \in Seq(MessageIds)
  BY DEF LegibleReceipt
<1>2. body.ids \in Seq(T) /\ <<body.type>> \in Seq(T) /\ Len(<<body.type>>) = 1
  <2>1. MessageIds \subseteq T
    OBVIOUS
  <2>2. body.ids \in Seq(T)
    BY <1>1, <2>1, SeqMonotonic
  <2>3. QED
    BY <2>2
<1>3. /\ data \in Seq(T) /\ Len(data) = 1 + Len(body.ids)
      /\ \A i \in 1 .. 1 + Len(body.ids) : data[i] =
             IF i <= 1 THEN <<body.type>>[i] ELSE body.ids[i - 1]
  BY <1>2, ConcatProperties
<1>4. Len(body.ids) \in Nat
  BY <1>1
<1>5. Rest(data, 1) = body.ids
  BY <1>2, RestFollows
<1>6. data[1] = body.type /\ data # <<>>
  BY <1>3, <1>4
<1>7. ToSet(body.ids) \subseteq MessageIds
  BY <1>1, SequenceOfElements
<1>8. data = EncodeReceipt(body)
  BY DEF EncodeReceipt
<1> HIDE DEF data, T
<1>9. DecodeReceipt(data) = {[kind |-> kind, type |-> body.type, ids |-> body.ids]}
  <2>1. CASE kind = "DeliveryReceipt" /\ types = {"Received", "Read"}
    BY <1>1, <1>5, <1>6, <1>7, <2>1 DEF DecodeReceipt
  <2>2. CASE kind = "LegacyReaction" /\ types = {"Acknowledge", "Decline"}
    BY <1>1, <1>5, <1>6, <1>7, <2>2 DEF DecodeReceipt
  <2>3. QED
    BY <2>1, <2>2
<1>10. QED
  BY <1>1, <1>3, <1>8, <1>9 DEF T

\* So is a text.
LEMMA TextKept ==
    ASSUME NEW body, LegibleText(body)
    PROVE  body.text \in Seq(ToSet(body.text)) /\ DecodeText(body.text) = {body}
  BY DEF LegibleText, IsSequence, DecodeText

\* What a group is sent has the group in front.
LEMMA HeaderKept ==
    ASSUME NEW S, NEW data \in Seq(S), NEW group,
           group = [creator |-> group.creator, id |-> group.id],
           group.creator \in Identities
    PROVE  /\ MemberHeader(group) \o data \in Seq(S \cup {group.creator, group.id})
           /\ Rest(MemberHeader(group) \o data, 2) = data
           /\ Groups(MemberHeader(group) \o data) = {group}
<1> DEFINE T == S \cup {group.creator, group.id}
           header == <<group.creator, group.id>>
<1>1. data \in Seq(T) /\ header \in Seq(T) /\ Len(header) = 2
  <2>1. S \subseteq T
    OBVIOUS
  <2>2. data \in Seq(T)
    BY <2>1, SeqMonotonic
  <2>3. QED
    BY <2>2
<1>2. header[1] = group.creator /\ header[2] = group.id
  OBVIOUS
<1> HIDE DEF T, header
<1>3. /\ header \o data \in Seq(T) /\ Len(header \o data) = 2 + Len(data)
      /\ \A i \in 1 .. 2 + Len(data) : (header \o data)[i] =
             IF i <= 2 THEN header[i] ELSE data[i - 2]
  <2>1. /\ header \o data \in Seq(T) /\ Len(header \o data) = Len(header) + Len(data)
        /\ \A i \in 1 .. Len(header) + Len(data) : (header \o data)[i] =
               IF i <= Len(header) THEN header[i] ELSE data[i - Len(header)]
    BY <1>1, ConcatProperties
  <2>2. QED
    BY <1>1, <2>1
<1>4. Rest(header \o data, 2) = data
  BY <1>1, RestFollows
<1>5. Len(data) \in Nat
  OBVIOUS
<1>6. /\ Len(header \o data) >= 2
      /\ (header \o data)[1] = group.creator /\ (header \o data)[2] = group.id
  BY <1>2, <1>3, <1>5
<1>7. Groups(header \o data) = {[creator |-> group.creator, id |-> group.id]}
  BY <1>6 DEF Groups
<1>8. header = MemberHeader(group)
  BY DEF MemberHeader, header
<1>9. QED
  BY <1>3, <1>4, <1>7, <1>8 DEF T

-----------------------------------------------------------------------------
(* Locations                                                               *)

\* Two parts, and three.
LEMMA SplitTwo ==
    ASSUME NEW S, NEW a \in Seq(S), NEW b \in Seq(S), NEW separator \in S,
           separator \notin ToSet(a), separator \notin ToSet(b)
    PROVE  Split(a \o (<<separator>> \o b), separator) = <<a, b>>
<1>1. Split(a \o (<<separator>> \o b), separator) = <<a>> \o Split(b, separator)
  BY SplitFirst
<1>2. Split(b, separator) = <<b>>
  BY SplitAlone
<1>3. <<a>> \o <<b>> = <<a, b>>
  BY JoinTwo
<1>4. QED
  BY <1>1, <1>2, <1>3

\* A sequence of three parts; none holds the separator.
LEMMA SplitThree ==
    ASSUME NEW S, NEW a \in Seq(S), NEW b \in Seq(S), NEW c \in Seq(S), NEW separator \in S,
           separator \notin ToSet(a), separator \notin ToSet(b), separator \notin ToSet(c)
    PROVE  Split(a \o (<<separator>> \o (b \o (<<separator>> \o c))), separator) = <<a, b, c>>
<1> DEFINE d == b \o (<<separator>> \o c)
<1>1. d \in Seq(S)
  <2>1. <<separator>> \in Seq(S)
    OBVIOUS
  <2>2. <<separator>> \o c \in Seq(S)
    BY <2>1, ConcatProperties
  <2>3. QED
    BY <2>2, ConcatProperties
<1>2. Split(d, separator) = <<b, c>>
  BY SplitTwo
<1> HIDE DEF d
<1>3. Split(a \o (<<separator>> \o d), separator) = <<a>> \o Split(d, separator)
  <2>1. \A e \in Seq(S) :
            Split(a \o (<<separator>> \o e), separator) = <<a>> \o Split(e, separator)
    <3> TAKE e \in Seq(S)
    <3>1. QED
      BY SplitFirst, SMTT(30)
  <2>2. QED
    BY <1>1, <2>1
<1>4. <<a>> \o <<b, c>> = <<a, b, c>>
  BY JoinThree
<1>5. QED
  BY <1>2, <1>3, <1>4 DEF d

\* Escaping takes the line breaks out of an address, and is undone.
LEMMA EscapeUndone ==
    ASSUME NEW S, NEW address \in Seq(S), "ESC" \notin ToSet(address)
    PROVE  /\ Escape(address) \in Seq(S \cup {"ESC"})
           /\ "NL" \notin ToSet(Escape(address))
           /\ Unescape(Escape(address)) = address
<1> DEFINE L == Len(address)
           escaped == Escape(address)
<1>1. /\ L \in Nat /\ DOMAIN address = 1 .. L /\ address = [i \in 1 .. L |-> address[i]]
      /\ \A i \in 1 .. L : address[i] \in S
  OBVIOUS
<1>2. \A i \in 1 .. L : address[i] # "ESC"
  BY SequenceOfElements
<1>3. escaped = [i \in 1 .. L |-> IF address[i] = "NL" THEN "ESC" ELSE address[i]]
  BY <1>1 DEF Escape
<1>4. /\ DOMAIN escaped = 1 .. L
      /\ \A i \in 1 .. L : escaped[i] = IF address[i] = "NL" THEN "ESC" ELSE address[i]
  BY <1>3
<1>5. escaped \in Seq(S \cup {"ESC"})
  BY <1>1, <1>3
<1> HIDE DEF escaped, L
<1>6. "NL" \notin ToSet(escaped)
  BY <1>4 DEF ToSet
<1>7. Unescape(escaped) = address
  <2>1. Unescape(escaped) = [i \in 1 .. L |-> IF escaped[i] = "ESC" THEN "NL" ELSE escaped[i]]
    BY <1>4 DEF Unescape
  <2>2. \A i \in 1 .. L : (IF escaped[i] = "ESC" THEN "NL" ELSE escaped[i]) = address[i]
    BY <1>2, <1>4
  <2>3. QED
    BY <1>1, <2>1, <2>2
<1>8. QED
  BY <1>5, <1>6, <1>7 DEF escaped

\* The numbers in front are the parts between the commas.
Coordinates(body) ==
    <<body.latitude, "COMMA", body.longitude>>
        \o (IF body.accuracy = {} THEN <<>> ELSE <<"COMMA", The(body.accuracy)>>)
Values(body) ==
    IF body.accuracy = {} THEN <<<<body.latitude>>, <<body.longitude>>>>
    ELSE <<<<body.latitude>>, <<body.longitude>>, <<The(body.accuracy)>>>>

\* The first line of a location holds its values, separated by commas.
LEMMA CoordinatesSplit ==
    ASSUME NEW body, LegibleLocation(body)
    PROVE  /\ Coordinates(body) \in Seq(Floats \cup {"COMMA"})
           /\ "NL" \notin ToSet(Coordinates(body))
           /\ Split(Coordinates(body), "COMMA") = Values(body)
<1> DEFINE T == Floats \cup {"COMMA"}
           a == body.latitude
           b == body.longitude
           c == The(body.accuracy)
<1>1. a \in Floats /\ b \in Floats /\ (body.accuracy # {} => c \in Floats)
  BY DEF LegibleLocation, IsOption
<1>2. "COMMA" \notin Floats /\ "NL" \notin T
  BY EncodingAssumption
<1>3. \A x \in Floats : <<x>> \in Seq(T) /\ "COMMA" \notin ToSet(<<x>>)
  <2> TAKE x \in Floats
  <2>1. <<x>> \in Seq({x})
    OBVIOUS
  <2>2. ToSet(<<x>>) \subseteq {x}
    BY <2>1, SequenceOfElements
  <2>3. <<x>> \in Seq(T)
    BY TuplesOf
  <2>4. QED
    BY <1>2, <2>2, <2>3
<1>4. CASE body.accuracy = {}
  <2>1. <<a, "COMMA", b>> \o <<>> = <<a>> \o (<<"COMMA">> \o <<b>>)
    <3>1. <<a, "COMMA", b>> \in Seq({a, "COMMA", b})
      OBVIOUS
    <3>2. <<a, "COMMA", b>> \o <<>> = <<a, "COMMA", b>>
      BY <3>1, ConcatEmptySeq
    <3>3. <<"COMMA">> \o <<b>> = <<"COMMA", b>>
      BY JoinTwo
    <3>4. <<a>> \o <<"COMMA", b>> = <<a, "COMMA", b>>
      BY JoinThree
    <3>5. QED
      BY <3>2, <3>3, <3>4
  <2>2. <<a>> \o (<<"COMMA">> \o <<b>>) \in Seq(T)
    <3>1. <<"COMMA">> \in Seq(T)
      BY TuplesOf
    <3>2. QED
      BY <1>1, <1>3, <3>1, ConcatProperties
  <2>3. Split(<<a>> \o (<<"COMMA">> \o <<b>>), "COMMA") = <<<<a>>, <<b>>>>
    BY <1>1, <1>3, SplitTwo, "COMMA" \in T
  <2>4. Coordinates(body) = <<a>> \o (<<"COMMA">> \o <<b>>)
    BY <1>4, <2>1 DEF Coordinates
  <2>5. Values(body) = <<<<a>>, <<b>>>>
    BY <1>4 DEF Values
  <2> HIDE DEF a, b, c, T
  <2>6. ToSet(Coordinates(body)) \subseteq T
    BY <2>2, <2>4, SequenceOfElements
  <2>7. QED
    BY <1>2, <2>2, <2>3, <2>4, <2>5, <2>6 DEF T
<1>5. CASE body.accuracy # {}
  <2>1. <<a, "COMMA", b>> \o <<"COMMA", c>> =
            <<a>> \o (<<"COMMA">> \o (<<b>> \o (<<"COMMA">> \o <<c>>)))
    <3>1. <<"COMMA">> \o <<c>> = <<"COMMA", c>>
      BY JoinTwo
    <3>2. <<b>> \o <<"COMMA", c>> = <<b, "COMMA", c>>
      BY JoinThree
    <3>3. <<"COMMA">> \o <<b, "COMMA", c>> = <<"COMMA", b, "COMMA", c>>
      BY JoinFour
    <3>4. <<a>> \o <<"COMMA", b, "COMMA", c>> = <<a, "COMMA", b, "COMMA", c>>
      BY JoinFive
    <3>5. <<a, "COMMA", b>> \o <<"COMMA", c>> = <<a, "COMMA", b, "COMMA", c>>
      BY JoinCoordinates
    <3>6. QED
      BY <3>1, <3>2, <3>3, <3>4, <3>5
  <2>2. <<a, "COMMA", b>> \o <<"COMMA", c>> \in Seq(T)
    <3>1. <<a, "COMMA", b>> \in Seq(T) /\ <<"COMMA", c>> \in Seq(T)
      <4>1. a \in T /\ "COMMA" \in T /\ b \in T /\ c \in T
        BY <1>1, <1>5
      <4> HIDE DEF a, b, c, T
      <4>2. QED
        BY <4>1, TuplesOf
    <3>2. QED
      BY <3>1, ConcatProperties
  <2>3. Split(<<a>> \o (<<"COMMA">> \o (<<b>> \o (<<"COMMA">> \o <<c>>))), "COMMA") =
            <<<<a>>, <<b>>, <<c>>>>
    <3>1. /\ <<a>> \in Seq(T) /\ <<b>> \in Seq(T) /\ <<c>> \in Seq(T) /\ "COMMA" \in T
          /\ "COMMA" \notin ToSet(<<a>>) /\ "COMMA" \notin ToSet(<<b>>)
          /\ "COMMA" \notin ToSet(<<c>>)
      BY <1>1, <1>3, <1>5
    <3> HIDE DEF a, b, c, T
    <3>2. QED
      BY <3>1, SplitThree
  <2>4. Coordinates(body) = <<a, "COMMA", b>> \o <<"COMMA", c>>
    BY <1>5 DEF Coordinates
  <2>5. Values(body) = <<<<a>>, <<b>>, <<c>>>>
    BY <1>5 DEF Values
  <2> HIDE DEF a, b, c, T
  <2>6. ToSet(Coordinates(body)) \subseteq T
    BY <2>2, <2>4, SequenceOfElements
  <2>7. QED
    BY <1>2, <2>1, <2>2, <2>3, <2>4, <2>5, <2>6 DEF T
<1>6. QED
  BY <1>4, <1>5

\* What DecodeLocation makes of the lines and of the values of the first.
NumberIn(values, n) ==
    IF n <= Len(values) /\ Len(values[n]) = 1 THEN ToSet(values[n]) \cap Floats ELSE {}
NamesIn(lines) == IF Len(lines) < 3 THEN {} ELSE {lines[2]}
AddressesIn(lines) ==
    CASE Len(lines) = 1 -> {}
      [] Len(lines) = 2 -> {Unescape(lines[2])}
      [] OTHER          -> {Unescape(lines[3])}
LocationsOf(latitudes, longitudes, accuracy, name, address) ==
    {[kind |-> "Location", latitude |-> latitude, longitude |-> longitude,
      accuracy |-> accuracy, name |-> name, address |-> address] :
        latitude \in latitudes, longitude \in longitudes}

LEMMA LocationRead ==
    ASSUME NEW data, IsUtf8(data), NEW lines, Split(data, "NL") = lines,
           NEW values, Split(lines[1], "COMMA") = values
    PROVE  DecodeLocation(data) =
               LocationsOf(NumberIn(values, 1), NumberIn(values, 2), NumberIn(values, 3),
                           NamesIn(lines), AddressesIn(lines))
<1>1. QED
  BY DEF DecodeLocation, LocationsOf, NumberIn, NamesIn, AddressesIn

\* A tuple of one.
LEMMA Single ==
    ASSUME NEW x
    PROVE  Len(<<x>>) = 1 /\ ToSet(<<x>>) = {x}
<1>1. <<x>> \in Seq({x}) /\ Len(<<x>>) = 1 /\ <<x>>[1] = x
  OBVIOUS
<1>2. ToSet(<<x>>) = {<<x>>[i] : i \in 1 .. 1}
  BY <1>1, SequenceOfElements
<1>3. QED
  BY <1>1, <1>2

\* The values of the first line are read as numbers.
LEMMA NumbersRead ==
    ASSUME NEW body, LegibleLocation(body)
    PROVE  /\ NumberIn(Values(body), 1) = {body.latitude}
           /\ NumberIn(Values(body), 2) = {body.longitude}
           /\ NumberIn(Values(body), 3) = body.accuracy
<1> DEFINE a == <<body.latitude>>
           b == <<body.longitude>>
           c == <<The(body.accuracy)>>
<1>1. /\ body.latitude \in Floats /\ body.longitude \in Floats
      /\ \/ body.accuracy = {}
         \/ body.accuracy = {The(body.accuracy)} /\ The(body.accuracy) \in Floats
  <2>1. {body.latitude, body.longitude} \cup body.accuracy \subseteq Floats
    BY DEF LegibleLocation
  <2>2. body.accuracy = {} \/ body.accuracy = {The(body.accuracy)}
    BY DEF LegibleLocation, IsOption
  <2>3. body.accuracy # {} => The(body.accuracy) \in body.accuracy
    BY <2>2, Zenon
  <2>4. QED
    BY <2>1, <2>2, <2>3
<1>2. /\ Len(a) = 1 /\ ToSet(a) = {body.latitude}
      /\ Len(b) = 1 /\ ToSet(b) = {body.longitude}
      /\ Len(c) = 1 /\ ToSet(c) = {The(body.accuracy)}
  BY Single
<1>3. Values(body) = IF body.accuracy = {} THEN <<a, b>> ELSE <<a, b, c>>
  BY DEF Values
<1> HIDE DEF a, b, c
<1>4. CASE body.accuracy = {}
  <2>1. /\ Len(Values(body)) = 2
        /\ Values(body)[1] = a /\ Values(body)[2] = b
    BY <1>3, <1>4
  <2>2. QED
    BY <1>1, <1>2, <1>4, <2>1 DEF NumberIn
<1>5. CASE body.accuracy # {}
  <2>1. /\ Len(Values(body)) = 3
        /\ Values(body)[1] = a /\ Values(body)[2] = b /\ Values(body)[3] = c
    BY <1>3, <1>5
  <2>2. QED
    BY <1>1, <1>2, <1>5, <2>1 DEF NumberIn
<1>6. QED
  BY <1>4, <1>5

\* What a location is once its lines and the values of the first are known.
LEMMA LocationOfLines ==
    ASSUME NEW body, LegibleLocation(body), NEW data, IsUtf8(data), NEW lines,
           Split(data, "NL") = lines, Split(lines[1], "COMMA") = Values(body),
           body.name = NamesIn(lines), body.address = AddressesIn(lines)
    PROVE  DecodeLocation(data) = {body}
<1>1. DecodeLocation(data) =
          LocationsOf({body.latitude}, {body.longitude}, body.accuracy, body.name, body.address)
  BY LocationRead, NumbersRead
<1>2. body = [kind |-> "Location", latitude |-> body.latitude, longitude |-> body.longitude,
              accuracy |-> body.accuracy, name |-> body.name, address |-> body.address]
  BY DEF LegibleLocation
<1>3. LocationsOf({body.latitude}, {body.longitude}, body.accuracy, body.name, body.address) =
          {[kind |-> "Location", latitude |-> body.latitude, longitude |-> body.longitude,
            accuracy |-> body.accuracy, name |-> body.name, address |-> body.address]}
  BY DEF LocationsOf
<1>4. QED
  BY <1>1, <1>2, <1>3, Zenon

\* A location is decoded as it was encoded.
LEMMA LocationKept ==
    ASSUME NEW body, LegibleLocation(body)
    PROVE  /\ IsSequence(EncodeLocation(body))
           /\ DecodeLocation(EncodeLocation(body)) = {body}
<1> DEFINE data == EncodeLocation(body)
           c == Coordinates(body)
           name == The(body.name)
           address == The(body.address)
           e == Escape(address)
           T == Floats \cup {"COMMA", "NL", "ESC"} \cup ToSet(name) \cup ToSet(address)
<1>1. /\ body.name = {} \/ body.name = {name}
      /\ body.address = {} \/ body.address = {address}
      /\ body.address = {} => body.name = {}
      /\ IsUtf8(data)
  BY DEF LegibleLocation, IsOption
<1>2. c \in Seq(T) /\ "NL" \notin ToSet(c) /\ Split(c, "COMMA") = Values(body)
  <2>1. Floats \cup {"COMMA"} \subseteq T
    OBVIOUS
  <2>2. QED
    BY <2>1, CoordinatesSplit, SeqMonotonic
<1>3. body.name # {} => name \in Seq(T) /\ "NL" \notin ToSet(name)
  <2> SUFFICES ASSUME body.name # {}
               PROVE  name \in Seq(T) /\ "NL" \notin ToSet(name)
    OBVIOUS
  <2>1. name \in body.name
    BY <1>1
  <2>2. name \in Seq(ToSet(name)) /\ "NL" \notin ToSet(name)
    BY <2>1 DEF LegibleLocation, IsSequence
  <2>3. ToSet(name) \subseteq T
    OBVIOUS
  <2>4. QED
    BY <2>2, <2>3, SeqMonotonic
<1>4. body.address # {} => e \in Seq(T) /\ "NL" \notin ToSet(e) /\ Unescape(e) = address
  <2> SUFFICES ASSUME body.address # {}
               PROVE  e \in Seq(T) /\ "NL" \notin ToSet(e) /\ Unescape(e) = address
    OBVIOUS
  <2>1. address \in body.address
    BY <1>1
  <2>2. address \in Seq(ToSet(address)) /\ "ESC" \notin ToSet(address)
    BY <2>1 DEF LegibleLocation, IsSequence
  <2>3. e \in Seq(ToSet(address) \cup {"ESC"}) /\ "NL" \notin ToSet(e) /\ Unescape(e) = address
    BY <2>2, EscapeUndone
  <2>4. ToSet(address) \cup {"ESC"} \subseteq T
    OBVIOUS
  <2>5. QED
    BY <2>3, <2>4, SeqMonotonic
<1>5. <<"NL">> \in Seq(T) /\ "NL" \in T
  BY TuplesOf
<1> HIDE DEF T
<1>6. CASE body.address = {}
  <2>1. data = c \o <<>>
    BY <1>6 DEF EncodeLocation, Coordinates
  <2>2. data = c
    BY <1>2, <2>1, ConcatEmptySeq
  <2> HIDE DEF c, data
  <2>3. Split(data, "NL") = <<c>>
    BY <1>2, <2>2, SplitAlone
  <2>4. <<c>>[1] = c /\ NamesIn(<<c>>) = {} /\ AddressesIn(<<c>>) = {}
    BY DEF NamesIn, AddressesIn
  <2>5. DecodeLocation(data) = {body}
    BY <1>1, <1>2, <1>6, <2>3, <2>4, LocationOfLines
  <2>6. QED
    BY <1>2, <2>2, <2>5, SequenceOfElements DEF data
<1>7. CASE body.address # {} /\ body.name = {}
  <2>1. data = c \o ((<<>> \o <<"NL">>) \o e)
    BY <1>7 DEF EncodeLocation, Coordinates
  <2>2. data = c \o (<<"NL">> \o e)
    BY <1>5, <2>1, ConcatEmptySeq
  <2> HIDE DEF c, data, e, address
  <2>3. Split(data, "NL") = <<c, e>>
    BY <1>2, <1>4, <1>5, <1>7, <2>2, SplitTwo
  <2>4. /\ <<c, e>>[1] = c /\ NamesIn(<<c, e>>) = {}
        /\ AddressesIn(<<c, e>>) = {Unescape(e)}
    BY DEF NamesIn, AddressesIn
  <2>5. DecodeLocation(data) = {body}
    BY <1>1, <1>2, <1>4, <1>7, <2>3, <2>4, LocationOfLines
  <2>6. data \in Seq(T)
    BY <1>2, <1>4, <1>5, <1>7, <2>2, ConcatProperties
  <2>7. QED
    BY <2>5, <2>6, SequenceOfElements DEF data
<1>8. CASE body.name # {}
  <2>1. body.address # {}
    BY <1>1, <1>8
  <2>2. data = c \o (((<<"NL">> \o name) \o <<"NL">>) \o e)
    BY <1>8, <2>1 DEF EncodeLocation, Coordinates
  <2> HIDE DEF c, data, e, name, address
  <2>3. /\ ((<<"NL">> \o name) \o <<"NL">>) \o e = (<<"NL">> \o name) \o (<<"NL">> \o e)
        /\ (<<"NL">> \o name) \o (<<"NL">> \o e) = <<"NL">> \o (name \o (<<"NL">> \o e))
    <3>1. <<"NL">> \o name \in Seq(T) /\ <<"NL">> \o e \in Seq(T)
      BY <1>3, <1>4, <1>5, <1>8, <2>1, ConcatProperties
    <3>2. QED
      BY <1>3, <1>4, <1>5, <1>8, <2>1, <3>1, ConcatAssociative
  <2>4. data = c \o (<<"NL">> \o (name \o (<<"NL">> \o e)))
    BY <2>2, <2>3
  <2>5. Split(data, "NL") = <<c, name, e>>
    <3>1. /\ c \in Seq(T) /\ name \in Seq(T) /\ e \in Seq(T) /\ "NL" \in T
          /\ "NL" \notin ToSet(c) /\ "NL" \notin ToSet(name) /\ "NL" \notin ToSet(e)
      BY <1>2, <1>3, <1>4, <1>5, <1>8, <2>1
    <3>2. Split(c \o (<<"NL">> \o (name \o (<<"NL">> \o e))), "NL") = <<c, name, e>>
      BY <3>1, SplitThree
    <3>3. QED
      BY <2>4, <3>2
  <2>6. /\ <<c, name, e>>[1] = c /\ NamesIn(<<c, name, e>>) = {name}
        /\ AddressesIn(<<c, name, e>>) = {Unescape(e)}
    BY DEF NamesIn, AddressesIn
  <2>7. DecodeLocation(data) = {body}
    BY <1>1, <1>2, <1>4, <1>8, <2>1, <2>5, <2>6, LocationOfLines
  <2>8. data \in Seq(T)
    <3>1. <<"NL">> \o e \in Seq(T)
      BY <1>4, <1>5, <2>1, ConcatProperties
    <3>2. name \o (<<"NL">> \o e) \in Seq(T)
      BY <1>3, <1>8, <3>1, ConcatProperties
    <3>3. <<"NL">> \o (name \o (<<"NL">> \o e)) \in Seq(T)
      BY <1>5, <3>2, ConcatProperties
    <3>4. QED
      BY <1>2, <2>4, <3>3, ConcatProperties
  <2>9. QED
    BY <2>7, <2>8, SequenceOfElements DEF data
<1>9. QED
  BY <1>6, <1>7, <1>8

-----------------------------------------------------------------------------
(* Contents                                                                *)

\* The conversation and body as the receiver sees them.
Received(said) ==
    IF said.conversation = "DistributionList" THEN [said EXCEPT !.conversation = "Contact"]
    ELSE said

IsKept(said) ==
    /\ IsSequence(EncodeContent(said))
    /\ MessageType(said) \in LowTypes \cup HighTypes
    /\ DecodeContent(MessageType(said), EncodeContent(said)) = {Received(said)}

\* What is for a contact or a distribution list is kept, ...
LEMMA ToContactKept ==
    ASSUME NEW said, LegibleToContact(said)
    PROVE  IsKept(said)
<1> DEFINE body == said.body
           data == EncodeContent(said)
           type == MessageType(said)
<1>1. /\ said.conversation # "Group"
      /\ said = [conversation |-> said.conversation, body |-> body]
      /\ said.conversation \in {"Contact", "DistributionList"}
  BY DEF LegibleToContact
<1>2. Received(said) = [conversation |-> "Contact", body |-> body]
  BY <1>1 DEF Received
<1>3. data = EncodeBody(body) /\ type = ContactType(body)
  BY <1>1 DEF EncodeContent, MessageType
<1>4. SUFFICES /\ IsSequence(data) /\ type \in LowTypes \cup HighTypes
               /\ DecodeContent(type, data) = Contact({body})
  BY <1>2 DEF IsKept, Contact
<1>5. CASE LegibleText(body)
  <2>1. body.kind = "Text"
    BY <1>5 DEF LegibleText
  <2>2. data = body.text /\ type = "Text"
    BY <1>3, <2>1 DEF EncodeBody, ContactType
  <2>3. IsSequence(body.text)
    BY <1>5 DEF LegibleText
  <2> HIDE DEF body, data, type
  <2>4. QED
    BY <1>5, <2>2, <2>3, TextKept, DecodeByType DEF LowTypes
<1>6. CASE LegibleLocation(body)
  <2>1. body.kind = "Location"
    BY <1>6 DEF LegibleLocation
  <2>2. data = EncodeLocation(body) /\ type = "Location"
    BY <1>3, <2>1 DEF EncodeBody, ContactType
  <2> HIDE DEF body, data, type
  <2>3. QED
    BY <1>6, <2>2, LocationKept, DecodeByType DEF LowTypes
<1>7. CASE LegibleReceipt(body, "DeliveryReceipt", {"Received", "Read"})
  <2>1. body.kind = "DeliveryReceipt"
    BY <1>7 DEF LegibleReceipt
  <2>2. data = EncodeReceipt(body) /\ type = "DeliveryReceipt"
    BY <1>3, <2>1 DEF EncodeBody, ContactType
  <2> HIDE DEF body, data, type
  <2>3. /\ EncodeReceipt(body) \in Seq({body.type} \cup MessageIds)
        /\ DecodeReceipt(EncodeReceipt(body)) = {body}
    BY <1>7, ReceiptKept
  <2>4. IsSequence(EncodeReceipt(body))
    BY <2>3, SequenceOfElements
  <2>5. DecodeContent(type, data) = Contact({body})
    BY <2>2, <2>3, DecodeByType
  <2>6. QED
    BY <2>2, <2>4, <2>5 DEF HighTypes
<1>8. CASE LegibleReaction(body)
  <2>1. body.kind = "LegacyReaction"
    BY <1>8 DEF LegibleReaction, LegibleReceipt
  <2>2. data = EncodeReceipt(body) /\ type = "DeliveryReceipt"
    BY <1>3, <2>1 DEF EncodeBody, ContactType
  <2> HIDE DEF body, data, type
  <2>3. /\ EncodeReceipt(body) \in Seq({body.type} \cup MessageIds)
        /\ DecodeReceipt(EncodeReceipt(body)) = {body}
    BY <1>8, ReceiptKept DEF LegibleReaction
  <2>4. IsSequence(EncodeReceipt(body))
    BY <2>3, SequenceOfElements
  <2>5. DecodeContent(type, data) = Contact({body})
    BY <2>2, <2>3, DecodeByType
  <2>6. QED
    BY <2>2, <2>4, <2>5 DEF HighTypes
<1>9. CASE LegibleResume(body)
  <2>1. /\ body.kind = "WebSessionResume"
        /\ body = [kind |-> "WebSessionResume", payload |-> body.payload]
        /\ IsSequence(body.payload)
    BY <1>9 DEF LegibleResume
  <2>2. data = body.payload /\ type = "WebSessionResume"
    BY <1>3, <2>1 DEF EncodeBody, ContactType
  <2> HIDE DEF body, data, type
  <2>3. QED
    BY <2>1, <2>2, DecodeByType DEF HighTypes
<1>10. QED
  BY <1>5, <1>6, <1>7, <1>8, <1>9 DEF LegibleToContact

\* ... and what is for a group.
LEMMA ToGroupKept ==
    ASSUME NEW said, LegibleToGroup(said)
    PROVE  IsKept(said)
<1> DEFINE body == said.body
           group == said.group
           data == EncodeContent(said)
           type == MessageType(said)
<1>1. /\ said.conversation = "Group"
      /\ said = [conversation |-> "Group", group |-> group, body |-> body]
      /\ group = [creator |-> group.creator, id |-> group.id]
      /\ group.creator \in Identities
  BY DEF LegibleToGroup
<1>2. Received(said) = [conversation |-> "Group", group |-> group, body |-> body]
  BY <1>1 DEF Received
<1>3. data = MemberHeader(group) \o EncodeBody(body) /\ type = GroupType(body)
  BY <1>1 DEF EncodeContent, MessageType
<1>4. SUFFICES /\ IsSequence(data) /\ type \in LowTypes \cup HighTypes
               /\ Groups(data) = {group} /\ DecodeContent(type, data) = Group(data, {body})
  BY <1>2 DEF IsKept, Group
<1>5. CASE LegibleText(body)
  <2>1. body.kind = "Text"
    BY <1>5 DEF LegibleText
  <2>2. EncodeBody(body) = body.text /\ type = "GroupText"
    BY <1>3, <2>1 DEF EncodeBody, GroupType
  <2> HIDE DEF body, group, data, type
  <2>3. body.text \in Seq(ToSet(body.text)) /\ DecodeText(body.text) = {body}
    BY <1>5, TextKept
  <2>4. /\ data \in Seq(ToSet(body.text) \cup {group.creator, group.id})
        /\ Rest(data, 2) = body.text /\ Groups(data) = {group}
    <3>1. group = [creator |-> group.creator, id |-> group.id] /\ group.creator \in Identities
      BY <1>1
    <3>2. data = MemberHeader(group) \o body.text
      BY <1>3, <2>2
    <3>3. QED
      BY <2>3, <3>1, <3>2, HeaderKept
  <2>5. DecodeContent(type, data) = Group(data, {body})
    BY <2>2, <2>3, <2>4, DecodeByType
  <2>6. QED
    BY <2>2, <2>4, <2>5, SequenceOfElements DEF HighTypes
<1>6. CASE LegibleReaction(body)
  <2>1. body.kind = "LegacyReaction"
    BY <1>6 DEF LegibleReaction, LegibleReceipt
  <2>2. EncodeBody(body) = EncodeReceipt(body) /\ type = "GroupDeliveryReceipt"
    BY <1>3, <2>1 DEF EncodeBody, GroupType
  <2> HIDE DEF body, group, data, type
  <2>3. /\ EncodeReceipt(body) \in Seq({body.type} \cup MessageIds)
        /\ DecodeReceipt(EncodeReceipt(body)) = {body}
    BY <1>6, ReceiptKept DEF LegibleReaction
  <2>4. /\ data \in Seq(({body.type} \cup MessageIds) \cup {group.creator, group.id})
        /\ Rest(data, 2) = EncodeReceipt(body) /\ Groups(data) = {group}
    <3>1. group = [creator |-> group.creator, id |-> group.id] /\ group.creator \in Identities
      BY <1>1
    <3>2. data = MemberHeader(group) \o EncodeReceipt(body)
      BY <1>3, <2>2
    <3>3. QED
      BY <2>3, <3>1, <3>2, HeaderKept
  <2>5. DecodeContent(type, data) = Group(data, {body})
    <3>1. {b \in {body} : b.kind = "LegacyReaction"} = {body}
      BY <2>1
    <3>2. QED
      BY <2>2, <2>3, <2>4, <3>1, DecodeByType
  <2>6. QED
    BY <2>2, <2>4, <2>5, SequenceOfElements DEF HighTypes
<1>7. QED
  BY <1>5, <1>6 DEF LegibleToGroup

\* What may be sent is kept.
LEMMA ContentKept ==
    ASSUME NEW said, LegibleToContact(said) \/ LegibleToGroup(said)
    PROVE  IsKept(said)
BY ToContactKept, ToGroupKept

\* What a container is decoded as is a conversation with a contact or a group.
LEMMA Conversations ==
    ASSUME NEW type, NEW data, NEW said \in DecodeContent(type, data)
    PROVE  said.conversation \in {"Contact", "Group"}
<1>1. \A bodies : \A c \in Contact(bodies) : c.conversation = "Contact"
  BY DEF Contact
<1>2. \A bodies : \A c \in Group(data, bodies) : c.conversation = "Group"
  BY DEF Group
<1>3. \/ \E bodies : said \in Contact(bodies)
      \/ \E bodies : said \in Group(data, bodies)
  BY Zenon DEF DecodeContent
<1>4. QED
  BY <1>1, <1>2, <1>3

-----------------------------------------------------------------------------
(* Payloads                                                                *)

\* The value of an option.
LEMMA TheOne ==
    ASSUME NEW x
    PROVE  The({x}) = x
BY DEF The

\* What a nickname is announced as is heard without surrounding spaces.
HeardAs(delta) == FromNonEmpty({Trim(name) : name \in IntoNonEmpty(delta)})

IsReadAs(payload, message, flags, delta, n, said) ==
    /\ payload.nonce = n /\ payload.id = message.id /\ payload.flags = flags
    /\ \A m \in DecodeMessage(payload, {Sender, Receiver}) :
           /\ m.inner.content = said
           /\ m.inner.id = message.id
           /\ m.inner.createdAt = message.createdAt
           /\ m.inner.disableReceipts = DisableReceipts(flags)
           /\ m.metadata # {}
           /\ The(m.metadata).nickname = HeardAs(delta)

\* The receiver opens what was sealed for it.
LEMMA PayloadRead ==
    ASSUME NEW message, NEW legacyCreated, NEW flags, NEW legacyNickname, NEW delta, NEW n,
           NEW container, NEW said, DecodeContainer(container) = {said}, NEW payload,
           payload = Payload(<<Sender, Receiver>>, message, legacyCreated, flags, legacyNickname,
                             EncodeMetadata(message, delta), n, container)
    PROVE  IsReadAs(payload, message, flags, delta, n, said)
<1> DEFINE ends == <<Sender, Receiver>>
           keys == {Sender, Receiver}
           metadata == EncodeMetadata(message, delta)
           box == Seal("metadata", keys, n, metadata)
           sealed == Seal("message", keys, n, container)
           read == [id |-> message.id, createdAt |-> message.createdAt, nickname |-> HeardAs(delta)]
<1>1. ends[1] = Sender /\ ends[2] = Receiver /\ ToSet(ends) = keys
  <2>1. ends \in Seq(keys) /\ Len(ends) = 2 /\ ends[1] = Sender /\ ends[2] = Receiver
    OBVIOUS
  <2>2. ToSet(ends) = {ends[i] : i \in 1 .. 2}
    BY <2>1, SequenceOfElements
  <2> HIDE DEF ends
  <2>3. QED
    BY <2>1, <2>2
<1>2. /\ payload.nonce = n /\ payload.id = message.id /\ payload.flags = flags
      /\ payload.metadata = {box} /\ payload.container = sealed
  BY <1>1 DEF Payload
<1>3. Open("metadata", keys, n, box) = {metadata} /\ Open("message", keys, n, sealed) = {container}
  BY DEF Open, Seal
<1>4. DecodeMetadata(metadata) = read
  BY DEF DecodeMetadata, EncodeMetadata, HeardAs
<1> HIDE DEF ends, keys, metadata, box, sealed, read
<1>5. Metadata(payload, keys) = {{read}}
  <2>1. payload.metadata # {} /\ The(payload.metadata) = box
    BY <1>2, TheOne
  <2>2. QED
    BY <1>2, <1>3, <1>4, <2>1 DEF Metadata
<1>6. UNION {DecodeContainer(opened) : opened \in Open("message", keys, n, sealed)} = {said}
  BY <1>3
<1>7. ASSUME NEW m \in DecodeMessage(payload, keys)
      PROVE  /\ m.metadata = {read}
             /\ m.inner = [sender |-> payload.sender, id |-> payload.id,
                           disableReceipts |-> DisableReceipts(payload.flags),
                           createdAt |-> message.createdAt, content |-> said]
  <2>1. The({read}).createdAt = message.createdAt /\ {read} # {}
    <3>1. The({read}) = read
      BY TheOne
    <3>2. read.createdAt = message.createdAt
      BY DEF read
    <3>3. QED
      BY <3>1, <3>2
  <2>2. PICK seen \in Metadata(payload, keys),
             found \in UNION {DecodeContainer(opened) :
                              opened \in Open("message", keys, payload.nonce, payload.container)} :
          m = [metadata |-> seen,
               inner |-> [sender |-> payload.sender, id |-> payload.id,
                          disableReceipts |-> DisableReceipts(payload.flags),
                          createdAt |-> IF seen = {} THEN payload.legacyCreated * 1000
                                        ELSE The(seen).createdAt,
                          content |-> found]]
    BY DEF DecodeMessage
  <2>3. seen = {read} /\ found = said
    BY <1>2, <1>5, <1>6, <2>2
  <2>4. QED
    BY <2>1, <2>2, <2>3
<1>8. ASSUME NEW m \in DecodeMessage(payload, keys)
      PROVE  /\ m.inner.content = said
             /\ m.inner.id = message.id
             /\ m.inner.createdAt = message.createdAt
             /\ m.inner.disableReceipts = DisableReceipts(flags)
             /\ m.metadata # {}
             /\ The(m.metadata).nickname = HeardAs(delta)
  <2>1. The({read}) = read
    BY TheOne
  <2>2. read.nickname = HeardAs(delta)
    BY DEF read
  <2> DEFINE disabled == DisableReceipts(flags)
  <2>3. /\ m.metadata = {read}
        /\ m.inner = [sender |-> payload.sender, id |-> message.id, disableReceipts |-> disabled,
                      createdAt |-> message.createdAt, content |-> said]
    BY <1>2, <1>7, Zenon
  <2> HIDE DEF disabled
  <2>4. /\ m.inner.content = said /\ m.inner.id = message.id
        /\ m.inner.createdAt = message.createdAt /\ m.inner.disableReceipts = disabled
    <3> DEFINE inner == m.inner
    <3>1. inner = [sender |-> payload.sender, id |-> message.id, disableReceipts |-> disabled,
                   createdAt |-> message.createdAt, content |-> said]
      BY <2>3
    <3> HIDE DEF inner
    <3>2. inner.content = said /\ inner.id = message.id
      BY <3>1
    <3>3. inner.createdAt = message.createdAt
      BY <3>1
    <3>4. inner.disableReceipts = disabled
      BY <3>1
    <3>5. QED
      BY <3>2, <3>3, <3>4, Zenon DEF inner
  <2>5. m.metadata # {} /\ The(m.metadata).nickname = HeardAs(delta)
    BY <2>1, <2>2, <2>3
  <2>6. QED
    BY <2>4, <2>5, Zenon DEF disabled
<1>9. QED
  BY <1>2, <1>8 DEF keys, IsReadAs

\* What the properties of a content are.
LEMMA PropertiesOf ==
    ASSUME NEW said
    PROVE  LET properties == Properties(said)
               isReaction == said.body.kind = "LegacyReaction"
               isReceipt == said.body.kind = "DeliveryReceipt"
               isResume == said.body.kind = "WebSessionResume"
               toGroup == said.conversation = "Group"
           IN  /\ properties.profile <=> toGroup \/ ~(isReceipt \/ isResume)
               /\ properties.lifetime = "Ephemeral" <=> ~toGroup /\ isResume
               /\ properties.receipts <=> ~toGroup /\ ~(isReceipt \/ isReaction \/ isResume)
               /\ \A value :
                      /\ [properties EXCEPT !.receipts = value].profile = properties.profile
                      /\ [properties EXCEPT !.receipts = value].receipts = value
<1> DEFINE properties == Properties(said)
<1>1. CASE said.conversation = "Group"
  <2>1. CASE said.body.kind = "LegacyReaction"
    <3>1. properties = [push |-> FALSE, lifetime |-> "Indefinite", profile |-> TRUE,
                        replay |-> TRUE, receipts |-> FALSE]
      BY <1>1, <2>1 DEF Properties, GroupProperties, LegacyReactionProperties
    <3> HIDE DEF properties
    <3>2. QED
      BY <1>1, <3>1 DEF properties
  <2>2. CASE said.body.kind # "LegacyReaction"
    <3>1. properties = [push |-> TRUE, lifetime |-> "Indefinite", profile |-> TRUE,
                        replay |-> TRUE, receipts |-> FALSE]
      BY <1>1, <2>2 DEF Properties, GroupProperties, TextProperties
    <3> HIDE DEF properties
    <3>2. QED
      BY <1>1, <3>1 DEF properties
  <2>3. QED
    BY <2>1, <2>2
<1>2. CASE said.conversation # "Group"
  <2>1. properties = ContactProperties(said.body)
    BY <1>2 DEF Properties
  <2> HIDE DEF properties
  <2>2. CASE said.body.kind = "DeliveryReceipt"
    <3>1. properties = DeliveryReceiptProperties
      BY <2>1, <2>2 DEF ContactProperties
    <3>2. QED
      BY <1>2, <2>2, <3>1 DEF DeliveryReceiptProperties, properties
  <2>3. CASE said.body.kind = "LegacyReaction"
    <3>1. properties = LegacyReactionProperties
      BY <2>1, <2>3 DEF ContactProperties
    <3>2. QED
      BY <1>2, <2>3, <3>1 DEF LegacyReactionProperties, properties
  <2>4. CASE said.body.kind = "WebSessionResume"
    <3>1. properties = WebSessionResumeProperties
      BY <2>1, <2>4 DEF ContactProperties
    <3>2. QED
      BY <1>2, <2>4, <3>1 DEF WebSessionResumeProperties, properties
  <2>5. CASE said.body.kind \notin {"DeliveryReceipt", "LegacyReaction", "WebSessionResume"}
    <3>1. properties = TextProperties
      BY <2>1, <2>5 DEF ContactProperties
    <3>2. QED
      BY <1>2, <2>5, <3>1 DEF TextProperties, properties
  <2>6. QED
    BY <2>2, <2>3, <2>4, <2>5
<1>3. QED
  BY <1>1, <1>2

IsEncodingOf(payload, message, nick, n) ==
    /\ payload.nonce = n /\ payload.id = message.id
    /\ "noQueuing" \in payload.flags =>
           /\ message.content.conversation # "Group"
           /\ message.content.body.kind = "WebSessionResume"
    /\ \A m \in DecodeMessage(payload, {Sender, Receiver}) :
           /\ m.inner.content = Received(message.content)
           /\ m.inner.id = message.id
           /\ m.inner.createdAt = message.createdAt
           /\ m.inner.disableReceipts = message.disableReceipts
           /\ m.metadata # {}
           /\ The(m.metadata).nickname =
                  HeardAs(IF Properties(message.content).profile THEN nick ELSE Unchanged)

\* What is encoded is understood as it was meant.
LEMMA EncodedRead ==
    ASSUME NEW message, IsKept(message.content), message.disableReceipts \in BOOLEAN,
           NEW nick, NEW legacyNickname, NEW padding \in Paddings, NEW n, NEW payload,
           payload = EncodeMessage(<<Sender, Receiver>>, message, nick, legacyNickname,
                                   padding, n)
    PROVE  IsEncodingOf(payload, message, nick, n)
<1> DEFINE said == message.content
           data == EncodeContent(said)
           length == IF Len(data) + padding < PaddingMin THEN PaddingMin - Len(data) ELSE padding
           container == EncodeContainer(said, padding)
           properties == Properties(said)
           flags == Flags(message)
           delta == IF properties.profile THEN nick ELSE Unchanged
           legacyCreated == Min({message.createdAt \div 1000, MaxLegacyCreated})
           visible == IF EffectiveProperties(message).profile /\ Receiver \in Gateways
                      THEN legacyNickname ELSE {}
<1>1. /\ data \in Seq(ToSet(data)) /\ MessageType(said) \in LowTypes \cup HighTypes
      /\ DecodeContent(MessageType(said), data) = {Received(said)}
  BY DEF IsKept, IsSequence
<1>2. DecodeContainer(container) = {Received(said)}
  <2>1. Len(data) \in Nat /\ PaddingMin \in Nat /\ padding \in Nat \ {0}
    BY <1>1, EncodingAssumption, ExchangeAssumption
  <2> HIDE DEF data
  <2>2. length \in Nat \ {0}
    BY <2>1
  <2>3. container = Padded(<<MessageType(said)>> \o data, length)
    BY DEF EncodeContainer, data
  <2> HIDE DEF length, container, said
  <2>4. QED
    BY <1>1, <2>2, <2>3, PaddingRemoved
<1>3. EffectiveProperties(message).profile = properties.profile
  BY PropertiesOf DEF EffectiveProperties
<1>4. payload = Payload(<<Sender, Receiver>>, message, legacyCreated, flags, visible,
                        EncodeMetadata(message, delta), n, container)
  <2>1. <<Sender, Receiver>>[2] = Receiver
    OBVIOUS
  <2>2. QED
    BY <1>3, <2>1 DEF EncodeMessage
<1>5. /\ "noQueuing" \in flags => properties.lifetime = "Ephemeral"
      /\ "noReceipts" \in flags <=> message.disableReceipts
  BY DEF Flags
<1>6. DisableReceipts(flags) = message.disableReceipts
  BY <1>5 DEF DisableReceipts
<1>7. properties.lifetime = "Ephemeral" =>
          said.conversation # "Group" /\ said.body.kind = "WebSessionResume"
  BY PropertiesOf
<1> HIDE DEF said, data, container, properties, flags, delta, legacyCreated, visible
<1>8. IsReadAs(payload, message, flags, delta, n, Received(said))
  BY <1>2, <1>4, PayloadRead
<1>9. QED
  BY <1>5, <1>6, <1>7, <1>8, Zenon DEF IsEncodingOf, IsReadAs, said, delta, properties

\* The change of the nickname that goes with a message, and what the message overrides.
DeltaOf(draft) ==
    IF draft.via = "Library" /\ ~Properties(draft.content).profile THEN Unchanged
    ELSE Announced(draft)
Disabled(draft) == draft.via = "Library" /\ draft.disableReceipts

ReadsAsMeant(draft, payload) ==
    /\ payload.id = draft.id
    /\ \A m \in DecodeMessage(payload, {Sender, Receiver}) :
           /\ m.inner.content = Meant(draft)
           /\ m.inner.id = draft.id
           /\ m.inner.createdAt = draft.createdAt
           /\ m.inner.disableReceipts <=> Disabled(draft)
           /\ m.metadata # {}
           /\ The(m.metadata).nickname = HeardAs(DeltaOf(draft))
\* What is not queued resumes a session.
OnlyResumes(payload) ==
    "noQueuing" \in payload.flags =>
        \A m \in DecodeMessage(payload, {Sender, Receiver}) :
            m.inner.content.body.kind = "WebSessionResume"

Understood(draft, n, payload) ==
    /\ payload.nonce = n
    /\ draft.via # "Foreign" => ReadsAsMeant(draft, payload)
    /\ OnlyResumes(payload)

\* What an application gives the library is understood, ...
LEMMA LibraryUnderstood ==
    ASSUME NEW draft, NEW n, Legible(draft, n), draft.via = "Library",
           NEW payload \in Encodings(draft, n)
    PROVE  Understood(draft, n, payload)
<1>1. /\ LegibleToContact(draft.content) \/ LegibleToGroup(draft.content)
      /\ draft.disableReceipts \in BOOLEAN
  BY DEF Legible
<1>2. IsKept(draft.content)
  BY <1>1, ContentKept
<1>3. PICK padding \in Paddings :
          payload = EncodeMessage(<<Sender, Receiver>>, draft, draft.nickname,
                                  draft.legacyNickname, padding, n)
  BY DEF Encodings
<1>4. IsEncodingOf(payload, draft, draft.nickname, n)
  BY <1>1, <1>2, <1>3, EncodedRead
<1>5. Meant(draft) = Received(draft.content) /\ Announced(draft) = draft.nickname
  BY DEF Meant, Received, Announced
<1>6. DeltaOf(draft) = IF Properties(draft.content).profile THEN draft.nickname ELSE Unchanged
  BY <1>5 DEF DeltaOf
<1>7. ReadsAsMeant(draft, payload)
  BY <1>4, <1>5, <1>6, Zenon DEF ReadsAsMeant, Disabled, IsEncodingOf
<1>8. Received(draft.content).body = draft.content.body
  <2>1. LegibleToContact(draft.content) =>
            draft.content = [conversation |-> draft.content.conversation,
                             body |-> draft.content.body]
    BY DEF LegibleToContact
  <2>2. LegibleToGroup(draft.content) => draft.content.conversation = "Group"
    BY DEF LegibleToGroup
  <2>3. QED
    BY <1>1, <2>1, <2>2 DEF Received
<1>9. OnlyResumes(payload)
  BY <1>4, <1>8, Zenon DEF OnlyResumes, IsEncodingOf
<1>10. QED
  BY <1>4, <1>7, <1>9 DEF Understood, IsEncodingOf

\* ... what the bridge is told to send, ...
LEMMA SendMessageUnderstood ==
    ASSUME NEW draft, NEW n, Legible(draft, n), draft.via = "SendMessage",
           NEW payload \in Encodings(draft, n)
    PROVE  Understood(draft, n, payload)
<1> DEFINE text == [kind |-> "Text", text |-> draft.text]
           said == [conversation |-> "Contact", body |-> text]
           message == [id |-> draft.id, createdAt |-> draft.createdAt, disableReceipts |-> FALSE,
                       content |-> said]
<1>1. IsSequence(draft.text) /\ IsUtf8(draft.text)
  BY DEF Legible
<1>2. LegibleToContact(said)
  BY <1>1 DEF LegibleToContact, LegibleText
<1>3. IsKept(said)
  BY <1>2, ContentKept
<1>4. /\ message.id = draft.id /\ message.createdAt = draft.createdAt
      /\ message.content = said /\ message.disableReceipts \in BOOLEAN
      /\ ~message.disableReceipts
  OBVIOUS
<1>5. PICK padding \in Paddings :
          payload = EncodeMessage(<<Sender, Receiver>>, message, Update(Nickname), {}, padding, n)
  BY DEF Encodings, SendMessage
<1>6. said.conversation = "Contact" /\ said.body.kind = "Text" /\ Received(said) = said
  BY DEF Received
<1>7. Properties(said).profile
  BY <1>6, PropertiesOf
<1> HIDE DEF message, said
<1>8. IsEncodingOf(payload, message, Update(Nickname), n)
  BY <1>3, <1>4, <1>5, EncodedRead
<1>9. Meant(draft) = said
  BY DEF Meant, said
<1>10. DeltaOf(draft) = Update(Nickname)
  BY DEF DeltaOf, Announced
<1>11. ReadsAsMeant(draft, payload)
  BY <1>4, <1>6, <1>7, <1>8, <1>9, <1>10, Zenon DEF ReadsAsMeant, Disabled, IsEncodingOf
<1>12. QED
  BY <1>4, <1>6, <1>8, <1>11 DEF Understood, OnlyResumes, IsEncodingOf

\* ... and bytes it is given to send as they are.
LEMMA SendRawUnderstood ==
    ASSUME NEW draft, NEW n, Legible(draft, n), draft.via = "SendRaw",
           NEW payload \in Encodings(draft, n)
    PROVE  Understood(draft, n, payload)
<1> DEFINE bytes == <<draft.type>> \o draft.data
           length == BlockSize - (Len(bytes) % BlockSize)
           container == Padded(bytes, length)
           legacyCreated == draft.createdAt \div 1000
<1>1. /\ draft.type \in LowTypes \cup HighTypes
      /\ draft.data \in Seq(ToSet(draft.data))
      /\ DecodeContent(draft.type, draft.data) = {draft.meant}
  BY DEF Legible, IsSequence
<1>2. bytes \in Seq({draft.type} \cup ToSet(draft.data))
  <2> DEFINE S == {draft.type} \cup ToSet(draft.data)
  <2>1. <<draft.type>> \in Seq(S) /\ draft.data \in Seq(S)
    BY <1>1, SeqMonotonic
  <2> HIDE DEF S
  <2>2. QED
    BY <2>1, ConcatProperties DEF S
<1>3. length \in Nat \ {0}
  <2>1. Len(bytes) \in Nat /\ BlockSize \in Nat \ {0}
    BY <1>2, ExchangeAssumption
  <2> HIDE DEF bytes
  <2>2. Len(bytes) % BlockSize \in 0 .. BlockSize - 1
    BY <2>1
  <2>3. QED
    BY <2>1, <2>2
<1>4. DecodeContainer(container) = {draft.meant}
  <2> HIDE DEF length
  <2>1. QED
    BY <1>1, <1>3, PaddingRemoved
<1>5. payload = Payload(<<Sender, Receiver>>, draft, legacyCreated, {"push"}, {Nickname},
                        EncodeMetadata(draft, Update(Nickname)), n, container)
  BY DEF Encodings, SendRaw
<1> HIDE DEF bytes, length, container, legacyCreated
<1>6. IsReadAs(payload, draft, {"push"}, Update(Nickname), n, draft.meant)
  BY <1>4, <1>5, PayloadRead
<1>7. ~DisableReceipts({"push"}) /\ "noQueuing" \notin {"push"}
  BY DEF DisableReceipts
<1>8. Meant(draft) = draft.meant /\ DeltaOf(draft) = Update(Nickname) /\ ~Disabled(draft)
  BY DEF Meant, DeltaOf, Announced, Disabled
<1>9. ReadsAsMeant(draft, payload)
  BY <1>6, <1>7, <1>8, Zenon DEF ReadsAsMeant, IsReadAs
<1>10. QED
  BY <1>6, <1>7, <1>9 DEF IsReadAs, Understood, OnlyResumes

\* What may be sent is understood.
LEMMA AllUnderstood ==
    ASSUME NEW draft, NEW n, Legible(draft, n), NEW payload \in Encodings(draft, n)
    PROVE  Understood(draft, n, payload)
<1>1. draft.via \in {"Library", "SendMessage", "SendRaw", "Foreign"}
  BY Zenon DEF Legible
<1>2. CASE draft.via = "Foreign"
  <2>1. payload.nonce = n /\ "noQueuing" \notin payload.flags
    BY <1>2 DEF Legible
  <2>2. QED
    BY <1>2, <2>1 DEF Understood, OnlyResumes
<1>3. QED
  BY <1>1, <1>2, LibraryUnderstood, SendMessageUnderstood, SendRawUnderstood

-----------------------------------------------------------------------------
(* Nicknames                                                               *)

\* The changes of a nickname differ.
LEMMA Deltas ==
    ASSUME NEW v
    PROVE  /\ Unchanged # Removal /\ Update(v) # Unchanged /\ Update(v) # Removal
           /\ Update(v).value = v
<1>1. /\ Unchanged.delta = "Unchanged" /\ Removal.delta = "Removal"
      /\ Update(v).delta = "Update" /\ Update(v).value = v
  BY DEF Unchanged, Removal, Update
<1>2. QED
  BY <1>1

LEMMA TrimNothing == Trim(<<>>) = <<>>
<1>1. DOMAIN <<>> = {}
  OBVIOUS
<1>2. {i \in DOMAIN <<>> : <<>>[i] # " "} = {}
  BY <1>1, Zenon
<1>3. QED
  BY <1>2, Zenon DEF Trim

\* What a contact is called once it announced a change.
Named(delta) == IF delta = Removal \/ Trim(delta.value) = <<>> THEN {} ELSE {Trim(delta.value)}

\* No change is heard as none, ...
LEMMA HeardUnchanged == HeardAs(Unchanged) = Unchanged
<1>1. IntoNonEmpty(Unchanged) = {}
  BY Deltas DEF IntoNonEmpty
<1>2. {Trim(name) : name \in IntoNonEmpty(Unchanged)} = {}
  BY <1>1
<1>3. QED
  BY <1>2 DEF HeardAs, FromNonEmpty

\* ... and a change is applied as it was announced, without spaces.
LEMMA HeardChange ==
    ASSUME NEW delta, delta # Unchanged, delta = Removal \/ delta = Update(delta.value), NEW nick
    PROVE  Apply(nick, HeardAs(delta)) = Named(delta)
<1>1. ASSUME NEW trimmed, IntoNonEmpty(delta) # {},
             {Trim(name) : name \in IntoNonEmpty(delta)} = {trimmed}
      PROVE  Apply(nick, HeardAs(delta)) = IF trimmed = <<>> THEN {} ELSE {trimmed}
  <2>1. CASE trimmed = <<>>
    <3>1. HeardAs(delta) = Removal
      BY <1>1, <2>1 DEF HeardAs, FromNonEmpty
    <3>2. QED
      BY <2>1, <3>1, Deltas DEF Apply
  <2>2. CASE trimmed # <<>>
    <3>1. HeardAs(delta) = Update(trimmed)
      BY <1>1, <2>2, TheOne DEF HeardAs, FromNonEmpty
    <3>2. QED
      BY <2>2, <3>1, Deltas DEF Apply
  <2>3. QED
    BY <2>1, <2>2
<1>2. CASE delta = Removal
  <2>1. IntoNonEmpty(delta) = {<<>>}
    BY <1>2, Deltas DEF IntoNonEmpty
  <2>2. {Trim(name) : name \in IntoNonEmpty(delta)} = {<<>>}
    BY <2>1, TrimNothing
  <2>3. QED
    BY <1>1, <1>2, <2>1, <2>2 DEF Named
<1>3. CASE delta # Removal
  <2>1. IntoNonEmpty(delta) = {delta.value}
    BY <1>3, Zenon DEF IntoNonEmpty
  <2>2. {Trim(name) : name \in IntoNonEmpty(delta)} = {Trim(delta.value)}
    BY <2>1
  <2>3. QED
    BY <1>1, <1>3, <2>1, <2>2 DEF Named
<1>4. QED
  BY <1>2, <1>3

\* Handling a message changes the nickname as it was announced.
Announces(draft) ==
    /\ draft.via = "SendRaw" \/ Meant(draft).body.kind # "DeliveryReceipt"
    /\ Announced(draft) # Unchanged

LEMMA NicknameHeard ==
    ASSUME NEW draft, NEW n, Legible(draft, n), draft.via # "Foreign", NEW nick
    PROVE  LET heard == Apply(nick, HeardAs(DeltaOf(draft)))
               isResume == Meant(draft).body.kind = "WebSessionResume"
           IN  /\ isResume \/ ~Announces(draft) => heard = nick
               /\ ~isResume /\ Announces(draft) => heard = Named(Announced(draft))
<1>1. draft.via \in {"Library", "SendMessage", "SendRaw"}
  BY Zenon DEF Legible
<1>2. Announced(draft) \in {Unchanged, Removal} \/ Announced(draft) = Update(Announced(draft).value)
  <2>1. CASE draft.via = "Library"
    BY <2>1 DEF Announced, Legible
  <2>2. CASE draft.via # "Library"
    BY <2>2, Deltas DEF Announced
  <2>3. QED
    BY <2>1, <2>2
<1>3. Apply(nick, HeardAs(Unchanged)) = nick
  BY HeardUnchanged, Deltas DEF Apply
<1>4. Announced(draft) # Unchanged =>
          Apply(nick, HeardAs(Announced(draft))) = Named(Announced(draft))
  BY <1>2, HeardChange
<1>5. CASE draft.via = "Library"
  <2>1. LegibleToContact(draft.content) \/ LegibleToGroup(draft.content)
    BY <1>5 DEF Legible
  <2>2. /\ Meant(draft).body = draft.content.body
        /\ draft.content.conversation = "Group" =>
               draft.content.body.kind \in {"Text", "LegacyReaction"}
    <3>1. LegibleToContact(draft.content) =>
              /\ draft.content = [conversation |-> draft.content.conversation,
                                  body |-> draft.content.body]
              /\ draft.content.conversation # "Group"
      BY DEF LegibleToContact
    <3>2. LegibleToGroup(draft.content) =>
              /\ draft.content.conversation = "Group"
              /\ draft.content.body.kind \in {"Text", "LegacyReaction"}
      BY DEF LegibleToGroup, LegibleText, LegibleReaction, LegibleReceipt
    <3>3. QED
      BY <1>5, <2>1, <3>1, <3>2 DEF Meant
  <2>3. Properties(draft.content).profile <=>
            Meant(draft).body.kind \notin {"DeliveryReceipt", "WebSessionResume"}
    BY <2>2, PropertiesOf
  <2>4. CASE Meant(draft).body.kind \in {"DeliveryReceipt", "WebSessionResume"}
    <3>1. DeltaOf(draft) = Unchanged
      BY <1>5, <2>3, <2>4 DEF DeltaOf
    <3>2. QED
      BY <1>3, <1>5, <2>4, <3>1 DEF Announces
  <2>5. CASE Meant(draft).body.kind \notin {"DeliveryReceipt", "WebSessionResume"}
    <3>1. DeltaOf(draft) = Announced(draft)
      BY <1>5, <2>3, <2>5 DEF DeltaOf
    <3>2. QED
      BY <1>3, <1>4, <2>5, <3>1 DEF Announces
  <2>6. QED
    BY <2>4, <2>5
<1>6. CASE draft.via # "Library"
  <2>1. /\ DeltaOf(draft) = Announced(draft) /\ Announced(draft) # Unchanged
    BY <1>6, Deltas DEF DeltaOf, Announced
  <2>2. Announces(draft) /\ Meant(draft).body.kind # "WebSessionResume"
    <3>1. CASE draft.via = "SendMessage"
      BY <2>1, <3>1 DEF Announces, Meant
    <3>2. CASE draft.via = "SendRaw"
      BY <2>1, <3>2 DEF Announces, Meant, Legible
    <3>3. QED
      BY <1>1, <1>6, <3>1, <3>2
  <2>3. QED
    BY <1>4, <2>1, <2>2
<1>7. QED
  BY <1>5, <1>6

\* Whether a receipt is due is what the sender wants.
Wants(draft) ==
    /\ Meant(draft).conversation = "Contact"
    /\ Meant(draft).body.kind \notin {"DeliveryReceipt", "LegacyReaction"}
    /\ draft.via = "Library" => ~draft.disableReceipts

LEMMA ReceiptWanted ==
    ASSUME NEW draft, NEW n, Legible(draft, n), draft.via # "Foreign",
           Meant(draft).body.kind # "WebSessionResume",
           NEW inner, inner.content = Meant(draft), inner.disableReceipts <=> Disabled(draft)
    PROVE  EffectiveProperties(inner).receipts <=> Wants(draft)
<1>1. draft.via \in {"Library", "SendMessage", "SendRaw"}
  BY Zenon DEF Legible
<1>2. Meant(draft).conversation \in {"Contact", "Group"}
  <2>1. CASE draft.via = "Library"
    <3>1. LegibleToContact(draft.content) \/ LegibleToGroup(draft.content)
      BY <2>1 DEF Legible
    <3>2. Meant(draft) = Received(draft.content)
      BY <2>1 DEF Meant, Received
    <3>3. LegibleToContact(draft.content) =>
              /\ draft.content = [conversation |-> draft.content.conversation,
                                  body |-> draft.content.body]
              /\ draft.content.conversation \in {"Contact", "DistributionList"}
      BY DEF LegibleToContact
    <3>4. LegibleToGroup(draft.content) => draft.content.conversation = "Group"
      BY DEF LegibleToGroup
    <3>5. QED
      BY <3>1, <3>2, <3>3, <3>4 DEF Received
  <2>2. CASE draft.via = "SendMessage"
    BY <2>2 DEF Meant
  <2>3. CASE draft.via = "SendRaw"
    <3>1. draft.meant \in DecodeContent(draft.type, draft.data)
      BY <2>3 DEF Legible
    <3>2. Meant(draft) = draft.meant
      BY <2>3 DEF Meant
    <3>3. QED
      BY <3>1, <3>2, Conversations
  <2>4. QED
    BY <1>1, <2>1, <2>2, <2>3
<1>3. EffectiveProperties(inner).receipts <=>
          Properties(Meant(draft)).receipts /\ ~inner.disableReceipts
  BY PropertiesOf DEF EffectiveProperties
<1>4. Properties(Meant(draft)).receipts <=>
          /\ Meant(draft).conversation # "Group"
          /\ Meant(draft).body.kind \notin {"DeliveryReceipt", "LegacyReaction"}
  BY PropertiesOf
<1>5. QED
  BY <1>2, <1>3, <1>4 DEF Wants, Disabled

-----------------------------------------------------------------------------
(* The invariant                                                           *)

\* A payload on its way is one of those its draft may have been encoded as.
IsSent(payload) ==
    /\ payload.nonce \in 1 .. sentUpTo
    /\ payload \in Encodings(scenario[payload.nonce], payload.nonce)
IsQueueable(payload) == "noQueuing" \notin payload.flags

\* What is done with is not handled any more.
IsDone(payload) ==
    \/ ~IsDecodable(payload)
    \/ payload.nonce \in nonces
    \/ payload.receiver # Receiver
    \/ \E i \in DOMAIN handed : handed[i].message.id = payload.id

ScenarioInv == scenario \in MessageScenarios /\ sentUpTo \in 0 .. Len(scenario)

HeldInv ==
    /\ delivered \subseteq 1 .. sentUpTo
    /\ \A payload \in queue : IsSent(payload) /\ IsQueueable(payload)
    /\ \A payload, other \in queue : payload.nonce = other.nonce => payload = other

InboundInv == IsSequence(inbound) /\ \A i \in DOMAIN inbound : IsSent(inbound[i])

\* Messages of the queue arrive in their order, before those not yet delivered.
OrderInv ==
    \A i \in DOMAIN inbound : IsQueueable(inbound[i]) =>
        /\ \A j \in DOMAIN inbound :
               i < j /\ IsQueueable(inbound[j]) => inbound[i].nonce < inbound[j].nonce
        /\ \A payload \in queue :
               payload.nonce \notin delivered => inbound[i].nonce < payload.nonce

\* What was delivered on this connection is on its way, unless it is done with.
DeliveredInv ==
    \A payload \in queue : payload.nonce \in delivered =>
        IsDone(payload) \/ \E i \in DOMAIN inbound : inbound[i] = payload

\* Nothing up to what was handed on is handled again.
HandedInv ==
    /\ IsSequence(handed)
    /\ \A i \in DOMAIN handed :
           /\ handed[i].number \in 1 .. sentUpTo
           /\ \A payload \in queue : payload.nonce <= handed[i].number => IsDone(payload)
           /\ \A j \in DOMAIN inbound :
                  IsQueueable(inbound[j]) /\ inbound[j].nonce <= handed[i].number =>
                      IsDone(inbound[j])

TransportInv == ScenarioInv /\ HeldInv /\ InboundInv /\ OrderInv /\ DeliveredInv /\ HandedInv
ExchangeInv == TransportInv /\ EndsAgree /\ NicknameFollows

\* A sequence with one more element, ...
LEMMA Appended ==
    ASSUME NEW s, IsSequence(s), NEW x
    PROVE  /\ IsSequence(Append(s, x)) /\ Len(s) \in Nat
           /\ DOMAIN s = 1 .. Len(s) /\ DOMAIN Append(s, x) = 1 .. Len(s) + 1
           /\ Append(s, x)[Len(s) + 1] = x
           /\ \A i \in 1 .. Len(s) : Append(s, x)[i] = s[i]
<1> DEFINE S == ToSet(s) \cup {x}
<1>1. s \in Seq(S)
  <2>1. s \in Seq(ToSet(s)) /\ ToSet(s) \subseteq S
    BY DEF IsSequence
  <2>2. QED
    BY <2>1, SeqMonotonic
<1>2. x \in S
  OBVIOUS
<1> HIDE DEF S
<1>3. Append(s, x) \in Seq(S)
  BY <1>1, <1>2
<1>4. IsSequence(Append(s, x))
  BY <1>3, SequenceOfElements
<1>5. QED
  BY <1>1, <1>2, <1>4

\* ... and what is behind the first.
LEMMA Behind ==
    ASSUME NEW s, IsSequence(s), s # <<>>
    PROVE  /\ IsSequence(Tail(s)) /\ Len(s) \in Nat /\ DOMAIN s = 1 .. Len(s)
           /\ 1 \in DOMAIN s /\ s[1] = Head(s)
           /\ DOMAIN Tail(s) = 1 .. Len(s) - 1
           /\ \A i \in 1 .. Len(s) - 1 : i + 1 \in DOMAIN s /\ Tail(s)[i] = s[i + 1]
<1> DEFINE S == ToSet(s)
<1>1. s \in Seq(S)
  BY DEF IsSequence
<1> HIDE DEF S
<1>2. Tail(s) \in Seq(S)
  BY <1>1
<1>3. IsSequence(Tail(s))
  BY <1>2, SequenceOfElements
<1>4. QED
  BY <1>1, <1>3

\* It starts so.
LEMMA ExchangeStarts == ExchangeInit => ExchangeInv
<1> SUFFICES ASSUME ExchangeInit
             PROVE  ExchangeInv
  OBVIOUS
<1> USE DEF ExchangeInit
<1>1. IsSequence(<<>>) /\ DOMAIN <<>> = {}
  <2>1. <<>> \in Seq({}) /\ DOMAIN <<>> = {}
    OBVIOUS
  <2>2. QED
    BY <2>1, SequenceOfElements
<1>2. ScenarioInv
  <2>1. Len(scenario) \in Nat
    BY ExchangeAssumption
  <2>2. QED
    BY <2>1 DEF ScenarioInv
<1>3. HeldInv /\ InboundInv /\ OrderInv /\ DeliveredInv /\ HandedInv
  BY <1>1 DEF HeldInv, InboundInv, OrderInv, DeliveredInv, HandedInv
<1>4. HandedNumbers = {} /\ DOMAIN handed = {}
  BY <1>1 DEF HandedNumbers
<1>5. EndsAgree
  BY <1>4 DEF EndsAgree, ArrivesIntact, ReceiptsAgreed
<1>6. NicknameFollows
  BY <1>4 DEF NicknameFollows
<1>7. QED
  BY <1>2, <1>3, <1>5, <1>6 DEF ExchangeInv, TransportInv

\* What was handed on says the same as long as nothing is added to it.
LEMMA NothingHanded ==
    ASSUME EndsAgree, NicknameFollows, UNCHANGED <<scenario, handed, receiptsDue, nickname>>
    PROVE  EndsAgree' /\ NicknameFollows'
<1>1. EndsAgree'
  BY DEF EndsAgree, ArrivesIntact, ReceiptsAgreed, HandedNumbers, IsOwn, WantsReceipt
<1>2. NicknameFollows'
  BY DEF NicknameFollows, HandedNumbers, IsOwn, IsAnnouncement
<1>3. QED
  BY <1>1, <1>2

\* What is sent next is understood, and newer than what was sent.
LEMMA SentIsKnown ==
    ASSUME AllLegible, ScenarioInv, NEW payload, IsSent(payload)
    PROVE  /\ payload.nonce \in DOMAIN scenario
           /\ Legible(scenario[payload.nonce], payload.nonce)
           /\ Understood(scenario[payload.nonce], payload.nonce, payload)
<1>1. payload.nonce \in DOMAIN scenario
  <2>1. scenario \in Seq(ToSet(scenario))
    BY ExchangeAssumption DEF ScenarioInv
  <2>2. QED
    BY <2>1 DEF ScenarioInv, IsSent
<1>2. Legible(scenario[payload.nonce], payload.nonce)
  BY <1>1 DEF AllLegible, ScenarioInv
<1>3. QED
  BY <1>1, <1>2, AllUnderstood DEF IsSent

\* What is sent is newer than all that is on its way or was handed on.
LEMMA SendKeeps ==
    ASSUME AllLegible, TransportInv, Send
    PROVE  TransportInv'
<1> DEFINE n == sentUpTo + 1
<1>1. PICK payload \in Encodings(scenario[n], n) :
          IF "noQueuing" \in payload.flags
          THEN /\ inbound' = IF connected THEN Append(inbound, payload) ELSE inbound
               /\ UNCHANGED queue
          ELSE /\ queue' = queue \cup {payload}
               /\ UNCHANGED inbound
  BY DEF Send
<1>2. /\ sentUpTo < Len(scenario) /\ sentUpTo' = n
      /\ UNCHANGED <<scenario, connected, delivered, losses, acks, nickname, nonces, handed,
                     receiptsDue>>
  BY DEF Send, receiver
<1>3. /\ scenario \in Seq(ToSet(scenario)) /\ sentUpTo \in 0 .. Len(scenario)
      /\ Len(scenario) \in Nat /\ n \in 1 .. Len(scenario)
  <2>1. scenario \in Seq(ToSet(scenario)) /\ sentUpTo \in 0 .. Len(scenario)
    BY ExchangeAssumption DEF TransportInv, ScenarioInv
  <2>2. Len(scenario) \in Nat
    BY <2>1
  <2>3. QED
    BY <1>2, <2>1, <2>2
<1>4. payload.nonce = n
  <2>1. Legible(scenario[n], n)
    BY <1>3 DEF AllLegible, TransportInv, ScenarioInv
  <2>2. QED
    BY <2>1, AllUnderstood DEF Understood
<1>5. IsSent(payload)'
  BY <1>2, <1>3, <1>4 DEF IsSent
<1>6. \A other : IsSent(other) => IsSent(other)' /\ other.nonce \in 1 .. sentUpTo
  BY <1>2, <1>3 DEF IsSent
<1>7. \A other : IsDone(other)' <=> IsDone(other)
  BY <1>2 DEF IsDone
<1> HIDE DEF n
<1>8. ScenarioInv' /\ delivered' \subseteq 1 .. sentUpTo'
  <2>1. ScenarioInv'
    BY <1>2, <1>3 DEF TransportInv, ScenarioInv
  <2>2. delivered' \subseteq 1 .. sentUpTo'
    BY <1>2, <1>3 DEF TransportInv, HeldInv, n
  <2>3. QED
    BY <2>1, <2>2
<1>9. CASE "noQueuing" \in payload.flags /\ connected
  <2>1. inbound' = Append(inbound, payload) /\ queue' = queue /\ ~IsQueueable(payload)
    BY <1>1, <1>9 DEF IsQueueable
  <2>2. /\ IsSequence(inbound') /\ Len(inbound) \in Nat
        /\ DOMAIN inbound = 1 .. Len(inbound) /\ DOMAIN inbound' = 1 .. Len(inbound) + 1
        /\ inbound'[Len(inbound) + 1] = payload
        /\ \A i \in 1 .. Len(inbound) : inbound'[i] = inbound[i]
    BY <2>1, Appended DEF TransportInv, InboundInv
  <2>3. HeldInv'
    BY <1>6, <1>8, <2>1 DEF TransportInv, HeldInv, IsQueueable
  <2>4. InboundInv'
    BY <1>5, <1>6, <2>2 DEF TransportInv, InboundInv
  <2>5. OrderInv'
    BY <1>2, <2>1, <2>2 DEF TransportInv, OrderInv, IsQueueable
  <2>6. DeliveredInv'
    BY <1>2, <1>7, <2>1, <2>2 DEF TransportInv, DeliveredInv
  <2>7. HandedInv'
    <3>1. \A i \in DOMAIN handed : handed[i].number \in 1 .. sentUpTo'
      BY <1>2, <1>3 DEF TransportInv, HandedInv, n
    <3>2. QED
      BY <1>2, <1>7, <2>1, <2>2, <3>1 DEF TransportInv, HandedInv, IsQueueable
  <2>8. QED
    BY <1>8, <2>3, <2>4, <2>5, <2>6, <2>7 DEF TransportInv
<1>10. CASE "noQueuing" \in payload.flags /\ ~connected
  <2>1. UNCHANGED <<queue, inbound>>
    BY <1>1, <1>10
  <2>2. HeldInv' /\ InboundInv'
    BY <1>6, <1>8, <2>1 DEF TransportInv, HeldInv, InboundInv, IsQueueable
  <2>3. OrderInv' /\ DeliveredInv'
    BY <1>2, <1>7, <2>1 DEF TransportInv, OrderInv, DeliveredInv, IsQueueable
  <2>4. \A i \in DOMAIN handed : handed[i].number \in 1 .. sentUpTo'
    BY <1>2, <1>3 DEF TransportInv, HandedInv, n
  <2>5. HandedInv'
    BY <1>2, <1>7, <2>1, <2>4 DEF TransportInv, HandedInv, IsQueueable
  <2>6. QED
    BY <1>8, <2>2, <2>3, <2>5 DEF TransportInv
<1>11. CASE "noQueuing" \notin payload.flags
  <2>1. queue' = queue \cup {payload} /\ inbound' = inbound /\ IsQueueable(payload)
    BY <1>1, <1>11 DEF IsQueueable
  <2>2. \A other \in queue : other.nonce \in 1 .. sentUpTo
    BY <1>6 DEF TransportInv, HeldInv
  <2>3. \A i \in DOMAIN inbound : inbound[i].nonce \in 1 .. sentUpTo
    BY <1>6 DEF TransportInv, InboundInv
  <2>4. \A i \in DOMAIN handed : handed[i].number \in 1 .. sentUpTo
    BY DEF TransportInv, HandedInv
  <2>5. \A k \in 1 .. sentUpTo : k < n /\ k # n /\ ~(n <= k)
    BY <1>3 DEF n
  <2>6. HeldInv'
    <3>1. \A other \in queue' : IsSent(other)' /\ IsQueueable(other)'
      BY <1>5, <1>6, <2>1 DEF TransportInv, HeldInv, IsQueueable
    <3>2. \A p, q \in queue' : p.nonce = q.nonce => p = q
      BY <1>4, <2>1, <2>2, <2>5 DEF TransportInv, HeldInv
    <3>3. QED
      BY <1>8, <3>1, <3>2 DEF HeldInv
  <2>7. InboundInv'
    BY <1>6, <2>1 DEF TransportInv, InboundInv
  <2>8. OrderInv'
    BY <1>2, <1>4, <2>1, <2>3, <2>5 DEF TransportInv, OrderInv, IsQueueable
  <2>9. DeliveredInv'
    <3>1. n \notin delivered
      BY <1>3, <2>5 DEF TransportInv, HeldInv
    <3>2. QED
      BY <1>2, <1>4, <1>7, <2>1, <3>1 DEF TransportInv, DeliveredInv
  <2>10. HandedInv'
    <3>1. \A i \in DOMAIN handed : handed[i].number \in 1 .. sentUpTo'
      BY <1>2, <1>3, <2>4 DEF n
    <3>2. QED
      BY <1>2, <1>4, <1>7, <2>1, <2>4, <2>5, <3>1 DEF TransportInv, HandedInv, IsQueueable
  <2>11. QED
    BY <1>8, <2>6, <2>7, <2>8, <2>9, <2>10 DEF TransportInv
<1>12. QED
  BY <1>9, <1>10, <1>11

\* The oldest message not yet delivered follows those on their way.
LEMMA DeliverKeeps ==
    ASSUME TransportInv, Deliver
    PROVE  TransportInv'
<1>1. PICK payload \in Undelivered :
          /\ \A other \in Undelivered : payload.nonce <= other.nonce
          /\ delivered' = delivered \cup {payload.nonce}
          /\ inbound' = Append(inbound, payload)
  BY DEF Deliver
<1>2. UNCHANGED <<scenario, sentUpTo, queue, nonces, handed>>
  BY DEF Deliver, receiver
<1>3. payload \in queue /\ payload.nonce \notin delivered
  BY DEF Undelivered
<1>4. IsSent(payload) /\ IsQueueable(payload) /\ payload.nonce \in 1 .. sentUpTo
  BY <1>3 DEF TransportInv, HeldInv, IsSent
<1>5. \A other : (IsSent(other)' <=> IsSent(other)) /\ (IsDone(other)' <=> IsDone(other))
  BY <1>2 DEF IsSent, IsDone
<1>6. /\ IsSequence(inbound') /\ Len(inbound) \in Nat
      /\ DOMAIN inbound = 1 .. Len(inbound) /\ DOMAIN inbound' = 1 .. Len(inbound) + 1
      /\ inbound'[Len(inbound) + 1] = payload
      /\ \A i \in 1 .. Len(inbound) : inbound'[i] = inbound[i]
  BY <1>1, Appended DEF TransportInv, InboundInv
<1>7. ScenarioInv' /\ HeldInv'
  BY <1>1, <1>2, <1>4, <1>5 DEF TransportInv, ScenarioInv, HeldInv, IsQueueable
<1>8. InboundInv'
  BY <1>4, <1>5, <1>6 DEF TransportInv, InboundInv
<1>9. OrderInv'
  <2> SUFFICES ASSUME NEW i \in DOMAIN inbound', IsQueueable(inbound'[i])
               PROVE  /\ \A j \in DOMAIN inbound' :
                             i < j /\ IsQueueable(inbound'[j]) =>
                                 inbound'[i].nonce < inbound'[j].nonce
                      /\ \A other \in queue :
                             other.nonce \notin delivered' => inbound'[i].nonce < other.nonce
    BY <1>2 DEF OrderInv, IsQueueable
  <2>1. CASE i = Len(inbound) + 1
    <3>1. \A j \in DOMAIN inbound' : ~(i < j)
      BY <1>6, <2>1
    <3>2. ASSUME NEW other \in queue, other.nonce \notin delivered'
          PROVE  payload.nonce < other.nonce
      <4>1. other \in Undelivered /\ other.nonce # payload.nonce
        BY <1>1, <3>2 DEF Undelivered
      <4>2. other.nonce \in 1 .. sentUpTo
        BY DEF TransportInv, HeldInv, IsSent
      <4>3. QED
        BY <1>1, <1>4, <4>1, <4>2
    <3>3. QED
      BY <1>6, <2>1, <3>1, <3>2
  <2>2. CASE i \in 1 .. Len(inbound)
    <3>1. inbound'[i] = inbound[i] /\ i \in DOMAIN inbound
      BY <1>6, <2>2
    <3>2. inbound[i].nonce < payload.nonce
      BY <1>3, <3>1 DEF TransportInv, OrderInv
    <3>3. QED
      BY <1>1, <1>6, <2>2, <3>1, <3>2 DEF TransportInv, OrderInv
  <2>3. QED
    BY <1>6, <2>1, <2>2
<1>10. DeliveredInv'
  <2> SUFFICES ASSUME NEW other \in queue, other.nonce \in delivered'
               PROVE  IsDone(other) \/ \E i \in DOMAIN inbound' : inbound'[i] = other
    BY <1>2, <1>5 DEF DeliveredInv
  <2>1. CASE other.nonce = payload.nonce
    <3>1. other = payload
      BY <1>3, <2>1 DEF TransportInv, HeldInv
    <3>2. QED
      BY <1>6, <3>1
  <2>2. CASE other.nonce # payload.nonce
    BY <1>1, <1>6, <2>2 DEF TransportInv, DeliveredInv
  <2>3. QED
    BY <2>1, <2>2
<1>11. HandedInv'
  <2>1. IsSequence(handed)'
    BY <1>2 DEF TransportInv, HandedInv, IsSequence
  <2> SUFFICES ASSUME NEW i \in DOMAIN handed
               PROVE  /\ handed[i].number \in 1 .. sentUpTo
                      /\ \A other \in queue : other.nonce <= handed[i].number => IsDone(other)
                      /\ \A j \in DOMAIN inbound' :
                             IsQueueable(inbound'[j]) /\ inbound'[j].nonce <= handed[i].number =>
                                 IsDone(inbound'[j])
    BY <1>2, <1>5, <2>1 DEF HandedInv, IsQueueable
  <2>2. QED
    BY <1>3, <1>6 DEF TransportInv, HandedInv
<1>12. QED
  BY <1>7, <1>8, <1>9, <1>10, <1>11 DEF TransportInv

\* The server forgets what was acknowledged, ...
LEMMA TakeAckKeeps ==
    ASSUME TransportInv, TakeAck
    PROVE  TransportInv'
<1>1. /\ queue' \subseteq queue
      /\ delivered' = delivered \cap {payload.nonce : payload \in queue'}
      /\ UNCHANGED <<scenario, sentUpTo, inbound, nonces, handed>>
  BY DEF TakeAck, receiver
<1>2. \A other : (IsSent(other)' <=> IsSent(other)) /\ (IsDone(other)' <=> IsDone(other))
  BY <1>1 DEF IsSent, IsDone
<1>3. \A payload \in queue' : payload.nonce \in delivered' <=> payload.nonce \in delivered
  BY <1>1
<1>4. ScenarioInv' /\ HeldInv' /\ InboundInv'
  BY <1>1, <1>2 DEF TransportInv, ScenarioInv, HeldInv, InboundInv, IsQueueable
<1>5. OrderInv' /\ DeliveredInv'
  BY <1>1, <1>2, <1>3 DEF TransportInv, OrderInv, DeliveredInv, IsQueueable
<1>6. HandedInv'
  BY <1>1, <1>2 DEF TransportInv, HandedInv, IsQueueable
<1>7. QED
  BY <1>4, <1>5, <1>6 DEF TransportInv

\* ... and delivers all it still has again after the connection was lost.
LEMMA LoseKeeps ==
    ASSUME TransportInv, Lose
    PROVE  TransportInv'
<1>1. /\ delivered' = {} /\ inbound' = <<>>
      /\ UNCHANGED <<scenario, sentUpTo, queue, nonces, handed>>
  BY DEF Lose, receiver
<1>2. \A other : (IsSent(other)' <=> IsSent(other)) /\ (IsDone(other)' <=> IsDone(other))
  BY <1>1 DEF IsSent, IsDone
<1>3. IsSequence(<<>>) /\ DOMAIN <<>> = {}
  <2>1. <<>> \in Seq({}) /\ DOMAIN <<>> = {}
    OBVIOUS
  <2>2. QED
    BY <2>1, SequenceOfElements
<1>4. ScenarioInv' /\ HeldInv'
  BY <1>1, <1>2 DEF TransportInv, ScenarioInv, HeldInv, IsQueueable
<1>5. InboundInv' /\ OrderInv' /\ DeliveredInv'
  BY <1>1, <1>3 DEF InboundInv, OrderInv, DeliveredInv
<1>6. HandedInv'
  BY <1>1, <1>2, <1>3 DEF TransportInv, HandedInv
<1>7. QED
  BY <1>4, <1>5, <1>6 DEF TransportInv

\* Other steps leave all that as it is.
LEMMA NothingKeeps ==
    ASSUME TransportInv,
           UNCHANGED <<scenario, sentUpTo, queue, delivered, inbound, nonces, handed>>
    PROVE  TransportInv'
<1>1. \A other : (IsSent(other)' <=> IsSent(other)) /\ (IsDone(other)' <=> IsDone(other))
  BY DEF IsSent, IsDone
<1>2. ScenarioInv' /\ HeldInv' /\ InboundInv' /\ OrderInv'
  BY <1>1 DEF TransportInv, ScenarioInv, HeldInv, InboundInv, OrderInv, IsQueueable
<1>3. DeliveredInv' /\ HandedInv'
  BY <1>1 DEF TransportInv, DeliveredInv, HandedInv, IsQueueable
<1>4. QED
  BY <1>2, <1>3 DEF TransportInv

\* A message has the ID of its payload.
LEMMA DecodedId ==
    ASSUME NEW payload, NEW keys, NEW m \in DecodeMessage(payload, keys)
    PROVE  m.inner.id = payload.id
<1>1. PICK seen \in Metadata(payload, keys),
           found \in UNION {DecodeContainer(opened) :
                            opened \in Open("message", keys, payload.nonce, payload.container)} :
        m = [metadata |-> seen,
             inner |-> [sender |-> payload.sender, id |-> payload.id,
                        disableReceipts |-> DisableReceipts(payload.flags),
                        createdAt |-> IF seen = {} THEN payload.legacyCreated * 1000
                                      ELSE The(seen).createdAt,
                        content |-> found]]
  BY DEF DecodeMessage
<1>2. QED
  BY <1>1

\* What the receiver does with the payload in front: it is done with it, and adds a new
\* one to the conversation or nothing.
Adds(payload, message) ==
    /\ ~IsDone(payload)
    /\ message \in DecodeMessage(payload, {Sender, Receiver})
    /\ message.inner.content.body.kind # "WebSessionResume"
    /\ nickname' = Apply(nickname, SenderNickname(payload, message))
    /\ handed' = Append(handed, [number |-> payload.nonce, message |-> message.inner])
    /\ receiptsDue' = IF EffectiveProperties(message.inner).receipts
                      THEN receiptsDue \cup {payload.id} ELSE receiptsDue

\* A resumed session changes no nickname.
LEMMA ResumeIsQuiet ==
    ASSUME AllLegible, ScenarioInv, NEW payload, IsSent(payload),
           NEW message \in DecodeMessage(payload, {Sender, Receiver}),
           message.inner.content.body.kind = "WebSessionResume", NEW nick
    PROVE  Apply(nick, SenderNickname(payload, message)) = nick
<1> DEFINE n == payload.nonce
           draft == scenario[n]
<1>1. Legible(draft, n) /\ Understood(draft, n, payload)
  BY SentIsKnown
<1>2. draft.via # "Foreign"
  <2>1. draft.via = "Foreign" => message.inner.content.body.kind # "WebSessionResume"
    BY <1>1 DEF Legible, IsSent
  <2>2. QED
    BY <2>1
<1>3. /\ message.inner.content = Meant(draft)
      /\ message.metadata # {} /\ The(message.metadata).nickname = HeardAs(DeltaOf(draft))
  BY <1>1, <1>2 DEF Understood, ReadsAsMeant
<1>4. SenderNickname(payload, message) = HeardAs(DeltaOf(draft))
  BY <1>3, Zenon DEF SenderNickname
<1>5. QED
  BY <1>1, <1>2, <1>3, <1>4, NicknameHeard

\* The outcome of a payload taken from the connection.
LEMMA Outcome ==
    ASSUME AllLegible, TransportInv, Receive, NEW payload, payload = Head(inbound)
    PROVE  /\ inbound # <<>> /\ inbound' = Tail(inbound)
           /\ UNCHANGED <<scenario, sentUpTo, queue, delivered>>
           /\ \A other : IsDone(other) => IsDone(other)'
           /\ IsDone(payload)'
           /\ \/ UNCHANGED <<handed, receiptsDue, nickname>>
              \/ \E message : Adds(payload, message)
<1>1. /\ inbound # <<>> /\ inbound' = Tail(inbound)
      /\ UNCHANGED <<scenario, sentUpTo, queue, delivered>>
  BY DEF Receive, server
<1>2. \/ DiscardPayload(payload)
      \/ DiscardReuse(payload)
      \/ /\ IsNew(payload)
         /\ \/ Accepted(payload) = {} /\ DiscardMessage(payload)
            \/ \E message \in Accepted(payload) : HandleMessage(payload, message)
  BY DEF Receive
<1>3. IsSent(payload)
  BY <1>1, Behind DEF TransportInv, InboundInv
<1>4. ASSUME nonces \subseteq nonces', handed' = handed
      PROVE  \A other : IsDone(other) => IsDone(other)'
  BY <1>4 DEF IsDone
<1>5. CASE DiscardPayload(payload)
  <2>1. /\ ~IsDecodable(payload) /\ nonces' = nonces
        /\ UNCHANGED <<handed, receiptsDue, nickname>>
    BY <1>5 DEF DiscardPayload, Acknowledge
  <2>2. IsDone(payload)'
    BY <2>1 DEF IsDone
  <2>3. QED
    BY <1>1, <1>4, <2>1, <2>2
<1>6. CASE DiscardReuse(payload)
  <2>1. /\ nonces' = nonces \cup {payload.nonce}
        /\ UNCHANGED <<handed, receiptsDue, nickname>>
    BY <1>6 DEF DiscardReuse, Acknowledge
  <2>2. IsDone(payload)'
    BY <2>1 DEF IsDone
  <2>3. QED
    BY <1>1, <1>4, <2>1, <2>2
<1>7. CASE Accepted(payload) = {} /\ DiscardMessage(payload)
  <2>1. /\ nonces' = nonces \cup {payload.nonce}
        /\ UNCHANGED <<handed, receiptsDue, nickname>>
    BY <1>7 DEF DiscardMessage, Acknowledge
  <2>2. IsDone(payload)'
    BY <2>1 DEF IsDone
  <2>3. QED
    BY <1>1, <1>4, <2>1, <2>2
<1>8. CASE IsNew(payload) /\ \E message \in Accepted(payload) : HandleMessage(payload, message)
  <2>1. PICK message \in Accepted(payload) : HandleMessage(payload, message)
    BY <1>8
  <2>2. /\ message \in DecodeMessage(payload, {Sender, Receiver})
        /\ \A i \in DOMAIN handed : handed[i].message.id # payload.id
    BY DEF Accepted
  <2>3. ~IsDone(payload)
    BY <1>8, <2>2 DEF IsNew, IsDone
  <2>4. nickname' = Apply(nickname, SenderNickname(payload, message))
    BY <2>1 DEF HandleMessage
  <2>5. CASE message.inner.content.body.kind = "WebSessionResume"
    <3>1. nonces' = nonces \cup {payload.nonce} /\ UNCHANGED <<handed, receiptsDue>>
      BY <2>1, <2>5 DEF HandleMessage, Acknowledge
    <3>2. IsDone(payload)'
      BY <3>1 DEF IsDone
    <3>3. nickname' = nickname
      BY <1>3, <2>2, <2>4, <2>5, ResumeIsQuiet DEF TransportInv
    <3>4. QED
      BY <1>1, <1>4, <3>1, <3>2, <3>3
  <2>6. CASE message.inner.content.body.kind # "WebSessionResume"
    <3> DEFINE properties == EffectiveProperties(message.inner)
               entry == [number |-> payload.nonce, message |-> message.inner]
    <3>1. /\ handed' = Append(handed, entry)
          /\ nonces' = IF properties.replay THEN nonces \cup {payload.nonce} ELSE nonces
          /\ receiptsDue' = IF properties.receipts THEN receiptsDue \cup {payload.id}
                            ELSE receiptsDue
      BY <2>1, <2>6 DEF HandleMessage, Acknowledge
    <3>2. Adds(payload, message)
      BY <2>2, <2>3, <2>4, <2>6, <3>1, Zenon DEF Adds
    <3>3. message.inner.id = payload.id
      BY <2>2, DecodedId
    <3>4. entry.message.id = payload.id
      BY <3>3
    <3> HIDE DEF properties, entry
    <3>5. /\ Len(handed) \in Nat
          /\ DOMAIN handed = 1 .. Len(handed) /\ DOMAIN handed' = 1 .. Len(handed) + 1
          /\ handed'[Len(handed) + 1] = entry
          /\ \A i \in 1 .. Len(handed) : handed'[i] = handed[i]
      BY <3>1, Appended DEF TransportInv, HandedInv
    <3>6. nonces \subseteq nonces'
      BY <3>1
    <3>7. ASSUME NEW other, IsDone(other)
          PROVE  IsDone(other)'
      BY <3>5, <3>6, <3>7 DEF IsDone
    <3>8. IsDone(payload)'
      BY <3>4, <3>5 DEF IsDone
    <3>9. QED
      BY <1>1, <3>2, <3>7, <3>8
  <2>7. QED
    BY <2>5, <2>6
<1>9. QED
  BY <1>2, <1>5, <1>6, <1>7, <1>8

\* What is not queued is not added to the conversation, and what is added is newer than
\* what is there: it was sent later.
LEMMA AddedIsNewest ==
    ASSUME AllLegible, TransportInv, inbound # <<>>,
           NEW payload, payload = Head(inbound), NEW message, Adds(payload, message)
    PROVE  /\ IsSent(payload) /\ IsQueueable(payload)
           /\ \A i \in DOMAIN handed : handed[i].number < payload.nonce
<1>1. 1 \in DOMAIN inbound /\ inbound[1] = payload
  BY Behind DEF TransportInv, InboundInv
<1>2. IsSent(payload)
  BY <1>1 DEF TransportInv, InboundInv
<1>3. IsQueueable(payload)
  <2>1. OnlyResumes(payload)
    BY <1>2, SentIsKnown DEF Understood, TransportInv
  <2>2. QED
    BY <2>1 DEF OnlyResumes, Adds, IsQueueable
<1>4. ASSUME NEW i \in DOMAIN handed
      PROVE  handed[i].number < payload.nonce
  <2>1. handed[i].number \in Nat /\ payload.nonce \in Nat
    BY <1>2 DEF TransportInv, HandedInv, IsSent, ScenarioInv
  <2>2. payload.nonce <= handed[i].number => IsDone(payload)
    BY <1>1, <1>3 DEF TransportInv, HandedInv
  <2>3. ~IsDone(payload)
    BY DEF Adds
  <2>4. QED
    BY <2>1, <2>2, <2>3
<1>5. QED
  BY <1>2, <1>3, <1>4

\* Whatever becomes of the payload, it is done with and nothing older is new.
LEMMA ReceiveKeeps ==
    ASSUME AllLegible, TransportInv, Receive
    PROVE  TransportInv'
<1>1. PICK payload : payload = Head(inbound)
  OBVIOUS
<1>2. /\ inbound # <<>> /\ inbound' = Tail(inbound)
      /\ UNCHANGED <<scenario, sentUpTo, queue, delivered>>
      /\ \A other : IsDone(other) => IsDone(other)'
      /\ IsDone(payload)'
      /\ \/ UNCHANGED <<handed, receiptsDue, nickname>>
         \/ \E message : Adds(payload, message)
  BY <1>1, Outcome
<1>3. /\ IsSequence(inbound') /\ Len(inbound) \in Nat
      /\ DOMAIN inbound = 1 .. Len(inbound)
      /\ 1 \in DOMAIN inbound /\ inbound[1] = payload
      /\ DOMAIN inbound' = 1 .. Len(inbound) - 1
      /\ \A i \in 1 .. Len(inbound) - 1 : i + 1 \in DOMAIN inbound /\ inbound'[i] = inbound[i + 1]
  BY <1>1, <1>2, Behind DEF TransportInv, InboundInv
<1>4. \A other : IsSent(other)' <=> IsSent(other)
  BY <1>2 DEF IsSent
<1>5. ScenarioInv' /\ HeldInv'
  BY <1>2, <1>4 DEF TransportInv, ScenarioInv, HeldInv, IsQueueable
<1>6. InboundInv'
  BY <1>3, <1>4 DEF TransportInv, InboundInv
<1>7. OrderInv'
  <2> SUFFICES ASSUME NEW i \in DOMAIN inbound', IsQueueable(inbound'[i])
               PROVE  /\ \A j \in DOMAIN inbound' :
                             i < j /\ IsQueueable(inbound'[j]) =>
                                 inbound'[i].nonce < inbound'[j].nonce
                      /\ \A other \in queue :
                             other.nonce \notin delivered => inbound'[i].nonce < other.nonce
    BY <1>2 DEF OrderInv, IsQueueable
  <2>1. i + 1 \in DOMAIN inbound /\ inbound'[i] = inbound[i + 1]
    BY <1>3
  <2>2. \A other \in queue : other.nonce \notin delivered => inbound'[i].nonce < other.nonce
    BY <2>1 DEF TransportInv, OrderInv
  <2>3. ASSUME NEW j \in DOMAIN inbound', i < j, IsQueueable(inbound'[j])
        PROVE  inbound'[i].nonce < inbound'[j].nonce
    <3>1. j + 1 \in DOMAIN inbound /\ inbound'[j] = inbound[j + 1]
      BY <1>3
    <3>2. i + 1 < j + 1
      BY <1>3, <2>3
    <3>3. QED
      BY <2>1, <2>3, <3>1, <3>2 DEF TransportInv, OrderInv
  <2>4. QED
    BY <2>2, <2>3
<1>8. ASSUME NEW i \in DOMAIN inbound, inbound[i] # payload
      PROVE  \E j \in DOMAIN inbound' : inbound'[j] = inbound[i]
  <2>1. i # 1 /\ i - 1 \in 1 .. Len(inbound) - 1
    BY <1>3, <1>8
  <2>2. inbound'[i - 1] = inbound[(i - 1) + 1] /\ (i - 1) + 1 = i
    BY <1>3, <2>1
  <2>3. QED
    BY <1>3, <2>1, <2>2
<1>9. DeliveredInv'
  <2> SUFFICES ASSUME NEW other \in queue, other.nonce \in delivered, ~IsDone(other)'
               PROVE  \E j \in DOMAIN inbound' : inbound'[j] = other
    BY <1>2 DEF DeliveredInv
  <2>1. other # payload /\ ~IsDone(other)
    BY <1>2
  <2>2. PICK i \in DOMAIN inbound : inbound[i] = other
    BY <2>1 DEF TransportInv, DeliveredInv
  <2>3. QED
    BY <1>8, <2>1, <2>2
<1>10. HandedInv'
  <2>1. CASE UNCHANGED <<handed, receiptsDue, nickname>>
    <3>1. IsSequence(handed')
      BY <2>1 DEF TransportInv, HandedInv
    <3>2. ASSUME NEW i \in DOMAIN handed
          PROVE  /\ handed[i].number \in 1 .. sentUpTo
                 /\ \A other \in queue : other.nonce <= handed[i].number => IsDone(other)'
                 /\ \A other : \A j \in DOMAIN inbound' :
                        /\ other = inbound'[j]
                        /\ IsQueueable(other) /\ other.nonce <= handed[i].number
                        => IsDone(other)'
      <4>1. \A j \in DOMAIN inbound' : \E k \in DOMAIN inbound : inbound'[j] = inbound[k]
        BY <1>3
      <4>2. \A j \in DOMAIN inbound' :
                IsQueueable(inbound'[j]) /\ inbound'[j].nonce <= handed[i].number =>
                    IsDone(inbound'[j])
        BY <4>1 DEF TransportInv, HandedInv
      <4>3. QED
        BY <1>2, <4>2 DEF TransportInv, HandedInv
    <3>3. QED
      BY <1>2, <2>1, <3>1, <3>2 DEF HandedInv, IsQueueable
  <2>2. ASSUME NEW message, Adds(payload, message)
        PROVE  HandedInv'
    <3>1. /\ IsSent(payload) /\ IsQueueable(payload)
          /\ \A i \in DOMAIN handed : handed[i].number < payload.nonce
      BY <1>1, <1>2, <2>2, AddedIsNewest
    <3> DEFINE entry == [number |-> payload.nonce, message |-> message.inner]
    <3>2. handed' = Append(handed, entry) /\ entry.number = payload.nonce
      BY <2>2 DEF Adds
    <3> HIDE DEF entry
    <3>3. /\ IsSequence(handed') /\ Len(handed) \in Nat
          /\ DOMAIN handed = 1 .. Len(handed) /\ DOMAIN handed' = 1 .. Len(handed) + 1
          /\ handed'[Len(handed) + 1] = entry
          /\ \A i \in 1 .. Len(handed) : handed'[i] = handed[i]
      BY <3>2, Appended DEF TransportInv, HandedInv
    <3>4. \A other \in queue : other.nonce \in Nat
      BY DEF TransportInv, HeldInv, IsSent, ScenarioInv
    <3>5. \A j \in DOMAIN inbound : inbound[j].nonce \in Nat
      BY DEF TransportInv, InboundInv, IsSent, ScenarioInv
    <3>6. payload.nonce \in 1 .. sentUpTo /\ payload.nonce \in Nat
      BY <3>1 DEF IsSent, TransportInv, ScenarioInv
    <3>7. \A j \in DOMAIN inbound :
              j # 1 /\ IsQueueable(inbound[j]) => payload.nonce < inbound[j].nonce
      BY <1>3, <3>1 DEF TransportInv, OrderInv
    <3>8. ASSUME NEW other \in queue, other.nonce <= payload.nonce
          PROVE  IsDone(other)'
      <4>1. other.nonce \in delivered
        <5>1. other.nonce \notin delivered => payload.nonce < other.nonce
          BY <1>3, <3>1 DEF TransportInv, OrderInv
        <5>2. QED
          BY <3>4, <3>6, <3>8, <5>1
      <4>2. IsDone(other) \/ \E i \in DOMAIN inbound : inbound[i] = other
        BY <4>1 DEF TransportInv, DeliveredInv
      <4>3. ASSUME NEW i \in DOMAIN inbound, inbound[i] = other
            PROVE  IsDone(other)'
        <5>1. IsQueueable(other)
          BY DEF TransportInv, HeldInv
        <5>2. i = 1
          BY <3>4, <3>6, <3>7, <3>8, <4>3, <5>1
        <5>3. QED
          BY <1>2, <1>3, <4>3, <5>2
      <4>4. QED
        BY <1>2, <4>2, <4>3
    <3>9. ASSUME NEW j \in DOMAIN inbound', IsQueueable(inbound'[j])
          PROVE  payload.nonce < inbound'[j].nonce
      <4>1. inbound'[j] = inbound[j + 1] /\ j + 1 \in DOMAIN inbound /\ j + 1 # 1
        BY <1>3
      <4>2. QED
        BY <3>7, <3>9, <4>1
    <3>10. ASSUME NEW i \in DOMAIN handed'
           PROVE  /\ handed'[i].number \in 1 .. sentUpTo
                  /\ handed'[i].number <= payload.nonce
      <4>1. CASE i = Len(handed) + 1
        BY <3>2, <3>3, <3>6, <4>1
      <4>2. CASE i \in 1 .. Len(handed)
        <5>1. handed'[i] = handed[i] /\ i \in DOMAIN handed
          BY <3>3, <4>2
        <5>2. handed[i].number \in 1 .. sentUpTo /\ handed[i].number < payload.nonce
          BY <3>1, <5>1 DEF TransportInv, HandedInv
        <5>3. sentUpTo \in Nat
          BY DEF TransportInv, ScenarioInv
        <5>4. QED
          BY <3>6, <5>1, <5>2, <5>3
      <4>3. QED
        BY <3>3, <4>1, <4>2
    <3>11. ASSUME NEW i \in DOMAIN handed', NEW other \in queue, other.nonce <= handed'[i].number
           PROVE  IsDone(other)'
      <4>1. other.nonce <= payload.nonce
        <5>1. /\ handed'[i].number \in Nat /\ handed'[i].number <= payload.nonce
              /\ other.nonce \in Nat
          BY <3>4, <3>10
        <5>2. QED
          BY <3>6, <3>11, <5>1
      <4>2. QED
        BY <3>8, <4>1
    <3>12. ASSUME NEW i \in DOMAIN handed', NEW j \in DOMAIN inbound',
                  IsQueueable(inbound'[j]), inbound'[j].nonce <= handed'[i].number
           PROVE  FALSE
      <4>1. payload.nonce < inbound'[j].nonce
        BY <3>9, <3>12
      <4>2. inbound'[j].nonce \in Nat
        BY <1>3, <3>5
      <4>3. handed'[i].number \in Nat /\ handed'[i].number <= payload.nonce
        BY <3>10
      <4>4. QED
        BY <3>6, <3>12, <4>1, <4>2, <4>3
    <3>13. QED
      BY <1>2, <3>3, <3>10, <3>11, <3>12 DEF HandedInv, IsQueueable
  <2>3. QED
    BY <1>2, <2>1, <2>2
<1>11. QED
  BY <1>5, <1>6, <1>7, <1>9, <1>10 DEF TransportInv

\* What is added is one more: the numbers handed on, in order.
LEMMA OneMoreHanded ==
    ASSUME AllLegible, TransportInv, inbound # <<>>,
           NEW payload, payload = Head(inbound), NEW message, Adds(payload, message)
    PROVE  LET entry == [number |-> payload.nonce, message |-> message.inner]
           IN  /\ Len(handed) \in Nat
               /\ DOMAIN handed = 1 .. Len(handed) /\ DOMAIN handed' = 1 .. Len(handed) + 1
               /\ handed'[Len(handed) + 1] = entry
               /\ \A i \in 1 .. Len(handed) : handed'[i] = handed[i]
               /\ HandedNumbers' = HandedNumbers \cup {payload.nonce}
               /\ payload.nonce \in Nat /\ HandedNumbers \subseteq Nat
               /\ \A n \in HandedNumbers : n < payload.nonce
<1> DEFINE entry == [number |-> payload.nonce, message |-> message.inner]
<1>1. handed' = Append(handed, entry) /\ entry.number = payload.nonce
  BY DEF Adds
<1> HIDE DEF entry
<1>2. /\ Len(handed) \in Nat
      /\ DOMAIN handed = 1 .. Len(handed) /\ DOMAIN handed' = 1 .. Len(handed) + 1
      /\ handed'[Len(handed) + 1] = entry
      /\ \A i \in 1 .. Len(handed) : handed'[i] = handed[i]
  BY <1>1, Appended DEF TransportInv, HandedInv
<1>3. HandedNumbers' = HandedNumbers \cup {payload.nonce}
  <2>1. HandedNumbers' = {handed'[i].number : i \in 1 .. Len(handed) + 1}
    BY <1>2 DEF HandedNumbers
  <2>2. 1 .. Len(handed) + 1 = (1 .. Len(handed)) \cup {Len(handed) + 1}
    BY <1>2
  <2>3. HandedNumbers' = {handed'[i].number : i \in 1 .. Len(handed)} \cup {entry.number}
    BY <1>2, <2>1, <2>2
  <2>4. {handed'[i].number : i \in 1 .. Len(handed)} = HandedNumbers
    BY <1>2 DEF HandedNumbers
  <2>5. QED
    BY <1>1, <2>3, <2>4
<1>4. payload.nonce \in Nat /\ HandedNumbers \subseteq Nat
  <2>1. IsSent(payload)
    BY AddedIsNewest
  <2>2. QED
    BY <2>1 DEF IsSent, TransportInv, ScenarioInv, HandedInv, HandedNumbers
<1>5. \A n \in HandedNumbers : n < payload.nonce
  BY AddedIsNewest DEF HandedNumbers
<1>6. QED
  BY <1>2, <1>3, <1>4, <1>5 DEF entry

\* What is read of an own message that is added.
LEMMA AddedIsMeant ==
    ASSUME AllLegible, TransportInv, inbound # <<>>,
           NEW payload, payload = Head(inbound), NEW message, Adds(payload, message),
           NEW n, n = payload.nonce, IsOwn(n)
    PROVE  /\ Legible(scenario[n], n) /\ scenario[n].via # "Foreign"
           /\ payload.id = scenario[n].id
           /\ message.inner.content = Meant(scenario[n])
           /\ message.inner.id = scenario[n].id
           /\ message.inner.createdAt = scenario[n].createdAt
           /\ message.inner.disableReceipts <=> Disabled(scenario[n])
           /\ SenderNickname(payload, message) = HeardAs(DeltaOf(scenario[n]))
           /\ Meant(scenario[n]).body.kind # "WebSessionResume"
<1>1. IsSent(payload)
  BY AddedIsNewest
<1>2. /\ Legible(scenario[n], n) /\ scenario[n].via # "Foreign"
      /\ ReadsAsMeant(scenario[n], payload)
  BY <1>1, SentIsKnown DEF Understood, IsOwn, TransportInv
<1>3. /\ payload.id = scenario[n].id
      /\ message.inner.content = Meant(scenario[n])
      /\ message.inner.id = scenario[n].id
      /\ message.inner.createdAt = scenario[n].createdAt
      /\ message.inner.disableReceipts <=> Disabled(scenario[n])
      /\ message.metadata # {}
      /\ The(message.metadata).nickname = HeardAs(DeltaOf(scenario[n]))
  BY <1>2, Zenon DEF ReadsAsMeant, Adds
<1>4. SenderNickname(payload, message) = HeardAs(DeltaOf(scenario[n]))
  BY <1>3, Zenon DEF SenderNickname
<1>5. Meant(scenario[n]).body.kind # "WebSessionResume"
  BY <1>3, Zenon DEF Adds
<1>6. QED
  BY <1>2, <1>3, <1>4, <1>5, Zenon

\* A message that is added is as it was meant, and the last, ...
LEMMA IntactKept ==
    ASSUME AllLegible, TransportInv, inbound # <<>>, ArrivesIntact, UNCHANGED scenario,
           NEW payload, payload = Head(inbound), NEW message, Adds(payload, message)
    PROVE  ArrivesIntact'
<1> DEFINE entry == [number |-> payload.nonce, message |-> message.inner]
<1>1. /\ Len(handed) \in Nat
      /\ DOMAIN handed = 1 .. Len(handed) /\ DOMAIN handed' = 1 .. Len(handed) + 1
      /\ handed'[Len(handed) + 1] = entry
      /\ \A i \in 1 .. Len(handed) : handed'[i] = handed[i]
      /\ payload.nonce \in Nat /\ HandedNumbers \subseteq Nat
      /\ \A n \in HandedNumbers : n < payload.nonce
  BY OneMoreHanded
<1>2. entry.number = payload.nonce /\ entry.message = message.inner
  OBVIOUS
<1> HIDE DEF entry
<1>3. ASSUME NEW i \in DOMAIN handed', NEW n, n = handed'[i].number, IsOwn(n)
      PROVE  /\ handed'[i].message.content = Meant(scenario[n])
             /\ handed'[i].message.id = scenario[n].id
             /\ handed'[i].message.createdAt = scenario[n].createdAt
  <2>1. CASE i = Len(handed) + 1
    <3>1. handed'[i].message = message.inner /\ n = payload.nonce
      BY <1>1, <1>2, <1>3, <2>1
    <3>2. QED
      BY <1>3, <3>1, AddedIsMeant
  <2>2. CASE i \in 1 .. Len(handed)
    BY <1>1, <1>3, <2>2 DEF ArrivesIntact
  <2>3. QED
    BY <1>1, <2>1, <2>2
<1>4. ASSUME NEW i \in DOMAIN handed', NEW j \in DOMAIN handed', i < j
      PROVE  handed'[i].number < handed'[j].number
  <2>1. i \in 1 .. Len(handed) /\ handed'[i] = handed[i] /\ handed[i].number \in HandedNumbers
    BY <1>1, <1>4 DEF HandedNumbers
  <2>2. CASE j = Len(handed) + 1
    BY <1>1, <1>2, <2>1, <2>2
  <2>3. CASE j \in 1 .. Len(handed)
    BY <1>1, <1>4, <2>1, <2>3 DEF ArrivesIntact
  <2>4. QED
    BY <1>1, <2>2, <2>3
<1>5. QED
  BY <1>3, <1>4, Zenon DEF ArrivesIntact, IsOwn

\* ... a receipt is due for it if its sender wants one, ...
LEMMA ReceiptsKept ==
    ASSUME AllLegible, TransportInv, inbound # <<>>, ReceiptsAgreed, UNCHANGED scenario,
           NEW payload, payload = Head(inbound), NEW message, Adds(payload, message)
    PROVE  ReceiptsAgreed'
<1> DEFINE entry == [number |-> payload.nonce, message |-> message.inner]
           new == payload.nonce
           own == {n \in HandedNumbers : IsOwn(n) /\ WantsReceipt(n)}
           foreign == {i \in DOMAIN handed : ~IsOwn(handed[i].number)
                                             /\ EffectiveProperties(handed[i].message).receipts}
           isDue == EffectiveProperties(message.inner).receipts
<1>1. /\ Len(handed) \in Nat
      /\ DOMAIN handed = 1 .. Len(handed) /\ DOMAIN handed' = 1 .. Len(handed) + 1
      /\ handed'[Len(handed) + 1] = entry
      /\ \A i \in 1 .. Len(handed) : handed'[i] = handed[i]
      /\ HandedNumbers' = HandedNumbers \cup {new}
  BY OneMoreHanded
<1>2. entry.number = new /\ entry.message = message.inner /\ message.inner.id = payload.id
  BY DecodedId DEF Adds
<1>3. receiptsDue' = IF isDue THEN receiptsDue \cup {payload.id} ELSE receiptsDue
  BY DEF Adds
<1>4. receiptsDue = {scenario[n].id : n \in own} \cup {handed[i].message.id : i \in foreign}
  BY DEF ReceiptsAgreed
<1>5. \A n : (IsOwn(n)' <=> IsOwn(n)) /\ (WantsReceipt(n)' <=> WantsReceipt(n))
  BY DEF IsOwn, WantsReceipt
<1> HIDE DEF entry, isDue
<1>6. own' = own \cup {n \in {new} : IsOwn(n) /\ WantsReceipt(n)}
  BY <1>1, <1>5
<1>7. {handed'[i].message.id : i \in foreign'} =
          {handed[i].message.id : i \in foreign}
              \cup (IF ~IsOwn(new) /\ isDue THEN {payload.id} ELSE {})
  <2>1. foreign' = foreign \cup (IF ~IsOwn(new) /\ isDue THEN {Len(handed) + 1} ELSE {})
    <3>1. foreign' = {i \in 1 .. Len(handed) + 1 :
                          /\ ~IsOwn(handed'[i].number)
                          /\ EffectiveProperties(handed'[i].message).receipts}
      BY <1>1, <1>5
    <3>2. foreign = {i \in 1 .. Len(handed) :
                         /\ ~IsOwn(handed'[i].number)
                         /\ EffectiveProperties(handed'[i].message).receipts}
      BY <1>1
    <3>3. isDue <=> EffectiveProperties(handed'[Len(handed) + 1].message).receipts
      BY <1>1, <1>2, Zenon DEF isDue
    <3>4. handed'[Len(handed) + 1].number = new
      BY <1>1, <1>2
    <3>5. 1 .. Len(handed) + 1 = (1 .. Len(handed)) \cup {Len(handed) + 1}
      BY <1>1
    <3> HIDE DEF foreign, new
    <3>6. QED
      BY <3>1, <3>2, <3>3, <3>4, <3>5
  <2>2. foreign \subseteq 1 .. Len(handed)
    BY <1>1
  <2> HIDE DEF foreign
  <2>3. \A i \in foreign : handed'[i] = handed[i]
    BY <1>1, <2>2
  <2>4. handed'[Len(handed) + 1].message.id = payload.id
    BY <1>1, <1>2
  <2>5. QED
    BY <2>1, <2>3, <2>4
<1>8. IsOwn(new) => (isDue <=> WantsReceipt(new)) /\ payload.id = scenario[new].id
  <2> SUFFICES ASSUME IsOwn(new)
               PROVE  (isDue <=> WantsReceipt(new)) /\ payload.id = scenario[new].id
    OBVIOUS
  <2>1. /\ Legible(scenario[new], new) /\ scenario[new].via # "Foreign"
        /\ payload.id = scenario[new].id
        /\ message.inner.content = Meant(scenario[new])
        /\ message.inner.disableReceipts <=> Disabled(scenario[new])
        /\ Meant(scenario[new]).body.kind # "WebSessionResume"
    BY AddedIsMeant
  <2>2. isDue <=> Wants(scenario[new])
    BY <2>1, ReceiptWanted DEF isDue
  <2>3. QED
    BY <2>1, <2>2 DEF Wants, WantsReceipt
<1> HIDE DEF own, foreign, new
<1>9. receiptsDue' = {scenario[n].id : n \in own'} \cup {handed'[i].message.id : i \in foreign'}
  <2>1. CASE IsOwn(new)
    <3>1. CASE isDue
      BY <1>3, <1>4, <1>6, <1>7, <1>8, <2>1, <3>1
    <3>2. CASE ~isDue
      BY <1>3, <1>4, <1>6, <1>7, <1>8, <2>1, <3>2
    <3>3. QED
      BY <3>1, <3>2
  <2>2. CASE ~IsOwn(new)
    BY <1>3, <1>4, <1>6, <1>7, <2>2
  <2>3. QED
    BY <2>1, <2>2
<1>10. QED
  BY <1>9 DEF ReceiptsAgreed, own, foreign

\* The greatest element of a set of numbers.
LEMMA MaxIs ==
    ASSUME NEW N \in SUBSET Nat, NEW m \in N, \A n \in N : n <= m
    PROVE  Max(N) = m
<1>1. \E x \in N : \A y \in N : x >= y
  OBVIOUS
<1>2. Max(N) \in N /\ \A y \in N : Max(N) >= y
  BY <1>1 DEF Max
<1>3. m \in Nat /\ Max(N) \in Nat /\ m <= Max(N) /\ Max(N) <= m
  BY <1>2
<1> HIDE DEF Max
<1>4. QED
  BY <1>3

\* ... and its sender is called as it announced with it.
LEMMA NicknameKept ==
    ASSUME AllLegible, TransportInv, inbound # <<>>, NicknameFollows, UNCHANGED scenario,
           NEW payload, payload = Head(inbound), NEW message, Adds(payload, message)
    PROVE  NicknameFollows'
<1> DEFINE new == payload.nonce
           announcements == {n \in HandedNumbers : IsAnnouncement(n)}
<1>1. /\ HandedNumbers' = HandedNumbers \cup {new}
      /\ new \in Nat /\ HandedNumbers \subseteq Nat
      /\ \A n \in HandedNumbers : n < new
  BY OneMoreHanded
<1>2. \A n : (IsOwn(n)' <=> IsOwn(n)) /\ (IsAnnouncement(n)' <=> IsAnnouncement(n))
  BY DEF IsOwn, IsAnnouncement
<1>3. announcements' = announcements \cup {n \in {new} : IsAnnouncement(n)}
  BY <1>1, <1>2
<1>4. nickname' = Apply(nickname, SenderNickname(payload, message))
  BY DEF Adds
<1> HIDE DEF announcements
<1>5. CASE \E n \in HandedNumbers' : ~IsOwn(n)
  <2>1. \E n \in HandedNumbers' : ~IsOwn(n)'
    BY <1>2, <1>5
  <2>2. QED
    BY <2>1 DEF NicknameFollows
<1>6. CASE \A n \in HandedNumbers' : IsOwn(n)
  <2>1. IsOwn(new) /\ \A n \in HandedNumbers : IsOwn(n)
    BY <1>1, <1>6
  <2>2. /\ Legible(scenario[new], new) /\ scenario[new].via # "Foreign"
        /\ SenderNickname(payload, message) = HeardAs(DeltaOf(scenario[new]))
        /\ Meant(scenario[new]).body.kind # "WebSessionResume"
    BY <2>1, AddedIsMeant
  <2>3. IsAnnouncement(new) <=> Announces(scenario[new])
    BY <2>1 DEF IsAnnouncement, Announces
  <2>4. ~(\E n \in HandedNumbers' : ~IsOwn(n)')
    BY <1>2, <1>6
  <2>5. CASE ~IsAnnouncement(new)
    <3>1. nickname' = nickname
      BY <1>4, <2>2, <2>3, <2>5, NicknameHeard
    <3>2. announcements' = announcements
      BY <1>3, <2>5
    <3>3. QED
      BY <2>1, <2>4, <3>1, <3>2 DEF NicknameFollows, announcements
  <2>6. CASE IsAnnouncement(new)
    <3>1. nickname' = Named(Announced(scenario[new]))
      BY <1>4, <2>2, <2>3, <2>6, NicknameHeard
    <3>2. announcements' = announcements \cup {new}
      BY <1>3, <2>6
    <3>3. announcements \subseteq HandedNumbers
      BY DEF announcements
    <3>4. Max(announcements') = new /\ announcements' # {}
      <4>1. /\ announcements' \in SUBSET Nat /\ new \in announcements'
            /\ \A n \in announcements' : n <= new
        <5>1. \A n \in announcements : n \in Nat /\ n <= new
          BY <1>1, <3>3
        <5>2. new \in Nat /\ new <= new
          BY <1>1
        <5> HIDE DEF new
        <5>3. QED
          BY <3>2, <5>1, <5>2
      <4>2. QED
        BY <4>1, MaxIs
    <3>5. QED
      BY <2>4, <3>1, <3>4 DEF NicknameFollows, announcements, Named
  <2>7. QED
    BY <2>5, <2>6
<1>7. QED
  BY <1>5, <1>6

\* Every step keeps it.
LEMMA ExchangeKeeps ==
    ASSUME AllLegible, ExchangeInv, [ExchangeNext]_exchangeVars
    PROVE  ExchangeInv'
<1> USE DEF ExchangeInv
<1>1. CASE Send
  <2>1. TransportInv'
    BY <1>1, SendKeeps
  <2>2. UNCHANGED <<scenario, handed, receiptsDue, nickname>>
    BY <1>1 DEF Send, receiver
  <2>3. QED
    BY <2>1, <2>2, NothingHanded
<1>2. CASE Deliver
  <2>1. TransportInv'
    BY <1>2, DeliverKeeps
  <2>2. UNCHANGED <<scenario, handed, receiptsDue, nickname>>
    BY <1>2 DEF Deliver, receiver
  <2>3. QED
    BY <2>1, <2>2, NothingHanded
<1>3. CASE TakeAck
  <2>1. TransportInv'
    BY <1>3, TakeAckKeeps
  <2>2. UNCHANGED <<scenario, handed, receiptsDue, nickname>>
    BY <1>3 DEF TakeAck, receiver
  <2>3. QED
    BY <2>1, <2>2, NothingHanded
<1>4. CASE Lose
  <2>1. TransportInv'
    BY <1>4, LoseKeeps
  <2>2. UNCHANGED <<scenario, handed, receiptsDue, nickname>>
    BY <1>4 DEF Lose, receiver
  <2>3. QED
    BY <2>1, <2>2, NothingHanded
<1>5. CASE Reconnect
  <2>1. UNCHANGED <<scenario, sentUpTo, queue, delivered, inbound, nonces, handed,
                    receiptsDue, nickname>>
    BY <1>5 DEF Reconnect, receiver
  <2>2. TransportInv'
    BY <2>1, NothingKeeps
  <2>3. QED
    BY <2>1, <2>2, NothingHanded
<1>6. CASE Receive
  <2>1. TransportInv'
    BY <1>6, ReceiveKeeps
  <2>2. PICK payload : payload = Head(inbound)
    OBVIOUS
  <2>3. /\ inbound # <<>> /\ UNCHANGED scenario
        /\ \/ UNCHANGED <<handed, receiptsDue, nickname>>
           \/ \E message : Adds(payload, message)
    BY <1>6, <2>2, Outcome
  <2>4. CASE UNCHANGED <<handed, receiptsDue, nickname>>
    BY <2>1, <2>3, <2>4, NothingHanded
  <2>5. ASSUME NEW message, Adds(payload, message)
        PROVE  ExchangeInv'
    <3>1. ArrivesIntact'
      BY <2>2, <2>3, <2>5, IntactKept DEF EndsAgree
    <3>2. ReceiptsAgreed'
      BY <2>2, <2>3, <2>5, ReceiptsKept DEF EndsAgree
    <3>3. NicknameFollows'
      BY <2>2, <2>3, <2>5, NicknameKept
    <3>4. QED
      BY <2>1, <3>1, <3>2, <3>3 DEF EndsAgree
  <2>6. QED
    BY <2>3, <2>4, <2>5
<1>7. CASE UNCHANGED exchangeVars
  <2>1. UNCHANGED <<scenario, sentUpTo, queue, delivered, inbound, nonces, handed,
                    receiptsDue, nickname>>
    BY <1>7 DEF exchangeVars, server, receiver
  <2>2. TransportInv'
    BY <2>1, NothingKeeps
  <2>3. QED
    BY <2>1, <2>2, NothingHanded
<1>8. QED
  BY <1>1, <1>2, <1>3, <1>4, <1>5, <1>6, <1>7 DEF ExchangeNext, ExchangeProgress

\* However often the connection is lost and messages are delivered again, the server
\* delivers in order, and nothing up to what was handed on is handled a second time
\* (IncomingMessageTask: the nonce is marked, or the message is one it knows).
THEOREM ExchangeInvariant == AllLegible => (ExchangeSpec => []ExchangeInv)
<1> SUFFICES ASSUME AllLegible
             PROVE  ExchangeSpec => []ExchangeInv
  OBVIOUS
<1>1. ExchangeInv /\ [ExchangeNext]_exchangeVars => ExchangeInv'
  BY ExchangeKeeps
<1>2. QED
  BY <1>1, ExchangeStarts, PTL DEF ExchangeSpec

\* For any legible messages, in any number: what the receiver adds to its conversation
\* is the body, the ID and the creation time the sender's application gave, in the order
\* they were sent, and a receipt is due for exactly those whose sender wants one
\* (encode_and_encrypt_message, IncomingMessageTask).
THEOREM MessagesIntact == AllLegible => (ExchangeSpec => []EndsAgree)
<1>1. ExchangeInv => EndsAgree
  BY DEF ExchangeInv
<1>2. QED
  BY <1>1, ExchangeInvariant, PTL

\* And the sender's contact has the nickname last announced with a message that was
\* handled, however often an older one comes again: the metadata tells a nickname that
\* is removed from one that is not mentioned (Delta, MessageMetadata::from).
THEOREM NicknameAnnounced == AllLegible => (ExchangeSpec => []NicknameFollows)
<1>1. ExchangeInv => NicknameFollows
  BY DEF ExchangeInv
<1>2. QED
  BY <1>1, ExchangeInvariant, PTL
=============================================================================

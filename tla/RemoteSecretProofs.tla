------------------------- MODULE RemoteSecretProofs -------------------------
(***************************************************************************)
(* Proofs about RemoteSecretMonitor and the SetupTasks below it, for every *)
(* value of their constants: what the tasks return is what the servers     *)
(* hold, the secret is handed out once and does not outlive its checks,    *)
(* and a monitor does not give up before its time.                         *)
(***************************************************************************)
EXTENDS RemoteSecretMonitor, SequenceTheorems, TLAPS

(***************************************************************************)
(* The tasks.  What a request asks is determined by the state of the task, *)
(* and an answer that says that something happened is true.                *)
(***************************************************************************)
Identity == [key : Nat, registered : BOOLEAN]
Secret == [owner : Nat, secret : Nat, status : {"active", "blocked", "removed"}]
Settled == {"Init", "Done", "Error"}
Failures == {"NetworkError", "InvalidCredentials", "RateLimitExceeded", "ServerError"}
IdentityStates ==
    {"DirectoryChallenge", "DirectoryCreate", "RegisterWorkChallenge", "RegisterWork"}
SecretStates == {"CreateChallenge", "Create"}
DeleteStates == {"DeleteChallenge", "Delete"}

SetupTypes ==
    /\ flavor \in {"consumer", "work"}
    /\ task \in [kind : {"none", "CreateIdentity", "CreateSecret", "DeleteSecret"},
                 at : Settled \cup IdentityStates \cup SecretStates \cup DeleteStates,
                 subject : Nat, identity : Nat, error : {Ok} \cup Failures]
    /\ exchange = [request |-> exchange.request, result |-> exchange.result]
    /\ started \in Nat
    /\ account \in [identity : Nat, key : Nat, token : Nat, secret : Nat]
    /\ directory \in Seq(Identity)
    /\ secrets \in Seq(Secret)

\* The request of a state (poll_init and the other polls)
RequestFits ==
    /\ task.at \in Settled => exchange = NoExchange
    /\ task.at = "DirectoryChallenge" =>
           exchange.request = CreateIdentityRequest(task.subject, 0)
    /\ task.at = "DirectoryCreate" =>
           exchange.request = CreateIdentityRequest(task.subject, task.subject)
    /\ task.at = "RegisterWorkChallenge" =>
           exchange.request = UpdateWorkPropertiesRequest(task.identity, 0)
    /\ task.at = "RegisterWork" =>
           exchange.request = UpdateWorkPropertiesRequest(task.identity, task.subject)
    /\ task.at = "CreateChallenge" =>
           exchange.request = CreateRemoteSecretRequest(task.subject, task.identity, 0)
    /\ task.at = "Create" =>
           exchange.request = CreateRemoteSecretRequest(task.subject, task.identity, account.key)
    /\ task.at = "DeleteChallenge" =>
           exchange.request = DeleteRemoteSecretRequest(task.subject, task.identity, 0)
    /\ task.at = "Delete" =>
           exchange.request = DeleteRemoteSecretRequest(task.subject, task.identity, account.key)

Running(kind) == task.kind = kind /\ task.at \notin {"Done", "Error"}

TaskFits ==
    /\ task.at \in IdentityStates => task.kind = "CreateIdentity"
    /\ task.at \in SecretStates => task.kind = "CreateSecret"
    /\ task.at \in DeleteStates => task.kind = "DeleteSecret"
    /\ task.kind = "none" => task.at = "Done"
    /\ (task.error # Ok) <=> (task.at = "Error")
    /\ task.identity \in 0 .. Len(directory)
    /\ task.subject \in 0 .. started
    /\ Running("CreateIdentity") => account.identity = 0 /\ task.subject # 0
    /\ Running("CreateSecret") =>
         /\ account.identity # 0
         /\ account.token = 0
         /\ task.identity = account.identity
    /\ task.at \in {"RegisterWorkChallenge", "RegisterWork"} =>
         /\ flavor = "work"
         /\ task.identity # 0
         /\ directory[task.identity].key = task.subject
    /\ Running("DeleteSecret") => task.subject \in DOMAIN secrets

\* The server has not seen yet what only this task can ask for.
NotAsked ==
    \/ task.kind \in {"CreateIdentity", "CreateSecret"} /\ task.at = "Init"
    \/ task.at \in {"DirectoryChallenge", "CreateChallenge"}
    \/ task.at \in {"DirectoryCreate", "Create"} /\ exchange.result = Pending

Fresh ==
    /\ \A i \in DOMAIN directory : directory[i].key <= started
    /\ Running("CreateIdentity") /\ NotAsked =>
           \A i \in DOMAIN directory : directory[i].key # task.subject
    /\ started <= MaxTasks
    /\ Len(directory) + Len(secrets) <= started
    /\ NotAsked => Len(directory) + Len(secrets) < started

AnswerTrue ==
    LET body == exchange.result.body IN
    /\ body.type = "identity" =>
         /\ task.at = "DirectoryCreate"
         /\ body.identity \in DOMAIN directory
         /\ directory[body.identity].key = task.subject
    /\ body.type = "success" =>
         /\ task.at = "RegisterWork"
         /\ directory[task.identity].registered
    /\ body.type = "token" =>
         /\ task.at = "Create"
         /\ body.token \in DOMAIN secrets
         /\ secrets[body.token].secret = task.subject
         /\ secrets[body.token].owner = task.identity

AccountTrue ==
    /\ account.identity \in 0 .. Len(directory)
    /\ account.token \in 0 .. Len(secrets)
    /\ account.token # 0 => account.identity # 0
    /\ ReturnedIsStored

SetupInv ==
    SetupTypes /\ RequestFits /\ TaskFits /\ Fresh /\ AnswerTrue /\ AccountTrue /\ OneIdentityPerKey

(***************************************************************************)
(* The monitor.  Every check that failed accounts for one interval at      *)
(* least and for one interval and one request at most.                     *)
(***************************************************************************)
Settings ==
    {Locked} \cup [unlocked : {TRUE}, interval : MinInterval .. MaxInterval, limit : Limits]

MonitorTypes ==
    /\ monitor \in [at : {"Off", "Fetch", "Verify", "Error"}, storage : Settings, failed : Nat,
                    token : Nat, expected : Nat,
                    error : {Ok, "Mismatch", "Blocked", "NotFound", "Timeout"}]
    /\ monitor.failed <= monitor.storage.limit
    /\ RemoteSecretError(fetch) = Ok =>
           fetch.body.interval \in Intervals /\ fetch.body.limit \in Limits
    /\ timer \in 0 .. monitor.storage.interval
    /\ elapsed \in 0 .. RequestTimeout
    /\ unconfirmed \in 0 .. MaxUnconfirmed
    /\ storage \in {"locked", "unlocked"}
    /\ handedOut \in 0 .. 1

StorageFits ==
    /\ (storage = "unlocked") <=> (monitor.storage.unlocked /\ monitor.at # "Error")
    /\ monitor.at \in {"Fetch", "Verify"} => (handedOut = 1 <=> monitor.storage.unlocked)
    /\ storage = "unlocked" => handedOut = 1
    /\ monitor.at = "Off" => ~monitor.storage.unlocked

\* The checks that have an interval before them
Waited == IF monitor.storage.unlocked THEN monitor.failed + 1 ELSE monitor.failed

NotTooLate ==
    LET interval == monitor.storage.interval
        spent == monitor.failed * (interval + RequestTimeout) + interval
    IN  /\ storage = "unlocked" /\ monitor.at = "Fetch" => unconfirmed + timer <= spent
        /\ storage = "unlocked" /\ monitor.at = "Verify" => unconfirmed <= spent + elapsed

NotTooEarly ==
    LET waited == Waited * monitor.storage.interval
    IN  unconfirmed < MaxUnconfirmed =>
          /\ monitor.at = "Fetch" => unconfirmed + timer >= waited
          /\ monitor.at = "Verify" => unconfirmed >= waited
          /\ monitor.at = "Error" /\ monitor.error = "Timeout" =>
               monitor.failed = monitor.storage.limit /\ unconfirmed >= waited

MonitorInv == MonitorTypes /\ StorageFits /\ NotTooLate /\ NotTooEarly

-----------------------------------------------------------------------------
\* What an endpoint takes for done (https/directory.rs, work_directory.rs).
LEMMA IdentityAnswered ==
    ASSUME NEW result, CreateIdentityError(result) = Ok
    PROVE  result.body.type = "identity"
BY DEF CreateIdentityError, Decoded, Ok

LEMMA WorkDone ==
    ASSUME NEW result, UpdateWorkPropertiesError(result) = Ok
    PROVE  result.body.type \in {"success", "identity"}
BY DEF UpdateWorkPropertiesError, DirectoryAwkward, Decoded, Ok

LEMMA TokenAnswered ==
    ASSUME NEW result, CreateRemoteSecretError(result) = Ok
    PROVE  result.body.type = "token"
BY DEF CreateRemoteSecretError, Decoded, Ok

LEMMA TaskErrorType ==
    ASSUME NEW error
    PROVE  TaskError(error) \in Failures /\ TaskError(error) # Ok
BY DEF TaskError, Failures, Ok

\* What the servers store
LEMMA Stored ==
    ASSUME SetupTypes
    PROVE  /\ Len(directory) \in Nat /\ DOMAIN directory = 1 .. Len(directory)
           /\ \A i \in DOMAIN directory : directory[i] \in Identity
           /\ Len(secrets) \in Nat /\ DOMAIN secrets = 1 .. Len(secrets)
           /\ \A i \in DOMAIN secrets : secrets[i] \in Secret
<1>1. directory \in Seq(Identity) /\ secrets \in Seq(Secret)
  BY DEF SetupTypes
<1>2. QED BY <1>1

USE DEF Settled, IdentityStates, SecretStates, DeleteStates

\* A task begins with a key, a secret or a token nobody has used.
LEMMA NewKeeps ==
    ASSUME SetupInv, SetupAssumption, StartTask
    PROVE  SetupInv'
<1> USE DEF StartTask, NewCreateIdentity, NewRemoteSecretCreate, NewRemoteSecretDelete, New
<1>1. SetupTypes'
  BY DEF SetupInv, SetupTypes, Failures, Ok
<1>2. RequestFits'
  BY DEF SetupInv, RequestFits
<1>3. TaskFits'
  <2>1. account.token \in 0 .. started
    BY DEF SetupInv, SetupTypes, AccountTrue, Fresh
  <2>2. account.token # 0 => account.token \in DOMAIN secrets
    BY DEF SetupInv, SetupTypes, AccountTrue
  <2>3. QED
    BY <2>1, <2>2 DEF SetupInv, SetupTypes, TaskFits, AccountTrue, Running, Ok
<1>4. Fresh'
  <2>1. \A i \in DOMAIN directory : directory[i].key \in Nat
    BY Stored DEF SetupInv, Identity
  <2>2. started + 1 <= MaxTasks
    BY DEF SetupInv, SetupTypes, SetupAssumption
  <2>3. Len(directory) \in Nat /\ Len(secrets) \in Nat /\ started \in Nat
    BY DEF SetupInv, SetupTypes
  <2>4. QED
    BY <2>1, <2>2, <2>3 DEF SetupInv, Fresh, Running, NotAsked
<1>5. AnswerTrue'
  BY DEF SetupInv, AnswerTrue
<1>6. AccountTrue'
  BY DEF SetupInv, AccountTrue, ReturnedIsStored
<1>7. OneIdentityPerKey'
  BY DEF SetupInv, OneIdentityPerKey
<1>8. QED BY <1>1, <1>2, <1>3, <1>4, <1>5, <1>6, <1>7 DEF SetupInv

\* A task that fails leaves what is stored alone.
LEMMA FailKeeps ==
    ASSUME SetupInv, task.at \notin {"Done", "Error"}, NEW error, Fail(error), Polls
    PROVE  SetupInv'
<1> USE DEF Fail, Polls
<1> DEFINE failure == TaskError(error)
<1>0. failure \in Failures /\ failure # Ok
  BY TaskErrorType
<1> HIDE DEF failure
<1>a. task' = [task EXCEPT !.at = "Error", !.error = failure]
  BY DEF failure
<1>1. SetupTypes'
  BY <1>0, <1>a DEF SetupInv, SetupTypes, NoExchange
<1>2. RequestFits'
  BY <1>a DEF SetupInv, SetupTypes, RequestFits
<1>3. TaskFits'
  BY <1>0, <1>a DEF SetupInv, SetupTypes, TaskFits, Running
<1>4. Fresh'
  BY <1>a DEF SetupInv, SetupTypes, Fresh, Running, NotAsked
<1>5. AnswerTrue'
  BY DEF AnswerTrue, NoExchange, Pending, Response
<1>6. AccountTrue'
  BY DEF SetupInv, AccountTrue, ReturnedIsStored
<1>7. OneIdentityPerKey'
  BY DEF SetupInv, OneIdentityPerKey
<1>8. QED BY <1>1, <1>2, <1>3, <1>4, <1>5, <1>6, <1>7 DEF SetupInv

\* A request asks for nothing that was not asked before, unless it is the
\* first to ask for it.
LEMMA SendKeeps ==
    ASSUME SetupInv, Polls, NEW at \in IdentityStates \cup SecretStates \cup DeleteStates,
           NEW request, Send(at, request), RequestFits', TaskFits',
           NotAsked \/ at \in {"RegisterWorkChallenge", "RegisterWork"} \cup DeleteStates
    PROVE  SetupInv'
<1> USE DEF Send, Polls
<1>1. SetupTypes'
  BY DEF SetupInv, SetupTypes
<1>2. Fresh'
  BY DEF SetupInv, SetupTypes, Fresh, Running, NotAsked
<1>3. AnswerTrue'
  BY DEF AnswerTrue, Pending, Response
<1>4. AccountTrue'
  BY DEF SetupInv, AccountTrue, ReturnedIsStored
<1>5. OneIdentityPerKey'
  BY DEF SetupInv, OneIdentityPerKey
<1>6. QED BY <1>1, <1>2, <1>3, <1>4, <1>5 DEF SetupInv

\* A task that is done returns what is true.
LEMMA CompleteKeeps ==
    ASSUME SetupInv, task.at \notin Settled, Polls,
           NEW result \in [identity : Nat, key : Nat, token : Nat, secret : Nat],
           Complete(result), AccountTrue'
    PROVE  SetupInv'
<1> USE DEF Complete, Polls
<1>1. SetupTypes'
  BY DEF SetupInv, SetupTypes, NoExchange
<1>2. RequestFits'
  BY DEF SetupInv, SetupTypes, RequestFits
<1>3. TaskFits'
  BY DEF SetupInv, SetupTypes, TaskFits, Running
<1>4. Fresh'
  BY DEF SetupInv, SetupTypes, Fresh, Running, NotAsked
<1>5. AnswerTrue'
  BY DEF AnswerTrue, NoExchange, Pending, Response
<1>6. OneIdentityPerKey'
  BY DEF SetupInv, OneIdentityPerKey
<1>7. QED BY <1>1, <1>2, <1>3, <1>4, <1>5, <1>6 DEF SetupInv

LEMMA PollDirectoryChallengeKeeps ==
    ASSUME SetupInv, PollDirectoryChallenge
    PROVE  SetupInv'
<1> DEFINE error == DirectoryChallengeError(exchange.result)
<1>1. CASE Fail(error)
  BY <1>1, FailKeeps DEF PollDirectoryChallenge, Polled
<1>2. CASE Send("DirectoryCreate", CreateIdentityRequest(task.subject, task.subject))
  <2> USE <1>2 DEF PollDirectoryChallenge, Polled, Polls, Send
  <2>1. RequestFits'
    BY DEF SetupInv, SetupTypes, TaskFits, RequestFits
  <2>2. TaskFits'
    BY DEF SetupInv, SetupTypes, TaskFits, Running
  <2>3. \/ NotAsked
        \/ "DirectoryCreate" \in {"RegisterWorkChallenge", "RegisterWork"} \cup DeleteStates
    BY DEF SetupInv, TaskFits, NotAsked
  <2>4. QED BY <2>1, <2>2, <2>3, SendKeeps
<1>3. QED BY <1>1, <1>2 DEF PollDirectoryChallenge

LEMMA PollRegisterWorkChallengeKeeps ==
    ASSUME SetupInv, PollRegisterWorkChallenge
    PROVE  SetupInv'
<1> DEFINE error == DirectoryChallengeError(exchange.result)
<1>1. CASE Fail(error)
  BY <1>1, FailKeeps DEF PollRegisterWorkChallenge, Polled
<1>2. CASE Send("RegisterWork", UpdateWorkPropertiesRequest(task.identity, task.subject))
  <2> USE <1>2 DEF PollRegisterWorkChallenge, Polled, Polls, Send
  <2>1. RequestFits'
    BY DEF SetupInv, SetupTypes, TaskFits, RequestFits
  <2>2. TaskFits'
    BY DEF SetupInv, SetupTypes, TaskFits, Running
  <2>3. NotAsked \/ "RegisterWork" \in {"RegisterWorkChallenge", "RegisterWork"} \cup DeleteStates
    BY DEF SetupInv, TaskFits, NotAsked
  <2>4. QED BY <2>1, <2>2, <2>3, SendKeeps
<1>3. QED BY <1>1, <1>2 DEF PollRegisterWorkChallenge

LEMMA PollCreateChallengeKeeps ==
    ASSUME SetupInv, PollCreateChallenge
    PROVE  SetupInv'
<1> DEFINE error == WorkChallengeError(exchange.result)
<1>1. CASE Fail(error)
  BY <1>1, FailKeeps DEF PollCreateChallenge, Polled
<1>2. CASE Send("Create",
                CreateRemoteSecretRequest(task.subject, task.identity, account.key))
  <2> USE <1>2 DEF PollCreateChallenge, Polled, Polls, Send
  <2>1. RequestFits'
    BY DEF SetupInv, SetupTypes, TaskFits, RequestFits
  <2>2. TaskFits'
    BY DEF SetupInv, SetupTypes, TaskFits, Running
  <2>3. NotAsked \/ "Create" \in {"RegisterWorkChallenge", "RegisterWork"} \cup DeleteStates
    BY DEF SetupInv, TaskFits, NotAsked
  <2>4. QED BY <2>1, <2>2, <2>3, SendKeeps
<1>3. QED BY <1>1, <1>2 DEF PollCreateChallenge

LEMMA PollDeleteChallengeKeeps ==
    ASSUME SetupInv, PollDeleteChallenge
    PROVE  SetupInv'
<1> DEFINE error == WorkChallengeError(exchange.result)
<1>1. CASE Fail(error)
  BY <1>1, FailKeeps DEF PollDeleteChallenge, Polled
<1>2. CASE Send("Delete",
                DeleteRemoteSecretRequest(task.subject, task.identity, account.key))
  <2> USE <1>2 DEF PollDeleteChallenge, Polled, Polls, Send
  <2>1. RequestFits'
    BY DEF SetupInv, SetupTypes, TaskFits, RequestFits
  <2>2. TaskFits'
    BY DEF SetupInv, SetupTypes, TaskFits, Running
  <2>3. NotAsked \/ "Delete" \in {"RegisterWorkChallenge", "RegisterWork"} \cup DeleteStates
    BY DEF SetupInv, TaskFits, NotAsked
  <2>4. QED BY <2>1, <2>2, <2>3, SendKeeps
<1>3. QED BY <1>1, <1>2 DEF PollDeleteChallenge

LEMMA PollInitKeeps ==
    ASSUME SetupInv, PollInit
    PROVE  SetupInv'
<1> USE DEF PollInit, Polls
<1>1. PICK at \in {"DirectoryChallenge", "CreateChallenge", "DeleteChallenge"},
           request \in {CreateIdentityRequest(task.subject, 0),
                       CreateRemoteSecretRequest(task.subject, task.identity, 0),
                       DeleteRemoteSecretRequest(task.subject, task.identity, 0)} :
        Send(at, request)
  OBVIOUS
<1>2. RequestFits'
  BY DEF SetupInv, SetupTypes, RequestFits, Send
<1>3. TaskFits'
  BY DEF SetupInv, SetupTypes, TaskFits, Running, Send
<1>4. NotAsked \/ at \in DeleteStates
  BY <1>1 DEF SetupInv, SetupTypes, TaskFits, NotAsked, Send
<1>5. QED BY <1>1, <1>2, <1>3, <1>4, SendKeeps

\* The directory says which identity has the key; for Work it is not returned
\* before it is registered there.
LEMMA PollDirectoryCreateKeeps ==
    ASSUME SetupInv, PollDirectoryCreate
    PROVE  SetupInv'
<1> DEFINE error == CreateIdentityError(exchange.result)
           identity == exchange.result.body.identity
           registered == [account EXCEPT !.identity = identity, !.key = task.subject]
<1>1. CASE Fail(error)
  BY <1>1, FailKeeps DEF PollDirectoryCreate, Polled
<1>2. ASSUME error = Ok
      PROVE  /\ identity \in DOMAIN directory /\ identity \in Nat \ {0}
             /\ directory[identity].key = task.subject
  <2>1. identity \in DOMAIN directory /\ directory[identity].key = task.subject
    BY <1>2, IdentityAnswered DEF SetupInv, AnswerTrue
  <2>2. DOMAIN directory = 1 .. Len(directory) /\ Len(directory) \in Nat
    BY Stored DEF SetupInv
  <2> HIDE DEF identity
  <2>3. QED BY <2>1, <2>2
<1> HIDE DEF identity
<1>3. CASE error = Ok /\ flavor = "consumer" /\ Complete(registered)
  <2>1. registered \in [identity : Nat, key : Nat, token : Nat, secret : Nat]
    BY <1>2, <1>3 DEF SetupInv, SetupTypes
  <2>2. AccountTrue'
    BY <1>2, <1>3, <2>1, Stored
    DEF PollDirectoryCreate, Polled, Polls, Complete, SetupInv, SetupTypes, TaskFits, AccountTrue,
        ReturnedIsStored, Running
  <2>3. QED BY <1>3, <2>1, <2>2, CompleteKeeps DEF PollDirectoryCreate, Polled
<1>4. CASE /\ error = Ok
           /\ flavor = "work"
           /\ task' = [task EXCEPT !.at = "RegisterWorkChallenge", !.identity = identity]
           /\ exchange' = [request |-> UpdateWorkPropertiesRequest(identity, 0),
                           result |-> Pending]
           /\ UNCHANGED account
  <2> USE <1>4, Stored DEF PollDirectoryCreate, Polled, Polls
  <2>0. identity \in 1 .. Len(directory) /\ Len(directory) \in Nat
    BY <1>2 DEF SetupInv
  <2> HIDE DEF error
  <2>1. SetupTypes'
    <3>1. task' = [task EXCEPT !.at = "RegisterWorkChallenge", !.identity = identity]
      BY <1>4
    <3>2. exchange' = [request |-> exchange'.request, result |-> exchange'.result]
      BY <1>4
    <3>3. UNCHANGED <<flavor, started, account, directory, secrets>>
      BY <1>4 DEF PollDirectoryCreate, Polls
    <3>4. identity \in Nat
      BY <2>0
    <3>5. QED BY ONLY SetupInv, <3>1, <3>2, <3>3, <3>4 DEF SetupInv, SetupTypes
  <2>2. RequestFits'
    BY DEF SetupInv, SetupTypes, RequestFits
  <2>3. TaskFits'
    BY <1>2, <2>0 DEF SetupInv, SetupTypes, TaskFits, Running
  <2>4. Fresh'
    BY DEF SetupInv, SetupTypes, Fresh, Running, NotAsked
  <2>5. AnswerTrue'
    BY DEF AnswerTrue, Pending, Response
  <2>6. AccountTrue'
    BY DEF SetupInv, AccountTrue, ReturnedIsStored
  <2>7. OneIdentityPerKey'
    BY DEF SetupInv, OneIdentityPerKey
  <2>8. QED BY <2>1, <2>2, <2>3, <2>4, <2>5, <2>6, <2>7 DEF SetupInv
<1>5. QED BY <1>1, <1>3, <1>4 DEF PollDirectoryCreate, identity

LEMMA PollRegisterWorkKeeps ==
    ASSUME SetupInv, PollRegisterWork
    PROVE  SetupInv'
<1> DEFINE error == UpdateWorkPropertiesError(exchange.result)
<1>1. CASE Fail(error)
  BY <1>1, FailKeeps DEF PollRegisterWork, Polled
<1>2. CASE error = Ok /\ Complete(Created)
  <2>1. directory[task.identity].registered
    BY <1>2, WorkDone DEF PollRegisterWork, Polled, SetupInv, AnswerTrue
  <2>2. Created \in [identity : Nat, key : Nat, token : Nat, secret : Nat]
    BY DEF Created, SetupInv, SetupTypes
  <2>3. AccountTrue'
    BY <1>2, <2>1, Stored
    DEF PollRegisterWork, Polled, Polls, Complete, Created, SetupInv, SetupTypes, TaskFits,
        AccountTrue, ReturnedIsStored, Running
  <2>4. QED BY <1>2, <2>2, <2>3, CompleteKeeps DEF PollRegisterWork, Polled
<1>3. QED BY <1>1, <1>2 DEF PollRegisterWork

LEMMA PollCreateKeeps ==
    ASSUME SetupInv, PollCreate
    PROVE  SetupInv'
<1> DEFINE error == CreateRemoteSecretError(exchange.result)
           token == exchange.result.body.token
           stored == [account EXCEPT !.token = token, !.secret = task.subject]
<1>1. CASE Fail(error)
  BY <1>1, FailKeeps DEF PollCreate, Polled
<1>2. CASE error = Ok /\ Complete(stored)
  <2>1. /\ token \in DOMAIN secrets
        /\ secrets[token].secret = task.subject
        /\ secrets[token].owner = task.identity
    BY <1>2, TokenAnswered DEF SetupInv, AnswerTrue
  <2>a. DOMAIN secrets = 1 .. Len(secrets) /\ Len(secrets) \in Nat
    BY Stored DEF SetupInv
  <2> HIDE DEF token
  <2>b. token \in Nat
    BY <2>1, <2>a
  <2>2. stored \in [identity : Nat, key : Nat, token : Nat, secret : Nat]
    BY <2>b DEF SetupInv, SetupTypes
  <2>3. AccountTrue'
    BY <1>2, <2>1, Stored
    DEF PollCreate, Polled, Polls, Complete, SetupInv, SetupTypes, TaskFits,
        AccountTrue, ReturnedIsStored, Running
  <2>4. QED BY <1>2, <2>2, <2>3, CompleteKeeps DEF PollCreate, Polled
<1>3. QED BY <1>1, <1>2 DEF PollCreate

LEMMA PollDeleteKeeps ==
    ASSUME SetupInv, PollDelete
    PROVE  SetupInv'
<1> DEFINE error == DeleteRemoteSecretError(exchange.result)
           deleted == [account EXCEPT !.token = 0, !.secret = 0]
<1>1. CASE Fail(error)
  BY <1>1, FailKeeps DEF PollDelete, Polled
<1>2. CASE Complete(deleted)
  <2>1. deleted \in [identity : Nat, key : Nat, token : Nat, secret : Nat]
    BY DEF SetupInv, SetupTypes
  <2>2. AccountTrue'
    BY <1>2, Stored
    DEF PollDelete, Polls, Complete, SetupInv, SetupTypes, AccountTrue, ReturnedIsStored
  <2>3. QED BY <1>2, <2>1, <2>2, CompleteKeeps DEF PollDelete, Polled
<1>3. QED BY <1>1, <1>2 DEF PollDelete

-----------------------------------------------------------------------------
\* An answer that says nothing of what happened, or that is lost.
LEMMA NoNewsKeeps ==
    ASSUME SetupInv, NEW result, Answer(result), UNCHANGED <<directory, secrets>>,
           result.body.type \notin {"identity", "token", "success"},
           exchange.request # NoRequest, result = Pending => exchange.result = Pending
    PROVE  SetupInv'
<1> USE DEF Answer
<1>1. SetupTypes'
  BY DEF SetupInv, SetupTypes
<1>2. RequestFits'
  BY DEF SetupInv, SetupTypes, RequestFits, NoExchange
<1>3. TaskFits'
  BY DEF SetupInv, TaskFits, Running
<1>4. Fresh'
  BY DEF SetupInv, SetupTypes, Fresh, Running, NotAsked
<1>5. AnswerTrue'
  BY DEF SetupInv, SetupTypes, AnswerTrue
<1>6. AccountTrue'
  BY DEF SetupInv, AccountTrue, ReturnedIsStored
<1>7. OneIdentityPerKey'
  BY DEF SetupInv, OneIdentityPerKey
<1>8. QED BY <1>1, <1>2, <1>3, <1>4, <1>5, <1>6, <1>7 DEF SetupInv

\* The directory has no entry yet with the key it is asked to add.
LEMMA IdentityCreatedKeeps ==
    ASSUME SetupInv, AnswerCreateIdentity
    PROVE  SetupInv'
<1> DEFINE entry == [key |-> exchange.request.subject, registered |-> FALSE]
           n == Len(directory)
<1>1. /\ task.at = "DirectoryCreate" /\ task.kind = "CreateIdentity"
      /\ exchange.request.subject = task.subject
      /\ exchange.result = Pending
  BY DEF SetupInv, SetupTypes, TaskFits, RequestFits, Running, AnswerCreateIdentity, Asked,
      NoExchange, NoRequest, Request, CreateIdentityRequest, UpdateWorkPropertiesRequest,
      CreateRemoteSecretRequest, DeleteRemoteSecretRequest
<1>2. task.subject \in Nat
  BY DEF SetupInv, SetupTypes
<1>3. entry \in Identity
  BY <1>1, <1>2 DEF Identity
<1>4. directory' = Append(directory, entry) /\ directory \in Seq(Identity)
  BY DEF AnswerCreateIdentity, SetupInv, SetupTypes
<1>5. exchange' = [exchange EXCEPT !.result = Response(200, IdentityBody(n + 1))]
  BY DEF AnswerCreateIdentity, Answer
<1>6. UNCHANGED <<flavor, task, started, account, secrets>>
  BY DEF AnswerCreateIdentity, Answer
<1>7. directory' \in Seq(Identity)
  BY <1>3, <1>4
<1> HIDE DEF entry
<1>8. /\ n \in Nat /\ Len(directory') = n + 1
      /\ DOMAIN directory = 1 .. n /\ DOMAIN directory' = 1 .. n + 1
      /\ \A i \in 1 .. n : directory'[i] = directory[i]
      /\ directory'[n + 1] = entry
  BY <1>3, <1>4
<1> HIDE DEF n
<1>9. entry.key = task.subject
  BY <1>1 DEF entry
<1>10. exchange'.result # Pending
  BY <1>5 DEF SetupInv, SetupTypes, Response, Pending
<1>11. SetupTypes'
  BY <1>5, <1>6, <1>7 DEF SetupInv, SetupTypes
<1>12. RequestFits'
  BY <1>1, <1>5, <1>6 DEF SetupInv, SetupTypes, RequestFits
<1>13. TaskFits'
  BY <1>1, <1>6, <1>8 DEF SetupInv, SetupTypes, TaskFits, Running, n
<1>a. Running("CreateIdentity") /\ NotAsked
  BY <1>1 DEF Running, NotAsked
<1>b. \A i \in 1 .. n : directory[i].key # task.subject
  BY <1>8, <1>a DEF SetupInv, Fresh
<1>14. Fresh'
  <2>1. ~NotAsked'
    BY <1>1, <1>6, <1>10 DEF NotAsked
  <2>2. \A i \in DOMAIN directory' : directory'[i].key <= started'
    <3>1. \A i \in 1 .. n : directory'[i].key <= started
      BY <1>8 DEF SetupInv, Fresh
    <3>2. directory'[n + 1].key <= started
      BY <1>8, <1>9 DEF SetupInv, SetupTypes, TaskFits
    <3>3. QED BY <1>6, <1>8, <3>1, <3>2
  <2>3. started' <= MaxTasks /\ Len(directory') + Len(secrets') <= started'
    BY <1>6, <1>8, <1>a, Stored DEF SetupInv, SetupTypes, Fresh, n
  <2>4. QED BY <2>1, <2>2, <2>3 DEF Fresh
<1>15. AnswerTrue'
  BY <1>1, <1>5, <1>6, <1>8, <1>9 DEF SetupInv, SetupTypes, AnswerTrue, Response, IdentityBody
<1>16. AccountTrue'
  BY <1>1, <1>6, <1>8
  DEF SetupInv, SetupTypes, TaskFits, AccountTrue, ReturnedIsStored, Running, n
<1>17. OneIdentityPerKey'
  BY <1>8, <1>9, <1>b DEF SetupInv, OneIdentityPerKey
<1>18. QED BY <1>11, <1>12, <1>13, <1>14, <1>15, <1>16, <1>17 DEF SetupInv

\* The identity that is registered is the one of the task.
LEMMA RegisteredKeeps ==
    ASSUME SetupInv, AnswerUpdateWorkProperties
    PROVE  SetupInv'
<1> DEFINE identity == exchange.request.identity
<1>1. /\ task.at = "RegisterWork" /\ task.kind = "CreateIdentity"
      /\ identity = task.identity
      /\ exchange.result = Pending
  BY DEF SetupInv, SetupTypes, TaskFits, RequestFits, Running, AnswerUpdateWorkProperties, Asked,
      Signed, NoExchange, NoRequest, Request, CreateIdentityRequest, UpdateWorkPropertiesRequest,
      CreateRemoteSecretRequest, DeleteRemoteSecretRequest
<1>2. directory' = [directory EXCEPT ![identity].registered = TRUE]
  BY DEF AnswerUpdateWorkProperties
<1>3. exchange' = [exchange EXCEPT !.result = Response(200, Success)]
  BY DEF AnswerUpdateWorkProperties, Answer
<1>4. UNCHANGED <<flavor, task, started, account, secrets>>
  BY DEF AnswerUpdateWorkProperties, Answer
<1> HIDE DEF identity
<1>5. /\ DOMAIN directory' = DOMAIN directory /\ Len(directory') = Len(directory)
      /\ directory' \in Seq(Identity)
      /\ \A i \in DOMAIN directory : /\ directory'[i].key = directory[i].key
                                     /\ directory[i].registered => directory'[i].registered
      /\ identity \in DOMAIN directory => directory'[identity].registered
  <2>1. \A i \in DOMAIN directory : directory[i] \in Identity
    BY Stored DEF SetupInv
  <2>2. \A i \in DOMAIN directory : [directory[i] EXCEPT !.registered = TRUE] \in Identity
    BY <2>1 DEF Identity
  <2>3. directory' = [i \in DOMAIN directory |->
                         IF i = identity THEN [directory[i] EXCEPT !.registered = TRUE]
                                         ELSE directory[i]]
    BY <1>2
  <2>4. directory \in Seq(Identity)
    BY DEF SetupInv, SetupTypes
  <2>5. directory' \in Seq(Identity) /\ Len(directory') = Len(directory)
    BY <2>1, <2>2, <2>3, <2>4
  <2>6. QED BY <2>1, <2>3, <2>5 DEF Identity
<1>6. task.identity \in DOMAIN directory
  BY <1>1, Stored DEF SetupInv, TaskFits
<1>7. exchange'.result # Pending
  BY <1>3 DEF SetupInv, SetupTypes, Response, Pending
<1>11. SetupTypes'
  BY <1>3, <1>4, <1>5 DEF SetupInv, SetupTypes
<1>12. RequestFits'
  BY <1>1, <1>3, <1>4 DEF SetupInv, SetupTypes, RequestFits
<1>13. TaskFits'
  BY <1>4, <1>5, Stored DEF SetupInv, TaskFits, Running
<1>14. Fresh'
  BY <1>1, <1>4, <1>5 DEF SetupInv, Fresh, Running, NotAsked
<1>15. AnswerTrue'
  BY <1>1, <1>3, <1>4, <1>5, <1>6 DEF SetupInv, SetupTypes, AnswerTrue, Response, Success
<1>16. AccountTrue'
  BY <1>1, <1>4, <1>5, Stored DEF SetupInv, AccountTrue, ReturnedIsStored
<1>17. OneIdentityPerKey'
  BY <1>5 DEF SetupInv, OneIdentityPerKey
<1>18. QED BY <1>11, <1>12, <1>13, <1>14, <1>15, <1>16, <1>17 DEF SetupInv

\* The secret that is stored is the one of the task.
LEMMA SecretStoredKeeps ==
    ASSUME SetupInv, AnswerPutSecret
    PROVE  SetupInv'
<1> DEFINE entry == [owner |-> exchange.request.identity,
                     secret |-> exchange.request.subject, status |-> "active"]
           n == Len(secrets)
<1>1. /\ task.at = "Create" /\ task.kind = "CreateSecret"
      /\ exchange.request.subject = task.subject
      /\ exchange.request.identity = task.identity
      /\ exchange.result = Pending
  BY DEF SetupInv, SetupTypes, TaskFits, RequestFits, Running, AnswerPutSecret, Asked, Signed,
      NoExchange, NoRequest, Request, CreateIdentityRequest, UpdateWorkPropertiesRequest,
      CreateRemoteSecretRequest, DeleteRemoteSecretRequest
<1>2. task.subject \in Nat /\ task.identity \in Nat
  BY DEF SetupInv, SetupTypes
<1>3. entry \in Secret
  BY <1>1, <1>2 DEF Secret
<1>4. secrets' = Append(secrets, entry) /\ secrets \in Seq(Secret)
  BY DEF AnswerPutSecret, SetupInv, SetupTypes
<1>5. exchange' = [exchange EXCEPT !.result = Response(200, TokenBody(n + 1))]
  BY DEF AnswerPutSecret, Answer
<1>6. UNCHANGED <<flavor, task, started, account, directory>>
  BY DEF AnswerPutSecret, Answer
<1>7. secrets' \in Seq(Secret)
  BY <1>3, <1>4
<1>8. entry.secret = task.subject /\ entry.owner = task.identity
  BY <1>1
<1> HIDE DEF entry
<1>9. /\ n \in Nat /\ Len(secrets') = n + 1
      /\ DOMAIN secrets = 1 .. n /\ DOMAIN secrets' = 1 .. n + 1
      /\ \A i \in 1 .. n : secrets'[i] = secrets[i]
      /\ secrets'[n + 1] = entry
  BY <1>3, <1>4
<1> HIDE DEF n
<1>10. exchange'.result # Pending
  BY <1>5 DEF SetupInv, SetupTypes, Response, Pending
<1>11. SetupTypes'
  BY <1>5, <1>6, <1>7 DEF SetupInv, SetupTypes
<1>12. RequestFits'
  BY <1>1, <1>5, <1>6 DEF SetupInv, SetupTypes, RequestFits
<1>13. TaskFits'
  BY <1>6, <1>9 DEF SetupInv, TaskFits, Running
<1>14. Fresh'
  <2>1. ~NotAsked'
    BY <1>1, <1>6, <1>10 DEF NotAsked
  <2>2. NotAsked
    BY <1>1 DEF NotAsked
  <2>3. started' <= MaxTasks /\ Len(directory') + Len(secrets') <= started'
    BY <1>6, <1>9, <2>2, Stored DEF SetupInv, SetupTypes, Fresh, n
  <2>4. QED BY <1>6, <2>1, <2>3 DEF SetupInv, Fresh
<1>15. AnswerTrue'
  BY <1>1, <1>5, <1>6, <1>8, <1>9 DEF SetupInv, SetupTypes, AnswerTrue, Response, TokenBody
<1>16. AccountTrue'
  BY <1>1, <1>6, <1>9
  DEF SetupInv, SetupTypes, TaskFits, AccountTrue, ReturnedIsStored, Running, n
<1>17. OneIdentityPerKey'
  BY <1>6 DEF SetupInv, OneIdentityPerKey
<1>18. QED BY <1>11, <1>12, <1>13, <1>14, <1>15, <1>16, <1>17 DEF SetupInv

\* A secret that is blocked or removed is still known with its owner.
LEMMA StatusChanges ==
    ASSUME SetupInv, NEW token, NEW status \in {"active", "blocked", "removed"},
           secrets' = [secrets EXCEPT ![token].status = status]
    PROVE  /\ secrets' \in Seq(Secret)
           /\ DOMAIN secrets' = DOMAIN secrets /\ Len(secrets') = Len(secrets)
           /\ \A i \in DOMAIN secrets : /\ secrets'[i].secret = secrets[i].secret
                                        /\ secrets'[i].owner = secrets[i].owner
<1> DEFINE changed(i) ==
        IF i = token THEN [secrets[i] EXCEPT !.status = status] ELSE secrets[i]
<1>1. \A i \in DOMAIN secrets : secrets[i] \in Secret
  BY Stored DEF SetupInv
<1>2. \A i \in DOMAIN secrets : /\ changed(i) \in Secret
                               /\ changed(i).secret = secrets[i].secret
                               /\ changed(i).owner = secrets[i].owner
  BY <1>1 DEF Secret
<1>3. secrets' = [i \in DOMAIN secrets |-> changed(i)]
  OBVIOUS
<1>4. secrets \in Seq(Secret)
  BY DEF SetupInv, SetupTypes
<1> HIDE DEF changed
<1>5. secrets' \in Seq(Secret) /\ Len(secrets') = Len(secrets)
  <2>1. DOMAIN secrets = 1 .. Len(secrets) /\ Len(secrets) \in Nat
    BY <1>4
  <2>2. secrets' \in [1 .. Len(secrets) -> Secret]
    BY <1>2, <1>3, <2>1
  <2>3. QED BY ONLY <2>1, <2>2
<1>6. QED BY <1>2, <1>3, <1>5

LEMMA StatusKeeps ==
    ASSUME SetupInv, NEW token, NEW status \in {"active", "blocked", "removed"},
           secrets' = [secrets EXCEPT ![token].status = status],
           UNCHANGED <<flavor, task, started, account, directory>>,
           \/ UNCHANGED exchange
           \/ \E result : /\ exchange' = [exchange EXCEPT !.result = result]
                          /\ result.body.type \notin {"identity", "token", "success"}
                          /\ exchange.request # NoRequest
                          /\ result # Pending
    PROVE  SetupInv'
<1>1. /\ secrets' \in Seq(Secret)
      /\ DOMAIN secrets' = DOMAIN secrets /\ Len(secrets') = Len(secrets)
      /\ \A i \in DOMAIN secrets : /\ secrets'[i].secret = secrets[i].secret
                                   /\ secrets'[i].owner = secrets[i].owner
  BY StatusChanges
<1>2. /\ exchange' = [request |-> exchange.request, result |-> exchange'.result]
      /\ exchange'.result = Pending => exchange.result = Pending
  BY DEF SetupInv, SetupTypes
<1>3. SetupTypes'
  BY <1>1, <1>2 DEF SetupInv, SetupTypes
<1>4. RequestFits'
  BY <1>2 DEF SetupInv, SetupTypes, RequestFits, NoExchange
<1>5. TaskFits'
  BY <1>1 DEF SetupInv, TaskFits, Running
<1>6. Fresh'
  BY <1>1, <1>2 DEF SetupInv, SetupTypes, Fresh, Running, NotAsked
<1>7. AnswerTrue'
  BY <1>1 DEF SetupInv, SetupTypes, AnswerTrue
<1>8. AccountTrue'
  BY <1>1, Stored DEF SetupInv, AccountTrue, ReturnedIsStored
<1>9. OneIdentityPerKey'
  BY DEF SetupInv, OneIdentityPerKey
<1>10. QED BY <1>3, <1>4, <1>5, <1>6, <1>7, <1>8, <1>9 DEF SetupInv

\* What the servers and the network do (AnswerChallenge and the others).
LEMMA ServeKeeps ==
    ASSUME SetupInv, SetupAssumption, ServeTask
    PROVE  SetupInv'
<1>1. CASE AnswerChallenge
  <2>1. Answer(Response(200, Challenge))
    BY <1>1 DEF AnswerChallenge
  <2>2. QED BY <1>1, <2>1, NoNewsKeeps DEF AnswerChallenge, Response, Challenge
<1>2. CASE AnswerDeleteSecret
  <2> DEFINE result == Response(204, [type |-> "none"])
  <2>1. exchange' = [exchange EXCEPT !.result = result]
    BY <1>2 DEF AnswerDeleteSecret, Answer
  <2>2. exchange.request # NoRequest
    BY <1>2 DEF AnswerDeleteSecret, Asked, NoRequest, Request
  <2>3. result # Pending /\ result.body.type \notin {"identity", "token", "success"}
    BY DEF Response, Pending
  <2> HIDE DEF result
  <2>4. \E r : /\ exchange' = [exchange EXCEPT !.result = r]
               /\ r.body.type \notin {"identity", "token", "success"}
               /\ exchange.request # NoRequest
               /\ r # Pending
    BY <2>1, <2>2, <2>3
  <2>5. /\ secrets' = [secrets EXCEPT ![exchange.request.subject].status = "removed"]
        /\ UNCHANGED <<flavor, task, started, account, directory>>
    BY <1>2 DEF AnswerDeleteSecret, Answer
  <2>6. QED BY <2>4, <2>5, StatusKeeps
<1>3. CASE Refuse
  <2>1. PICK refusal \in Refusals : Answer(refusal)
    BY <1>3 DEF Refuse
  <2>2. QED BY <1>3, <2>1, NoNewsKeeps DEF Refuse, SetupAssumption
<1>4. CASE Lose
  BY <1>4, NoNewsKeeps DEF Lose, Network, Response, Pending
<1>5. QED
  BY <1>1, <1>2, <1>3, <1>4, IdentityCreatedKeeps, RegisteredKeeps, SecretStoredKeeps
  DEF ServeTask

\* A step of the tasks, their servers or the administrator.
LEMMA SetupStep ==
    ASSUME SetupInv, SetupAssumption, [Next]_vars
    PROVE  SetupInv'
<1>1. CASE SetupNext
  <2>1. CASE StartTask
    BY <2>1, NewKeeps
  <2>2. CASE PollTask
    BY <2>2, PollInitKeeps, PollDirectoryChallengeKeeps, PollDirectoryCreateKeeps,
       PollRegisterWorkChallengeKeeps, PollRegisterWorkKeeps, PollCreateChallengeKeeps,
       PollCreateKeeps, PollDeleteChallengeKeeps, PollDeleteKeeps
    DEF PollTask
  <2>3. CASE ServeTask
    BY <2>3, ServeKeeps
  <2>4. QED BY <1>1, <2>1, <2>2, <2>3 DEF SetupNext
<1>2. CASE Block \/ Unblock \/ Remove
  <2>1. PICK status \in {"active", "blocked", "removed"} : \E from : SetStatus(from, status)
    BY <1>2 DEF Block, Unblock, Remove
  <2>2. PICK token : secrets' = [secrets EXCEPT ![token].status = status]
    BY <2>1 DEF SetStatus
  <2>3. UNCHANGED <<flavor, task, exchange, started, account, directory>>
    BY <2>1 DEF SetStatus
  <2>4. QED BY <2>2, <2>3, StatusKeeps
<1>3. CASE UNCHANGED setupVars
  BY <1>3
  DEF setupVars, SetupInv, SetupTypes, RequestFits, TaskFits, Fresh, AnswerTrue, AccountTrue,
      ReturnedIsStored, OneIdentityPerKey, Running, NotAsked
<1>4. ASSUME Check
      PROVE  UNCHANGED setupVars
  BY <1>4
  DEF Check, PollFetch, PollVerifySucceeds, PollVerifyMismatch, PollVerifyRefused,
      PollVerifyTimesOut, PollVerifyRetries, Failed, PollsVerify, AnswerFetch, FetchFails,
      FetchEnds, Tick
<1>5. QED BY <1>1, <1>2, <1>3, <1>4 DEF Next, vars, NewMonitor

LEMMA SetupStarts ==
    ASSUME SetupInit, SetupAssumption
    PROVE  SetupInv
<1> USE DEF SetupInit, Idle, NoExchange
<1>1. SetupTypes
  BY DEF SetupTypes, Ok
<1>2. TaskFits
  BY DEF TaskFits, Running, Ok
<1>3. RequestFits /\ Fresh /\ AccountTrue /\ OneIdentityPerKey
  BY DEF RequestFits, Fresh, AccountTrue, ReturnedIsStored, OneIdentityPerKey, NotAsked, Running,
      SetupAssumption
<1>4. AnswerTrue
  BY DEF AnswerTrue, Pending, Response
<1>5. QED BY <1>1, <1>2, <1>3, <1>4 DEF SetupInv

(***************************************************************************)
(* What the tasks return is what the servers hold, and holds of one        *)
(* identity alone, however requests and answers are lost (the task that    *)
(* creates an identity, csp_e2e/identity/create.rs; the tasks of           *)
(* remote_secret/setup).                                                   *)
(***************************************************************************)
THEOREM IdentitiesStayConsistent == Spec => []IdentityConsistent
<1> USE SetupAssumption
<1>1. Init => SetupInv
  BY SetupStarts DEF Init
<1>2. SetupInv /\ [Next]_vars => SetupInv'
  BY SetupStep
<1>3. SetupInv => IdentityConsistent
  BY DEF SetupInv, AccountTrue, IdentityConsistent
<1>4. QED BY <1>1, <1>2, <1>3, PTL DEF Spec

HIDE DEF Settled, IdentityStates, SecretStates, DeleteStates

-----------------------------------------------------------------------------
\* Multiplication, as far as the bounds need it.
LEMMA Times ==
    ASSUME NEW n \in Nat, NEW m \in Nat
    PROVE  n * m \in Nat /\ (n + 1) * m = n * m + m
OBVIOUS

LEMMA TimesGrows ==
    ASSUME NEW n \in Nat, NEW k \in Nat, NEW m \in Nat, n <= k
    PROVE  n * m <= k * m
OBVIOUS

\* Only a remote secret counts as a check that succeeded (endpoint of
\* https/work_directory.rs).
LEMMA SecretAnswered ==
    ASSUME NEW result, RemoteSecretError(result) = Ok
    PROVE  result.body.type = "secret" /\ result.status \in {200, 204}
<1>1. result.status \notin {403, 404}
  BY DEF RemoteSecretError, Ok
<1>2. Decoded(WorkStatus(result), result, {"secret"}) = Ok
  BY <1>1 DEF RemoteSecretError
<1>3. WorkStatus(result) = Ok /\ result.body.type = "secret"
  BY <1>2 DEF Decoded, Ok
<1>4. QED BY <1>3 DEF WorkStatus, DirectoryStatus, UnauthorizedDetails, Ok

\* The settings the monitor works with
LEMMA SettingsTypes ==
    ASSUME MonitorAssumption, NEW settings \in Settings
    PROVE  /\ settings.interval \in Nat /\ settings.limit \in Nat
           /\ settings.unlocked \in BOOLEAN
           /\ MaxUnconfirmed >=
                  (IF settings.unlocked THEN settings.limit + 1 ELSE settings.limit)
                      * settings.interval
           /\ settings.unlocked =>
                  MaxUnconfirmed > (settings.limit + 1) * (settings.interval + RequestTimeout)
<1> USE DEF MonitorAssumption
<1>1. CASE settings = Locked
  BY <1>1 DEF Locked
<1>2. CASE settings \in [unlocked : {TRUE}, interval : MinInterval .. MaxInterval, limit : Limits]
  <2> DEFINE interval == settings.interval
             limit == settings.limit
  <2>0. MinInterval \in Nat /\ MaxInterval \in Nat
    OBVIOUS
  <2>1. interval \in Nat /\ interval <= MaxInterval /\ limit \in Limits /\ settings.unlocked
    <3>1. interval \in MinInterval .. MaxInterval /\ limit \in Limits
      BY <1>2
    <3>2. settings.unlocked \in {TRUE}
      BY <1>2
    <3>3. settings.unlocked
      BY <3>2
    <3>4. QED BY <2>0, <3>1, <3>3
  <2>2. limit \in Nat /\ MaxInterval \in Nat /\ RequestTimeout \in Nat
    BY <2>1
  <2>3. MaxUnconfirmed > (limit + 1) * (MaxInterval + RequestTimeout)
    BY <2>1
  <2> HIDE DEF interval, limit
  <2>4. (limit + 1) * (interval + RequestTimeout) <= (limit + 1) * (MaxInterval + RequestTimeout)
    BY <2>1, <2>2
  <2>5. (limit + 1) * interval <= (limit + 1) * (interval + RequestTimeout)
    BY <2>1, <2>2
  <2>6. MaxUnconfirmed \in Nat
    OBVIOUS
  <2>7. /\ (limit + 1) * interval \in Nat
        /\ (limit + 1) * (interval + RequestTimeout) \in Nat
        /\ (limit + 1) * (MaxInterval + RequestTimeout) \in Nat
    BY <2>1, <2>2
  <2>8. /\ MaxUnconfirmed >= (limit + 1) * interval
        /\ MaxUnconfirmed > (limit + 1) * (interval + RequestTimeout)
    BY <2>3, <2>4, <2>5, <2>6, <2>7
  <2>9. QED BY <1>2, <2>1, <2>2, <2>8 DEF interval, limit
<1>3. QED BY <1>1, <1>2 DEF Settings

-----------------------------------------------------------------------------
\* An instance of the monitor starts with nothing handed out, and waits for
\* nothing.
LEMMA NewMonitorKeeps ==
    ASSUME MonitorAssumption, SetupInv, MonitorInv, NewMonitor
    PROVE  MonitorInv'
<1> USE DEF NewMonitor, Off, Locked
<1>1. MonitorTypes'
  <2>1. Locked \in Settings
    BY DEF Settings
  <2>2. RetryIntervalWhileLocked \in Nat /\ MaxFailuresWhileLocked \in Nat
    BY DEF MonitorAssumption
  <2>3. account.token \in Nat /\ account.secret \in Nat
    BY DEF SetupInv, SetupTypes
  <2>4. /\ monitor' = [at |-> "Fetch", storage |-> Locked, failed |-> 0, token |-> account.token,
                        expected |-> account.secret, error |-> Ok]
        /\ timer' = 0 /\ handedOut' = 0 /\ unconfirmed' = 0
        /\ UNCHANGED <<fetch, elapsed, storage>>
    OBVIOUS
  <2>5. Locked.interval = RetryIntervalWhileLocked /\ Locked.limit = MaxFailuresWhileLocked
    OBVIOUS
  <2> HIDE DEF Locked, NewMonitor, Off
  <2>6. monitor'.failed <= monitor'.storage.limit /\ timer' \in 0 .. monitor'.storage.interval
    BY <2>2, <2>4, <2>5
  <2>7. monitor' \in [at : {"Off", "Fetch", "Verify", "Error"}, storage : Settings, failed : Nat,
                      token : Nat, expected : Nat,
                      error : {Ok, "Mismatch", "Blocked", "NotFound", "Timeout"}]
    BY <2>1, <2>3, <2>4
  <2>8. QED BY <2>4, <2>6, <2>7 DEF MonitorAssumption, MonitorInv, MonitorTypes
<1>2. StorageFits'
  BY DEF MonitorInv, MonitorTypes, StorageFits
<1>3. NotTooLate'
  BY DEF MonitorInv, MonitorTypes, StorageFits, NotTooLate
<1>4. NotTooEarly'
  BY DEF MonitorAssumption, NotTooEarly, Waited
<1>5. QED BY <1>1, <1>2, <1>3, <1>4 DEF MonitorInv

LEMMA PollFetchKeeps ==
    ASSUME MonitorAssumption, MonitorInv, PollFetch
    PROVE  MonitorInv'
<1> USE DEF PollFetch
<1>1. MonitorTypes'
  <2>1. RemoteSecretError(Pending) # Ok
    BY SecretAnswered DEF Pending, Response
  <2>2. QED BY <2>1 DEF MonitorAssumption, MonitorInv, MonitorTypes
<1>2. StorageFits'
  BY DEF MonitorInv, MonitorTypes, StorageFits
<1>3. monitor.storage.interval \in Nat /\ unconfirmed \in Nat /\ monitor.failed \in Nat
  BY SettingsTypes DEF MonitorInv, MonitorTypes
<1>4. NotTooLate'
  BY <1>3 DEF MonitorInv, MonitorTypes, NotTooLate
<1>5. NotTooEarly'
  BY <1>3 DEF MonitorInv, MonitorTypes, NotTooEarly, Waited
<1>6. QED BY <1>1, <1>2, <1>4, <1>5 DEF MonitorInv

LEMMA FetchEndsKeeps ==
    ASSUME MonitorInv, NEW result, FetchEnds(result),
           RemoteSecretError(result) = Ok =>
               result.body.interval \in Intervals /\ result.body.limit \in Limits
    PROVE  MonitorInv'
<1> USE DEF FetchEnds, clockVars
<1>1. MonitorTypes'
  BY DEF MonitorInv, MonitorTypes
<1>2. StorageFits' /\ NotTooLate' /\ NotTooEarly'
  BY DEF MonitorInv, StorageFits, NotTooLate, NotTooEarly, Waited
<1>3. QED BY <1>1, <1>2 DEF MonitorInv

\* Time takes from the timer or adds to the request, until the clock stands.
LEMMA TickKeeps ==
    ASSUME MonitorAssumption, MonitorInv, Tick
    PROVE  MonitorInv'
<1> USE DEF Tick
<1>1. MonitorTypes'
  BY SettingsTypes DEF MonitorAssumption, MonitorInv, MonitorTypes
<1>2. StorageFits'
  BY DEF MonitorInv, StorageFits
<1>3. /\ monitor.storage.interval \in Nat /\ unconfirmed \in Nat /\ monitor.failed \in Nat
      /\ timer \in Nat /\ elapsed \in Nat /\ MaxUnconfirmed \in Nat /\ RequestTimeout \in Nat
      /\ Waited \in Nat
  BY SettingsTypes DEF MonitorAssumption, MonitorInv, MonitorTypes, Waited
<1> DEFINE spent == monitor.failed * (monitor.storage.interval + RequestTimeout)
                        + monitor.storage.interval
           waited == Waited * monitor.storage.interval
<1>4. spent \in Nat /\ waited \in Nat
  BY <1>3
<1>5. spent' = spent /\ waited' = waited
  BY DEF Waited
<1> HIDE DEF spent, waited
<1>6. NotTooLate'
  <2>1. /\ storage = "unlocked" /\ monitor.at = "Fetch" => unconfirmed + timer <= spent
        /\ storage = "unlocked" /\ monitor.at = "Verify" => unconfirmed <= spent + elapsed
    BY DEF MonitorInv, NotTooLate, spent
  <2>2. /\ storage' = "unlocked" /\ monitor'.at = "Fetch" => unconfirmed' + timer' <= spent'
        /\ storage' = "unlocked" /\ monitor'.at = "Verify" => unconfirmed' <= spent' + elapsed'
    BY <1>3, <1>4, <1>5, <2>1
  <2>3. QED BY <2>2 DEF NotTooLate, spent
<1>7. NotTooEarly'
  <2>1. unconfirmed < MaxUnconfirmed =>
          /\ monitor.at = "Fetch" => unconfirmed + timer >= waited
          /\ monitor.at = "Verify" => unconfirmed >= waited
    BY DEF MonitorInv, NotTooEarly, waited
  <2>2. unconfirmed' < MaxUnconfirmed =>
          /\ monitor'.at = "Fetch" => unconfirmed' + timer' >= waited'
          /\ monitor'.at = "Verify" => unconfirmed' >= waited'
          /\ monitor'.at # "Error"
    BY <1>3, <1>4, <1>5, <2>1
  <2>3. QED BY <2>2 DEF NotTooEarly, waited
<1>8. QED BY <1>1, <1>2, <1>6, <1>7 DEF MonitorInv

\* A check that succeeds takes over its settings and starts to count anew.
LEMMA SucceedsKeeps ==
    ASSUME MonitorAssumption, MonitorInv, PollVerifySucceeds
    PROVE  MonitorInv'
<1> DEFINE body == fetch.body
           settings == Unlocked(body)
<1>1. settings \in Settings /\ settings.unlocked
  <2>1. body.interval \in Nat /\ body.limit \in Limits
    BY DEF PollVerifySucceeds, MonitorAssumption, MonitorInv, MonitorTypes
  <2>2. Clamp(body.interval) \in MinInterval .. MaxInterval
    BY <2>1 DEF Clamp, MonitorAssumption
  <2>3. QED BY <2>1, <2>2 DEF Unlocked, Settings
<1>2. /\ monitor' = [monitor EXCEPT !.storage = settings, !.failed = 0, !.at = "Fetch"]
      /\ fetch' = Pending /\ timer' = settings.interval /\ unconfirmed' = 0
      /\ storage' = "unlocked"
      /\ handedOut' = (IF monitor.storage.unlocked THEN handedOut ELSE handedOut + 1)
      /\ UNCHANGED elapsed
      /\ monitor.at = "Verify"
  BY DEF PollVerifySucceeds, PollsVerify, Schedule
<1> HIDE DEF settings
<1>3. settings.interval \in Nat /\ settings.limit \in Nat
  BY <1>1, SettingsTypes
<1>4. monitor'.storage = settings /\ monitor'.failed = 0 /\ monitor'.at = "Fetch"
  BY <1>2 DEF MonitorInv, MonitorTypes
<1>5. handedOut' = 1
  BY <1>2 DEF MonitorInv, MonitorTypes, StorageFits
<1>6. MonitorTypes'
  <2>1. RemoteSecretError(Pending) # Ok
    BY SecretAnswered DEF Pending, Response
  <2>2. monitor' \in [at : {"Off", "Fetch", "Verify", "Error"}, storage : Settings, failed : Nat,
                      token : Nat, expected : Nat,
                      error : {Ok, "Mismatch", "Blocked", "NotFound", "Timeout"}]
    BY <1>1, <1>2 DEF MonitorInv, MonitorTypes
  <2>3. monitor'.failed <= monitor'.storage.limit /\ timer' \in 0 .. monitor'.storage.interval
    BY <1>2, <1>3, <1>4
  <2>4. QED
    BY <1>2, <1>5, <2>1, <2>2, <2>3 DEF MonitorAssumption, MonitorInv, MonitorTypes
<1>7. StorageFits'
  BY <1>1, <1>2, <1>4, <1>5 DEF StorageFits
<1>8. RequestTimeout \in Nat
  BY DEF MonitorAssumption
<1>9. NotTooLate'
  BY <1>2, <1>3, <1>4, <1>8 DEF NotTooLate
<1>10. NotTooEarly'
  BY <1>1, <1>2, <1>3, <1>4 DEF NotTooEarly, Waited
<1>11. QED BY <1>6, <1>7, <1>9, <1>10 DEF MonitorInv

\* A failed check is scheduled again, an interval after at most one request.
LEMMA RetriesKeeps ==
    ASSUME MonitorAssumption, MonitorInv, PollVerifyRetries
    PROVE  MonitorInv'
<1> DEFINE interval == monitor.storage.interval
           limit == monitor.storage.limit
<1>1. /\ monitor' = [monitor EXCEPT !.failed = @ + 1, !.at = "Fetch"]
      /\ fetch' = Pending /\ timer' = interval
      /\ UNCHANGED <<elapsed, storage, handedOut, unconfirmed>>
      /\ monitor.at = "Verify" /\ monitor.failed < limit
  BY DEF PollVerifyRetries, Failed, PollsVerify, Schedule
<1>2. /\ monitor'.storage = monitor.storage /\ monitor'.failed = monitor.failed + 1
      /\ monitor'.at = "Fetch"
  BY <1>1 DEF MonitorInv, MonitorTypes
<1>3. /\ interval \in Nat /\ limit \in Nat /\ unconfirmed \in Nat /\ monitor.failed \in Nat
      /\ RequestTimeout \in Nat /\ elapsed \in 0 .. RequestTimeout /\ Waited \in Nat
  BY SettingsTypes DEF MonitorAssumption, MonitorInv, MonitorTypes, Waited
<1>4. MonitorTypes'
  <2>1. RemoteSecretError(Pending) # Ok
    BY SecretAnswered DEF Pending, Response
  <2>2. monitor' \in [at : {"Off", "Fetch", "Verify", "Error"}, storage : Settings, failed : Nat,
                      token : Nat, expected : Nat,
                      error : {Ok, "Mismatch", "Blocked", "NotFound", "Timeout"}]
    <3> DEFINE failed == monitor.failed + 1
    <3>1. failed \in Nat
      BY <1>3
    <3>2. monitor' = [monitor EXCEPT !.failed = failed, !.at = "Fetch"]
      BY <1>1
    <3> HIDE DEF failed
    <3>3. QED BY <3>1, <3>2 DEF MonitorInv, MonitorTypes
  <2>3. monitor'.failed <= monitor'.storage.limit /\ timer' \in 0 .. monitor'.storage.interval
    BY <1>1, <1>2, <1>3
  <2>4. QED BY <1>1, <2>1, <2>2, <2>3 DEF MonitorInv, MonitorTypes
<1>5. StorageFits'
  BY <1>1, <1>2 DEF MonitorInv, StorageFits
<1>6. NotTooLate'
  <2> DEFINE round == interval + RequestTimeout
  <2>a. round \in Nat /\ round = interval + RequestTimeout
    BY <1>3
  <2> HIDE DEF round
  <2>1. /\ (monitor.failed + 1) * round = monitor.failed * round + round
        /\ monitor.failed * round \in Nat
    BY <1>3, <2>a, Times
  <2>2. storage = "unlocked" => unconfirmed <= monitor.failed * round + interval + elapsed
    BY <1>1, <2>a DEF MonitorInv, NotTooLate
  <2>3. storage = "unlocked" => unconfirmed + interval <= (monitor.failed + 1) * round + interval
    BY <1>3, <2>1, <2>2, <2>a
  <2>4. QED BY <1>1, <1>2, <2>3, <2>a DEF NotTooLate
<1>7. NotTooEarly'
  <2>1. Waited' = Waited + 1
    BY <1>2, <1>3 DEF Waited
  <2>2. (Waited + 1) * interval = Waited * interval + interval /\ Waited * interval \in Nat
    BY <1>3, Times
  <2>3. unconfirmed < MaxUnconfirmed => unconfirmed >= Waited * interval
    BY <1>1 DEF MonitorInv, NotTooEarly
  <2>4. unconfirmed < MaxUnconfirmed => unconfirmed + interval >= (Waited + 1) * interval
    BY <1>3, <2>2, <2>3
  <2>5. QED BY <1>1, <1>2, <2>1, <2>4 DEF NotTooEarly
<1>8. QED BY <1>4, <1>5, <1>6, <1>7 DEF MonitorInv

\* The storage is locked with the error, and the time is up if that is it.
LEMMA FailMonitorKeeps ==
    ASSUME MonitorAssumption, MonitorInv, monitor.at = "Verify",
           NEW error \in {"Mismatch", "Blocked", "NotFound", "Timeout"}, FailMonitor(error),
           error = "Timeout" => monitor.failed >= monitor.storage.limit, UNCHANGED elapsed
    PROVE  MonitorInv'
<1> USE DEF FailMonitor
<1>1. /\ monitor'.storage = monitor.storage /\ monitor'.failed = monitor.failed
      /\ monitor'.at = "Error" /\ monitor'.error = error
  BY DEF MonitorInv, MonitorTypes
<1>2. monitor.storage.interval \in Nat /\ monitor.storage.limit \in Nat
  BY SettingsTypes DEF MonitorInv, MonitorTypes
<1>3. MonitorTypes'
  <2>1. RemoteSecretError(Pending) # Ok
    BY SecretAnswered DEF Pending, Response
  <2>2. monitor' \in [at : {"Off", "Fetch", "Verify", "Error"}, storage : Settings, failed : Nat,
                      token : Nat, expected : Nat,
                      error : {Ok, "Mismatch", "Blocked", "NotFound", "Timeout"}]
    BY DEF MonitorInv, MonitorTypes
  <2>3. 0 \in 0 .. monitor'.storage.interval
    BY <1>1, <1>2
  <2>4. QED BY <1>1, <2>1, <2>2, <2>3 DEF MonitorInv, MonitorTypes
<1>4. StorageFits' /\ NotTooLate'
  BY <1>1 DEF StorageFits, NotTooLate
<1>5. NotTooEarly'
  BY <1>1, <1>2 DEF MonitorInv, MonitorTypes, NotTooEarly, Waited
<1>6. QED BY <1>3, <1>4, <1>5 DEF MonitorInv

\* A step of the monitor, its caller, the work server or time.
LEMMA CheckKeeps ==
    ASSUME MonitorAssumption, MonitorInv, Check
    PROVE  MonitorInv'
<1>1. CASE PollVerifyMismatch
  BY <1>1, FailMonitorKeeps DEF PollVerifyMismatch, PollsVerify
<1>2. CASE PollVerifyRefused
  <2>1. PICK error \in {"Blocked", "NotFound"} : FailMonitor(error)
    BY <1>2 DEF PollVerifyRefused
  <2>2. QED BY <1>2, <2>1, FailMonitorKeeps DEF PollVerifyRefused, PollsVerify
<1>3. CASE PollVerifyTimesOut
  BY <1>3, FailMonitorKeeps DEF PollVerifyTimesOut, Failed, PollsVerify
<1>4. CASE AnswerFetch
  <2>1. CASE \E interval \in Intervals, limit \in Limits : \E secret :
                 FetchEnds(Response(200, SecretBody(secret, interval, limit)))
    <3>1. PICK secret, interval, limit :
              /\ interval \in Intervals /\ limit \in Limits
              /\ FetchEnds(Response(200, SecretBody(secret, interval, limit)))
      BY <2>1
    <3>2. QED BY <3>1, FetchEndsKeeps DEF Response, SecretBody
  <2>2. CASE \E status \in {403, 404} : FetchEnds(Response(status, Garbage))
    BY <2>2, FetchEndsKeeps, SecretAnswered DEF Response, Garbage
  <2>3. QED BY <1>4, <2>1, <2>2 DEF AnswerFetch
<1>5. CASE FetchFails
  <2>1. PICK result \in {Network, Response(429, Garbage), Response(200, Garbage)} :
            FetchEnds(result)
    BY <1>5 DEF FetchFails
  <2>2. RemoteSecretError(result) # Ok
    BY SecretAnswered DEF Network, Response, Garbage
  <2>3. QED BY <2>1, <2>2, FetchEndsKeeps
<1>6. QED
  BY <1>1, <1>2, <1>3, <1>4, <1>5, PollFetchKeeps, SucceedsKeeps, RetriesKeeps, TickKeeps
  DEF Check

LEMMA MonitorStep ==
    ASSUME MonitorAssumption, SetupInv, MonitorInv, [Next]_vars
    PROVE  MonitorInv'
<1>1. CASE UNCHANGED monitorVars
  BY <1>1
  DEF monitorVars, clockVars, MonitorInv, MonitorTypes, StorageFits, NotTooLate, NotTooEarly, Waited
<1>2. CASE Block \/ Unblock \/ Remove
  BY <1>1, <1>2 DEF Block, Unblock, Remove, SetStatus
<1>3. QED BY <1>1, <1>2, NewMonitorKeeps, CheckKeeps DEF Next, vars

LEMMA MonitorStarts ==
    ASSUME MonitorAssumption, MonitorInit
    PROVE  MonitorInv
<1> USE DEF MonitorInit, Off, Locked
<1>1. RemoteSecretError(Pending) # Ok
  BY SecretAnswered DEF Pending, Response
<1>2. MonitorTypes
  BY <1>1 DEF MonitorAssumption, MonitorTypes, Settings, Ok
<1>3. StorageFits /\ NotTooLate
  BY DEF StorageFits, NotTooLate
<1>4. NotTooEarly
  BY DEF NotTooEarly
<1>5. QED BY <1>2, <1>3, <1>4 DEF MonitorInv

LEMMA MonitorHolds == Spec => [](SetupInv /\ MonitorInv)
<1>1. Init => SetupInv /\ MonitorInv
  BY SetupAssumption, MonitorAssumption, SetupStarts, MonitorStarts DEF Init
<1>2. SetupInv /\ MonitorInv /\ [Next]_vars => (SetupInv /\ MonitorInv)'
  BY SetupAssumption, MonitorAssumption, SetupStep, MonitorStep
<1>3. QED BY <1>1, <1>2, PTL DEF Spec

(***************************************************************************)
(* The secret is handed out once, and the storage is never left unlocked   *)
(* for longer after the last check that succeeded than the settings of     *)
(* that check allow (remote_secret/monitor.rs, poll_verify).               *)
(***************************************************************************)
THEOREM SecretStaysGuarded == Spec => []SecretGuarded
<1>1. SetupInv /\ MonitorInv => SecretGuarded
  <2> SUFFICES ASSUME MonitorInv
               PROVE  HandedOutOnce /\ LockedInTime
    BY DEF SecretGuarded
  <2>1. HandedOutOnce
    BY DEF MonitorInv, MonitorTypes, StorageFits, HandedOutOnce
  <2>2. ASSUME storage = "unlocked"
        PROVE  unconfirmed <= (monitor.storage.limit + 1)
                                  * (monitor.storage.interval + RequestTimeout)
    <3> DEFINE interval == monitor.storage.interval
               limit == monitor.storage.limit
               round == interval + RequestTimeout
    <3>1. /\ interval \in Nat /\ limit \in Nat /\ RequestTimeout \in Nat
          /\ monitor.failed \in Nat /\ monitor.failed <= limit
          /\ timer \in Nat /\ elapsed \in 0 .. RequestTimeout /\ unconfirmed \in Nat
      BY MonitorAssumption, SettingsTypes DEF MonitorAssumption, MonitorInv, MonitorTypes
    <3>2. monitor.at \in {"Fetch", "Verify"}
      BY <2>2 DEF MonitorInv, MonitorTypes, StorageFits
    <3>3. round \in Nat /\ round = interval + RequestTimeout
      BY <3>1
    <3> HIDE DEF round
    <3>4. /\ monitor.failed * round \in Nat
          /\ (monitor.failed + 1) * round = monitor.failed * round + round
      BY <3>1, <3>3, Times
    <3>a. (limit + 1) * round \in Nat
      BY <3>1, <3>3
    <3>5. (monitor.failed + 1) * round <= (limit + 1) * round
      BY <3>1, <3>3, TimesGrows
    <3>6. \/ unconfirmed + timer <= monitor.failed * round + interval
          \/ unconfirmed <= monitor.failed * round + interval + elapsed
      BY <2>2, <3>2, <3>3 DEF MonitorInv, NotTooLate
    <3>7. unconfirmed <= (limit + 1) * round
      BY <3>1, <3>3, <3>4, <3>5, <3>6, <3>a
    <3>8. QED BY <3>3, <3>7
  <2>3. QED BY <2>1, <2>2 DEF LockedInTime
<1>2. QED BY <1>1, MonitorHolds, PTL

(***************************************************************************)
(* A monitor that gives up on its servers has waited as long as the        *)
(* settings say since the last check that succeeded, or since its start    *)
(* (remote_secret/monitor.rs, poll_verify).                                *)
(***************************************************************************)
THEOREM OutagesAreTolerated == Spec => []OutageTolerated
<1>1. SetupInv /\ MonitorInv => OutageTolerated
  <2> SUFFICES ASSUME MonitorInv, monitor.at = "Error", monitor.error = "Timeout"
               PROVE  unconfirmed >= (IF monitor.storage.unlocked
                                      THEN monitor.storage.limit + 1
                                      ELSE monitor.storage.limit) * monitor.storage.interval
    BY DEF OutageTolerated
  <2>1. unconfirmed \in Nat /\ MaxUnconfirmed \in Nat /\ unconfirmed <= MaxUnconfirmed
    BY MonitorAssumption DEF MonitorAssumption, MonitorInv, MonitorTypes
  <2>2. CASE unconfirmed = MaxUnconfirmed
    BY <2>2, MonitorAssumption, SettingsTypes DEF MonitorInv, MonitorTypes
  <2>3. CASE unconfirmed < MaxUnconfirmed
    BY <2>3 DEF MonitorInv, NotTooEarly, Waited
  <2>4. QED BY <2>1, <2>2, <2>3
<1>2. QED BY <1>1, MonitorHolds, PTL

(***************************************************************************)
(* The tasks and the monitor keep their types, and every token and every   *)
(* identity a task holds is one the servers know.                          *)
(***************************************************************************)
THEOREM SecretTypes == Spec => []TypeOK
<1>1. SetupInv /\ MonitorInv => TypeOK
  <2> SUFFICES ASSUME SetupInv, MonitorInv
               PROVE  TypeOK
    OBVIOUS
  <2>1. SetupTypeOK
    <3>1. started \in 0 .. MaxTasks /\ MaxTasks \in Nat
      BY SetupAssumption DEF SetupAssumption, SetupInv, SetupTypes, Fresh
    <3>2. /\ task.subject \in 0 .. MaxTasks
          /\ task.kind \in {"none", "CreateIdentity", "CreateSecret", "DeleteSecret"}
          /\ task.error \in {Ok} \cup Failures
          /\ flavor \in {"consumer", "work"}
      BY <3>1 DEF SetupInv, SetupTypes, TaskFits
    <3>3. (task.at \in Settled) <=> (exchange = NoExchange)
      BY DEF SetupInv, SetupTypes, RequestFits, Settled, IdentityStates, SecretStates, DeleteStates,
          NoExchange, NoRequest, Request, CreateIdentityRequest, UpdateWorkPropertiesRequest,
          CreateRemoteSecretRequest, DeleteRemoteSecretRequest
    <3>4. QED
      BY <3>1, <3>2, <3>3
      DEF SetupInv, TaskFits, Fresh, AccountTrue, SetupTypeOK, Settled, Failures
  <2>2. monitor.failed \in 0 .. monitor.storage.limit
    BY MonitorAssumption, SettingsTypes DEF MonitorInv, MonitorTypes
  <2>3. QED BY <2>1, <2>2 DEF MonitorInv, MonitorTypes, StorageFits, TypeOK
<1>2. QED BY <1>1, MonitorHolds, PTL
=============================================================================

----------------------------- MODULE SetupTasks -----------------------------
(* The tasks that set an account up, one after the other as the commands    *)
(* identity_create and remote_secret run them: create an identity           *)
(* (csp_e2e/identity/create.rs), create a remote secret and delete it       *)
(* (remote_secret/setup). Each asks for an authentication challenge, signs  *)
(* it and has a server act; every request may be refused, lost on its way,  *)
(* or its answer lost after the server has acted.                           *)
(*                                                                          *)
(* A client key and a remote secret are drawn at random by their task: each *)
(* is named by the number of the task. Identities and tokens are positions  *)
(* in what the servers store.                                               *)
EXTENDS HttpsEndpoints, Sequences

CONSTANTS
    MaxTasks,   \* bound: the tasks the user starts
    Refusals    \* the answers of a server that does not do what it is asked

ASSUME SetupAssumption ==
    /\ MaxTasks \in Nat
    \* refused is what did not happen: no answer says that it did
    /\ \A refusal \in Refusals :
          /\ refusal.status # 0
          /\ refusal.body.type \notin {"identity", "token", "success"}

VARIABLES
    flavor,      \* Flavor of the application
    task,        \* the task in progress, or how the last one ended
    exchange,    \* its HTTPS request and the result
    started,     \* number of tasks started
    account,     \* what tasks have returned to the user; 0: nothing yet
    directory,   \* the directory's identities
    secrets      \* the work server's remote secrets, by token

setupVars == <<flavor, task, exchange, started, account, directory, secrets>>

Idle == [kind |-> "none", at |-> "Done", subject |-> 0, identity |-> 0, error |-> Ok]
NoRequest == Request("none", 0, 0, 0)
Pending == Response(1, [type |-> "none"])
NoExchange == [request |-> NoRequest, result |-> Pending]

SetupInit ==
    /\ flavor \in {"consumer", "work"}
    /\ task = Idle
    /\ exchange = NoExchange
    /\ started = 0
    /\ account = [identity |-> 0, key |-> 0, token |-> 0, secret |-> 0]
    /\ directory = <<>>
    /\ secrets = <<>>

-----------------------------------------------------------------------------
\* The tasks.

\* A new task, with the key or the secret it draws or the token it is given.
New(kind, subject) ==
    /\ task.at \in {"Done", "Error"}
    /\ started < MaxTasks
    /\ started' = started + 1
    /\ task' = [kind |-> kind, at |-> "Init", subject |-> subject,
                identity |-> account.identity, error |-> Ok]
    /\ UNCHANGED <<flavor, exchange, account, directory, secrets>>

NewCreateIdentity == account.identity = 0 /\ New("CreateIdentity", started + 1)
NewRemoteSecretCreate ==
    /\ flavor = "work"
    /\ account.identity # 0
    /\ account.token = 0
    /\ New("CreateSecret", started + 1)
NewRemoteSecretDelete == account.token # 0 /\ New("DeleteSecret", account.token)

\* poll: an error ends the task and is what every later poll returns.
Fail(error) ==
    /\ task' = [task EXCEPT !.at = "Error", !.error = TaskError(error)]
    /\ exchange' = NoExchange
    /\ UNCHANGED account

Send(at, request) ==
    /\ task' = [task EXCEPT !.at = at]
    /\ exchange' = [request |-> request, result |-> Pending]
    /\ UNCHANGED account

Complete(result) ==
    /\ task' = [task EXCEPT !.at = "Done"]
    /\ exchange' = NoExchange
    /\ account' = result

\* The result of the request of the state "at" has been given to "response".
Polled(at) == task.at = at /\ exchange.result # Pending
Polls == UNCHANGED <<flavor, started, directory, secrets>>

PollInit ==
    /\ task.at = "Init"
    /\ \/ /\ task.kind = "CreateIdentity"
          /\ Send("DirectoryChallenge", CreateIdentityRequest(task.subject, 0))
       \/ /\ task.kind = "CreateSecret"
          /\ Send("CreateChallenge", CreateRemoteSecretRequest(task.subject, task.identity, 0))
       \/ /\ task.kind = "DeleteSecret"
          /\ Send("DeleteChallenge", DeleteRemoteSecretRequest(task.subject, task.identity, 0))
    /\ Polls

PollDirectoryChallenge ==
    /\ Polled("DirectoryChallenge")
    /\ LET error == DirectoryChallengeError(exchange.result) IN
       \/ error # Ok /\ Fail(error)
       \/ error = Ok /\ Send("DirectoryCreate",
                             CreateIdentityRequest(task.subject, task.subject))
    /\ Polls

Created == [account EXCEPT !.identity = task.identity, !.key = task.subject]

PollDirectoryCreate ==
    /\ Polled("DirectoryCreate")
    /\ LET error == CreateIdentityError(exchange.result)
           identity == exchange.result.body.identity
       IN \/ error # Ok /\ Fail(error)
          \/ /\ error = Ok
             /\ flavor = "consumer"
             /\ Complete([account EXCEPT !.identity = identity, !.key = task.subject])
          \/ /\ error = Ok
             /\ flavor = "work"
             /\ task' = [task EXCEPT !.at = "RegisterWorkChallenge", !.identity = identity]
             /\ exchange' = [request |-> UpdateWorkPropertiesRequest(identity, 0),
                             result |-> Pending]
             /\ UNCHANGED account
    /\ Polls

PollRegisterWorkChallenge ==
    /\ Polled("RegisterWorkChallenge")
    /\ LET error == DirectoryChallengeError(exchange.result) IN
       \/ error # Ok /\ Fail(error)
       \/ error = Ok /\ Send("RegisterWork",
                             UpdateWorkPropertiesRequest(task.identity, task.subject))
    /\ Polls

\* (Mutant: registering is best effort, its result is not looked at.)
PollRegisterWorkAnyway ==
    /\ Polled("RegisterWork")
    /\ Complete(Created)
    /\ Polls

PollRegisterWork ==
    /\ Polled("RegisterWork")
    /\ LET error == UpdateWorkPropertiesError(exchange.result) IN
       \/ error # Ok /\ Fail(error)
       \/ error = Ok /\ Complete(Created)
    /\ Polls

PollCreateChallenge ==
    /\ Polled("CreateChallenge")
    /\ LET error == WorkChallengeError(exchange.result) IN
       \/ error # Ok /\ Fail(error)
       \/ error = Ok /\ Send("Create", CreateRemoteSecretRequest(
                                           task.subject, task.identity, account.key))
    /\ Polls

PollCreate ==
    /\ Polled("Create")
    /\ LET error == CreateRemoteSecretError(exchange.result) IN
       \/ error # Ok /\ Fail(error)
       \/ error = Ok /\ Complete([account EXCEPT !.token = exchange.result.body.token,
                                                 !.secret = task.subject])
    /\ Polls

PollDeleteChallenge ==
    /\ Polled("DeleteChallenge")
    /\ LET error == WorkChallengeError(exchange.result) IN
       \/ error # Ok /\ Fail(error)
       \/ error = Ok /\ Send("Delete", DeleteRemoteSecretRequest(
                                           task.subject, task.identity, account.key))
    /\ Polls

PollDelete ==
    /\ Polled("Delete")
    /\ LET error == DeleteRemoteSecretError(exchange.result) IN
       \/ error # Ok /\ Fail(error)
       \/ error = Ok /\ Complete([account EXCEPT !.token = 0, !.secret = 0])
    /\ Polls

-----------------------------------------------------------------------------
\* The servers (external) and the network between.

Asked(endpoint) == exchange.request.endpoint = endpoint /\ exchange.result = Pending
Signed == exchange.request.signer # 0
Answer(result) ==
    /\ exchange' = [exchange EXCEPT !.result = result]
    /\ UNCHANGED <<flavor, task, started, account>>

\* The client key a signature is checked against.
KeyOf(identity) == directory[identity].key

AnswerChallenge ==
    /\ exchange.request # NoRequest
    /\ exchange.result = Pending
    /\ ~Signed
    /\ Answer(Response(200, Challenge))
    /\ UNCHANGED <<directory, secrets>>

AnswerCreateIdentity ==
    /\ Asked("CreateIdentity")
    /\ exchange.request.signer = exchange.request.subject
    /\ directory' = Append(directory, [key |-> exchange.request.subject, registered |-> FALSE])
    /\ Answer(Response(200, IdentityBody(Len(directory) + 1)))
    /\ UNCHANGED secrets

AnswerUpdateWorkProperties ==
    /\ Asked("UpdateWorkProperties")
    /\ Signed
    /\ exchange.request.signer = KeyOf(exchange.request.identity)
    /\ directory' = [directory EXCEPT ![exchange.request.identity].registered = TRUE]
    /\ Answer(Response(200, Success))
    /\ UNCHANGED secrets

AnswerPutSecret ==
    /\ Asked("PutSecret")
    /\ Signed
    /\ exchange.request.signer = KeyOf(exchange.request.identity)
    /\ secrets' = Append(secrets, [owner |-> exchange.request.identity,
                                   secret |-> exchange.request.subject, status |-> "active"])
    /\ Answer(Response(200, TokenBody(Len(secrets) + 1)))
    /\ UNCHANGED directory

AnswerDeleteSecret ==
    /\ Asked("DeleteSecret")
    /\ Signed
    /\ exchange.request.signer = KeyOf(exchange.request.identity)
    /\ secrets' = [secrets EXCEPT ![exchange.request.subject].status = "removed"]
    /\ Answer(Response(204, [type |-> "none"]))
    /\ UNCHANGED directory

Refuse ==
    /\ exchange.request # NoRequest
    /\ exchange.result = Pending
    /\ \E refusal \in Refusals : Answer(refusal)
    /\ UNCHANGED <<directory, secrets>>

\* The request, or the answer to it, does not arrive in time.
Lose ==
    /\ exchange.request # NoRequest
    /\ exchange.result.status # 0
    /\ Answer(Network)
    /\ UNCHANGED <<directory, secrets>>

StartTask == NewCreateIdentity \/ NewRemoteSecretCreate \/ NewRemoteSecretDelete
PollTask ==
    \/ PollInit
    \/ PollDirectoryChallenge \/ PollDirectoryCreate
    \/ PollRegisterWorkChallenge \/ PollRegisterWork
    \/ PollCreateChallenge \/ PollCreate
    \/ PollDeleteChallenge \/ PollDelete
ServeTask ==
    \/ AnswerChallenge \/ AnswerCreateIdentity \/ AnswerUpdateWorkProperties
    \/ AnswerPutSecret \/ AnswerDeleteSecret \/ Refuse \/ Lose
SetupNext == StartTask \/ PollTask \/ ServeTask

-----------------------------------------------------------------------------
SetupTypeOK ==
    /\ flavor \in {"consumer", "work"}
    /\ task.kind \in {"none", "CreateIdentity", "CreateSecret", "DeleteSecret"}
    /\ task.subject \in 0 .. MaxTasks
    /\ task.identity \in 0 .. Len(directory)
    /\ task.error \in {Ok, "NetworkError", "InvalidCredentials", "RateLimitExceeded",
                       "ServerError"}
    /\ (task.error # Ok) <=> (task.at = "Error")
    /\ (task.at \in {"Init", "Done", "Error"}) <=> (exchange = NoExchange)
    /\ started \in 0 .. MaxTasks
    /\ Len(directory) + Len(secrets) <= started
    /\ account.identity \in 0 .. Len(directory)
    /\ account.token \in 0 .. Len(secrets)

\* However requests and answers are lost, a client key is never tied to two
\* identities: DirectoryCreate is entered once per task and never asks again,
\* since the first answer may have been lost after the directory had acted
\* (create.rs, poll_directory_create; a task that failed cannot be resumed).
OneIdentityPerKey ==
    \A i, j \in DOMAIN directory : directory[i].key = directory[j].key => i = j

\* What a task returns is what the servers hold: the identity has the key that
\* was returned with it and, for Work, is registered there; the token gives
\* the secret that was returned with it and belongs to the identity, until it
\* is deleted (create.rs, poll_register_work; setup/create.rs, poll_create).
ReturnedIsStored ==
    /\ account.identity # 0 =>
         /\ directory[account.identity].key = account.key
         /\ flavor = "work" => directory[account.identity].registered
    /\ account.token # 0 =>
         /\ secrets[account.token].secret = account.secret
         /\ secrets[account.token].owner = account.identity

\* What the tasks return is what the servers hold, and holds of one identity
\* alone, whatever is lost on the way (identity/create.rs, setup/create.rs).
IdentityConsistent == OneIdentityPerKey /\ ReturnedIsStored

=============================================================================

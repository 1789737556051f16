------------------------ MODULE RemoteSecretMonitor -------------------------
(* Remote secret monitoring (remote_secret/monitor.rs), with the loop its   *)
(* documentation prescribes and remote_secret.rs runs, next to the tasks    *)
(* that create and delete the secret: the protocol fetches the remote       *)
(* secret, hands it out to unlock the storage, and checks it again and      *)
(* again; the storage is locked as soon as the protocol fails. Meanwhile    *)
(* the administrator blocks, unblocks and removes secrets, servers fail and *)
(* the user deletes the secret with the other task.                         *)
(*                                                                          *)
(* Time passes in ticks. The timers of the caller are exact and a request   *)
(* ends within its timeout; late ones are only logged by the code.          *)
EXTENDS SetupTasks

CONSTANTS
    RequestTimeout,           \* endpoint::TIMEOUT
    RetryIntervalWhileLocked, \* RETRY_INTERVAL_WHILE_LOCKED
    MaxFailuresWhileLocked,   \* N_FAILED_ATTEMPTS_MAX_WHILE_LOCKED
    MinInterval, MaxInterval, \* VALID_CHECK_INTERVAL_RANGE_S
    Intervals, Limits,        \* checkIntervalS, nMissedChecksMax of the server
    MaxMonitors,              \* bound: how often the monitor is started
    MaxUnconfirmed            \* bound: from here on the clock stands still

ASSUME MonitorAssumption ==
    /\ {RequestTimeout, RetryIntervalWhileLocked, MaxFailuresWhileLocked} \subseteq Nat
    /\ {MinInterval, MaxInterval} \subseteq Nat \ {0}
    /\ MinInterval <= MaxInterval
    /\ Intervals \subseteq Nat
    /\ Limits \subseteq Nat
    /\ MaxMonitors \in Nat
    \* late enough for every property that looks at the clock
    /\ MaxUnconfirmed \in Nat
    /\ \A limit \in Limits : MaxUnconfirmed > (limit + 1) * (MaxInterval + RequestTimeout)
    /\ MaxUnconfirmed >= MaxFailuresWhileLocked * RetryIntervalWhileLocked

VARIABLES
    monitor,     \* the protocol: State with its StorageState
    fetch,       \* the result of its HTTPS request
    timer,       \* ticks left until the caller polls again
    elapsed,     \* ticks since the request was sent
    storage,     \* what the caller does with the secret: the storage
    handedOut,   \* times the secret was handed out by this instance
    unconfirmed, \* ticks since the start or the last check that succeeded
    monitors     \* number of instances started

clockVars == <<timer, elapsed, unconfirmed>>
monitorVars == <<monitor, fetch, clockVars, storage, handedOut, monitors>>
vars == <<setupVars, monitorVars>>

\* StorageState::Locked, and its constants
Locked == [unlocked |-> FALSE, interval |-> RetryIntervalWhileLocked,
           limit |-> MaxFailuresWhileLocked]
Off == [at |-> "Off", storage |-> Locked, failed |-> 0, token |-> 0, expected |-> 0, error |-> Ok]

MonitorInit ==
    /\ monitor = Off
    /\ fetch = Pending
    /\ timer = 0
    /\ elapsed = 0
    /\ storage = "locked"
    /\ handedOut = 0
    /\ unconfirmed = 0
    /\ monitors = 0

-----------------------------------------------------------------------------
\* The protocol and the caller's loop.

\* The app starts, or the user retries after an error.
NewMonitor ==
    /\ monitor.at \in {"Off", "Error"}
    /\ account.token # 0
    /\ monitors < MaxMonitors
    /\ monitor' = [Off EXCEPT !.at = "Fetch", !.token = account.token,
                              !.expected = account.secret]
    /\ monitors' = monitors + 1
    /\ timer' = 0
    /\ handedOut' = 0
    /\ unconfirmed' = 0
    /\ UNCHANGED <<setupVars, fetch, elapsed, storage>>

PollFetch ==
    /\ monitor.at = "Fetch"
    /\ timer = 0
    /\ monitor' = [monitor EXCEPT !.at = "Verify"]
    /\ fetch' = Pending
    /\ elapsed' = 0
    /\ UNCHANGED <<setupVars, timer, storage, handedOut, unconfirmed, monitors>>

\* The result has arrived and was given to "response"; the loop polls.
PollsVerify ==
    /\ monitor.at = "Verify"
    /\ fetch # Pending
    /\ UNCHANGED <<setupVars, elapsed, monitors>>

Clamp(interval) ==
    CASE interval < MinInterval -> MinInterval
      [] interval > MaxInterval -> MaxInterval
      [] OTHER -> interval

Unlocked(body) == [unlocked |-> TRUE, interval |-> Clamp(body.interval), limit |-> body.limit]

\* Instruction Schedule: the caller sets its timer.
Schedule(state, interval) ==
    /\ monitor' = [state EXCEPT !.at = "Fetch"]
    /\ fetch' = Pending
    /\ timer' = interval

\* RemoteSecretVerifier
Matches == fetch.body.secret = monitor.expected

\* (Mutant: the failed attempts keep counting.)
PollVerifySucceedsCounting ==
    /\ PollsVerify
    /\ RemoteSecretError(fetch) = Ok
    /\ Matches
    /\ LET settings == Unlocked(fetch.body) IN
       Schedule([monitor EXCEPT !.storage = settings], settings.interval)
    /\ unconfirmed' = 0
    /\ storage' = "unlocked"
    /\ handedOut' = IF monitor.storage.unlocked THEN handedOut ELSE handedOut + 1

PollVerifySucceeds ==
    /\ PollsVerify
    /\ RemoteSecretError(fetch) = Ok
    /\ Matches
    /\ LET settings == Unlocked(fetch.body) IN
       Schedule([monitor EXCEPT !.storage = settings, !.failed = 0], settings.interval)
    /\ unconfirmed' = 0
    /\ storage' = "unlocked"
    /\ handedOut' = IF monitor.storage.unlocked THEN handedOut ELSE handedOut + 1

\* RemoteSecretMonitorError: the caller locks the storage and purges the keys.
FailMonitor(error) ==
    /\ monitor' = [monitor EXCEPT !.at = "Error", !.error = error]
    /\ fetch' = Pending
    /\ timer' = 0
    /\ storage' = "locked"
    /\ UNCHANGED <<handedOut, unconfirmed>>

PollVerifyMismatch ==
    /\ PollsVerify
    /\ RemoteSecretError(fetch) = Ok
    /\ ~Matches
    /\ FailMonitor("Mismatch")

\* (Mutant: a secret that is blocked may be unblocked: it is checked again.)
PollVerifyRefusedRetries ==
    /\ PollsVerify
    /\ \/ /\ RemoteSecretError(fetch) = "Forbidden"
          /\ Schedule(monitor, monitor.storage.interval)
          /\ UNCHANGED <<storage, handedOut, unconfirmed>>
       \/ RemoteSecretError(fetch) = "NotFound" /\ FailMonitor("NotFound")

PollVerifyRefused ==
    /\ PollsVerify
    /\ \/ RemoteSecretError(fetch) = "Forbidden" /\ FailMonitor("Blocked")
       \/ RemoteSecretError(fetch) = "NotFound" /\ FailMonitor("NotFound")

Failed == PollsVerify /\ RemoteSecretError(fetch) \notin {Ok, "Forbidden", "NotFound"}

PollVerifyTimesOut ==
    /\ Failed
    /\ monitor.failed >= monitor.storage.limit
    /\ FailMonitor("Timeout")

\* (Mutant: failed attempts are not counted.)
PollVerifyRetriesUncounted ==
    /\ Failed
    /\ monitor.failed < monitor.storage.limit
    /\ Schedule(monitor, monitor.storage.interval)
    /\ UNCHANGED <<storage, handedOut, unconfirmed>>

\* While locked with constant settings, else with those of the last check.
PollVerifyRetries ==
    /\ Failed
    /\ monitor.failed < monitor.storage.limit
    /\ Schedule([monitor EXCEPT !.failed = @ + 1], monitor.storage.interval)
    /\ UNCHANGED <<storage, handedOut, unconfirmed>>

-----------------------------------------------------------------------------
\* The work server (external), its administrator, the network and time.

FetchEnds(result) ==
    /\ monitor.at = "Verify"
    /\ fetch = Pending
    /\ fetch' = result
    /\ UNCHANGED <<setupVars, monitor, clockVars, storage, handedOut, monitors>>

\* An active secret is returned, with the settings of the moment; the secret
\* may be another one than the client expects (0).
AnswerFetch ==
    /\ monitor.at = "Verify"
    /\ LET status == secrets[monitor.token].status IN
       \/ /\ status = "active"
          /\ \E secret \in {0, secrets[monitor.token].secret},
                interval \in Intervals, limit \in Limits :
                FetchEnds(Response(200, SecretBody(secret, interval, limit)))
       \/ status = "blocked" /\ FetchEnds(Response(403, Garbage))
       \/ status = "removed" /\ FetchEnds(Response(404, Garbage))

\* Errors that say nothing of the secret, network errors among them.
FetchFails ==
    \E result \in {Network, Response(429, Garbage), Response(200, Garbage)} : FetchEnds(result)

SetStatus(from, to) ==
    \E token \in DOMAIN secrets :
        /\ secrets[token].status \in from
        /\ secrets' = [secrets EXCEPT ![token].status = to]
        /\ UNCHANGED <<flavor, task, exchange, started, account, directory, monitorVars>>

Block == SetStatus({"active"}, "blocked")
Unblock == SetStatus({"blocked"}, "active")
Remove == SetStatus({"active", "blocked"}, "removed")

\* Time does not pass while a poll is due, nor beyond a request's timeout.
Tick ==
    /\ \/ /\ monitor.at = "Fetch"
          /\ timer > 0
          /\ timer' = timer - 1
          /\ UNCHANGED elapsed
       \/ /\ monitor.at = "Verify"
          /\ fetch = Pending
          /\ elapsed < RequestTimeout
          /\ elapsed' = elapsed + 1
          /\ UNCHANGED timer
    /\ unconfirmed' = IF unconfirmed < MaxUnconfirmed THEN unconfirmed + 1 ELSE unconfirmed
    /\ UNCHANGED <<setupVars, monitor, fetch, storage, handedOut, monitors>>

-----------------------------------------------------------------------------
Init == SetupInit /\ MonitorInit

Check ==
    \/ PollFetch
    \/ PollVerifySucceeds \/ PollVerifyMismatch \/ PollVerifyRefused
    \/ PollVerifyTimesOut \/ PollVerifyRetries
    \/ AnswerFetch \/ FetchFails \/ Tick

Next ==
    \/ SetupNext /\ UNCHANGED monitorVars
    \/ NewMonitor
    \/ Check
    \/ Block \/ Unblock \/ Remove

\* The caller loops, its requests end, and time passes.
Spec == Init /\ [][Next]_vars /\ WF_vars(Check)

-----------------------------------------------------------------------------
TypeOK ==
    /\ SetupTypeOK
    /\ monitor.at \in {"Off", "Fetch", "Verify", "Error"}
    /\ monitor.failed \in 0 .. monitor.storage.limit
    /\ monitor.error \in {Ok, "Mismatch", "Blocked", "NotFound", "Timeout"}
    /\ timer \in 0 .. monitor.storage.interval
    /\ elapsed \in 0 .. RequestTimeout
    /\ unconfirmed \in 0 .. MaxUnconfirmed
    /\ (storage = "unlocked") <=> (monitor.storage.unlocked /\ monitor.at # "Error")

\* "The RemoteSecret will be provided exactly once for the lifetime of the
\* protocol instance" (monitor.rs:456): never again by a later check, and not
\* missing when the storage is unlocked.
HandedOutOnce == handedOut <= 1 /\ (storage = "unlocked" => handedOut = 1)

\* Whatever the servers and the administrator do, the storage is not left
\* unlocked for longer after the last check that succeeded than the settings
\* of that check allow: one interval and one request for each of the limit + 1
\* checks that may fail (monitor.rs, poll_verify).
LockedInTime ==
    storage = "unlocked" =>
        unconfirmed <= (monitor.storage.limit + 1) * (monitor.storage.interval + RequestTimeout)

\* The secret is handed out once and does not outlive the checks that allow it
\* (monitor.rs, poll_verify).
SecretGuarded == HandedOutOnce /\ LockedInTime

\* A monitor gives up on servers it cannot reach no sooner than the settings
\* say, counted from the last check that succeeded and not from earlier
\* failures; before the first, from the start (monitor.rs, poll_verify).
OutageTolerated ==
    monitor.at = "Error" /\ monitor.error = "Timeout" =>
        LET checks == IF monitor.storage.unlocked
                      THEN monitor.storage.limit + 1 ELSE monitor.storage.limit
        IN unconfirmed >= checks * monitor.storage.interval

\* A secret that is blocked or removed for good leaves the storage locked for
\* good, whatever else fails (the purpose stated at monitor.rs:459-463).
BlockedStaysLocked ==
    <>[](\A token \in DOMAIN secrets : secrets[token].status # "active")
        => <>[](storage = "locked")

\* "The maximum timeout after an initial fetch can be calculated as follows:
\* check_interval_s * n_missed_checks_max + endpoint::TIMEOUT" (monitor.rs:464).
DocumentedTimeout ==
    storage = "unlocked" =>
        unconfirmed <= monitor.storage.interval * monitor.storage.limit + RequestTimeout
=============================================================================

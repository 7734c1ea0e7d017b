---------------------------- MODULE LoginHandoff ----------------------------
(***************************************************************************)
(* POST /login-limesurvey (routers/auth.py).  Opening a LimeSurvey session *)
(* blocks, so a coroutine (the handler) hands it to a thread of asyncio's  *)
(* default executor (the worker) and waits with a deadline.  The handler   *)
(* may give up at any await while the worker runs on; between them the two *)
(* must close a remote session nobody will use, once, and must never close *)
(* one whose key was returned.  They synchronise through two events,       *)
(* "finished" and "abandoned", and a flag guarded by cleanup_lock.         *)
(*                                                                         *)
(* Every await and every access to an event by a thread is a step.  Each   *)
(* login has its own events; logins share only the executor's threads.     *)
(***************************************************************************)
EXTENDS Naturals, FiniteSets

CONSTANTS
    Login,      \* the requests to log in
    PoolSize    \* threads of the default executor

ASSUME PoolAssumption == PoolSize \in Nat \ {0}

VARIABLES
    handler,    \* where each request's coroutine stands
    worker,     \* the thread that runs open_session
    closer,     \* the thread the handler starts to run close_abandoned_session
    finished,   \* threading.Event: open_session is over
    abandoned,  \* threading.Event: the request will not return a key
    started,    \* cleanup_started
    keyed,      \* session_key is not None
    remote,     \* the session in LimeSurvey
    closes,     \* how many times this login called api.close
    record,     \* the session record is in Redis
    index       \* the record's id is in the expiration index

vars == <<handler, worker, closer, finished, abandoned, started, keyed,
          remote, closes, record, index>>

----------------------------------------------------------------------------
\* Where each party can stand.

HandlerPhase == {"idle", "opening", "saveRecord", "saveIndex", "optimizer",
                 "abandon", "check", "awaitClose", "dropRecord", "dropIndex",
                 "returned", "rejected", "dirty", "killed"}

\* "rejected": the error was re-raised after a complete cleanup; "dirty": the
\* local delete failed and was logged; "killed": a cancellation arrived while
\* the except block itself was waiting.
Rejected == {"rejected", "dirty", "killed"}
Ended == Rejected \cup {"returned"}

WorkerPhase == {"none", "queued", "opening", "finishing", "checking",
                "cleanup", "closing", "done", "cancelled"}
CloserPhase == {"none", "queued", "cleanup", "closing", "done", "cancelled"}
Quiet == {"none", "done", "cancelled"}

TypeOK ==
    /\ handler \in [Login -> HandlerPhase]
    /\ worker \in [Login -> WorkerPhase]
    /\ closer \in [Login -> CloserPhase]
    /\ finished \in [Login -> BOOLEAN]
    /\ abandoned \in [Login -> BOOLEAN]
    /\ started \in [Login -> BOOLEAN]
    /\ keyed \in [Login -> BOOLEAN]
    /\ remote \in [Login -> {"none", "open", "closed"}]
    /\ closes \in [Login -> Nat]
    /\ record \in [Login -> BOOLEAN]
    /\ index \in [Login -> BOOLEAN]

Init ==
    /\ handler = [l \in Login |-> "idle"]
    /\ worker = [l \in Login |-> "none"]
    /\ closer = [l \in Login |-> "none"]
    /\ finished = [l \in Login |-> FALSE]
    /\ abandoned = [l \in Login |-> FALSE]
    /\ started = [l \in Login |-> FALSE]
    /\ keyed = [l \in Login |-> FALSE]
    /\ remote = [l \in Login |-> "none"]
    /\ closes = [l \in Login |-> 0]
    /\ record = [l \in Login |-> FALSE]
    /\ index = [l \in Login |-> FALSE]

----------------------------------------------------------------------------
\* The executor.

\* Cancelling the future of a task the executor has not started removes the
\* task from its queue; a thread that runs cannot be stopped.
Cancelled(phase) == IF phase = "queued" THEN "cancelled" ELSE phase

ThreadFree ==
    LET Busy(phase) == phase \notin Quiet \cup {"queued"}
    IN  Cardinality({l \in Login : Busy(worker[l])})
          + Cardinality({l \in Login : Busy(closer[l])}) < PoolSize

----------------------------------------------------------------------------
\* The worker thread: open_session.

StartWorker(l) ==
    /\ worker[l] = "queued"
    /\ ThreadFree
    /\ worker' = [worker EXCEPT ![l] = "opening"]
    /\ UNCHANGED <<handler, closer, finished, abandoned, started, keyed,
                   remote, closes, record, index>>

\* api.open returns with a session, or raises and leaves api without one.  A
\* session that LimeSurvey opened although its reply was lost or came too late
\* is "none" here: api never had its key and nothing in this code can close it.
OpenRemote(l) ==
    /\ worker[l] = "opening"
    /\ worker' = [worker EXCEPT ![l] = "finishing"]
    /\ \E outcome \in {"open", "none"} :
          remote' = [remote EXCEPT ![l] = outcome]
    /\ UNCHANGED <<handler, closer, finished, abandoned, started, keyed,
                   closes, record, index>>

SetFinished(l) ==
    /\ worker[l] = "finishing"
    /\ worker' = [worker EXCEPT ![l] = "checking"]
    /\ finished' = [finished EXCEPT ![l] = TRUE]
    /\ UNCHANGED <<handler, closer, abandoned, started, keyed, remote, closes,
                   record, index>>

\* MUTANT: the worker trusts the handler to have seen "finished".
IgnoreAbandoned(l) ==
    /\ worker[l] = "checking"
    /\ worker' = [worker EXCEPT ![l] = "done"]
    /\ UNCHANGED <<handler, closer, finished, abandoned, started, keyed,
                   remote, closes, record, index>>

CheckAbandoned(l) ==
    /\ worker[l] = "checking"
    /\ worker' = [worker EXCEPT ![l] = IF abandoned[l] THEN "cleanup" ELSE "done"]
    /\ UNCHANGED <<handler, closer, finished, abandoned, started, keyed,
                   remote, closes, record, index>>

----------------------------------------------------------------------------
\* close_abandoned_session, run by either thread.

\* MUTANT: cleanup_started is set but not tested.
ClaimUnchecked(l) == "closing"

\* MUTANT: whoever finds the cleanup started waits for a lock nobody releases.
ClaimBlocked(l) == IF started[l] THEN "cleanup" ELSE "closing"

\* Under cleanup_lock: the first thread goes on to close, the other returns.
Claim(l) == IF started[l] THEN "done" ELSE "closing"

WorkerClaims(l) ==
    /\ worker[l] = "cleanup"
    /\ worker' = [worker EXCEPT ![l] = Claim(l)]
    /\ started' = [started EXCEPT ![l] = TRUE]
    /\ UNCHANGED <<handler, closer, finished, abandoned, keyed, remote,
                   closes, record, index>>

CloserClaims(l) ==
    /\ closer[l] = "cleanup"
    /\ closer' = [closer EXCEPT ![l] = Claim(l)]
    /\ started' = [started EXCEPT ![l] = TRUE]
    /\ UNCHANGED <<handler, worker, finished, abandoned, keyed, remote,
                   closes, record, index>>

\* api.close is attempted.  It may fail, which is logged and forgotten; without
\* an open client it raises before it calls LimeSurvey.
CallClose(l) ==
    /\ closes' = [closes EXCEPT ![l] = @ + 1]
    /\ \E outcome \in IF remote[l] = "open" THEN {"closed", "open"} ELSE {remote[l]} :
          remote' = [remote EXCEPT ![l] = outcome]

WorkerCloses(l) ==
    /\ worker[l] = "closing"
    /\ worker' = [worker EXCEPT ![l] = "done"]
    /\ CallClose(l)
    /\ UNCHANGED <<handler, closer, finished, abandoned, started, keyed,
                   record, index>>

StartCloser(l) ==
    /\ closer[l] = "queued"
    /\ ThreadFree
    /\ closer' = [closer EXCEPT ![l] = "cleanup"]
    /\ UNCHANGED <<handler, worker, finished, abandoned, started, keyed,
                   remote, closes, record, index>>

CloserCloses(l) ==
    /\ closer[l] = "closing"
    /\ closer' = [closer EXCEPT ![l] = "done"]
    /\ CallClose(l)
    /\ UNCHANGED <<handler, worker, finished, abandoned, started, keyed,
                   record, index>>

----------------------------------------------------------------------------
\* The handler: login_limesurvey.

\* The rate limiter or the URL policy refuses before any session exists.
Refuse(l) ==
    /\ handler[l] = "idle"
    /\ handler' = [handler EXCEPT ![l] = "rejected"]
    /\ UNCHANGED <<worker, closer, finished, abandoned, started, keyed, remote,
                   closes, record, index>>

Begin(l) ==
    /\ handler[l] = "idle"
    /\ handler' = [handler EXCEPT ![l] = "opening"]
    /\ worker' = [worker EXCEPT ![l] = "queued"]
    /\ UNCHANGED <<closer, finished, abandoned, started, keyed, remote, closes,
                   record, index>>

\* MUTANT: session_key is assigned only once the record has been stored.
OpenedKeyLater(l) ==
    /\ handler[l] = "opening"
    /\ worker[l] = "done"
    /\ remote[l] # "none"
    /\ handler' = [handler EXCEPT ![l] = "saveRecord"]
    /\ UNCHANGED <<worker, closer, finished, abandoned, started, keyed, remote,
                   closes, record, index>>

\* open_session returned and wait_for hands its result over.
Opened(l) ==
    /\ handler[l] = "opening"
    /\ worker[l] = "done"
    /\ remote[l] # "none"
    /\ handler' = [handler EXCEPT ![l] = "saveRecord"]
    /\ keyed' = [keyed EXCEPT ![l] = TRUE]
    /\ UNCHANGED <<worker, closer, finished, abandoned, started, remote,
                   closes, record, index>>

\* open_session raised: 401.
OpenFailed(l) ==
    /\ handler[l] = "opening"
    /\ worker[l] = "done"
    /\ remote[l] = "none"
    /\ handler' = [handler EXCEPT ![l] = "abandon"]
    /\ UNCHANGED <<worker, closer, finished, abandoned, started, keyed, remote,
                   closes, record, index>>

\* The deadline passes (504) or the request is cancelled; even a result that
\* is ready but not yet delivered is lost then.
GiveUpOpening(l) ==
    /\ handler[l] = "opening"
    /\ handler' = [handler EXCEPT ![l] = "abandon"]
    /\ worker' = [worker EXCEPT ![l] = Cancelled(@)]
    /\ UNCHANGED <<closer, finished, abandoned, started, keyed, remote, closes,
                   record, index>>

SaveRecord(l) ==
    /\ handler[l] = "saveRecord"
    /\ handler' = [handler EXCEPT ![l] = "saveIndex"]
    /\ record' = [record EXCEPT ![l] = TRUE]
    /\ UNCHANGED <<worker, closer, finished, abandoned, started, keyed, remote,
                   closes, index>>

\* MUTANT: storing the session is best effort, like the rest of the cache.
SaveRecordSwallowed(l) ==
    /\ handler[l] = "saveRecord"
    /\ handler' = [handler EXCEPT ![l] = "saveIndex"]
    /\ \E applied \in BOOLEAN : record' = [record EXCEPT ![l] = applied]
    /\ UNCHANGED <<worker, closer, finished, abandoned, started, keyed, remote,
                   closes, index>>

\* The write raises or is cancelled, before or after Redis applied it.  An
\* api without a session key raises here too, with nothing written.
SaveRecordFails(l) ==
    /\ handler[l] = "saveRecord"
    /\ handler' = [handler EXCEPT ![l] = "abandon"]
    /\ \E applied \in BOOLEAN : record' = [record EXCEPT ![l] = applied]
    /\ UNCHANGED <<worker, closer, finished, abandoned, started, keyed, remote,
                   closes, index>>

SaveIndex(l) ==
    /\ handler[l] = "saveIndex"
    /\ handler' = [handler EXCEPT ![l] = "optimizer"]
    /\ index' = [index EXCEPT ![l] = TRUE]
    /\ UNCHANGED <<worker, closer, finished, abandoned, started, keyed, remote,
                   closes, record>>

SaveIndexFails(l) ==
    /\ handler[l] = "saveIndex"
    /\ handler' = [handler EXCEPT ![l] = "abandon"]
    /\ \E applied \in BOOLEAN : index' = [index EXCEPT ![l] = applied]
    /\ UNCHANGED <<worker, closer, finished, abandoned, started, keyed, remote,
                   closes, record>>

\* The optimizer is looked up or not enabled; its errors are swallowed.
Return(l) ==
    /\ handler[l] = "optimizer"
    /\ handler' = [handler EXCEPT ![l] = "returned"]
    /\ UNCHANGED <<worker, closer, finished, abandoned, started, keyed, remote,
                   closes, record, index>>

\* Only a cancellation leaves the optimizer lookup by the except block.
CancelOptimizer(l) ==
    /\ handler[l] = "optimizer"
    /\ handler' = [handler EXCEPT ![l] = "abandon"]
    /\ UNCHANGED <<worker, closer, finished, abandoned, started, keyed, remote,
                   closes, record, index>>

\* except BaseException: abandoned.set()
SetAbandoned(l) ==
    /\ handler[l] = "abandon"
    /\ handler' = [handler EXCEPT ![l] = "check"]
    /\ abandoned' = [abandoned EXCEPT ![l] = TRUE]
    /\ UNCHANGED <<worker, closer, finished, started, keyed, remote, closes,
                   record, index>>

\* MUTANT: the except block forgets to re-raise, and the handler goes on.
AfterCloseSwallowed(l) == IF keyed[l] THEN "dropRecord" ELSE "swallowed"

\* What the except block does once the remote side is dealt with.
AfterClose(l) == IF keyed[l] THEN "dropRecord" ELSE "rejected"

\* MUTANT: the handler always leaves the remote session to the worker.
NeverClose(l) ==
    /\ handler[l] = "check"
    /\ handler' = [handler EXCEPT ![l] = AfterClose(l)]
    /\ UNCHANGED <<worker, closer, finished, abandoned, started, keyed, remote,
                   closes, record, index>>

CheckFinished(l) ==
    /\ handler[l] = "check"
    /\ IF finished[l]
         THEN /\ handler' = [handler EXCEPT ![l] = "awaitClose"]
              /\ closer' = [closer EXCEPT ![l] = "queued"]
         ELSE /\ handler' = [handler EXCEPT ![l] = AfterClose(l)]
              /\ closer' = closer
    /\ UNCHANGED <<worker, finished, abandoned, started, keyed, remote, closes,
                   record, index>>

CloseAwaited(l) ==
    /\ handler[l] = "awaitClose"
    /\ closer[l] = "done"
    /\ handler' = [handler EXCEPT ![l] = AfterClose(l)]
    /\ UNCHANGED <<worker, closer, finished, abandoned, started, keyed, remote,
                   closes, record, index>>

\* A cancellation during the await of the close: the local record stays too.
CancelAwaitClose(l) ==
    /\ handler[l] = "awaitClose"
    /\ handler' = [handler EXCEPT ![l] = "killed"]
    /\ closer' = [closer EXCEPT ![l] = Cancelled(@)]
    /\ UNCHANGED <<worker, finished, abandoned, started, keyed, remote, closes,
                   record, index>>

DropRecord(l) ==
    /\ handler[l] = "dropRecord"
    /\ handler' = [handler EXCEPT ![l] = "dropIndex"]
    /\ record' = [record EXCEPT ![l] = FALSE]
    /\ UNCHANGED <<worker, closer, finished, abandoned, started, keyed, remote,
                   closes, index>>

\* An exception is logged ("dirty"), a cancellation propagates ("killed").
DropRecordFails(l) ==
    /\ handler[l] = "dropRecord"
    /\ \E end \in {"dirty", "killed"} : handler' = [handler EXCEPT ![l] = end]
    /\ \E left \in BOOLEAN : /\ left => record[l]
                            /\ record' = [record EXCEPT ![l] = left]
    /\ UNCHANGED <<worker, closer, finished, abandoned, started, keyed, remote,
                   closes, index>>

DropIndex(l) ==
    /\ handler[l] = "dropIndex"
    /\ handler' = [handler EXCEPT ![l] = "rejected"]
    /\ index' = [index EXCEPT ![l] = FALSE]
    /\ UNCHANGED <<worker, closer, finished, abandoned, started, keyed, remote,
                   closes, record>>

DropIndexFails(l) ==
    /\ handler[l] = "dropIndex"
    /\ \E end \in {"dirty", "killed"} : handler' = [handler EXCEPT ![l] = end]
    /\ \E left \in BOOLEAN : /\ left => index[l]
                            /\ index' = [index EXCEPT ![l] = left]
    /\ UNCHANGED <<worker, closer, finished, abandoned, started, keyed, remote,
                   closes, record>>

----------------------------------------------------------------------------
ThreadStep(l) ==
    \/ StartWorker(l) \/ OpenRemote(l) \/ SetFinished(l) \/ CheckAbandoned(l)
    \/ WorkerClaims(l) \/ WorkerCloses(l)
    \/ StartCloser(l) \/ CloserClaims(l) \/ CloserCloses(l)

\* What the event loop does for a request without any new misfortune.
HandlerProgress(l) ==
    \/ Opened(l) \/ OpenFailed(l)
    \/ SaveRecord(l) \/ SaveIndex(l) \/ Return(l)
    \/ SetAbandoned(l) \/ CheckFinished(l) \/ CloseAwaited(l)
    \/ DropRecord(l) \/ DropIndex(l)

Misfortune(l) ==
    \/ GiveUpOpening(l) \/ SaveRecordFails(l) \/ SaveIndexFails(l)
    \/ CancelOptimizer(l) \/ CancelAwaitClose(l)
    \/ DropRecordFails(l) \/ DropIndexFails(l)

Step(l) == Refuse(l) \/ Begin(l) \/ ThreadStep(l) \/ HandlerProgress(l) \/ Misfortune(l)

Next == \E l \in Login : Step(l)

\* The event loop runs every ready coroutine and wait_for's timer fires; a
\* running thread proceeds (requests bounds every HTTP call); the executor's
\* queue is first in first out, so a queued task is not overtaken for ever.
\* Nothing obliges a client to log in or a failure to happen.
Fairness ==
    \A l \in Login :
        /\ WF_vars(HandlerProgress(l))
        /\ WF_vars(GiveUpOpening(l))
        /\ WF_vars(OpenRemote(l) \/ SetFinished(l) \/ CheckAbandoned(l)
                   \/ WorkerClaims(l) \/ WorkerCloses(l))
        /\ WF_vars(CloserClaims(l) \/ CloserCloses(l))
        /\ SF_vars(StartWorker(l))
        /\ SF_vars(StartCloser(l))

Spec == Init /\ [][Next]_vars /\ Fairness

----------------------------------------------------------------------------
\* Properties.

\* Whichever way the worker and the handler interleave, api.close is called at
\* most once for a login (cleanup_started under cleanup_lock).
ClosedAtMostOnce == \A l \in Login : closes[l] <= 1

\* A key that was returned names a session both stores know, that no cleanup
\* of this login has closed or will close.
ReturnedKeyIsUsable ==
    \A l \in Login : handler[l] = "returned" =>
        /\ record[l] /\ index[l]
        /\ remote[l] = "open" /\ closes[l] = 0
        /\ worker[l] = "done" /\ closer[l] = "none"

\* A login that ended without returning a key leaves no remote session that
\* nobody tried to close, once its threads are quiet.  The one exception: the
\* await of the close was cancelled while the close was still queued.
NoOrphan ==
    \A l \in Login :
        /\ handler[l] \in Rejected
        /\ worker[l] \in Quiet /\ closer[l] \in Quiet
        /\ remote[l] # "none"
        => \/ closes[l] = 1
           \/ handler[l] = "killed" /\ closer[l] = "cancelled"

\* A login that was rejected after a complete cleanup left nothing in Redis,
\* wherever the save was interrupted.
RejectedLeavesNoRecord ==
    \A l \in Login : handler[l] = "rejected" => ~record[l] /\ ~index[l]

\* Every request is answered: waiting for the close of an abandoned session
\* cannot block for ever, whatever the threads of other logins do.
EveryLoginEnds == \A l \in Login : handler[l] = "opening" ~> handler[l] \in Ended

\* An abandoned session is eventually closed, also when the worker obtains it
\* after the request has gone.
AbandonedIsClosed ==
    \A l \in Login :
        abandoned[l] /\ remote[l] = "open" ~>
            closes[l] = 1 \/ closer[l] = "cancelled"
=============================================================================

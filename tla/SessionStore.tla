---------------------------- MODULE SessionStore ----------------------------
(***************************************************************************)
(* The local sessions of all worker processes (repositories/               *)
(* session_repository.py), the requests that resume and delete them, and   *)
(* the reapers that close expired ones in LimeSurvey (services/            *)
(* session_reaper.py).  A session is a JSON record in Redis whose key has  *)
(* a time to live, an entry of a sorted set that orders the sessions by    *)
(* expiry and, when ALLOW_IN_MEMORY_STATE is set, a copy in the memory of  *)
(* the worker that saved it.                                               *)
(*                                                                         *)
(* Every await is a boundary between steps: a Redis command is one atomic  *)
(* step.  The record's owner is not modelled: a caller who is not the      *)
(* owner is answered 403 and changes nothing, so requests are the owner's. *)
(***************************************************************************)
EXTENDS Naturals, FiniteSets

CONSTANTS
    Session,        \* local session keys
    Worker,         \* worker processes, each with one reaper
    Request,        \* requests made with a session key
    InMemory,       \* ALLOW_IN_MEMORY_STATE
    TTL,            \* LS_SESSION_TTL_SECONDS
    Grace,          \* SESSION_CLEANUP_GRACE_SECONDS
    MaxTime,        \* bound on the clock
    MaxFaults,      \* bound on Redis commands that raise
    MaxCrashes      \* bound on processes that stop without notice

ASSUME StoreAssumption ==
    /\ InMemory \in BOOLEAN
    /\ TTL \in Nat \ {0}
    /\ Grace \in Nat \ {0}
    /\ MaxTime \in Nat \ {0}
    /\ MaxFaults \in Nat
    /\ MaxCrashes \in Nat

VARIABLES
    now,            \* the clock
    faults,         \* Redis commands that have raised
    crashes,        \* processes that have stopped
    save,           \* per session: how far SessionRepository.save got
    home,           \* per session: the worker that serves its login
    expires,        \* per session: expires_at of its record
    until,          \* per session: when Redis drops the record (0: no record)
    index,          \* the members of the expiration index
    memory,         \* per worker: the keys of _memory_sessions
    remote,         \* per session: the session in LimeSurvey
    closes,         \* per session: calls of api.close
    reaps,          \* per session: those of them made by a reaper
    phase,          \* per worker: where its reaper stands
    asOf,           \* per worker: "current" of take_expired
    candidates,     \* per worker: due members it has not tried to claim yet
    claimed,        \* per worker: identifiers it has not read yet
    deleting,       \* per worker: the identifier whose record it deletes
    expired,        \* per worker: records it took and has not closed yet
    target,         \* per request: the session it names
    via,            \* per request: the worker that serves it
    stage,          \* per request: where its handler stands
    logout,         \* per request: it is GET /logout-limesurvey
    loggedOut,      \* sessions whose logout was answered
    dropped         \* history: sessions a reaper held when its cycle broke off

clockVars == <<now, faults, crashes>>
loginVars == <<save, home, expires>>
storeVars == <<until, index, memory>>
remoteVars == <<remote, closes, reaps>>
reaperVars == <<phase, asOf, candidates, claimed, deleting, expired, dropped>>
requestVars == <<target, via, stage, logout, loggedOut>>
vars == <<clockVars, loginVars, storeVars, remoteVars, reaperVars, requestVars>>

----------------------------------------------------------------------------
SavePhase == {"new", "record", "index", "saved", "failed"}
ReaperPhase == {"idle", "claiming", "taking", "closing"}
RequestStage == {"idle", "resumed", "dropRecord", "dropIndex", "done"}

TypeOK ==
    /\ now \in 0..MaxTime
    /\ faults \in 0..MaxFaults
    /\ crashes \in 0..MaxCrashes
    /\ save \in [Session -> SavePhase]
    /\ home \in [Session -> Worker]
    /\ expires \in [Session -> Nat]
    /\ until \in [Session -> Nat]
    /\ index \in SUBSET Session
    /\ memory \in [Worker -> SUBSET Session]
    /\ remote \in [Session -> {"none", "open", "closed"}]
    /\ closes \in [Session -> Nat]
    /\ reaps \in [Session -> Nat]
    /\ phase \in [Worker -> ReaperPhase]
    /\ asOf \in [Worker -> 0..MaxTime]
    /\ candidates \in [Worker -> SUBSET Session]
    /\ claimed \in [Worker -> SUBSET Session]
    /\ deleting \in [Worker -> SUBSET Session]
    /\ expired \in [Worker -> SUBSET Session]
    /\ target \in [Request -> Session]
    /\ via \in [Request -> Worker]
    /\ stage \in [Request -> RequestStage]
    /\ logout \in [Request -> BOOLEAN]
    /\ loggedOut \in SUBSET Session
    /\ dropped \in SUBSET Session

\* Which worker serves a login or a request, and which session a request
\* names, is settled from the start; none of it is known to the others.
Init ==
    /\ now = 1 /\ faults = 0 /\ crashes = 0
    /\ save = [s \in Session |-> "new"]
    /\ home \in [Session -> Worker]
    /\ expires = [s \in Session |-> 0]
    /\ until = [s \in Session |-> 0]
    /\ index = {}
    /\ memory = [w \in Worker |-> {}]
    /\ remote = [s \in Session |-> "none"]
    /\ closes = [s \in Session |-> 0]
    /\ reaps = [s \in Session |-> 0]
    /\ phase = [w \in Worker |-> "idle"]
    /\ asOf = [w \in Worker |-> 0]
    /\ candidates = [w \in Worker |-> {}]
    /\ claimed = [w \in Worker |-> {}]
    /\ deleting = [w \in Worker |-> {}]
    /\ expired = [w \in Worker |-> {}]
    /\ dropped = {}
    /\ target \in [Request -> Session]
    /\ via \in [Request -> Worker]
    /\ stage = [r \in Request |-> "idle"]
    /\ logout \in [Request -> BOOLEAN]
    /\ loggedOut = {}

----------------------------------------------------------------------------
\* The stores, as one worker sees them.

InRedis(s) == until[s] > now

\* MUTANT: the copy in memory is believed whatever its age.
FoundStaleCopy(s, w) ==
    IF InRedis(s) THEN expires[s] > now ELSE InMemory /\ s \in memory[w]

\* SessionRepository.find: the record in Redis, or else this worker's copy,
\* and only while it has not expired.
Found(s, w) ==
    /\ expires[s] > now
    /\ InRedis(s) \/ (InMemory /\ s \in memory[w])

Held(w) == claimed[w] \cup deleting[w] \cup expired[w]

\* api.close is called; whether LimeSurvey closes the session or not, the
\* caller goes on.
CallClose(s) ==
    /\ closes' = [closes EXCEPT ![s] = @ + 1]
    /\ \E outcome \in {remote[s], "closed"} : remote' = [remote EXCEPT ![s] = outcome]

----------------------------------------------------------------------------
\* Time, and LimeSurvey ending a session by itself.

Tick ==
    /\ now < MaxTime
    /\ now' = now + 1
    /\ UNCHANGED <<faults, crashes, loginVars, storeVars, remoteVars, reaperVars,
                   requestVars>>

RemoteExpires(s) ==
    /\ remote[s] = "open"
    /\ remote' = [remote EXCEPT ![s] = "closed"]
    /\ UNCHANGED <<clockVars, loginVars, storeVars, closes, reaps, reaperVars,
                   requestVars>>

----------------------------------------------------------------------------
\* The login: store_limesurvey_session and SessionRepository.save.

StartSave(s) ==
    /\ save[s] = "new"
    /\ save' = [save EXCEPT ![s] = "record"]
    /\ expires' = [expires EXCEPT ![s] = now + TTL]
    /\ remote' = [remote EXCEPT ![s] = "open"]
    /\ UNCHANGED <<clockVars, home, storeVars, closes, reaps, reaperVars,
                   requestVars>>

SaveRecord(s) ==
    /\ save[s] = "record"
    /\ save' = [save EXCEPT ![s] = "index"]
    /\ until' = [until EXCEPT ![s] = now + TTL + Grace]
    /\ UNCHANGED <<clockVars, home, expires, index, memory, remoteVars,
                   reaperVars, requestVars>>

\* MUTANT: the record is stored but its expiry is not registered.
SaveUnindexed(s) ==
    /\ save[s] = "index"
    /\ save' = [save EXCEPT ![s] = "saved"]
    /\ UNCHANGED <<clockVars, home, expires, storeVars, remoteVars, reaperVars,
                   requestVars>>

SaveIndex(s) ==
    /\ save[s] = "index"
    /\ save' = [save EXCEPT ![s] = "saved"]
    /\ index' = index \cup {s}
    /\ memory' = [memory EXCEPT ![home[s]] = IF InMemory THEN @ \cup {s} ELSE @]
    /\ UNCHANGED <<clockVars, home, expires, until, remoteVars, reaperVars,
                   requestVars>>

\* A command of the save raises; it may have been applied.  The login closes
\* the remote session, deletes what it can and returns no key (LoginHandoff).
SaveFails(s) ==
    /\ save[s] \in {"record", "index"}
    /\ faults < MaxFaults
    /\ faults' = faults + 1
    /\ save' = [save EXCEPT ![s] = "failed"]
    /\ \E left \in {0, until[s], now + TTL + Grace} :
          /\ save[s] = "index" => left \in {0, until[s]}
          /\ until' = [until EXCEPT ![s] = left]
    /\ \E left \in SUBSET {s} :
          /\ save[s] = "record" => left = {}
          /\ index' = index \cup left
    /\ CallClose(s)
    /\ UNCHANGED <<now, crashes, home, expires, memory, reaps, reaperVars,
                   requestVars>>

----------------------------------------------------------------------------
\* Requests that carry a key: resume_limesurvey_client, then what they do.

Resume(r) ==
    /\ stage[r] = "idle"
    /\ save[target[r]] = "saved"
    /\ Found(target[r], via[r])
    /\ stage' = [stage EXCEPT ![r] = "resumed"]
    /\ UNCHANGED <<clockVars, loginVars, storeVars, remoteVars, reaperVars,
                   target, via, logout, loggedOut>>

\* logout_limesurvey: close the remote session, then delete the record.
LogoutRemote(r) ==
    /\ stage[r] = "resumed" /\ logout[r]
    /\ stage' = [stage EXCEPT ![r] = "dropRecord"]
    /\ CallClose(target[r])
    /\ UNCHANGED <<clockVars, loginVars, storeVars, reaps, reaperVars, target,
                   via, logout, loggedOut>>

\* raise_limesurvey_error: LimeSurvey no longer knows the session.
RemoteUnknown(r) ==
    /\ stage[r] = "resumed" /\ ~logout[r]
    /\ remote[target[r]] = "closed"
    /\ stage' = [stage EXCEPT ![r] = "dropRecord"]
    /\ UNCHANGED <<clockVars, loginVars, storeVars, remoteVars, reaperVars,
                   target, via, logout, loggedOut>>

\* The request is answered without touching the session.
Answer(r) ==
    /\ stage[r] = "resumed" /\ ~logout[r]
    /\ stage' = [stage EXCEPT ![r] = "done"]
    /\ UNCHANGED <<clockVars, loginVars, storeVars, remoteVars, reaperVars,
                   target, via, logout, loggedOut>>

\* MUTANT: delete only unregisters the session.
KeepRecord(r) ==
    /\ stage[r] = "dropRecord"
    /\ stage' = [stage EXCEPT ![r] = "dropIndex"]
    /\ UNCHANGED <<clockVars, loginVars, storeVars, remoteVars, reaperVars,
                   target, via, logout, loggedOut>>

\* SessionRepository.delete, command by command.
DropRecord(r) ==
    /\ stage[r] = "dropRecord"
    /\ stage' = [stage EXCEPT ![r] = "dropIndex"]
    /\ until' = [until EXCEPT ![target[r]] = 0]
    /\ UNCHANGED <<clockVars, loginVars, index, memory, remoteVars, reaperVars,
                   target, via, logout, loggedOut>>

\* MUTANT: delete leaves this worker's copy in memory.
DropIndexOnly(r) ==
    /\ stage[r] = "dropIndex"
    /\ stage' = [stage EXCEPT ![r] = "done"]
    /\ index' = index \ {target[r]}
    /\ loggedOut' = loggedOut \cup IF logout[r] THEN {target[r]} ELSE {}
    /\ UNCHANGED <<clockVars, loginVars, until, memory, remoteVars, reaperVars,
                   target, via, logout>>

DropIndex(r) ==
    /\ stage[r] = "dropIndex"
    /\ stage' = [stage EXCEPT ![r] = "done"]
    /\ index' = index \ {target[r]}
    /\ memory' = [memory EXCEPT ![via[r]] = @ \ {target[r]}]
    /\ loggedOut' = loggedOut \cup IF logout[r] THEN {target[r]} ELSE {}
    /\ UNCHANGED <<clockVars, loginVars, until, remoteVars, reaperVars, target,
                   via, logout>>

\* A command of the delete raises, applied or not: the request is answered 500.
DropFails(r) ==
    /\ stage[r] \in {"dropRecord", "dropIndex"}
    /\ faults < MaxFaults
    /\ faults' = faults + 1
    /\ stage' = [stage EXCEPT ![r] = "done"]
    /\ \E applied \in BOOLEAN :
          IF stage[r] = "dropRecord"
            THEN /\ until' = [until EXCEPT ![target[r]] = IF applied THEN 0 ELSE @]
                 /\ index' = index
            ELSE /\ until' = until
                 /\ index' = index \ IF applied THEN {target[r]} ELSE {}
    /\ UNCHANGED <<now, crashes, loginVars, memory, remoteVars, reaperVars,
                   target, via, logout, loggedOut>>

----------------------------------------------------------------------------
\* The reaper: run_session_reaper and SessionRepository.take_expired.

\* MUTANT: the score range has no upper end.
BeginCycleUnbounded(w) ==
    /\ phase[w] = "idle"
    /\ index # {}
    /\ phase' = [phase EXCEPT ![w] = "claiming"]
    /\ asOf' = [asOf EXCEPT ![w] = now]
    /\ candidates' = [candidates EXCEPT ![w] = index]
    /\ UNCHANGED <<clockVars, loginVars, storeVars, remoteVars, claimed,
                   deleting, expired, dropped, requestVars>>

\* zrangebyscore.  A cycle that finds nothing due changes nothing and is left
\* out.
BeginCycle(w) ==
    LET due == {s \in index : expires[s] <= now}
        dueHere == {s \in memory[w] : expires[s] <= now}
    IN  /\ phase[w] = "idle"
        /\ due # {} \/ (InMemory /\ dueHere # {})
        /\ phase' = [phase EXCEPT ![w] = "claiming"]
        /\ asOf' = [asOf EXCEPT ![w] = now]
        /\ candidates' = [candidates EXCEPT ![w] = due]
        /\ UNCHANGED <<clockVars, loginVars, storeVars, remoteVars, claimed,
                       deleting, expired, dropped, requestVars>>

\* MUTANT: every due member is taken, whoever removed it from the index.
ClaimAll(w, s) ==
    /\ phase[w] = "claiming"
    /\ s \in candidates[w]
    /\ candidates' = [candidates EXCEPT ![w] = @ \ {s}]
    /\ index' = index \ {s}
    /\ claimed' = [claimed EXCEPT ![w] = @ \cup {s}]
    /\ UNCHANGED <<clockVars, loginVars, until, memory, remoteVars, phase, asOf,
                   deleting, expired, dropped, requestVars>>

\* zrem tells this worker whether it was the one to remove the member.
Claim(w, s) ==
    /\ phase[w] = "claiming"
    /\ s \in candidates[w]
    /\ candidates' = [candidates EXCEPT ![w] = @ \ {s}]
    /\ index' = index \ {s}
    /\ claimed' = [claimed EXCEPT ![w] = @ \cup ({s} \cap index)]
    /\ UNCHANGED <<clockVars, loginVars, until, memory, remoteVars, phase, asOf,
                   deleting, expired, dropped, requestVars>>

\* All candidates tried: this worker's own expired copies are added.
EndClaim(w) ==
    /\ phase[w] = "claiming"
    /\ candidates[w] = {}
    /\ phase' = [phase EXCEPT ![w] = "taking"]
    /\ claimed' = [claimed EXCEPT ![w] =
                     IF InMemory
                       THEN @ \cup {s \in memory[w] : expires[s] <= asOf[w]}
                       ELSE @]
    /\ asOf' = [asOf EXCEPT ![w] = 0]
    /\ UNCHANGED <<clockVars, loginVars, storeVars, remoteVars, candidates,
                   deleting, expired, dropped, requestVars>>

\* MUTANT: the record is deleted before it is read.
DeleteThenRead(w, s) ==
    /\ phase[w] = "taking"
    /\ deleting[w] = {}
    /\ s \in claimed[w]
    /\ claimed' = [claimed EXCEPT ![w] = @ \ {s}]
    /\ deleting' = [deleting EXCEPT ![w] = {s}]
    /\ UNCHANGED <<clockVars, loginVars, storeVars, remoteVars, phase, asOf,
                   candidates, expired, dropped, requestVars>>

\* get_json, or else the copy in memory.  What is appended to the result after
\* the delete is kept from here on: if the delete raises, both are lost.
ReadRecord(w, s) ==
    /\ phase[w] = "taking"
    /\ deleting[w] = {}
    /\ s \in claimed[w]
    /\ claimed' = [claimed EXCEPT ![w] = @ \ {s}]
    /\ deleting' = [deleting EXCEPT ![w] = {s}]
    /\ expired' = [expired EXCEPT ![w] =
                     IF InRedis(s) \/ s \in memory[w] THEN @ \cup {s} ELSE @]
    /\ UNCHANGED <<clockVars, loginVars, storeVars, remoteVars, phase, asOf,
                   candidates, dropped, requestVars>>

\* MUTANT: the copy in memory survives the cleanup.
DeleteRedisOnly(w, s) ==
    /\ deleting[w] = {s}
    /\ deleting' = [deleting EXCEPT ![w] = {}]
    /\ until' = [until EXCEPT ![s] = 0]
    /\ UNCHANGED <<clockVars, loginVars, index, memory, remoteVars, phase, asOf,
                   candidates, claimed, expired, dropped, requestVars>>

DeleteRecord(w, s) ==
    /\ deleting[w] = {s}
    /\ deleting' = [deleting EXCEPT ![w] = {}]
    /\ until' = [until EXCEPT ![s] = 0]
    /\ memory' = [memory EXCEPT ![w] = @ \ {s}]
    /\ UNCHANGED <<clockVars, loginVars, index, remoteVars, phase, asOf,
                   candidates, claimed, expired, dropped, requestVars>>

EndTake(w) ==
    /\ phase[w] = "taking"
    /\ claimed[w] = {} /\ deleting[w] = {}
    /\ phase' = [phase EXCEPT ![w] = "closing"]
    /\ UNCHANGED <<clockVars, loginVars, storeVars, remoteVars, asOf, candidates,
                   claimed, deleting, expired, dropped, requestVars>>

CloseExpired(w, s) ==
    /\ phase[w] = "closing"
    /\ s \in expired[w]
    /\ expired' = [expired EXCEPT ![w] = @ \ {s}]
    /\ CallClose(s)
    /\ reaps' = [reaps EXCEPT ![s] = @ + 1]
    /\ UNCHANGED <<clockVars, loginVars, storeVars, phase, asOf, candidates,
                   claimed, deleting, dropped, requestVars>>

EndCycle(w) ==
    /\ phase[w] = "closing"
    /\ expired[w] = {}
    /\ phase' = [phase EXCEPT ![w] = "idle"]
    /\ UNCHANGED <<clockVars, loginVars, storeVars, remoteVars, asOf, candidates,
                   claimed, deleting, expired, dropped, requestVars>>

\* MUTANT: the except clause leaves expired_sessions unbound: the task dies.
ReaperDies(w, alsoLost) ==
    /\ phase' = [phase EXCEPT ![w] = "dead"]
    /\ candidates' = [candidates EXCEPT ![w] = {}]
    /\ claimed' = [claimed EXCEPT ![w] = {}]
    /\ deleting' = [deleting EXCEPT ![w] = {}]
    /\ expired' = [expired EXCEPT ![w] = {}]
    /\ dropped' = dropped \cup Held(w) \cup alsoLost
    /\ asOf' = [asOf EXCEPT ![w] = 0]

\* The local variables of take_expired are gone.
ForgetCycle(w, alsoLost) ==
    /\ phase' = [phase EXCEPT ![w] = "idle"]
    /\ candidates' = [candidates EXCEPT ![w] = {}]
    /\ claimed' = [claimed EXCEPT ![w] = {}]
    /\ deleting' = [deleting EXCEPT ![w] = {}]
    /\ expired' = [expired EXCEPT ![w] = {}]
    /\ dropped' = dropped \cup Held(w) \cup alsoLost
    /\ asOf' = [asOf EXCEPT ![w] = 0]

\* A command of take_expired raises, applied or not: the reaper logs "Session
\* cleanup is degraded; the next cycle will retry".
CycleFails(w) ==
    /\ candidates[w] \cup claimed[w] \cup deleting[w] # {}
    /\ phase[w] = "claiming" => candidates[w] # {}
    /\ faults < MaxFaults
    /\ faults' = faults + 1
    /\ \E gone \in SUBSET candidates[w] :
          /\ Cardinality(gone) <= 1
          /\ index' = index \ gone
          /\ ForgetCycle(w, gone \cap index)
    /\ \E applied \in BOOLEAN :
          until' = [s \in Session |->
                     IF applied /\ s \in deleting[w] THEN 0 ELSE until[s]]
    /\ UNCHANGED <<now, crashes, loginVars, memory, remoteVars, requestVars>>

----------------------------------------------------------------------------
\* A process stops and is started again: its memory, its reaper's cycle, the
\* logins and the requests it was serving are gone.
Crash(w) ==
    /\ crashes < MaxCrashes
    /\ crashes' = crashes + 1
    /\ memory' = [memory EXCEPT ![w] = {}]
    /\ ForgetCycle(w, {})
    /\ save' = [s \in Session |->
                  IF home[s] = w /\ save[s] \in {"record", "index"}
                    THEN "failed" ELSE save[s]]
    /\ stage' = [r \in Request |->
                   IF via[r] = w /\ stage[r] # "idle" THEN "done" ELSE stage[r]]
    /\ UNCHANGED <<now, faults, home, expires, until, index, remoteVars, target,
                   via, logout, loggedOut>>

----------------------------------------------------------------------------
ReaperStep(w) ==
    \/ BeginCycle(w) \/ EndClaim(w) \/ EndTake(w) \/ EndCycle(w)
    \/ \E s \in Session : \/ Claim(w, s) \/ ReadRecord(w, s)
                          \/ DeleteRecord(w, s) \/ CloseExpired(w, s)

RequestStep(r) ==
    \/ Resume(r) \/ LogoutRemote(r) \/ RemoteUnknown(r) \/ Answer(r)
    \/ DropRecord(r) \/ DropIndex(r)

Next ==
    \/ Tick
    \/ \E s \in Session : \/ StartSave(s) \/ SaveRecord(s) \/ SaveIndex(s)
                          \/ SaveFails(s) \/ RemoteExpires(s)
    \/ \E r \in Request : RequestStep(r) \/ DropFails(r)
    \/ \E w \in Worker : ReaperStep(w) \/ CycleFails(w) \/ Crash(w)

\* Time passes and every live reaper keeps running its cycles; the interval
\* between cycles only delays them.
Fairness ==
    /\ WF_vars(Tick)
    /\ \A w \in Worker : WF_vars(ReaperStep(w))

Spec == Init /\ [][Next]_vars /\ Fairness

----------------------------------------------------------------------------
\* Properties.

\* "Periodically claim expired sessions and close them once across workers":
\* reapers call api.close at most once for a session.
ReapedAtMostOnce == \A s \in Session : reaps[s] <= 1

\* A session whose key was returned stays tracked until someone has tried to
\* close it in LimeSurvey: it is in the index or in a reaper's hands.  Failing
\* commands and crashes never lose one that has not expired; an expired one is
\* lost only in the hands of a reaper whose cycle a failure or crash broke off,
\* or if no reaper came before Redis dropped the record, a grace period later.
Untracked(s) ==
    /\ save[s] = "saved"
    /\ closes[s] = 0 /\ remote[s] = "open"
    /\ s \notin index
    /\ \A w \in Worker : s \notin Held(w)
TrackedUntilClosed ==
    \A s \in Session : Untracked(s) =>
        \/ s \in dropped /\ expires[s] <= now /\ faults + crashes > 0
        \/ now >= expires[s] + Grace

\* Once a logout has been answered, no worker accepts the key again.
LoggedOutIsRefused ==
    \A s \in loggedOut, w \in Worker : ~Found(s, w)

\* The reaper never closes a session in LimeSurvey that has not expired.
ReapsOnlyExpired ==
    [][\A s \in Session : reaps'[s] # reaps[s] => expires[s] <= now]_vars

\* Every session whose key was returned and that LimeSurvey still has is, in
\* the end, the object of a close, or was lost as TrackedUntilClosed says.
EventuallyClosed ==
    \A s \in Session :
        save[s] = "saved" /\ MaxTime >= expires[s] ~>
            \/ closes[s] > 0 \/ remote[s] = "closed"
            \/ s \in dropped \/ now >= expires[s] + Grace

\* "Session cleanup is degraded; the next cycle will retry": a session whose
\* close was interrupted by a failing Redis command is still in the index.
NextCycleRetries ==
    [][\A w \in Worker : CycleFails(w) => Held(w) \subseteq index']_vars

\* The key is valid for the client while some worker accepts it.
LeaseStatus ==
    [s \in Session |->
        IF save[s] # "saved" THEN "unissued"
        ELSE IF \E w \in Worker : Found(s, w) THEN "valid" ELSE "over"]

Lease == INSTANCE SessionLease WITH status <- LeaseStatus

\* The store keeps the promises of SessionLease.
KeepsLease == Lease!Spec
=============================================================================

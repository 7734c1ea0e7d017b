---------------------------- MODULE AccountSlots ----------------------------
(***************************************************************************)
(* Calls to LimeSurvey for one account, made by any number of worker       *)
(* processes that share Redis.  A call first takes a slot, a member of a   *)
(* sorted set scored by the time its lease ends (repositories/             *)
(* concurrency_repository.py), then runs its HTTP exchange in a thread     *)
(* that cannot be stopped, and gives the slot back.                        *)
(*                                                                         *)
(* Two paths lead to a slot.  run_remote_call (services/                   *)
(* remote_call_executor.py) shields slot and thread from the cancellation  *)
(* of the caller; _call_with_retry (services/limesurvey_fetchers.py) does  *)
(* not.  Shielded is the set of calls that take the first path.  One       *)
(* attempt of a fetcher is one call here.                                  *)
(***************************************************************************)
EXTENDS Naturals, FiniteSets

CONSTANTS
    Call,           \* calls of one account
    Shielded,       \* those made by run_remote_call
    Limit,          \* max(1, LS_ACCOUNT_MAX_CONCURRENT_CALLS)
    Lease,          \* LS_ACCOUNT_CONCURRENCY_LEASE_SECONDS
    MaxHold,        \* the longest a call keeps a slot before its HTTP ends
    MaxTime         \* bound on the clock

ASSUME SlotAssumption ==
    /\ IsFiniteSet(Call)
    /\ Shielded \subseteq Call
    /\ Limit \in Nat \ {0}
    /\ Lease \in Nat \ {0}
    /\ MaxHold \in Nat
    /\ MaxTime \in Nat

VARIABLES
    now,            \* the clock all workers read
    slots,          \* per call: when its member of the set expires (0: none)
    since,          \* per call: when it was granted its slot
    task,           \* per call: the coroutine that holds the slot
    thread,         \* per call: the thread that runs the HTTP exchange
    caller          \* per call: the request that waits for the result

vars == <<now, slots, since, task, thread, caller>>

----------------------------------------------------------------------------
TaskPhase == {"asking", "granted", "waiting", "holding", "releasing", "done",
              "failed", "cancelled"}
ThreadPhase == {"none", "queued", "running", "done"}
CallerPhase == {"waiting", "answered", "gone"}

TypeOK ==
    /\ now \in 0..MaxTime
    /\ slots \in [Call -> Nat]
    /\ since \in [Call -> 0..MaxTime]
    /\ task \in [Call -> TaskPhase]
    /\ thread \in [Call -> ThreadPhase]
    /\ caller \in [Call -> CallerPhase]

Init ==
    /\ now = 0
    /\ slots = [c \in Call |-> 0]
    /\ since = [c \in Call |-> 0]
    /\ task = [c \in Call |-> "asking"]
    /\ thread = [c \in Call |-> "none"]
    /\ caller = [c \in Call |-> "waiting"]

\* The members whose lease has not ended.
Live == {c \in Call : slots[c] > now}

Running == {c \in Call : thread[c] = "running"}

\* Calls granted a lease so long ago that it has ended; nobody renews it.
Overdue == {c \in Call : now >= since[c] + Lease}

\* Exchanges that a cancelled fetch left behind in their threads.
LeftBehind == {c \in Running \ Shielded : caller[c] = "gone"}

----------------------------------------------------------------------------
\* account_concurrency_slot with Redis.

\* MUTANT: an off-by-one in the script.
HasRoomForOneMore == Cardinality(Live) <= Limit

HasRoom == Cardinality(Live) < Limit

\* MUTANT: the lease is subtracted from the clock.
GrantBackwards(c) ==
    /\ task[c] \in {"asking", "waiting"}
    /\ HasRoom
    /\ slots' = [slots EXCEPT ![c] = now - Lease]
    /\ since' = [since EXCEPT ![c] = now]
    /\ task' = [task EXCEPT ![c] = "granted"]
    /\ UNCHANGED <<now, thread, caller>>

\* The script that purges ended leases and adds the token is one atomic step
\* of Redis.  Its reply is on its way: the task does not know yet.
Grant(c) ==
    /\ task[c] \in {"asking", "waiting"}
    /\ HasRoom
    /\ slots' = [d \in Call |-> IF d = c THEN now + Lease
                                ELSE IF d \in Live THEN slots[d] ELSE 0]
    /\ since' = [since EXCEPT ![c] = now]
    /\ task' = [task EXCEPT ![c] = "granted"]
    /\ UNCHANGED <<now, thread, caller>>

\* The set is full: purge, sleep and ask again.
Refuse(c) ==
    /\ task[c] = "asking"
    /\ ~HasRoom
    /\ slots' = [d \in Call |-> IF d \in Live THEN slots[d] ELSE 0]
    /\ task' = [task EXCEPT ![c] = "waiting"]
    /\ UNCHANGED <<now, since, thread, caller>>

\* MUTANT: a call that found no room asks for ever.
NeverGiveUp(c) ==
    /\ task[c] = "waiting"
    /\ HasRoom
    /\ task' = [task EXCEPT ![c] = "asking"]
    /\ UNCHANGED <<now, slots, since, thread, caller>>

\* TimeoutError after LS_ACCOUNT_CONCURRENCY_WAIT_SECONDS: the caller gets it.
GiveUp(c) ==
    /\ task[c] = "waiting"
    /\ task' = [task EXCEPT ![c] = "failed"]
    /\ caller' = [caller EXCEPT ![c] = IF @ = "waiting" THEN "answered" ELSE @]
    /\ UNCHANGED <<now, slots, since, thread>>

\* client.eval raises: the caller gets the error.  If the script had run, its
\* member stays until the lease ends.
AskFails(c) ==
    /\ task[c] \in {"asking", "granted", "waiting"}
    /\ task' = [task EXCEPT ![c] = "failed"]
    /\ caller' = [caller EXCEPT ![c] = IF @ = "waiting" THEN "answered" ELSE @]
    /\ UNCHANGED <<now, slots, since, thread>>

\* The reply arrives: the task enters the body and hands the operation to the
\* executor, whose threads may all be busy.
Enter(c) ==
    /\ task[c] = "granted"
    /\ task' = [task EXCEPT ![c] = "holding"]
    /\ thread' = [thread EXCEPT ![c] = "queued"]
    /\ UNCHANGED <<now, slots, since, caller>>

StartHttp(c) ==
    /\ thread[c] = "queued"
    /\ thread' = [thread EXCEPT ![c] = "running"]
    /\ UNCHANGED <<now, slots, since, task, caller>>

FinishHttp(c) ==
    /\ thread[c] = "running"
    /\ thread' = [thread EXCEPT ![c] = "done"]
    /\ UNCHANGED <<now, slots, since, task, caller>>

\* The operation returned or raised: leave the body.
Leave(c) ==
    /\ task[c] = "holding"
    /\ thread[c] = "done"
    /\ task' = [task EXCEPT ![c] = "releasing"]
    /\ UNCHANGED <<now, slots, since, thread, caller>>

\* zrem, then the result reaches the caller if it still waits.
Release(c) ==
    /\ task[c] = "releasing"
    /\ task' = [task EXCEPT ![c] = "done"]
    /\ slots' = [slots EXCEPT ![c] = 0]
    /\ caller' = [caller EXCEPT ![c] = IF @ = "waiting" THEN "answered" ELSE @]
    /\ UNCHANGED <<now, since, thread>>

\* zrem raises: the member stays until its lease ends and the caller gets the
\* error instead of the result.
ReleaseFails(c) ==
    /\ task[c] = "releasing"
    /\ task' = [task EXCEPT ![c] = "failed"]
    /\ caller' = [caller EXCEPT ![c] = IF @ = "waiting" THEN "answered" ELSE @]
    /\ UNCHANGED <<now, slots, since, thread>>

----------------------------------------------------------------------------
\* The caller goes away: its request times out or is cancelled.

\* The coroutine is cancelled at an await before it entered the body.  A slot
\* granted by a reply still on its way stays in the set until its lease ends.
CancelQueued(c) ==
    /\ task[c] \in {"asking", "granted", "waiting"}
    /\ task' = [task EXCEPT ![c] = "cancelled"]
    /\ UNCHANGED <<now, slots, since, thread>>

\* MUTANT: the shielded task of a queued request is left to itself.
AbandonKeepsQueue(c) ==
    /\ c \in Shielded
    /\ caller[c] = "waiting"
    /\ task[c] \in {"asking", "granted", "waiting", "holding", "releasing"}
    /\ caller' = [caller EXCEPT ![c] = "gone"]
    /\ UNCHANGED <<now, slots, since, task, thread>>

\* MUTANT: the slot is freed with the caller, not with the HTTP exchange.
AbandonUnshielded(c) ==
    /\ c \in Shielded
    /\ caller[c] = "waiting"
    /\ caller' = [caller EXCEPT ![c] = "gone"]
    /\ \/ CancelQueued(c)
       \/ /\ task[c] = "holding"
          /\ task' = [task EXCEPT ![c] = "releasing"]
          /\ UNCHANGED <<now, slots, since, thread>>

\* run_remote_call: a task that has not started is cancelled, any other goes
\* on behind the shield.
AbandonShielded(c) ==
    /\ c \in Shielded
    /\ caller[c] = "waiting"
    /\ caller' = [caller EXCEPT ![c] = "gone"]
    /\ \/ CancelQueued(c)
       \/ /\ task[c] \in {"holding", "releasing"}
          /\ UNCHANGED <<now, slots, since, task, thread>>

\* _call_with_retry: the cancellation reaches the await inside the slot, so
\* the slot is released; a thread that has not started never will, one that
\* runs is left behind.
AbandonFetch(c) ==
    /\ c \notin Shielded
    /\ caller[c] = "waiting"
    /\ caller' = [caller EXCEPT ![c] = "gone"]
    /\ \/ CancelQueued(c)
       \/ /\ task[c] = "holding"
          /\ task' = [task EXCEPT ![c] = "releasing"]
          /\ thread' = [thread EXCEPT ![c] = IF @ = "queued" THEN "none" ELSE @]
          /\ UNCHANGED <<now, slots, since>>
       \/ /\ task[c] = "releasing"
          /\ task' = [task EXCEPT ![c] = "cancelled"]
          /\ UNCHANGED <<now, since, thread>>
          /\ \E left \in {slots[c], 0} : slots' = [slots EXCEPT ![c] = left]

\* The process of the call stops without notice: coroutine and connection are
\* gone, the member of the set is not.
ProcessDies(c) ==
    /\ task[c] \notin {"done", "failed", "cancelled"}
    /\ task' = [task EXCEPT ![c] = "cancelled"]
    /\ thread' = [thread EXCEPT ![c] = CASE @ = "queued" -> "none"
                                         [] @ = "running" -> "done"
                                         [] OTHER -> @]
    /\ caller' = [caller EXCEPT ![c] = "gone"]
    /\ UNCHANGED <<now, slots, since>>

----------------------------------------------------------------------------
\* Time passes, but no call that entered the body outlasts MaxHold.
Tick ==
    /\ now < MaxTime
    /\ \A c \in Call : task[c] = "granted" \/ thread[c] \in {"queued", "running"} =>
          now < since[c] + MaxHold
    /\ now' = now + 1
    /\ UNCHANGED <<slots, since, task, thread, caller>>

Progress(c) ==
    \/ Grant(c) \/ Refuse(c) \/ GiveUp(c) \/ Enter(c)
    \/ Leave(c) \/ Release(c)

Next ==
    \/ Tick
    \/ \E c \in Call :
          \/ Progress(c) \/ StartHttp(c) \/ FinishHttp(c)
          \/ AskFails(c) \/ ReleaseFails(c)
          \/ AbandonShielded(c) \/ AbandonFetch(c) \/ ProcessDies(c)

\* The event loop runs what is ready and the executor starts what is queued;
\* requests bounds every HTTP exchange.
Fairness ==
    \A c \in Call : WF_vars(Progress(c)) /\ WF_vars(StartHttp(c) \/ FinishHttp(c))

Spec == Init /\ [][Next]_vars /\ Fairness

----------------------------------------------------------------------------
\* Properties.

\* "Limit concurrent RC2 calls across requests and, with Redis, workers": the
\* HTTP exchanges in progress for one account never exceed the limit.
HttpWithinLimit == Cardinality(Running) <= Limit

\* What the code keeps of it: an exchange beyond the limit is one whose lease
\* ran out under it or one that a cancelled fetch left behind.  All others are
\* within the limit, whatever fails or dies and however long anything takes.
ExchangesWithinLimit == Cardinality(Running \ (LeftBehind \cup Overdue)) <= Limit

\* On either path, Redis grants at most Limit leases that have not ended.
LeasesWithinLimit == Cardinality(Live) <= Limit

\* "Keep the account slot until HTTP finishes, even if the caller times out":
\* a shielded exchange has its slot as long as its lease runs.
SlotCoversHttp == Running \cap Shielded \subseteq Live \cup Overdue

\* "A request cancelled while queued must not call LimeSurvey later."
CancelledInQueueNeverCalls ==
    [][\A c \in Call : caller[c] = "gone" /\ thread[c] = "none" => thread'[c] = "none"]_vars

\* No caller waits for ever, even if the slots of dead processes are never
\* given back: it gets a result or an error.
EveryCallerIsAnswered ==
    \A c \in Call : caller[c] = "waiting" ~> caller[c] # "waiting"

\* A call is active for LimeSurvey while its thread runs, and late once its
\* lease is over.
CallStatus ==
    [c \in Shielded |->
        CASE thread[c] = "running" -> IF c \in Overdue THEN "late" ELSE "active"
          [] thread[c] = "done" -> "finished"
          [] thread[c] = "queued" -> "waiting"
          [] thread[c] = "none" ->
               IF task[c] \in {"failed", "cancelled"} THEN "withdrawn" ELSE "waiting"]

Limiter == INSTANCE CallLimit WITH Call <- Shielded, status <- CallStatus

\* Whatever the fetchers do, the shielded calls keep the promises of CallLimit.
KeepsCallLimit == Limiter!Spec
=============================================================================

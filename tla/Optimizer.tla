----------------------------- MODULE Optimizer -----------------------------
(***************************************************************************)
(* The parameters of one LimeSurvey account: how many fetches a survey     *)
(* load may run at a time and how often it tries each of them              *)
(* (services/optimizer_service.py, hybrid_optimizer.py,                    *)
(* limesurvey_benchmark.py).  A login schedules a run in the background of *)
(* its worker; a run that finds no parameters in Redis takes a lock,       *)
(* measures a fixed list of combinations, publishes the best one in two    *)
(* keys and deletes the lock.  Lock and keys have a time to live.          *)
(*                                                                         *)
(* A combination is its position in the list, 0 stands for                 *)
(* DEFAULT_OPTIMAL_PARAMS.  The published score and timestamp are read by  *)
(* nobody and left out.                                                    *)
(***************************************************************************)
EXTENDS Naturals, Sequences, FiniteSets

CONSTANTS
    Run,            \* optimizer runs, in any worker
    Combinations,   \* how many combinations a run measures
    Rate,           \* success rates a measurement may have, in percent
    Time,           \* average response times it may have
    MinRate,        \* LS_OPTIMIZER_MIN_SUCCESS_RATE, in percent
    LockTTL,        \* 900 seconds
    ParamTTL,       \* LS_OPTIMIZER_TTL_SECONDS
    MaxRun,         \* the longest a run takes, from lock to release
    MaxTime,        \* bound on the clock
    MaxFaults       \* bound on failing commands and dying workers

ASSUME OptimizerAssumption ==
    /\ IsFiniteSet(Run)
    /\ Combinations \in Nat \ {0}
    /\ Rate \subseteq 0..100
    /\ Time \subseteq Nat
    /\ MinRate \in 1..100
    /\ LockTTL \in Nat \ {0}
    /\ ParamTTL \in Nat \ {0}
    /\ MaxRun \in Nat
    /\ MaxTime \in Nat \ {0}
    /\ MaxFaults \in Nat

VARIABLES
    now,            \* the clock of Redis
    faults,         \* commands that have raised and runs that have died
    stage,          \* per run: what it awaits
    saw,            \* per run: its check found the semaphore key
    since,          \* per run: when it got the lock
    baseline,       \* per run: avg_response_time of the baseline
    measured,       \* per run: the combinations measured so far
    best,           \* per run: the best of them (0: none is usable)
    lock,           \* when the lock key expires (0: no key)
    overran,        \* history: the runs that have outlasted their lock
    value,          \* per key: the published combination
    until           \* per key: when it expires (0: never written)

vars == <<now, faults, stage, saw, since, baseline, measured, best, lock, overran, value, until>>

----------------------------------------------------------------------------
Key == {"semaphore", "maxAttempts"}
Combination == 1..Combinations

\* measure_combination returns None when no question of the sample succeeds:
\* a rate of 0.
Measurement == [rate : Rate, time : Time]

Stage == {"idle", "readSemaphore", "readAttempts", "lock", "metrics", "baseline",
          "measure", "setSemaphore", "setAttempts", "release", "done", "dead"}

\* The stages between taking the lock and deleting it.
Critical == {"metrics", "baseline", "measure", "setSemaphore", "setAttempts", "release"}

TypeOK ==
    /\ now \in 1..MaxTime
    /\ faults \in 0..MaxFaults
    /\ stage \in [Run -> Stage]
    /\ saw \in [Run -> BOOLEAN]
    /\ since \in [Run -> 0..MaxTime]
    /\ baseline \in [Run -> Nat]
    /\ measured \in [Run -> Seq(Measurement)]
    /\ \A r \in Run : Len(measured[r]) <= Combinations
    /\ best \in [Run -> 0..Combinations]
    /\ lock \in Nat
    /\ overran \in SUBSET Run
    /\ value \in [Key -> 0..Combinations]
    /\ until \in [Key -> Nat]

Init ==
    /\ now = 1 /\ faults = 0
    /\ stage = [r \in Run |-> "idle"]
    /\ saw = [r \in Run |-> FALSE]
    /\ since = [r \in Run |-> 0]
    /\ baseline = [r \in Run |-> 0]
    /\ measured = [r \in Run |-> <<>>]
    /\ best = [r \in Run |-> 0]
    /\ lock = 0 /\ overran = {}
    /\ value = [k \in Key |-> 0]
    /\ until = [k \in Key |-> 0]

----------------------------------------------------------------------------
\* parameter_score.

Usable(m) == m.rate >= MinRate

\* The share of the way from 1.5 to 0.5 times the baseline that the response
\* time has come, times the success rate; in units of 1 / (200 * base), which
\* all scores of a run share.  A baseline of 0 scores 0.
ParameterScore(m, base) ==
    LET spared == IF 2 * m.time < base THEN 2 * base
                  ELSE IF 2 * m.time > 3 * base THEN 0
                  ELSE 3 * base - 2 * m.time
    IN  spared * m.rate

----------------------------------------------------------------------------
\* optimize_user_account_params.

Present(k) == until[k] > now

Begin(r) ==
    /\ stage[r] = "idle"
    /\ stage' = [stage EXCEPT ![r] = "readSemaphore"]
    /\ UNCHANGED <<now, faults, saw, since, baseline, measured, best, lock, value, until, overran>>

\* get_cached_optimal_params, key by key.
ReadSemaphore(r) ==
    /\ stage[r] = "readSemaphore"
    /\ stage' = [stage EXCEPT ![r] = "readAttempts"]
    /\ saw' = [saw EXCEPT ![r] = Present("semaphore")]
    /\ UNCHANGED <<now, faults, since, baseline, measured, best, lock, value, until, overran>>

ReadAttempts(r) ==
    /\ stage[r] = "readAttempts"
    /\ stage' = [stage EXCEPT ![r] =
                   IF saw[r] /\ Present("maxAttempts") THEN "done" ELSE "lock"]
    /\ saw' = [saw EXCEPT ![r] = FALSE]
    /\ UNCHANGED <<now, faults, since, baseline, measured, best, lock, value, until, overran>>

\* MUTANT: the lock is written without NX.
OverwriteLock(r) ==
    /\ stage[r] = "lock"
    /\ lock' = now + LockTTL
    /\ since' = [since EXCEPT ![r] = now]
    /\ stage' = [stage EXCEPT ![r] = "metrics"]
    /\ UNCHANGED <<now, faults, saw, baseline, measured, best, value, until, overran>>

AcquireLock(r) ==
    /\ stage[r] = "lock"
    /\ lock <= now
    /\ lock' = now + LockTTL
    /\ since' = [since EXCEPT ![r] = now]
    /\ stage' = [stage EXCEPT ![r] = "metrics"]
    /\ UNCHANGED <<now, faults, saw, baseline, measured, best, value, until, overran>>

LockTaken(r) ==
    /\ stage[r] = "lock"
    /\ lock > now
    /\ stage' = [stage EXCEPT ![r] = "done"]
    /\ UNCHANGED <<now, faults, saw, since, baseline, measured, best, lock, value, until, overran>>

\* MUTANT: without metrics there is nothing to publish.
AnalyzeOrStop(r) ==
    /\ stage[r] = "metrics"
    /\ \E next \in {"baseline", "release"} : stage' = [stage EXCEPT ![r] = next]
    /\ UNCHANGED <<now, faults, saw, since, baseline, measured, best, lock, value, until, overran>>

\* analyze_survey_metrics: no groups, or any exception, means the defaults.
Analyze(r) ==
    /\ stage[r] = "metrics"
    /\ \E next \in {"baseline", "setSemaphore"} : stage' = [stage EXCEPT ![r] = next]
    /\ UNCHANGED <<now, faults, saw, since, baseline, measured, best, lock, value, until, overran>>

MeasureBaseline(r) ==
    /\ stage[r] = "baseline"
    /\ \E m \in Measurement :
          IF Usable(m)
            THEN /\ stage' = [stage EXCEPT ![r] = "measure"]
                 /\ baseline' = [baseline EXCEPT ![r] = m.time]
            ELSE /\ stage' = [stage EXCEPT ![r] = "setSemaphore"]
                 /\ baseline' = baseline
    /\ UNCHANGED <<now, faults, saw, since, measured, best, lock, value, until, overran>>

\* MUTANT: the last of equal combinations wins.
LastBest(r, m) ==
    LET old == best[r]
        Score(n) == ParameterScore(n, baseline[r])
    IN  IF Usable(m) /\ (old = 0 \/ Score(m) >= Score(measured[r][old]))
          THEN Len(measured[r]) + 1 ELSE old

\* The best combination once m has been measured: the first of equal ones.
NewBest(r, m) ==
    LET old == best[r]
        Score(n) == ParameterScore(n, baseline[r])
    IN  IF Usable(m) /\ (old = 0 \/ Score(m) > Score(measured[r][old]))
          THEN Len(measured[r]) + 1 ELSE old

\* MUTANT: an off-by-one at the end of the list.
MeasureOneMore(r) ==
    /\ stage[r] = "measure"
    /\ \E m \in Measurement :
          /\ best' = [best EXCEPT ![r] = NewBest(r, m)]
          /\ measured' = [measured EXCEPT ![r] = Append(@, m)]
    /\ stage' = [stage EXCEPT ![r] =
                   IF Len(measured[r]) = Combinations THEN "setSemaphore" ELSE @]
    /\ UNCHANGED <<now, faults, saw, since, baseline, lock, value, until, overran>>

Measure(r) ==
    /\ stage[r] = "measure"
    /\ \E m \in Measurement :
          /\ best' = [best EXCEPT ![r] = NewBest(r, m)]
          /\ measured' = [measured EXCEPT ![r] = Append(@, m)]
    /\ stage' = [stage EXCEPT ![r] =
                   IF Len(measured[r]) + 1 = Combinations THEN "setSemaphore" ELSE @]
    /\ UNCHANGED <<now, faults, saw, since, baseline, lock, value, until, overran>>

Publish(r, k) ==
    /\ value' = [value EXCEPT ![k] = best[r]]
    /\ until' = [until EXCEPT ![k] = now + ParamTTL]

SetSemaphore(r) ==
    /\ stage[r] = "setSemaphore"
    /\ stage' = [stage EXCEPT ![r] = "setAttempts"]
    /\ Publish(r, "semaphore")
    /\ measured' = [measured EXCEPT ![r] = <<>>]
    /\ baseline' = [baseline EXCEPT ![r] = 0]
    /\ UNCHANGED <<now, faults, saw, since, best, lock, overran>>

SetAttempts(r) ==
    /\ stage[r] = "setAttempts"
    /\ stage' = [stage EXCEPT ![r] = "release"]
    /\ Publish(r, "maxAttempts")
    /\ UNCHANGED <<now, faults, saw, since, baseline, measured, best, lock, overran>>

\* The variables of find_optimal_parameters and of its caller are gone.
Forget(r) ==
    /\ saw' = [saw EXCEPT ![r] = FALSE]
    /\ since' = [since EXCEPT ![r] = 0]
    /\ baseline' = [baseline EXCEPT ![r] = 0]
    /\ measured' = [measured EXCEPT ![r] = <<>>]
    /\ best' = [best EXCEPT ![r] = 0]

\* finally: the key is deleted, whoever wrote it.
Release(r) ==
    /\ stage[r] = "release"
    /\ stage' = [stage EXCEPT ![r] = "done"]
    /\ lock' = 0
    /\ Forget(r)
    /\ UNCHANGED <<now, faults, value, until, overran>>

----------------------------------------------------------------------------
\* Failures.

Fault ==
    /\ faults < MaxFaults
    /\ faults' = faults + 1

\* A set raises, applied or not, or the background task is cancelled while it
\* measures: the finally block runs all the same.
RunFails(r) ==
    /\ stage[r] \in {"metrics", "baseline", "measure", "setSemaphore", "setAttempts"}
    /\ Fault
    /\ stage' = [stage EXCEPT ![r] = "release"]
    /\ measured' = [measured EXCEPT ![r] = <<>>]
    /\ \/ UNCHANGED <<value, until>>
       \/ stage[r] = "setSemaphore" /\ Publish(r, "semaphore")
       \/ stage[r] = "setAttempts" /\ Publish(r, "maxAttempts")
    /\ UNCHANGED <<now, saw, since, baseline, best, lock, overran>>

\* A command before the try block or the final delete raises, or the process
\* dies: the lock may have been written, and stays.
RunDies(r) ==
    /\ stage[r] \notin {"idle", "done", "dead"}
    /\ Fault
    /\ stage' = [stage EXCEPT ![r] = "dead"]
    /\ Forget(r)
    /\ lock' \in CASE stage[r] = "lock" /\ lock <= now -> {lock, now + LockTTL}
                   [] stage[r] = "release" -> {lock, 0}
                   [] OTHER -> {lock}
    /\ UNCHANGED <<now, value, until, overran>>

\* Time passes, but no run outlasts MaxRun.
Tick ==
    /\ now < MaxTime
    /\ \A r \in Run : stage[r] \in Critical => now < since[r] + MaxRun
    /\ now' = now + 1
    /\ overran' = overran \cup
                     {r \in Run : stage[r] \in Critical /\ now' >= since[r] + LockTTL}
    /\ UNCHANGED <<faults, stage, saw, since, baseline, measured, best, lock, value, until>>

Step(r) ==
    \/ ReadSemaphore(r) \/ ReadAttempts(r) \/ AcquireLock(r) \/ LockTaken(r)
    \/ Analyze(r) \/ MeasureBaseline(r) \/ Measure(r) \/ SetSemaphore(r)
    \/ SetAttempts(r) \/ Release(r)

Next == Tick \/ \E r \in Run : Begin(r) \/ Step(r) \/ RunFails(r) \/ RunDies(r)

Spec == Init /\ [][Next]_vars

----------------------------------------------------------------------------
\* Properties.

\* The runs that measure or publish.
Working == {r \in Run : stage[r] \in Critical}

\* What the lock keeps of "Avoid parallel optimizer runs for same account"
\* although every run deletes it without asking whose it is: however often a run
\* deletes the lock of another, each run that ever outlasted its lock lets at
\* most one more run work beside the others.
OverlapIsBounded == Cardinality(Working) <= 1 + Cardinality(overran)

\* What a run is about to publish was usable; no usable combination answered
\* sooner at the same or a better success rate, unless the score cannot tell
\* them apart (both faster than half, or both slower than one and a half times
\* the baseline); and of combinations measured alike the first is taken.
PublishesTheBest ==
    \A r \in Run : stage[r] = "setSemaphore" /\ best[r] # 0 =>
        LET chosen == measured[r][best[r]]
        IN  /\ Usable(chosen)
            /\ \A c \in 1..Len(measured[r]) :
                  LET other == measured[r][c]
                  IN  /\ Usable(other) /\ other.time < chosen.time /\ other.rate >= chosen.rate
                           => \/ 2 * chosen.time <= baseline[r]
                              \/ 2 * other.time >= 3 * baseline[r]
                      /\ other = chosen => best[r] <= c

\* Runs that make way for each other do not leave the account without
\* parameters: when all are over and none failed, someone has published.
SomeonePublishes ==
    faults = 0 /\ Run # {} /\ (\A r \in Run : stage[r] = "done")
        => \A k \in Key : until[k] # 0

\* "We compute optimal params once and reuse": a run that gets the lock finds
\* no parameters in the cache.
ComputedOnce ==
    [][\A r \in Run : AcquireLock(r) => \E k \in Key : ~Present(k)]_vars
=============================================================================

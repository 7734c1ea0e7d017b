# A verification of limesurvey-rc2-api

`limesurvey-rc2-api` is an HTTP adapter (FastAPI, asyncio) between trusted
services and the RemoteControl 2 interface of LimeSurvey. A client logs in and
gets an opaque local key; with it the client lists surveys, loads one survey as
a normalized structure, exports responses, and logs out. Several worker
processes may run; they share nothing but Redis and LimeSurvey.

This directory holds TLA+ modules translated from the code, TLC configurations
that check them on small instances, and TLAPS proofs that hold for every value
of the constants. Source paths below are relative to `src/`.

## 1. Inventory

| Component | Source | State | Operations |
|---|---|---|---|
| Login | `routers/auth.py` | two `threading.Event`s, `cleanup_started` under a lock, `session_key`, all per request | open the remote session in a thread with a deadline, store the local session, give up and clean up |
| Session store | `repositories/session_repository.py`, `services/limesurvey_session_service.py`, `repositories/cache_repository.py` | Redis record with a TTL, Redis sorted set of expiries, `_memory_sessions` in development | `save`, `find`, `delete`, `take_expired` |
| Session reaper | `services/session_reaper.py` | the local list of sessions it took | every 30 s claim what expired and close it remotely |
| Logout, authorization of requests | `routers/auth.py`, `services/limesurvey_session_service.py` | none of its own | resume, close, delete; a remote "session expired" also deletes |
| Account slots | `repositories/concurrency_repository.py` | a Redis sorted set of leases per account; a semaphore per process without Redis | acquire (Lua script), wait, release |
| Remote call executor | `services/remote_call_executor.py` | `_running_calls`, `started` per call | run one blocking call behind a shield |
| Question fetchers | `services/limesurvey_fetchers.py` | attempt counter, the request's semaphore | one call with retries and backoff |
| Survey loader | `services/remote_survey_loader.py`, `services/remote_survey_structure_loader.py`, `routers/survey_structures.py` | a tree of coroutines, the cached question list | load a survey under a deadline |
| Error mapper | `services/error_mapper.py` | none | classify an error by type and text, delete an expired session |
| Optimizer | `services/optimizer_service.py`, `hybrid_optimizer.py`, `limesurvey_benchmark.py` | four Redis keys and a lock per account | measure, choose, publish |
| Rate limiters | `services/login_rate_limiter.py`, `response_export_rate_limiter.py` | a Redis counter with a TTL, or a deque in memory | admit or refuse |
| Survey list, response export | `routers/surveys.py`, `routers/responses.py`, `services/remote_response_loader.py` | none | one remote call each, with limits |
| Lifespan, health | `app.py`, `infrastructure/redis_client.py`, `routers/health.py` | the shared Redis client, the reaper's task | start, stop, report readiness |
| LimeSurvey client | `services/limesurvey_client.py`, `services/citric_session_adapter.py` | the remote session key | facade over the Citric library |
| Survey structure | `services/survey_structure/*` | the index of names, codes seen, fields and issues of one import | parse `.lss`, normalize questions, translate conditions |
| Contract validator | `schemas/validate-survey.cjs`, `services/survey_structure/contract.py` | a child process per check | parse a survey against the shared schemas and the rules between fields |
| Tokens, URL policy, configuration | `core/*`, `schemas.py` | none | checks of one request against configuration |

How they interact. Each HTTP request is a coroutine on the worker's event loop;
blocking calls go to the threads of asyncio's default executor, which a
cancellation cannot stop. Every call to LimeSurvey takes an account slot first.
The store, the slots, the question cache, the optimizer's parameters and the
rate counters are Redis keys, reached one command at a time: every `await` of a
command is a point where other requests, other workers, a deadline, a
cancellation or a crash may come in between.

What is hard here, and what makes each component correct:

- *Login*: a deadline or a cancellation leaves the thread running. The handler
  and the thread must agree, without a common lock around their decisions, on
  who closes the remote session. It must be closed once, and never after its
  key was returned.
- *Store and reaper*: several commands per operation, several workers, records
  that disappear by TTL, copies in memory. A key that was deleted or has expired
  must stay refused; an expired session must stay known to some reaper until it
  is closed remotely.
- *Slots*: the limit must hold over workers, dead processes and cancelled
  requests; nobody may wait for ever; a request withdrawn in the queue must not
  reach LimeSurvey.
- *Survey load*: three levels of waiting (semaphore, slot, thread), retries,
  two nested `gather`s that do not cancel siblings, a deadline around all. Only
  complete lists may be cached and the whole tree must end.
- *Optimizer*: a check, a lock with an expiry that is deleted without asking
  whose it is, and keys written one after the other. Runs of one account must
  not overlap, what they publish must be what they measured to be best, and a
  run that makes way must not leave the account without parameters.

- *Import of a survey*: conditions name questions in five ways, and names of two
  questions may coincide. An ambiguous name must not be guessed, a condition
  that cannot be said in the target language must not change its meaning, and
  whatever is left out must be reported.
- *Contract*: two languages describe one format. The rules must exclude every
  survey in which one answer overwrites another or a condition reads none or
  two; what they accept must be what is served; a validator that hangs or dies
  must not hold the request.

`PROJECT.json` lists every hazard at its line with the properties that cover it.

## 2. Modules

| Module | Models | Composed with |
|---|---|---|
| `LoginHandoff` | `POST /login-limesurvey` | |
| `LoginHandoffProofs` | proofs about it | extends `LoginHandoff`, `TLAPS` |
| `SessionStore` | store, requests with a key, reapers, crashes | implements `SessionLease` |
| `SessionLease` | abstract: what a client is promised about a key | |
| `MCSessionStore` | instance for TLC (symmetry) | extends `SessionStore` |
| `SessionStoreProofs` | proofs about it | extends `SessionStore`, `TLAPS` |
| `AccountSlots` | slots, executor, both call paths | implements `CallLimit` |
| `CallLimit` | abstract: what LimeSurvey is promised | |
| `AccountSlotsProofs` | proofs about it, the refinement included | extends `AccountSlots`, `TLAPS` |
| `SurveyLoad` | one load of a survey: coroutines, semaphore, retries, cache, deadline | |
| `MCSurveyLoad` | instance for TLC | extends `SurveyLoad` |
| `SurveyLoadProofs` | proofs about it | extends `SurveyLoad`, `TLAPS` |
| `Optimizer` | the optimizer runs of one account | |
| `MCOptimizer` | instance for TLC (symmetry) | extends `Optimizer` |
| `OptimizerProofs` | proofs about it | extends `Optimizer`, `TLAPS` |
| `ZodSchemas` | JSON values, and the schema constructors of the library in `validate-survey.cjs` | |
| `ZodParse` | what each kind of schema says of a value | extends `ZodSchemas` |
| `FieldSchemas` | schemas of fields, conditions, sources, validations | extends `ZodSchemas` |
| `SurveySchemas` | schemas of groups, settings, surveys, issues, load results | extends `FieldSchemas` |
| `SurveyRules` | the refinements: rules of one field and between fields | extends `FieldSchemas` |
| `SurveyContract` | one check of a value, with the child process that makes it | extends `SurveySchemas`, `SurveyRules`; instantiates `ZodParse` |
| `MCSurveyContract` | surveys to check | extends `SurveyContract` |
| `ConditionReferences` | the index of names and the loops that fill it | |
| `ReferenceIndex` | `build_condition_references`, row by row | extends `ConditionReferences` |
| `Recursion` | proofs: induction, and that definitions by recursion have a solution | extends `TLAPS` |
| `ReferenceIndexProofs` | proofs about `ReferenceIndex` | extends `ReferenceIndex`, `TLAPS`; instantiates `Recursion` |
| `Conditions` | expressions to conditions, and what both mean | extends `ZodSchemas`, `ConditionReferences` |
| `SurveyNormalizer` | rows to fields and groups | extends `Conditions` |
| `SurveyFields` | the loops of `build_survey_structure` | extends `SurveyNormalizer`, `ReferenceIndex` |
| `SurveyFieldsProofs` | proofs about it and about `Conditions` | extends `SurveyFields`, `ReferenceIndexProofs`; instantiates `Recursion` |
| `SurveyImport` | the import, up to the verdict of the contract | extends `SurveyContract`, `SurveyFields` |
| `MCSurveyImport` | surveys to import | extends `MCSurveyContract`, `SurveyImport` |

### LoginHandoff

The handler's coroutine stands at one of its awaits (`handler`), the thread of
`open_session` at one of its accesses to shared state (`worker`), the thread of
the except block's cleanup likewise (`closer`). `finished`, `abandoned` and
`started` are the two events and the flag under the lock; `keyed` is
`session_key is not None`; `remote`, `closes`, `record`, `index` are the effects.
The executor has `PoolSize` threads; a queued task whose future is cancelled
never runs, a running one cannot be stopped. A cancellation may arrive at every
await, including those of the except block.

### SessionStore

A record in Redis is its `until` (0 when there is none), the sorted set is
`index` with `expires` as score, `memory[w]` holds the copies of worker `w`.
Every Redis command is one step, so `save` is `SaveRecord`, `SaveIndex`,
`delete` is `DropRecord`, `DropIndex`, and `take_expired` is `BeginCycle`,
`Claim` per member, `EndClaim`, `ReadRecord` and `DeleteRecord` per identifier,
`EndTake`. A command may raise, before or after Redis applied it (`MaxFaults`),
and a worker may stop between any two steps (`MaxCrashes`). `closes` counts all
remote closes, `reaps` those of reapers. `dropped` is a history variable: the
expired sessions a reaper had in hand when a failing command or a crash broke off
its cycle. `TrackedUntilClosed` leaves out these, which are lost (see section 5),
and those whose record Redis dropped because no reaper came within the grace
period; it leaves out no session that has not expired.

`SessionLease` says what the client may rely on: a key is issued once, accepted
until it expires or is deleted, and never again; a logout is answered when the
key is refused everywhere. `KeepsLease` is the refinement, with a key "valid"
while some worker's `find` would accept it.

### AccountSlots

`slots[c]` is the score of the call's member in the sorted set, `task` the
coroutine that holds the slot, `thread` the HTTP exchange, `caller` the request
that waits. The Lua script is one step; its reply is another (`Enter`), so that
a task can be cancelled after Redis granted the slot and before it knows.
`Shielded` separates the two paths of the code: `run_remote_call` and
`_call_with_retry`. Redis may refuse the script or lose its answer, in the queue
(`AskFails`) as at the release.

What the code keeps of "Limit concurrent RC2 calls" is `ExchangesWithinLimit`: at
most `Limit` exchanges besides those whose lease ran out under them (`Overdue`;
nobody renews a lease) and those that a cancelled fetch left in a thread
(`LeftBehind`). `CallLimit` is the promise to LimeSurvey: a limit on the calls
within their lease, each request makes its call at most once, and none once it was
withdrawn. The shielded calls implement it. `CallStatus` is the mapping: a call is
`active` while its thread runs and `late` once its lease is over.

### SurveyLoad

`phase` is what the root coroutine awaits, `group[g]` where the coroutine of a
group stands, `call[c]` how far each remote call got: queued for the semaphore,
asking for a slot, in a thread (`http`), backing off. An exception travels from
the call through the gathers to the root in one step (`Raise`), because no I/O
lies between; the siblings run on, as `gather` leaves them. `Deadline` cancels
everything the root still awaits. The slots seen from here are an environment
that grants or times out; other requests change the cache at any time. The list
of questions is abstracted to "complete" or "partial", which is what the
properties tell apart; the answers of `raise_limesurvey_error` are one value,
that for a structure the builder refuses (`SurveyStructureSourceError`) included.

### Optimizer

`stage` is the await at which a run stands, `lock` the expiry of the lock key,
`value` and `until` the two keys that `get_cached_optimal_params` reads (the
published score and timestamp are read by nobody). A combination is its place in
the fixed list, a measurement any pair of a success rate and an average time.
`ParameterScore` is the code's score in integer units that all scores of a run
share. A failing `set` or a cancellation runs the `finally` block (`RunFails`);
a failing command outside the `try`, or the death of the worker, does not
(`RunDies`), and the lock stays until it expires. `overran` is a history variable:
the runs that were ever at work when their lock had expired.

### The contract: ZodSchemas, ZodParse, FieldSchemas, SurveySchemas, SurveyRules, SurveyContract

`validate-survey.cjs` is a bundle: a schema library, the schemas of the
contract written in it, the functions the schemas call for rules that shapes
cannot express, and an entry script. The modules follow that division.

A JSON value is a tuple that begins with its type. Numbers are counted in
halves: integers, fractions and order are all the rules ask about. A schema is
a record with a kind, made by an operator with the constructor's name;
`ZodParse!Parse` has one branch per kind and answers, as the library does, a
status (`valid`, `dirty`, `aborted`), the value as parsed and the issues. The
difference between dirty and aborted is kept, because refinements run on dirty
values and a union takes the first variant that is valid, or the only dirty
one. Issues are a set with paths; their texts are left out. Regular expressions
are a constant, `Language`: for each source, the texts it matches; a source
outside its domain does not compile. Dates likewise come with their parts
(`DateParts`), and the rules for those parts are the code's.

`SurveyRules` names each refinement after the function. `fieldResponseKeys`,
`conditionResponseItemCodes` and `validateConditionReferences` are recursive
like the code. The properties do not use them: `answerCells` of `SurveyContract`
counts the answers of a survey by position and says under which key each is
saved and by which item it may be named, from the type of the field alone.

`SurveyContract` is `_validate_complete_contract`: serialize, start the process,
wait at most five seconds, read its verdict. The process may fail to start, die,
or stay silent.

The operators were compared with the expected verdicts of the repository's
`schemas/validation-cases.json` (60 cases), and agree with all of them.

### The import: ConditionReferences, ReferenceIndex, Conditions, SurveyNormalizer, SurveyFields, SurveyImport

`SurveyFields` walks through the loops of `build_survey_structure`: index the
names, sort (`SortQuestions`, with an issue for every orphan), then one step per
question, which becomes a field (`NormalizeField`) or is skipped for one of three
reasons (`SkipUnnamed`, `SkipDuplicate`, `SkipUnsupported`), then the groups
(`NormalizeGroups`). `index`, `seen`, `fields` and `issues` are the local
variables of the same names; `todo` is what the loop over `top_level` has left,
and `stage` says which loop runs.

`SurveyImport` puts a caller around it. A source without an id is refused first;
every step of the loops is taken as it is (`MakeFields`); the last one (`Submit`)
also assembles the document, with groups and settings, and hands it to the check
of `SurveyContract`. The actions of `SurveyFields` are conjuncts of those of
`SurveyImport`, so each behaviour that begins with `Import` is one of the loops,
with stutters; those that begin with `CheckOnly` never run them.

The operators of `SurveyNormalizer` keep the names of the functions:
`normalize_field`, `_validation`, `_default_value` and so on. `Conditions` holds
`parse_limesurvey_condition`, which calls itself on the operands of an
expression: here a recursive function over the constant `Expressions`, with
`TextLength` for the length of a text. As in the code, `this` is understood in
comparisons only and `self` in counts only, and a constant expression in
parentheses is not the constant (`unconditional`). The one thing assumed of an
expression is what makes the code's recursion end, that an operand is a shorter
text. `holds` and `conditionHolds` say what expressions and conditions mean,
given the conditions of leaves that hold; only `meansTheSame` compares the two.

The index of names stands in modules of its own. `ReferenceIndex` is
`build_condition_references` as a specification: one step per row
(`IndexQuestion`), a subquestion being visited with its question, and the tokens
of a question in any order, because Python iterates over a set. `SurveyFields`
takes the step as it is (`IndexNames` adds only which loop runs). The loops
inside a step are recursive functions over the names (`addAll`) and the rows
(`addChildren`), in the code's order; `add` is the one place that decides what a
repeated name means. The code's `add` also ignores an empty name; no caller can
pass one.

What `NothingDisappears` asks is that a question is a field or was skipped with an
issue that says so, and that a subquestion is in the list its question's field has
for it (`hasPart`), or its question was so skipped, or an issue says that it has
none. Three kinds of subquestion are in neither place and the code says nothing of
them: those of types that have no list for any, those of a scale that the matrix
does not read, and those of a ranking that has answers.

`FailSettings` is the handler's answer when `int()` raises on a question index that
`float` reads as `nan` or `inf`.

Left out: titles, labels, help texts, their sanitizing and their languages, and
the text of expressions. An expression is given as the tree that the tokenizer
and the regular expressions find in it; what they do not recognize is a leaf
`unsupported`. Rows are what LimeSurvey hands out: texts for attributes, `other`
only on types that offer it, a qid on every subquestion.

The operators were compared with the Python functions on the payloads of
`MCPayloads`: fields, groups and issues agree.

## 3. Runs

Bounds are in the `.cfg` files; every run terminates.

| Run | Instance | What it shows |
|---|---|---|
| `login_handoff` | 2 logins, 1 thread, 19 053 states | All interleavings of handler and threads, both orders of the event accesses, a pool so small that cleanups queue behind opens. `NoOrphan`, `ClosedAtMostOnce`, `ReturnedKeyIsUsable`, `RejectedLeavesNoRecord`; every login ends and every abandoned session is the object of a close. |
| `session_prod` | 2 sessions, 2 workers, 1 request, 1 fault, 1 crash, clock to 2, 3 375 128 states | Races of two reapers, logout, remote expiry, with several sessions in one cycle: closed once, not before it has expired, and tracked until then. |
| `session_dev` | 1 session, 1 worker with memory, 2 requests, 1 fault, 1 crash, clock to 4, 79 886 states | The fallback to memory, where a copy could revive a key. Two logouts, or a logout and a request that finds the session expired, with the reaper between their commands: once answered, the key stays refused; refinement of `SessionLease`; under fairness every returned session is closed, unless a cycle that broke off lost it or its grace period passed. |
| `session_retry` (violation) | 1 session, 2 workers, 1 fault | "the next cycle will retry" does not hold for what was claimed. |
| `account_slots` | 3 calls, 2 shielded, limit 1, lease 2, hold up to 3, clock to 4, 248 423 states | Limit of leases, withdrawal, answers for all; calls that outlast their leases: which exchanges can be beyond the limit, and that a shielded one has its slot until its lease ends; refinement of `CallLimit`. |
| `fetch_cancelled` (violation) | 2 fetches, limit 1 | A cancelled fetch frees its slot before its thread ends. |
| `survey_load` | 2 groups, 3 questions, 2 permits, 2 attempts, 75 800 states | Nested gathers with more fetches than permits, a sibling in the same group and one in another; every failure, retry and deadline. |
| `survey_load_timeout` (violation) | 1 group, 1 question | A slot that is not granted is reported as the deadline. |
| `optimizer` | 3 runs, 2 combinations, 3 rates, 3 times, 1 fault, lock and keys of 1, clock to 2, 4 353 543 states | Choice and publication, with a lock and keys that expire under the runs, and runs that delete the lock of another: each that outlasted its lock lets at most one more work at the same time. |
| `optimizer_twice` (violation) | 2 runs, 1 combination | The check before the lock is not repeated after it. |
| `survey_import` | 1 160 imports, and 1 283 documents checked without one, 28 372 states | Keys and comparisons are unambiguous in every accepted survey, what is served was checked, unions do not depend on order, names are not guessed, conditions keep their meaning, shapes are refused for exactly three reasons, no question disappears, every check ends. |
| `survey_import_dropped` (violation) | 2 imports | A condition on a skipped question refuses the survey instead of being omitted. |

Why the bounds are enough. A login shares only the pool with others, so two
logins and one thread already make every queueing. In the store the hazards are
two actors on one session (two reapers, reaper and logout, two logouts) with one
command failing or one worker dying between them; the clock reaches past expiry
and grace. In production two sessions make a cycle that holds more than one.
Three calls on a limit of one give a holder, a successor and a waiter, each on
either path, and a call may end before or after its lease. In a load, two
permits and three questions over two groups make permits scarce at both levels,
and two attempts give a first, a last and an exhausted one. Two combinations
give a tie, a better second and a better first; the rates lie below, at and
above the minimum, and the times reach both ends of the scale. An optimizer run
may still work when its lock expires, so that a second takes the lock; the first
then deletes it, and a third gets it beside the second.

For the contract, what can go wrong is a coincidence between two parts, so
`MCSurveyContract` pairs every shape of field, with codes such as `A` and `A_B`
that run together when joined, with a second field and every kind of condition;
and it takes surveys in which every optional part is present and makes every
single change to them (remove, replace, repeat, add an unknown member). All
rules of the code fire on some document. For the import, `Named` makes names
coincide in every order, `Typed` takes all native types with fitting and
unfitting defaults (texts, numbers, truth values, dictionaries), limits
(negative, fractional and not numbers at all) and answers, and `Settings`
question indexes down to `nan` and `inf`, `Conditional` takes all trees of depth
two and some of depth three over every kind of leaf, `Dropped` all pairs of
questions of which one may be skipped. `Expressions` holds the expressions in
these surveys with their operands, `TextLength` their depth. `Infinite` is
larger than every number used; `MAX_DOCUMENT_PARTS` stands for the size limit,
counts parts of the document instead of bytes, and is exceeded by one of the
documents and by none of the imports. The theorems below need none of these
bounds.

`Tick` is bounded by `MaxTime`; faults and crashes by `MaxFaults` and
`MaxCrashes`. No other counter is bounded except attempts, by the code itself.
`CHECK_DEADLOCK FALSE` appears where the modelled system really stops: every
login has ended, or the clock has reached its bound and all is done.

Fairness. In `LoginHandoff` the event loop resumes what is ready, the executor
runs queued tasks and `api.open` and `api.close` return, because requests has
connect and read timeouts; failures and cancellations are not fair. In
`SessionStore` time passes and reapers keep running; requests are not assumed to
progress. In `AccountSlots` ready tasks run, waiting tasks ask again or give up
(the code's deadline), and threads end. In `SurveyLoad` ready coroutines run,
threads end, a backoff ends, a call waiting for a slot gets one or gives up; the
deadline of the load is *not* assumed, so `LoadIsAnswered` shows that nothing
deadlocks behind it. `Optimizer` states safety only and assumes none. In
`SurveyContract` only the caller is fair: `subprocess.run` has a timeout, and
what has been written is read. The process itself may stay silent for ever.

## 4. Proofs

All theorems hold for arbitrary values of the constants, under the named
assumptions of the modules and those stated in the theorem.

- **LoginHandoffProofs.** The inductive invariant states, for each login, which
  phases of handler, worker and closer can coexist, what the events say in
  them, and who may still claim the cleanup. It is needed because the safety
  properties speak of final states only: that nobody else will close is a fact
  about the events set on the way. `CleanupRunsOnce`, `ReturnedKeySafety`,
  `NoOrphanSafety`, `RejectedRecordSafety`, `TypeCorrect`.
- **SessionStoreProofs.** `IInv` adds to the types how old a record can be and
  what the state of a request says of its session. `OwnerInv`, for production
  mode (`~InMemory`), says that a session has one owner at a time: the save, the
  index, or one reaper's hands, and that a reaped session has none. Hence
  `ReapedOnce` (ASSUME `~InMemory`: with copies in memory a worker that saved a
  session and the one that claims it from the index both close it) and
  `ReapsOnlyExpiredSafety`. `TrackInv` says that a saved session keeps its record
  and its place in the index or in a reaper's hands until it is settled: closed,
  about to be closed, lost by a reaper whose cycle broke off, or past its grace
  period. It holds through failed commands and crashes, with and without copies in
  memory, and gives `TrackedSafety`: no failure, crash or request loses a session
  before it expires. That an expired one is lost when a cycle breaks off is
  disagreement 1 below, not something the theorem excludes. `LogoutInv` says that
  an answered logout has left no record and no copy, so `LoggedOutSafety`; with the fact that only a save makes
  records and makes each once, it also gives the refinement,
  `ImplementsSessionLease`. Both assume `OneStore`, that Redis is the only store
  or there is one worker: otherwise a logout served by one worker leaves the
  copy in the memory of the worker that served the login, which goes on
  accepting the key.
- **AccountSlotsProofs.** The invariant ties every running thread to its task
  and grant time. No hypothesis restricts how long a call takes or which calls are
  shielded in `LeaseLimit`, `NoCallAfterWithdrawal`, `SlotUntilHttpEnds` and
  `ExchangeLimit`. The last says that at most `Limit` exchanges are in progress
  besides the two kinds named above; the argument is that all others hold leases
  that have not ended (`Covered`), of which there are at most `Limit`. Both
  exceptions are needed: the run reaches the one, `fetch_cancelled` the other.
  `ImplementsCallLimit` is the refinement, without a hypothesis either: initial
  states map to initial states, each step to a step or a stutter; a tick of the
  clock ends the leases of the calls it makes late.
- **SurveyLoadProofs.** The invariant says that a call is started once
  (`FreshInv`), has an attempt left while it may be tried (`TryInv`), that a
  group is done only with all its properties (`GroupInv`), and that lists are
  complete wherever the root or the cache holds one (`ListInv`). `TypeCorrect`
  includes the bound on attempts; `OnlyCompleteSafety` is the promise in the
  docstring of `_load_group_questions`. `PermitInv` counts the fetches that hold
  a permit together with the abandoned threads, which hold none: that they never
  exceed the semaphore in sum (`SemaphoreSafety`) needs `QuietInv`, that a thread
  is abandoned only by the deadline, after which nobody takes the freed permit.
  The same invariant gives the action property `TimedOutSafety`.
- **OptimizerProofs.** The invariant says that nothing is measured before the
  measurements begin (`FreshInv`) and that `best` is the first of the highest
  scores so far (`BestInv`); `ScoreOrder` relates scores to times and rates.
  `BestPublished` follows for all measurements. `OverlapBound` rests on
  `LockInv`: a run counted in `overran` outlasted its lock while it worked
  (`OverranInv`), and beside them at most one works, only while the lock is held.
  It says that each run that ever outlasted its lock lets at most one more work
  at the same time. It assumes nothing of the time a run takes, and no part of the
  code bounds it by the lock's 900 seconds: with the default limits a run makes up to
  14 remote calls in its analysis and then seven measurements of two calls, one
  after the other, each with up to two attempts of 30 seconds and a wait for a slot.
  `SomeonePublishesSafety` needs no such assumption either. `PublishInv` says that, as
  long as nothing failed, whoever is over made way for a run that still works, or
  the parameters are there: a run that outlasts its lock may publish twice, but
  never not at all.

- **ReferenceIndexProofs.** `Represents` says what an index is: of a set of
  meanings (pairs of a name and the answer it stands for) it keeps the names with
  one answer and remembers those with more. `AddRepresents` proves that `add`
  puts one more meaning into it, `AddAllRepresents`, `AddChildRepresents` and
  `AddChildrenRepresents` carry that through the loops, and
  `IndexQuestionRepresents` through a row, in whatever order the tokens are
  visited. `IndexInvariance` follows (the index represents the rows visited so
  far), and `NoGuessSafety` from it. The one assumption, `PayloadsAssumption`,
  says that the rows are a list.
- **Recursion.** Loops and trees need induction and recursive functions, and the
  library's theorems about both take an operator, which the provers cannot
  instantiate. Here induction is a fact about sets: `LeastElement` follows from
  the well-foundedness of strict inclusion between finite sets, `Induction` and
  `Descent` (for any set with a rank in the natural numbers) from it. The
  recursive step is a constant of the module, `Body`, which an `INSTANCE`
  replaces; `SolutionExists` says that the recursion it describes has a solution
  if the value at an element depends on elements of lower rank only. Each proof
  about a recursive function begins with it: only then is the function equal to
  its own definition.
- **SurveyFieldsProofs.** In three parts.
  *Conditions.* `ParseUnfolds`, `WithinUnfolds`, `HoldsUnfolds` and
  `JudgementUnfolds` give one step of each recursion. By induction over the
  length of the text, an expression is translated exactly when the importer knows
  a response for every leaf (`TranslatedLeaves`), and its condition then holds
  exactly when it does, whatever holds at the leaves: `TranslationKeepsMeaning`,
  for expressions of any depth.
  *Lists and order.* `RankedCovers` says that the order by rank is a list of all
  the places it orders, which needs a strict total order on a finite set;
  `GroupOrders` and `SortedCovers` supply it for the sort key of the code, group,
  order and place. So sorting loses no question, and `OrphansReported` that each
  orphan has an issue.
  *The loops.* `FieldsInv` says that, once sorted, each top-level question waits in
  `todo`, or is a field that is whole (`isWhole`: every subquestion is in the list
  the type has for it), or was skipped with an issue that says so; that each
  subquestion has such a question or an issue (`Accounted`); and that each field has
  the code, the id and the meaning of its question (`Keeps`). The clauses about
  `todo` are the strengthening: the property speaks of the end only. That a field is
  whole is proved from the lists that make it: `ChosenCovers` for the choice of rows
  and columns, `ChildrenCover` for the list of parts, `FieldParts` for the members
  that a field of each type has; `SkipsReported` for the three skips. Each step has
  its lemma. `FieldsInvariance` gives `NothingDisappearsSafety`
  and `ConditionsSafety`.
  The theorems are about `FieldsSpec`. They concern the import because
  `SurveyImport` takes its steps as they are; that module reaches the recursive
  operators of the contract, so the last sentence is not a theorem but read off
  `MakeFields` and `Submit`, and the run checks both properties there. Assumed:
  `PayloadsAssumption` and `RowsAssumption` (rows, groups and issues are lists,
  and what orders them are numbers), `NumericAssumption` (`float` gives
  numbers), `ExpressionsAssumption` (operands are shorter texts). TLC evaluates
  all of them in the runs of the import.

A remark for who changes these modules: the prover recognizes a recursive function
by its name in the body, and does not look into the inner arms of a CASE. In
`Conditions` one recursive call therefore stands in the `OTHER` arm.

Only model-checked: every liveness property (the prover does not handle
`ENABLED` and fairness), and of the contract `NoAnswerIsOverwritten`,
`EveryComparisonReadsOneAnswer`, `NothingUncheckedIsServed`,
`VariantChoiceIsOrderFree` and `ImportedShapeIsSound`. These are about what the
schemas accept. The last says that the contract finds a wrong shape in exactly
those imported fields whose default value, number of selections or subquestion
id the importer handed on as it was and the schemas do not allow. Schemas and
documents are trees, and the operators that walk them are `RECURSIVE`; a module
that reaches such an operator holds no theorem.

## 5. Disagreements between code and text

1. `session_retry`: a failing command in `take_expired` loses the sessions it
   had claimed; the log line promises a retry.
2. `fetch_cancelled`: `_call_with_retry` is not shielded as `run_remote_call`
   is; a cancelled fetch lets LimeSurvey see more calls than the limit.
3. `survey_load_timeout`: a slot timeout is answered 504
   `LS_SURVEY_LOAD_TIMEOUT`.
4. `optimizer_twice`: "We compute optimal params once and reuse" fails for two
   logins whose runs overlap at the check.
5. `survey_import_dropped`: names of all questions are indexed before some are
   skipped, so a condition on a skipped question is kept, and the contract
   refuses the whole survey; the warning text says the condition is omitted.
Seen while modelling, and not among these runs:

- A run of the optimizer that takes longer than the lock's 900 seconds works on
  beside the next one and deletes its lock; `optimizer` reaches the overlap, and
  `OverlapIsBounded` says how far it goes.
- `_default_value` (`field_values.py:182-206`) hands on numbers and truth values as
  default of a choice and any dictionary as default of a matrix, and `_validation`
  (`field_values.py:61-65`) a negative or fractional number of selections such as
  `min_answers` "-1" or "1.5". The contract allows neither and refuses the whole
  survey. `survey_import` reaches them; `ImportedShapeIsSound` says that these, and
  a subquestion without an id, are the only misshapen values.
- With copies in memory and a second worker an expired session is closed twice.
- An attribute that `float` reads as `nan` or `inf` (`min_num_value`) reaches
  `json.dumps(allow_nan=False)` and refuses the whole import.
- A subquestion that its matrix has no scale for, or whose type has no list, is
  dropped without an issue.

## 6. Not modelled, and why

- The session store of a process without Redis (`client is None`, everything in
  memory, as in `tests/test_session_repository.py`): one worker whose steps no other
  command comes between. Modelled are Redis alone and Redis with copies in memory.
- A session that LimeSurvey opened although the reply was lost or came too late for
  the library (`routers/auth.py:89-91`): `OpenRemote` counts it as not opened. The
  service has no key for it, so nothing in the code can close it.
- The slot semaphore of a process without Redis; skew between the clocks of
  workers; a Redis command that is applied long after its client gave up.
- The owner of a record: a caller who is not the owner changes nothing.
- A login that dies between the remote open and the first write: nothing in the
  code can recover it.
- The sorted set of slots as a Redis key with its own TTL: the script sets it to
  the lease of the newest member, which ends last, so it never removes a live
  member.
- `LoginHandoff` and `SessionStore` meet at the two writes of `save`; each
  models the other side by what it can observe (`SaveFails`).
- The sampling of groups and questions by the benchmark, and the optimizer
  without Redis (its lock is never granted, so nothing happens).
- The parser of `.lss` files, the tokenizer and the grammar of expressions, the
  sanitizing of texts, titles and languages: layout of data, which no property
  here is about. `SurveyLoad` abstracts the content of a survey to complete or
  not; `SurveyImport` starts from its rows.
- Rows whose order is `nan` or `inf`: Python's sort has no defined result for them.
- The parts of the schema library that no schema of the contract uses: formats
  of texts, dates, big integers, tuples, maps, sets, functions, promises,
  pipelines, and the asynchronous twins of the parse methods, which
  `safeParse` never calls.
- The rate limiters, the classification of errors, the lifespan, the limits of
  the response export, tokens and URLs, configuration (see the plan).

## 7. Plan

Done: `LoginHandoff`, `SessionStore` with `SessionLease`, `AccountSlots` with
`CallLimit`, `SurveyLoad`, `Optimizer`, the contract and the import; a theorem
for every safety property of the first five, for both refinements, for the index
of names, and for the loops of the import and the translation of conditions. In
this order next:

1. Proofs about the contract, with its parser as recursive functions over a
   constant set of schemas and documents, as was done for expressions; then the
   theorems of `SurveyFieldsProofs` for `ImportSpec` itself.
2. `RateLimiter`: the Redis window and the in-memory deque against one abstract
   limit (at most twice the limit in any minute).
3. The error mapper's classification; the lifespan (stop with calls in flight);
   response export limits.

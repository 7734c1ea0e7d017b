----------------------------- MODULE SurveyLoad -----------------------------
(***************************************************************************)
(* GET /survey_structure/{sid}: one request that loads a complete survey   *)
(* from LimeSurvey (services/remote_survey_structure_loader.py, services/  *)
(* remote_survey_loader.py, services/limesurvey_fetchers.py).              *)
(*                                                                         *)
(* The request is a tree of coroutines.  Its root reads the survey, then   *)
(* gathers one coroutine per group, each of which reads the questions of   *)
(* its group and gathers one fetch per question.  gather raises the first  *)
(* error at once and leaves the siblings running; a deadline around the    *)
(* whole tree cancels it.  Fetches wait for a semaphore of the request,    *)
(* then for a slot of the account (AccountSlots), and retry what looks     *)
(* temporary.  Other requests share the slots and the cache: here they are *)
(* the environment.                                                        *)
(***************************************************************************)
EXTENDS Naturals, FiniteSets

CONSTANTS
    Group,          \* the survey's question groups
    Question,       \* its questions
    GroupOf,        \* the group of each question
    Semaphore,      \* params["semaphore"]
    MaxAttempts     \* params["maxAttempts"]

VARIABLES
    phase,          \* what the root coroutine awaits
    answer,         \* what the router answered
    refresh,        \* the query parameter
    listed,         \* the groups LimeSurvey returned
    group,          \* per group: its _load_group_questions coroutine
    call,           \* per remote call: how far it got
    tries,          \* per remote call: HTTP exchanges begun
    cache,          \* the value under the survey's cache key
    content         \* the questions the root will normalize

vars == <<phase, answer, refresh, listed, group, call, tries, cache, content>>

----------------------------------------------------------------------------
\* The calls: three made by run_remote_call, one fetch per group and question.
Part == {"survey", "language", "groups"}
Fetch == Group \cup Question
Call == Part \cup Fetch

ASSUME LoadAssumption ==
    /\ GroupOf \in [Question -> Group]
    /\ Group \cap Question = {}
    /\ Fetch \cap Part = {}
    /\ Semaphore \in Nat \ {0}
    /\ MaxAttempts \in Nat \ {0}

Phase == {"survey", "parts", "cache", "gather", "store", "build", "answered"}
GroupPhase == {"idle", "questions", "properties", "done", "failed", "cancelled"}
CallPhase == {"idle", "queued", "asking", "http", "backoff", "ok", "failed",
              "cancelled", "abandoned"}

\* Lists of questions differ in one respect: every question with its properties.
Content == {"none", "complete", "partial"}

\* LS_ERROR stands for the answers of raise_limesurvey_error.
Answer == {"none", "OK", "NOT_FOUND", "LS_SURVEY_LOAD_TIMEOUT", "LS_ERROR",
           "INVALID_SURVEY_STRUCTURE"}

TypeOK ==
    /\ phase \in Phase
    /\ answer \in Answer
    /\ refresh \in BOOLEAN
    /\ listed \in SUBSET Group
    /\ group \in [Group -> GroupPhase]
    /\ call \in [Call -> CallPhase]
    /\ tries \in [Call -> 0..MaxAttempts]
    /\ cache \in Content
    /\ content \in Content

\* The request has resumed its session and called _get_survey_properties.
Init ==
    /\ phase = "survey" /\ answer = "none"
    /\ refresh \in BOOLEAN
    /\ listed = {}
    /\ group = [g \in Group |-> "idle"]
    /\ call = [c \in Call |-> IF c = "survey" THEN "asking" ELSE "idle"]
    /\ tries = [c \in Call |-> 0]
    /\ cache \in {"none", "complete"}
    /\ content = "none"

QuestionsOf(g) == {q \in Question : GroupOf[q] = g}

\* The calls a group's coroutine awaits.
Awaited(g) == CASE group[g] = "questions" -> {g}
                [] group[g] = "properties" -> QuestionsOf(g)
                [] OTHER -> {}

----------------------------------------------------------------------------
\* A remote call.

\* MUTANT: a group keeps the permit of its fetch while it loads its properties.
HoldingGroups ==
    {c \in Fetch : call[c] \in {"asking", "http"}}
        \cup {g \in Group : group[g] = "properties"}

\* A fetch holds a permit of the semaphore while it asks for a slot and while
\* its thread runs, never while it backs off.
Holding == {c \in Fetch : call[c] \in {"asking", "http"}}

\* MUTANT: one permit too many.
PermitFreeOffByOne == Cardinality(Holding) <= Semaphore

PermitFree == Cardinality(Holding) < Semaphore

Acquire(c) ==
    /\ c \in Fetch
    /\ call[c] = "queued"
    /\ PermitFree
    /\ call' = [call EXCEPT ![c] = "asking"]
    /\ UNCHANGED <<phase, answer, refresh, listed, group, tries, cache, content>>

\* A slot of the account is granted and the call handed to a thread.
BeginHttp(c) ==
    /\ call[c] = "asking"
    /\ call' = [call EXCEPT ![c] = "http"]
    /\ tries' = [tries EXCEPT ![c] = @ + 1]
    /\ UNCHANGED <<phase, answer, refresh, listed, group, cache, content>>

\* The call raises.  The error passes the gathers up to the root, which ends
\* with the router's answer; the other children of the gathers run on.  No
\* I/O lies between, so this is one step.  After the answer nobody listens.
Raise(c, code) ==
    /\ call' = [call EXCEPT ![c] = "failed"]
    /\ group' = [g \in Group |-> IF c \in Awaited(g) THEN "failed" ELSE group[g]]
    /\ phase' = "answered"
    /\ answer' = IF phase = "answered" THEN answer ELSE code
    /\ UNCHANGED <<refresh, listed, tries, cache, content>>

\* TimeoutError: no slot of the account within the waiting time.  It is not
\* among the errors that are retried.
NoSlot(c) == call[c] = "asking" /\ Raise(c, "LS_SURVEY_LOAD_TIMEOUT")

\* Redis fails to grant or to release a slot.
SlotFails(c) == call[c] \in {"asking", "http"} /\ Raise(c, "LS_ERROR")

HttpOk(c) ==
    /\ call[c] = "http"
    /\ call' = [call EXCEPT ![c] = "ok"]
    /\ IF c = "groups" THEN listed' \in {{}, Group} ELSE UNCHANGED listed
    /\ UNCHANGED <<phase, answer, refresh, group, tries, cache, content>>

\* MUTANT: the attempts are never used up.
BackOffForever(c) ==
    /\ call[c] = "http"
    /\ c \in Fetch
    /\ call' = [call EXCEPT ![c] = "backoff"]
    /\ tries' = [tries EXCEPT ![c] = 0]
    /\ UNCHANGED <<phase, answer, refresh, listed, group, cache, content>>

\* MUTANT: one attempt too many.
BackOffOnceMore(c) ==
    /\ call[c] = "http"
    /\ c \in Fetch /\ tries[c] <= MaxAttempts
    /\ call' = [call EXCEPT ![c] = "backoff"]
    /\ UNCHANGED <<phase, answer, refresh, listed, group, tries, cache, content>>

\* requests.Timeout or requests.ConnectionError in a fetch with attempts left.
BackOff(c) ==
    /\ call[c] = "http"
    /\ c \in Fetch /\ tries[c] < MaxAttempts
    /\ call' = [call EXCEPT ![c] = "backoff"]
    /\ UNCHANGED <<phase, answer, refresh, listed, group, tries, cache, content>>

Retry(c) ==
    /\ call[c] = "backoff"
    /\ call' = [call EXCEPT ![c] = "queued"]
    /\ UNCHANGED <<phase, answer, refresh, listed, group, tries, cache, content>>

\* Any other error of LimeSurvey or Citric, or the network error of a call
\* that has no attempt left; run_remote_call makes one attempt.
HttpFails(c) == call[c] = "http" /\ Raise(c, "LS_ERROR")

----------------------------------------------------------------------------
\* _load_group_questions, which runs on even when the request was answered.

GotQuestions(g) ==
    /\ group[g] = "questions"
    /\ call[g] = "ok"
    /\ group' = [group EXCEPT ![g] = IF QuestionsOf(g) = {} THEN "done" ELSE "properties"]
    /\ call' = [c \in Call |-> IF c \in QuestionsOf(g) THEN "queued" ELSE call[c]]
    /\ UNCHANGED <<phase, answer, refresh, listed, tries, cache, content>>

\* MUTANT: the group returns when one of its questions has its properties.
GotSomeProperties(g) ==
    /\ group[g] = "properties"
    /\ \E q \in QuestionsOf(g) : call[q] = "ok"
    /\ group' = [group EXCEPT ![g] = "done"]
    /\ UNCHANGED <<phase, answer, refresh, listed, call, tries, cache, content>>

GotProperties(g) ==
    /\ group[g] = "properties"
    /\ \A q \in QuestionsOf(g) : call[q] = "ok"
    /\ group' = [group EXCEPT ![g] = "done"]
    /\ UNCHANGED <<phase, answer, refresh, listed, call, tries, cache, content>>

----------------------------------------------------------------------------
\* The root coroutine.

GotSurvey ==
    /\ phase = "survey" /\ call["survey"] = "ok"
    /\ phase' = "parts"
    /\ call' = [call EXCEPT !["language"] = "asking", !["groups"] = "asking"]
    /\ UNCHANGED <<answer, refresh, listed, group, tries, cache, content>>

GotParts ==
    /\ phase = "parts"
    /\ call["language"] = "ok" /\ call["groups"] = "ok"
    /\ phase' = "cache"
    /\ UNCHANGED <<answer, refresh, listed, group, call, tries, cache, content>>

CacheHit ==
    /\ phase = "cache"
    /\ ~refresh /\ cache # "none"
    /\ content' = cache
    /\ phase' = "build"
    /\ UNCHANGED <<answer, refresh, listed, group, call, tries, cache>>

CacheMiss ==
    /\ phase = "cache"
    /\ refresh \/ cache = "none"
    /\ listed # {}
    /\ phase' = "gather"
    /\ group' = [g \in Group |-> IF g \in listed THEN "questions" ELSE "idle"]
    /\ call' = [c \in Call |-> IF c \in listed THEN "queued" ELSE call[c]]
    /\ UNCHANGED <<answer, refresh, listed, tries, cache, content>>

\* SurveyGroupsNotFoundError.
NotFound ==
    /\ phase = "cache"
    /\ refresh \/ cache = "none"
    /\ listed = {}
    /\ phase' = "answered" /\ answer' = "NOT_FOUND"
    /\ UNCHANGED <<refresh, listed, group, call, tries, cache, content>>

\* The gathered lists are joined.
Collect ==
    /\ phase = "gather"
    /\ \A g \in listed : group[g] = "done"
    /\ phase' = "store"
    /\ content' = IF \A q \in Question : GroupOf[q] \in listed => call[q] = "ok"
                    THEN "complete" ELSE "partial"
    /\ UNCHANGED <<answer, refresh, listed, group, call, tries, cache>>

Store ==
    /\ phase = "store"
    /\ cache' = content
    /\ phase' = "build"
    /\ UNCHANGED <<answer, refresh, listed, group, call, tries, content>>

\* build_survey_structure: a validated result, a SurveyStructureContractError, or
\* a SurveyStructureSourceError or other exception for the error mapper.
Build ==
    /\ phase = "build"
    /\ phase' = "answered"
    /\ answer' \in {"OK", "INVALID_SURVEY_STRUCTURE", "LS_ERROR"}
    /\ UNCHANGED <<refresh, listed, group, call, tries, cache, content>>

\* A write to Redis that is interrupted was applied or not.
StoreInterrupted == cache' \in {cache} \cup IF phase = "store" THEN {content} ELSE {}

\* Redis raises in get_json, get_text or set_json.
RedisFails ==
    /\ phase \in {"cache", "store"}
    /\ phase' = "answered" /\ answer' = "LS_ERROR"
    /\ StoreInterrupted
    /\ UNCHANGED <<refresh, listed, group, call, tries, content>>

\* MUTANT: the deadline cancels the coroutines, not the calls that back off.
CancelExceptBackoff(c) ==
    CASE call[c] \in {"queued", "asking"} -> "cancelled"
      [] call[c] = "http" -> "abandoned"
      [] OTHER -> call[c]

\* What the cancellation of its task makes of a call: one that has reached a
\* thread cannot be stopped.
Cancel(c) ==
    CASE call[c] \in {"queued", "asking", "backoff"} -> "cancelled"
      [] call[c] = "http" -> "abandoned"
      [] OTHER -> call[c]

\* wait_for's deadline: the whole tree is cancelled before the answer.
Deadline ==
    /\ phase # "answered"
    /\ phase' = "answered" /\ answer' = "LS_SURVEY_LOAD_TIMEOUT"
    /\ call' = [c \in Call |-> Cancel(c)]
    /\ group' = [g \in Group |->
                   IF group[g] \in {"questions", "properties"} THEN "cancelled" ELSE group[g]]
    /\ StoreInterrupted
    /\ UNCHANGED <<refresh, listed, tries, content>>

\* Other requests fill the cache with what they loaded; entries expire.
OtherRequest ==
    /\ cache' \in {"none", "complete"} \ {cache}
    /\ UNCHANGED <<phase, answer, refresh, listed, group, call, tries, content>>

----------------------------------------------------------------------------
CallStep(c) ==
    \/ Acquire(c) \/ BeginHttp(c) \/ NoSlot(c) \/ SlotFails(c)
    \/ HttpOk(c) \/ BackOff(c) \/ Retry(c) \/ HttpFails(c)

GroupStep(g) == GotQuestions(g) \/ GotProperties(g)

RootStep ==
    \/ GotSurvey \/ GotParts \/ CacheHit \/ CacheMiss \/ NotFound \/ Collect
    \/ Store \/ Build

Next ==
    \/ \E c \in Call : CallStep(c)
    \/ \E g \in Group : GroupStep(g)
    \/ RootStep \/ RedisFails \/ Deadline \/ OtherRequest

\* The event loop runs what is ready, threads end, and a call that waits for
\* a slot gets one or gives up.  The deadline is not assumed: without it too
\* the load must come to an end.
Fairness ==
    /\ \A c \in Call : WF_vars(CallStep(c))
    /\ \A g \in Group : WF_vars(GroupStep(g))
    /\ WF_vars(RootStep)

Spec == Init /\ [][Next]_vars /\ Fairness

----------------------------------------------------------------------------
\* Properties.

\* "A missing question is not a complete survey and must never enter the
\* completed-question cache", whatever failed, was retried or cancelled; and
\* no survey is answered from such a list.
OnlyCompleteSurveys ==
    cache # "partial" /\ (answer = "OK" => content = "complete")

\* The fetches of a request never exceed its own concurrency at LimeSurvey,
\* those included that run on after an error or a deadline answered it.
SemaphoreHolds == Cardinality({c \in Fetch : call[c] \in {"http", "abandoned"}}) <= Semaphore

\* Once the deadline has answered the request, none of its calls is handed to
\* a thread any more: the cancellation reaches the semaphore's queue, the
\* slot's queue and the pauses between attempts.  (A call that raised
\* TimeoutError gives the same answer, but leaves a failed call.)
TimedOutIsQuiet ==
    [][answer = "LS_SURVEY_LOAD_TIMEOUT" /\ (\A c \in Call : call[c] # "failed")
         => tries' = tries]_vars

\* The request is answered although its deadline never fires: groups and
\* questions that wait for each other's permits cannot block it.
LoadIsAnswered == <>(phase = "answered")

\* A request that failed leaves children behind, but they all come to an end.
ChildrenEnd ==
    <>[](\A c \in Call : call[c] \notin {"queued", "asking", "http", "backoff"})

\* README: 504 LS_SURVEY_LOAD_TIMEOUT means "Survey loading exceeded its time
\* limit."
TimeoutIsTheDeadline ==
    [][answer' = "LS_SURVEY_LOAD_TIMEOUT" => Deadline \/ answer' = answer]_vars
=============================================================================

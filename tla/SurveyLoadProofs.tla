-------------------------- MODULE SurveyLoadProofs --------------------------
(***************************************************************************)
(* Proofs about SurveyLoad, for every survey, every concurrency and every  *)
(* number of attempts.                                                     *)
(***************************************************************************)
EXTENDS SurveyLoad, FiniteSetTheorems, TLAPS

\* A call is started once: its coroutine finds it idle.
FreshInv ==
    /\ phase = "survey" => call["language"] = "idle" /\ call["groups"] = "idle"
    /\ phase \in {"survey", "parts", "cache"} => \A c \in Fetch : call[c] = "idle"
    /\ \A g \in Group : group[g] \in {"idle", "questions"} =>
           \A q \in QuestionsOf(g) : call[q] = "idle"

\* A call that may still be tried has an attempt left.
TryInv ==
    \A c \in Call : call[c] \in {"idle", "queued", "asking", "backoff"}
                      => tries[c] < MaxAttempts

\* A group is done only when each of its questions has its properties.
GroupInv ==
    \A g \in Group : group[g] = "done" => \A q \in QuestionsOf(g) : call[q] = "ok"

\* The list of questions is complete wherever the root or the cache holds one.
ListInv ==
    /\ cache # "partial"
    /\ content # "partial"
    /\ phase \in {"store", "build"} => content = "complete"
    /\ answer = "OK" => phase = "answered" /\ content = "complete"

IInv == TypeOK /\ FreshInv /\ TryInv /\ GroupInv /\ ListInv

----------------------------------------------------------------------------
\* What every step of a call has in common: it moves one call that has been
\* started and not returned, and an error may end the root and a group.
LEMMA CallStepShape ==
    ASSUME TypeOK, TryInv, NEW c \in Call, CallStep(c)
    PROVE  /\ call[c] \notin {"idle", "ok"}
           /\ \E v \in CallPhase \ {"idle"} : call' = [call EXCEPT ![c] = v]
           /\ group' \in [Group -> GroupPhase]
           /\ \A g \in Group : group'[g] \in {group[g], "failed"}
           /\ \/ phase' = phase /\ answer' = answer
              \/ /\ phase' = "answered"
                 /\ \/ answer' = answer
                    \/ phase # "answered" /\ answer' \in {"LS_SURVEY_LOAD_TIMEOUT", "LS_ERROR"}
           /\ listed' \in SUBSET Group
           /\ tries' \in [Call -> 0..MaxAttempts]
           /\ TryInv'
           /\ UNCHANGED <<refresh, cache, content>>
<1> USE LoadAssumption DEF TypeOK
<1>1. ASSUME NEW code \in {"LS_SURVEY_LOAD_TIMEOUT", "LS_ERROR"}, Raise(c, code),
             call[c] \in {"asking", "http"}
      PROVE  /\ call' = [call EXCEPT ![c] = "failed"]
             /\ group' \in [Group -> GroupPhase]
             /\ \A g \in Group : group'[g] \in {group[g], "failed"}
             /\ phase' = "answered"
             /\ \/ answer' = answer
                \/ phase # "answered" /\ answer' \in {"LS_SURVEY_LOAD_TIMEOUT", "LS_ERROR"}
             /\ TryInv'
             /\ UNCHANGED <<refresh, listed, tries, cache, content>>
  BY <1>1 DEF Raise, GroupPhase, TryInv, CallPhase
<1>2. CASE Acquire(c)
  BY <1>2 DEF Acquire, CallPhase, TryInv
<1>3. CASE BeginHttp(c)
  <2>1. tries[c] < MaxAttempts
    BY <1>3 DEF BeginHttp, TryInv
  <2>2. tries[c] + 1 \in 0..MaxAttempts
    BY <2>1
  <2>3. tries' \in [Call -> 0..MaxAttempts]
    BY <1>3, <2>2 DEF BeginHttp
  <2>4. TryInv'
    BY <1>3 DEF BeginHttp, TryInv
  <2> QED BY <1>3, <2>3, <2>4 DEF BeginHttp, CallPhase
<1>4. CASE NoSlot(c)
  BY <1>1, <1>4 DEF NoSlot, CallPhase
<1>5. CASE SlotFails(c)
  BY <1>1, <1>5 DEF SlotFails, CallPhase
<1>6. CASE HttpFails(c)
  BY <1>1, <1>6 DEF HttpFails, CallPhase
<1>7. CASE HttpOk(c)
  <2>1. TryInv'
    BY <1>7 DEF HttpOk, TryInv
  <2> QED BY <1>7, <2>1 DEF HttpOk, CallPhase
<1>8. CASE BackOff(c)
  <2>1. TryInv'
    BY <1>8 DEF BackOff, TryInv
  <2> QED BY <1>8, <2>1 DEF BackOff, CallPhase
<1>9. CASE Retry(c)
  <2>1. TryInv'
    BY <1>9 DEF Retry, TryInv
  <2> QED BY <1>9, <2>1 DEF Retry, CallPhase
<1> QED BY <1>2, <1>3, <1>4, <1>5, <1>6, <1>7, <1>8, <1>9 DEF CallStep

\* The groups partition the questions, and no question is a group.
LEMMA Disjoint ==
    /\ \A g, h \in Group : g # h => QuestionsOf(g) \cap QuestionsOf(h) = {}
    /\ \A g \in Group : QuestionsOf(g) \subseteq Call \ (Group \cup Part)
  BY LoadAssumption DEF QuestionsOf, Call, Fetch

LEMMA CallPreserves ==
    ASSUME IInv, NEW c \in Call, CallStep(c)
    PROVE  IInv'
<1> USE DEF IInv
<1> PICK v \in CallPhase \ {"idle"} : call' = [call EXCEPT ![c] = v]
  BY CallStepShape
<1>1. call[c] \notin {"idle", "ok"}
  BY CallStepShape
<1>2. TypeOK'
  BY CallStepShape DEF TypeOK, Phase, Answer
<1>3. FreshInv'
  <2>1. \A d \in Call : call[d] = "idle" => call'[d] = "idle"
    BY <1>1 DEF TypeOK
  <2>2. phase' \in {phase, "answered"} /\ \A g \in Group : group'[g] \in {group[g], "failed"}
    BY CallStepShape
  <2>3. \A g \in Group : group'[g] \in {"idle", "questions"} =>
            \A q \in QuestionsOf(g) : call'[q] = "idle"
    BY <2>1, <2>2, Disjoint DEF FreshInv
  <2>4. phase' \in {"survey", "parts", "cache"} => \A d \in Fetch : call'[d] = "idle"
    BY <2>1, <2>2 DEF FreshInv, Call
  <2>5. phase' = "survey" => call'["language"] = "idle" /\ call'["groups"] = "idle"
    BY <2>1, <2>2 DEF FreshInv, Call, Part
  <2> QED BY <2>3, <2>4, <2>5 DEF FreshInv
<1>4. TryInv'
  BY CallStepShape
<1>5. GroupInv'
  <2>1. \A d \in Call : call[d] = "ok" => call'[d] = "ok"
    BY <1>1 DEF TypeOK
  <2>2. \A g \in Group : group'[g] = "done" => group[g] = "done"
    BY CallStepShape
  <2>3. \A g \in Group : \A q \in QuestionsOf(g) : q \in Call
    BY Disjoint
  <2>4. ASSUME NEW g \in Group, group'[g] = "done", NEW q \in QuestionsOf(g)'
        PROVE  call'[q] = "ok"
    BY <2>1, <2>2, <2>3, <2>4 DEF GroupInv, QuestionsOf
  <2> QED BY <2>4 DEF GroupInv
<1>6. ListInv'
  BY CallStepShape DEF ListInv
<1> QED BY <1>2, <1>3, <1>4, <1>5, <1>6

LEMMA GroupPreserves ==
    ASSUME IInv, NEW g \in Group, GroupStep(g)
    PROVE  IInv'
<1> USE DEF IInv
<1>1. CASE GotQuestions(g)
  <2>1. TypeOK'
    BY <1>1 DEF GotQuestions, TypeOK, GroupPhase, CallPhase
  <2>2. \A q \in QuestionsOf(g) : q \in Call /\ call[q] = "idle"
    BY <1>1, Disjoint DEF GotQuestions, FreshInv
  <2>3. FreshInv'
    <3>1. phase \notin {"survey", "parts", "cache"}
      BY <1>1 DEF GotQuestions, FreshInv, Fetch
    <3>2. ASSUME NEW h \in Group, group'[h] \in {"idle", "questions"}, NEW q \in QuestionsOf(h)
          PROVE  call'[q] = "idle"
      <4>1. h # g /\ group[h] \in {"idle", "questions"}
        BY <1>1, <3>2 DEF GotQuestions, TypeOK
      <4>2. q \notin QuestionsOf(g) /\ q \in Call /\ call[q] = "idle"
        BY <3>2, <4>1, Disjoint DEF FreshInv
      <4> QED BY <1>1, <4>2 DEF GotQuestions
    <3> QED BY <1>1, <3>1, <3>2 DEF FreshInv, GotQuestions, QuestionsOf
  <2>4. TryInv'
    BY <1>1, <2>2 DEF GotQuestions, TryInv, TypeOK
  <2>5. GroupInv'
    <3>1. ASSUME NEW h \in Group, group'[h] = "done", NEW q \in QuestionsOf(h)
          PROVE  call'[q] = "ok"
      <4>1. CASE h = g
        BY <1>1, <3>1, <4>1 DEF GotQuestions, TypeOK
      <4>2. CASE h # g
        BY <1>1, <3>1, <4>2, Disjoint DEF GotQuestions, GroupInv, TypeOK
      <4> QED BY <4>1, <4>2
    <3> QED BY <3>1 DEF GroupInv, QuestionsOf
  <2>6. ListInv'
    BY <1>1 DEF GotQuestions, ListInv
  <2> QED BY <2>1, <2>3, <2>4, <2>5, <2>6
<1>2. CASE GotProperties(g)
  <2>1. TypeOK'
    BY <1>2 DEF GotProperties, TypeOK, GroupPhase
  <2>2. FreshInv'
    BY <1>2 DEF GotProperties, FreshInv, TypeOK, QuestionsOf
  <2>3. TryInv'
    BY <1>2 DEF GotProperties, TryInv
  <2>4. GroupInv'
    BY <1>2 DEF GotProperties, GroupInv, TypeOK, QuestionsOf
  <2>5. ListInv'
    BY <1>2 DEF GotProperties, ListInv
  <2> QED BY <2>1, <2>2, <2>3, <2>4, <2>5
<1> QED BY <1>1, <1>2 DEF GroupStep

\* The steps that start calls, and those of the root that do not.
LEMMA RootPreserves ==
    ASSUME IInv, RootStep
    PROVE  IInv'
<1> USE DEF IInv
<1>1. CASE GotSurvey
  <2>1. TypeOK'
    BY <1>1 DEF GotSurvey, TypeOK, Phase, CallPhase
  <2>2. {"language", "groups"} \subseteq Call \ Fetch
    BY LoadAssumption DEF Call, Part
  <2>3. call["language"] = "idle" /\ call["groups"] = "idle"
    BY <1>1 DEF GotSurvey, FreshInv
  <2>4. FreshInv'
    <3>1. \A c \in Fetch : call'[c] = "idle"
      BY <1>1, <2>2 DEF GotSurvey, FreshInv, TypeOK, Call
    <3> QED BY <1>1, <3>1 DEF GotSurvey, FreshInv, QuestionsOf, Fetch
  <2>5. TryInv'
    BY <1>1, <2>2, <2>3 DEF GotSurvey, TryInv, TypeOK
  <2>6. GroupInv'
    <3>1. \A q \in Question : call[q] = "idle"
      BY <1>1 DEF GotSurvey, FreshInv, Fetch
    <3>2. \A q \in Question : call'[q] = "idle"
      BY <1>1, <2>2, <3>1 DEF GotSurvey, TypeOK, Fetch, Call
    <3>3. \A g \in Group : \A q \in QuestionsOf(g) : group[g] # "done"
      BY <3>1 DEF GroupInv, QuestionsOf
    <3> QED BY <1>1, <3>3 DEF GotSurvey, GroupInv, QuestionsOf
  <2>7. ListInv'
    BY <1>1 DEF GotSurvey, ListInv
  <2> QED BY <2>1, <2>4, <2>5, <2>6, <2>7
<1>2. CASE CacheMiss
  <2>1. TypeOK'
    BY <1>2 DEF CacheMiss, TypeOK, Phase, CallPhase, GroupPhase
  <2>2. \A c \in Fetch : call[c] = "idle"
    BY <1>2 DEF CacheMiss, FreshInv
  <2>3. \A g \in Group : \A q \in QuestionsOf(g) : call'[q] = "idle"
    BY <1>2, <2>2, Disjoint DEF CacheMiss, TypeOK, Fetch, Call
  <2>4. FreshInv'
    BY <1>2, <2>3 DEF CacheMiss, FreshInv, QuestionsOf
  <2>5. TryInv'
    BY <1>2, <2>2 DEF CacheMiss, TryInv, TypeOK, Fetch
  <2>6. GroupInv'
    BY <1>2 DEF CacheMiss, GroupInv, TypeOK
  <2>7. ListInv'
    BY <1>2 DEF CacheMiss, ListInv
  <2> QED BY <2>1, <2>4, <2>5, <2>6, <2>7
<1>3. CASE Collect
  <2>1. \A q \in Question : GroupOf[q] \in listed => call[q] = "ok"
    BY <1>3, LoadAssumption DEF Collect, GroupInv, QuestionsOf, TypeOK
  <2>2. content' = "complete"
    BY <1>3, <2>1 DEF Collect
  <2>3. TypeOK' /\ FreshInv' /\ TryInv' /\ GroupInv'
    BY <1>3, <2>2 DEF Collect, TypeOK, FreshInv, TryInv, GroupInv, QuestionsOf, Phase, Content
  <2> QED BY <1>3, <2>2, <2>3 DEF Collect, ListInv
<1>4. CASE GotParts \/ CacheHit \/ NotFound \/ Store \/ Build
  <2>1. UNCHANGED <<refresh, listed, group, call, tries>>
    BY <1>4 DEF GotParts, CacheHit, NotFound, Store, Build
  <2>2. TryInv' /\ GroupInv'
    BY <2>1 DEF TryInv, GroupInv, QuestionsOf
  <2>3. TypeOK'
    BY <1>4 DEF GotParts, CacheHit, NotFound, Store, Build, TypeOK, Phase, Answer, Content
  <2>4. FreshInv'
    BY <1>4, <2>1 DEF GotParts, CacheHit, NotFound, Store, Build, FreshInv, QuestionsOf
  <2>5. ListInv'
    BY <1>4 DEF GotParts, CacheHit, NotFound, Store, Build, ListInv, TypeOK, Content
  <2> QED BY <2>2, <2>3, <2>4, <2>5
<1> QED BY <1>1, <1>2, <1>3, <1>4 DEF RootStep

LEMMA OtherPreserves ==
    ASSUME IInv, RedisFails \/ Deadline \/ OtherRequest
    PROVE  IInv'
<1> USE DEF IInv
<1>1. CASE RedisFails \/ OtherRequest
  <2>1. UNCHANGED <<refresh, listed, group, call, tries>> /\ phase' \in {phase, "answered"}
    BY <1>1 DEF RedisFails, OtherRequest
  <2>2. TypeOK'
    BY <1>1 DEF RedisFails, OtherRequest, StoreInterrupted, TypeOK, Phase, Answer, Content
  <2>3. FreshInv' /\ TryInv' /\ GroupInv'
    BY <2>1 DEF FreshInv, TryInv, GroupInv, QuestionsOf
  <2>4. ListInv'
    BY <1>1 DEF RedisFails, OtherRequest, StoreInterrupted, ListInv
  <2> QED BY <2>2, <2>3, <2>4
<1>2. CASE Deadline
  <2>1. \A c \in Call : /\ call'[c] \in CallPhase
                        /\ call[c] \in {"idle", "ok"} => call'[c] = call[c]
                        /\ call'[c] \in {"idle", "queued", "asking", "backoff"} => call'[c] = call[c]
    BY <1>2 DEF Deadline, Cancel, TypeOK, CallPhase
  <2>2. \A g \in Group : /\ group'[g] \in GroupPhase
                         /\ group'[g] \in {"idle", "questions", "done"} => group'[g] = group[g]
    BY <1>2 DEF Deadline, TypeOK, GroupPhase
  <2>3. TypeOK'
    BY <1>2, <2>1, <2>2 DEF Deadline, StoreInterrupted, TypeOK, Phase, Answer, Content
  <2>4. FreshInv'
    BY <1>2, <2>1, <2>2, Disjoint DEF Deadline, FreshInv, QuestionsOf
  <2>5. TryInv'
    BY <1>2, <2>1 DEF Deadline, TryInv
  <2>6. GroupInv'
    BY <1>2, <2>1, <2>2, Disjoint DEF Deadline, GroupInv, QuestionsOf
  <2>7. ListInv'
    BY <1>2 DEF Deadline, StoreInterrupted, ListInv
  <2> QED BY <2>3, <2>4, <2>5, <2>6, <2>7
<1> QED BY <1>1, <1>2

----------------------------------------------------------------------------
\* The invariant is inductive.
THEOREM Invariance == Spec => []IInv
<1>1. Init => IInv
  <2> SUFFICES ASSUME Init PROVE IInv
    OBVIOUS
  <2> USE LoadAssumption DEF Init
  <2>1. TypeOK
    BY DEF TypeOK, Phase, Answer, GroupPhase, CallPhase, Content
  <2>2. \A c \in Fetch : c # "survey"
    BY DEF Part
  <2>3. FreshInv
    BY <2>2 DEF FreshInv, Fetch, Call, Part, QuestionsOf
  <2>4. TryInv /\ GroupInv /\ ListInv
    BY DEF TryInv, GroupInv, ListInv
  <2> QED BY <2>1, <2>3, <2>4 DEF IInv
<1>2. IInv /\ [Next]_vars => IInv'
  <2> SUFFICES ASSUME IInv, [Next]_vars PROVE IInv'
    OBVIOUS
  <2>1. CASE UNCHANGED vars
    BY <2>1 DEF vars, IInv, TypeOK, FreshInv, TryInv, GroupInv, ListInv, QuestionsOf
  <2> QED BY <2>1, CallPreserves, GroupPreserves, RootPreserves, OtherPreserves DEF Next
<1> QED BY <1>1, <1>2, PTL DEF Spec

\* The variables keep their types; no call is tried more often than allowed.
THEOREM TypeCorrect == Spec => []TypeOK
  BY Invariance, PTL DEF IInv

\* Whatever fails, is retried or is cancelled, no incomplete list of questions
\* reaches the cache or an answered survey.
THEOREM OnlyCompleteSafety == Spec => []OnlyCompleteSurveys
<1>1. IInv => OnlyCompleteSurveys
  BY DEF IInv, ListInv, OnlyCompleteSurveys
<1> QED BY <1>1, Invariance, PTL

----------------------------------------------------------------------------
\* The deadline, and the fetches that outlive it.

\* Nothing of the request runs any more but the threads nobody waits for.
Quiet ==
    /\ phase = "answered"
    /\ \A c \in Call : call[c] \notin {"queued", "asking", "http", "backoff"}
    /\ \A g \in Group : group[g] \notin {"questions", "properties"}

\* A thread is abandoned only by the deadline, which leaves the request quiet.
\* A call that got no slot gives the deadline's answer too, and stays failed.
QuietInv ==
    /\ (\E c \in Call : call[c] = "abandoned") => Quiet
    /\ answer = "LS_SURVEY_LOAD_TIMEOUT" =>
          phase = "answered" /\ (Quiet \/ \E c \in Call : call[c] = "failed")

\* The fetches that hold a permit, and the abandoned threads of those that held
\* one when the deadline came.
Occupied == {c \in Fetch : call[c] \in {"asking", "http", "abandoned"}}
PermitInv == IsFiniteSet(Occupied) /\ Cardinality(Occupied) <= Semaphore

\* When it is quiet only the cache changes.
LEMMA QuietStays ==
  ASSUME TypeOK, Quiet, [Next]_vars
  PROVE  UNCHANGED <<phase, answer, group, call, tries>>
<1>1. ASSUME NEW c \in Call PROVE ~CallStep(c)
  <2>1. call[c] \notin {"queued", "asking", "http", "backoff"} BY DEF Quiet
  <2> QED BY <2>1 DEF CallStep, Acquire, BeginHttp, NoSlot, SlotFails, HttpOk, BackOff,
                      Retry, HttpFails
<1>2. ASSUME NEW g \in Group PROVE ~GroupStep(g)
  BY DEF Quiet, GroupStep, GotQuestions, GotProperties
<1>3. ~(RootStep \/ RedisFails \/ Deadline)
  BY DEF Quiet, RootStep, GotSurvey, GotParts, CacheHit, CacheMiss, NotFound, Collect,
         Store, Build, RedisFails, Deadline
<1>4. OtherRequest \/ UNCHANGED vars BY <1>1, <1>2, <1>3 DEF Next
<1> QED BY <1>4 DEF OtherRequest, vars

\* Until then, a step other than the deadline abandons no thread and undoes no
\* failure, gives TimeoutError's answer only with a failed call, and gives a
\* permit only to a fetch that Acquire names.
LEMMA BusyStep ==
  ASSUME IInv, [Next]_vars, ~Quiet, QuietInv, ~Deadline
  PROVE  /\ \A c \in Call : call'[c] # "abandoned"
         /\ \A c \in Call : call[c] = "failed" => call'[c] = "failed"
         /\ answer' = "LS_SURVEY_LOAD_TIMEOUT" =>
               phase' = "answered" /\ \E c \in Call : call'[c] = "failed"
         /\ \A c \in Fetch : call'[c] \in {"asking", "http"} =>
               call[c] \in {"asking", "http"} \/ Acquire(c)
<1> USE LoadAssumption DEF IInv, TypeOK
<1>1. \A c \in Call : call[c] # "abandoned" BY DEF QuietInv
<1>2. answer = "LS_SURVEY_LOAD_TIMEOUT" =>
        phase = "answered" /\ \E c \in Call : call[c] = "failed"
  BY DEF QuietInv
<1>3. ASSUME NEW d \in Call, CallStep(d)
      PROVE  /\ \A c \in Call \ {d} : call'[c] = call[c]
             /\ call'[d] # "abandoned" /\ call[d] # "failed"
             /\ \/ phase' = phase /\ answer' = answer
                \/ phase' = "answered" /\ call'[d] = "failed"
             /\ d \in Fetch /\ call'[d] \in {"asking", "http"} =>
                  call[d] = "asking" \/ Acquire(d)
  BY <1>3 DEF CallStep, Acquire, BeginHttp, NoSlot, SlotFails, HttpOk, BackOff, Retry,
              HttpFails, Raise
<1>4. ASSUME NEW g \in Group, GroupStep(g)
      PROVE  /\ UNCHANGED <<phase, answer>>
             /\ \A c \in Call : \/ call'[c] = call[c]
                                \/ call[c] = "idle" /\ call'[c] = "queued"
  <2>1. CASE GotQuestions(g)
    <3>1. \A c \in QuestionsOf(g) : call[c] = "idle"
      BY <2>1 DEF GotQuestions, FreshInv
    <3> QED BY <2>1, <3>1 DEF GotQuestions
  <2>2. CASE GotProperties(g) BY <2>2 DEF GotProperties
  <2> QED BY <1>4, <2>1, <2>2 DEF GroupStep
<1>5. ASSUME RootStep
      PROVE  /\ answer' # "LS_SURVEY_LOAD_TIMEOUT"
             /\ \A c \in Call :
                   \/ call'[c] = call[c]
                   \/ call[c] = "idle" /\ call'[c] = "queued"
                   \/ c \in Part /\ call[c] = "idle" /\ call'[c] = "asking"
  <2>1. answer # "LS_SURVEY_LOAD_TIMEOUT"
    <3>1. phase # "answered"
      BY <1>5 DEF RootStep, GotSurvey, GotParts, CacheHit, CacheMiss, NotFound, Collect,
                  Store, Build
    <3> QED BY <1>2, <3>1
  <2>2. CASE GotSurvey BY <2>1, <2>2 DEF GotSurvey, FreshInv, Part
  <2>3. CASE CacheMiss
    <3>1. \A c \in listed : call[c] = "idle" BY <2>3 DEF CacheMiss, FreshInv, Fetch
    <3> QED BY <2>1, <2>3, <3>1 DEF CacheMiss
  <2>4. CASE GotParts \/ CacheHit \/ NotFound \/ Collect \/ Store \/ Build
    <3>1. UNCHANGED call BY <2>4 DEF GotParts, CacheHit, NotFound, Collect, Store, Build
    <3>2. answer' # "LS_SURVEY_LOAD_TIMEOUT"
      BY <2>1, <2>4 DEF GotParts, CacheHit, NotFound, Collect, Store, Build
    <3> QED BY <3>1, <3>2
  <2> QED BY <1>5, <2>2, <2>3, <2>4 DEF RootStep
<1>6. ASSUME RedisFails \/ OtherRequest \/ UNCHANGED vars
      PROVE  /\ UNCHANGED call
             /\ UNCHANGED <<phase, answer>> \/ answer' # "LS_SURVEY_LOAD_TIMEOUT"
  BY <1>6 DEF RedisFails, OtherRequest, vars
<1> QED BY <1>1, <1>2, <1>3, <1>4, <1>5, <1>6 DEF Next, Call

LEMMA DeadlineQuiets == ASSUME TypeOK, Deadline PROVE Quiet'
  BY DEF TypeOK, Deadline, Cancel, Quiet, CallPhase, GroupPhase

\* Both are inductive.
THEOREM QuietInvariance == Spec => [](QuietInv /\ PermitInv)
<1>1. Init => QuietInv /\ PermitInv
  <2> SUFFICES ASSUME Init PROVE QuietInv /\ PermitInv OBVIOUS
  <2>1. QuietInv BY DEF Init, QuietInv
  <2>2. Occupied = {} BY LoadAssumption DEF Init, Occupied, Call, Part
  <2> QED BY <2>1, <2>2, FS_EmptySet, LoadAssumption DEF PermitInv
<1>2. IInv /\ QuietInv /\ PermitInv /\ [Next]_vars => QuietInv' /\ PermitInv'
  <2> SUFFICES ASSUME IInv, QuietInv, PermitInv, [Next]_vars
               PROVE  QuietInv' /\ PermitInv'
    OBVIOUS
  <2>1. QuietInv'
    <3>1. CASE Quiet BY <3>1, QuietStays DEF IInv, QuietInv, Quiet
    <3>2. CASE ~Quiet /\ ~Deadline BY <3>2, BusyStep DEF QuietInv
    <3>3. CASE Deadline
      <4>1. Quiet' BY <3>3, DeadlineQuiets DEF IInv
      <4> QED BY <4>1 DEF QuietInv, Quiet
    <3> QED BY <3>1, <3>2, <3>3
  <2>2. ASSUME Occupied' \subseteq Occupied PROVE PermitInv'
    <3>1. IsFiniteSet(Occupied') /\ Cardinality(Occupied') <= Cardinality(Occupied)
      BY <2>2, FS_Subset DEF PermitInv
    <3>2. Cardinality(Occupied) \in Nat /\ Cardinality(Occupied') \in Nat
      BY <3>1, FS_CardinalityType DEF PermitInv
    <3> QED BY <3>1, <3>2, LoadAssumption DEF PermitInv
  <2>3. CASE Quiet
    <3>1. call' = call BY <2>3, QuietStays DEF IInv
    <3> QED BY <2>1, <2>2, <3>1 DEF Occupied
  <2>4. CASE Deadline
    <3>1. \A c \in Fetch : call'[c] = Cancel(c) BY <2>4 DEF Deadline, Call
    <3>2. \A c \in Fetch : Cancel(c) = "abandoned" => call[c] \in {"http", "abandoned"}
      BY DEF Cancel
    <3>3. \A c \in Fetch : Cancel(c) \notin {"asking", "http"}
      BY DEF Cancel
    <3>4. Occupied' \subseteq Occupied BY <3>1, <3>2, <3>3 DEF Occupied
    <3> QED BY <2>1, <2>2, <3>4
  <2>5. CASE ~Quiet /\ ~Deadline /\ \A c \in Fetch : ~Acquire(c)
    <3>1. Occupied' \subseteq Occupied BY <2>5, BusyStep DEF Occupied, Call
    <3> QED BY <2>1, <2>2, <3>1
  <2>6. ASSUME ~Quiet, NEW c \in Fetch, Acquire(c) PROVE PermitInv'
    <3>1. Occupied = Holding BY <2>6 DEF QuietInv, Occupied, Holding, Call
    <3>2. Cardinality(Occupied) < Semaphore BY <2>6, <3>1 DEF Acquire, PermitFree
    <3>3. Occupied' = Occupied \cup {c} /\ c \notin Occupied
      BY <2>6 DEF Acquire, Occupied, IInv, TypeOK, Call
    <3>4. Cardinality(Occupied') = Cardinality(Occupied) + 1 /\ IsFiniteSet(Occupied')
      BY <3>3, FS_AddElement DEF PermitInv
    <3>5. Cardinality(Occupied) \in Nat BY FS_CardinalityType DEF PermitInv
    <3> QED BY <3>2, <3>4, <3>5, LoadAssumption DEF PermitInv
  <2> QED BY <2>1, <2>3, <2>4, <2>5, <2>6
<1> QED BY Invariance, <1>1, <1>2, PTL DEF Spec

\* The fetches of a request, those included that nobody waits for any more, never
\* exceed its own concurrency at LimeSurvey.
THEOREM SemaphoreSafety == Spec => []SemaphoreHolds
<1>1. PermitInv => SemaphoreHolds
  <2> SUFFICES ASSUME PermitInv PROVE SemaphoreHolds OBVIOUS
  <2> DEFINE Busy == {c \in Fetch : call[c] \in {"http", "abandoned"}}
  <2>1. Busy \subseteq Occupied BY DEF Occupied
  <2>2. IsFiniteSet(Busy) /\ Cardinality(Busy) <= Cardinality(Occupied)
    BY <2>1, FS_Subset DEF PermitInv
  <2>3. Cardinality(Busy) \in Nat /\ Cardinality(Occupied) \in Nat
    BY <2>2, FS_CardinalityType DEF PermitInv
  <2>4. Cardinality(Busy) <= Semaphore BY <2>2, <2>3, LoadAssumption DEF PermitInv
  <2> QED BY <2>4 DEF SemaphoreHolds
<1> QED BY QuietInvariance, <1>1, PTL

\* After the deadline no call of the request is handed to a thread.
THEOREM TimedOutSafety == Spec => TimedOutIsQuiet
<1>1. IInv /\ QuietInv /\ [Next]_vars =>
        (answer = "LS_SURVEY_LOAD_TIMEOUT" /\ (\A c \in Call : call[c] # "failed")
           => tries' = tries)
  BY QuietStays DEF IInv, QuietInv
<1> QED BY Invariance, QuietInvariance, <1>1, PTL DEF Spec, TimedOutIsQuiet
=============================================================================

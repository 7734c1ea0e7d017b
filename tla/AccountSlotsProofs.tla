------------------------- MODULE AccountSlotsProofs -------------------------
(***************************************************************************)
(* The account limit, proved for any number of calls, any limit and any    *)
(* lease, for exchanges of any length.  Only the refinement of CallLimit   *)
(* assumes that no exchange outlasts its lease.                            *)
(***************************************************************************)
EXTENDS AccountSlots, FiniteSetTheorems, TLAPS

\* A thread exists only inside the body, or was left behind by a fetch whose
\* caller is gone; a member whose task is between the grant and the end of HTTP
\* is scored Lease after the grant, unless it was purged when its lease ended.
SlotInv(c) ==
    /\ thread[c] \in {"queued", "running"} =>
          task[c] = "holding" \/ c \in LeftBehind
    /\ c \in Shielded /\ task[c] \in {"releasing", "done"} => thread[c] = "done"
    /\ task[c] \in {"asking", "granted", "waiting"} => thread[c] = "none"
    /\ task[c] = "holding" => thread[c] # "none"
    /\ task[c] = "granted" \/ (task[c] = "holding" /\ thread[c] \in {"queued", "running"}) =>
          /\ since[c] <= now
          /\ now <= since[c] + MaxHold
          /\ slots[c] = since[c] + Lease \/ c \in Overdue
    /\ caller[c] = "gone" => task[c] \notin {"asking", "granted", "waiting"}

IInv == /\ TypeOK
        /\ Cardinality(Live) <= Limit
        /\ \A c \in Call : SlotInv(c)

\* Dropping members never lets the limit be exceeded.
LEMMA SubsetWithinLimit ==
  ASSUME NEW S \in SUBSET Call, NEW T \in SUBSET S, Cardinality(S) <= Limit
  PROVE  Cardinality(T) <= Limit
<1>1. IsFiniteSet(S) /\ IsFiniteSet(T) BY FS_Subset, SlotAssumption
<1>2. Cardinality(T) <= Cardinality(S) BY <1>1, FS_Subset
<1>3. Cardinality(S) \in Nat /\ Cardinality(T) \in Nat BY <1>1, FS_CardinalityType
<1> QED BY <1>2, <1>3, SlotAssumption

LEMMA InitIInv == Init => IInv
<1> SUFFICES ASSUME Init PROVE IInv OBVIOUS
<1>1. TypeOK BY SlotAssumption DEF Init, TypeOK, TaskPhase, ThreadPhase, CallerPhase
<1>2. Live = {} BY DEF Init, Live
<1>3. Cardinality(Live) <= Limit BY <1>2, FS_EmptySet, SlotAssumption
<1>4. \A c \in Call : SlotInv(c) BY DEF Init, SlotInv
<1> QED BY <1>1, <1>3, <1>4 DEF IInv

\* Only a grant adds a live member, and only when there is room.
LEMMA LivePreserved ==
  ASSUME IInv, [Next]_vars
  PROVE  Cardinality(Live') <= Limit
<1> USE DEF IInv, TypeOK
<1>1. ASSUME Live' \subseteq Live PROVE Cardinality(Live') <= Limit
  BY <1>1, SubsetWithinLimit DEF Live
<1>2. ASSUME NEW c \in Call, Grant(c) PROVE Cardinality(Live') <= Limit
  <2>1. Live' \subseteq Live \cup {c} BY <1>2, SlotAssumption DEF Grant, Live
  <2>2. IsFiniteSet(Live) BY FS_Subset, SlotAssumption DEF Live
  <2>3. Cardinality(Live) \in Nat BY <2>2, FS_CardinalityType
  <2>4. Cardinality(Live) < Limit BY <1>2 DEF Grant, HasRoom
  <2>5. Cardinality(Live \cup {c}) \in {Cardinality(Live), Cardinality(Live) + 1}
    BY <2>2, FS_AddElement
  <2>6. Cardinality(Live \cup {c}) <= Limit
    BY <2>3, <2>4, <2>5, SlotAssumption
  <2>7. Live \cup {c} \in SUBSET Call BY DEF Live
  <2> QED BY <2>1, <2>6, <2>7, SubsetWithinLimit
<1>3. ASSUME NEW c \in Call, Refuse(c) PROVE Live' \subseteq Live
  BY <1>3 DEF Refuse, Live
<1>4. ASSUME NEW c \in Call, Release(c) PROVE Live' \subseteq Live
  BY <1>4 DEF Release, Live
<1>5. ASSUME NEW c \in Call, AbandonFetch(c) PROVE Live' \subseteq Live
  BY <1>5 DEF AbandonFetch, CancelQueued, Live
<1>6. ASSUME Tick PROVE Live' \subseteq Live BY <1>6 DEF Tick, Live
<1>7. ASSUME UNCHANGED <<now, slots>> PROVE Live' \subseteq Live BY <1>7 DEF Live
<1>8. ASSUME NEW c \in Call,
             \/ GiveUp(c) \/ Enter(c) \/ Leave(c) \/ StartHttp(c) \/ FinishHttp(c)
             \/ AskFails(c) \/ ReleaseFails(c) \/ AbandonShielded(c) \/ ProcessDies(c)
      PROVE  UNCHANGED <<now, slots>>
  BY <1>8 DEF GiveUp, Enter, Leave, StartHttp, FinishHttp, AskFails, ReleaseFails,
              AbandonShielded, CancelQueued, ProcessDies
<1> QED BY <1>1, <1>2, <1>3, <1>4, <1>5, <1>6, <1>7, <1>8 DEF Next, Progress, vars

LEMMA StepPreserves ==
  ASSUME IInv, [Next]_vars
  PROVE  TypeOK' /\ \A c \in Call : SlotInv(c)'
<1> USE SlotAssumption DEF IInv, TypeOK, TaskPhase, ThreadPhase, CallerPhase, SlotInv,
                           LeftBehind, Overdue, Running
<1>1. ASSUME NEW c \in Call, Progress(c) PROVE TypeOK' /\ \A d \in Call : SlotInv(d)'
  <2>1. CASE Grant(c) BY <2>1 DEF Grant, Live
  <2>2. CASE Refuse(c) BY <2>2 DEF Refuse, Live
  <2>3. CASE GiveUp(c) BY <2>3 DEF GiveUp
  <2>4. CASE Enter(c) BY <2>4 DEF Enter
  <2>5. CASE Leave(c) BY <2>5 DEF Leave
  <2>6. CASE Release(c) BY <2>6 DEF Release
  <2> QED BY <1>1, <2>1, <2>2, <2>3, <2>4, <2>5, <2>6 DEF Progress
<1>2. ASSUME NEW c \in Call, StartHttp(c) \/ FinishHttp(c) \/ AskFails(c) \/ ReleaseFails(c)
      PROVE  TypeOK' /\ \A d \in Call : SlotInv(d)'
  BY <1>2 DEF StartHttp, FinishHttp, AskFails, ReleaseFails
<1>3. ASSUME NEW c \in Call, AbandonShielded(c)
      PROVE  TypeOK' /\ \A d \in Call : SlotInv(d)'
  BY <1>3 DEF AbandonShielded, CancelQueued
<1>4. ASSUME NEW c \in Call, AbandonFetch(c)
      PROVE  TypeOK' /\ \A d \in Call : SlotInv(d)'
  BY <1>4 DEF AbandonFetch, CancelQueued
<1>5. ASSUME NEW c \in Call, ProcessDies(c)
      PROVE  TypeOK' /\ \A d \in Call : SlotInv(d)'
  BY <1>5 DEF ProcessDies
<1>6. CASE Tick BY <1>6 DEF Tick
<1>7. CASE UNCHANGED vars BY <1>7 DEF vars
<1> QED BY <1>1, <1>2, <1>3, <1>4, <1>5, <1>6, <1>7 DEF Next

\* The inductive invariant holds in every reachable state.
THEOREM Invariance == Spec => []IInv
<1>1. IInv /\ [Next]_vars => IInv'
  <2> SUFFICES ASSUME IInv, [Next]_vars PROVE IInv' OBVIOUS
  <2>1. Cardinality(Live') <= Limit BY LivePreserved
  <2>2. TypeOK' /\ \A c \in Call : SlotInv(c)' BY StepPreserves
  <2> QED BY <2>1, <2>2 DEF IInv
<1> QED BY InitIInv, <1>1, PTL DEF Spec

\* Every variable keeps its type.
THEOREM TypeCorrect == Spec => []TypeOK
<1>1. IInv => TypeOK BY DEF IInv
<1> QED BY Invariance, <1>1, PTL

\* Whichever path the calls take, and whatever is cancelled or dies, the script
\* never leaves more than Limit leases that have not ended.
THEOREM LeaseLimit == Spec => []LeasesWithinLimit
<1>1. IInv => LeasesWithinLimit BY DEF IInv, LeasesWithinLimit
<1> QED BY Invariance, <1>1, PTL

\* A request withdrawn while it was queued never calls LimeSurvey, on
\* either path.
THEOREM NoCallAfterWithdrawal == Spec => CancelledInQueueNeverCalls
<1> DEFINE Quiet(c) == caller[c] = "gone" /\ thread[c] = "none" => thread'[c] = "none"
<1>1. IInv /\ [Next]_vars => \A c \in Call : Quiet(c)
  <2> SUFFICES ASSUME IInv, [Next]_vars, NEW c \in Call PROVE Quiet(c) OBVIOUS
  <2> USE DEF IInv, TypeOK, SlotInv
  <2>1. ASSUME NEW d \in Call, Progress(d) PROVE Quiet(c)
    BY <2>1 DEF Progress, Grant, Refuse, GiveUp, Enter, Leave, Release
  <2>2. ASSUME NEW d \in Call,
               \/ StartHttp(d) \/ FinishHttp(d) \/ AskFails(d)
               \/ ReleaseFails(d) \/ ProcessDies(d)
        PROVE  Quiet(c)
    BY <2>2 DEF StartHttp, FinishHttp, AskFails, ReleaseFails, ProcessDies
  <2>3. ASSUME NEW d \in Call, AbandonShielded(d) \/ AbandonFetch(d) PROVE Quiet(c)
    BY <2>3 DEF AbandonShielded, AbandonFetch, CancelQueued
  <2>4. CASE Tick \/ UNCHANGED vars BY <2>4 DEF Tick, vars
  <2> QED BY <2>1, <2>2, <2>3, <2>4 DEF Next
<1>2. IInv /\ [Next]_vars => [\A c \in Call : Quiet(c)]_vars BY <1>1
<1> QED BY Invariance, <1>2, PTL DEF Spec, CancelledInQueueNeverCalls

----------------------------------------------------------------------------
\* The HTTP exchanges themselves.

\* An exchange keeps its slot until its lease ends, unless its fetch left it.
LEMMA Covered ==
  ASSUME IInv, NEW c \in Call, thread[c] \in {"queued", "running"}
  PROVE  c \in Live \cup Overdue \cup LeftBehind
<1>1. CASE c \in LeftBehind BY <1>1
<1>2. CASE c \notin LeftBehind
  <2>1. task[c] = "holding" BY <1>2 DEF IInv, SlotInv
  <2>2. slots[c] = since[c] + Lease \/ c \in Overdue BY <2>1 DEF IInv, SlotInv
  <2> QED BY <2>2, SlotAssumption DEF IInv, TypeOK, Live, Overdue
<1> QED BY <1>1, <1>2

\* A shielded call keeps its slot until its HTTP exchange or its lease is over,
\* whatever happens to the caller.
THEOREM SlotUntilHttpEnds == Spec => []SlotCoversHttp
<1>1. IInv => SlotCoversHttp
  BY Covered, SlotAssumption DEF SlotCoversHttp, Running, LeftBehind
<1> QED BY Invariance, <1>1, PTL

\* More than Limit exchanges take one that outlasted its lease or one that a
\* cancelled fetch left behind: nothing else ever exceeds the limit.
THEOREM ExchangeLimit == Spec => []ExchangesWithinLimit
<1>1. IInv => ExchangesWithinLimit
  <2> SUFFICES ASSUME IInv PROVE ExchangesWithinLimit OBVIOUS
  <2>1. Running \ (LeftBehind \cup Overdue) \subseteq Live BY Covered DEF Running
  <2>2. Live \in SUBSET Call BY DEF Live
  <2>3. Cardinality(Live) <= Limit BY DEF IInv
  <2> QED BY <2>1, <2>2, <2>3, SubsetWithinLimit DEF ExchangesWithinLimit
<1> QED BY Invariance, <1>1, PTL

----------------------------------------------------------------------------
\* Calls made by run_remote_call.

LEMMA ShieldedCovered ==
  ASSUME IInv, NEW c \in Shielded, thread[c] \in {"queued", "running"}, c \notin Overdue
  PROVE  c \in Live
<1>1. c \in Call /\ c \notin LeftBehind BY SlotAssumption DEF LeftBehind
<1> QED BY <1>1, Covered

\* Time passes: calls whose leases end are late from then on.
LEMMA TickEndsLeases ==
  ASSUME IInv, Tick
  PROVE  Limiter!LeasesEnd
<1> USE SlotAssumption DEF IInv, TypeOK, ThreadPhase, CallStatus, Overdue, Tick
<1> DEFINE ended == {c \in Limiter!Active : now + 1 >= since[c] + Lease}
<1>1. ended \in SUBSET Limiter!Active OBVIOUS
<1>2. \A c \in Shielded : c \in Limiter!Active <=> thread[c] = "running" /\ ~(now >= since[c] + Lease)
  BY DEF Limiter!Active
<1>3. \A c \in Shielded : CallStatus'[c] = IF c \in ended THEN "late" ELSE CallStatus[c]
  <2> SUFFICES ASSUME NEW c \in Shielded
               PROVE  CallStatus'[c] = IF c \in ended THEN "late" ELSE CallStatus[c]
    OBVIOUS
  <2>1. now \in Nat /\ since[c] \in Nat /\ Lease \in Nat OBVIOUS
  <2>2. CASE c \in ended BY <2>1, <2>2, <1>2
  <2>3. CASE c \notin ended BY <2>1, <2>3, <1>2
  <2> QED BY <2>2, <2>3
<1>4. CallStatus' = [c \in Shielded |-> IF c \in ended THEN "late" ELSE CallStatus[c]]
  BY <1>3
<1> QED BY <1>1, <1>4 DEF Limiter!LeasesEnd

\* For shielded calls the slots refine CallLimit: a thread that starts is a Start with room left,
\* or a StartLate, one that ends a Finish, a task that ends before its thread exists or starts
\* a Withdraw, the clock ends leases; every other step is a stutter.
LEMMA StepRefines ==
  ASSUME IInv, [Next]_vars
  PROVE  [Limiter!Next]_CallStatus
<1> USE SlotAssumption DEF IInv, TypeOK, SlotInv, CallStatus, TaskPhase, ThreadPhase, Overdue
<1>1. ASSUME NEW c \in Shielded, StartHttp(c) PROVE Limiter!Start(c) \/ Limiter!StartLate(c)
  <2>1. CallStatus[c] = "waiting" BY <1>1 DEF StartHttp
  <2>2. CASE c \in Overdue
    <3>1. CallStatus' = [CallStatus EXCEPT ![c] = "late"] BY <1>1, <2>2 DEF StartHttp
    <3> QED BY <2>1, <3>1 DEF Limiter!StartLate
  <2>3. CASE c \notin Overdue
    <3>1. CallStatus' = [CallStatus EXCEPT ![c] = "active"] BY <1>1, <2>3 DEF StartHttp
    <3> DEFINE Busy == (Running \cap Shielded) \ Overdue
    <3>2. Limiter!Active = Busy BY DEF Limiter!Active, Running
    <3>3. Cardinality(Busy) < Limit
      <4>1. Busy \cup {c} \subseteq Live
        <5>1. c \in Live BY <1>1, <2>3, ShieldedCovered DEF StartHttp
        <5>2. \A d \in Busy : d \in Live BY ShieldedCovered DEF Running
        <5> QED BY <5>1, <5>2
      <4>2. c \notin Busy BY <1>1 DEF StartHttp, Running
      <4>3. Live \in SUBSET Call BY DEF Live
      <4>4. Cardinality(Busy \cup {c}) <= Limit
        BY <4>1, <4>3, SubsetWithinLimit
      <4>5. IsFiniteSet(Busy) BY FS_Subset, SlotAssumption DEF Running
      <4>6. Cardinality(Busy) \in Nat BY <4>5, FS_CardinalityType
      <4>7. Cardinality(Busy \cup {c}) = Cardinality(Busy) + 1
        BY <4>2, <4>5, FS_AddElement
      <4> QED BY <4>4, <4>6, <4>7, SlotAssumption
    <3>4. \A S : Limiter!Cardinality(S) = Cardinality(S)
      BY DEF Limiter!Cardinality, Cardinality
    <3> QED BY <2>1, <3>1, <3>2, <3>3, <3>4 DEF Limiter!Start
  <2> QED BY <2>2, <2>3
<1>2. ASSUME NEW c \in Shielded, FinishHttp(c) PROVE Limiter!Finish(c)
  BY <1>2 DEF FinishHttp, Limiter!Finish
<1>3. ASSUME NEW c \in Shielded, GiveUp(c) \/ AskFails(c) PROVE Limiter!Withdraw(c)
  <2>1. /\ thread' = thread /\ thread[c] = "none"
        /\ since' = since /\ now' = now
    BY <1>3 DEF GiveUp, AskFails
  <2>2. task' = [task EXCEPT ![c] = "failed"] BY <1>3 DEF GiveUp, AskFails
  <2>3. CallStatus[c] = "waiting" BY <1>3, <2>1 DEF GiveUp, AskFails
  <2>4. CallStatus' = [CallStatus EXCEPT ![c] = "withdrawn"] BY <2>1, <2>2
  <2> QED BY <2>3, <2>4 DEF Limiter!Withdraw
<1>4. ASSUME NEW c \in Shielded, AbandonShielded(c)
      PROVE  Limiter!Withdraw(c) \/ UNCHANGED CallStatus
  <2>1. CASE CancelQueued(c)
    <3>1. /\ thread' = thread /\ thread[c] = "none"
          /\ since' = since /\ now' = now
      BY <2>1 DEF CancelQueued
    <3>2. task' = [task EXCEPT ![c] = "cancelled"] BY <2>1 DEF CancelQueued
    <3>3. CallStatus[c] = "waiting" BY <2>1, <3>1 DEF CancelQueued
    <3>4. CallStatus' = [CallStatus EXCEPT ![c] = "withdrawn"] BY <3>1, <3>2
    <3> QED BY <3>3, <3>4 DEF Limiter!Withdraw
  <2>2. CASE UNCHANGED <<now, since, task, thread>> BY <2>2
  <2> QED BY <1>4, <2>1, <2>2 DEF AbandonShielded
<1>5. ASSUME NEW c \in Shielded, ProcessDies(c)
      PROVE  Limiter!Withdraw(c) \/ Limiter!Finish(c) \/ UNCHANGED CallStatus
  <2>1. CASE thread[c] = "running" BY <1>5, <2>1 DEF ProcessDies, Limiter!Finish
  <2>2. CASE thread[c] \in {"none", "queued"}
    BY <1>5, <2>2 DEF ProcessDies, Limiter!Withdraw
  <2>3. CASE thread[c] = "done" BY <1>5, <2>3 DEF ProcessDies
  <2> QED BY <2>1, <2>2, <2>3
<1>6. ASSUME NEW c \in Call,
             \/ Grant(c) \/ Refuse(c) \/ Enter(c) \/ Leave(c) \/ Release(c)
             \/ ReleaseFails(c)
      PROVE  UNCHANGED CallStatus
  BY <1>6 DEF Grant, Refuse, Enter, Leave, Release, ReleaseFails
<1>7. ASSUME UNCHANGED vars PROVE UNCHANGED CallStatus
  BY <1>7 DEF vars
<1>8. ASSUME NEW c \in Call \ Shielded,
             \/ StartHttp(c) \/ FinishHttp(c) \/ GiveUp(c) \/ AskFails(c)
             \/ AbandonFetch(c) \/ ProcessDies(c)
      PROVE  UNCHANGED CallStatus
  <2>1. /\ \A d \in Shielded : thread'[d] = thread[d] /\ task'[d] = task[d]
        /\ since' = since /\ now' = now
    BY <1>8 DEF StartHttp, FinishHttp, GiveUp, AskFails, AbandonFetch, CancelQueued,
                ProcessDies
  <2> QED BY <2>1
<1>9. ASSUME NEW c \in Call
      PROVE  /\ AbandonShielded(c) => c \in Shielded
             /\ AbandonFetch(c) => c \notin Shielded
  BY DEF AbandonShielded, AbandonFetch
<1> QED BY <1>1, <1>2, <1>3, <1>4, <1>5, <1>6, <1>7, <1>8, <1>9, TickEndsLeases
        DEF Next, Progress, Limiter!Next

\* For shielded calls the slots implement CallLimit, whatever the other calls
\* of the account do and however long any call takes.
THEOREM ImplementsCallLimit == Spec => KeepsCallLimit
<1>1. Init => Limiter!Init BY SlotAssumption DEF Init, Limiter!Init, CallStatus
<1>2. IInv /\ [Next]_vars => [Limiter!Next]_CallStatus BY StepRefines
<1> QED BY Invariance, <1>1, <1>2, PTL DEF Spec, KeepsCallLimit, Limiter!Spec
=============================================================================

------------------------- MODULE SessionStoreProofs -------------------------
(***************************************************************************)
(* The safety properties of SessionStore, proved for any number of         *)
(* sessions, workers, requests, failures and crashes.  What needs Redis to *)
(* be the only store assumes InMemory = FALSE, or OneStore where a single  *)
(* worker with a memory will do.                                           *)
(***************************************************************************)
EXTENDS SessionStore, TLAPS

\* A session is known to the index, to a copy in memory or to a reaper only
\* after its save wrote the index, and to a reaper only once it has expired; a
\* cycle breaks off, and drops what it holds, only by a failure or a crash.
AgeInv ==
    /\ \A w \in Worker : asOf[w] <= now
    /\ \A s \in index : save[s] \in {"saved", "failed"}
    /\ \A w \in Worker : \A s \in memory[w] : save[s] \in {"saved", "failed"}
    /\ \A w \in Worker :
       \A s \in candidates[w] \cup claimed[w] \cup deleting[w] \cup expired[w] :
          save[s] \in {"saved", "failed"} /\ expires[s] <= now
    /\ \A s \in dropped :
          /\ save[s] \in {"saved", "failed"} /\ expires[s] <= now
          /\ faults + crashes > 0

\* What a request that got past Resume knows, and what a save has reached.
RequestInv ==
    /\ \A r \in Request : stage[r] # "idle" => save[target[r]] = "saved"
    /\ \A r \in Request : stage[r] \in {"dropRecord", "dropIndex"} =>
          closes[target[r]] > 0 \/ remote[target[r]] = "closed"
    /\ \A s \in Session : save[s] # "new" => remote[s] # "none"
    /\ \A s \in Session : expires[s] <= now + TTL
    /\ \A s \in Session : save[s] = "index" => until[s] >= expires[s] + Grace

IInv == TypeOK /\ AgeInv /\ RequestInv

LEMMA InitIInv == Init => IInv
  BY StoreAssumption
  DEF Init, IInv, TypeOK, AgeInv, RequestInv, SavePhase, ReaperPhase, RequestStage

\* The login's steps.
LEMMA SavePreserves ==
  ASSUME IInv, NEW s \in Session,
         \/ StartSave(s) \/ SaveRecord(s) \/ SaveIndex(s) \/ SaveFails(s)
         \/ RemoteExpires(s)
  PROVE  IInv'
<1> USE StoreAssumption
    DEF IInv, TypeOK, AgeInv, RequestInv, SavePhase, ReaperPhase, RequestStage,
        clockVars, loginVars, storeVars, remoteVars, reaperVars, requestVars
<1>1. CASE StartSave(s) BY <1>1 DEF StartSave
<1>2. CASE SaveRecord(s) BY <1>2 DEF SaveRecord
<1>3. CASE SaveIndex(s) BY <1>3 DEF SaveIndex
<1>4. CASE SaveFails(s) BY <1>4 DEF SaveFails, CallClose
<1>5. CASE RemoteExpires(s) BY <1>5 DEF RemoteExpires
<1> QED BY <1>1, <1>2, <1>3, <1>4, <1>5

\* The steps of a request.
LEMMA RequestPreserves ==
  ASSUME IInv, NEW r \in Request, RequestStep(r) \/ DropFails(r)
  PROVE  IInv'
<1> USE StoreAssumption
    DEF IInv, TypeOK, AgeInv, RequestInv, SavePhase, ReaperPhase, RequestStage,
        clockVars, loginVars, storeVars, remoteVars, reaperVars, requestVars
<1>1. CASE Resume(r) BY <1>1 DEF Resume
<1>2. CASE LogoutRemote(r)
  <2>1. PICK outcome \in {remote[target[r]], "closed"} :
          remote' = [remote EXCEPT ![target[r]] = outcome]
    BY <1>2 DEF LogoutRemote, CallClose
  <2>2. closes' = [closes EXCEPT ![target[r]] = @ + 1]
    BY <1>2 DEF LogoutRemote, CallClose
  <2>3. closes' \in [Session -> Nat] BY <2>2
  <2>4. outcome \in {"none", "open", "closed"}
    <3>1. remote[target[r]] \in {"none", "open", "closed"} OBVIOUS
    <3> QED BY <3>1
  <2>5. remote' \in [Session -> {"none", "open", "closed"}] BY <2>1, <2>4
  <2>6. TypeOK' BY <1>2, <2>3, <2>5 DEF LogoutRemote
  <2>7. AgeInv' BY <1>2 DEF LogoutRemote
  <2>8. closes'[target[r]] > 0 BY <2>2
  <2>9. /\ \A s \in Session : closes[s] > 0 => closes'[s] > 0
        /\ \A s \in Session : remote'[s] \in {remote[s], "closed"}
    BY <2>1, <2>2
  <2>10. RequestInv' BY <1>2, <2>8, <2>9 DEF LogoutRemote
  <2> QED BY <2>6, <2>7, <2>10
<1>3. CASE RemoteUnknown(r) BY <1>3 DEF RemoteUnknown
<1>4. CASE Answer(r) BY <1>4 DEF Answer
<1>5. CASE DropRecord(r) BY <1>5 DEF DropRecord
<1>6. CASE DropIndex(r) BY <1>6 DEF DropIndex
<1>7. CASE DropFails(r)
  <2>1. save[target[r]] = "saved" BY <1>7 DEF DropFails
  <2>2. PICK applied \in BOOLEAN :
          IF stage[r] = "dropRecord"
            THEN /\ until' = [until EXCEPT ![target[r]] = IF applied THEN 0 ELSE @]
                 /\ index' = index
            ELSE /\ until' = until
                 /\ index' = index \ IF applied THEN {target[r]} ELSE {}
    BY <1>7 DEF DropFails
  <2>3. /\ until' \in [Session -> Nat] /\ index' \subseteq index
        /\ \A s \in Session : s # target[r] => until'[s] = until[s]
    <3>1. CASE stage[r] = "dropRecord" /\ applied BY <2>2, <3>1
    <3>2. CASE stage[r] = "dropRecord" /\ ~applied BY <2>2, <3>2
    <3>3. CASE stage[r] # "dropRecord" BY <2>2, <3>3
    <3> QED BY <3>1, <3>2, <3>3
  <2>4. TypeOK' BY <1>7, <2>3 DEF DropFails
  <2>5. AgeInv' BY <1>7, <2>3 DEF DropFails
  <2>6. RequestInv' BY <1>7, <2>1, <2>3 DEF DropFails
  <2> QED BY <2>4, <2>5, <2>6
<1> QED BY <1>1, <1>2, <1>3, <1>4, <1>5, <1>6, <1>7 DEF RequestStep

\* The steps of a reaper, its failures and the crashes of its process.
LEMMA ReaperPreserves ==
  ASSUME IInv, NEW w \in Worker, ReaperStep(w) \/ CycleFails(w) \/ Crash(w)
  PROVE  IInv'
<1> USE StoreAssumption
    DEF IInv, TypeOK, AgeInv, RequestInv, SavePhase, ReaperPhase, RequestStage,
        clockVars, loginVars, storeVars, remoteVars, reaperVars, requestVars
<1>1. CASE BeginCycle(w) BY <1>1 DEF BeginCycle
<1>2. ASSUME NEW s \in Session, Claim(w, s) PROVE IInv' BY <1>2 DEF Claim
<1>3. CASE EndClaim(w) BY <1>3 DEF EndClaim
<1>4. ASSUME NEW s \in Session, ReadRecord(w, s) PROVE IInv' BY <1>4 DEF ReadRecord
<1>5. ASSUME NEW s \in Session, DeleteRecord(w, s) PROVE IInv'
  <2>1. save[s] \in {"saved", "failed"} BY <1>5 DEF DeleteRecord
  <2>2. TypeOK' BY <1>5 DEF DeleteRecord
  <2>3. /\ \A v \in Worker : memory'[v] \subseteq memory[v]
        /\ \A v \in Worker : deleting'[v] \subseteq deleting[v]
    BY <1>5 DEF DeleteRecord
  <2>4. AgeInv' BY <1>5, <2>3 DEF DeleteRecord
  <2>5. RequestInv' BY <1>5, <2>1 DEF DeleteRecord
  <2> QED BY <2>2, <2>4, <2>5
<1>6. CASE EndTake(w) BY <1>6 DEF EndTake
<1>7. ASSUME NEW s \in Session, CloseExpired(w, s) PROVE IInv'
  BY <1>7 DEF CloseExpired, CallClose
<1>8. CASE EndCycle(w) BY <1>8 DEF EndCycle
<1>9. CASE CycleFails(w)
  <2>1. PICK gone \in SUBSET candidates[w] :
          index' = index \ gone /\ ForgetCycle(w, gone \cap index)
    BY <1>9 DEF CycleFails
  <2>2. \A s \in deleting[w] : save[s] \in {"saved", "failed"} OBVIOUS
  <2>3. /\ until' \in [Session -> Nat]
        /\ \A s \in Session : s \notin deleting[w] => until'[s] = until[s]
    BY <1>9 DEF CycleFails
  <2>4. TypeOK' BY <1>9, <2>1, <2>3 DEF CycleFails, ForgetCycle, Held
  <2>5. AgeInv'
    <3>1. dropped' = dropped \cup Held(w) \cup (gone \cap index)
      BY <2>1 DEF ForgetCycle
    <3>2. \A s \in dropped' : save[s] \in {"saved", "failed"} /\ expires[s] <= now
      BY <3>1 DEF Held
    <3>3. faults' + crashes' > 0 BY <1>9 DEF CycleFails
    <3> QED BY <1>9, <2>1, <3>2, <3>3 DEF CycleFails, ForgetCycle
  <2>6. RequestInv' BY <1>9, <2>2, <2>3 DEF CycleFails
  <2> QED BY <2>4, <2>5, <2>6
<1>10. CASE Crash(w)
  <2>1. /\ UNCHANGED <<now, faults, expires, index>> /\ crashes' = crashes + 1
        /\ \A s \in Session : save[s] \in {"saved", "failed"} => save'[s] = save[s]
    BY <1>10 DEF Crash
  <2>2. /\ \A v \in Worker : /\ candidates'[v] \subseteq candidates[v]
                             /\ claimed'[v] \subseteq claimed[v]
                             /\ deleting'[v] \subseteq deleting[v]
                             /\ expired'[v] \subseteq expired[v]
                             /\ memory'[v] \subseteq memory[v]
                             /\ asOf'[v] <= asOf[v]
        /\ dropped' \subseteq dropped \cup Held(w)
    BY <1>10 DEF Crash, ForgetCycle
  <2>3. TypeOK' BY <1>10 DEF Crash, ForgetCycle, Held
  <2>4. \A s \in dropped' : save[s] \in {"saved", "failed"} /\ expires[s] <= now
    BY <2>2 DEF Held
  <2>5. AgeInv'
    <3>1. \A v \in Worker : asOf'[v] <= now' BY <2>1, <2>2, <2>3
    <3>2. faults' + crashes' > 0 BY <2>1
    <3>3. \A s \in Session : save[s] \in {"saved", "failed"} =>
             save'[s] \in {"saved", "failed"} /\ (expires[s] <= now => expires'[s] <= now')
      BY <2>1
    <3>4. \A v \in Worker :
          \A s \in candidates'[v] \cup claimed'[v] \cup deleting'[v] \cup expired'[v] :
             save'[s] \in {"saved", "failed"} /\ expires'[s] <= now'
      BY <2>2, <3>3
    <3>5. /\ \A s \in index' : save'[s] \in {"saved", "failed"}
          /\ \A v \in Worker : \A s \in memory'[v] : save'[s] \in {"saved", "failed"}
      BY <2>1, <2>2, <3>3
    <3>6. \A s \in dropped' : save'[s] \in {"saved", "failed"} /\ expires'[s] <= now'
      BY <2>3, <2>4, <3>3
    <3> HIDE DEF TypeOK, IInv, RequestInv
    <3> QED BY <3>1, <3>2, <3>4, <3>5, <3>6
  <2>6. RequestInv' BY <1>10 DEF Crash
  <2> QED BY <2>3, <2>5, <2>6
<1> QED BY <1>1, <1>2, <1>3, <1>4, <1>5, <1>6, <1>7, <1>8, <1>9, <1>10 DEF ReaperStep

\* The inductive invariant holds in every reachable state.
THEOREM Invariance == Spec => []IInv
<1>1. IInv /\ [Next]_vars => IInv'
  <2> SUFFICES ASSUME IInv, [Next]_vars PROVE IInv' OBVIOUS
  <2>1. CASE Tick
    BY <2>1, StoreAssumption DEF Tick, IInv, TypeOK, AgeInv, RequestInv, loginVars, storeVars,
       remoteVars, reaperVars, requestVars
  <2>2. CASE UNCHANGED vars
    BY <2>2 DEF IInv, TypeOK, AgeInv, RequestInv, vars, clockVars, loginVars,
       storeVars, remoteVars, reaperVars, requestVars
  <2> QED BY <2>1, <2>2, SavePreserves, RequestPreserves, ReaperPreserves DEF Next
<1> QED BY InitIInv, <1>1, PTL DEF Spec

\* Every variable keeps its type.
THEOREM TypeCorrect == Spec => []TypeOK
<1>1. IInv => TypeOK BY DEF IInv
<1> QED BY Invariance, <1>1, PTL

----------------------------------------------------------------------------
\* One owner at a time.

\* With Redis as the only store, an expired session moves from the index to one
\* reaper, from its claimed to its expired ones, and from there to its close.
Owned(s) ==
    /\ s \in index =>
          reaps[s] = 0 /\ \A w \in Worker : s \notin claimed[w] \cup expired[w]
    /\ \A w \in Worker : s \in claimed[w] \cup expired[w] =>
          /\ reaps[s] = 0
          /\ \A v \in Worker \ {w} : s \notin claimed[v] \cup expired[v]
    /\ \A w \in Worker : s \notin claimed[w] \cap expired[w]
    /\ save[s] \in {"new", "record", "index"} => reaps[s] = 0
    /\ reaps[s] \in {0, 1}

OwnerInv == /\ \A w \in Worker : memory[w] = {}
            /\ \A s \in Session : Owned(s)

LEMMA OwnerInvInit == Init => OwnerInv
  BY DEF Init, OwnerInv, Owned

LEMMA OwnerInvStep ==
  ASSUME ~InMemory, IInv, OwnerInv, [Next]_vars
  PROVE  OwnerInv'
<1> USE DEF IInv, TypeOK, AgeInv, OwnerInv, Owned, clockVars, loginVars, storeVars,
            remoteVars, reaperVars, requestVars
<1>1. ASSUME NEW s \in Session,
             StartSave(s) \/ SaveRecord(s) \/ SaveIndex(s) \/ RemoteExpires(s)
      PROVE  OwnerInv'
  BY <1>1 DEF StartSave, SaveRecord, SaveIndex, RemoteExpires
<1>2. ASSUME NEW s \in Session, SaveFails(s) PROVE OwnerInv'
  BY <1>2 DEF SaveFails
<1>3. ASSUME NEW r \in Request, RequestStep(r) \/ DropFails(r) PROVE OwnerInv'
  <2>1. UNCHANGED <<claimed, expired, reaps, save>>
    BY <1>3 DEF RequestStep, Resume, LogoutRemote, RemoteUnknown, Answer, DropRecord,
                DropIndex, DropFails
  <2>2. index' \subseteq index
    BY <1>3 DEF RequestStep, Resume, LogoutRemote, RemoteUnknown, Answer, DropRecord,
                DropIndex, DropFails
  <2>3. \A w \in Worker : memory'[w] = {}
    <3>1. \/ memory' = memory
          \/ memory' = [memory EXCEPT ![via[r]] = @ \ {target[r]}]
      BY <1>3 DEF RequestStep, Resume, LogoutRemote, RemoteUnknown, Answer, DropRecord,
                  DropIndex, DropFails
    <3>2. \A w \in Worker : memory[w] = {} OBVIOUS
    <3>3. memory \in [Worker -> SUBSET Session] OBVIOUS
    <3> HIDE DEF OwnerInv, IInv
    <3> QED BY <3>1, <3>2, <3>3
  <2>4. OwnerInv OBVIOUS
  <2> HIDE DEF IInv, AgeInv, TypeOK
  <2>5. ASSUME NEW s \in Session PROVE Owned(s)'
    <3>1. Owned(s) BY <2>4
    <3>2. s \in index' => s \in index BY <2>2
    <3> HIDE DEF OwnerInv
    <3> QED BY <2>1, <3>1, <3>2
  <2> QED BY <2>3, <2>5
<1>4. ASSUME NEW w \in Worker, BeginCycle(w) \/ EndTake(w) \/ EndCycle(w)
      PROVE  OwnerInv'
  BY <1>4 DEF BeginCycle, EndTake, EndCycle
<1>5. ASSUME NEW w \in Worker, EndClaim(w) PROVE OwnerInv'
  BY <1>5 DEF EndClaim
<1>6. ASSUME NEW w \in Worker, NEW s \in Session, Claim(w, s) PROVE OwnerInv'
  BY <1>6 DEF Claim
<1>7. ASSUME NEW w \in Worker, NEW s \in Session, ReadRecord(w, s) PROVE OwnerInv'
  BY <1>7 DEF ReadRecord
<1>8. ASSUME NEW w \in Worker, NEW s \in Session, DeleteRecord(w, s) PROVE OwnerInv'
  BY <1>8 DEF DeleteRecord
<1>9. ASSUME NEW w \in Worker, NEW s \in Session, CloseExpired(w, s) PROVE OwnerInv'
  <2>1. s \in expired[w] /\ reaps[s] = 0
    <3>1. s \in expired[w] /\ Owned(s) BY <1>9 DEF CloseExpired
    <3> QED BY <3>1
  <2>2. /\ UNCHANGED <<index, memory, claimed, save>>
        /\ expired' = [expired EXCEPT ![w] = @ \ {s}]
        /\ reaps' = [reaps EXCEPT ![s] = 1]
    BY <1>9, <2>1 DEF CloseExpired
  <2>3. s \notin index /\ save[s] \in {"saved", "failed"}
    <3>1. save[s] \in {"saved", "failed"} BY <2>1
    <3>2. Owned(s) OBVIOUS
    <3> QED BY <2>1, <3>1, <3>2
  <2>4. \A v \in Worker : s \notin claimed[v] BY <2>1
  <2>5. \A v \in Worker : s \notin expired'[v] BY <2>1, <2>2
  <2>6. Owned(s)' BY <2>2, <2>3, <2>4, <2>5
  <2>7. ASSUME NEW t \in Session, t # s PROVE Owned(t)'
    <3>1. reaps'[t] = reaps[t] BY <2>2, <2>7
    <3>2. \A v \in Worker : t \in expired'[v] <=> t \in expired[v] BY <2>2, <2>7
    <3> QED BY <2>2, <3>1, <3>2
  <2> QED BY <2>2, <2>6, <2>7
<1>10. ASSUME NEW w \in Worker, CycleFails(w) PROVE OwnerInv'
  BY <1>10 DEF CycleFails, ForgetCycle
<1>11. ASSUME NEW w \in Worker, Crash(w) PROVE OwnerInv'
  BY <1>11 DEF Crash, ForgetCycle
<1>12. CASE Tick \/ UNCHANGED vars BY <1>12 DEF Tick, vars
<1> QED BY <1>1, <1>2, <1>3, <1>4, <1>5, <1>6, <1>7, <1>8, <1>9, <1>10, <1>11, <1>12
        DEF Next, ReaperStep

\* When Redis is the only store, reapers close an expired session at most once,
\* whatever fails and whoever crashes.
THEOREM ReapedOnce ==
  ASSUME ~InMemory
  PROVE  Spec => []ReapedAtMostOnce
<1>1. OwnerInv => ReapedAtMostOnce BY DEF OwnerInv, Owned, ReapedAtMostOnce
<1> QED BY Invariance, OwnerInvInit, OwnerInvStep, <1>1, PTL DEF Spec

\* No session is closed by a reaper before it has expired, with or without
\* copies in memory.
THEOREM ReapsOnlyExpiredSafety == Spec => ReapsOnlyExpired
<1>1. IInv /\ [Next]_vars =>
        \A s \in Session : reaps'[s] # reaps[s] => expires[s] <= now
  <2> SUFFICES ASSUME IInv, [Next]_vars, NEW s \in Session, reaps'[s] # reaps[s]
               PROVE  expires[s] <= now
    OBVIOUS
  <2>1. PICK w \in Worker, t \in Session : CloseExpired(w, t)
    BY DEF Next, RequestStep, ReaperStep, Tick, StartSave, SaveRecord, SaveIndex,
           SaveFails, RemoteExpires, Resume, LogoutRemote, RemoteUnknown, Answer,
           DropRecord, DropIndex, DropFails, BeginCycle, Claim, EndClaim, ReadRecord,
           DeleteRecord, EndTake, EndCycle, CycleFails, Crash, vars, remoteVars
  <2>2. s = t BY <2>1 DEF CloseExpired, IInv, TypeOK
  <2> QED BY <2>1, <2>2 DEF CloseExpired, IInv, AgeInv
<1> QED BY Invariance, <1>1, PTL DEF Spec, ReapsOnlyExpired

----------------------------------------------------------------------------
\* No session is forgotten.

\* An attempt to close s was made, its loss is accounted for, or a reaper has
\* its record and will call api.close.
Settled(s) ==
    \/ closes[s] > 0 \/ remote[s] = "closed"
    \/ s \in dropped \/ now >= expires[s] + Grace
    \/ \E w \in Worker : s \in expired[w]

\* A saved session has its record until a grace period after it expires and its
\* identifier in the index or claimed; it loses either, and its record is
\* deleted, only once it is settled.
TrackedBy(s) ==
    /\ until[s] >= expires[s] + Grace \/ Settled(s)
    /\ s \in index \/ (\E w \in Worker : s \in claimed[w]) \/ Settled(s)
    /\ \A w \in Worker : s \in deleting[w] => Settled(s)
TrackInv == \A s \in Session : save[s] = "saved" => TrackedBy(s)

LEMMA InitTrackInv == Init => TrackInv
  BY DEF Init, TrackInv

\* A call of api.close is counted, and LimeSurvey may only end the session.
LEMMA CloseEffect ==
  ASSUME TypeOK, NEW t \in Session, CallClose(t)
  PROVE  \A s \in Session :
           closes'[s] >= closes[s] /\ remote'[s] \in {remote[s], "closed"}
<1>1. closes' = [closes EXCEPT ![t] = closes[t] + 1] BY DEF CallClose
<1>2. closes \in [Session -> Nat] BY DEF TypeOK
<1>3. \A s \in Session : closes'[s] >= closes[s] BY <1>1, <1>2
<1>4. \A s \in Session : remote'[s] \in {remote[s], "closed"}
  BY DEF CallClose, TypeOK
<1> QED BY <1>3, <1>4

\* Once settled, a saved session stays settled: a reaper parts with a record by
\* closing it or by a cycle that breaks off.
LEMMA SettledStays ==
  ASSUME IInv, [Next]_vars, NEW s \in Session, save[s] = "saved", Settled(s)
  PROVE  Settled(s)'
<1> USE StoreAssumption
    DEF IInv, TypeOK, Settled, clockVars, loginVars, storeVars, remoteVars,
        reaperVars, requestVars
<1>1. CASE Tick \/ UNCHANGED vars BY <1>1 DEF Tick, vars
<1>2. ASSUME NEW t \in Session,
             \/ StartSave(t) \/ SaveRecord(t) \/ SaveIndex(t) \/ SaveFails(t)
             \/ RemoteExpires(t)
      PROVE  Settled(s)'
  BY <1>2 DEF StartSave, SaveRecord, SaveIndex, SaveFails, RemoteExpires, CallClose
<1>3. ASSUME NEW r \in Request, RequestStep(r) \/ DropFails(r) PROVE Settled(s)'
  <2>1. /\ UNCHANGED <<now, expires, dropped, expired>>
        /\ UNCHANGED <<closes, remote>> \/ CallClose(target[r])
    BY <1>3 DEF RequestStep, Resume, LogoutRemote, RemoteUnknown, Answer, DropRecord,
                DropIndex, DropFails
  <2>2. closes'[s] >= closes[s] /\ remote'[s] \in {remote[s], "closed"}
    BY <2>1, CloseEffect
  <2>3. closes[s] \in Nat /\ closes'[s] \in Nat
    <3>1. closes' \in [Session -> Nat]
      BY <1>3, RequestPreserves
    <3> QED BY <3>1
  <2>4. closes[s] > 0 => closes'[s] > 0 BY <2>2, <2>3
  <2> QED BY <2>1, <2>2, <2>4
<1>4. ASSUME NEW w \in Worker, ReaperStep(w) PROVE Settled(s)'
  <2>1. CASE BeginCycle(w) \/ EndClaim(w) \/ EndTake(w) \/ EndCycle(w)
    BY <2>1 DEF BeginCycle, EndClaim, EndTake, EndCycle
  <2>2. ASSUME NEW t \in Session, Claim(w, t) \/ ReadRecord(w, t) \/ DeleteRecord(w, t)
        PROVE  Settled(s)'
    BY <2>2 DEF Claim, ReadRecord, DeleteRecord
  <2>3. ASSUME NEW t \in Session, CloseExpired(w, t) PROVE Settled(s)'
    BY <2>3 DEF CloseExpired, CallClose
  <2> QED BY <1>4, <2>1, <2>2, <2>3 DEF ReaperStep
<1>5. ASSUME NEW w \in Worker, CycleFails(w) \/ Crash(w) PROVE Settled(s)'
  BY <1>5 DEF CycleFails, Crash, ForgetCycle, Held
<1> QED BY <1>1, <1>2, <1>3, <1>4, <1>5 DEF Next

\* The steps of a login.
LEMMA SaveTracks ==
  ASSUME IInv, TrackInv, NEW t \in Session,
         \/ StartSave(t) \/ SaveRecord(t) \/ SaveIndex(t) \/ SaveFails(t)
         \/ RemoteExpires(t),
         NEW s \in Session, save'[s] = "saved"
  PROVE  TrackedBy(s)'
<1> USE StoreAssumption
    DEF IInv, TypeOK, clockVars, loginVars, storeVars, remoteVars, reaperVars,
        requestVars
<1>1. CASE save[s] = "saved"
  <2>1. Settled(s) => Settled(s)' BY <1>1, SettledStays DEF Next
  <2>2. UNCHANGED <<claimed, deleting>> /\ index \subseteq index'
    BY DEF StartSave, SaveRecord, SaveIndex, SaveFails, RemoteExpires
  <2>3. until'[s] = until[s] /\ expires'[s] = expires[s]
    BY <1>1 DEF StartSave, SaveRecord, SaveIndex, SaveFails, RemoteExpires
  <2> QED BY <1>1, <2>1, <2>2, <2>3 DEF TrackInv, TrackedBy
<1>2. CASE save[s] # "saved"
  <2>1. SaveIndex(s)
    BY <1>2 DEF StartSave, SaveRecord, SaveIndex, SaveFails, RemoteExpires
  <2>2. until[s] >= expires[s] + Grace BY <2>1 DEF SaveIndex, RequestInv
  <2>3. \A w \in Worker : s \notin deleting[w] BY <2>1 DEF SaveIndex, AgeInv
  <2> QED BY <2>1, <2>2, <2>3 DEF SaveIndex, TrackedBy
<1> QED BY <1>1, <1>2

\* The steps of a request delete a record only of a session that was closed.
LEMMA RequestTracks ==
  ASSUME IInv, TrackInv, NEW r \in Request, RequestStep(r) \/ DropFails(r),
         NEW s \in Session, save'[s] = "saved"
  PROVE  TrackedBy(s)'
<1> USE DEF IInv, TypeOK, loginVars, storeVars, reaperVars, requestVars
<1>1. UNCHANGED <<save, expires, claimed, deleting>>
  BY DEF RequestStep, Resume, LogoutRemote, RemoteUnknown, Answer, DropRecord,
         DropIndex, DropFails
<1>2. Settled(s) => Settled(s)' BY <1>1, SettledStays DEF Next
<1>3. CASE s = target[r] /\ stage[r] \in {"dropRecord", "dropIndex"}
  <2>1. Settled(s) BY <1>3 DEF Settled, RequestInv
  <2> QED BY <1>2, <2>1 DEF TrackedBy
<1>4. CASE ~(s = target[r] /\ stage[r] \in {"dropRecord", "dropIndex"})
  <2>1. until'[s] = until[s] /\ (s \in index => s \in index')
    BY <1>4 DEF RequestStep, Resume, LogoutRemote, RemoteUnknown, Answer, DropRecord,
                DropIndex, DropFails
  <2> QED BY <1>1, <1>2, <2>1 DEF TrackInv, TrackedBy
<1> QED BY <1>3, <1>4

\* The steps of a reaper, its failures and the crashes of its process.
LEMMA ReaperTracks ==
  ASSUME IInv, TrackInv, NEW w \in Worker,
         ReaperStep(w) \/ CycleFails(w) \/ Crash(w),
         NEW s \in Session, save'[s] = "saved"
  PROVE  TrackedBy(s)'
<1> USE DEF IInv, TypeOK, clockVars, loginVars, storeVars, remoteVars, reaperVars,
            requestVars
<1>1. save[s] = "saved" /\ expires'[s] = expires[s]
  BY DEF ReaperStep, BeginCycle, Claim, EndClaim, ReadRecord, DeleteRecord, EndTake,
         CloseExpired, EndCycle, CycleFails, Crash
<1>2. Settled(s) => Settled(s)' BY <1>1, SettledStays DEF Next
<1>3. TrackedBy(s) BY <1>1 DEF TrackInv
<1>4. CASE BeginCycle(w) \/ EndClaim(w) \/ EndTake(w) \/ EndCycle(w)
  BY <1>2, <1>3, <1>4 DEF TrackedBy, BeginCycle, EndClaim, EndTake, EndCycle
<1>5. ASSUME NEW t \in Session, Claim(w, t) PROVE TrackedBy(s)'
  BY <1>2, <1>3, <1>5 DEF TrackedBy, Claim
<1>6. ASSUME NEW t \in Session, ReadRecord(w, t) PROVE TrackedBy(s)'
  <2>1. CASE s = t
    <3>1. Settled(s)'
      <4>1. CASE InRedis(s) BY <2>1, <1>6, <4>1 DEF ReadRecord, Settled
      <4>2. CASE ~InRedis(s)
        <5>1. Settled(s) BY <1>3, <4>2, StoreAssumption DEF TrackedBy, InRedis, Settled
        <5> QED BY <1>2, <5>1
      <4> QED BY <4>1, <4>2
    <3> QED BY <3>1 DEF TrackedBy
  <2>2. CASE s # t
    <3>1. /\ UNCHANGED <<until, index>>
          /\ \A v \in Worker : (s \in claimed'[v] <=> s \in claimed[v])
                            /\ (s \in deleting'[v] => s \in deleting[v])
      BY <1>6, <2>2 DEF ReadRecord
    <3> QED BY <1>1, <1>2, <1>3, <3>1 DEF TrackedBy
  <2> QED BY <2>1, <2>2
<1>7. ASSUME NEW t \in Session, DeleteRecord(w, t) PROVE TrackedBy(s)'
  BY <1>1, <1>2, <1>3, <1>7 DEF TrackedBy, DeleteRecord
<1>8. ASSUME NEW t \in Session, CloseExpired(w, t) PROVE TrackedBy(s)'
  BY <1>2, <1>3, <1>8 DEF TrackedBy, CloseExpired
<1>9. CASE CycleFails(w)
  <2>1. PICK gone \in SUBSET candidates[w] :
          index' = index \ gone /\ ForgetCycle(w, gone \cap index)
    BY <1>9 DEF CycleFails
  <2>2. s \in deleting[w] \/ until'[s] = until[s] BY <1>9 DEF CycleFails
  <2>3. /\ s \in index => s \in index' \/ s \in dropped'
        /\ \A v \in Worker : s \in claimed[v] => s \in claimed'[v] \/ s \in dropped'
        /\ \A v \in Worker : deleting'[v] \subseteq deleting[v]
    BY <2>1 DEF ForgetCycle, Held
  <2> QED BY <1>1, <1>2, <1>3, <2>2, <2>3 DEF TrackedBy, Settled
<1>10. CASE Crash(w)
  <2>1. /\ UNCHANGED <<until, index>>
        /\ \A v \in Worker : s \in claimed[v] => s \in claimed'[v] \/ s \in dropped'
        /\ \A v \in Worker : deleting'[v] \subseteq deleting[v]
    BY <1>10 DEF Crash, ForgetCycle, Held
  <2> QED BY <1>1, <1>2, <1>3, <2>1 DEF TrackedBy, Settled
<1> QED BY <1>4, <1>5, <1>6, <1>7, <1>8, <1>9, <1>10 DEF ReaperStep

\* A session whose key was returned stays in the index or in a reaper's hands
\* until someone tried to close it, with or without copies in memory.  No number
\* of failures and crashes loses one that has not expired; an expired one is lost
\* by a reaper's cycle that a failure or a crash broke off while it held the
\* session, or because no reaper came within the grace period.
THEOREM TrackedSafety == Spec => []TrackedUntilClosed
<1>1. IInv /\ TrackInv /\ [Next]_vars => TrackInv'
  <2> SUFFICES ASSUME IInv, TrackInv, [Next]_vars, NEW s \in Session,
                      save'[s] = "saved"
               PROVE  TrackedBy(s)'
    BY DEF TrackInv
  <2>1. CASE Tick \/ UNCHANGED vars
    <3>1. save[s] = "saved" BY <2>1 DEF Tick, vars, loginVars
    <3>2. Settled(s) => Settled(s)' BY <3>1, SettledStays
    <3> QED BY <2>1, <3>1, <3>2
            DEF Tick, vars, loginVars, storeVars, reaperVars, TrackInv, TrackedBy
  <2> QED BY <2>1, SaveTracks, RequestTracks, ReaperTracks DEF Next
<1>2. IInv /\ TrackInv => TrackedUntilClosed
  <2> SUFFICES ASSUME IInv, TrackInv, NEW s \in Session, Untracked(s)
               PROVE  \/ s \in dropped /\ expires[s] <= now /\ faults + crashes > 0
                      \/ now >= expires[s] + Grace
    BY DEF TrackedUntilClosed
  <2>1. s \notin index /\ \A w \in Worker : s \notin claimed[w] \cup expired[w]
    BY DEF Untracked, Held
  <2>2. Settled(s) BY <2>1 DEF TrackInv, TrackedBy, Untracked
  <2>3. ~(closes[s] > 0) /\ remote[s] # "closed" BY DEF Untracked
  <2>4. s \in dropped => expires[s] <= now /\ faults + crashes > 0
    BY DEF IInv, AgeInv
  <2> QED BY <2>1, <2>2, <2>3, <2>4 DEF Settled
<1> QED BY Invariance, InitTrackInv, <1>1, <1>2, PTL DEF Spec

----------------------------------------------------------------------------
\* A key that is over is never accepted again.

\* What the two theorems below assume of the deployment: Redis is the only
\* store or there is a single worker.  Otherwise the copy in the memory of the
\* worker that served the login outlives a logout served by another worker.
OneStore == ~InMemory \/ \A v, w \in Worker : v = w

\* A deleted record does not come back, and no copy of a session is left when
\* its logout is answered.
LogoutInv ==
    /\ \A r \in Request : stage[r] = "dropIndex" => until[target[r]] = 0
    /\ \A s \in loggedOut :
          /\ save[s] = "saved" /\ until[s] = 0
          /\ \A w \in Worker : s \notin memory[w]
    /\ ~InMemory => \A w \in Worker : memory[w] = {}

LEMMA InitLogoutInv == Init => LogoutInv
  BY DEF Init, LogoutInv

\* A step of a request deletes records and copies and makes none.
LEMMA RequestOnlyDeletes ==
  ASSUME TypeOK, NEW r \in Request, RequestStep(r) \/ DropFails(r)
  PROVE  /\ UNCHANGED <<now, save, expires, target>>
         /\ \A s \in Session : until'[s] \in {0, until[s]}
         /\ \A w \in Worker : memory'[w] \subseteq memory[w]
<1> USE DEF TypeOK, clockVars, loginVars, storeVars, requestVars
<1>1. CASE Resume(r) \/ LogoutRemote(r) \/ RemoteUnknown(r) \/ Answer(r)
  BY <1>1 DEF Resume, LogoutRemote, RemoteUnknown, Answer
<1>2. CASE DropRecord(r) BY <1>2 DEF DropRecord
<1>3. CASE DropIndex(r) BY <1>3 DEF DropIndex
<1>4. CASE DropFails(r)
  <2>1. CASE stage[r] = "dropRecord" BY <1>4, <2>1 DEF DropFails
  <2>2. CASE stage[r] # "dropRecord" BY <1>4, <2>2 DEF DropFails
  <2> QED BY <2>1, <2>2 DEF DropFails
<1> QED BY <1>1, <1>2, <1>3, <1>4 DEF RequestStep

\* So do the steps of a reaper and the crash of its process.
LEMMA ReaperOnlyDeletes ==
  ASSUME TypeOK, NEW w \in Worker, ReaperStep(w) \/ CycleFails(w) \/ Crash(w)
  PROVE  /\ UNCHANGED <<now, expires, target, loggedOut>>
         /\ \A s \in Session : until'[s] \in {0, until[s]}
         /\ \A v \in Worker : memory'[v] \subseteq memory[v]
         /\ \A s \in Session : save'[s] = "saved" <=> save[s] = "saved"
         /\ \A q \in Request : stage'[q] = "dropIndex" => stage[q] = "dropIndex"
<1> USE DEF TypeOK, clockVars, loginVars, storeVars, requestVars
<1>1. CASE BeginCycle(w) \/ EndClaim(w) \/ EndTake(w) \/ EndCycle(w)
  BY <1>1 DEF BeginCycle, EndClaim, EndTake, EndCycle
<1>2. ASSUME NEW t \in Session, Claim(w, t) \/ ReadRecord(w, t) \/ CloseExpired(w, t)
      PROVE  UNCHANGED <<now, save, expires, until, memory, requestVars>>
  BY <1>2 DEF Claim, ReadRecord, CloseExpired
<1>3. ASSUME NEW t \in Session, DeleteRecord(w, t)
      PROVE  /\ UNCHANGED <<now, save, expires, requestVars>>
             /\ \A s \in Session : until'[s] \in {0, until[s]}
             /\ \A v \in Worker : memory'[v] \subseteq memory[v]
  BY <1>3 DEF DeleteRecord
<1>4. CASE CycleFails(w) BY <1>4 DEF CycleFails
<1>5. CASE Crash(w) BY <1>5 DEF Crash
<1> QED BY <1>1, <1>2, <1>3, <1>4, <1>5 DEF ReaperStep

LEMMA LogoutInvStep ==
  ASSUME OneStore, IInv, LogoutInv, [Next]_vars
  PROVE  LogoutInv'
<1> USE DEF IInv, TypeOK, RequestInv, LogoutInv, clockVars, loginVars, storeVars,
            remoteVars, reaperVars, requestVars
<1>1. ASSUME NEW t \in Session,
             \/ StartSave(t) \/ SaveRecord(t) \/ SaveIndex(t) \/ RemoteExpires(t)
      PROVE  LogoutInv'
  <2>1. CASE StartSave(t) BY <2>1 DEF StartSave
  <2>2. CASE SaveRecord(t) BY <2>2 DEF SaveRecord
  <2>3. CASE SaveIndex(t) BY <2>3 DEF SaveIndex
  <2>4. CASE RemoteExpires(t) BY <2>4 DEF RemoteExpires
  <2> QED BY <1>1, <2>1, <2>2, <2>3, <2>4
<1>2. ASSUME NEW t \in Session, SaveFails(t) PROVE LogoutInv'
  <2>1. /\ UNCHANGED <<memory, requestVars>>
        /\ save[t] # "saved"
        /\ \A s \in Session \ {t} : save'[s] = save[s] /\ until'[s] = until[s]
    BY <1>2 DEF SaveFails
  <2>2. t \notin loggedOut BY <2>1
  <2>3. \A r \in Request : stage[r] = "dropIndex" => target[r] # t BY <2>1
  <2> QED BY <2>1, <2>2, <2>3
<1>3. ASSUME NEW r \in Request,
             Resume(r) \/ LogoutRemote(r) \/ RemoteUnknown(r) \/ Answer(r)
      PROVE  LogoutInv'
  BY <1>3 DEF Resume, LogoutRemote, RemoteUnknown, Answer
<1>4. ASSUME NEW r \in Request, DropRecord(r) PROVE LogoutInv'
  BY <1>4 DEF DropRecord
<1>5. ASSUME NEW r \in Request, DropIndex(r) PROVE LogoutInv'
  <2>1. /\ UNCHANGED <<save, until, target>> /\ until[target[r]] = 0
        /\ save[target[r]] = "saved"
    BY <1>5 DEF DropIndex
  <2>2. \A w \in Worker : target[r] \notin memory'[w] /\ memory'[w] \subseteq memory[w]
    BY <1>5 DEF DropIndex, OneStore
  <2>3. loggedOut' \subseteq loggedOut \cup {target[r]} BY <1>5 DEF DropIndex
  <2>4. \A q \in Request : stage'[q] = "dropIndex" => stage[q] = "dropIndex"
    BY <1>5 DEF DropIndex
  <2> QED BY <2>1, <2>2, <2>3, <2>4
<1>6. ASSUME NEW r \in Request, DropFails(r) PROVE LogoutInv'
  <2>1. /\ UNCHANGED <<save, memory, target, loggedOut>>
        /\ \A s \in Session : until'[s] \in {0, until[s]}
        /\ \A q \in Request : stage'[q] = "dropIndex" => stage[q] = "dropIndex"
    BY <1>6 DEF DropFails
  <2> QED BY <2>1
<1>7. ASSUME NEW w \in Worker, ReaperStep(w) \/ CycleFails(w) \/ Crash(w)
      PROVE  LogoutInv'
  <2>1. /\ UNCHANGED <<target, loggedOut>>
        /\ \A s \in Session : until'[s] \in {0, until[s]}
        /\ \A v \in Worker : memory'[v] \subseteq memory[v]
        /\ \A s \in Session : save[s] = "saved" => save'[s] = "saved"
        /\ \A q \in Request : stage'[q] = "dropIndex" => stage[q] = "dropIndex"
    BY <1>7, ReaperOnlyDeletes
  <2> QED BY <2>1
<1>8. CASE Tick \/ UNCHANGED vars BY <1>8 DEF Tick, vars
<1> QED BY <1>1, <1>2, <1>3, <1>4, <1>5, <1>6, <1>7, <1>8 DEF Next, RequestStep

\* Once a logout has been answered no worker accepts the key, whatever requests,
\* reapers, failures and crashes come between.
THEOREM LoggedOutSafety ==
  ASSUME OneStore
  PROVE  Spec => []LoggedOutIsRefused
<1>1. IInv /\ LogoutInv => LoggedOutIsRefused
  BY DEF IInv, TypeOK, LogoutInv, LoggedOutIsRefused, Found, InRedis
<1> QED BY Invariance, InitLogoutInv, LogoutInvStep, <1>1, PTL DEF Spec

\* A step that saves nothing, answers no logout and extends no record ends the
\* leases of some keys and touches no other.
LEMMA KeysOnlyEnd ==
  ASSUME TypeOK, TypeOK', UNCHANGED loggedOut, now' >= now,
         \A s \in Session :
            /\ save'[s] = "saved" <=> save[s] = "saved"
            /\ save[s] = "saved" =>
                  /\ expires'[s] = expires[s] /\ until'[s] \in {0, until[s]}
                  /\ \A w \in Worker : s \in memory'[w] => s \in memory[w]
  PROVE  \E S \in SUBSET Session : Lease!End(S)
<1> DEFINE S == {s \in Session : LeaseStatus[s] = "valid" /\ LeaseStatus'[s] # "valid"}
<1>1. ASSUME NEW s \in Session, NEW w \in Worker, save[s] = "saved", Found(s, w)'
      PROVE  Found(s, w)
  <2>1. /\ now \in Nat /\ now' \in Nat /\ until[s] \in Nat
        /\ expires[s] \in Nat
    <3>1. now \in 0..MaxTime /\ now' \in 0..MaxTime BY DEF TypeOK
    <3> QED BY <3>1 DEF TypeOK
  <2>2. expires[s] > now BY <1>1, <2>1 DEF Found
  <2>3. InRedis(s)' => InRedis(s) BY <1>1, <2>1 DEF InRedis
  <2> QED BY <1>1, <2>2, <2>3 DEF Found
<1>2. ASSUME NEW s \in Session
      PROVE  LeaseStatus'[s] = IF s \in S THEN "over" ELSE LeaseStatus[s]
  BY <1>1 DEF LeaseStatus
<1>3. LeaseStatus' = [s \in Session |-> IF s \in S THEN "over" ELSE LeaseStatus[s]]
  BY <1>2 DEF LeaseStatus
<1> QED BY <1>3 DEF Lease!End

\* A step that leaves what workers accept of every other key alone changes the
\* status of s only.
LEMMA OtherKeysStay ==
  ASSUME NEW t \in Session, NEW new,
         \A s \in Session \ {t} :
            /\ save'[s] = "saved" <=> save[s] = "saved"
            /\ \A w \in Worker : Found(s, w)' <=> Found(s, w),
         LeaseStatus'[t] = new
  PROVE  LeaseStatus' = [LeaseStatus EXCEPT ![t] = new]
<1>1. ASSUME NEW s \in Session \ {t} PROVE LeaseStatus'[s] = LeaseStatus[s]
  BY <1>1 DEF LeaseStatus
<1> QED BY <1>1 DEF LeaseStatus

\* The end of a save issues the key.
LEMMA SaveIssues ==
  ASSUME IInv, NEW t \in Session, SaveIndex(t)
  PROVE  Lease!Issue(t)
<1> USE DEF IInv, TypeOK, SaveIndex, clockVars, requestVars
<1>1. LeaseStatus[t] = "unissued" BY DEF LeaseStatus
<1>2. PICK issued \in {"valid", "over"} : LeaseStatus'[t] = issued BY DEF LeaseStatus
<1>3. \A s \in Session \ {t} : \A w \in Worker : Found(s, w)' <=> Found(s, w)
  BY DEF Found, InRedis
<1>4. \A s \in Session \ {t} : save'[s] = save[s] OBVIOUS
<1>5. LeaseStatus' = [LeaseStatus EXCEPT ![t] = issued]
  BY <1>2, <1>3, <1>4, OtherKeysStay
<1> QED BY <1>1, <1>5 DEF Lease!Issue

\* The last command of a logout is answered when no worker accepts the key.
LEMMA DropAnswersLogout ==
  ASSUME OneStore, IInv, LogoutInv, NEW r \in Request, DropIndex(r), logout[r]
  PROVE  Lease!AnswerLogout(target[r])
<1> USE DEF IInv, TypeOK, RequestInv, DropIndex, clockVars, loginVars
<1>1. save[target[r]] = "saved" /\ until[target[r]] = 0 BY DEF LogoutInv
<1>2. LeaseStatus[target[r]] \in {"valid", "over"} BY <1>1 DEF LeaseStatus
<1>3. \A w \in Worker : target[r] \notin memory'[w] \/ ~InMemory
  BY DEF OneStore
<1>4. \A w \in Worker : ~Found(target[r], w)'
  BY <1>1, <1>3 DEF Found, InRedis
<1>5. LeaseStatus'[target[r]] = "over" BY <1>1, <1>4 DEF LeaseStatus
<1>6. \A s \in Session \ {target[r]} : \A w \in Worker : Found(s, w)' <=> Found(s, w)
  BY DEF Found, InRedis
<1>7. LeaseStatus' = [LeaseStatus EXCEPT ![target[r]] = "over"]
  BY <1>5, <1>6, OtherKeysStay
<1> QED BY <1>2, <1>7 DEF Lease!AnswerLogout

\* Every other step ends keys or changes none.
LEMMA OtherStepsEnd ==
  ASSUME IInv, IInv', [Next]_vars,
         \A t \in Session : ~SaveIndex(t),
         \A r \in Request : DropIndex(r) => ~logout[r]
  PROVE  \E S \in SUBSET Session : Lease!End(S)
<1> USE DEF IInv, TypeOK, clockVars, loginVars, storeVars, requestVars
<1>1. CASE Tick \/ UNCHANGED vars BY <1>1, KeysOnlyEnd DEF Tick, vars
<1>2. ASSUME NEW t \in Session,
             StartSave(t) \/ SaveRecord(t) \/ SaveFails(t) \/ RemoteExpires(t)
      PROVE  \E S \in SUBSET Session : Lease!End(S)
  <2>1. /\ UNCHANGED <<now, memory, loggedOut>>
        /\ \A s \in Session \ {t} : /\ save'[s] = save[s] /\ until'[s] = until[s]
                                   /\ expires'[s] = expires[s]
        /\ \/ save[t] # "saved" /\ save'[t] # "saved"
           \/ UNCHANGED <<save, until, expires>>
    BY <1>2 DEF StartSave, SaveRecord, SaveFails, RemoteExpires
  <2> QED BY <2>1, KeysOnlyEnd
<1>3. ASSUME NEW r \in Request, RequestStep(r) \/ DropFails(r)
      PROVE  \E S \in SUBSET Session : Lease!End(S)
  <2>1. /\ UNCHANGED <<now, save, expires, loggedOut>>
        /\ \A s \in Session : until'[s] \in {0, until[s]}
        /\ \A w \in Worker : memory'[w] \subseteq memory[w]
    <3>1. UNCHANGED loggedOut
      BY <1>3 DEF RequestStep, Resume, LogoutRemote, RemoteUnknown, Answer, DropRecord,
                  DropIndex, DropFails
    <3> QED BY <1>3, <3>1, RequestOnlyDeletes
  <2> QED BY <2>1, KeysOnlyEnd
<1>4. ASSUME NEW w \in Worker, ReaperStep(w) \/ CycleFails(w) \/ Crash(w)
      PROVE  \E S \in SUBSET Session : Lease!End(S)
  <2>1. /\ UNCHANGED <<now, expires, loggedOut>>
        /\ \A s \in Session : until'[s] \in {0, until[s]}
        /\ \A v \in Worker : memory'[v] \subseteq memory[v]
        /\ \A s \in Session : save'[s] = "saved" <=> save[s] = "saved"
    BY <1>4, ReaperOnlyDeletes
  <2> QED BY <2>1, KeysOnlyEnd
<1> QED BY <1>1, <1>2, <1>3, <1>4 DEF Next

\* The store keeps what SessionLease promises the client: a key is issued by the
\* end of its save, ends by time, deletion or crash, and is never accepted again.
THEOREM ImplementsSessionLease ==
  ASSUME OneStore
  PROVE  Spec => KeepsLease
<1>1. Init => Lease!Init BY DEF Init, Lease!Init, LeaseStatus
<1>2. IInv /\ IInv' /\ LogoutInv /\ [Next]_vars => [Lease!Next]_(Lease!vars)
  <2> SUFFICES ASSUME IInv, IInv', LogoutInv, [Next]_vars
               PROVE  Lease!Next
    OBVIOUS
  <2>1. CASE \E t \in Session : SaveIndex(t) BY <2>1, SaveIssues DEF Lease!Next
  <2>2. CASE \E r \in Request : DropIndex(r) /\ logout[r]
    BY <2>2, DropAnswersLogout DEF Lease!Next, IInv, TypeOK
  <2>3. CASE /\ \A t \in Session : ~SaveIndex(t)
             /\ \A r \in Request : DropIndex(r) => ~logout[r]
    BY <2>3, OtherStepsEnd DEF Lease!Next
  <2> QED BY <2>1, <2>2, <2>3
<1> QED BY Invariance, InitLogoutInv, LogoutInvStep, <1>1, <1>2, PTL
        DEF Spec, KeepsLease, Lease!Spec
=============================================================================

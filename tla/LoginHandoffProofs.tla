------------------------- MODULE LoginHandoffProofs -------------------------
(***************************************************************************)
(* The safety properties of LoginHandoff, proved for any set of logins and *)
(* any size of the thread pool.                                            *)
(***************************************************************************)
EXTENDS LoginHandoff, TLAPS

\* The worker: "finished" says how far it got, it cleans up only what was
\* abandoned, and the remote session exists only after api.open.
WorkerInv(l) ==
    /\ finished[l] <=> worker[l] \in {"checking", "cleanup", "closing", "done"}
    /\ worker[l] \in {"cleanup", "closing"} => abandoned[l]
    /\ worker[l] \in {"none", "queued", "opening", "cancelled"} => remote[l] = "none"
    /\ handler[l] = "idle" => worker[l] = "none"
    /\ handler[l] \notin {"idle", "rejected"} => worker[l] # "none"

\* The handler: which exits it has taken, and what it knows about the worker
\* when it goes on with the session it obtained.
HandlerInv(l) ==
    /\ abandoned[l] <=>
          \/ handler[l] \in {"check", "awaitClose", "dropRecord", "dropIndex",
                             "dirty", "killed"}
          \/ handler[l] = "rejected" /\ worker[l] # "none"
    /\ handler[l] \in {"saveRecord", "saveIndex", "optimizer", "returned"} =>
          /\ worker[l] = "done" /\ remote[l] = "open" /\ keyed[l]
          /\ ~started[l] /\ closes[l] = 0 /\ closer[l] = "none"
    /\ handler[l] \in {"idle", "opening", "saveRecord"} => ~record[l] /\ ~index[l]
    /\ handler[l] \in {"saveIndex", "optimizer", "returned"} => record[l]
    /\ handler[l] \in {"optimizer", "returned"} => index[l]
    /\ ~keyed[l] => ~record[l] /\ ~index[l]
    /\ handler[l] = "dropIndex" => ~record[l]
    /\ handler[l] = "rejected" => ~record[l] /\ ~index[l]

\* close_abandoned_session: whoever sets cleanup_started closes, once.
CleanupInv(l) ==
    /\ closes[l] \in {0, 1}
    /\ started[l] <=> closes[l] = 1 \/ worker[l] = "closing" \/ closer[l] = "closing"
    /\ started[l] => abandoned[l]
    /\ remote[l] = "closed" => closes[l] = 1
    /\ worker[l] = "closing" => closes[l] = 0 /\ closer[l] # "closing"
    /\ closer[l] = "closing" => closes[l] = 0
    /\ closer[l] # "none" => abandoned[l] /\ finished[l]
    /\ closer[l] = "done" => started[l]
    /\ closer[l] = "cancelled" => handler[l] = "killed"
    /\ handler[l] = "check" => closer[l] = "none"

\* Of the two parties that look for each other, one finds the other: an
\* abandoned session whose worker is done has its close behind it or before
\* it, unless the close was cancelled in the executor's queue.
HandoffInv(l) ==
    abandoned[l] /\ worker[l] = "done" /\ handler[l] # "check" =>
        started[l] \/ closer[l] \in {"queued", "cleanup", "cancelled"}

IInv == /\ TypeOK
        /\ \A l \in Login : /\ WorkerInv(l)
                            /\ HandlerInv(l)
                            /\ CleanupInv(l)
                            /\ HandoffInv(l)

LEMMA InitIInv == Init => IInv
  BY DEF Init, IInv, TypeOK, WorkerInv, HandlerInv, CleanupInv, HandoffInv,
         HandlerPhase, WorkerPhase, CloserPhase

\* Every step of a thread preserves the invariant.
LEMMA ThreadPreserves ==
  ASSUME IInv, NEW l \in Login, ThreadStep(l)
  PROVE  IInv'
<1> USE DEF IInv, TypeOK, WorkerInv, HandlerInv, CleanupInv, HandoffInv,
            HandlerPhase, WorkerPhase, CloserPhase
<1>1. CASE StartWorker(l) BY <1>1 DEF StartWorker
<1>2. CASE OpenRemote(l) BY <1>2 DEF OpenRemote
<1>3. CASE SetFinished(l) BY <1>3 DEF SetFinished
<1>4. CASE CheckAbandoned(l) BY <1>4 DEF CheckAbandoned
<1>5. CASE WorkerClaims(l) BY <1>5 DEF WorkerClaims, Claim
<1>6. CASE WorkerCloses(l) BY <1>6 DEF WorkerCloses, CallClose
<1>7. CASE StartCloser(l) BY <1>7 DEF StartCloser
<1>8. CASE CloserClaims(l) BY <1>8 DEF CloserClaims, Claim
<1>9. CASE CloserCloses(l) BY <1>9 DEF CloserCloses, CallClose
<1> QED BY <1>1, <1>2, <1>3, <1>4, <1>5, <1>6, <1>7, <1>8, <1>9 DEF ThreadStep

\* Every step of the handler preserves the invariant, failures included.
LEMMA HandlerPreserves ==
  ASSUME IInv, NEW l \in Login,
         Refuse(l) \/ Begin(l) \/ HandlerProgress(l) \/ Misfortune(l)
  PROVE  IInv'
<1> USE DEF IInv, TypeOK, WorkerInv, HandlerInv, CleanupInv, HandoffInv,
            HandlerPhase, WorkerPhase, CloserPhase
<1>1. CASE Refuse(l) BY <1>1 DEF Refuse
<1>2. CASE Begin(l) BY <1>2 DEF Begin
<1>3. CASE HandlerProgress(l)
  <2>1. CASE Opened(l) BY <2>1 DEF Opened
  <2>2. CASE OpenFailed(l) BY <2>2 DEF OpenFailed
  <2>3. CASE SaveRecord(l) BY <2>3 DEF SaveRecord
  <2>4. CASE SaveIndex(l) BY <2>4 DEF SaveIndex
  <2>5. CASE Return(l) BY <2>5 DEF Return
  <2>6. CASE SetAbandoned(l) BY <2>6 DEF SetAbandoned
  <2>7. CASE CheckFinished(l) BY <2>7 DEF CheckFinished, AfterClose
  <2>8. CASE CloseAwaited(l) BY <2>8 DEF CloseAwaited, AfterClose
  <2>9. CASE DropRecord(l) BY <2>9 DEF DropRecord
  <2>10. CASE DropIndex(l) BY <2>10 DEF DropIndex
  <2> QED BY <1>3, <2>1, <2>2, <2>3, <2>4, <2>5, <2>6, <2>7, <2>8, <2>9, <2>10
          DEF HandlerProgress
<1>4. CASE Misfortune(l)
  <2>1. CASE GiveUpOpening(l) BY <2>1 DEF GiveUpOpening, Cancelled
  <2>2. CASE SaveRecordFails(l) BY <2>2 DEF SaveRecordFails
  <2>3. CASE SaveIndexFails(l) BY <2>3 DEF SaveIndexFails
  <2>4. CASE CancelOptimizer(l) BY <2>4 DEF CancelOptimizer
  <2>5. CASE CancelAwaitClose(l) BY <2>5 DEF CancelAwaitClose, Cancelled
  <2>6. CASE DropRecordFails(l) BY <2>6 DEF DropRecordFails
  <2>7. CASE DropIndexFails(l) BY <2>7 DEF DropIndexFails
  <2> QED BY <1>4, <2>1, <2>2, <2>3, <2>4, <2>5, <2>6, <2>7 DEF Misfortune
<1> QED BY <1>1, <1>2, <1>3, <1>4

LEMMA StutterPreserves == IInv /\ UNCHANGED vars => IInv'
  BY DEF vars, IInv, TypeOK, WorkerInv, HandlerInv, CleanupInv, HandoffInv

\* The inductive invariant holds in every reachable state.
THEOREM Invariance == Spec => []IInv
<1>1. IInv /\ [Next]_vars => IInv'
  BY ThreadPreserves, HandlerPreserves, StutterPreserves DEF Next, Step
<1> QED BY InitIInv, <1>1, PTL DEF Spec

\* Every variable of the login keeps its type.
THEOREM TypeCorrect == Spec => []TypeOK
<1>1. IInv => TypeOK BY DEF IInv
<1> QED BY Invariance, <1>1, PTL

\* The worker and the handler never both close the session of a login.
THEOREM CleanupRunsOnce == Spec => []ClosedAtMostOnce
<1>1. IInv => ClosedAtMostOnce BY DEF IInv, CleanupInv, ClosedAtMostOnce
<1> QED BY Invariance, <1>1, PTL

\* No interleaving of the cleanup touches a session whose key was returned.
THEOREM ReturnedKeySafety == Spec => []ReturnedKeyIsUsable
<1>1. IInv => ReturnedKeyIsUsable BY DEF IInv, HandlerInv, ReturnedKeyIsUsable
<1> QED BY Invariance, <1>1, PTL

\* A login that failed tried to close whatever it opened.
THEOREM NoOrphanSafety == Spec => []NoOrphan
<1>1. IInv => NoOrphan
  BY DEF IInv, TypeOK, WorkerInv, HandlerInv, CleanupInv, HandoffInv, NoOrphan,
         Rejected, Quiet, WorkerPhase, CloserPhase, HandlerPhase
<1> QED BY Invariance, <1>1, PTL

\* A rejected login leaves neither a record nor an index entry.
THEOREM RejectedRecordSafety == Spec => []RejectedLeavesNoRecord
<1>1. IInv => RejectedLeavesNoRecord
  BY DEF IInv, HandlerInv, RejectedLeavesNoRecord
<1> QED BY Invariance, <1>1, PTL
=============================================================================

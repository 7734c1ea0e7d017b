-------------------------- MODULE OptimizerProofs --------------------------
(***************************************************************************)
(* Proofs about Optimizer, for every number of runs and combinations and   *)
(* for every measurement.                                                  *)
(***************************************************************************)
EXTENDS Optimizer, FiniteSetTheorems, TLAPS

\* Nothing is measured before the measurements begin.
FreshInv ==
    \A r \in Run :
        /\ stage[r] \in {"idle", "readSemaphore", "readAttempts", "lock", "metrics", "baseline"}
             => measured[r] = <<>> /\ best[r] = 0
        /\ stage[r] = "measure" => Len(measured[r]) < Combinations

\* b is the first of the highest scores among the usable ones of the first n.
IsChoice(b, n, usable, score) ==
    /\ b \in 0..n
    /\ b = 0 => \A c \in 1..n : c \notin usable
    /\ b # 0 => /\ b \in usable
                /\ \A c \in 1..n : c \in usable =>
                      score[c] <= score[b] /\ (c < b => score[c] < score[b])

UsableOnes(list) == {c \in 1..Len(list) : Usable(list[c])}
Scores(list, base) == [c \in 1..Len(list) |-> ParameterScore(list[c], base)]

\* b is the best combination of the list.
IsBest(b, list, base) == IsChoice(b, Len(list), UsableOnes(list), Scores(list, base))

BestInv ==
    \A r \in Run : stage[r] \in {"measure", "setSemaphore"} =>
        IsBest(best[r], measured[r], baseline[r])

IInv == TypeOK /\ FreshInv /\ BestInv

\* A working run wrote the lock that is there now, and it has not expired.
Held == lock > now /\ \E r \in Working : since[r] + LockTTL = lock

\* A run that has overrun did so while it worked.
OverranInv ==
    \A r \in overran : /\ stage[r] \in Critical \cup {"done", "dead"}
                       /\ stage[r] \in Critical => now >= since[r] + LockTTL

\* One run works under the lock it wrote; every other that works is there
\* because some run outlasted its lock.
LockInv ==
    /\ OverranInv
    /\ Cardinality(Working) <= Cardinality(overran) + (IF Held THEN 1 ELSE 0)

----------------------------------------------------------------------------
LEMMA MeasurementNat ==
    ASSUME NEW m \in Measurement
    PROVE  m.rate \in Nat /\ m.time \in Nat
<1>1. m.rate \in Rate /\ m.time \in Time
  BY DEF Measurement
<1>2. Rate \subseteq Nat /\ Time \subseteq Nat
  BY OptimizerAssumption
<1> QED BY <1>1, <1>2, Zenon

LEMMA ScoreNat ==
    ASSUME NEW m \in Measurement, NEW base \in Nat
    PROVE  ParameterScore(m, base) \in Nat
<1> DEFINE spared == IF 2 * m.time < base THEN 2 * base
                     ELSE IF 2 * m.time > 3 * base THEN 0
                     ELSE 3 * base - 2 * m.time
<1>1. m.rate \in Nat /\ m.time \in Nat
  BY MeasurementNat
<1>2. ASSUME NEW a \in Nat, NEW b \in Nat
      PROVE  a * b \in Nat
  BY <1>2
<1>3. spared \in Nat
  BY <1>1
<1>4. spared * m.rate \in Nat
  <2> HIDE DEF spared
  <2> QED BY <1>1, <1>2, <1>3
<1> QED BY <1>4, Zenon DEF ParameterScore

LEMMA ProductOrder ==
    ASSUME NEW a \in Nat, NEW b \in Nat, NEW p \in Nat, NEW q \in Nat,
           a > b, p >= q, q >= 1
    PROVE  a * p > b * q
<1> DEFINE x == a * p
           y == a * q
           z == b * q
<1>1. y >= z + q
  BY SMTT(20)
<1>2. x >= y
  BY SMTT(20)
<1>3. x \in Int /\ y \in Int /\ z \in Int
  OBVIOUS
<1>4. x > z
  <2> HIDE DEF x, y, z
  <2> QED BY <1>1, <1>2, <1>3
<1> QED BY <1>4

\* A faster measurement that is as reliable has the higher score, unless both
\* times are beyond the same end of the scale.
LEMMA ScoreOrder ==
    ASSUME NEW m \in Measurement, NEW n \in Measurement, NEW base \in Nat,
           m.time < n.time, m.rate >= n.rate, Usable(n),
           2 * n.time > base, 2 * m.time < 3 * base
    PROVE  ParameterScore(m, base) > ParameterScore(n, base)
<1> DEFINE Spared(t) == IF 2 * t < base THEN 2 * base
                        ELSE IF 2 * t > 3 * base THEN 0
                        ELSE 3 * base - 2 * t
<1>1. /\ m.rate \in Nat /\ m.time \in Nat
      /\ n.rate \in Nat /\ n.time \in Nat /\ n.rate >= MinRate
      /\ MinRate >= 1 /\ MinRate \in Nat
  BY MeasurementNat, OptimizerAssumption DEF Usable
<1>2. ASSUME NEW t \in Nat, NEW u \in Nat, t < u, 2 * u > base, 2 * t < 3 * base
      PROVE  Spared(t) \in Nat /\ Spared(u) \in Nat /\ Spared(t) > Spared(u)
  BY <1>2
<1> DEFINE x == Spared(m.time) * m.rate
           y == Spared(n.time) * n.rate
<1>3. x > y
  <2>1. /\ Spared(m.time) \in Nat /\ Spared(n.time) \in Nat
        /\ Spared(m.time) > Spared(n.time)
    BY <1>1, <1>2
  <2>2. n.rate >= 1
    BY <1>1
  <2> HIDE DEF Spared
  <2> QED BY <1>1, <2>1, <2>2, ProductOrder
<1>4. ParameterScore(m, base) = x /\ ParameterScore(n, base) = y
  BY Zenon DEF ParameterScore
<1> HIDE DEF x, y
<1> QED BY <1>3, <1>4

\* One more score: it is taken when it is higher than the old choice's.
LEMMA ChoiceExtends ==
    ASSUME NEW n \in Nat, NEW usable, NEW score, NEW old \in 0..n,
           \A c \in 1..(n + 1) : score[c] \in Nat,
           IsChoice(old, n, usable, score)
    PROVE  IsChoice(IF n + 1 \in usable /\ (old = 0 \/ score[n + 1] > score[old])
                      THEN n + 1 ELSE old, n + 1, usable, score)
<1>1. \A c \in 1..(n + 1) : c \in 1..n \/ c = n + 1
  OBVIOUS
<1>2. CASE n + 1 \in usable /\ old = 0
  BY <1>1, <1>2 DEF IsChoice
<1>3. CASE n + 1 \in usable /\ old # 0 /\ score[n + 1] > score[old]
  <2>1. \A c \in 1..n : c \in usable => score[c] < score[n + 1]
    BY <1>3 DEF IsChoice
  <2> QED BY <1>1, <1>3, <2>1 DEF IsChoice
<1>4. CASE old # 0 /\ ~(n + 1 \in usable /\ score[n + 1] > score[old])
  <2>1. n + 1 \in usable => score[n + 1] <= score[old]
    BY <1>4
  <2>2. old < n + 1 /\ old \in 0..(n + 1)
    OBVIOUS
  <2> QED BY <1>1, <1>4, <2>1, <2>2 DEF IsChoice
<1>5. CASE old = 0 /\ n + 1 \notin usable
  BY <1>1, <1>5 DEF IsChoice
<1> QED BY <1>2, <1>3, <1>4, <1>5

\* One more measurement: NewBest keeps the choice right.
LEMMA NewBestIsBest ==
    ASSUME IInv, NEW r \in Run, stage[r] = "measure", NEW m \in Measurement
    PROVE  IsBest(NewBest(r, m), Append(measured[r], m), baseline[r])
<1> DEFINE list == measured[r]
           base == baseline[r]
           old == best[r]
           n == Len(list)
           longer == Append(list, m)
           usable == UsableOnes(longer)
           score == Scores(longer, base)
<1>1. /\ list \in Seq(Measurement) /\ base \in Nat
      /\ IsBest(old, list, base)
  BY DEF IInv, TypeOK, BestInv
<1>2. NewBest(r, m) = IF Usable(m) /\ (old = 0 \/ ParameterScore(m, base) > ParameterScore(list[old], base))
                        THEN n + 1 ELSE old
  BY DEF NewBest
<1> HIDE DEF list, base, old, longer
<1>3. /\ n \in Nat /\ Len(longer) = n + 1
      /\ \A c \in 1..n : longer[c] = list[c] /\ list[c] \in Measurement
      /\ longer[n + 1] = m
  BY <1>1 DEF longer
<1>4. \A c \in 1..(n + 1) : longer[c] \in Measurement
  BY <1>3
<1> HIDE DEF n
<1>5. \A c \in 1..(n + 1) : /\ score[c] = ParameterScore(longer[c], base)
                            /\ score[c] \in Nat
                            /\ c \in usable <=> Usable(longer[c])
  BY <1>1, <1>3, <1>4, ScoreNat DEF Scores, UsableOnes
<1>6. old \in 0..n /\ IsChoice(old, n, UsableOnes(list), Scores(list, base))
  BY <1>1 DEF IsBest, IsChoice, n
<1>7. \A c \in 1..n : /\ Scores(list, base)[c] = score[c]
                      /\ c \in UsableOnes(list) <=> c \in usable
  <2>1. \A c \in 1..n : /\ Scores(list, base)[c] = ParameterScore(list[c], base)
                        /\ c \in UsableOnes(list) <=> Usable(list[c])
    BY DEF Scores, UsableOnes, n
  <2>2. \A c \in 1..n : c \in 1..(n + 1)
    BY <1>3
  <2> HIDE DEF score, usable
  <2> QED BY <1>3, <1>5, <2>1, <2>2
<1> HIDE DEF score, usable
<1>8. IsChoice(old, n, usable, score)
  <2>1. old # 0 => old \in 1..n
    BY <1>3, <1>6
  <2> QED BY <1>3, <1>6, <1>7, <2>1 DEF IsChoice
<1>9. IsChoice(IF n + 1 \in usable /\ (old = 0 \/ score[n + 1] > score[old])
                 THEN n + 1 ELSE old, n + 1, usable, score)
  BY <1>3, <1>5, <1>6, <1>8, ChoiceExtends
<1>10. /\ n + 1 \in usable <=> Usable(m)
       /\ score[n + 1] = ParameterScore(m, base)
       /\ old # 0 => score[old] = ParameterScore(list[old], base)
  <2>1. n + 1 \in 1..(n + 1) /\ (old # 0 => old \in 1..n /\ old \in 1..(n + 1))
    BY <1>3, <1>6
  <2> QED BY <1>3, <1>5, <2>1
<1>11. NewBest(r, m) = IF n + 1 \in usable /\ (old = 0 \/ score[n + 1] > score[old])
                         THEN n + 1 ELSE old
  BY <1>2, <1>10
<1>12. IsBest(NewBest(r, m), longer, base)
  BY <1>3, <1>9, <1>11, Zenon DEF IsBest, usable, score
<1> QED BY <1>12 DEF longer, list, base

----------------------------------------------------------------------------
\* What a step of one run leaves alone in the others.
LEMMA OthersUnchanged ==
    ASSUME TypeOK, NEW r \in Run, Begin(r) \/ Step(r) \/ RunFails(r) \/ RunDies(r)
    PROVE  \A q \in Run \ {r} :
              /\ stage'[q] = stage[q] /\ since'[q] = since[q]
              /\ measured'[q] = measured[q] /\ best'[q] = best[q]
              /\ baseline'[q] = baseline[q]
  BY DEF TypeOK, Begin, Step, ReadSemaphore, ReadAttempts, AcquireLock, LockTaken, Analyze,
     MeasureBaseline, Measure, SetSemaphore, SetAttempts, Release, RunFails, RunDies, Forget

LEMMA MeasureStep ==
    ASSUME IInv, NEW r \in Run, Measure(r)
    PROVE  IInv'
<1> PICK m \in Measurement : /\ best' = [best EXCEPT ![r] = NewBest(r, m)]
                             /\ measured' = [measured EXCEPT ![r] = Append(@, m)]
  BY DEF Measure
<1> USE DEF IInv
<1>1. IsBest(NewBest(r, m), Append(measured[r], m), baseline[r])
  BY NewBestIsBest DEF Measure
<1>2. /\ measured[r] \in Seq(Measurement) /\ Len(measured[r]) < Combinations
      /\ Append(measured[r], m) \in Seq(Measurement)
      /\ Len(Append(measured[r], m)) = Len(measured[r]) + 1
  BY DEF TypeOK, FreshInv, Measure
<1>3. NewBest(r, m) \in 0..Combinations
  BY <1>1, <1>2, OptimizerAssumption DEF IsBest, IsChoice
<1>4. TypeOK'
  <2>1. measured' \in [Run -> Seq(Measurement)] /\ best' \in [Run -> 0..Combinations]
    BY <1>2, <1>3 DEF TypeOK
  <2>2. \A q \in Run : Len(measured'[q]) <= Combinations
    BY <1>2, OptimizerAssumption DEF TypeOK
  <2>3. stage' \in [Run -> Stage]
    BY DEF TypeOK, Measure, Stage
  <2> QED BY <2>1, <2>2, <2>3 DEF TypeOK, Measure
<1>5. FreshInv'
  BY <1>2, OptimizerAssumption DEF FreshInv, TypeOK, Measure
<1>6. BestInv'
  <2>1. baseline' = baseline /\ measured'[r] = Append(measured[r], m) /\ best'[r] = NewBest(r, m)
    BY DEF TypeOK, Measure
  <2>2. \A q \in Run \ {r} : stage'[q] = stage[q] /\ measured'[q] = measured[q] /\ best'[q] = best[q]
    BY DEF TypeOK, Measure
  <2>3. IsBest(best[r]', measured[r]', baseline[r]')
    BY <1>1, <2>1
  <2>4. \A q \in Run \ {r} : stage'[q] \in {"measure", "setSemaphore"} =>
            IsBest(best'[q], measured'[q], baseline'[q])
    BY <2>1, <2>2 DEF BestInv
  <2> QED BY <2>3, <2>4 DEF BestInv
<1> QED BY <1>4, <1>5, <1>6

\* Every other step of a run, and the clock.
LEMMA OtherStep ==
    ASSUME IInv, NEW r \in Run,
           Begin(r) \/ (Step(r) /\ ~Measure(r)) \/ RunFails(r) \/ RunDies(r)
    PROVE  IInv'
<1> USE OptimizerAssumption DEF IInv
<1>1. measured' = measured \/ measured' = [measured EXCEPT ![r] = <<>>]
  BY DEF Begin, Step, ReadSemaphore, ReadAttempts, AcquireLock, LockTaken, Analyze,
     MeasureBaseline, SetSemaphore, SetAttempts, Release, RunFails, RunDies, Forget
<1>2. TypeOK'
  <2>1. measured' \in [Run -> Seq(Measurement)] /\ \A q \in Run : Len(measured'[q]) <= Combinations
    <3>1. <<>> \in Seq(Measurement) /\ Len(<<>>) = 0 /\ 0 <= Combinations
      OBVIOUS
    <3> QED BY <1>1, <3>1 DEF TypeOK
  <2>2. stage' \in [Run -> Stage]
    BY DEF TypeOK, Stage, Begin, Step, ReadSemaphore, ReadAttempts, AcquireLock, LockTaken, Analyze,
       MeasureBaseline, SetSemaphore, SetAttempts, Release, RunFails, RunDies, Forget
  <2>3. saw' \in [Run -> BOOLEAN]
    <3>1. \/ saw' = saw
          \/ saw' = [saw EXCEPT ![r] = FALSE]
          \/ saw' = [saw EXCEPT ![r] = Present("semaphore")]
      BY Zenon DEF Begin, Step, ReadSemaphore, ReadAttempts, AcquireLock, LockTaken, Analyze,
         MeasureBaseline, SetSemaphore, SetAttempts, Release, RunFails, RunDies, Forget
    <3>2. Present("semaphore") \in BOOLEAN
      BY SMT DEF Present
    <3> QED BY <3>1, <3>2, Zenon DEF TypeOK
  <2>4. since' \in [Run -> 0..MaxTime]
    <3>0. now \in 0..MaxTime /\ 0 \in 0..MaxTime
      BY DEF TypeOK
    <3>1. since' = since \/ since' = [since EXCEPT ![r] = 0] \/ since' = [since EXCEPT ![r] = now]
      BY DEF Begin, Step, ReadSemaphore, ReadAttempts, AcquireLock, LockTaken, Analyze,
         MeasureBaseline, SetSemaphore, SetAttempts, Release, RunFails, RunDies, Forget
    <3> QED BY <3>0, <3>1 DEF TypeOK
  <2>5. baseline' \in [Run -> Nat]
    <3>1. \/ baseline' = baseline
          \/ baseline' = [baseline EXCEPT ![r] = 0]
          \/ \E m \in Measurement : baseline' = [baseline EXCEPT ![r] = m.time]
      BY DEF Begin, Step, ReadSemaphore, ReadAttempts, AcquireLock, LockTaken, Analyze,
         MeasureBaseline, SetSemaphore, SetAttempts, Release, RunFails, RunDies, Forget
    <3>2. 0 \in Nat /\ \A m \in Measurement : m.time \in Nat
      BY MeasurementNat
    <3>3. baseline' = baseline \/ \E t \in Nat : baseline' = [baseline EXCEPT ![r] = t]
      BY <3>1, <3>2, Zenon
    <3>4. baseline \in [Run -> Nat]
      BY DEF TypeOK
    <3> QED BY <3>3, <3>4
  <2>6. best' \in [Run -> 0..Combinations]
    <3>0. 0 \in 0..Combinations
      OBVIOUS
    <3>1. best' = best \/ best' = [best EXCEPT ![r] = 0]
      BY DEF Begin, Step, ReadSemaphore, ReadAttempts, AcquireLock, LockTaken, Analyze,
         MeasureBaseline, SetSemaphore, SetAttempts, Release, RunFails, RunDies, Forget
    <3> QED BY <3>0, <3>1 DEF TypeOK
  <2>7. lock' \in Nat /\ overran' \in SUBSET Run
    BY DEF TypeOK, Begin, Step, ReadSemaphore, ReadAttempts, AcquireLock, LockTaken, Analyze,
         MeasureBaseline, SetSemaphore, SetAttempts, Release, RunFails, RunDies, Forget
  <2>8. value' \in [Key -> 0..Combinations] /\ until' \in [Key -> Nat]
    <3>1. \/ UNCHANGED <<value, until>>
          \/ \E k \in Key : /\ value' = [value EXCEPT ![k] = best[r]]
                            /\ until' = [until EXCEPT ![k] = now + ParamTTL]
      BY Zenon DEF Publish, Key, Begin, Step, ReadSemaphore, ReadAttempts, AcquireLock, LockTaken, Analyze,
         MeasureBaseline, SetSemaphore, SetAttempts, Release, RunFails, RunDies, Forget
    <3>2. best[r] \in 0..Combinations /\ now + ParamTTL \in Nat
      BY DEF TypeOK
    <3> QED BY <3>1, <3>2 DEF TypeOK
  <2>9. now' = now /\ (faults' = faults \/ (faults < MaxFaults /\ faults' = faults + 1))
    BY DEF Fault, Begin, Step, ReadSemaphore, ReadAttempts, AcquireLock, LockTaken, Analyze,
       MeasureBaseline, SetSemaphore, SetAttempts, Release, RunFails, RunDies, Forget
  <2>10. now' \in 1..MaxTime /\ faults' \in 0..MaxFaults
    BY <2>9 DEF TypeOK
  <2> QED BY <2>1, <2>2, <2>3, <2>4, <2>5, <2>6, <2>7, <2>8, <2>10 DEF TypeOK
<1>3. FreshInv' /\ BestInv'
  <2>1. \A q \in Run \ {r} : /\ stage'[q] = stage[q] /\ measured'[q] = measured[q]
                             /\ best'[q] = best[q] /\ baseline'[q] = baseline[q]
    BY OthersUnchanged
  <2>2. /\ stage'[r] \in {"idle", "readSemaphore", "readAttempts", "lock", "metrics", "baseline"}
             => measured'[r] = <<>> /\ best'[r] = 0
        /\ stage'[r] = "measure" => measured'[r] = <<>> /\ best'[r] = 0
        /\ stage'[r] = "setSemaphore" => measured'[r] = <<>> /\ best'[r] = 0
    BY DEF TypeOK, FreshInv, Begin, Step, ReadSemaphore, ReadAttempts, AcquireLock, LockTaken,
       Analyze, MeasureBaseline, SetSemaphore, SetAttempts, Release, RunFails, RunDies, Forget
  <2>3. \A base : IsBest(0, <<>>, base)
    BY DEF IsBest, IsChoice
  <2>4. FreshInv'
    BY <2>1, <2>2 DEF FreshInv
  <2>5. BestInv'
    <3>1. stage'[r] \in {"measure", "setSemaphore"} => IsBest(best'[r], measured'[r], baseline'[r])
      BY <2>2, <2>3
    <3>2. \A q \in Run \ {r} : stage'[q] \in {"measure", "setSemaphore"} =>
              IsBest(best'[q], measured'[q], baseline'[q])
      BY <2>1 DEF BestInv
    <3> QED BY <3>1, <3>2 DEF BestInv
  <2> QED BY <2>4, <2>5
<1> QED BY <1>2, <1>3

----------------------------------------------------------------------------
\* The invariant of the measurements is inductive.
THEOREM Invariance == Spec => []IInv
<1>1. Init => IInv
  BY OptimizerAssumption DEF Init, IInv, TypeOK, FreshInv, BestInv, Stage, Key
<1>2. IInv /\ [Next]_vars => IInv'
  <2> SUFFICES ASSUME IInv, [Next]_vars PROVE IInv'
    OBVIOUS
  <2>1. CASE UNCHANGED vars
    BY <2>1 DEF vars, IInv, TypeOK, FreshInv, BestInv
  <2>2. CASE Tick
    BY <2>2, OptimizerAssumption DEF Tick, IInv, TypeOK, FreshInv, BestInv
  <2>3. ASSUME NEW r \in Run, Begin(r) \/ Step(r) \/ RunFails(r) \/ RunDies(r)
        PROVE  IInv'
    BY <2>3, MeasureStep, OtherStep
  <2> QED BY <2>1, <2>2, <2>3 DEF Next
<1> QED BY <1>1, <1>2, PTL DEF Spec

\* The variables keep their types; no list of measurements grows too long.
THEOREM TypeCorrect == Spec => []TypeOK
  BY Invariance, PTL DEF IInv

\* What being the best means for usable combinations that were faster.
LEMMA BestIsFastest ==
    ASSUME NEW list \in Seq(Measurement), NEW base \in Nat, NEW b \in Nat, b # 0,
           IsBest(b, list, base)
    PROVE  /\ Usable(list[b])
           /\ \A c \in 1..Len(list) :
                /\ Usable(list[c]) /\ list[c].time < list[b].time /\ list[c].rate >= list[b].rate
                     => 2 * list[b].time <= base \/ 2 * list[c].time >= 3 * base
                /\ list[c] = list[b] => b <= c
<1>1. \A c \in 1..Len(list) : list[c] \in Measurement /\ ParameterScore(list[c], base) \in Nat
  <2>1. \A c \in 1..Len(list) : list[c] \in Measurement
    OBVIOUS
  <2> QED BY <2>1, ScoreNat
<1>2. \A c \in 1..Len(list) : list[c].time \in Nat
  BY <1>1, MeasurementNat
<1>3. /\ b \in 1..Len(list) /\ Usable(list[b])
      /\ \A c \in 1..Len(list) : Usable(list[c]) =>
            /\ ParameterScore(list[c], base) <= ParameterScore(list[b], base)
            /\ c < b => ParameterScore(list[c], base) < ParameterScore(list[b], base)
  <2>1. b \in 1..Len(list)
    BY DEF IsBest, IsChoice
  <2>2. /\ b \in UsableOnes(list)
        /\ \A c \in 1..Len(list) : c \in UsableOnes(list) =>
              /\ Scores(list, base)[c] <= Scores(list, base)[b]
              /\ c < b => Scores(list, base)[c] < Scores(list, base)[b]
    BY Zenon DEF IsBest, IsChoice
  <2>3. \A c \in 1..Len(list) : /\ c \in UsableOnes(list) <=> Usable(list[c])
                                /\ Scores(list, base)[c] = ParameterScore(list[c], base)
    BY DEF UsableOnes, Scores
  <2> QED BY <2>1, <2>2, <2>3
<1>4. ASSUME NEW c \in 1..Len(list), Usable(list[c]), list[c].time < list[b].time,
             list[c].rate >= list[b].rate
      PROVE  2 * list[b].time <= base \/ 2 * list[c].time >= 3 * base
  <2>1. ParameterScore(list[c], base) <= ParameterScore(list[b], base)
    BY <1>3, <1>4
  <2>2. ~(ParameterScore(list[c], base) > ParameterScore(list[b], base))
    BY <1>1, <1>3, <2>1
  <2>3. list[c] \in Measurement /\ list[b] \in Measurement
    BY <1>1, <1>3
  <2>4. ~(2 * list[b].time > base /\ 2 * list[c].time < 3 * base)
    BY <1>3, <1>4, <2>2, <2>3, ScoreOrder
  <2>5. list[c].time \in Nat /\ list[b].time \in Nat
    BY <1>2, <1>3
  <2> QED BY <2>4, <2>5
<1>5. ASSUME NEW c \in 1..Len(list), list[c] = list[b]
      PROVE  b <= c
  BY <1>1, <1>3, <1>5
<1> QED BY <1>3, <1>4, <1>5

\* What a run publishes is usable, and no usable combination was faster and as
\* reliable within the range of the score, for all measurements.
THEOREM BestPublished == Spec => []PublishesTheBest
<1>1. IInv => PublishesTheBest
  <2>1. ASSUME IInv, NEW r \in Run, stage[r] = "setSemaphore", best[r] # 0
        PROVE  /\ measured[r] \in Seq(Measurement) /\ baseline[r] \in Nat /\ best[r] \in Nat
               /\ IsBest(best[r], measured[r], baseline[r])
    <3>1. measured[r] \in Seq(Measurement) /\ baseline[r] \in Nat
      BY <2>1 DEF IInv, TypeOK
    <3>2. best[r] \in 0..Combinations
      BY <2>1 DEF IInv, TypeOK
    <3>3. IsBest(best[r], measured[r], baseline[r])
      BY <2>1 DEF IInv, BestInv
    <3> QED BY <3>1, <3>2, <3>3, OptimizerAssumption
  <2> QED BY <2>1, BestIsFastest DEF PublishesTheBest
<1> QED BY <1>1, Invariance, PTL

----------------------------------------------------------------------------
LEMMA RunsAreFinite ==
    ASSUME TypeOK
    PROVE  /\ IsFiniteSet(Working) /\ IsFiniteSet(overran)
           /\ Cardinality(Working) \in Nat /\ Cardinality(overran) \in Nat
<1>1. Working \subseteq Run /\ overran \subseteq Run
  BY DEF Working, TypeOK
<1>2. IsFiniteSet(Working) /\ IsFiniteSet(overran)
  BY <1>1, FS_Subset, OptimizerAssumption
<1> QED BY <1>2, FS_CardinalityType

\* A run that stops working leaves one fewer, whoever held the lock.
LEMMA OneFewer ==
    ASSUME TypeOK, LockInv, NEW r \in Working, Working' = Working \ {r}, overran' = overran
    PROVE  Cardinality(Working') <= Cardinality(overran') + (IF Held' THEN 1 ELSE 0)
<1>1. Cardinality(Working \ {r}) = Cardinality(Working) - 1
  BY RunsAreFinite, FS_RemoveElement
<1>2. Cardinality(Working) <= Cardinality(overran) + 1
  BY RunsAreFinite DEF LockInv
<1> QED BY <1>1, <1>2, RunsAreFinite

\* The clock: when the lock expires under its holder, that run has overrun.
LEMMA LockTick ==
    ASSUME TypeOK, LockInv, Tick
    PROVE  LockInv'
<1> USE OptimizerAssumption DEF TypeOK
<1>1. /\ now' = now + 1 /\ UNCHANGED <<stage, since, lock>>
      /\ overran \subseteq overran' /\ overran' \subseteq Run
  BY DEF Tick
<1>2. OverranInv'
  <2>1. \A r \in overran' \ overran : stage[r] \in Critical /\ now' >= since[r] + LockTTL
    BY DEF Tick
  <2>2. OverranInv
    BY DEF LockInv
  <2>3. ASSUME NEW r \in overran'
        PROVE  /\ stage[r] \in Critical \cup {"done", "dead"}
               /\ stage[r] \in Critical => now + 1 >= since[r] + LockTTL
    <3>1. r \in Run /\ since[r] \in Nat /\ now \in Nat
      BY <1>1
    <3> QED BY <1>1, <2>1, <2>2, <3>1 DEF OverranInv
  <2> QED BY <1>1, <2>3 DEF OverranInv
<1>3. Working' = Working
  BY <1>1 DEF Working
<1>4. IsFiniteSet(overran') /\ Cardinality(overran') \in Nat
  BY <1>1, FS_Subset, FS_CardinalityType
<1>5. Cardinality(overran) <= Cardinality(overran')
  BY <1>1, <1>4, FS_Subset
<1>6. CASE Held /\ ~Held'
  <2>1. PICK h \in Working : since[h] + LockTTL = lock
    BY <1>6 DEF Held
  <2>2. lock > now /\ lock <= now'
    BY <1>1, <1>3, <1>6, <2>1 DEF Held
  <2>3. h \notin overran
    BY <2>1, <2>2 DEF LockInv, OverranInv, Working
  <2>4. h \in overran'
    BY <2>1, <2>2 DEF Tick, Working
  <2>5. Cardinality(overran \cup {h}) = Cardinality(overran) + 1
    BY <2>3, RunsAreFinite, FS_AddElement
  <2>6. Cardinality(overran \cup {h}) <= Cardinality(overran')
    BY <1>1, <1>4, <2>4, FS_Subset
  <2>7. Cardinality(Working) <= Cardinality(overran')
    BY <1>4, <1>6, <2>5, <2>6, RunsAreFinite DEF LockInv
  <2> QED BY <1>2, <1>3, <1>4, <1>6, <2>7 DEF LockInv
<1>7. CASE ~Held \/ Held'
  <2>1. Cardinality(Working') <= Cardinality(overran') + (IF Held' THEN 1 ELSE 0)
    BY <1>3, <1>4, <1>5, <1>7, RunsAreFinite DEF LockInv
  <2> QED BY <1>2, <2>1 DEF LockInv
<1> QED BY <1>6, <1>7

\* A step of a run: one that takes the lock finds it free, so nobody holds it.
LEMMA LockStep ==
    ASSUME TypeOK, LockInv, NEW r \in Run, Begin(r) \/ Step(r) \/ RunFails(r) \/ RunDies(r)
    PROVE  LockInv'
<1> USE OptimizerAssumption DEF TypeOK
<1> DEFINE Bounded == Cardinality(Working') <= Cardinality(overran') + (IF Held' THEN 1 ELSE 0)
<1>1. now' = now /\ overran' = overran
  BY DEF Begin, Step, ReadSemaphore, ReadAttempts, AcquireLock, LockTaken, Analyze,
     MeasureBaseline, Measure, SetSemaphore, SetAttempts, Release, RunFails, RunDies
<1>2. \A q \in Run \ {r} : stage'[q] = stage[q] /\ since'[q] = since[q]
  BY OthersUnchanged
<1>3. OverranInv'
  <2>0. OverranInv
    BY DEF LockInv
  <2>1. stage[r] \in Critical => stage'[r] \in Critical \cup {"done", "dead"}
    BY DEF Critical, Begin, Step, ReadSemaphore, ReadAttempts, AcquireLock, LockTaken, Analyze,
       MeasureBaseline, Measure, SetSemaphore, SetAttempts, Release, RunFails, RunDies
  <2>2. stage'[r] \in Critical => AcquireLock(r) \/ (stage[r] \in Critical /\ since' = since)
    BY DEF Critical, Begin, Step, ReadSemaphore, ReadAttempts, LockTaken, Analyze,
       MeasureBaseline, Measure, SetSemaphore, SetAttempts, Release, RunFails, RunDies
  <2>3. stage[r] \in {"done", "dead"} => FALSE
    BY DEF Begin, Step, ReadSemaphore, ReadAttempts, AcquireLock, LockTaken, Analyze,
       MeasureBaseline, Measure, SetSemaphore, SetAttempts, Release, RunFails, RunDies
  <2>4. AcquireLock(r) => r \notin overran
    BY <2>0 DEF OverranInv, AcquireLock, Critical
  <2>5. r \in overran => stage[r] \in Critical /\ now >= since[r] + LockTTL
    BY <2>0, <2>3 DEF OverranInv
  <2> QED BY <1>1, <1>2, <2>0, <2>1, <2>2, <2>4, <2>5 DEF OverranInv
<1>4. CASE AcquireLock(r)
  <2>1. ~Held /\ r \notin Working
    BY <1>4 DEF AcquireLock, Held, Working, Critical
  <2>2. Working' = Working \cup {r}
    BY <1>2, <1>4 DEF AcquireLock, Working, Critical
  <2>3. Held'
    BY <1>1, <1>4, <2>2 DEF AcquireLock, Held
  <2>4. Cardinality(Working \cup {r}) = Cardinality(Working) + 1
    BY <2>1, RunsAreFinite, FS_AddElement
  <2>5. Bounded
    BY <1>1, <2>1, <2>2, <2>3, <2>4, RunsAreFinite DEF LockInv
  <2> QED BY <1>3, <2>5 DEF LockInv
<1>5. CASE stage[r] \in Critical /\ stage'[r] \notin Critical
  <2>1. r \in Working /\ Working' = Working \ {r}
    BY <1>2, <1>5 DEF Working
  <2>2. Bounded
    BY <1>1, <2>1, OneFewer
  <2> QED BY <1>3, <2>2 DEF LockInv
<1>6. CASE ~AcquireLock(r) /\ (stage[r] \in Critical <=> stage'[r] \in Critical)
  <2>1. Working' = Working
    BY <1>2, <1>6 DEF Working
  <2>2. \A q \in Working : since'[q] = since[q]
    BY <1>2, <1>6 DEF Working, Critical, Begin, Step, ReadSemaphore, ReadAttempts, LockTaken, Analyze,
       MeasureBaseline, Measure, SetSemaphore, SetAttempts, Release, RunFails, RunDies
  <2>3. lock' = lock \/ lock <= now
    BY <1>6 DEF Critical, Begin, Step, ReadSemaphore, ReadAttempts, LockTaken, Analyze,
       MeasureBaseline, Measure, SetSemaphore, SetAttempts, Release, RunFails, RunDies
  <2>4. Held => Held'
    <3>1. CASE lock <= now
      BY <3>1 DEF Held
    <3>2. CASE lock' = lock
      BY <1>1, <2>1, <2>2, <3>2 DEF Held
    <3> QED BY <2>3, <3>1, <3>2
  <2>5. Bounded
    BY <1>1, <2>1, <2>4, RunsAreFinite DEF LockInv
  <2> QED BY <1>3, <2>5 DEF LockInv
<1>7. ~AcquireLock(r) /\ stage'[r] \in Critical => stage[r] \in Critical
  BY DEF Critical, Begin, Step, ReadSemaphore, ReadAttempts, LockTaken, Analyze,
     MeasureBaseline, Measure, SetSemaphore, SetAttempts, Release, RunFails, RunDies
<1> QED BY <1>4, <1>5, <1>6, <1>7

\* However long runs take and whoever's lock they delete, each run that ever
\* outlasted its lock accounts for at most one more that works in parallel.
THEOREM OverlapBound == Spec => []OverlapIsBounded
<1>1. Init => LockInv
  <2> SUFFICES ASSUME Init PROVE LockInv
    OBVIOUS
  <2>1. Working = {} /\ overran = {}
    BY DEF Init, Working, Critical
  <2> QED BY <2>1, FS_EmptySet DEF LockInv, OverranInv
<1>2. TypeOK /\ LockInv /\ [Next]_vars => LockInv'
  <2>1. TypeOK /\ LockInv /\ UNCHANGED vars => LockInv'
    BY DEF vars, LockInv, OverranInv, Held, Working
  <2> QED BY <2>1, LockTick, LockStep DEF Next
<1>3. TypeOK /\ LockInv => OverlapIsBounded
  BY RunsAreFinite DEF LockInv, OverlapIsBounded
<1> QED BY TypeCorrect, <1>1, <1>2, <1>3, PTL DEF Spec

----------------------------------------------------------------------------
\* Making way for each other.

Published == \A k \in Key : until[k] # 0
SomeoneWorks == \E r \in Run : stage[r] \in Critical

\* While nothing has failed, a run leaves the lock only after it published, and
\* the runs that are over made way for one that works, or parameters are there.
PublishInv ==
    faults = 0 =>
        /\ lock # 0 => Published \/ SomeoneWorks
        /\ \A r \in Run :
              /\ saw[r] \/ stage[r] = "setAttempts" => until["semaphore"] # 0
              /\ stage[r] = "release" => Published
              /\ stage[r] = "done" => Published \/ SomeoneWorks

\* A step of a run of which nothing failed.
LEMMA PublishStep ==
    ASSUME TypeOK, PublishInv, faults = 0, NEW r \in Run, Begin(r) \/ Step(r)
    PROVE  PublishInv'
<1> USE OptimizerAssumption DEF TypeOK, PublishInv, Key
<1>1. ASSUME NEW q \in Run \ {r} PROVE stage'[q] = stage[q] /\ saw'[q] = saw[q]
  <2>1. stage'[q] = stage[q]
    BY <1>1, OthersUnchanged
  <2>2. \E b : saw' = [saw EXCEPT ![r] = b]
    <3>1. saw = [saw EXCEPT ![r] = saw[r]]
      OBVIOUS
    <3>2. \/ saw' = saw
          \/ saw' = [saw EXCEPT ![r] = FALSE]
          \/ saw' = [saw EXCEPT ![r] = Present("semaphore")]
      BY Zenon DEF Begin, Step, ReadSemaphore, ReadAttempts, AcquireLock, LockTaken, Analyze,
         MeasureBaseline, Measure, SetSemaphore, SetAttempts, Release, Forget
    <3> QED BY <3>1, <3>2, Zenon
  <2>3. PICK b : saw' = [saw EXCEPT ![r] = b]
    BY <2>2
  <2>4. saw \in [Run -> BOOLEAN] /\ q \in Run /\ q # r
    BY <1>1
  <2>5. saw'[q] = saw[q]
    BY <2>3, <2>4, Zenon
  <2> QED BY <2>1, <2>5
<1>2. Published => Published'
  BY DEF Published, Begin, Step, ReadSemaphore, ReadAttempts, AcquireLock, LockTaken, Analyze,
     MeasureBaseline, Measure, SetSemaphore, SetAttempts, Release, Publish
<1>3. CASE Begin(r) \/ ReadSemaphore(r) \/ ReadAttempts(r) \/ LockTaken(r)
  <2>1. UNCHANGED <<lock, until>>
    BY <1>3 DEF Begin, ReadSemaphore, ReadAttempts, LockTaken
  <2>2. stage[r] \notin Critical /\ stage'[r] \notin Critical
    BY <1>3 DEF Begin, ReadSemaphore, ReadAttempts, LockTaken, Critical
  <2>3. SomeoneWorks <=> SomeoneWorks'
    BY <1>1, <2>2 DEF SomeoneWorks
  <2>4. saw'[r] => until["semaphore"] # 0
    BY <1>3 DEF Begin, ReadSemaphore, ReadAttempts, LockTaken, Present
  <2>5. stage'[r] = "done" => Published \/ SomeoneWorks
    BY <1>3 DEF Begin, ReadSemaphore, ReadAttempts, LockTaken, Present, Published
  <2>6. stage'[r] \notin {"setAttempts", "release"}
    BY <2>2 DEF Critical
  <2>7. Published <=> Published'
    BY <2>1 DEF Published
  <2> QED BY <1>1, <2>1, <2>3, <2>4, <2>5, <2>6, <2>7
<1>4. CASE AcquireLock(r) \/ Analyze(r) \/ MeasureBaseline(r) \/ Measure(r)
  <2>1. UNCHANGED <<until, saw>>
    BY <1>4 DEF AcquireLock, Analyze, MeasureBaseline, Measure
  <2>2. stage'[r] \in Critical \ {"setAttempts", "release"}
    BY <1>4 DEF AcquireLock, Analyze, MeasureBaseline, Measure, Critical
  <2>3. SomeoneWorks'
    BY <2>2 DEF SomeoneWorks
  <2> QED BY <1>1, <1>2, <2>1, <2>2, <2>3 DEF Critical
<1>5. CASE SetSemaphore(r) \/ SetAttempts(r)
  <2>1. SomeoneWorks'
    BY <1>5 DEF SetSemaphore, SetAttempts, SomeoneWorks, Critical
  <2>2. UNCHANGED saw /\ stage'[r] # "done"
    BY <1>5 DEF SetSemaphore, SetAttempts
  <2>3. until'["semaphore"] # 0 \/ until'["semaphore"] = until["semaphore"]
    BY <1>5 DEF SetSemaphore, SetAttempts, Publish
  <2>4. stage'[r] = "setAttempts" => until'["semaphore"] # 0
    BY <1>5 DEF SetSemaphore, SetAttempts, Publish
  <2>5. stage'[r] = "release" => Published'
    BY <1>5 DEF SetSemaphore, SetAttempts, Publish, Published
  <2> QED BY <1>1, <1>2, <2>1, <2>2, <2>3, <2>4, <2>5
<1>6. CASE Release(r)
  <2>1. Published' /\ ~saw'[r] /\ stage'[r] = "done" /\ UNCHANGED until
    BY <1>2, <1>6 DEF Release, Forget
  <2> QED BY <1>1, <2>1
<1> QED BY <1>3, <1>4, <1>5, <1>6 DEF Step

\* However the runs make way for each other, when all of them are over and none
\* failed the parameters have been published, however long a run takes.
THEOREM SomeonePublishesSafety == Spec => []SomeonePublishes
<1>1. Init => PublishInv
  BY DEF Init, PublishInv
<1>2. TypeOK /\ PublishInv /\ [Next]_vars => PublishInv'
  <2> SUFFICES ASSUME TypeOK, PublishInv, [Next]_vars, faults' = 0
               PROVE  PublishInv'
    BY DEF PublishInv
  <2>1. ASSUME NEW r \in Run, RunFails(r) \/ RunDies(r)
        PROVE  FALSE
    BY <2>1 DEF RunFails, RunDies, Fault, TypeOK
  <2>2. CASE Tick \/ UNCHANGED vars
    BY <2>2 DEF Tick, vars, PublishInv, Published, SomeoneWorks
  <2>3. ASSUME NEW r \in Run, Begin(r) \/ Step(r)
        PROVE  PublishInv'
    <3>1. faults = 0
      BY <2>3 DEF Begin, Step, ReadSemaphore, ReadAttempts, AcquireLock, LockTaken, Analyze,
         MeasureBaseline, Measure, SetSemaphore, SetAttempts, Release
    <3> QED BY <2>3, <3>1, PublishStep
  <2> QED BY <2>1, <2>2, <2>3 DEF Next
<1>3. PublishInv => SomeonePublishes
  <2> SUFFICES ASSUME PublishInv, faults = 0, NEW r \in Run, \A q \in Run : stage[q] = "done"
               PROVE  Published
    BY DEF SomeonePublishes, Published
  <2>1. ~SomeoneWorks
    BY DEF SomeoneWorks, Critical
  <2> QED BY <2>1 DEF PublishInv
<1> QED BY TypeCorrect, <1>1, <1>2, <1>3, PTL DEF Spec
=============================================================================

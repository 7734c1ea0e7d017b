----------------------------- MODULE Recursion -----------------------------
(***************************************************************************)
(* Recursive functions exist: induction, and definitions by recursion over *)
(* any set whose elements have a rank in the natural numbers.              *)
(*                                                                         *)
(* The theorems of the library about induction and recursion take an       *)
(* operator.  Here induction is a fact about sets, derived from the        *)
(* well-foundedness of strict inclusion between finite sets, and the       *)
(* recursive step is a constant of the module: INSTANCE gives it a value.  *)
(***************************************************************************)
EXTENDS Integers, FiniteSetTheorems, TLAPS

CONSTANT Body(_, _, _)   \* the value at an element, from the context and the function

----------------------------------------------------------------------------
(***************************************************************************)
(* Induction                                                               *)
(***************************************************************************)
\* A set of natural numbers that is not empty has a least element.
THEOREM LeastElement == \A T : T \subseteq Nat /\ T # {} => \E m \in T : \A k \in T : m <= k
<1> SUFFICES ASSUME NEW T, T \subseteq Nat, T # {}
             PROVE  \E m \in T : \A k \in T : m <= k
  OBVIOUS
<1> DEFINE Below == {1..n : n \in T}
           R == StrictSubsetOrdering(Nat)
<1>1. Below \subseteq FiniteSubsetsOf(Nat) /\ Below # {}
  <2>1. \A n \in T : IsFiniteSet(1..n) /\ 1..n \subseteq Nat
    BY FS_Interval
  <2> QED BY <2>1 DEF FiniteSubsetsOf
<1>2. IsWellFoundedOn(R, FiniteSubsetsOf(Nat))
  BY FS_StrictSubsetOrderingWellFounded
<1>3. \E x \in Below : \A y \in Below : ~(<<y, x>> \in R)
  <2> HIDE DEF Below, R
  <2> QED BY <1>1, <1>2, WFMin
<1>4. PICK m \in T : \A k \in T : ~(<<1..k, 1..m>> \in R)
  BY <1>3
<1>5. ASSUME NEW k \in T, k < m
      PROVE  FALSE
  <2>1. 1..k \subseteq 1..m /\ 1..k # 1..m
    <3>1. m \in 1..m /\ m \notin 1..k
      BY <1>5
    <3> QED BY <1>5, <3>1
  <2>2. <<1..k, 1..m>> \in R
    <3>1. 1..k \in SUBSET Nat /\ 1..m \in SUBSET Nat
      OBVIOUS
    <3> QED BY <2>1, <3>1 DEF StrictSubsetOrdering
  <2> HIDE DEF R
  <2> QED BY <1>4, <1>5, <2>2
<1> QED BY <1>5

\* A set that holds 0 and with every number its successor holds all numbers.
THEOREM Induction == \A P : 0 \in P /\ (\A n \in Nat : n \in P => n + 1 \in P) => Nat \subseteq P
<1> SUFFICES ASSUME NEW P, 0 \in P, \A n \in Nat : n \in P => n + 1 \in P, Nat \ P # {}
             PROVE  FALSE
  OBVIOUS
<1>1. PICK m \in Nat \ P : \A k \in Nat \ P : m <= k
  BY LeastElement
<1>2. m # 0 /\ m - 1 \in Nat
  BY <1>1
<1>3. m - 1 \in P
  BY <1>1, <1>2
<1> QED BY <1>1, <1>2, <1>3

\* So does a set that holds an element once it holds all those of lower rank.
THEOREM Descent ==
  \A X, P : \A rank \in [X -> Nat] :
    (\A e \in X : (\A d \in X : rank[d] < rank[e] => d \in P) => e \in P) => X \subseteq P
<1> SUFFICES ASSUME NEW X, NEW P, NEW rank \in [X -> Nat],
                    \A e \in X : (\A d \in X : rank[d] < rank[e] => d \in P) => e \in P,
                    X \ P # {}
             PROVE  FALSE
  OBVIOUS
<1> DEFINE Ranks == {rank[e] : e \in X \ P}
<1>1. PICK m \in Ranks : \A k \in Ranks : m <= k
  <2>1. Ranks \subseteq Nat /\ Ranks # {}
    OBVIOUS
  <2> HIDE DEF Ranks
  <2> QED BY <2>1, LeastElement
<1>2. PICK e \in X \ P : rank[e] = m
  BY <1>1
<1>3. \A d \in X : rank[d] < rank[e] => d \in P
  <2> SUFFICES ASSUME NEW d \in X, rank[d] < rank[e], d \notin P
               PROVE  FALSE
    OBVIOUS
  <2>1. rank[d] \in Ranks /\ rank[d] \in Nat /\ rank[e] \in Nat
    OBVIOUS
  <2>2. m <= rank[d]
    BY <1>1, <2>1
  <2> QED BY <1>2, <2>1, <2>2
<1> QED BY <1>2, <1>3

----------------------------------------------------------------------------
(***************************************************************************)
(* Recursion                                                               *)
(***************************************************************************)
Solves(f, X, context) == f = [e \in X |-> f[e]] /\ \A e \in X : f[e] = Body(context, f, e)

\* The value at an element depends on the values at elements of lower rank.
Descends(X, context, rank) ==
  \A e \in X : \A f, g : (\A d \in X : rank[d] < rank[e] => f[d] = g[d])
                       => Body(context, f, e) = Body(context, g, e)

SolvesBelow(f, n, X, context, rank) == \A e \in X : rank[e] < n => f[e] = Body(context, f, e)

\* Below any rank, the recursion has a solution.
LEMMA PartialSolution ==
  ASSUME NEW X, NEW context, NEW rank \in [X -> Nat], Descends(X, context, rank), NEW n \in Nat
  PROVE  \E f : SolvesBelow(f, n, X, context, rank)
<1> DEFINE P == {k \in Nat : \E f : SolvesBelow(f, k, X, context, rank)}
<1>1. 0 \in P
  BY DEF SolvesBelow
<1>2. ASSUME NEW k \in Nat, k \in P
      PROVE  k + 1 \in P
  <2>1. PICK f : SolvesBelow(f, k, X, context, rank)
    BY <1>2
  <2> DEFINE g == [e \in X |-> IF rank[e] < k THEN f[e] ELSE Body(context, f, e)]
  <2>2. ASSUME NEW e \in X, rank[e] < k + 1
        PROVE  g[e] = Body(context, g, e)
    <3>1. g[e] = Body(context, f, e)
      BY <2>1 DEF SolvesBelow
    <3>2. \A d \in X : rank[d] < rank[e] => f[d] = g[d]
      BY <2>2
    <3> HIDE DEF g
    <3> QED BY <3>1, <3>2 DEF Descends
  <2>3. SolvesBelow(g, k + 1, X, context, rank)
    BY <2>2 DEF SolvesBelow
  <2> HIDE DEF g
  <2> QED BY <2>3
<1> HIDE DEF P
<1>3. Nat \subseteq P
  BY <1>1, <1>2, Induction
<1> QED BY <1>3 DEF P

\* The recursion has a solution.
THEOREM SolutionExists ==
  \A X, context : \A rank \in [X -> Nat] :
    Descends(X, context, rank) => \E f : Solves(f, X, context)
<1> SUFFICES ASSUME NEW X, NEW context, NEW rank \in [X -> Nat], Descends(X, context, rank)
             PROVE  \E f : Solves(f, X, context)
  OBVIOUS
<1> DEFINE Part(n) == CHOOSE f : SolvesBelow(f, n, X, context, rank)
<1>1. \A n \in Nat : SolvesBelow(Part(n), n, X, context, rank)
  BY PartialSolution
<1> HIDE DEF Part
<1> DEFINE Agreed == {e \in X : \A m, n \in Nat : rank[e] < m /\ rank[e] < n => Part(m)[e] = Part(n)[e]}
<1>2. X \subseteq Agreed
  <2>1. ASSUME NEW e \in X, \A d \in X : rank[d] < rank[e] => d \in Agreed
        PROVE  e \in Agreed
    <3> SUFFICES ASSUME NEW m \in Nat, NEW n \in Nat, rank[e] < m, rank[e] < n
                 PROVE  Part(m)[e] = Part(n)[e]
      OBVIOUS
    <3>1. \A d \in X : rank[d] < rank[e] => Part(m)[d] = Part(n)[d]
      <4> SUFFICES ASSUME NEW d \in X, rank[d] < rank[e]
                   PROVE  Part(m)[d] = Part(n)[d]
        OBVIOUS
      <4>1. rank[d] < m /\ rank[d] < n
        OBVIOUS
      <4> QED BY <2>1, <4>1
    <3>2. Body(context, Part(m), e) = Body(context, Part(n), e)
      BY <3>1 DEF Descends
    <3> QED BY <1>1, <3>2 DEF SolvesBelow
  <2> HIDE DEF Agreed
  <2> QED BY <2>1, Descent
<1> DEFINE f == [e \in X |-> Part(rank[e] + 1)[e]]
<1>3. ASSUME NEW e \in X
      PROVE  f[e] = Body(context, f, e)
  <2>1. f[e] = Body(context, Part(rank[e] + 1), e)
    BY <1>1 DEF SolvesBelow
  <2>2. \A d \in X : rank[d] < rank[e] => f[d] = Part(rank[e] + 1)[d]
    BY <1>2
  <2> HIDE DEF f
  <2> QED BY <2>1, <2>2 DEF Descends
<1>4. Solves(f, X, context)
  BY <1>3 DEF Solves
<1> HIDE DEF f
<1> QED BY <1>4
=============================================================================

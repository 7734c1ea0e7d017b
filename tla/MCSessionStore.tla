--------------------------- MODULE MCSessionStore ---------------------------
(***************************************************************************)
(* SessionStore for TLC.  The model values of the three sets are           *)
(* interchangeable; runs that check a liveness property do not use this.   *)
(***************************************************************************)
EXTENDS SessionStore, TLC

Symmetry == Permutations(Session) \cup Permutations(Worker) \cup Permutations(Request)
=============================================================================

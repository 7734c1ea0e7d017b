---------------------------- MODULE SessionLease ----------------------------
(***************************************************************************)
(* What a client of the adapter is promised about the local keys it gets   *)
(* from POST /login-limesurvey: a key is issued at most once, is accepted  *)
(* from then until it expires or is deleted, and is never accepted again.  *)
(* A logout is answered only when the key is already refused everywhere.   *)
(***************************************************************************)
CONSTANT Session        \* the local keys (uuid4)

VARIABLES
    status,             \* "unissued", "valid" or "over"
    loggedOut           \* keys whose logout was answered "Session closed"

vars == <<status, loggedOut>>

Init ==
    /\ status = [s \in Session |-> "unissued"]
    /\ loggedOut = {}

\* A login slower than the lifetime of its session issues a key that is over.
Issue(s) ==
    /\ status[s] = "unissued"
    /\ \E issued \in {"valid", "over"} : status' = [status EXCEPT ![s] = issued]
    /\ UNCHANGED loggedOut

\* Keys end when their time passes (several at once) or when one is deleted.
End(S) ==
    /\ \A s \in S : status[s] = "valid"
    /\ status' = [s \in Session |-> IF s \in S THEN "over" ELSE status[s]]
    /\ UNCHANGED loggedOut

\* The logout is answered by the step that refuses the key, or later.
AnswerLogout(s) ==
    /\ status[s] \in {"valid", "over"}
    /\ status' = [status EXCEPT ![s] = "over"]
    /\ loggedOut' = loggedOut \cup {s}

Next ==
    \/ \E s \in Session : Issue(s) \/ AnswerLogout(s)
    \/ \E S \in SUBSET Session : End(S)

Spec == Init /\ [][Next]_vars
=============================================================================

------------------------------ MODULE CallLimit ------------------------------
(***************************************************************************)
(* What the account slots promise LimeSurvey: at most Limit calls of one   *)
(* account are being processed at a time, each request makes its call at   *)
(* most once, and a request withdrawn while it waits never makes it.  A    *)
(* call that outlasts its lease no longer counts: it is late.              *)
(***************************************************************************)
EXTENDS Naturals, FiniteSets

CONSTANTS Call, Limit

VARIABLE status     \* per call: "waiting", "active", "late", "finished" or "withdrawn"

Active == {c \in Call : status[c] = "active"}

Init == status = [c \in Call |-> "waiting"]

Start(c) ==
    /\ status[c] = "waiting"
    /\ Cardinality(Active) < Limit
    /\ status' = [status EXCEPT ![c] = "active"]

\* The lease is over before the call begins.
StartLate(c) ==
    /\ status[c] = "waiting"
    /\ status' = [status EXCEPT ![c] = "late"]

\* The leases of some calls end while LimeSurvey processes them.
LeasesEnd ==
    \E ended \in SUBSET Active :
        status' = [c \in Call |-> IF c \in ended THEN "late" ELSE status[c]]

Finish(c) ==
    /\ status[c] \in {"active", "late"}
    /\ status' = [status EXCEPT ![c] = "finished"]

Withdraw(c) ==
    /\ status[c] = "waiting"
    /\ status' = [status EXCEPT ![c] = "withdrawn"]

Next ==
    \/ LeasesEnd
    \/ \E c \in Call : Start(c) \/ StartLate(c) \/ Finish(c) \/ Withdraw(c)

Spec == Init /\ [][Next]_status
=============================================================================

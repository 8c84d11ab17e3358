------------------------------ MODULE ApplyGate ------------------------------
(***************************************************************************)
(* What a deployment promises, without queues, workers or revisions: a     *)
(* plan is fixed, a human approves or rejects it, only the approved plan   *)
(* is ever run, it is applied at most once, a run is confirmed only if it  *)
(* succeeded, and one verification follows a confirmed run.  A run may     *)
(* start after a rejection and there may be several: the system does not   *)
(* promise otherwise.                                                      *)
(***************************************************************************)
CONSTANTS
    GateRuns,       \* apply runs
    GatePlans,      \* plans that can be stored
    GateReady,      \* those a human may approve
    GateIds,        \* verification ids
    Absent          \* no plan, no approval, no verification, no run

VARIABLES
    plan,           \* the stored plan
    approved,       \* the approved plan
    refused,        \* the deployment is rejected
    run,            \* per run: what it applies and how it ended
    confirmed,      \* runs confirmed successful
    verification    \* the verification that was started

gateVars == <<plan, approved, refused, run, confirmed, verification>>

GateInit ==
    /\ plan = Absent
    /\ approved = Absent
    /\ refused = FALSE
    /\ run = [r \in GateRuns |-> Absent]
    /\ confirmed = {}
    /\ verification = Absent

FixPlan(p) ==
    /\ plan = Absent
    /\ plan' = p
    /\ UNCHANGED <<approved, refused, run, confirmed, verification>>

GateApprove ==
    /\ plan \in GateReady
    /\ approved = Absent
    /\ ~refused
    /\ approved' = plan
    /\ UNCHANGED <<plan, refused, run, confirmed, verification>>

GateReject ==
    /\ ~refused
    /\ refused' = TRUE
    /\ UNCHANGED <<plan, approved, run, confirmed, verification>>

StartRun(r) ==
    /\ approved # Absent
    /\ run[r] = Absent
    /\ run' = [run EXCEPT ![r] = [plan |-> approved, outcome |-> "queued"]]
    /\ UNCHANGED <<plan, approved, refused, confirmed, verification>>

Ended(r, outcome) == run[r] # Absent /\ run[r].outcome = outcome

EndRun(r, outcome) ==
    /\ Ended(r, "queued")
    /\ outcome = "success" => \A q \in GateRuns : ~Ended(q, "success")
    /\ run' = [run EXCEPT ![r].outcome = outcome]
    /\ UNCHANGED <<plan, approved, refused, confirmed, verification>>

Confirm(r) ==
    /\ Ended(r, "success")
    /\ r \notin confirmed
    /\ confirmed' = confirmed \cup {r}
    /\ UNCHANGED <<plan, approved, refused, run, verification>>

Verify(id) ==
    /\ confirmed # {}
    /\ verification = Absent
    /\ ~refused
    /\ verification' = id
    /\ UNCHANGED <<plan, approved, refused, run, confirmed>>

GateNext ==
    \/ \E p \in GatePlans : FixPlan(p)
    \/ GateApprove
    \/ GateReject
    \/ \E r \in GateRuns :
          StartRun(r) \/ EndRun(r, "success") \/ EndRun(r, "failure") \/ Confirm(r)
    \/ \E id \in GateIds : Verify(id)

GateSpec == GateInit /\ [][GateNext]_gateVars

=============================================================================

------------------------ MODULE DeploymentRefinement ------------------------
(***************************************************************************)
(* Deployment implements ApplyGate: the gate's plan is the plan fact of    *)
(* the record, its runs are GitHub's, its confirmed runs the VERIFIED      *)
(* Events.  Job, tasks, views, receipts and processes are hidden.          *)
(***************************************************************************)
EXTENDS Deployment

GatePlan == [hash : Hashes, serial : 0 .. MaxSerial]

(* NoHash, the code's None, is neither a plan nor a run. *)
ASSUME GateAssumption ==
    NoHash \notin GatePlan \cup [plan : GatePlan, outcome : {"queued", "success", "failure"}]

GateRun(r) ==
    IF runs[r] = NoRun THEN NoHash
    ELSE [plan |-> [hash |-> runs[r].hash, serial |-> runs[r].serial],
          outcome |-> runs[r].conclusion]

Gate == INSTANCE ApplyGate WITH
    GateRuns     <- Runs,
    GatePlans    <- GatePlan,
    GateReady    <- [hash : ReadyPlans, serial : 0 .. MaxSerial],
    GateIds      <- AssessmentIds,
    Absent       <- NoHash,
    plan         <- IF record.plan = NoPlan THEN NoHash ELSE record.plan,
    approved     <- IF approval = NoHash THEN NoHash ELSE record.plan,
    refused      <- rejected,
    run          <- [r \in Runs |-> GateRun(r)],
    confirmed    <- VerifiedRuns,
    verification <- IF record.verification \in AssessmentIds THEN record.verification ELSE NoHash

(* Every behaviour of the deployment, crashes and duplicates included, is one the gate      *)
(* allows: approved plan only, applied at most once, confirmed only if successful, one      *)
(* verification.                                                                             *)
ImplementsGate == Gate!GateSpec

=============================================================================

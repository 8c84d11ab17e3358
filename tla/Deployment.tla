----------------------------- MODULE Deployment -----------------------------
(***************************************************************************)
(* One deployment from its creation to the start of its post-deploy        *)
(* verification: plan, human approval or rejection, apply through a GitHub *)
(* Actions run, the run's completion Event, verification of the run.       *)
(* (apps/backend/deployment, api/deployments.py, repositories/deployment*, *)
(* agent/runtime/live_deployment_ports.py, ci/terraform.)                  *)
(*                                                                         *)
(* Every stage commits the Job's next revision together with one task.     *)
(* Here a committed task may be delivered to any worker, any number of     *)
(* times, at any later moment; how it travels is WorkflowOutbox, and what   *)
(* the limits on its deliveries mean is DeploymentDelivery.                 *)
(* An approve or reject request reads the Job and writes in one            *)
(* transaction conditioned on the revision it read, so it is one step      *)
(* here: when the condition fails nothing is written and the caller gets   *)
(* an error.  A completion and the start of verification are two steps,    *)
(* because they go on after a failed condition.                            *)
(***************************************************************************)
EXTENDS JobLifecycle, Integers, FiniteSets

CONSTANTS
    Workers,        \* concurrent invocations of the Deployment Worker
    Completers,     \* concurrent invocations of the apply-completed handler
    Runs,           \* bound: GitHub runs of the apply workflow for this deployment
    Hashes,         \* plan digests a plan run can produce
    ReadyPlans,     \* those whose readiness is READY_FOR_APPROVAL
    AssessmentIds,  \* ids the assessment id factory can return
    NoHash,         \* no digest: no plan stored, or no approval
    NullAttribute,  \* the record is written with verification_assessment_id = NULL
    MaxSerial       \* bound on the serial of the Terraform state

ASSUME DeploymentAssumption ==
    /\ ReadyPlans \subseteq Hashes
    /\ NoHash \notin Hashes
    /\ AssessmentIds \cap {NoLink, "absent", "NULL"} = {}
    /\ NullAttribute \in BOOLEAN
    /\ MaxSerial \in Nat

VARIABLES
    created,    \* the four-item creation transaction committed
    record,     \* the DEPLOYMENT item: plan facts and verification link
    job,        \* the JOB item (as create_job makes it until created)
    jobView,    \* the Job revision GSI1 shows
    tasks,      \* committed WorkflowTasks
    approval,   \* digest in the APPROVAL item, or NoHash
    rejected,   \* the REJECTION item exists
    receipt,    \* the DISPATCH item exists
    events,     \* the EVENT item of each run
    eventsView, \* the EVENT items as a plain (eventually consistent) query sees them
    settled,    \* runs whose completion Event some invocation returned normally for
    worker,     \* per invocation: where it stands in the command and what it loaded
    completer,  \* per invocation: the run and the Job revision it read
    runs,       \* GitHub: the apply runs
    serial,     \* GitHub/AWS: serial of the Terraform state
    atCommit    \* GitHub: the default branch still ends at the approved commit

store    == <<created, record, job, tasks, approval, rejected, receipt, events>>
views    == <<jobView, eventsView>>
external == <<runs, serial, atCommit>>
vars     == <<store, views, settled, worker, completer, external>>

Commands == {"RUN_DEPLOYMENT", "PLAN_COMPLETED", "APPLY_COMPLETED", "ASSESS_RESOURCE"}
Unseen == -1
NoPlan == [hash |-> NoHash, serial |-> 0]
NoRun  == [hash |-> NoHash, serial |-> 0, atCommit |-> FALSE, conclusion |-> "none"]
Idle   == [pc |-> "idle", revision |-> 0, plan |-> NoPlan, run |-> NoHash]
IdleCompleter == [pc |-> "idle", run |-> NoHash, revision |-> 0]

Task(revision, command) == [revision |-> revision, command |-> command]

(* What to_dict() leaves in the item for an absent verification_assessment_id. *)
AbsentLink == IF NullAttribute THEN "NULL" ELSE "absent"

Init ==
    /\ created = FALSE
    /\ record = [plan |-> NoPlan, verification |-> AbsentLink]
    /\ job = CreateJob("TERRAFORM_PLAN")
    /\ jobView = Unseen
    /\ tasks = {}
    /\ approval = NoHash
    /\ rejected = FALSE
    /\ receipt = FALSE
    /\ events = [r \in Runs |-> "none"]
    /\ eventsView = [r \in Runs |-> "none"]
    /\ settled = {}
    /\ worker = [w \in Workers |-> Idle]
    /\ completer = [c \in Completers |-> IdleCompleter]
    /\ runs = [r \in Runs |-> NoRun]
    /\ serial = 0
    /\ atCommit \in BOOLEAN

-----------------------------------------------------------------------------
(* Requests: create, approve, reject. *)

(* DynamoDbDeploymentRepository.create_deployment: the record, the Job and its first task. *)
PutDeployment ==
    /\ ~created
    /\ created' = TRUE
    /\ tasks' = {Task(0, "RUN_DEPLOYMENT")}

CreateDeployment ==
    /\ PutDeployment
    /\ UNCHANGED <<record, job, approval, rejected, receipt, events>>
    /\ UNCHANGED <<views, settled, worker, completer, external>>

(* Mutated form of CommitStage: the next stage's task names the revision before it. *)
CommitStageLate(status, step, assessment, command) ==
    /\ CanTransition(job, job.revision, status, assessment)
    /\ job' = TransitionJob(job, status, step, assessment)
    /\ tasks' = tasks \cup {Task(job.revision, command)}

(* The Job and Outbox items of a stage's transaction. *)
CommitStage(status, step, assessment, command) ==
    /\ CanTransition(job, job.revision, status, assessment)
    /\ job' = TransitionJob(job, status, step, assessment)
    /\ tasks' = tasks \cup {Task(job'.revision, command)}

(* DeploymentApiService.approve and DeploymentApprovalService.approve: the request names *)
(* the stored plan, readiness is derived from it, and the APPROVAL item is put once.     *)
Approvable(plan) == plan # NoPlan /\ plan.hash \in ReadyPlans

(* Mutated form of Approve: readiness is not required. *)
ApproveAnyPlan ==
    /\ created
    /\ record.plan # NoPlan
    /\ approval = NoHash
    /\ CommitStage("RUNNING", "APPLY", NoLink, "PLAN_COMPLETED")
    /\ approval' = record.plan.hash
    /\ UNCHANGED <<created, record, rejected, receipt, events>>
    /\ UNCHANGED <<views, settled, worker, completer, external>>

(* Mutated form of Approve: the whole plan is recorded in place of its digest. *)
ApproveRecordingPlan ==
    /\ created
    /\ Approvable(record.plan)
    /\ approval = NoHash
    /\ CommitStage("RUNNING", "APPLY", NoLink, "PLAN_COMPLETED")
    /\ approval' = record.plan
    /\ UNCHANGED <<created, record, rejected, receipt, events>>
    /\ UNCHANGED <<views, settled, worker, completer, external>>

Approve ==
    /\ created
    /\ Approvable(record.plan)
    /\ approval = NoHash
    /\ CommitStage("RUNNING", "APPLY", NoLink, "PLAN_COMPLETED")
    /\ approval' = record.plan.hash
    /\ UNCHANGED <<created, record, rejected, receipt, events>>
    /\ UNCHANGED <<views, settled, worker, completer, external>>

(* reject_deployment: the REJECTION item, put once, and the Job. *)
PutRejection ==
    /\ ~rejected
    /\ rejected' = TRUE
    /\ CanTransition(job, job.revision, "CANCELLED", NoLink)
    /\ job' = TransitionJob(job, "CANCELLED", job.step, NoLink)

(* DeploymentApiService.reject: from any Job status that still moves; no task follows. *)
Reject ==
    /\ created
    /\ PutRejection
    /\ UNCHANGED <<created, record, tasks, approval, receipt, events>>
    /\ UNCHANGED <<views, settled, worker, completer, external>>

-----------------------------------------------------------------------------
(* The Deployment Worker. *)

PendingRuns(view) == {r \in Runs : view[r] = "pending"}

(* DeploymentApproval.matches: of one deployment, the commit is given and only the digest   *)
(* can differ.                                                                              *)
Matches(digest, plan) == digest = plan.hash

(* _require_approved_plan, on the loaded work. *)
ApprovedPlan == record.plan # NoPlan /\ Matches(approval, record.plan)

Loaded(w, t, pc, plan, run) ==
    worker' = [worker EXCEPT ![w] =
                  [pc |-> pc, revision |-> t.revision, plan |-> plan, run |-> run]]

(* get_work, then the checks of the command on what it loaded.  A Job seen at another     *)
(* revision, two pending events, a missing approval or run: the invocation raises and      *)
(* nothing changes.                                                                        *)
LoadWork(w, t) ==
    /\ worker[w].pc = "idle"
    /\ jobView = t.revision
    /\ Cardinality(PendingRuns(eventsView)) <= 1
    /\ \/ /\ t.command = "RUN_DEPLOYMENT"
          /\ Loaded(w, t, "plan", NoPlan, NoHash)
       \/ /\ t.command = "PLAN_COMPLETED"
          /\ ApprovedPlan
          /\ Loaded(w, t, "dispatch", record.plan, NoHash)
       \/ /\ t.command = "APPLY_COMPLETED"
          /\ ApprovedPlan
          /\ \E r \in PendingRuns(eventsView) : Loaded(w, t, "verify", record.plan, r)
    /\ UNCHANGED <<store, views, settled, completer, external>>

(* _live_plan_outputs_fetcher: what a plan run left behind.  The run is recognised by its    *)
(* title, which a run of an earlier delivery has too, and the state may move after a plan    *)
(* was computed from it.                                                                     *)
PlanOutputs == [hash : Hashes, serial : 0 .. serial]

(* LivePlanRequestPort.request_plan *)
RequestPlan(w) ==
    /\ worker[w].pc = "plan"
    /\ \E outputs \in PlanOutputs :
          worker' = [worker EXCEPT ![w].pc = "store", ![w].plan = outputs]
    /\ UNCHANGED <<store, views, settled, completer, external>>

(* Mutated form of MayStorePlan: attribute_exists(PK) alone. *)
AlwaysStorePlan == created

MayStorePlan == record.plan = NoPlan

(* put_plan_if_absent; a failed condition is absorbed. *)
StorePlan(w) ==
    /\ worker[w].pc = "store"
    /\ record' = IF MayStorePlan THEN [record EXCEPT !.plan = worker[w].plan] ELSE record
    /\ worker' = [worker EXCEPT ![w] = Idle]
    /\ UNCHANGED <<created, job, tasks, approval, rejected, receipt, events>>
    /\ UNCHANGED <<views, settled, completer, external>>

(* LiveApplyDispatchPort.dispatch_apply: the POST creates a run on the default branch.    *)
(* It may also create the run and raise (a timed-out answer).                              *)
DispatchApply(w) ==
    /\ worker[w].pc = "dispatch"
    /\ \E r \in Runs :
          /\ runs[r] = NoRun
          /\ runs' = [runs EXCEPT ![r] =
                 [hash |-> worker[w].plan.hash, serial |-> worker[w].plan.serial,
                  atCommit |-> atCommit, conclusion |-> "queued"]]
    /\ \/ worker' = [worker EXCEPT ![w].pc = "receipt"]
       \/ worker' = [worker EXCEPT ![w] = Idle]
    /\ UNCHANGED <<store, views, settled, completer, serial, atCommit>>

(* put_receipt_if_absent *)
StoreReceipt(w) ==
    /\ worker[w].pc = "receipt"
    /\ receipt' = TRUE
    /\ worker' = [worker EXCEPT ![w] = Idle]
    /\ UNCHANGED <<created, record, job, tasks, approval, rejected, events>>
    /\ UNCHANGED <<views, settled, completer, external>>

(* LiveWorkflowRunReader.read_run: a run that has not concluded is read as a failed one.     *)
RunFacts(run) ==
    [run EXCEPT !.conclusion = IF @ = "success" THEN "success" ELSE "failure"]

(* Mutated form of RunMatchesApproval: the run's conclusion is not compared. *)
RunMatchesPlanOnly(run, plan) == run.hash = plan.hash /\ run.atCommit

(* _require_run_matches_approval: head_sha, the digest in the run name, the conclusion.     *)
RunMatchesApproval(run, plan) ==
    run.hash = plan.hash /\ run.atCommit /\ run.conclusion = "success"

(* put_verification_if_absent: a failed condition is absorbed. *)
PutVerification(r) ==
    events' = IF events[r] = "pending" THEN [events EXCEPT ![r] = "verified"] ELSE events

(* read_run, reread_actual and put_verification_if_absent.  A run that does not match, or  *)
(* cannot be read, blocks the invocation (WorkerStops).                                     *)
ConfirmRun(w) ==
    LET r == worker[w].run IN
    /\ worker[w].pc = "verify"
    /\ RunMatchesApproval(RunFacts(runs[r]), worker[w].plan)
    /\ PutVerification(r)
    /\ worker' = [worker EXCEPT ![w].pc = "start"]
    /\ UNCHANGED <<created, record, job, tasks, approval, rejected, receipt>>
    /\ UNCHANGED <<views, settled, completer, external>>

(* start_verification: it returns when the verification is already linked and raises when  *)
(* the Job is at another revision or terminal (WorkerStops); otherwise it prepares the      *)
(* Assessment for the Job it read.                                                          *)
ReadForVerification(w) ==
    /\ worker[w].pc = "start"
    /\ record.verification \notin AssessmentIds
    /\ job.assessment = NoLink
    /\ job.revision = worker[w].revision
    /\ job.status \notin TerminalStatus
    /\ worker' = [worker EXCEPT ![w].pc = "commit"]
    /\ UNCHANGED <<store, views, settled, completer, external>>

(* Conditions of create_verification_assessment.  attribute_not_exists is false of an       *)
(* attribute that is NULL.                                                                   *)
MayLinkRecord(w) ==
    /\ job.revision = worker[w].revision
    /\ record.verification = "absent"

(* The verification Assessment, the resumed Job, its task and the record's link. *)
StartVerification(w) ==
    /\ worker[w].pc = "commit"
    /\ MayLinkRecord(w)
    /\ \E a \in AssessmentIds :
          /\ CommitStage("RUNNING", "POST_DEPLOY_VERIFICATION", a, "ASSESS_RESOURCE")
          /\ record' = [record EXCEPT !.verification = a]
    /\ worker' = [worker EXCEPT ![w] = Idle]
    /\ UNCHANGED <<created, approval, rejected, receipt, events>>
    /\ UNCHANGED <<views, settled, completer, external>>

(* The transaction is cancelled: DuplicateJobError, and the record is read again for the    *)
(* winner to return, or to raise (WorkerStops).                                             *)
VerificationConflicts(w) ==
    /\ worker[w].pc = "commit"
    /\ ~MayLinkRecord(w)
    /\ worker' = [worker EXCEPT ![w].pc = "conflict"]
    /\ UNCHANGED <<store, views, settled, completer, external>>

(* The command returns, raises, times out or crashes; SQS delivers its task again. *)
WorkerStops(w) ==
    /\ worker[w].pc # "idle"
    /\ worker' = [worker EXCEPT ![w] = Idle]
    /\ UNCHANGED <<store, views, settled, completer, external>>

-----------------------------------------------------------------------------
(* The apply completion Event (at least once, unordered). *)

Concluded(r) == runs[r].conclusion \in {"success", "failure"}

(* record_completion reads the deployment and its Job.  For a terminal Job it raises and   *)
(* the Event is retried.                                                                    *)
ReceiveCompletion(c, r) ==
    /\ completer[c].pc = "idle"
    /\ Concluded(r)
    /\ job.status \notin TerminalStatus
    /\ completer' = [completer EXCEPT ![c] = [pc |-> "reserve", run |-> r, revision |-> job.revision]]
    /\ UNCHANGED <<store, views, settled, worker, external>>

(* Mutated form of MayReserve: an EVENT item already there is overwritten. *)
MayReserveAgain(c) == job.revision = completer[c].revision

MayReserve(c) ==
    /\ events[completer[c].run] = "none"
    /\ job.revision = completer[c].revision

CompletionReturns(c) ==
    /\ settled' = settled \cup {completer[c].run}
    /\ completer' = [completer EXCEPT ![c] = IdleCompleter]

(* reserve_completion_event: the EVENT item, the resumed Job and its task. *)
ReserveCompletion(c) ==
    /\ completer[c].pc = "reserve"
    /\ MayReserve(c)
    /\ events' = [events EXCEPT ![completer[c].run] = "pending"]
    /\ CommitStage("RUNNING", "POST_DEPLOY_VERIFICATION", NoLink, "APPLY_COMPLETED")
    /\ CompletionReturns(c)
    /\ UNCHANGED <<created, record, approval, rejected, receipt>>
    /\ UNCHANGED <<views, worker, external>>

(* The transaction is cancelled: DuplicateJobError is taken for a redelivery. *)
AbsorbCompletion(c) ==
    /\ completer[c].pc = "reserve"
    /\ ~MayReserve(c)
    /\ CompletionReturns(c)
    /\ UNCHANGED <<store, views, worker, external>>

CompleterStops(c) ==
    /\ completer[c].pc # "idle"
    /\ completer' = [completer EXCEPT ![c] = IdleCompleter]
    /\ UNCHANGED <<store, views, settled, worker, external>>

-----------------------------------------------------------------------------
(* Index and query views, GitHub and the Terraform state. *)

JobViewCatchesUp ==
    /\ created
    /\ jobView # job.revision
    /\ jobView' = job.revision
    /\ UNCHANGED <<store, eventsView, settled, worker, completer, external>>

EventsViewCatchesUp(r) ==
    /\ eventsView[r] # events[r]
    /\ eventsView' = [eventsView EXCEPT ![r] = events[r]]
    /\ UNCHANGED <<store, jobView, settled, worker, completer, external>>

(* Mutated form of StateUnmoved: the workflow does not compare lineage and serial. *)
StateUnchecked(run) == run.serial \in Nat

StateUnmoved(run) == run.serial = serial

(* terraform-apply.yml, serialised per deployment: the saved plan is applied only to the  *)
(* state it was computed from, and applying it moves the state.                            *)
RunSucceeds(r) ==
    /\ runs[r].conclusion = "queued"
    /\ StateUnmoved(runs[r])
    /\ serial < MaxSerial
    /\ serial' = serial + 1
    /\ runs' = [runs EXCEPT ![r].conclusion = "success"]
    /\ UNCHANGED <<store, views, settled, worker, completer, atCommit>>

(* Any step of the workflow fails, possibly after part of the plan was applied. *)
RunFails(r) ==
    /\ runs[r].conclusion = "queued"
    /\ serial' \in {serial} \cup {s \in {serial + 1} : StateUnmoved(runs[r]) /\ s <= MaxSerial}
    /\ runs' = [runs EXCEPT ![r].conclusion = "failure"]
    /\ UNCHANGED <<store, views, settled, worker, completer, atCommit>>

StateMoves ==
    /\ serial < MaxSerial
    /\ serial' = serial + 1
    /\ UNCHANGED <<store, views, settled, worker, completer, runs, atCommit>>

BranchMoves ==
    /\ atCommit
    /\ atCommit' = FALSE
    /\ UNCHANGED <<store, views, settled, worker, completer, runs, serial>>

-----------------------------------------------------------------------------
WorkerStep(w) ==
    \/ \E t \in tasks : LoadWork(w, t)
    \/ RequestPlan(w) \/ StorePlan(w) \/ DispatchApply(w) \/ StoreReceipt(w)
    \/ ConfirmRun(w) \/ ReadForVerification(w) \/ StartVerification(w)
    \/ VerificationConflicts(w) \/ WorkerStops(w)

CompleterStep(c) ==
    \/ \E r \in Runs : ReceiveCompletion(c, r)
    \/ ReserveCompletion(c) \/ AbsorbCompletion(c) \/ CompleterStops(c)

EnvironmentStep ==
    \/ JobViewCatchesUp
    \/ \E r \in Runs : EventsViewCatchesUp(r) \/ RunSucceeds(r) \/ RunFails(r)
    \/ StateMoves
    \/ BranchMoves

Next ==
    \/ CreateDeployment \/ Approve \/ Reject
    \/ \E w \in Workers : WorkerStep(w)
    \/ \E c \in Completers : CompleterStep(c)
    \/ EnvironmentStep

Spec == Init /\ [][Next]_vars

-----------------------------------------------------------------------------
(* The status a reader sees. *)

(* Mutated form of VerifiedRuns: a reserved Event already counts. *)
ReservedRuns == {r \in Runs : events[r] # "none"}

VerifiedRuns == {r \in Runs : events[r] = "verified"}

(* _apply_outcome: the conclusion comes from a VERIFIED item only. *)
ApplyOutcome ==
    IF VerifiedRuns # {}
    THEN IF \E r \in VerifiedRuns : runs[r].conclusion = "success" THEN "SUCCEEDED" ELSE "FAILED"
    ELSE IF receipt THEN "RUNNING" ELSE "NOT_STARTED"

(* BLOCKED stands for every readiness but READY_FOR_APPROVAL. *)
ReadinessSignal ==
    IF record.plan = NoPlan THEN "NONE"
    ELSE IF record.plan.hash \in ReadyPlans THEN "READY_FOR_APPROVAL" ELSE "BLOCKED"

(* The comparison that ends a verification is in AssessmentRun. *)
VerificationOutcome ==
    IF record.verification \in AssessmentIds THEN "RUNNING" ELSE "NOT_STARTED"

(* get_deployment_facts.  An approval that was rejected afterwards counts no more. *)
Facts == [rejected     |-> rejected,
          approved     |-> approval # NoHash /\ ~rejected,
          job          |-> job.status,
          step         |-> job.step,
          readiness    |-> ReadinessSignal,
          apply        |-> ApplyOutcome,
          verification |-> VerificationOutcome]

(* derive_deployment_status *)
DerivedStatus(facts) ==
    CASE facts.rejected -> "REJECTED"
      [] ~facts.rejected /\ facts.apply # "SUCCEEDED"
         /\ facts.job \in {"FAILED", "CANCELLED"} -> "MANUAL_REVIEW"
      [] ~facts.rejected /\ facts.apply = "SUCCEEDED" ->
            [NOT_STARTED |-> "APPLIED", RUNNING |-> "VERIFYING", COMPARABLE |-> "VERIFIED",
             INDETERMINATE |-> "VERIFICATION_INDETERMINATE"][facts.verification]
      [] OTHER ->
            IF facts.apply = "FAILED" THEN "MANUAL_REVIEW"
            ELSE IF facts.apply = "RUNNING" THEN "APPLYING"
            ELSE IF facts.approved THEN "APPROVED"
            ELSE IF facts.readiness = "BLOCKED" THEN "BLOCKED"
            ELSE IF facts.readiness = "READY_FOR_APPROVAL" THEN "WAITING_APPROVAL"
            ELSE IF facts.step = "TERRAFORM_PLAN" THEN "PLAN_REQUESTED"
            ELSE IF facts.step = "PRE_DEPLOY_VALIDATION" THEN "READINESS_EVALUATED"
            ELSE "PLAN_COMPLETED"

Status == DerivedStatus(Facts)

(* How far a status is from the creation of the deployment. *)
Progress(status) ==
    CASE status = "PLAN_REQUESTED" -> 0
      [] status \in {"WAITING_APPROVAL", "BLOCKED"} -> 1
      [] status = "APPROVED" -> 2
      [] status = "APPLYING" -> 3
      [] status \in {"APPLIED", "MANUAL_REVIEW"} -> 4
      [] status = "VERIFYING" -> 5
      [] status = "REJECTED" -> 6

-----------------------------------------------------------------------------
Plans == [hash : Hashes, serial : 0 .. MaxSerial] \cup {NoPlan}
EventState == {"none", "pending", "verified"}
RunOrNone == Runs \cup {NoHash}

WorkflowTasks == [revision : Nat, command : Commands]
RecordItems == [plan : Plans, verification : AssessmentIds \cup {"absent", "NULL"}]
JobItems == [status : JobStatus, step : JobStep, revision : Nat,
             assessment : AssessmentIds \cup {NoLink}]
Invocations == [pc : {"idle", "plan", "store", "dispatch", "receipt", "verify", "start",
                      "commit", "conflict"},
                revision : Nat, plan : Plans, run : RunOrNone]
Completions == [pc : {"idle", "reserve"}, run : RunOrNone, revision : Nat]
ApplyRuns == [hash : Hashes, serial : 0 .. MaxSerial, atCommit : BOOLEAN,
              conclusion : {"queued", "success", "failure"}]

TypeOK ==
    /\ created \in BOOLEAN
    /\ record \in RecordItems
    /\ job \in JobItems
    /\ jobView \in Nat \cup {Unseen}
    /\ tasks \subseteq WorkflowTasks
    /\ approval \in Hashes \cup {NoHash}
    /\ rejected \in BOOLEAN
    /\ receipt \in BOOLEAN
    /\ events \in [Runs -> EventState]
    /\ eventsView \in [Runs -> EventState]
    /\ settled \subseteq Runs
    /\ worker \in [Workers -> Invocations]
    /\ completer \in [Completers -> Completions]
    /\ runs \in [Runs -> ApplyRuns \cup {NoRun}]
    /\ serial \in 0 .. MaxSerial
    /\ atCommit \in BOOLEAN

(* ADR-0019 invariant 3: no apply run exists but of the stored plan, ready and approved    *)
(* under exactly that digest, however late or often the worker that dispatched it ran.     *)
RunsAreApproved ==
    \A r \in Runs : runs[r] # NoRun =>
        /\ approval = runs[r].hash
        /\ record.plan.hash = runs[r].hash /\ record.plan.serial = runs[r].serial
        /\ runs[r].hash \in ReadyPlans

(* However many runs duplicated deliveries dispatch, the approved plan is applied to the    *)
(* infrastructure at most once.                                                             *)
AppliedAtMostOnce ==
    \A r, q \in Runs :
        runs[r].conclusion = "success" /\ runs[q].conclusion = "success" => r = q

(* An Event is VERIFIED only for a run that GitHub concluded successfully on the approved   *)
(* commit and digest: neither the Event nor the dispatch receipt can stand in for it.       *)
VerifiedRunsSucceeded ==
    \A r \in Runs : events[r] = "verified" =>
        /\ runs[r].conclusion = "success" /\ runs[r].atCommit
        /\ runs[r].hash = approval

(* The record's verification link and the Job's assessment link are the same Assessment,    *)
(* and there is one only after some apply run was verified.                                 *)
VerificationIsLinked ==
    /\ job.assessment = IF record.verification \in AssessmentIds THEN record.verification ELSE NoLink
    /\ job.assessment # NoLink => VerifiedRuns # {}

(* A rejection is final: the Job is cancelled with it, and no approval, completion or       *)
(* verification moves the deployment's Job again.                                           *)
RejectionIsFinal ==
    [][rejected => rejected' /\ job' = job /\ approval' = approval
                   /\ record'.verification = record.verification]_vars

(* What a human approved stays what is stored: plan, approval, verified Events and the      *)
(* verification link are written once.                                                      *)
FactsAreWriteOnce ==
    [][/\ record.plan # NoPlan => record'.plan = record.plan
       /\ approval # NoHash => approval' = approval
       /\ record.verification \in AssessmentIds => record'.verification = record.verification
       /\ \A r \in Runs : /\ events[r] = "verified" => events'[r] = "verified"
                          /\ events[r] # "none" => events'[r] # "none"]_vars

(* The status a reader derives from stored facts, and from what GitHub says of the runs,     *)
(* never goes back to an earlier phase.                                                      *)
StatusNeverRegresses == [][Facts' # Facts => Progress(Status') >= Progress(Status)]_vars

-----------------------------------------------------------------------------
(* What documents and comments say of this program and the code does not do (for what they  *)
(* promise eventually, see DeploymentDelivery).  A run shows that ConflictHasWinner fails;    *)
(* README.md says how to see it of the others.                                                *)

(* ADR-0019 invariant 4: no second apply run for the same approval. *)
OneRunPerApproval == \A r, q \in Runs : runs[r] # NoRun /\ runs[q] # NoRun => r = q

(* deployment/verification.py: when the verification transaction conflicts although nobody  *)
(* moved the Job, a concurrent redelivery wrote first and its Assessment is stored.         *)
ConflictHasWinner ==
    \A w \in Workers : worker[w].pc = "conflict" /\ job.revision = worker[w].revision =>
        record.verification \in AssessmentIds

(* repositories/deployment_completion.py: a completion absorbed as a duplicate is reserved  *)
(* already (a human rejection in between excepted).                                          *)
SettledIsReserved == \A r \in settled : events[r] # "none" \/ rejected

(* ADR-0019 section 8: REJECTED is reached from WAITING_APPROVAL, so the plan of a rejected  *)
(* deployment was never applied.                                                             *)
RejectedIsUnapplied == rejected => \A r \in Runs : runs[r].conclusion # "success"

=============================================================================

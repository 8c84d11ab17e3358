-------------------------- MODULE DeploymentProofs --------------------------
(***************************************************************************)
(* Theorems about Deployment, for any number of workers, completion        *)
(* handlers and runs, any digests and ids, and both values of              *)
(* NullAttribute: types, the approved chain, the order of the status, and  *)
(* the refinement of ApplyGate.                                            *)
(***************************************************************************)
EXTENDS DeploymentRefinement, TLAPS

-----------------------------------------------------------------------------
(* Types. *)

(* An invocation that dispatches or verifies loaded a plan, and one that verifies or        *)
(* reserves has a run.                                                                      *)
LoadedWork ==
    \A w \in Workers :
        /\ worker[w].pc \in {"dispatch", "verify"} => worker[w].plan # NoPlan
        /\ worker[w].pc = "verify" => worker[w].run \in Runs

ReceivedRuns ==
    \A c \in Completers : completer[c].pc = "reserve" => completer[c].run \in Runs

TypeInv == TypeOK /\ LoadedWork /\ ReceivedRuns

(* The initial state has the right types. *)
LEMMA InitialType == Init => TypeInv
<1> SUFFICES ASSUME Init PROVE TypeInv
  OBVIOUS
<1> USE DeploymentAssumption
<1>1. record \in RecordItems
  BY DEF Init, RecordItems, Plans, AbsentLink
<1>2. job \in JobItems
  BY DEF Init, JobItems, CreateJob, JobStatus, JobStep
<1>3. Idle \in Invocations
  BY DEF Idle, Invocations, Plans, RunOrNone
<1>4. IdleCompleter \in Completions
  BY DEF IdleCompleter, Completions, RunOrNone
<1>5. /\ worker = [w \in Workers |-> Idle] /\ Idle.pc = "idle"
      /\ completer = [c \in Completers |-> IdleCompleter] /\ IdleCompleter.pc = "idle"
      /\ runs = [r \in Runs |-> NoRun]
      /\ events = [r \in Runs |-> "none"] /\ eventsView = [r \in Runs |-> "none"]
  BY DEF Init, Idle, IdleCompleter
<1>6. /\ worker \in [Workers -> Invocations]
      /\ completer \in [Completers -> Completions]
      /\ runs \in [Runs -> ApplyRuns \cup {NoRun}]
      /\ events \in [Runs -> EventState] /\ eventsView \in [Runs -> EventState]
  BY <1>3, <1>4, <1>5 DEF EventState
<1>7. /\ created \in BOOLEAN /\ rejected \in BOOLEAN /\ receipt \in BOOLEAN
      /\ atCommit \in BOOLEAN
      /\ tasks = {} /\ settled = {} /\ jobView = Unseen /\ approval = NoHash
  BY Zenon DEF Init
<1>8. serial \in 0 .. MaxSerial
  BY DEF Init
<1>9. LoadedWork /\ ReceivedRuns
  BY <1>5 DEF LoadedWork, ReceivedRuns
<1> QED
  BY <1>1, <1>2, <1>6, <1>7, <1>8, <1>9 DEF TypeInv, TypeOK

(* A stage leaves a Job and tasks of the right types. *)
LEMMA CommitStageType ==
    ASSUME job \in JobItems, tasks \subseteq WorkflowTasks,
           NEW status \in JobStatus, NEW step \in JobStep,
           NEW link \in AssessmentIds \cup {NoLink}, NEW command \in Commands,
           CommitStage(status, step, link, command)
    PROVE  /\ job' \in JobItems
           /\ tasks' \subseteq WorkflowTasks
<1>1. job' \in JobItems
  BY DEF CommitStage, TransitionJob, LinkOnce, JobItems
<1>2. Task(job'.revision, command) \in WorkflowTasks
  BY <1>1 DEF Task, JobItems, WorkflowTasks
<1> QED
  BY <1>1, <1>2 DEF CommitStage

(* Requests keep TypeInv. *)
LEMMA RequestKeepsType ==
    ASSUME TypeInv, CreateDeployment \/ Approve \/ Reject
    PROVE  TypeInv'
<1> USE DEF TypeInv, TypeOK, LoadedWork, ReceivedRuns, views, external
<1>1. CASE CreateDeployment
  <2>1. Task(0, "RUN_DEPLOYMENT") \in WorkflowTasks
    BY DEF Task, Commands, WorkflowTasks
  <2> QED
    BY <1>1, <2>1 DEF CreateDeployment, PutDeployment
<1>2. CASE Approve
  <2>1. approval' \in Hashes
    BY <1>2 DEF Approve, Approvable, RecordItems, Plans
  <2>2. /\ job' \in JobItems
        /\ tasks' \subseteq WorkflowTasks
    BY <1>2, CommitStageType DEF Approve, JobStatus, JobStep, Commands
  <2> QED
    BY <1>2, <2>1, <2>2 DEF Approve
<1>3. CASE Reject
  <2>1. job' \in JobItems
    BY <1>3 DEF Reject, PutRejection, TransitionJob, LinkOnce, JobItems, JobStatus
  <2> QED
    BY <1>3, <2>1 DEF Reject, PutRejection
<1> QED
  BY <1>1, <1>2, <1>3

(* Every step of a worker invocation keeps TypeInv. *)
LEMMA WorkerKeepsType ==
    ASSUME TypeInv, NEW w \in Workers, WorkerStep(w)
    PROVE  TypeInv'
<1> USE DEF TypeInv, TypeOK, LoadedWork, ReceivedRuns, store, views, external
<1>1. worker[w] \in Invocations /\ Idle \in Invocations
  BY DeploymentAssumption DEF Idle, Invocations, Plans, RunOrNone
<1>2. ASSUME NEW pc \in {"receipt", "start", "commit", "conflict"},
             worker' = [worker EXCEPT ![w].pc = pc]
      PROVE  worker' \in [Workers -> Invocations] /\ LoadedWork'
  BY <1>1, <1>2 DEF Invocations
<1>3. ASSUME worker' = [worker EXCEPT ![w] = Idle]
       PROVE  worker' \in [Workers -> Invocations] /\ LoadedWork'
  BY <1>1, <1>3 DEF Idle
<1>4. ASSUME NEW t \in tasks, LoadWork(w, t)
      PROVE  TypeInv'
  <2>1. t.revision \in Nat /\ record.plan \in Plans /\ NoPlan \in Plans
    BY DEF RecordItems, Plans, WorkflowTasks
  <2>2. PICK pc \in {"plan", "dispatch", "verify"}, plan \in Plans, run \in RunOrNone :
            /\ Loaded(w, t, pc, plan, run)
            /\ pc \in {"dispatch", "verify"} => plan # NoPlan
            /\ pc = "verify" => run \in Runs
    BY <1>4, <2>1 DEF LoadWork, PendingRuns, RunOrNone, ApprovedPlan, Matches
  <2>3. [pc |-> pc, revision |-> t.revision, plan |-> plan, run |-> run] \in Invocations
    BY <2>1 DEF Invocations
  <2> QED
    BY <1>4, <2>2, <2>3 DEF LoadWork, Loaded
<1>5. CASE RequestPlan(w)
  <2>1. PICK outputs \in PlanOutputs : worker' = [worker EXCEPT ![w].pc = "store",
                                                                ![w].plan = outputs]
    BY <1>5 DEF RequestPlan
  <2>2. outputs \in Plans
    BY DeploymentAssumption DEF Plans, PlanOutputs
  <2>3. worker' \in [Workers -> Invocations]
    BY <1>1, <2>1, <2>2 DEF Invocations
  <2> QED
    BY <1>5, <2>3 DEF RequestPlan
<1>6. CASE StorePlan(w)
  <2>1. record' \in RecordItems
    BY <1>1, <1>6 DEF StorePlan, RecordItems, Invocations
  <2> QED
    BY <1>3, <1>6, <2>1 DEF StorePlan
<1>7. CASE StoreReceipt(w)
  BY <1>3, <1>7 DEF StoreReceipt
<1>8. CASE ConfirmRun(w)
  <2>1. events' \in [Runs -> EventState]
    BY <1>8 DEF ConfirmRun, PutVerification, EventState
  <2> QED
    BY <1>2, <1>8, <2>1 DEF ConfirmRun
<1>9. CASE ReadForVerification(w) \/ VerificationConflicts(w)
  BY <1>2, <1>9 DEF ReadForVerification, VerificationConflicts
<1>10. CASE StartVerification(w)
  <2>1. PICK a \in AssessmentIds :
            /\ CommitStage("RUNNING", "POST_DEPLOY_VERIFICATION", a, "ASSESS_RESOURCE")
            /\ record' = [record EXCEPT !.verification = a]
    BY <1>10 DEF StartVerification
  <2>2. /\ job' \in JobItems
        /\ tasks' \subseteq WorkflowTasks
    BY <2>1, CommitStageType DEF JobStatus, JobStep, Commands
  <2>3. record' \in RecordItems
    BY <2>1 DEF RecordItems
  <2> QED
    BY <1>3, <1>10, <2>2, <2>3 DEF StartVerification
<1>11. CASE WorkerStops(w)
  BY <1>3, <1>11 DEF WorkerStops
<1>12. CASE DispatchApply(w)
  <2>1. PICK r \in Runs : runs' = [runs EXCEPT ![r] =
            [hash |-> worker[w].plan.hash, serial |-> worker[w].plan.serial,
             atCommit |-> atCommit, conclusion |-> "queued"]]
    BY <1>12 DEF DispatchApply
  <2>2. worker[w].plan.hash \in Hashes /\ worker[w].plan.serial \in 0 .. MaxSerial
    BY <1>1, <1>12 DEF DispatchApply, Invocations, Plans
  <2>3. runs' \in [Runs -> ApplyRuns \cup {NoRun}]
    BY <2>1, <2>2 DEF ApplyRuns
  <2> QED
    BY <1>2, <1>3, <1>12, <2>3 DEF DispatchApply
<1> QED
  BY <1>4, <1>5, <1>6, <1>7, <1>8, <1>9, <1>10, <1>11, <1>12 DEF WorkerStep

(* Every step of a completion keeps TypeInv. *)
LEMMA CompleterKeepsType ==
    ASSUME TypeInv, NEW c \in Completers, CompleterStep(c)
    PROVE  TypeInv'
<1> USE DEF TypeInv, TypeOK, LoadedWork, ReceivedRuns, store, views, external
<1>1. completer[c] \in Completions /\ IdleCompleter \in Completions
  BY DEF IdleCompleter, Completions, RunOrNone
<1>2. ASSUME NEW r \in Runs, ReceiveCompletion(c, r)
      PROVE  TypeInv'
  <2>1. [pc |-> "reserve", run |-> r, revision |-> job.revision] \in Completions
    BY DEF Completions, RunOrNone, JobItems
  <2> QED
    BY <1>2, <2>1 DEF ReceiveCompletion
<1>3. ASSUME completer' = [completer EXCEPT ![c] = IdleCompleter]
      PROVE  completer' \in [Completers -> Completions] /\ ReceivedRuns'
  BY <1>1, <1>3 DEF IdleCompleter
<1>4. ASSUME CompletionReturns(c), completer[c].pc = "reserve"
      PROVE  settled' \subseteq Runs
  BY <1>4 DEF CompletionReturns
<1>5. CASE ReserveCompletion(c)
  <2>1. /\ job' \in JobItems
        /\ tasks' \subseteq WorkflowTasks
    BY <1>5, CommitStageType DEF ReserveCompletion, JobStatus, JobStep, Commands
  <2>2. events' \in [Runs -> EventState]
    BY <1>5 DEF ReserveCompletion, EventState
  <2> QED
    BY <1>3, <1>4, <1>5, <2>1, <2>2 DEF ReserveCompletion, CompletionReturns
<1>6. CASE AbsorbCompletion(c)
  BY <1>3, <1>4, <1>6 DEF AbsorbCompletion, CompletionReturns
<1>7. CASE CompleterStops(c)
  BY <1>3, <1>7 DEF CompleterStops
<1> QED
  BY <1>2, <1>5, <1>6, <1>7 DEF CompleterStep

(* Index and query views, runs and the Terraform state keep TypeInv. *)
LEMMA EnvironmentKeepsType ==
    ASSUME TypeInv, EnvironmentStep
    PROVE  TypeInv'
<1> USE DEF TypeInv, TypeOK, LoadedWork, ReceivedRuns, store, views, external
<1>1. CASE JobViewCatchesUp
  <2>1. job.revision \in Nat
    BY DEF JobItems
  <2> QED
    BY <1>1, <2>1 DEF JobViewCatchesUp
<1>2. ASSUME NEW r \in Runs, EventsViewCatchesUp(r)
      PROVE  TypeInv'
  BY <1>2 DEF EventsViewCatchesUp
<1>3. ASSUME NEW r \in Runs, NEW conclusion \in {"success", "failure"},
             runs[r].conclusion = "queued",
             runs' = [runs EXCEPT ![r].conclusion = conclusion]
      PROVE  runs' \in [Runs -> ApplyRuns \cup {NoRun}]
  <2>1. runs[r] \in ApplyRuns
    BY <1>3 DEF NoRun
  <2>2. [runs[r] EXCEPT !.conclusion = conclusion] \in ApplyRuns
    BY <2>1 DEF ApplyRuns
  <2> QED
    BY <1>3, <2>2
<1>4. ASSUME NEW r \in Runs, RunSucceeds(r) \/ RunFails(r)
      PROVE  TypeInv'
  <2>1. runs' \in [Runs -> ApplyRuns \cup {NoRun}]
    BY <1>3, <1>4 DEF RunSucceeds, RunFails
  <2>2. serial' \in 0 .. MaxSerial
    BY <1>4, DeploymentAssumption DEF RunSucceeds, RunFails
  <2> QED
    BY <1>4, <2>1, <2>2 DEF RunSucceeds, RunFails
<1>5. CASE StateMoves
  <2>1. serial' \in 0 .. MaxSerial
    BY <1>5, DeploymentAssumption DEF StateMoves
  <2> QED
    BY <1>5, <2>1 DEF StateMoves
<1>6. CASE BranchMoves
  BY <1>6 DEF BranchMoves
<1> QED
  BY <1>1, <1>2, <1>4, <1>5, <1>6 DEF EnvironmentStep

(* TypeInv is inductive. *)
LEMMA StepKeepsType == TypeInv /\ [Next]_vars => TypeInv'
<1> SUFFICES ASSUME TypeInv, [Next]_vars
             PROVE  TypeInv'
  OBVIOUS
<1>1. CASE UNCHANGED vars
  BY <1>1 DEF vars, store, views, external, TypeInv, TypeOK, LoadedWork, ReceivedRuns
<1> QED
  BY <1>1, RequestKeepsType, WorkerKeepsType, CompleterKeepsType, EnvironmentKeepsType DEF Next

(* The inductive type invariant: an invocation between two steps holds the plan and the run  *)
(* it loaded, and a completion the run it was called for.                                    *)
THEOREM TypeInvariant == Spec => []TypeInv
BY InitialType, StepKeepsType, PTL DEF Spec

(* Requests, workers, completions and runs store only values of the right types, whatever   *)
(* the number of invocations and runs and however often the Job is moved.                    *)
THEOREM TypeCorrect == Spec => []TypeOK
<1>1. TypeInv => TypeOK
  BY DEF TypeInv
<1> QED
  BY <1>1, TypeInvariant, PTL

-----------------------------------------------------------------------------
(* From the approval to the runs. *)

(* The approval names the stored plan, which no longer changes, and an invocation that      *)
(* dispatches or verifies works on that plan.                                               *)
ApprovalInv ==
    /\ approval # NoHash => Approvable(record.plan) /\ approval = record.plan.hash
    /\ \A w \in Workers : worker[w].pc \in {"dispatch", "verify"} =>
          worker[w].plan = record.plan /\ approval = record.plan.hash
    /\ RunsAreApproved

(* A stored plan has a real digest. *)
LEMMA PlanHashes ==
    ASSUME TypeInv, record.plan # NoPlan
    PROVE  /\ record.plan.hash \in Hashes /\ record.plan.hash # NoHash
           /\ record.plan.serial \in 0 .. MaxSerial
BY DeploymentAssumption DEF TypeInv, TypeOK, RecordItems, Plans

(* A worker passes on the approved plan it loaded, and starts runs of it only. *)
LEMMA WorkerKeepsApproval ==
    ASSUME TypeInv, ApprovalInv, NEW w \in Workers, WorkerStep(w)
    PROVE  ApprovalInv'
<1> USE DEF ApprovalInv, RunsAreApproved, store, external
<1>1. /\ worker \in [Workers -> Invocations] /\ runs \in [Runs -> ApplyRuns \cup {NoRun}]
      /\ record \in RecordItems /\ Idle.pc = "idle"
  BY DEF TypeInv, TypeOK, Idle
<1>2. \A v \in Workers \ {w} : worker'[v] = worker[v]
  BY <1>1 DEF WorkerStep, LoadWork, Loaded, RequestPlan, StorePlan, DispatchApply, StoreReceipt,
              ConfirmRun, ReadForVerification, StartVerification, VerificationConflicts, WorkerStops
<1>3. ASSUME NEW t \in tasks, LoadWork(w, t)
      PROVE  ApprovalInv'
  <2>1. worker'[w].pc \in {"dispatch", "verify"} =>
            worker'[w].plan = record.plan /\ approval = record.plan.hash
    BY <1>1, <1>3 DEF LoadWork, Loaded, ApprovedPlan, Matches, Invocations
  <2> QED
    BY <1>2, <1>3, <2>1 DEF LoadWork
<1>4. CASE RequestPlan(w)
  <2>1. worker'[w].pc = "store"
    BY <1>1, <1>4 DEF RequestPlan, Invocations
  <2> QED
    BY <1>2, <1>4, <2>1 DEF RequestPlan
<1>5. CASE StorePlan(w)
  <2>1. worker'[w].pc = "idle"
    BY <1>1, <1>5 DEF StorePlan
  <2>2. CASE record' = record
    BY <1>2, <1>5, <2>1, <2>2 DEF StorePlan
  <2>3. CASE record.plan = NoPlan
    <3>1. approval = NoHash
      BY <2>3 DEF Approvable
    <3>2. \A v \in Workers : worker[v].pc \notin {"dispatch", "verify"}
      BY <2>3 DEF TypeInv, LoadedWork
    <3>3. \A r \in Runs : runs[r] = NoRun
      BY <1>1, <3>1, DeploymentAssumption DEF ApplyRuns
    <3> QED
      BY <1>2, <1>5, <2>1, <3>1, <3>2, <3>3 DEF StorePlan
  <2> QED
    BY <1>5, <2>2, <2>3 DEF StorePlan, MayStorePlan
<1>6. CASE DispatchApply(w)
  <2>1. PICK r \in Runs :
            /\ runs[r] = NoRun
            /\ runs' = [runs EXCEPT ![r] =
                   [hash |-> worker[w].plan.hash, serial |-> worker[w].plan.serial,
                    atCommit |-> atCommit, conclusion |-> "queued"]]
    BY <1>6 DEF DispatchApply
  <2>2. record.plan # NoPlan /\ worker[w].plan = record.plan /\ approval = record.plan.hash
    BY <1>6 DEF DispatchApply, TypeInv, LoadedWork
  <2>3. record.plan.hash \in ReadyPlans
    BY <2>2, PlanHashes DEF Approvable
  <2>4. RunsAreApproved'
    BY <1>1, <1>6, <2>1, <2>2, <2>3 DEF DispatchApply
  <2>5. worker'[w].pc \notin {"dispatch", "verify"}
    BY <1>1, <1>6 DEF DispatchApply, Invocations
  <2> QED
    BY <1>2, <1>6, <2>4, <2>5 DEF DispatchApply
<1>7. ASSUME UNCHANGED <<approval, runs>>, record'.plan = record.plan,
             worker'[w].pc \notin {"dispatch", "verify"}
      PROVE  ApprovalInv'
  BY <1>2, <1>7
<1>8. CASE StartVerification(w)
  BY <1>1, <1>7, <1>8 DEF StartVerification, RecordItems
<1>9. CASE StoreReceipt(w) \/ ConfirmRun(w) \/ ReadForVerification(w)
           \/ VerificationConflicts(w) \/ WorkerStops(w)
  BY <1>1, <1>7, <1>9 DEF StoreReceipt, ConfirmRun, ReadForVerification, VerificationConflicts,
                          WorkerStops, Invocations
<1> QED
  BY <1>3, <1>4, <1>5, <1>6, <1>8, <1>9 DEF WorkerStep

(* ApprovalInv is inductive relative to TypeInv. *)
LEMMA StepKeepsApproval == TypeInv /\ ApprovalInv /\ [Next]_vars => ApprovalInv'
<1> SUFFICES ASSUME TypeInv, ApprovalInv, [Next]_vars
             PROVE  ApprovalInv'
  OBVIOUS
<1> USE DEF ApprovalInv, RunsAreApproved, store, external
<1>1. CASE UNCHANGED <<record, approval, worker, runs>>
  BY <1>1
<1>2. CASE Approve
  BY <1>2, PlanHashes DEF Approve
<1>3. ASSUME NEW w \in Workers, WorkerStep(w)
      PROVE  ApprovalInv'
  BY <1>3, WorkerKeepsApproval
<1>4. ASSUME NEW r \in Runs, RunSucceeds(r) \/ RunFails(r)
      PROVE  ApprovalInv'
  <2>1. runs[r] # NoRun
    BY <1>4 DEF RunSucceeds, RunFails, NoRun
  <2>2. /\ \A q \in Runs \ {r} : runs'[q] = runs[q]
        /\ runs'[r].hash = runs[r].hash /\ runs'[r].serial = runs[r].serial
    BY <1>4, <2>1 DEF RunSucceeds, RunFails, TypeInv, TypeOK, ApplyRuns
  <2> QED
    BY <1>4, <2>1, <2>2 DEF RunSucceeds, RunFails
<1>5. CASE CreateDeployment \/ Reject
  BY <1>1, <1>5 DEF CreateDeployment, Reject
<1>6. CASE \E c \in Completers : CompleterStep(c)
  BY <1>1, <1>6 DEF CompleterStep, ReceiveCompletion, ReserveCompletion, AbsorbCompletion,
                    CompleterStops
<1>7. CASE \/ JobViewCatchesUp \/ (\E r \in Runs : EventsViewCatchesUp(r))
           \/ StateMoves \/ BranchMoves \/ UNCHANGED vars
  BY <1>1, <1>7 DEF JobViewCatchesUp, EventsViewCatchesUp, StateMoves, BranchMoves, vars
<1> QED
  BY <1>2, <1>3, <1>4, <1>5, <1>6, <1>7 DEF Next, EnvironmentStep

(* There are no runs at first. *)
LEMMA InitialApproval == Init => ApprovalInv
BY DEF Init, ApprovalInv, RunsAreApproved, Idle

(* What every worker loaded and every run applies is the stored and approved plan, because  *)
(* plan and approval are written once.                                                       *)
THEOREM ApprovalInvariant == Spec => [](TypeInv /\ ApprovalInv)
<1>1. Init => TypeInv /\ ApprovalInv
  BY InitialType, InitialApproval
<1>2. TypeInv /\ ApprovalInv /\ [Next]_vars => (TypeInv /\ ApprovalInv)'
  BY StepKeepsType, StepKeepsApproval
<1> QED
  BY <1>1, <1>2, PTL DEF Spec

(* ADR-0019 invariant 3 for any number of workers and runs: an apply run is of the plan     *)
(* that is stored, ready and approved, whatever stale or repeated delivery dispatched it.    *)
THEOREM OnlyApprovedRuns == Spec => []RunsAreApproved
<1>1. TypeInv /\ ApprovalInv => RunsAreApproved
  BY DEF ApprovalInv
<1> QED
  BY <1>1, ApprovalInvariant, PTL

-----------------------------------------------------------------------------
(* From the runs to the infrastructure. *)

(* Applying a plan moves the state beyond the serial the plan was made from. *)
AppliedMovedState ==
    \A r \in Runs : runs[r].conclusion = "success" => runs[r].serial < serial

AppliedInv == AppliedMovedState /\ AppliedAtMostOnce

(* How GitHub runs change: none of its fields once concluded, only the conclusion before.   *)
LEMMA RunSteps ==
    ASSUME TypeInv, [Next]_vars, NEW r \in Runs
    PROVE  /\ runs[r] # NoRun =>
                 /\ runs'[r] # NoRun
                 /\ runs'[r].hash = runs[r].hash /\ runs'[r].serial = runs[r].serial
                 /\ runs'[r].atCommit = runs[r].atCommit
           /\ runs[r].conclusion = "success" => runs'[r] = runs[r]
           /\ runs'[r].conclusion = "success" /\ runs[r].conclusion # "success" =>
                 RunSucceeds(r)
           /\ serial \in Nat /\ serial' \in Nat /\ serial <= serial'
<1> USE DEF external
<1>1. serial \in Nat /\ serial' \in Nat
  BY StepKeepsType, DeploymentAssumption DEF TypeInv, TypeOK
<1>2. runs \in [Runs -> ApplyRuns \cup {NoRun}]
  BY DEF TypeInv, TypeOK
<1>3. CASE UNCHANGED <<runs, serial>>
  BY <1>1, <1>3
<1>4. ASSUME NEW w \in Workers, WorkerStep(w)
      PROVE  serial' = serial /\ (runs' = runs \/ DispatchApply(w))
  BY <1>4 DEF WorkerStep, LoadWork, RequestPlan, StorePlan, DispatchApply, StoreReceipt,
              ConfirmRun, ReadForVerification, StartVerification, VerificationConflicts, WorkerStops
<1>5. ASSUME NEW w \in Workers, DispatchApply(w), serial' = serial
      PROVE  /\ runs[r] # NoRun => runs'[r] = runs[r]
             /\ runs'[r].conclusion # "success" \/ runs'[r] = runs[r]
  BY <1>2, <1>5 DEF DispatchApply
<1>6. ASSUME NEW q \in Runs, RunSucceeds(q) \/ RunFails(q)
      PROVE  /\ runs'[q].hash = runs[q].hash /\ runs'[q].serial = runs[q].serial
             /\ runs'[q].atCommit = runs[q].atCommit /\ runs'[q] # NoRun
             /\ runs[q].conclusion = "queued" /\ serial <= serial'
             /\ \A p \in Runs \ {q} : runs'[p] = runs[p]
             /\ runs'[q].conclusion = "success" => RunSucceeds(q)
  <2>1. runs[q] \in ApplyRuns
    BY <1>2, <1>6 DEF RunSucceeds, RunFails, NoRun
  <2> QED
    BY <1>1, <1>2, <1>6, <2>1 DEF RunSucceeds, RunFails, ApplyRuns, NoRun
<1>7. CASE StateMoves
  BY <1>1, <1>7 DEF StateMoves
<1>8. CASE CreateDeployment \/ Approve \/ Reject \/ JobViewCatchesUp \/ BranchMoves
           \/ (\E q \in Runs : EventsViewCatchesUp(q))
           \/ (\E c \in Completers : CompleterStep(c)) \/ UNCHANGED vars
  BY <1>3, <1>8 DEF CreateDeployment, Approve, Reject, JobViewCatchesUp, BranchMoves,
                    EventsViewCatchesUp, CompleterStep, ReceiveCompletion, ReserveCompletion,
                    AbsorbCompletion, CompleterStops, vars
<1>9. CASE \E w \in Workers : WorkerStep(w)
  <2>1. PICK w \in Workers : WorkerStep(w)
    BY <1>9
  <2>2. serial' = serial /\ (runs' = runs \/ DispatchApply(w))
    BY <1>4, <2>1
  <2>3. CASE DispatchApply(w)
    <3>1. /\ runs[r] # NoRun => runs'[r] = runs[r]
          /\ runs'[r].conclusion # "success" \/ runs'[r] = runs[r]
      BY <1>5, <2>2, <2>3
    <3>2. runs[r].conclusion = "success" => runs[r] # NoRun
      BY DEF NoRun
    <3> QED
      BY <1>1, <2>2, <3>1, <3>2
  <2> QED
    BY <1>3, <2>2, <2>3
<1>10. CASE \E q \in Runs : RunSucceeds(q) \/ RunFails(q)
  <2>1. PICK q \in Runs : RunSucceeds(q) \/ RunFails(q)
    BY <1>10
  <2>2. CASE q = r
    <3>1. /\ runs'[r].hash = runs[r].hash /\ runs'[r].serial = runs[r].serial
          /\ runs'[r].atCommit = runs[r].atCommit /\ runs'[r] # NoRun
      BY <1>6, <2>1, <2>2
    <3>2. runs[r].conclusion = "queued" /\ serial <= serial'
      BY <1>6, <2>1, <2>2
    <3>3. runs'[r].conclusion = "success" => RunSucceeds(r)
      BY <1>6, <2>1, <2>2
    <3> QED
      BY <1>1, <3>1, <3>2, <3>3
  <2>3. CASE q # r
    <3>1. runs'[r] = runs[r] /\ serial <= serial'
      BY <1>6, <2>1, <2>3
    <3> QED
      BY <1>1, <3>1
  <2> QED
    BY <2>2, <2>3
<1> QED
  BY <1>7, <1>8, <1>9, <1>10 DEF Next, EnvironmentStep

(* AppliedInv is inductive relative to TypeInv and ApprovalInv. *)
LEMMA StepKeepsApplied == TypeInv /\ ApprovalInv /\ AppliedInv /\ [Next]_vars => AppliedInv'
<1> SUFFICES ASSUME TypeInv, ApprovalInv, AppliedInv, [Next]_vars
             PROVE  AppliedInv'
  OBVIOUS
<1> USE DEF AppliedInv, AppliedMovedState, AppliedAtMostOnce
<1>1. \A r \in Runs : runs[r] # NoRun => runs[r].serial = record.plan.serial
                                        /\ runs[r].serial \in Nat
  BY DeploymentAssumption DEF ApprovalInv, RunsAreApproved, TypeInv, TypeOK, ApplyRuns
<1>2. \A r \in Runs : runs[r].conclusion = "success" => runs[r] # NoRun
  BY DEF NoRun
<1>3. \A r \in Runs : RunSucceeds(r) =>
          runs[r].serial = serial /\ serial' = serial + 1 /\ runs[r] # NoRun
  BY DEF RunSucceeds, StateUnmoved, NoRun
<1>4. AppliedMovedState'
  BY <1>1, <1>2, <1>3, RunSteps
<1>5. ASSUME NEW r \in Runs, NEW q \in Runs, runs'[r].conclusion = "success",
             runs'[q].conclusion = "success", RunSucceeds(r)
      PROVE  r = q
  <2>1. CASE runs[q].conclusion = "success"
    BY <1>1, <1>2, <1>3, <1>5, <2>1, RunSteps
  <2>2. CASE runs[q].conclusion # "success" /\ q # r
    <3>1. runs'[q] = runs[q]
      BY <1>5, <2>2 DEF RunSucceeds, TypeInv, TypeOK
    <3> QED
      BY <1>5, <2>2, <3>1
  <2> QED
    BY <2>1, <2>2
<1> QED
  BY <1>4, <1>5, RunSteps

(* A plan is applied at most once although nothing stops a second run of it: whoever        *)
(* applies first moves the state, and the other run finds another serial.                    *)
THEOREM AppliedOnce == Spec => []AppliedAtMostOnce
<1>1. Init => AppliedInv
  BY DEF Init, AppliedInv, AppliedMovedState, AppliedAtMostOnce, NoRun
<1>2. AppliedInv => AppliedAtMostOnce
  BY DEF AppliedInv
<1> QED
  BY <1>1, <1>2, StepKeepsApplied, ApprovalInvariant, PTL DEF Spec

-----------------------------------------------------------------------------
(* From the runs to the VERIFIED Events. *)

LEMMA EventSteps ==
    ASSUME TypeInv, [Next]_vars, NEW r \in Runs
    PROVE  events'[r] = "verified" /\ events[r] # "verified" =>
               runs[r].conclusion = "success" /\ runs[r].atCommit
<1>1. events \in [Runs -> EventState]
  BY DEF TypeInv, TypeOK
<1>2. CASE events' = events
  BY <1>2
<1>3. ASSUME NEW w \in Workers, WorkerStep(w)
      PROVE  events' = events \/ ConfirmRun(w)
  BY <1>3 DEF WorkerStep, LoadWork, RequestPlan, StorePlan, DispatchApply, StoreReceipt,
              ReadForVerification, StartVerification, VerificationConflicts, WorkerStops, store
<1>4. ASSUME NEW w \in Workers, ConfirmRun(w)
      PROVE  events'[r] = events[r] \/ (runs[r].conclusion = "success" /\ runs[r].atCommit)
  <2>1. CASE worker[w].run = r
    BY <1>4, <2>1 DEF ConfirmRun, PutVerification, RunMatchesApproval, RunFacts
  <2>2. CASE worker[w].run # r
    BY <1>1, <1>4, <2>2 DEF ConfirmRun, PutVerification
  <2> QED
    BY <2>1, <2>2
<1>5. ASSUME NEW c \in Completers, CompleterStep(c)
      PROVE  events'[r] \in {events[r], "pending"}
  BY <1>1, <1>5 DEF CompleterStep, ReceiveCompletion, ReserveCompletion, AbsorbCompletion,
                    CompleterStops, store
<1>6. CASE CreateDeployment \/ Approve \/ Reject \/ EnvironmentStep \/ UNCHANGED vars
  BY <1>2, <1>6 DEF CreateDeployment, Approve, Reject, EnvironmentStep, JobViewCatchesUp,
                    EventsViewCatchesUp, RunSucceeds, RunFails, StateMoves, BranchMoves, store, vars
<1> QED
  BY <1>2, <1>3, <1>4, <1>5, <1>6 DEF Next

(* Whatever Events arrive and whenever they do, an Event item is VERIFIED only for a run    *)
(* that GitHub reports successful, on the approved commit and of the approved digest.       *)
THEOREM OnlySuccessIsVerified == Spec => []VerifiedRunsSucceeded
<1>1. Init => VerifiedRunsSucceeded
  BY DEF Init, VerifiedRunsSucceeded
<1>2. TypeInv /\ ApprovalInv /\ VerifiedRunsSucceeded /\ [Next]_vars => VerifiedRunsSucceeded'
  <2> SUFFICES ASSUME TypeInv, ApprovalInv, VerifiedRunsSucceeded, [Next]_vars,
                      NEW r \in Runs, events'[r] = "verified"
               PROVE  runs'[r].conclusion = "success" /\ runs'[r].atCommit
                      /\ runs'[r].hash = approval'
    BY DEF VerifiedRunsSucceeded
  <2>1. runs[r].conclusion = "success" /\ runs[r].atCommit
    BY EventSteps DEF VerifiedRunsSucceeded
  <2>2. runs'[r] = runs[r] /\ runs[r] # NoRun
    BY <2>1, RunSteps DEF NoRun
  <2>3. RunsAreApproved'
    BY StepKeepsApproval DEF ApprovalInv
  <2> QED
    BY <2>1, <2>2, <2>3 DEF RunsAreApproved
<1> QED
  BY <1>1, <1>2, ApprovalInvariant, PTL DEF Spec

-----------------------------------------------------------------------------
(* Rejection. *)

(* A rejected deployment's Job is cancelled. *)
RejectedIsCancelled == rejected => job.status = "CANCELLED"

(* CANCELLED is terminal: no stage moves a cancelled Job. *)
LEMMA CancelledStays ==
    ASSUME NEW status, NEW link, job.status = "CANCELLED"
    PROVE  ~CanTransition(job, job.revision, status, link)
<1>1. AllowedTransitions["CANCELLED"] = {}
  BY DEF AllowedTransitions, JobStatus, TerminalStatus
<1> QED
  BY <1>1 DEF CanTransition

(* The Job of a rejected deployment is cancelled. *)
LEMMA StepKeepsCancelled ==
    ASSUME TypeInv, RejectedIsCancelled, [Next]_vars, rejected
    PROVE  /\ rejected' /\ job' = job /\ approval' = approval
           /\ record'.verification = record.verification
<1> USE DEF store
<1>1. \A status, step, link, command : ~CommitStage(status, step, link, command)
  BY CancelledStays DEF CommitStage, RejectedIsCancelled
<1>2. CASE UNCHANGED <<record, job, approval, rejected>>
  BY <1>2
<1>3. CASE CreateDeployment \/ Approve \/ Reject
  BY <1>1, <1>2, <1>3 DEF CreateDeployment, PutDeployment, Approve, Reject, PutRejection
<1>4. ASSUME NEW w \in Workers, WorkerStep(w)
      PROVE  UNCHANGED <<job, approval, rejected>> /\ record'.verification = record.verification
  <2>1. CASE StorePlan(w)
    BY <2>1 DEF StorePlan, TypeInv, TypeOK, RecordItems
  <2>2. CASE UNCHANGED <<record, job, approval, rejected>>
    BY <2>2
  <2> QED
    BY <1>1, <1>4, <2>1, <2>2 DEF WorkerStep, LoadWork, RequestPlan, DispatchApply, StoreReceipt,
        ConfirmRun, ReadForVerification, StartVerification, VerificationConflicts, WorkerStops
<1>5. CASE \E c \in Completers : CompleterStep(c)
  BY <1>1, <1>2, <1>5 DEF CompleterStep, ReceiveCompletion, ReserveCompletion, AbsorbCompletion,
                          CompleterStops
<1>6. CASE EnvironmentStep \/ UNCHANGED vars
  BY <1>2, <1>6 DEF EnvironmentStep, JobViewCatchesUp, EventsViewCatchesUp, RunSucceeds, RunFails,
                    StateMoves, BranchMoves, vars
<1> QED
  BY <1>3, <1>4, <1>5, <1>6 DEF Next

(* RejectedIsCancelled is inductive relative to TypeInv. *)
LEMMA StepKeepsCancelledJob == TypeInv /\ RejectedIsCancelled /\ [Next]_vars => RejectedIsCancelled'
<1> SUFFICES ASSUME TypeInv, RejectedIsCancelled, [Next]_vars, ~rejected, rejected'
             PROVE  job'.status = "CANCELLED"
  BY StepKeepsCancelled DEF RejectedIsCancelled
<1>1. Reject
  BY DEF Next, CreateDeployment, Approve, WorkerStep, LoadWork, RequestPlan, StorePlan,
         DispatchApply, StoreReceipt, ConfirmRun, ReadForVerification, StartVerification,
         VerificationConflicts, WorkerStops, CompleterStep, ReceiveCompletion,
         ReserveCompletion, AbsorbCompletion, CompleterStops, EnvironmentStep,
         JobViewCatchesUp, EventsViewCatchesUp, RunSucceeds, RunFails, StateMoves,
         BranchMoves, store, vars
<1> QED
  BY <1>1 DEF Reject, PutRejection, TransitionJob

(* A rejection is final at every later moment: no approval, completion or verification      *)
(* still under way when the human rejected moves the Job or approves the plan.              *)
THEOREM RejectedForGood == Spec => RejectionIsFinal
<1>1. Init => RejectedIsCancelled
  BY DEF Init, RejectedIsCancelled
<1>2. TypeInv /\ RejectedIsCancelled /\ [Next]_vars => RejectedIsCancelled'
  BY StepKeepsCancelledJob
<1>3. TypeInv /\ RejectedIsCancelled /\ [Next]_vars
      => [rejected => rejected' /\ job' = job /\ approval' = approval
                      /\ record'.verification = record.verification]_vars
  BY StepKeepsCancelled
<1> QED
  BY <1>1, <1>2, <1>3, TypeInvariant, PTL DEF Spec, RejectionIsFinal

-----------------------------------------------------------------------------
(* The verification link. *)

(* A worker that verifies holds a run whose Event exists, and one that goes on to start the  *)
(* verification holds a run whose Event is VERIFIED; the view is never ahead of the items.   *)
VerifiedFirst ==
    /\ \A r \in Runs : eventsView[r] # "none" => events[r] # "none"
    /\ \A w \in Workers : worker[w].pc = "verify" => events[worker[w].run] # "none"
    /\ \A w \in Workers : worker[w].pc \in {"start", "commit"} =>
          worker[w].run \in Runs /\ events[worker[w].run] = "verified"

LinkInv == VerifiedFirst /\ VerificationIsLinked

(* EVENT items: reserved stays reserved, verified stays verified.                            *)
LEMMA EventsStay ==
    ASSUME TypeInv, [Next]_vars, NEW r \in Runs
    PROVE  /\ events[r] # "none" => events'[r] # "none"
           /\ events[r] = "verified" => events'[r] = "verified"
<1>1. events \in [Runs -> EventState]
  BY DEF TypeInv, TypeOK
<1>2. CASE events' = events
  BY <1>2
<1>3. ASSUME NEW w \in Workers, WorkerStep(w)
      PROVE  events' = events \/ ConfirmRun(w)
  BY <1>3 DEF WorkerStep, LoadWork, RequestPlan, StorePlan, DispatchApply, StoreReceipt,
              ReadForVerification, StartVerification, VerificationConflicts, WorkerStops, store
<1>4. ASSUME NEW w \in Workers, ConfirmRun(w)
      PROVE  events'[r] \in {events[r], "verified"}
  BY <1>1, <1>4 DEF ConfirmRun, PutVerification
<1>5. ASSUME NEW c \in Completers, CompleterStep(c)
      PROVE  events'[r] = events[r] \/ (events[r] = "none" /\ events'[r] = "pending")
  <2>1. CASE ReserveCompletion(c)
    BY <1>1, <2>1 DEF ReserveCompletion, MayReserve
  <2> QED
    BY <1>5, <2>1 DEF CompleterStep, ReceiveCompletion, AbsorbCompletion, CompleterStops, store
<1>6. CASE CreateDeployment \/ Approve \/ Reject \/ EnvironmentStep \/ UNCHANGED vars
  BY <1>2, <1>6 DEF CreateDeployment, Approve, Reject, EnvironmentStep, JobViewCatchesUp,
                    EventsViewCatchesUp, RunSucceeds, RunFails, StateMoves, BranchMoves, store, vars
<1> QED
  BY <1>2, <1>3, <1>4, <1>5, <1>6 DEF Next

(* The verification link and the Job's link are written by StartVerification only, both      *)
(* with the same new id and only where there was none.                                       *)
LEMMA LinkSteps ==
    ASSUME TypeInv, [Next]_vars
    PROVE  \/ record'.verification = record.verification /\ job'.assessment = job.assessment
           \/ \E w \in Workers, a \in AssessmentIds :
                 /\ StartVerification(w)
                 /\ record.verification = "absent"
                 /\ record'.verification = a /\ job'.assessment = a
<1> USE DEF store
<1>1. record \in RecordItems /\ job \in JobItems
  BY DEF TypeInv, TypeOK
<1>2. ASSUME NEW status, NEW step, NEW command, CommitStage(status, step, NoLink, command)
      PROVE  job'.assessment = job.assessment
  BY <1>2 DEF CommitStage, TransitionJob, LinkOnce
<1>3. CASE UNCHANGED <<record, job>>
  BY <1>3
<1>4. CASE CreateDeployment \/ Approve \/ Reject
  BY <1>2, <1>3, <1>4 DEF CreateDeployment, Approve, Reject, PutRejection, TransitionJob, LinkOnce
<1>5. ASSUME NEW w \in Workers, StorePlan(w)
      PROVE  record'.verification = record.verification /\ job'.assessment = job.assessment
  BY <1>1, <1>5 DEF StorePlan, RecordItems
<1>6. ASSUME NEW w \in Workers, StartVerification(w)
      PROVE  /\ record.verification = "absent"
             /\ \E a \in AssessmentIds : record'.verification = a /\ job'.assessment = a
  <2>1. PICK a \in AssessmentIds :
            /\ CommitStage("RUNNING", "POST_DEPLOY_VERIFICATION", a, "ASSESS_RESOURCE")
            /\ record' = [record EXCEPT !.verification = a]
    BY <1>6 DEF StartVerification
  <2>2. a # NoLink
    BY DeploymentAssumption
  <2>3. record'.verification = a /\ job'.assessment = a
    BY <1>1, <2>1, <2>2 DEF RecordItems, CommitStage, TransitionJob, LinkOnce
  <2> QED
    BY <1>6, <2>3 DEF StartVerification, MayLinkRecord
<1>7. ASSUME NEW w \in Workers, WorkerStep(w)
      PROVE  UNCHANGED <<record, job>> \/ StorePlan(w) \/ StartVerification(w)
  BY <1>7 DEF WorkerStep, LoadWork, RequestPlan, DispatchApply, StoreReceipt, ConfirmRun,
              ReadForVerification, VerificationConflicts, WorkerStops
<1>8. ASSUME NEW c \in Completers, CompleterStep(c)
      PROVE  record' = record /\ job'.assessment = job.assessment
  BY <1>2, <1>8 DEF CompleterStep, ReceiveCompletion, ReserveCompletion, AbsorbCompletion,
                    CompleterStops
<1>9. CASE EnvironmentStep \/ UNCHANGED vars
  BY <1>3, <1>9 DEF EnvironmentStep, JobViewCatchesUp, EventsViewCatchesUp, RunSucceeds, RunFails,
                    StateMoves, BranchMoves, vars
<1> QED
  BY <1>3, <1>4, <1>5, <1>6, <1>7, <1>8, <1>9 DEF Next

(* VerifiedFirst is inductive: LoadWork takes the run from the view, ConfirmRun leaves its   *)
(* Event VERIFIED, and Events only advance.                                                  *)
LEMMA StepKeepsVerifiedFirst == TypeInv /\ VerifiedFirst /\ [Next]_vars => VerifiedFirst'
<1> SUFFICES ASSUME TypeInv, VerifiedFirst, [Next]_vars
             PROVE  VerifiedFirst'
  OBVIOUS
<1> USE DEF views, store
<1>1. /\ worker \in [Workers -> Invocations] /\ events \in [Runs -> EventState]
      /\ eventsView \in [Runs -> EventState] /\ Idle.pc = "idle"
  BY DEF TypeInv, TypeOK, Idle
<1>2. \A r \in Runs : /\ events[r] # "none" => events'[r] # "none"
                      /\ events[r] = "verified" => events'[r] = "verified"
  BY EventsStay
<1>3. \A w \in Workers : worker[w].pc = "verify" => worker[w].run \in Runs
  BY DEF TypeInv, LoadedWork
<1>4. eventsView' = eventsView \/ \E r \in Runs : EventsViewCatchesUp(r)
  BY DEF Next, CreateDeployment, Approve, Reject, WorkerStep, LoadWork, RequestPlan, StorePlan,
         DispatchApply, StoreReceipt, ConfirmRun, ReadForVerification, StartVerification,
         VerificationConflicts, WorkerStops, CompleterStep, ReceiveCompletion, ReserveCompletion,
         AbsorbCompletion, CompleterStops, EnvironmentStep, JobViewCatchesUp, RunSucceeds,
         RunFails, StateMoves, BranchMoves, vars
<1>5. \A r \in Runs : eventsView'[r] # "none" => events'[r] # "none"
  BY <1>1, <1>2, <1>4 DEF VerifiedFirst, EventsViewCatchesUp
<1>6. worker' = worker \/ \E w \in Workers : WorkerStep(w)
  BY DEF Next, CreateDeployment, Approve, Reject, CompleterStep, ReceiveCompletion,
         ReserveCompletion, AbsorbCompletion, CompleterStops, EnvironmentStep, JobViewCatchesUp,
         EventsViewCatchesUp, RunSucceeds, RunFails, StateMoves, BranchMoves, vars
<1>7. ASSUME NEW w \in Workers, WorkerStep(w)
      PROVE  /\ \A v \in Workers \ {w} : worker'[v] = worker[v]
             /\ worker'[w].pc = "verify" =>
                   worker'[w].run \in Runs /\ events'[worker'[w].run] # "none"
             /\ worker'[w].pc \in {"start", "commit"} =>
                   worker'[w].run \in Runs /\ events'[worker'[w].run] = "verified"
  <2>1. \A v \in Workers \ {w} : worker'[v] = worker[v]
    BY <1>1, <1>7 DEF WorkerStep, LoadWork, Loaded, RequestPlan, StorePlan, DispatchApply,
                      StoreReceipt, ConfirmRun, ReadForVerification, StartVerification,
                      VerificationConflicts, WorkerStops
  <2>2. ASSUME NEW t \in tasks, LoadWork(w, t)
        PROVE  /\ worker'[w].pc \notin {"start", "commit"}
               /\ worker'[w].pc = "verify" =>
                     worker'[w].run \in Runs /\ events[worker'[w].run] # "none"
    BY <1>1, <2>2 DEF LoadWork, Loaded, PendingRuns, VerifiedFirst
  <2>3. CASE RequestPlan(w) \/ StorePlan(w) \/ DispatchApply(w) \/ StoreReceipt(w)
             \/ StartVerification(w) \/ VerificationConflicts(w) \/ WorkerStops(w)
    <3>1. worker'[w].pc \notin {"verify", "start", "commit"}
      BY <1>1, <2>3 DEF RequestPlan, StorePlan, DispatchApply, StoreReceipt, StartVerification,
                        VerificationConflicts, WorkerStops, Invocations
    <3> QED
      BY <2>1, <3>1
  <2>4. CASE ConfirmRun(w)
    <3>1. worker'[w].pc = "start" /\ worker'[w].run = worker[w].run
      BY <1>1, <2>4 DEF ConfirmRun, Invocations
    <3>2. worker[w].run \in Runs /\ events[worker[w].run] # "none"
      BY <1>3, <2>4 DEF ConfirmRun, VerifiedFirst
    <3>3. events'[worker[w].run] = "verified"
      BY <1>1, <2>4, <3>2 DEF ConfirmRun, PutVerification, EventState
    <3> QED
      BY <2>1, <3>1, <3>2, <3>3
  <2>5. CASE ReadForVerification(w)
    <3>1. /\ worker'[w].pc = "commit" /\ worker'[w].run = worker[w].run
          /\ worker[w].pc = "start"
      BY <1>1, <2>5 DEF ReadForVerification, Invocations
    <3> QED
      BY <1>2, <2>1, <3>1 DEF VerifiedFirst
  <2> QED
    BY <1>2, <1>7, <2>1, <2>2, <2>3, <2>4, <2>5 DEF WorkerStep
<1>8. ASSUME NEW v \in Workers
      PROVE  /\ worker'[v].pc = "verify" => events'[worker'[v].run] # "none"
             /\ worker'[v].pc \in {"start", "commit"} =>
                   worker'[v].run \in Runs /\ events'[worker'[v].run] = "verified"
  BY <1>2, <1>3, <1>6, <1>7 DEF VerifiedFirst
<1> QED
  BY <1>5, <1>8 DEF VerifiedFirst

(* LinkInv is inductive relative to TypeInv. *)
LEMMA StepKeepsLink == TypeInv /\ LinkInv /\ [Next]_vars => LinkInv'
<1> SUFFICES ASSUME TypeInv, LinkInv, [Next]_vars
             PROVE  VerificationIsLinked'
  BY StepKeepsVerifiedFirst DEF LinkInv
<1>1. NoLink \notin AssessmentIds /\ "absent" \notin AssessmentIds
  BY DeploymentAssumption
<1>2. \A r \in VerifiedRuns : r \in VerifiedRuns'
  BY EventsStay DEF VerifiedRuns
<1>3. CASE record'.verification = record.verification /\ job'.assessment = job.assessment
  BY <1>2, <1>3 DEF LinkInv, VerificationIsLinked
<1>4. ASSUME NEW w \in Workers, NEW a \in AssessmentIds, StartVerification(w),
             record.verification = "absent",
             record'.verification = a, job'.assessment = a
      PROVE  VerificationIsLinked'
  <2>1. worker[w].run \in VerifiedRuns
    BY <1>4 DEF LinkInv, VerifiedFirst, StartVerification, VerifiedRuns
  <2> QED
    BY <1>1, <1>2, <1>4, <2>1 DEF VerificationIsLinked
<1> QED
  BY <1>3, <1>4, LinkSteps

(* However many workers race to start the verification, and whatever the Job went through    *)
(* meanwhile, record and Job name the same Assessment, and only after a run was VERIFIED.    *)
THEOREM LinkIsVerified == Spec => []VerificationIsLinked
<1>1. Init => LinkInv
  <2> SUFFICES ASSUME Init PROVE LinkInv
    OBVIOUS
  <2>1. record.verification \notin AssessmentIds /\ job.assessment = NoLink
    BY DeploymentAssumption DEF Init, AbsentLink, CreateJob
  <2>2. VerifiedFirst
    BY DEF Init, VerifiedFirst, Idle
  <2> QED
    BY <2>1, <2>2 DEF LinkInv, VerificationIsLinked
<1>2. LinkInv => VerificationIsLinked
  BY DEF LinkInv
<1> QED
  BY <1>1, <1>2, StepKeepsLink, TypeInvariant, PTL DEF Spec

-----------------------------------------------------------------------------
(* Facts are written once. *)

(* The plan is stored where there is none, the approval put where there is none. *)
LEMMA PlanAndApprovalStay ==
    ASSUME TypeInv, [Next]_vars
    PROVE  /\ record.plan # NoPlan => record'.plan = record.plan
           /\ approval # NoHash => approval' = approval
           /\ receipt => receipt'
           /\ rejected => rejected'
<1> USE DEF store
<1>1. record \in RecordItems
  BY DEF TypeInv, TypeOK
<1>2. CASE UNCHANGED <<record, approval, receipt, rejected>>
  BY <1>2
<1>3. CASE CreateDeployment \/ Approve \/ Reject
  BY <1>3 DEF CreateDeployment, Approve, Reject, PutRejection
<1>4. ASSUME NEW w \in Workers, StorePlan(w) \/ StoreReceipt(w) \/ StartVerification(w)
      PROVE  /\ record.plan # NoPlan => record'.plan = record.plan
             /\ UNCHANGED <<approval, rejected>> /\ (receipt => receipt')
  BY <1>1, <1>4 DEF StorePlan, StoreReceipt, StartVerification, MayStorePlan, RecordItems
<1>5. ASSUME NEW w \in Workers, WorkerStep(w)
      PROVE  \/ UNCHANGED <<record, approval, receipt, rejected>>
             \/ StorePlan(w) \/ StoreReceipt(w) \/ StartVerification(w)
  BY <1>5 DEF WorkerStep, LoadWork, RequestPlan, DispatchApply, ConfirmRun,
              ReadForVerification, VerificationConflicts, WorkerStops
<1>6. CASE (\E c \in Completers : CompleterStep(c)) \/ EnvironmentStep \/ UNCHANGED vars
  BY <1>2, <1>6 DEF CompleterStep, ReceiveCompletion, ReserveCompletion, AbsorbCompletion,
                    CompleterStops, EnvironmentStep, JobViewCatchesUp, EventsViewCatchesUp,
                    RunSucceeds, RunFails, StateMoves, BranchMoves, vars
<1> QED
  BY <1>2, <1>3, <1>4, <1>5, <1>6 DEF Next

(* The conditional writes of every concurrent invocation leave a stored plan, approval,      *)
(* verified Event and verification link as they are.                                         *)
THEOREM FactsStay == Spec => FactsAreWriteOnce
<1>1. TypeInv /\ [Next]_vars =>
          [/\ record.plan # NoPlan => record'.plan = record.plan
           /\ approval # NoHash => approval' = approval
           /\ record.verification \in AssessmentIds => record'.verification = record.verification
           /\ \A r \in Runs : /\ events[r] = "verified" => events'[r] = "verified"
                              /\ events[r] # "none" => events'[r] # "none"]_vars
  <2>1. "absent" \notin AssessmentIds
    BY DeploymentAssumption
  <2> QED
    BY <2>1, PlanAndApprovalStay, LinkSteps, EventsStay
<1> QED
  BY <1>1, TypeInvariant, PTL DEF Spec, FactsAreWriteOnce

-----------------------------------------------------------------------------
(* The derived status. *)

(* Only a rejection ends the Job here; it leaves its first step once a plan is stored; and   *)
(* a completion comes from a run that was started.                                           *)
JobInv ==
    /\ ~rejected => job.status \in {"QUEUED", "RUNNING"}
    /\ record.plan = NoPlan => job.step = "TERRAFORM_PLAN"
    /\ \A c \in Completers : completer[c].pc = "reserve" => runs[completer[c].run] # NoRun

(* A started run has the stored plan, so there is one. *)
LEMMA RunsHavePlan ==
    ASSUME TypeInv, ApprovalInv, NEW r \in Runs, runs[r] # NoRun
    PROVE  record.plan # NoPlan
<1>1. runs[r].hash \in Hashes
  BY DEF TypeInv, TypeOK, ApplyRuns
<1>2. record.plan.hash = runs[r].hash
  BY DEF ApprovalInv, RunsAreApproved
<1> QED
  BY <1>1, <1>2, DeploymentAssumption DEF NoPlan

(* The Job is moved by an approval, a rejection, a completion or a verification. *)
LEMMA JobSteps ==
    ASSUME TypeInv, [Next]_vars
    PROVE  \/ job' = job
           \/ Approve \/ Reject
           \/ \E w \in Workers : StartVerification(w)
           \/ \E c \in Completers : ReserveCompletion(c)
BY DEF Next, CreateDeployment, WorkerStep, LoadWork, RequestPlan, StorePlan, DispatchApply,
       StoreReceipt, ConfirmRun, ReadForVerification, VerificationConflicts, WorkerStops,
       CompleterStep, ReceiveCompletion, AbsorbCompletion, CompleterStops, EnvironmentStep,
       JobViewCatchesUp, EventsViewCatchesUp, RunSucceeds, RunFails, StateMoves, BranchMoves,
       store, vars

(* A completion reads the run that concluded, and keeps it until it is idle again. *)
LEMMA CompleterSteps ==
    ASSUME TypeInv, [Next]_vars, NEW c \in Completers
    PROVE  \/ completer'[c] = completer[c]
           \/ completer'[c].pc = "idle"
           \/ \E r \in Runs : completer'[c].run = r /\ Concluded(r)
<1>1. completer \in [Completers -> Completions]
  BY DEF TypeInv, TypeOK
<1>2. ASSUME NEW d \in Completers, CompleterStep(d)
      PROVE  \/ completer'[c] = completer[c]
             \/ completer'[c].pc = "idle"
             \/ \E r \in Runs : completer'[c].run = r /\ Concluded(r)
  <2>1. CASE \E r \in Runs : ReceiveCompletion(d, r)
    BY <1>1, <2>1 DEF ReceiveCompletion
  <2>2. CASE ReserveCompletion(d) \/ AbsorbCompletion(d) \/ CompleterStops(d)
    <3>1. completer' = [completer EXCEPT ![d] = IdleCompleter]
      BY <2>2 DEF ReserveCompletion, AbsorbCompletion, CompleterStops, CompletionReturns
    <3> QED
      BY <1>1, <3>1 DEF IdleCompleter
  <2> QED
    BY <1>2, <2>1, <2>2 DEF CompleterStep
<1>3. CASE completer' = completer
  BY <1>3
<1>4. completer' = completer \/ \E d \in Completers : CompleterStep(d)
  BY DEF Next, CreateDeployment, Approve, Reject, WorkerStep, LoadWork, RequestPlan, StorePlan,
         DispatchApply, StoreReceipt, ConfirmRun, ReadForVerification, StartVerification,
         VerificationConflicts, WorkerStops, EnvironmentStep, JobViewCatchesUp,
         EventsViewCatchesUp, RunSucceeds, RunFails, StateMoves, BranchMoves, vars
<1> QED
  BY <1>2, <1>3, <1>4

(* JobInv is inductive relative to the type and approval invariants. *)
LEMMA StepKeepsJob ==
    TypeInv /\ ApprovalInv /\ VerifiedRunsSucceeded /\ VerifiedFirst /\ JobInv /\ [Next]_vars
    => JobInv'
<1> SUFFICES ASSUME TypeInv, ApprovalInv, VerifiedRunsSucceeded, VerifiedFirst, JobInv,
                    [Next]_vars
             PROVE  JobInv'
  OBVIOUS
<1> USE DEF store
<1>1. job \in JobItems /\ runs \in [Runs -> ApplyRuns \cup {NoRun}]
  BY DEF TypeInv, TypeOK
<1>2. rejected => rejected'
  BY PlanAndApprovalStay
<1>3. record.plan # NoPlan => record'.plan # NoPlan
  BY PlanAndApprovalStay
<1>4. ASSUME NEW c \in Completers, completer'[c].pc = "reserve"
      PROVE  runs'[completer'[c].run] # NoRun
  <2>1. \A r \in Runs : Concluded(r) => runs[r] # NoRun
    BY DEF Concluded, NoRun
  <2>2. completer'[c].run \in Runs /\ runs[completer'[c].run] # NoRun
    BY <1>4, <2>1, CompleterSteps DEF JobInv, TypeInv, ReceivedRuns
  <2> QED
    BY <2>2, RunSteps
<1>5. CASE job' = job
  BY <1>2, <1>3, <1>4, <1>5 DEF JobInv
<1>6. CASE Approve
  <2>1. job'.status = "RUNNING" /\ record.plan # NoPlan
    BY <1>6 DEF Approve, Approvable, CommitStage, TransitionJob
  <2> QED
    BY <1>3, <1>4, <2>1 DEF JobInv
<1>7. CASE Reject
  <2>1. rejected' /\ job'.step = job.step
    BY <1>7 DEF Reject, PutRejection, TransitionJob
  <2> QED
    BY <1>3, <1>4, <2>1 DEF JobInv
<1>8. ASSUME NEW c \in Completers, ReserveCompletion(c)
      PROVE  JobInv'
  <2>1. job'.status = "RUNNING"
    BY <1>8 DEF ReserveCompletion, CommitStage, TransitionJob
  <2>2. record.plan # NoPlan
    BY <1>8, RunsHavePlan DEF ReserveCompletion, JobInv, TypeInv, ReceivedRuns
  <2> QED
    BY <1>3, <1>4, <2>1, <2>2 DEF JobInv
<1>9. ASSUME NEW w \in Workers, StartVerification(w)
      PROVE  JobInv'
  <2>1. job'.status = "RUNNING"
    BY <1>9 DEF StartVerification, CommitStage, TransitionJob
  <2>2. worker[w].run \in Runs /\ runs[worker[w].run] # NoRun
    BY <1>9 DEF StartVerification, VerifiedFirst, VerifiedRunsSucceeded, NoRun
  <2>3. record.plan # NoPlan
    BY <2>2, RunsHavePlan
  <2> QED
    BY <1>3, <1>4, <2>1, <2>3 DEF JobInv
<1> QED
  BY <1>5, <1>6, <1>7, <1>8, <1>9, JobSteps

(* How far the facts are, without the Job. *)
Phase ==
    IF rejected THEN 6
    ELSE IF VerifiedRuns # {}
         THEN IF record.verification \in AssessmentIds THEN 5 ELSE 4
    ELSE IF receipt THEN 3
    ELSE IF approval # NoHash THEN 2
    ELSE IF record.plan # NoPlan THEN 1
    ELSE 0

(* derive_deployment_status goes by the facts: in every reachable state the Job only repeats  *)
(* what they say.                                                                             *)
LEMMA StatusPhase ==
    ASSUME TypeInv, VerifiedRunsSucceeded, JobInv
    PROVE  Progress(Status) = Phase
<1>1. /\ Facts.rejected = rejected /\ Facts.approved = (approval # NoHash /\ ~rejected)
      /\ Facts.job = job.status /\ Facts.step = job.step /\ Facts.readiness = ReadinessSignal
      /\ Facts.apply = ApplyOutcome /\ Facts.verification = VerificationOutcome
  BY DEF Facts
<1>2. VerifiedRuns # {} => ApplyOutcome = "SUCCEEDED"
  BY DEF ApplyOutcome, VerifiedRuns, VerifiedRunsSucceeded
<1>3. VerifiedRuns = {} => ApplyOutcome = IF receipt THEN "RUNNING" ELSE "NOT_STARTED"
  BY DEF ApplyOutcome
<1>4. rejected \in BOOLEAN /\ receipt \in BOOLEAN
  BY DEF TypeInv, TypeOK
<1>5. CASE rejected
  <2>1. Status = "REJECTED"
    BY <1>1, <1>5 DEF Status, DerivedStatus
  <2> QED
    BY <1>5, <2>1 DEF Progress, Phase
<1>6. CASE ~rejected /\ VerifiedRuns # {}
  <2>1. Status = IF record.verification \in AssessmentIds THEN "VERIFYING" ELSE "APPLIED"
    BY <1>1, <1>2, <1>6 DEF Status, DerivedStatus, VerificationOutcome
  <2> QED
    BY <1>6, <2>1 DEF Progress, Phase
<1>7. CASE ~rejected /\ VerifiedRuns = {}
  <2>1. job.status \notin {"FAILED", "CANCELLED"}
    BY <1>7 DEF JobInv
  <2>2. CASE receipt
    <3>1. Status = "APPLYING"
      BY <1>1, <1>3, <1>7, <2>1, <2>2 DEF Status, DerivedStatus
    <3> QED
      BY <1>7, <2>2, <3>1 DEF Progress, Phase
  <2>3. CASE ~receipt /\ approval # NoHash
    <3>1. Status = "APPROVED"
      BY <1>1, <1>3, <1>7, <2>1, <2>3 DEF Status, DerivedStatus
    <3> QED
      BY <1>7, <2>3, <3>1 DEF Progress, Phase
  <2>4. CASE ~receipt /\ approval = NoHash /\ record.plan # NoPlan
    <3>1. Status \in {"BLOCKED", "WAITING_APPROVAL"}
      BY <1>1, <1>3, <1>7, <2>1, <2>4 DEF Status, DerivedStatus, ReadinessSignal
    <3> QED
      BY <1>7, <2>4, <3>1 DEF Progress, Phase
  <2>5. CASE ~receipt /\ approval = NoHash /\ record.plan = NoPlan
    <3>1. Status = "PLAN_REQUESTED"
      BY <1>1, <1>3, <1>7, <2>1, <2>5 DEF Status, DerivedStatus, ReadinessSignal, JobInv
    <3> QED
      BY <1>7, <2>5, <3>1 DEF Progress, Phase
  <2> QED
    BY <1>4, <1>7, <2>2, <2>3, <2>4, <2>5
<1> QED
  BY <1>4, <1>5, <1>6, <1>7

(* The phase never goes back: every fact it is made of is written once. *)
LEMMA PhaseGrows ==
    ASSUME TypeInv, LinkInv, [Next]_vars
    PROVE  Phase' >= Phase
<1>1. /\ rejected \in BOOLEAN /\ receipt \in BOOLEAN
      /\ rejected' \in BOOLEAN /\ receipt' \in BOOLEAN
  BY StepKeepsType DEF TypeInv, TypeOK
<1>2. /\ record.plan # NoPlan => record'.plan # NoPlan
      /\ approval # NoHash => approval' # NoHash
      /\ receipt => receipt'
      /\ rejected => rejected'
  BY PlanAndApprovalStay
<1>3. VerifiedRuns # {} => VerifiedRuns' # {}
  BY EventsStay DEF VerifiedRuns
<1>4. record.verification \in AssessmentIds => record'.verification \in AssessmentIds
  BY LinkSteps
<1> QED
  BY <1>1, <1>2, <1>3, <1>4 DEF Phase

(* The inductive invariant of the whole chain from the approval to the verification. *)
ChainInv == TypeInv /\ ApprovalInv /\ VerifiedRunsSucceeded /\ LinkInv /\ JobInv

(* ChainInv holds in every reachable state: what the Job, the Events, the approval and the    *)
(* record say fit together, whichever of them a worker read late.                             *)
THEOREM ChainInvariant == Spec => []ChainInv
<1>1. Init => VerifiedFirst /\ JobInv
  BY DEF Init, VerifiedFirst, JobInv, Idle, IdleCompleter, CreateJob
<1>2. LinkInv <=> VerifiedFirst /\ VerificationIsLinked
  BY DEF LinkInv
<1>3. TypeInv /\ VerifiedFirst /\ [Next]_vars => VerifiedFirst'
  BY StepKeepsVerifiedFirst
<1>4. TypeInv /\ ApprovalInv /\ VerifiedRunsSucceeded /\ LinkInv /\ JobInv /\ [Next]_vars => JobInv'
  BY <1>2, StepKeepsJob
<1>5. LinkInv' <=> VerifiedFirst' /\ VerificationIsLinked'
  BY DEF LinkInv
<1>6. Spec => []VerifiedFirst
  BY <1>1, <1>3, TypeInvariant, PTL DEF Spec
<1>7. Spec => []LinkInv
  BY <1>2, <1>6, LinkIsVerified, PTL
<1>8. Spec => []JobInv
  BY <1>1, <1>4, <1>7, ApprovalInvariant, OnlySuccessIsVerified, PTL DEF Spec
<1>9. TypeInv /\ ApprovalInv /\ VerifiedRunsSucceeded /\ LinkInv /\ JobInv => ChainInv
  BY DEF ChainInv
<1> QED
  BY <1>7, <1>8, <1>9, ApprovalInvariant, OnlySuccessIsVerified, PTL

(* What GET of a deployment shows never goes back to an earlier phase, in any order in which  *)
(* requests, workers and completions write the facts it is derived from.                      *)
THEOREM StatusOnlyAdvances == Spec => StatusNeverRegresses
<1>1. ChainInv => Progress(Status) = Phase
  BY StatusPhase DEF ChainInv
<1>2. ASSUME ChainInv, Progress(Status) = Phase, (Progress(Status) = Phase)', [Next]_vars
      PROVE  [Facts' # Facts => Progress(Status') >= Progress(Status)]_vars
  <2>1. Phase' >= Phase
    BY <1>2, PhaseGrows DEF ChainInv
  <2>2. Progress(Status') = Phase'
    BY <1>2 DEF Progress
  <2> QED
    BY <1>2, <2>1, <2>2
<1> QED
  BY <1>1, <1>2, ChainInvariant, PTL DEF Spec, StatusNeverRegresses

-----------------------------------------------------------------------------
(* Refinement: one lemma per action that the gate sees, one for all that it does not. *)

(* What a worker is about to store is what a plan run left behind. *)
FetchedPlans == \A w \in Workers : worker[w].pc = "store" => worker[w].plan \in GatePlan

GateInv == ChainInv /\ AppliedInv /\ RejectedIsCancelled /\ FetchedPlans

GateStep == [Gate!GateNext]_(Gate!gateVars)

(* The gate sees the record, the approval, the rejection, the runs and the Events. *)
LEMMA HiddenStep ==
    ASSUME UNCHANGED <<record, approval, rejected, runs, events>>
    PROVE  UNCHANGED Gate!gateVars
BY DEF Gate!gateVars, GateRun, VerifiedRuns

(* The plan that approval and runs share, as the gate sees it. *)
LEMMA ApprovedPlanFacts ==
    ASSUME TypeInv, ApprovalInv, approval # NoHash
    PROVE  /\ record.plan # NoPlan /\ record.plan # NoHash
           /\ record.plan \in [hash : ReadyPlans, serial : 0 .. MaxSerial]
<1>1. record.plan # NoPlan /\ record.plan.hash \in ReadyPlans
  BY DEF ApprovalInv, Approvable
<1>2. record.plan \in [hash : Hashes, serial : 0 .. MaxSerial]
  BY <1>1 DEF TypeInv, TypeOK, RecordItems, Plans
<1> QED
  BY <1>1, <1>2, GateAssumption DEF GatePlan

(* A started run is no absent run for the gate. *)
LEMMA StartedRun ==
    ASSUME TypeInv, NEW r \in Runs, runs[r] # NoRun
    PROVE  GateRun(r) # NoHash /\ GateRun(r).outcome = runs[r].conclusion
<1>1. runs[r] \in ApplyRuns
  BY DEF TypeInv, TypeOK
<1>2. GateRun(r) = [plan |-> [hash |-> runs[r].hash, serial |-> runs[r].serial],
                    outcome |-> runs[r].conclusion]
  BY DEF GateRun
<1>3. GateRun(r) \in [plan : GatePlan, outcome : {"queued", "success", "failure"}]
  BY <1>1, <1>2 DEF ApplyRuns, GatePlan
<1> QED
  BY <1>2, <1>3, GateAssumption

(* put_plan_if_absent fixes the gate's plan, or finds one fixed. *)
LEMMA StorePlanRefines ==
    ASSUME GateInv, NEW w \in Workers, StorePlan(w)
    PROVE  GateStep
<1>1. record \in RecordItems /\ worker[w].plan \in GatePlan
  BY DEF GateInv, ChainInv, TypeInv, TypeOK, FetchedPlans, StorePlan
<1>2. UNCHANGED <<approval, rejected, runs, events>>
  BY DEF StorePlan, external
<1>3. CASE record.plan # NoPlan
  BY <1>2, <1>3, HiddenStep DEF StorePlan, MayStorePlan, GateStep
<1>4. CASE record.plan = NoPlan
  <2>1. /\ record'.plan = worker[w].plan
        /\ record'.verification = record.verification
    BY <1>1, <1>4 DEF StorePlan, MayStorePlan, RecordItems
  <2>2. approval = NoHash
    BY <1>4 DEF GateInv, ChainInv, ApprovalInv, Approvable
  <2>3. worker[w].plan # NoPlan
    BY <1>1, DeploymentAssumption DEF GatePlan, NoPlan
  <2>4. Gate!FixPlan(worker[w].plan)
    BY <1>2, <1>4, <2>1, <2>2, <2>3 DEF Gate!FixPlan, GateRun, VerifiedRuns
  <2> QED
    BY <1>1, <2>4 DEF GateStep, Gate!GateNext
<1> QED
  BY <1>3, <1>4

(* An approval is the gate's approval of the plan that is fixed. *)
LEMMA ApproveRefines ==
    ASSUME GateInv, Approve
    PROVE  GateStep
<1>1. /\ approval = NoHash /\ approval' = record.plan.hash /\ Approvable(record.plan)
      /\ UNCHANGED <<record, rejected, runs, events>>
  BY DEF Approve, external
<1>2. ~rejected
  BY CancelledStays DEF Approve, CommitStage, GateInv, RejectedIsCancelled
<1>3. ApprovalInv' /\ TypeInv' /\ approval' # NoHash
  BY <1>1, PlanHashes, StepKeepsType, StepKeepsApproval DEF GateInv, ChainInv, Approvable, Next
<1>4. /\ record.plan # NoPlan
      /\ record.plan \in [hash : ReadyPlans, serial : 0 .. MaxSerial]
  BY <1>1 DEF Approvable, GateInv, ChainInv, TypeInv, TypeOK, RecordItems, Plans
<1>5. Gate!GateApprove
  BY <1>1, <1>2, <1>3, <1>4 DEF Gate!GateApprove, GateRun, VerifiedRuns
<1> QED
  BY <1>5 DEF GateStep, Gate!GateNext

(* A rejection is the gate's. *)
LEMMA RejectRefines ==
    ASSUME GateInv, Reject
    PROVE  GateStep
<1>1. ~rejected /\ rejected' = TRUE /\ UNCHANGED <<record, approval, runs, events>>
  BY DEF Reject, PutRejection, external
<1>2. Gate!GateReject
  BY <1>1 DEF Gate!GateReject, GateRun, VerifiedRuns
<1> QED
  BY <1>2 DEF GateStep, Gate!GateNext

(* A dispatch starts a run of the approved plan, whether or not its answer arrives. *)
LEMMA DispatchRefines ==
    ASSUME GateInv, NEW w \in Workers, DispatchApply(w)
    PROVE  GateStep
<1>1. PICK r \in Runs :
          /\ runs[r] = NoRun
          /\ runs' = [runs EXCEPT ![r] =
                 [hash |-> worker[w].plan.hash, serial |-> worker[w].plan.serial,
                  atCommit |-> atCommit, conclusion |-> "queued"]]
  BY DEF DispatchApply
<1>2. /\ worker[w].plan = record.plan /\ approval = record.plan.hash /\ record.plan # NoPlan
      /\ runs \in [Runs -> ApplyRuns \cup {NoRun}]
  BY DEF DispatchApply, GateInv, ChainInv, ApprovalInv, TypeInv, TypeOK, LoadedWork
<1>3. approval # NoHash
  BY <1>2, PlanHashes DEF GateInv, ChainInv
<1>4. /\ record.plan # NoHash
      /\ record.plan \in [hash : ReadyPlans, serial : 0 .. MaxSerial]
  BY <1>3, ApprovedPlanFacts DEF GateInv, ChainInv
<1>5. UNCHANGED <<record, approval, rejected, events>>
  BY DEF DispatchApply, store
<1>6. GateRun(r) = NoHash
  BY <1>1 DEF GateRun
<1>7. GateRun(r)' = [plan |-> record.plan, outcome |-> "queued"]
  <2>1. /\ runs'[r].hash = record.plan.hash /\ runs'[r].serial = record.plan.serial
        /\ runs'[r].conclusion = "queued"
    BY <1>1, <1>2
  <2>2. record.plan = [hash |-> record.plan.hash, serial |-> record.plan.serial]
    BY <1>4
  <2> QED
    BY <2>1, <2>2 DEF GateRun, NoRun
<1>8. \A q \in Runs \ {r} : GateRun(q)' = GateRun(q)
  BY <1>1, <1>2 DEF GateRun
<1>9. Gate!StartRun(r)
  BY <1>3, <1>4, <1>5, <1>6, <1>7, <1>8 DEF Gate!StartRun, VerifiedRuns
<1> QED
  BY <1>9 DEF GateStep, Gate!GateNext

(* The end of a run is the gate's, and the first success is the only one. *)
LEMMA EndRefines ==
    ASSUME GateInv, [Next]_vars, NEW r \in Runs, RunSucceeds(r) \/ RunFails(r)
    PROVE  GateStep
<1>1. PICK outcome \in {"success", "failure"} :
          /\ runs' = [runs EXCEPT ![r].conclusion = outcome]
          /\ outcome = "success" => RunSucceeds(r)
  BY DEF RunSucceeds, RunFails
<1>2. /\ runs \in [Runs -> ApplyRuns \cup {NoRun}] /\ runs[r].conclusion = "queued"
      /\ runs[r] # NoRun
  BY DEF GateInv, ChainInv, TypeInv, TypeOK, RunSucceeds, RunFails, NoRun
<1>3. UNCHANGED <<record, approval, rejected, events>>
  BY DEF RunSucceeds, RunFails, store
<1>4. GateRun(r) # NoHash /\ GateRun(r).outcome = "queued"
  BY <1>2, StartedRun DEF GateInv, ChainInv
<1>5. GateRun(r)' = [GateRun(r) EXCEPT !.outcome = outcome]
  <2>1. /\ runs'[r].hash = runs[r].hash /\ runs'[r].serial = runs[r].serial
        /\ runs'[r].conclusion = outcome /\ runs'[r] # NoRun
    BY <1>1, <1>2 DEF ApplyRuns, NoRun
  <2> QED
    BY <1>2, <2>1 DEF GateRun
<1>6. \A q \in Runs \ {r} : GateRun(q)' = GateRun(q)
  BY <1>1, <1>2 DEF GateRun
<1>7. ASSUME outcome = "success", NEW q \in Runs, GateRun(q) # NoHash,
             GateRun(q).outcome = "success"
      PROVE  FALSE
  <2>1. runs[q].conclusion = "success" /\ q # r
    BY <1>2, <1>7 DEF GateRun
  <2>2. runs'[q].conclusion = "success" /\ runs'[r].conclusion = "success"
    BY <1>1, <1>2, <1>7, <2>1 DEF ApplyRuns
  <2>3. AppliedAtMostOnce'
    BY StepKeepsApplied DEF GateInv, ChainInv, AppliedInv
  <2> QED
    BY <2>1, <2>2, <2>3 DEF AppliedAtMostOnce
<1>8. Gate!EndRun(r, outcome)
  BY <1>3, <1>4, <1>5, <1>6, <1>7 DEF Gate!EndRun, Gate!Ended, VerifiedRuns
<1> QED
  BY <1>1, <1>8 DEF GateStep, Gate!GateNext

(* A confirmation is the gate's of a successful run, or finds the Event VERIFIED. *)
LEMMA ConfirmRefines ==
    ASSUME GateInv, NEW w \in Workers, ConfirmRun(w)
    PROVE  GateStep
<1>1. UNCHANGED <<record, approval, rejected, runs>>
  BY DEF ConfirmRun, external
<1>2. PICK r : r = worker[w].run
  OBVIOUS
<1>3. r \in Runs /\ events \in [Runs -> EventState]
  BY <1>2 DEF ConfirmRun, GateInv, ChainInv, TypeInv, TypeOK, LoadedWork
<1>4. CASE events[r] # "pending"
  BY <1>1, <1>2, <1>4, HiddenStep DEF ConfirmRun, PutVerification, GateStep
<1>5. CASE events[r] = "pending"
  <2>1. events' = [events EXCEPT ![r] = "verified"]
    BY <1>2, <1>5 DEF ConfirmRun, PutVerification
  <2>2. VerifiedRuns' = VerifiedRuns \cup {r} /\ r \notin VerifiedRuns
    BY <1>3, <1>5, <2>1 DEF VerifiedRuns
  <2>3. runs[r].conclusion = "success" /\ runs[r] # NoRun
    BY <1>2 DEF ConfirmRun, RunMatchesApproval, RunFacts, NoRun
  <2>4. GateRun(r) # NoHash /\ GateRun(r).outcome = "success"
    BY <1>3, <2>3, StartedRun DEF GateInv, ChainInv
  <2>5. Gate!Confirm(r)
    BY <1>1, <1>3, <2>2, <2>4 DEF Gate!Confirm, Gate!Ended, GateRun
  <2> QED
    BY <1>3, <2>5 DEF GateStep, Gate!GateNext
<1> QED
  BY <1>4, <1>5

(* The linked verification is the gate's: after a confirmation, never after a rejection. *)
LEMMA VerificationRefines ==
    ASSUME GateInv, NEW w \in Workers, StartVerification(w)
    PROVE  GateStep
<1>1. PICK a \in AssessmentIds :
          /\ CommitStage("RUNNING", "POST_DEPLOY_VERIFICATION", a, "ASSESS_RESOURCE")
          /\ record' = [record EXCEPT !.verification = a]
  BY DEF StartVerification
<1>2. /\ record'.plan = record.plan /\ record'.verification = a
      /\ record.verification \notin AssessmentIds
      /\ UNCHANGED <<approval, rejected, runs, events>>
  BY <1>1, DeploymentAssumption DEF StartVerification, MayLinkRecord, GateInv, ChainInv, TypeInv,
                                    TypeOK, RecordItems, external
<1>3. ~rejected
  BY <1>1, CancelledStays DEF CommitStage, GateInv, RejectedIsCancelled
<1>4. VerifiedRuns # {}
  BY DEF StartVerification, GateInv, ChainInv, LinkInv, VerifiedFirst, VerifiedRuns
<1>5. Gate!Verify(a)
  BY <1>2, <1>3, <1>4 DEF Gate!Verify, GateRun, VerifiedRuns
<1> QED
  BY <1>5 DEF GateStep, Gate!GateNext

(* Every step of the deployment is a step of the gate, or hidden. *)
LEMMA StepRefines ==
    ASSUME GateInv, [Next]_vars
    PROVE  GateStep
<1>1. CASE UNCHANGED <<record, approval, rejected, runs, events>>
  BY <1>1, HiddenStep DEF GateStep
<1>2. CASE Approve \/ Reject
  BY <1>2, ApproveRefines, RejectRefines
<1>3. ASSUME NEW w \in Workers, WorkerStep(w)
      PROVE  GateStep
  BY <1>1, <1>3, StorePlanRefines, DispatchRefines, ConfirmRefines, VerificationRefines
     DEF WorkerStep, LoadWork, RequestPlan, StoreReceipt, ReadForVerification,
         VerificationConflicts, WorkerStops, store, external
<1>4. ASSUME NEW c \in Completers, CompleterStep(c)
      PROVE  UNCHANGED <<record, approval, rejected, runs, VerifiedRuns>>
  <2>1. CASE ReserveCompletion(c)
    <3>1. PICK r : r = completer[c].run
      OBVIOUS
    <3>2. events \in [Runs -> EventState]
      BY DEF GateInv, ChainInv, TypeInv, TypeOK
    <3>3. events[r] = "none" /\ events' = [events EXCEPT ![r] = "pending"]
      BY <2>1, <3>1 DEF ReserveCompletion, MayReserve
    <3>4. VerifiedRuns' = VerifiedRuns
      BY <3>2, <3>3 DEF VerifiedRuns
    <3> QED
      BY <2>1, <3>4 DEF ReserveCompletion, external
  <2> QED
    BY <1>4, <2>1 DEF CompleterStep, ReceiveCompletion, AbsorbCompletion, CompleterStops, store,
                      external, VerifiedRuns
<1>5. CASE \E c \in Completers : CompleterStep(c)
  <2>1. UNCHANGED <<record, approval, rejected, runs, VerifiedRuns>>
    BY <1>4, <1>5
  <2>2. UNCHANGED Gate!gateVars
    BY <2>1 DEF Gate!gateVars, GateRun
  <2> QED
    BY <2>2 DEF GateStep
<1>6. ASSUME NEW r \in Runs, RunSucceeds(r) \/ RunFails(r)
      PROVE  GateStep
  BY <1>6, EndRefines
<1>7. CASE CreateDeployment \/ JobViewCatchesUp \/ (\E r \in Runs : EventsViewCatchesUp(r))
           \/ StateMoves \/ BranchMoves \/ UNCHANGED vars
  BY <1>1, <1>7 DEF CreateDeployment, JobViewCatchesUp, EventsViewCatchesUp, StateMoves,
                    BranchMoves, store, external, vars
<1> QED
  BY <1>2, <1>3, <1>5, <1>6, <1>7 DEF Next, EnvironmentStep

(* FetchedPlans is inductive relative to TypeInv. *)
LEMMA StepKeepsFetched == TypeInv /\ FetchedPlans /\ [Next]_vars => FetchedPlans'
<1> SUFFICES ASSUME TypeInv, FetchedPlans, [Next]_vars
             PROVE  FetchedPlans'
  OBVIOUS
<1>1. worker \in [Workers -> Invocations] /\ serial \in 0 .. MaxSerial
  BY DEF TypeInv, TypeOK
<1>2. worker' = worker \/ \E w \in Workers : WorkerStep(w)
  BY DEF Next, CreateDeployment, Approve, Reject, CompleterStep, ReceiveCompletion,
         ReserveCompletion, AbsorbCompletion, CompleterStops, EnvironmentStep, JobViewCatchesUp,
         EventsViewCatchesUp, RunSucceeds, RunFails, StateMoves, BranchMoves, vars
<1>3. ASSUME NEW w \in Workers, WorkerStep(w)
      PROVE  /\ \A v \in Workers \ {w} : worker'[v] = worker[v]
             /\ worker'[w].pc = "store" => worker'[w].plan \in GatePlan
  <2>1. \A v \in Workers \ {w} : worker'[v] = worker[v]
    BY <1>1, <1>3 DEF WorkerStep, LoadWork, Loaded, RequestPlan, StorePlan, DispatchApply,
                      StoreReceipt, ConfirmRun, ReadForVerification, StartVerification,
                      VerificationConflicts, WorkerStops
  <2>2. CASE RequestPlan(w)
    <3>1. PlanOutputs \subseteq GatePlan
      BY <1>1, DeploymentAssumption DEF PlanOutputs, GatePlan
    <3> QED
      BY <1>1, <2>1, <2>2, <3>1 DEF RequestPlan, Invocations
  <2>3. CASE ~RequestPlan(w)
    <3>1. worker'[w].pc # "store"
      BY <1>1, <1>3, <2>3 DEF WorkerStep, LoadWork, Loaded, StorePlan, DispatchApply,
             StoreReceipt, ConfirmRun, ReadForVerification, StartVerification,
             VerificationConflicts, WorkerStops, Invocations, Idle
    <3> QED
      BY <2>1, <3>1
  <2> QED
    BY <2>2, <2>3
<1> QED
  BY <1>2, <1>3 DEF FetchedPlans

(* The deployment, with its redeliveries, crashes, stale views and racing invocations, does   *)
(* nothing the gate does not allow: only the approved plan runs, it is applied once, only a   *)
(* success is confirmed, and one verification follows a confirmation.                         *)
THEOREM DeploymentImplementsGate == Spec => ImplementsGate
<1>1. Init => Gate!GateInit
  <2> SUFFICES ASSUME Init PROVE Gate!GateInit
    OBVIOUS
  <2>1. /\ record.plan = NoPlan /\ record.verification \notin AssessmentIds
        /\ approval = NoHash /\ rejected = FALSE
        /\ events = [r \in Runs |-> "none"] /\ runs = [r \in Runs |-> NoRun]
    BY DeploymentAssumption DEF Init, AbsentLink
  <2> QED
    BY <2>1 DEF Gate!GateInit, GateRun, VerifiedRuns
<1>2. GateInv /\ [Next]_vars => [Gate!GateNext]_(Gate!gateVars)
  BY StepRefines DEF GateStep
<1>3. Init => AppliedInv /\ RejectedIsCancelled /\ FetchedPlans
  BY DEF Init, AppliedInv, AppliedMovedState, AppliedAtMostOnce, NoRun, RejectedIsCancelled,
         FetchedPlans, Idle
<1>4. TypeInv /\ RejectedIsCancelled /\ [Next]_vars => RejectedIsCancelled'
  BY StepKeepsCancelledJob
<1>5. ChainInv => TypeInv /\ ApprovalInv
  BY DEF ChainInv
<1>6. GateInv <=> ChainInv /\ AppliedInv /\ RejectedIsCancelled /\ FetchedPlans
  BY DEF GateInv
<1>7. Spec => []GateInv
  BY <1>3, <1>4, <1>5, <1>6, StepKeepsApplied, StepKeepsFetched, ChainInvariant, PTL DEF Spec
<1> QED
  BY <1>1, <1>2, <1>7, PTL DEF Spec, ImplementsGate, Gate!GateSpec

=============================================================================

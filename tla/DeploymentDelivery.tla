------------------------- MODULE DeploymentDelivery -------------------------
(***************************************************************************)
(* How often the work of a deployment is delivered: Deployment under the   *)
(* limits of m0-foundation.yaml.  A task's message goes to the dead letter *)
(* queue when it was received MaxReceive times; the Event of a completed   *)
(* run is handed to the completion handler MaxAttempts times, then it is   *)
(* dropped.  Nobody redrives either.                                       *)
(*                                                                         *)
(* Every committed task has one message here (WorkflowOutbox sends it) and *)
(* every concluded run publishes its Event (the publisher is not part of   *)
(* the repository).  What may go wrong without the data making it wrong is *)
(* counted in faults: a crash, a timeout, an AWS or GitHub call that       *)
(* raises, a read of an index that lags, a message that is not deleted.    *)
(***************************************************************************)
EXTENDS Deployment

CONSTANTS
    MaxReceive,     \* maxReceiveCount of the deployment queue
    MaxAttempts,    \* invocations of the completion handler for one Event
    MaxFaults       \* bound: faults of one behaviour

ASSUME DeliveryAssumption == {MaxReceive, MaxAttempts, MaxFaults} \subseteq Nat

VARIABLES
    message,    \* per revision: the message of the task committed with it, and its receive count
    attempts,   \* per run: how often its Event was handed to the completion handler
    wakes,      \* per run: revision of the task its reservation committed (history)
    faults      \* faults so far

deliveries == <<message, attempts, wakes, faults>>
allVars    == <<vars, deliveries>>

(* One revision for each of creation, approval, completions and verification. *)
TaskRevisions == 0 .. 2 + Cardinality(Runs)

DeliveryInit ==
    /\ Init
    /\ message = [n \in TaskRevisions |-> [state |-> "queued", receives |-> 0]]
    /\ attempts = [r \in Runs |-> 0]
    /\ wakes = [r \in Runs |-> 0]
    /\ faults = 0

Fault == faults < MaxFaults /\ faults' = faults + 1
NoFault == UNCHANGED faults

-----------------------------------------------------------------------------
(* The deployment queue.  The task that follows a verification goes to another queue. *)

QueuedTasks == {t \in tasks : /\ t.command # "ASSESS_RESOURCE"
                              /\ message[t.revision].state = "queued"}

Received(t, state) ==
    /\ message[t.revision].receives < MaxReceive
    /\ message' = [message EXCEPT ![t.revision] = [state |-> state, receives |-> @.receives + 1]]

(* What get_work and the command check before the first effect. *)
MayLoad(t) ==
    /\ jobView = t.revision
    /\ Cardinality(PendingRuns(eventsView)) <= 1
    /\ t.command # "RUN_DEPLOYMENT" => ApprovedPlan
    /\ t.command = "APPLY_COMPLETED" => PendingRuns(eventsView) # {}

ViewsAreCurrent == jobView = job.revision /\ eventsView = events

(* A worker receives a task and loads its work. *)
Take(w) ==
    /\ \E t \in QueuedTasks : LoadWork(w, t) /\ Received(t, "received")
    /\ UNCHANGED <<attempts, wakes, faults>>

(* A worker receives a task and raises before it did anything: the stored facts say so, or  *)
(* a lagging view of them does, or the invocation fails.                                     *)
Refuse ==
    /\ \E t \in QueuedTasks :
          /\ Received(t, "queued")
          /\ \/ ~MayLoad(t) /\ ViewsAreCurrent /\ NoFault
             \/ Fault
    /\ UNCHANGED <<vars, attempts, wakes>>

DeadLetter ==
    /\ \E t \in QueuedTasks :
          /\ message[t.revision].receives = MaxReceive
          /\ message' = [message EXCEPT ![t.revision].state = "dead"]
    /\ UNCHANGED <<vars, attempts, wakes, faults>>

SettleMessage(w, state) ==
    /\ message' = [message EXCEPT ![worker[w].revision].state = state]
    /\ UNCHANGED <<attempts, wakes>>

(* A command goes on to its next effect. *)
Continue(w) ==
    /\ \/ RequestPlan(w)
       \/ DispatchApply(w) /\ worker'[w].pc = "receipt"
       \/ ConfirmRun(w)
       \/ ReadForVerification(w)
       \/ VerificationConflicts(w)
    /\ UNCHANGED deliveries

(* start_verification returns the Assessment that is linked already. *)
ReturnsLinked(w) ==
    /\ \/ /\ worker[w].pc = "start"
          /\ record.verification \in AssessmentIds \/ job.assessment # NoLink
       \/ /\ worker[w].pc = "conflict"
          /\ record.verification \in AssessmentIds
    /\ WorkerStops(w)

(* handle returns: the message is deleted, unless the invocation dies before that. *)
Finish(w) ==
    /\ StorePlan(w) \/ StoreReceipt(w) \/ StartVerification(w) \/ ReturnsLinked(w)
    /\ \/ SettleMessage(w, "deleted") /\ NoFault
       \/ SettleMessage(w, "queued") /\ Fault

(* The data makes the command raise: the run does not match the approval, the Job moved or   *)
(* is terminal, the conflict has no winner.  (No run is left: the bound on Runs.)            *)
MustRaise(w) ==
    \/ worker[w].pc = "dispatch" /\ \A r \in Runs : runs[r] # NoRun
    \/ /\ worker[w].pc = "verify"
       /\ ~RunMatchesApproval(RunFacts(runs[worker[w].run]), worker[w].plan)
    \/ /\ worker[w].pc = "start"
       /\ record.verification \notin AssessmentIds /\ job.assessment = NoLink
       /\ job.revision # worker[w].revision \/ job.status \in TerminalStatus
    \/ worker[w].pc = "conflict" /\ record.verification \notin AssessmentIds

(* Mutated form of Fail: the error is logged, the batch reported as done. *)
FailQuietly(w) ==
    /\ \/ WorkerStops(w) /\ MustRaise(w) /\ NoFault
       \/ WorkerStops(w) /\ Fault
       \/ DispatchApply(w) /\ worker'[w].pc = "idle" /\ Fault
    /\ SettleMessage(w, "deleted")

(* run_tasks lets every exception of handle out of the invocation: the message becomes       *)
(* visible again.  The dispatch may raise after it created the run.                          *)
Fail(w) ==
    /\ \/ WorkerStops(w) /\ MustRaise(w) /\ NoFault
       \/ WorkerStops(w) /\ Fault
       \/ DispatchApply(w) /\ worker'[w].pc = "idle" /\ Fault
    /\ SettleMessage(w, "queued")

-----------------------------------------------------------------------------
(* The apply completion Event and its asynchronous invocations. *)

Attempt(r) ==
    /\ Concluded(r) /\ r \notin settled
    /\ \A c \in Completers : completer[c].run # r
    /\ attempts[r] < MaxAttempts
    /\ attempts' = [attempts EXCEPT ![r] = @ + 1]

TakeEvent(c, r) ==
    /\ Attempt(r)
    /\ ReceiveCompletion(c, r)
    /\ UNCHANGED <<message, wakes, faults>>

(* record_completion raises: the Job is terminal. *)
RefuseEvent(r) ==
    /\ Attempt(r)
    /\ job.status \in TerminalStatus
    /\ UNCHANGED <<vars, message, wakes, faults>>

SettleEvent(c) ==
    /\ \/ /\ ReserveCompletion(c)
          /\ wakes' = [wakes EXCEPT ![completer[c].run] = job'.revision]
       \/ AbsorbCompletion(c) /\ UNCHANGED wakes
    /\ UNCHANGED <<message, attempts, faults>>

FailEvent(c) ==
    /\ CompleterStops(c)
    /\ Fault
    /\ UNCHANGED <<message, attempts, wakes>>

-----------------------------------------------------------------------------
Handle(w) == Continue(w) \/ Finish(w) \/ Fail(w)

RequestStep == (CreateDeployment \/ Approve \/ Reject) /\ UNCHANGED deliveries
WorldStep   == EnvironmentStep /\ UNCHANGED deliveries
ViewStep    == /\ JobViewCatchesUp \/ \E r \in Runs : EventsViewCatchesUp(r)
               /\ UNCHANGED deliveries
QueueStep   == Refuse \/ DeadLetter \/ \E w \in Workers : Take(w)
EventStep   == \E r \in Runs : RefuseEvent(r) \/ \E c \in Completers : TakeEvent(c, r)

DeliveryNext ==
    \/ RequestStep \/ WorldStep \/ QueueStep \/ EventStep
    \/ \E w \in Workers : Handle(w)
    \/ \E c \in Completers : SettleEvent(c) \/ FailEvent(c)

DeliverySpec == DeliveryInit /\ [][DeliveryNext]_allVars

(* The views catch up; SQS and EventBridge deliver what their limits still allow; an         *)
(* invocation ends, one way or the other, by its timeout.  Nothing is assumed to succeed:    *)
(* what keeps an invocation from failing again is the limit on faults.  The limits make      *)
(* every behaviour finite, so this is weak fairness of each of the disjuncts.                *)
Delivering ==
    WF_allVars(\/ ViewStep \/ QueueStep \/ EventStep
               \/ \E w \in Workers : Handle(w)
               \/ \E c \in Completers : SettleEvent(c) \/ FailEvent(c))

FairSpec == DeliverySpec /\ Delivering

-----------------------------------------------------------------------------
(* maxReceiveCount is enough: with fewer faults than deliveries, whatever they hit, a run    *)
(* that applied the approved plan from the approved commit is confirmed by the re-read. The  *)
(* exceptions are a human rejection, and another run's pending Event, beside which get_work  *)
(* refuses to choose.                                                                        *)
SuccessIsConfirmed ==
    \A r \in Runs : runs[r].conclusion = "success" /\ runs[r].atCommit ~>
        \/ events[r] = "verified"
        \/ rejected
        \/ \E q \in Runs \ {r} : events[q] = "pending"

(* A reserved completion is not left behind silently, whatever the run turned out to be,     *)
(* however many invocations fail and also when get_work refuses to choose between two runs:  *)
(* its run is confirmed, or the task that was to confirm it lies in the dead letter queue.   *)
(* (The task of a failed run may confirm the successful one.)                                *)
ReservedIsAccounted ==
    \A r \in Runs : events[r] = "pending" ~>
        \/ message[wakes[r]].state = "dead"
        \/ \E q \in VerifiedRuns : q = r \/ runs[r].conclusion = "failure"

-----------------------------------------------------------------------------
(* What documents and comments say and the code does not do; see README.md. *)

(* deployment/worker.py: a retry after the run was confirmed still starts the verification. *)
ConfirmedIsVerified ==
    VerifiedRuns # {} ~> record.verification \in AssessmentIds \/ rejected

(* docs/DATABASE.md, ADR-0019 section 8: a failed apply becomes MANUAL_REVIEW. *)
FailureIsReviewed ==
    \A r \in Runs : runs[r].conclusion = "failure" ~> Status = "MANUAL_REVIEW" \/ rejected

=============================================================================

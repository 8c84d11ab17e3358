---------------------------- MODULE JobLifecycle ----------------------------
(***************************************************************************)
(* The lifecycle policy every persisted Job obeys                          *)
(* (apps/backend/jobs/lifecycle.py, models.py).  Pure operators: the state *)
(* machines that own a Job ask CanTransition before a write and store      *)
(* TransitionJob, as the services do before their transaction.             *)
(*                                                                         *)
(* A Job is abstracted to the fields a transition reads or writes.  Its    *)
(* remediation and deployment links are set when it is created and no      *)
(* caller of transition_job changes them, so only the assessment link,     *)
(* which post-deploy verification adds to a running Job, is kept.          *)
(***************************************************************************)
EXTENDS Naturals

CONSTANT
    NoLink      \* an absent assessment_id (Python's None)

JobStatus == {"QUEUED", "RUNNING", "WAITING_REVIEW", "WAITING_APPROVAL",
              "COMPLETED", "FAILED", "CANCELLED"}

JobStep == {"TERRAFORM_PLAN", "APPLY", "POST_DEPLOY_VERIFICATION"}

TerminalStatus == {"COMPLETED", "FAILED", "CANCELLED"}

(* Mutated form of AllowedTransitions: a cancelled Job may be resumed. *)
AllowedAfterCancel == [s \in JobStatus |->
    CASE s = "QUEUED" -> {"RUNNING", "FAILED", "CANCELLED"}
      [] s = "RUNNING" -> JobStatus \ {"QUEUED"}
      [] s \in {"WAITING_REVIEW", "WAITING_APPROVAL", "CANCELLED"} ->
             {"RUNNING", "FAILED", "CANCELLED"}
      [] OTHER -> {}]

AllowedTransitions == [s \in JobStatus |->
    CASE s = "QUEUED" -> {"RUNNING", "FAILED", "CANCELLED"}
      [] s = "RUNNING" -> JobStatus \ {"QUEUED"}
      [] s \in {"WAITING_REVIEW", "WAITING_APPROVAL"} ->
             {"RUNNING", "FAILED", "CANCELLED"}
      [] s \in TerminalStatus -> {}]

CreateJob(initialStep) ==
    [status |-> "QUEUED", step |-> initialStep, revision |-> 0, assessment |-> NoLink]

(* _link_once: an empty candidate keeps the link, a present link is never replaced. *)
MayLink(existing, candidate) == candidate \in {NoLink, existing} \/ existing = NoLink

(* Mutated form of LinkOnce: a transition that names no link drops the one there is. *)
LinkReplaced(existing, candidate) == candidate

LinkOnce(existing, candidate) == IF candidate = NoLink THEN existing ELSE candidate

CanTransition(job, expectedRevision, status, assessment) ==
    /\ job.revision = expectedRevision
    /\ status \in AllowedTransitions[job.status]
    /\ MayLink(job.assessment, assessment)

TransitionJob(job, status, step, assessment) ==
    [status     |-> status,
     step       |-> step,
     revision   |-> job.revision + 1,
     assessment |-> LinkOnce(job.assessment, assessment)]

=============================================================================

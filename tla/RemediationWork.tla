--------------------------- MODULE RemediationWork ---------------------------
(***************************************************************************)
(* The remediation worker (apps/backend/remediation/worker.py, runtime.py, *)
(* failure.py), the facts it stores once on the REMEDIATION item           *)
(* (apps/backend/repositories/remediation_result.py), the pull request     *)
(* writer (apps/backend/remediation/pull_request.py,                       *)
(* agent/runtime/live_github_write_tool.py) and the commit a deployment is *)
(* later made of (agent/runtime/live_deployment_commit_resolver.py).       *)
(*                                                                         *)
(* A patch is identified by its content, as its digest identifies it: two  *)
(* answers of the model are two patches with two head branches.  SQS may   *)
(* deliver a task to several invocations at once and an invocation may     *)
(* stop after any step; GitHub and the indexes of the table are external.  *)
(***************************************************************************)
EXTENDS RemediationPolicy, JobLifecycle

CONSTANTS
    Remediations,   \* remediation ids, each with its Job and its task
    Workers,        \* invocations of the worker
    Document,       \* the Terraform files of the assessed commit
    Proposals,      \* the change sets the model may answer with
    MaxReceives,    \* receives of a task before SQS dead-letters it
    NoFact,         \* an attribute of the item that is not stored
    SyncTarget      \* the commit an ACTUAL_SYNC hands on

ASSUME ReceivesAreBounded == MaxReceives \in Nat \ {0}

VARIABLES
    record,     \* the stored items: action, status, result, pull request, failure
    job,        \* the stored Jobs
    jobView,    \* the Jobs as the GSI1 query answers, late
    task,       \* the SQS task: NONE, QUEUED, CONSUMED or DEAD
    receives,   \* how often the task was received
    contents,   \* the stored patch bytes
    worker,     \* what each invocation is doing
    branch,     \* the files of a patch that are on its head branch
    pulls,      \* pull requests by patch: NONE, OPEN or MERGED
    merged      \* what each merged pull request brought to the default branch

stored == <<record, job, jobView>>
queue == <<task, receives>>
github == <<branch, pulls, merged>>
vars == <<record, job, jobView, task, receives, contents, worker, branch, pulls, merged>>

Patches == {p \in Proposals : ValidChanges(Document, p)}
NoBranch == NoFact
NoPatch == NoFact

IdleWorker == [pc |-> "idle", of |-> NoFact, patch |-> NoPatch]

Init ==
    /\ record = [r \in Remediations |-> NoFact]
    /\ job = [r \in Remediations |-> NoFact]
    /\ jobView = [r \in Remediations |-> NoFact]
    /\ task = [r \in Remediations |-> "NONE"]
    /\ receives = [r \in Remediations |-> 0]
    /\ contents = {}
    /\ worker = [w \in Workers |-> IdleWorker]
    /\ branch = [p \in Patches |-> NoBranch]
    /\ pulls = [p \in Patches |-> "NONE"]
    /\ merged = [p \in Patches |-> {}]

----------------------------------------------------------------------------
(* The request stores item, Job and outbox entry in one transaction; the    *)
(* outbox delivers the task (WorkflowOutbox).                               *)
CreateWorkflow(r) ==
    /\ record[r] = NoFact
    /\ \E action \in {"TERRAFORM_PATCH", "ACTUAL_SYNC"} :
           /\ record' = [record EXCEPT ![r] =
                  [action |-> action, status |-> "QUEUED", result |-> NoFact,
                   pull |-> NoFact, failure |-> NoFact]]
           /\ job' = [job EXCEPT ![r] = CreateJob(
                  IF action = "ACTUAL_SYNC" THEN "SYNC_ACTUAL_STATE"
                                            ELSE "GENERATE_REMEDIATION")]
    /\ task' = [task EXCEPT ![r] = "QUEUED"]
    /\ UNCHANGED <<jobView, receives, contents, worker, github>>

JobViewCatchesUp(r) ==
    /\ jobView[r] # job[r]
    /\ jobView' = [jobView EXCEPT ![r] = job[r]]
    /\ UNCHANGED <<record, job, queue, contents, worker, github>>

(* A visible task goes to an idle invocation, also to a second one. *)
Receive(w, r) ==
    /\ worker[w].pc = "idle" /\ task[r] = "QUEUED" /\ receives[r] < MaxReceives
    /\ receives' = [receives EXCEPT ![r] = @ + 1]
    /\ worker' = [worker EXCEPT ![w] = [IdleWorker EXCEPT !.pc = "load", !.of = r]]
    /\ UNCHANGED <<stored, task, contents, github>>

DeadLetter(r) ==
    /\ task[r] = "QUEUED" /\ receives[r] = MaxReceives
    /\ \A w \in Workers : worker[w].of # r
    /\ task' = [task EXCEPT ![r] = "DEAD"]
    /\ UNCHANGED <<stored, receives, contents, worker, github>>

(* The invocation returns: the task is deleted. *)
Consume(w) ==
    /\ task' = [task EXCEPT ![worker[w].of] = IF @ = "QUEUED" THEN "CONSUMED" ELSE @]
    /\ worker' = [worker EXCEPT ![w] = IdleWorker]
    /\ UNCHANGED receives

(* The invocation raises or stops: the task becomes visible again. *)
WorkerStops(w) ==
    /\ worker[w].pc # "idle"
    /\ worker' = [worker EXCEPT ![w] = IdleWorker]
    /\ UNCHANGED <<stored, queue, contents, github>>

GoTo(w, pc) == worker' = [worker EXCEPT ![w].pc = pc]

----------------------------------------------------------------------------
(* RemediationWorker.handle, step by step *)

At(w, pc) == worker[w].pc = pc
My(w) == record[worker[w].of]

(* get_work: the Job by the index, at the revision of the task, which is 0. *)
FindsWork(r) == jobView[r] # NoFact /\ jobView[r].revision = 0

(* A task without work is dropped: logged, recorded nowhere and consumed. *)
DropTask(w) ==
    /\ At(w, "load") /\ ~FindsWork(worker[w].of)
    /\ Consume(w)
    /\ UNCHANGED <<stored, contents, github>>

LoadWork(w) ==
    /\ At(w, "load") /\ FindsWork(worker[w].of)
    /\ GoTo(w, IF My(w).action = "ACTUAL_SYNC" THEN "sync" ELSE "generate")
    /\ UNCHANGED <<stored, queue, contents, github>>

(* SnapshotSyncAction.prepare names the commit of the snapshot. *)
StoreSyncTarget(w) ==
    /\ At(w, "sync")
    /\ record' = [record EXCEPT ![worker[w].of].result =
                      IF @ = NoFact THEN SyncTarget ELSE @]
    /\ Consume(w)
    /\ UNCHANGED <<job, jobView, contents, github>>

(* BedrockPatchGenerator.generate: the bytes are stored under their digest. *)
GeneratePatch(w) ==
    /\ At(w, "generate")
    /\ \E first, second \in Proposals : \E p \in Accepted(Document, first, second) :
           /\ contents' = contents \cup {p}
           /\ worker' = [worker EXCEPT ![w].pc = "store", ![w].patch = p]
    /\ UNCHANGED <<stored, queue, github>>

PatchRefused(w) ==
    /\ At(w, "generate")
    /\ \E first, second \in Proposals : Accepted(Document, first, second) = {}
    /\ GoTo(w, "PATCH_GENERATION_FAILED")
    /\ UNCHANGED <<stored, queue, contents, github>>

(* Mutated form of ResultAfter: the condition asks for an item that has a   *)
(* result.                                                                  *)
ResultIfStored(old, new) == IF old # NoFact THEN new ELSE old

(* put_result_if_absent: a refused condition means somebody stored before. *)
ResultAfter(old, new) == IF old = NoFact THEN new ELSE old

StoreResult(w) ==
    /\ At(w, "store")
    /\ record' = [record EXCEPT ![worker[w].of].result = ResultAfter(@, worker[w].patch)]
    /\ GoTo(w, "branch")
    /\ UNCHANGED <<job, jobView, queue, contents, github>>

(* PatchPullRequestAction.open reads the bytes of the patch at hand, then   *)
(* _ensure_branch: an existing branch of that name is this patch's branch.  *)
EnsureBranch(w) ==
    /\ At(w, "branch") /\ worker[w].patch \in contents
    /\ branch' = [branch EXCEPT ![worker[w].patch] = IF @ = NoBranch THEN {} ELSE @]
    /\ GoTo(w, "files")
    /\ UNCHANGED <<stored, queue, contents, pulls, merged>>

(* _put_file, one path after another; a file that is there is left alone. *)
MissingFiles(p) == DOMAIN p \ branch[p]

PutFile(w) ==
    /\ At(w, "files")
    /\ \E path \in MissingFiles(worker[w].patch) :
           branch' = [branch EXCEPT ![worker[w].patch] = @ \cup {path}]
    /\ UNCHANGED <<stored, queue, contents, worker, pulls, merged>>

(* Mutated form of FilesDone: the pull request does not wait for the files. *)
BranchThere(w) == At(w, "files")

FilesDone(w) == At(w, "files") /\ MissingFiles(worker[w].patch) = {}

(* _existing_pull finds an open one, or _create_pull opens it.  GitHub      *)
(* refuses a pull request for a branch that is merged already.              *)
OpenPull(w) ==
    /\ FilesDone(w) /\ pulls[worker[w].patch] # "MERGED"
    /\ pulls' = [pulls EXCEPT ![worker[w].patch] = "OPEN"]
    /\ GoTo(w, "pull")
    /\ UNCHANGED <<stored, queue, contents, branch, merged>>

(* A 4xx answer of GitHub to a write (another delivery wrote the file, the  *)
(* branch has nothing to merge) ends the remediation; 5xx and the network   *)
(* raise.                                                                   *)
GitHubRefuses(w) ==
    /\ At(w, "branch") \/ At(w, "files")
    /\ ~(FilesDone(w) /\ pulls[worker[w].patch] = "OPEN")
    /\ GoTo(w, "PULL_REQUEST_FAILED")
    /\ UNCHANGED <<stored, queue, contents, github>>

(* put_pull_request_if_absent, then the invocation returns. *)
StorePull(w) ==
    /\ At(w, "pull")
    /\ record' = [record EXCEPT ![worker[w].of].pull =
                      IF @ = NoFact /\ My(w).result # NoFact THEN worker[w].patch ELSE @]
    /\ Consume(w)
    /\ UNCHANGED <<job, jobView, contents, github>>

----------------------------------------------------------------------------
(* RemediationFailureRecorder.record *)

FailureCodes == {"PATCH_GENERATION_FAILED", "PULL_REQUEST_FAILED"}

Failing(w) == worker[w].pc \in FailureCodes

(* put_failure_if_absent's condition. *)
MayFail(r) == record[r].result = NoFact /\ record[r].status = "QUEUED"

(* The work is read again; without it nothing is recorded. *)
DropFailure(w) ==
    /\ Failing(w) /\ ~FindsWork(worker[w].of)
    /\ Consume(w)
    /\ UNCHANGED <<stored, contents, github>>

StoreFailure(w) ==
    /\ Failing(w) /\ FindsWork(worker[w].of)
    /\ record' = [record EXCEPT ![worker[w].of] =
           IF MayFail(worker[w].of) THEN [@ EXCEPT !.status = "FAILED",
                                                   !.failure = worker[w].pc]
           ELSE @]
    /\ GoTo(w, "fail job")
    /\ UNCHANGED <<job, jobView, queue, contents, github>>

FailedJob(j) ==
    IF CanTransition(j, j.revision, "FAILED", NoLink)
    THEN TransitionJob(j, "FAILED", j.step, NoLink) ELSE j

(* _fail_job: a settled Job stays; an error of this write is only logged. *)
FailJob(w) ==
    /\ At(w, "fail job")
    /\ job' = [job EXCEPT ![worker[w].of] = FailedJob(@)]
    /\ Consume(w)
    /\ UNCHANGED <<record, jobView, contents, github>>

FailJobErrs(w) ==
    /\ At(w, "fail job")
    /\ Consume(w)
    /\ UNCHANGED <<stored, contents, github>>

----------------------------------------------------------------------------
(* A person merges a pull request: what its branch holds becomes a commit. *)
Merge(p) ==
    /\ pulls[p] = "OPEN"
    /\ pulls' = [pulls EXCEPT ![p] = "MERGED"]
    /\ merged' = [merged EXCEPT ![p] = branch[p]]
    /\ UNCHANGED <<stored, queue, contents, worker, branch>>

(* resolve_default_branch_commit: the merge of the stored patch's branch.   *)
DeployableCommit(r) ==
    IF record[r] # NoFact /\ record[r].result \in Patches
       /\ pulls[record[r].result] = "MERGED"
    THEN merged[record[r].result]
    ELSE {}

HandleStep(w) ==
    \/ LoadWork(w) \/ StoreSyncTarget(w) \/ GeneratePatch(w) \/ PatchRefused(w)
    \/ StoreResult(w) \/ EnsureBranch(w) \/ PutFile(w) \/ OpenPull(w) \/ GitHubRefuses(w)
    \/ StorePull(w) \/ StoreFailure(w) \/ FailJob(w) \/ FailJobErrs(w)
    \/ DropTask(w) \/ DropFailure(w)

Next ==
    \/ \E r \in Remediations :
           \/ CreateWorkflow(r) \/ JobViewCatchesUp(r) \/ DeadLetter(r)
           \/ \E w \in Workers : Receive(w, r)
    \/ \E w \in Workers : HandleStep(w) \/ WorkerStops(w)
    \/ \E p \in Patches : Merge(p)

Spec == Init /\ [][Next]_vars

(* SQS delivers a visible task, the index follows the table, and an         *)
(* invocation that is not stopped takes its next step.                      *)
Fairness ==
    /\ \A r \in Remediations : WF_vars(JobViewCatchesUp(r)) /\ WF_vars(DeadLetter(r))
    /\ \A w \in Workers, r \in Remediations : WF_vars(Receive(w, r))
    /\ \A w \in Workers : WF_vars(HandleStep(w))

FairSpec == Spec /\ Fairness

----------------------------------------------------------------------------
(* Properties *)

Facts == Patches \cup {SyncTarget, NoFact}

Items == [action : {"TERRAFORM_PATCH", "ACTUAL_SYNC"}, status : {"QUEUED", "FAILED"},
          result : Facts, pull : Facts, failure : FailureCodes \cup {NoFact}]

(* None is no item and no branch; a commit is no digest of a patch.         *)
ASSUME MarkersAreDistinct ==
    /\ NoFact \notin Items \cup Patches
    /\ \A p \in Patches : NoFact # DOMAIN p
    /\ SyncTarget \notin Patches

RemediationTypeOK ==
    /\ \A r \in Remediations :
           /\ record[r] \in Items \cup {NoFact}
           /\ job[r] = NoFact \/ (job[r].status \in JobStatus /\ job[r].revision \in 0..1)
           /\ task[r] \in {"NONE", "QUEUED", "CONSUMED", "DEAD"}
           /\ receives[r] \in 0..MaxReceives
    /\ contents \subseteq Patches
    /\ \A p \in Patches :
           /\ branch[p] = NoBranch \/ branch[p] \subseteq DOMAIN p
           /\ pulls[p] \in {"NONE", "OPEN", "MERGED"}

(* Whatever a person can merge is one whole stored patch, on a branch of    *)
(* its own: never part of a patch, whichever deliveries wrote the branch    *)
(* and wherever they stopped.                                               *)
PullsAreWholePatches ==
    \A p \in Patches : pulls[p] # "NONE" => p \in contents /\ branch[p] = DOMAIN p

(* The commit a deployment is made of holds exactly the patch whose result  *)
(* is stored on the remediation, although deliveries may have proposed      *)
(* several patches.                                                         *)
DeployedCommitIsStoredPatch ==
    \A r \in Remediations : DeployableCommit(r) # {} =>
        /\ record[r].action = "TERRAFORM_PATCH"
        /\ DeployableCommit(r) = DOMAIN record[r].result

Answered(r) ==
    record[r] # NoFact /\ (record[r].result # NoFact \/ record[r].failure # NoFact)

(* A task delivered after the index knows its Job leads to a result, to a   *)
(* failure or to the dead letter queue.                                     *)
EventuallyAnswered ==
    \A r \in Remediations :
        (task[r] = "QUEUED" /\ jobView[r] # NoFact /\ jobView[r] = job[r])
            ~> (Answered(r) \/ task[r] = "DEAD")

(* failure.py: a task is consumed without a record only when there is none, *)
(* "and a retry will not bring one about".                                  *)
ConsumedIsAnswered ==
    \A r \in Remediations : task[r] = "CONSUMED" => Answered(r)

(* failure.py: a terminal failure is stored in two places, on the           *)
(* remediation and on its Job.                                              *)
FailureIsOnTheRecord ==
    \A r \in Remediations :
        job[r] # NoFact /\ job[r].status = "FAILED" => record[r].status = "FAILED"

(* worker.py: the pull request is of the stored patch, and a retry converges *)
(* on its branch.                                                            *)
PullIsOfStoredPatch ==
    \A r \in Remediations :
        record[r] # NoFact /\ record[r].pull # NoFact => record[r].pull = record[r].result

=============================================================================

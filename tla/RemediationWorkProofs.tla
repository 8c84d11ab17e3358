------------------------ MODULE RemediationWorkProofs ------------------------
(***************************************************************************)
(* Theorems about RemediationWork, for any number of remediations and      *)
(* invocations, any document, any answers of the model and any number of   *)
(* receives.                                                               *)
(***************************************************************************)
EXTENDS RemediationWork, TLAPS

PatchPc == {"store", "branch", "files", "pull"}

Invocations ==
    [pc : {"idle", "load", "sync", "generate", "fail job"} \cup PatchPc \cup FailureCodes,
     of : Remediations \cup {NoFact}, patch : Patches \cup {NoPatch}]

(* The stored items, and that a patch is the result of a patching remediation only. *)
RecordInv ==
    /\ record \in [Remediations -> Items \cup {NoFact}]
    /\ \A r \in Remediations : record[r] # NoFact /\ record[r].result \in Patches =>
          record[r].action = "TERRAFORM_PATCH"
    /\ task \in [Remediations -> {"NONE", "QUEUED", "CONSUMED", "DEAD"}]
    /\ \A r \in Remediations : task[r] # "NONE" => record[r] # NoFact

(* An invocation works on a stored remediation, in the branch of handle() its action leads   *)
(* to, and holds a patch whose bytes are stored and, when it writes files, whose branch is   *)
(* there.                                                                                     *)
WorkerInv ==
    /\ worker \in [Workers -> Invocations]
    /\ \A w \in Workers : worker[w].pc # "idle" =>
          /\ worker[w].of \in Remediations /\ My(w) # NoFact
          /\ worker[w].pc = "sync" => My(w).action = "ACTUAL_SYNC"
          /\ worker[w].pc \in {"generate"} \cup PatchPc => My(w).action = "TERRAFORM_PATCH"
          /\ worker[w].pc \in PatchPc => worker[w].patch \in contents
          /\ worker[w].pc = "files" => branch[worker[w].patch] \subseteq DOMAIN worker[w].patch

(* Branches hold files of their patch, and what is merged is all of it. *)
PullInv ==
    /\ contents \subseteq Patches
    /\ DOMAIN branch = Patches
    /\ pulls \in [Patches -> {"NONE", "OPEN", "MERGED"}]
    /\ \A p \in Patches : branch[p] = NoBranch \/ branch[p] \subseteq DOMAIN p
    /\ PullsAreWholePatches
    /\ DOMAIN merged = Patches
    /\ \A p \in Patches : pulls[p] = "MERGED" => merged[p] = DOMAIN p

WorkInv == RecordInv /\ WorkerInv /\ PullInv

(* A step of one invocation leaves the others as they are. *)
LEMMA OneWorker ==
    ASSUME WorkerInv, NEW w \in Workers, HandleStep(w) \/ WorkerStops(w), NEW v \in Workers \ {w}
    PROVE  worker'[v] = worker[v]
BY DEF WorkerInv, HandleStep, LoadWork, StoreSyncTarget, GeneratePatch, PatchRefused, StoreResult,
       EnsureBranch, PutFile, OpenPull, GitHubRefuses, StorePull, StoreFailure, FailJob,
       FailJobErrs, DropTask, DropFailure, WorkerStops, Consume, GoTo

(* What handle() writes to the item: the result, the pull request or the failure of the      *)
(* remediation at hand, and a result only where there was none.                              *)
LEMMA RecordWrites ==
    ASSUME RecordInv, WorkerInv, PullInv, NEW w \in Workers, HandleStep(w)
    PROVE  /\ record' \in [Remediations -> Items \cup {NoFact}]
           /\ \A r \in Remediations :
                 /\ record[r] = NoFact <=> record'[r] = NoFact
                 /\ record[r] # NoFact => record'[r].action = record[r].action
                 /\ record[r] # NoFact /\ record'[r].result # record[r].result =>
                       \/ record'[r].result = SyncTarget
                       \/ record[r].action = "TERRAFORM_PATCH"
<1> DEFINE r == worker[w].of
<1>1. r \in Remediations /\ record[r] \in Items /\ worker[w] \in Invocations
  BY DEF RecordInv, WorkerInv, My, HandleStep, LoadWork, StoreSyncTarget, GeneratePatch,
         PatchRefused, StoreResult, EnsureBranch, PutFile, OpenPull, FilesDone, GitHubRefuses,
         StorePull, StoreFailure, FailJob, FailJobErrs, DropTask, DropFailure, At, Failing,
         FailureCodes
<1>2. /\ NoFact \notin Items
      /\ record \in [Remediations -> Items \cup {NoFact}]
  BY MarkersAreDistinct DEF RecordInv
<1>3. ASSUME NEW item \in Items, record' = [record EXCEPT ![r] = item],
             item.action = record[r].action,
             item.result # record[r].result =>
                 item.result = SyncTarget \/ record[r].action = "TERRAFORM_PATCH"
      PROVE  /\ record' \in [Remediations -> Items \cup {NoFact}]
             /\ \A q \in Remediations :
                   /\ record[q] = NoFact <=> record'[q] = NoFact
                   /\ record[q] # NoFact => record'[q].action = record[q].action
                   /\ record[q] # NoFact /\ record'[q].result # record[q].result =>
                         \/ record'[q].result = SyncTarget
                         \/ record[q].action = "TERRAFORM_PATCH"
  BY <1>1, <1>2, <1>3
<1>4. CASE record' = record
  BY <1>2, <1>4
<1>5. CASE StoreSyncTarget(w)
  <2>1. PICK item : item = [record[r] EXCEPT !.result = IF @ = NoFact THEN SyncTarget ELSE @]
    OBVIOUS
  <2>2. /\ item \in Items /\ item.action = record[r].action
        /\ item.result \in {record[r].result, SyncTarget}
    BY <1>1, <2>1 DEF Items, Facts
  <2>3. record' = [record EXCEPT ![r] = item]
    BY <1>1, <1>5, <2>1 DEF StoreSyncTarget
  <2> QED
    BY <1>3, <2>2, <2>3
<1>6. CASE StoreResult(w)
  <2>1. PICK item : item = [record[r] EXCEPT !.result = ResultAfter(@, worker[w].patch)]
    OBVIOUS
  <2>2. worker[w].patch \in Patches /\ record[r].action = "TERRAFORM_PATCH"
    BY <1>6 DEF StoreResult, WorkerInv, At, My, PatchPc, PullInv
  <2>3. item \in Items /\ item.action = record[r].action
    BY <1>1, <2>1, <2>2 DEF Items, Facts, ResultAfter
  <2>4. record' = [record EXCEPT ![r] = item]
    BY <1>1, <1>6, <2>1 DEF StoreResult
  <2> QED
    BY <1>3, <2>2, <2>3, <2>4
<1>7. CASE StorePull(w)
  <2>1. PICK item : item = [record[r] EXCEPT !.pull =
                      IF @ = NoFact /\ My(w).result # NoFact THEN worker[w].patch ELSE @]
    OBVIOUS
  <2>2. worker[w].patch \in Patches
    BY <1>7 DEF StorePull, WorkerInv, At, PatchPc, PullInv
  <2>3. item \in Items /\ item.action = record[r].action /\ item.result = record[r].result
    BY <1>1, <2>1, <2>2 DEF Items, Facts
  <2>4. record' = [record EXCEPT ![r] = item]
    BY <1>1, <1>7, <2>1 DEF StorePull
  <2> QED
    BY <1>3, <2>3, <2>4
<1>8. CASE StoreFailure(w)
  <2>1. PICK item : item = IF MayFail(r) THEN [record[r] EXCEPT !.status = "FAILED",
                                                                !.failure = worker[w].pc]
                           ELSE record[r]
    OBVIOUS
  <2>2. item \in Items /\ item.action = record[r].action /\ item.result = record[r].result
    BY <1>1, <1>8, <2>1 DEF Items, StoreFailure, Failing
  <2>3. record' = [record EXCEPT ![r] = item]
    BY <1>1, <1>8, <2>1 DEF StoreFailure
  <2> QED
    BY <1>3, <2>2, <2>3
<1> QED
  BY <1>4, <1>5, <1>6, <1>7, <1>8 DEF HandleStep, LoadWork, GeneratePatch, PatchRefused,
     EnsureBranch, PutFile, OpenPull, GitHubRefuses, FailJob, FailJobErrs, DropTask, DropFailure,
     stored

(* RecordInv is inductive relative to the rest. *)
LEMMA StepKeepsRecord == WorkInv /\ [Next]_vars => RecordInv'
<1> SUFFICES ASSUME WorkInv, [Next]_vars
             PROVE  RecordInv'
  OBVIOUS
<1> USE DEF WorkInv
<1>1. /\ record \in [Remediations -> Items \cup {NoFact}]
      /\ task \in [Remediations -> {"NONE", "QUEUED", "CONSUMED", "DEAD"}]
      /\ NoFact \notin Items /\ SyncTarget \notin Patches
  BY MarkersAreDistinct DEF RecordInv
<1>2. ASSUME NEW r \in Remediations, CreateWorkflow(r)
      PROVE  RecordInv'
  <2>1. PICK action \in {"TERRAFORM_PATCH", "ACTUAL_SYNC"} :
            record' = [record EXCEPT ![r] =
                  [action |-> action, status |-> "QUEUED", result |-> NoFact,
                   pull |-> NoFact, failure |-> NoFact]]
    BY <1>2 DEF CreateWorkflow
  <2>2. record'[r] \in Items /\ record'[r].result = NoFact
    BY <1>1, <2>1 DEF Items, Facts
  <2>3. NoFact \notin Patches
    BY MarkersAreDistinct
  <2> QED
    BY <1>1, <1>2, <2>1, <2>2, <2>3 DEF RecordInv, CreateWorkflow
<1>3. ASSUME NEW w \in Workers, HandleStep(w)
      PROVE  RecordInv'
  <2>1. /\ task' \in [Remediations -> {"NONE", "QUEUED", "CONSUMED", "DEAD"}]
        /\ \A r \in Remediations : task[r] = "NONE" => task'[r] = "NONE"
    BY <1>1, <1>3 DEF HandleStep, LoadWork, StoreSyncTarget, GeneratePatch, PatchRefused,
       StoreResult, EnsureBranch, PutFile, OpenPull, GitHubRefuses, StorePull, StoreFailure,
       FailJob, FailJobErrs, DropTask, DropFailure, Consume, queue
  <2> QED
    BY <1>1, <1>3, <2>1, RecordWrites DEF RecordInv
<1>4. CASE UNCHANGED <<record, task>>
  BY <1>4 DEF RecordInv
<1>5. ASSUME NEW r \in Remediations, DeadLetter(r)
      PROVE  RecordInv'
  BY <1>1, <1>5 DEF RecordInv, DeadLetter, stored
<1> QED
  BY <1>2, <1>3, <1>4, <1>5 DEF Next, JobViewCatchesUp, Receive, WorkerStops, Merge, queue, stored,
                               vars

(* PullInv is inductive relative to the rest: a pull request is opened when no file of the    *)
(* patch is missing on its branch, and files are only added.                                  *)
LEMMA StepKeepsPulls == WorkInv /\ [Next]_vars => PullInv'
<1> SUFFICES ASSUME WorkInv, [Next]_vars
             PROVE  PullInv'
  OBVIOUS
<1> USE DEF WorkInv, PullInv, PullsAreWholePatches
<1>1. CASE UNCHANGED <<contents, github>>
  BY <1>1 DEF github
<1>2. ASSUME NEW w \in Workers, GeneratePatch(w)
      PROVE  PullInv'
  <2>1. PICK first, second \in Proposals : \E p \in Accepted(Document, first, second) :
            contents' = contents \cup {p}
    BY <1>2 DEF GeneratePatch
  <2>2. Accepted(Document, first, second) \subseteq Patches
    BY <2>1 DEF Accepted, Patches
  <2>3. contents \subseteq contents' /\ contents' \subseteq Patches
    BY <2>1, <2>2
  <2> QED
    BY <1>2, <2>3 DEF GeneratePatch, github
<1>3. ASSUME NEW w \in Workers, worker[w].pc \in PatchPc
      PROVE  worker[w].patch \in Patches /\ worker[w].patch \in contents
  BY <1>3 DEF WorkerInv, PatchPc, FailureCodes
<1>4. ASSUME NEW w \in Workers, EnsureBranch(w)
      PROVE  PullInv'
  <2>1. PICK p \in Patches : p = worker[w].patch
    BY <1>3, <1>4 DEF EnsureBranch, At, PatchPc
  <2>2. PICK files : files = IF branch[p] = NoBranch THEN {} ELSE branch[p]
    OBVIOUS
  <2>3. branch' = [branch EXCEPT ![p] = files]
    BY <1>4, <2>1, <2>2 DEF EnsureBranch
  <2>4. files \subseteq DOMAIN p
    BY <2>1, <2>2
  <2>5. pulls[p] # "NONE" => files = DOMAIN p
    BY <2>1, <2>2, MarkersAreDistinct DEF NoBranch
  <2>6. DOMAIN branch' = Patches
    BY <2>3
  <2> QED
    BY <1>4, <2>1, <2>3, <2>4, <2>5, <2>6 DEF EnsureBranch
<1>5. ASSUME NEW w \in Workers, PutFile(w)
      PROVE  PullInv'
  <2>1. PICK p \in Patches : p = worker[w].patch
    BY <1>3, <1>5 DEF PutFile, At, PatchPc
  <2>2. PICK path \in MissingFiles(p) : branch' = [branch EXCEPT ![p] = branch[p] \cup {path}]
    BY <1>5, <2>1 DEF PutFile
  <2>3. branch[p] \subseteq DOMAIN p /\ path \in DOMAIN p
    BY <1>5, <2>1, <2>2 DEF PutFile, At, WorkerInv, MissingFiles
  <2>4. branch[p] \cup {path} \subseteq DOMAIN p
    BY <2>3
  <2>5. /\ DOMAIN branch' = Patches /\ branch'[p] = branch[p] \cup {path}
        /\ \A q \in Patches \ {p} : branch'[q] = branch[q]
    BY <2>1, <2>2
  <2>6. pulls[p] # "NONE" => branch'[p] = DOMAIN p
    BY <2>1, <2>3, <2>5
  <2> QED
    BY <1>5, <2>1, <2>4, <2>5, <2>6 DEF PutFile
<1>6. ASSUME NEW w \in Workers, OpenPull(w)
      PROVE  PullInv'
  <2>1. PICK p \in Patches : p = worker[w].patch /\ p \in contents
    BY <1>3, <1>6 DEF OpenPull, FilesDone, At, PatchPc
  <2>2. branch[p] = DOMAIN p
    BY <1>6, <2>1 DEF OpenPull, FilesDone, At, WorkerInv, MissingFiles
  <2> QED
    BY <1>6, <2>1, <2>2 DEF OpenPull
<1>7. ASSUME NEW p \in Patches, Merge(p)
      PROVE  PullInv'
  BY <1>7 DEF Merge
<1> QED
  BY <1>1, <1>2, <1>4, <1>5, <1>6, <1>7 DEF Next, HandleStep, CreateWorkflow, JobViewCatchesUp,
     DeadLetter, Receive, WorkerStops, LoadWork, StoreSyncTarget, PatchRefused, StoreResult,
     GitHubRefuses, StorePull, StoreFailure, FailJob, FailJobErrs, DropTask, DropFailure, vars,
     github

(* What an invocation's own step leaves it with. *)
LEMMA WorkerMoves ==
    ASSUME WorkInv, NEW w \in Workers, HandleStep(w)
    PROVE  /\ worker'[w] \in Invocations
           /\ worker'[w].pc # "idle" =>
                 /\ worker'[w].of = worker[w].of /\ worker[w].pc # "idle"
                 /\ worker'[w].pc = "sync" => My(w).action = "ACTUAL_SYNC"
                 /\ worker'[w].pc \in {"generate"} \cup PatchPc =>
                       My(w).action = "TERRAFORM_PATCH"
                 /\ worker'[w].pc \in PatchPc => worker'[w].patch \in contents'
                 /\ worker'[w].pc = "files" =>
                       branch'[worker'[w].patch] \subseteq DOMAIN worker'[w].patch
<1> USE DEF WorkInv
<1>1. /\ worker \in [Workers -> Invocations] /\ worker[w] \in Invocations
      /\ IdleWorker \in Invocations /\ IdleWorker.pc = "idle"
  BY DEF WorkerInv, IdleWorker, Invocations, NoPatch
<1>2. ASSUME Consume(w)
      PROVE  worker'[w] \in Invocations /\ worker'[w].pc = "idle"
  BY <1>1, <1>2 DEF Consume
<1>3. ASSUME NEW pc \in {"sync", "generate", "fail job"} \cup PatchPc \cup FailureCodes,
             GoTo(w, pc)
      PROVE  /\ worker'[w] \in Invocations /\ worker'[w].pc = pc
             /\ worker'[w].of = worker[w].of /\ worker'[w].patch = worker[w].patch
  BY <1>1, <1>3 DEF GoTo, Invocations
<1>4. worker[w].pc # "idle" => My(w) \in Items
  BY DEF WorkerInv, RecordInv, My
<1>5. CASE LoadWork(w)
  <2>1. CASE My(w).action = "ACTUAL_SYNC"
    <3>1. GoTo(w, "sync")
      BY <1>5, <2>1 DEF LoadWork
    <3>2. worker'[w] \in Invocations /\ worker'[w].pc = "sync" /\ worker'[w].of = worker[w].of
      BY <1>3, <3>1
    <3> QED
      BY <1>5, <2>1, <3>2 DEF LoadWork, At, PatchPc
  <2>2. CASE My(w).action # "ACTUAL_SYNC"
    <3>1. GoTo(w, "generate") /\ My(w).action = "TERRAFORM_PATCH"
      BY <1>4, <1>5, <2>2 DEF LoadWork, At, Items
    <3>2. worker'[w] \in Invocations /\ worker'[w].pc = "generate" /\ worker'[w].of = worker[w].of
      BY <1>3, <3>1
    <3> QED
      BY <1>5, <3>1, <3>2 DEF LoadWork, At, PatchPc
  <2> QED
    BY <2>1, <2>2
<1>6. CASE GeneratePatch(w)
  <2>1. PICK first, second \in Proposals : \E p \in Accepted(Document, first, second) :
            /\ contents' = contents \cup {p}
            /\ worker' = [worker EXCEPT ![w].pc = "store", ![w].patch = p]
    BY <1>6 DEF GeneratePatch
  <2>2. PICK p \in Patches :
            /\ contents' = contents \cup {p}
            /\ worker' = [worker EXCEPT ![w].pc = "store", ![w].patch = p]
    BY <2>1 DEF Accepted, Patches
  <2>3. /\ worker'[w] \in Invocations /\ worker'[w].pc = "store" /\ worker'[w].patch = p
        /\ worker'[w].of = worker[w].of
    BY <1>1, <2>2 DEF Invocations, PatchPc
  <2> QED
    BY <1>6, <2>2, <2>3 DEF GeneratePatch, At, WorkerInv
<1>7. CASE StoreResult(w)
  <2>1. GoTo(w, "branch") /\ worker[w].pc = "store" /\ contents' = contents
    BY <1>7 DEF StoreResult, At
  <2>2. /\ worker'[w] \in Invocations /\ worker'[w].pc = "branch"
        /\ worker'[w].of = worker[w].of /\ worker'[w].patch = worker[w].patch
    BY <1>3, <2>1 DEF PatchPc
  <2> QED
    BY <2>1, <2>2 DEF PatchPc, WorkerInv
<1>8. CASE EnsureBranch(w)
  <2>1. GoTo(w, "files") /\ worker[w].pc = "branch" /\ contents' = contents
    BY <1>8 DEF EnsureBranch, At
  <2>2. PICK p \in Patches : p = worker[w].patch /\ p \in contents
    BY <1>8 DEF EnsureBranch, PullInv
  <2>3. branch'[p] \subseteq DOMAIN p
    BY <1>8, <2>2 DEF EnsureBranch, PullInv
  <2> QED
    BY <1>3, <2>1, <2>2, <2>3 DEF PatchPc, WorkerInv
<1>9. CASE PutFile(w)
  <2>1. PICK p \in Patches : p = worker[w].patch /\ p \in contents
    BY <1>9 DEF PutFile, At, WorkerInv, PullInv, PatchPc
  <2>2. branch'[p] \subseteq DOMAIN p
    BY <1>9, <2>1 DEF PutFile, At, WorkerInv, PullInv, MissingFiles
  <2> QED
    BY <1>1, <1>9, <2>1, <2>2 DEF PutFile, At, WorkerInv, PatchPc
<1>10. CASE OpenPull(w)
  <2>1. GoTo(w, "pull") /\ worker[w].pc = "files" /\ contents' = contents
    BY <1>10 DEF OpenPull, FilesDone, At
  <2> QED
    BY <1>3, <2>1 DEF PatchPc, WorkerInv
<1>11. CASE PatchRefused(w) \/ GitHubRefuses(w) \/ StoreFailure(w)
  <2>1. PICK pc \in {"fail job"} \cup FailureCodes : GoTo(w, pc) /\ worker[w].pc # "idle"
    BY <1>11 DEF PatchRefused, GitHubRefuses, StoreFailure, At, Failing, FailureCodes
  <2> QED
    BY <1>3, <2>1 DEF PatchPc, FailureCodes
<1>12. CASE \/ StoreSyncTarget(w) \/ StorePull(w) \/ FailJob(w) \/ FailJobErrs(w)
            \/ DropTask(w) \/ DropFailure(w)
  BY <1>2, <1>12 DEF StoreSyncTarget, StorePull, FailJob, FailJobErrs, DropTask, DropFailure
<1> QED
  BY <1>5, <1>6, <1>7, <1>8, <1>9, <1>10, <1>11, <1>12 DEF HandleStep

(* Stored bytes stay, and a branch that holds files of a patch keeps to them. *)
LEMMA BranchesStay ==
    ASSUME WorkInv, [Next]_vars
    PROVE  /\ contents \subseteq contents'
           /\ \A p \in Patches : branch[p] \subseteq DOMAIN p => branch'[p] \subseteq DOMAIN p
<1> USE DEF WorkInv
<1>1. PullInv'
  BY StepKeepsPulls
<1>2. contents \subseteq contents'
  BY DEF Next, HandleStep, CreateWorkflow, JobViewCatchesUp, DeadLetter, Receive, WorkerStops,
     LoadWork, StoreSyncTarget, GeneratePatch, PatchRefused, StoreResult, EnsureBranch, PutFile,
     OpenPull, GitHubRefuses, StorePull, StoreFailure, FailJob, FailJobErrs, DropTask,
     DropFailure, Merge, vars
<1>3. CASE branch' = branch
  BY <1>2, <1>3
<1>4. ASSUME NEW w \in Workers, EnsureBranch(w) \/ PutFile(w), NEW p \in Patches,
             branch[p] \subseteq DOMAIN p
      PROVE  branch'[p] \subseteq DOMAIN p
  BY <1>4 DEF EnsureBranch, PutFile, MissingFiles, PullInv
<1> QED
  BY <1>2, <1>3, <1>4 DEF Next, HandleStep, CreateWorkflow, JobViewCatchesUp, DeadLetter, Receive,
     WorkerStops, LoadWork, StoreSyncTarget, GeneratePatch, PatchRefused, StoreResult, OpenPull,
     GitHubRefuses, StorePull, StoreFailure, FailJob, FailJobErrs, DropTask, DropFailure, Merge,
     vars, github

(* A stored remediation stays, with its action. *)
LEMMA ActionsStay ==
    ASSUME WorkInv, [Next]_vars, NEW r \in Remediations, record[r] # NoFact
    PROVE  record'[r] # NoFact /\ record'[r].action = record[r].action
<1> USE DEF WorkInv
<1>1. CASE record' = record
  BY <1>1
<1>2. ASSUME NEW q \in Remediations, CreateWorkflow(q)
      PROVE  record'[r] = record[r]
  BY <1>2 DEF CreateWorkflow, RecordInv
<1>3. ASSUME NEW w \in Workers, HandleStep(w)
      PROVE  record'[r] # NoFact /\ record'[r].action = record[r].action
  BY <1>3, RecordWrites
<1> QED
  BY <1>1, <1>2, <1>3 DEF Next, JobViewCatchesUp, DeadLetter, Receive, WorkerStops, Merge, stored,
                          vars

(* WorkerInv is inductive relative to the rest. *)
LEMMA StepKeepsWorkers == WorkInv /\ [Next]_vars => WorkerInv'
<1> SUFFICES ASSUME WorkInv, [Next]_vars
             PROVE  WorkerInv'
  OBVIOUS
<1> USE DEF WorkInv
<1>1. /\ worker \in [Workers -> Invocations]
      /\ IdleWorker \in Invocations /\ IdleWorker.pc = "idle"
  BY DEF WorkerInv, IdleWorker, Invocations, NoPatch
<1> DEFINE OK(v) ==
        worker'[v].pc # "idle" =>
          /\ worker'[v].of \in Remediations /\ record'[worker'[v].of] # NoFact
          /\ worker'[v].pc = "sync" => record'[worker'[v].of].action = "ACTUAL_SYNC"
          /\ worker'[v].pc \in {"generate"} \cup PatchPc =>
                record'[worker'[v].of].action = "TERRAFORM_PATCH"
          /\ worker'[v].pc \in PatchPc => worker'[v].patch \in contents'
          /\ worker'[v].pc = "files" => branch'[worker'[v].patch] \subseteq DOMAIN worker'[v].patch
<1>2. ASSUME NEW v \in Workers, worker'[v] = worker[v]
      PROVE  OK(v)
  <2>1. worker[v].pc \in PatchPc => worker[v].patch \in Patches
    BY DEF WorkerInv, PullInv, PatchPc, FailureCodes
  <2>2. worker[v].pc = "files" => branch'[worker[v].patch] \subseteq DOMAIN worker[v].patch
    BY <2>1, BranchesStay DEF WorkerInv, PatchPc
  <2> QED
    BY <1>2, <2>2, ActionsStay, BranchesStay DEF WorkerInv, My
<1>3. ASSUME NEW w \in Workers, HandleStep(w)
      PROVE  worker' \in [Workers -> Invocations] /\ \A v \in Workers : OK(v)
  <2>1. \A v \in Workers \ {w} : worker'[v] = worker[v]
    BY <1>3, OneWorker
  <2>2. OK(w)
    BY <1>3, WorkerMoves, ActionsStay DEF WorkerInv, My
  <2>3. worker' \in [Workers -> Invocations]
    <3>1. worker'[w] \in Invocations
      BY <1>3, WorkerMoves
    <3>2. \E f : worker' = [worker EXCEPT ![w] = f]
      BY <1>1, <1>3, <2>1 DEF HandleStep, LoadWork, StoreSyncTarget, GeneratePatch, PatchRefused,
         StoreResult, EnsureBranch, PutFile, OpenPull, GitHubRefuses, StorePull, StoreFailure,
         FailJob, FailJobErrs, DropTask, DropFailure, Consume, GoTo
    <3> QED
      BY <1>1, <3>1, <3>2
  <2> QED
    BY <1>2, <2>1, <2>2, <2>3
<1>4. ASSUME NEW w \in Workers, WorkerStops(w)
      PROVE  worker' \in [Workers -> Invocations] /\ \A v \in Workers : OK(v)
  BY <1>1, <1>2, <1>4 DEF WorkerStops
<1>5. ASSUME NEW w \in Workers, NEW r \in Remediations, Receive(w, r)
      PROVE  worker' \in [Workers -> Invocations] /\ \A v \in Workers : OK(v)
  <2>1. /\ worker' = [worker EXCEPT ![w] = [IdleWorker EXCEPT !.pc = "load", !.of = r]]
        /\ record[r] # NoFact /\ record' = record
    BY <1>5 DEF Receive, RecordInv, stored
  <2>2. /\ [IdleWorker EXCEPT !.pc = "load", !.of = r] \in Invocations
        /\ [IdleWorker EXCEPT !.pc = "load", !.of = r].pc = "load"
        /\ [IdleWorker EXCEPT !.pc = "load", !.of = r].of = r
    BY DEF IdleWorker, Invocations, NoPatch
  <2>3. OK(w)
    BY <1>1, <2>1, <2>2 DEF PatchPc
  <2>4. \A v \in Workers \ {w} : worker'[v] = worker[v]
    BY <1>1, <2>1
  <2>5. worker' \in [Workers -> Invocations]
    BY <1>1, <2>1, <2>2
  <2> QED
    BY <1>2, <2>3, <2>4, <2>5
<1>6. ASSUME worker' = worker
      PROVE  worker' \in [Workers -> Invocations] /\ \A v \in Workers : OK(v)
  BY <1>1, <1>2, <1>6
<1>7. worker' \in [Workers -> Invocations] /\ \A v \in Workers : OK(v)
  BY <1>3, <1>4, <1>5, <1>6 DEF Next, CreateWorkflow, JobViewCatchesUp, DeadLetter, Merge, vars
<1> QED
  BY <1>7 DEF WorkerInv, My

(* At first there is nothing. *)
LEMMA InitialWork == Init => WorkInv
<1> SUFFICES ASSUME Init PROVE WorkInv
  OBVIOUS
<1>1. IdleWorker \in Invocations /\ IdleWorker.pc = "idle"
  BY DEF IdleWorker, Invocations, NoPatch
<1>2. RecordInv
  BY DEF Init, RecordInv
<1>3. WorkerInv
  BY <1>1 DEF Init, WorkerInv
<1>4. PullInv
  BY DEF Init, PullInv, PullsAreWholePatches
<1> QED
  BY <1>2, <1>3, <1>4 DEF WorkInv

(* The inductive invariant of the remediation worker: items, invocations and pull requests    *)
(* agree whichever deliveries run at the same time and wherever they stop.                    *)
THEOREM WorkInvariant == Spec => []WorkInv
<1>1. WorkInv /\ [Next]_vars => WorkInv'
  BY StepKeepsRecord, StepKeepsPulls, StepKeepsWorkers DEF WorkInv
<1> QED
  BY <1>1, InitialWork, PTL DEF Spec

(* A pull request shows all files of one stored patch, for any number of invocations of the   *)
(* worker writing the same branch file by file.                                               *)
THEOREM PullsAreWhole == Spec => []PullsAreWholePatches
<1>1. WorkInv => PullsAreWholePatches
  BY DEF WorkInv, PullInv
<1> QED
  BY <1>1, WorkInvariant, PTL

(* The commit a deployment is made of is the whole stored result of a patching remediation.   *)
THEOREM DeployedIsStored == Spec => []DeployedCommitIsStoredPatch
<1>1. WorkInv => DeployedCommitIsStoredPatch
  BY DEF WorkInv, PullInv, RecordInv, DeployedCommitIsStoredPatch, DeployableCommit
<1> QED
  BY <1>1, WorkInvariant, PTL

-----------------------------------------------------------------------------
(* Types. *)

(* The Job of a stored remediation is as it was created, or failed once. *)
JobOf(r) ==
    \/ job[r].status = "QUEUED" /\ job[r].revision = 0 /\ job[r].assessment = NoLink
    \/ job[r].status = "FAILED" /\ job[r].revision = 1

CountInv ==
    /\ DOMAIN job = Remediations /\ DOMAIN receives = Remediations
    /\ \A r \in Remediations : /\ job[r] = NoFact \/ JobOf(r)
                               /\ record[r] # NoFact => JobOf(r)
                               /\ receives[r] \in 0 .. MaxReceives

(* _fail_job moves a Job once and leaves a failed one alone. *)
LEMMA FailsOnce ==
    ASSUME NEW r \in Remediations, JobOf(r)
    PROVE  FailedJob(job[r]).status = "FAILED" /\ FailedJob(job[r]).revision = 1
<1>1. "FAILED" \in AllowedTransitions["QUEUED"]
  BY DEF AllowedTransitions, JobStatus, TerminalStatus
<1>2. AllowedTransitions["FAILED"] = {}
  BY DEF AllowedTransitions, JobStatus, TerminalStatus
<1>3. CASE job[r].status = "QUEUED" /\ job[r].revision = 0 /\ job[r].assessment = NoLink
  <2>1. CanTransition(job[r], job[r].revision, "FAILED", NoLink)
    BY <1>1, <1>3 DEF CanTransition, MayLink
  <2> QED
    BY <1>3, <2>1 DEF FailedJob, TransitionJob
<1>4. CASE job[r].status = "FAILED" /\ job[r].revision = 1
  <2>1. ~CanTransition(job[r], job[r].revision, "FAILED", NoLink)
    BY <1>2, <1>4 DEF CanTransition
  <2> QED
    BY <1>4, <2>1 DEF FailedJob
<1> QED
  BY <1>3, <1>4 DEF JobOf

(* CountInv is inductive relative to WorkInv. *)
LEMMA StepKeepsCounts == WorkInv /\ CountInv /\ [Next]_vars => CountInv'
<1> SUFFICES ASSUME WorkInv, CountInv, [Next]_vars
             PROVE  CountInv'
  OBVIOUS
<1> USE DEF CountInv, JobOf, stored, queue
<1>1. MaxReceives \in Nat
  BY ReceivesAreBounded
<1>2. ASSUME NEW r \in Remediations, CreateWorkflow(r)
      PROVE  CountInv'
  <2>1. PICK step : job' = [job EXCEPT ![r] = CreateJob(step)]
    BY <1>2 DEF CreateWorkflow
  <2>2. \A q \in Remediations \ {r} : record'[q] = record[q]
    BY <1>2 DEF CreateWorkflow, WorkInv, RecordInv
  <2> QED
    BY <1>2, <2>1, <2>2 DEF CreateWorkflow, CreateJob
<1>3. ASSUME NEW w \in Workers, NEW r \in Remediations, Receive(w, r)
      PROVE  CountInv'
  <2>1. receives[r] \in 0 .. MaxReceives /\ receives[r] < MaxReceives
        /\ receives' = [receives EXCEPT ![r] = receives[r] + 1] /\ UNCHANGED <<record, job>>
    BY <1>3 DEF Receive
  <2>2. receives[r] + 1 \in 0 .. MaxReceives
    BY <1>1, <2>1
  <2> QED
    BY <2>1, <2>2
<1>4. ASSUME NEW w \in Workers, FailJob(w)
      PROVE  CountInv'
  <2>1. PICK r \in Remediations : r = worker[w].of /\ record[r] # NoFact
    BY <1>4 DEF FailJob, At, WorkInv, WorkerInv, My
  <2>2. JobOf(r) /\ job' = [job EXCEPT ![r] = FailedJob(job[r])]
    BY <1>4, <2>1 DEF FailJob
  <2>3. job'[r].status = "FAILED" /\ job'[r].revision = 1
    BY <2>2, FailsOnce
  <2>4. \A q \in Remediations \ {r} : job'[q] = job[q]
    BY <2>2
  <2> QED
    BY <1>4, <2>2, <2>3, <2>4 DEF FailJob, Consume
<1>5. ASSUME NEW w \in Workers, HandleStep(w), ~FailJob(w)
      PROVE  UNCHANGED <<job, receives>>
  BY <1>5 DEF HandleStep, LoadWork, StoreSyncTarget, GeneratePatch, PatchRefused, StoreResult,
     EnsureBranch, PutFile, OpenPull, GitHubRefuses, StorePull, StoreFailure, FailJobErrs,
     DropTask, DropFailure, Consume
<1>6. ASSUME NEW w \in Workers, HandleStep(w)
      PROVE  CountInv'
  BY <1>4, <1>5, <1>6, RecordWrites DEF WorkInv
<1>7. CASE UNCHANGED <<record, job, receives>>
  BY <1>7
<1> QED
  BY <1>2, <1>3, <1>6, <1>7 DEF Next, JobViewCatchesUp, DeadLetter, WorkerStops, Merge, vars

(* What is stored, queued and on GitHub has the right type, and a Job fails at most once      *)
(* however many deliveries report the failure.                                                *)
THEOREM TypeCorrect == Spec => []RemediationTypeOK
<1>1. Init => CountInv
  BY ReceivesAreBounded DEF Init, CountInv
<1>2. WorkInv /\ CountInv => RemediationTypeOK
  BY DEF WorkInv, RecordInv, PullInv, CountInv, JobOf, RemediationTypeOK, JobStatus
<1> QED
  BY <1>1, <1>2, WorkInvariant, StepKeepsCounts, PTL DEF Spec

=============================================================================

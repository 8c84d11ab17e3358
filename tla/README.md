# Formal model of the policy-assessment and deployment backend

TLA+ modules, TLC runs and TLAPS proofs for the workflow core of this repository: how a
policy document becomes rules and profiles, how an account and a repository are assessed
against them, how a finding is remediated by a pull request, how an approved Terraform plan
is applied and verified, and the Jobs, outbox and queues all of that runs on.

## 1. The system

A customer's repository and AWS account are assessed against approved policy profiles;
findings are remediated by a patch in a pull request; a merged change is planned, approved
by a human, applied by a GitHub workflow and assessed again. Everything runs in Lambda
invocations that share one DynamoDB table, S3, SQS standard queues and EventBridge. There is
no lock and no long-lived process: what keeps concurrent invocations apart are conditional
writes, most of them on the `revision` of a Job or on the absence of an item.

    document --> candidates --(reviewer)--> rules --(publisher)--> profile
                                                                     |
    request --(transaction: Job, outbox, facts)--> DynamoDB --dispatch/sweep--> SQS --> worker
                                                                     |
    Assessment worker --> results, findings --> report, remediation decision
    Remediation worker --> patch, pull request --> merged commit
    Deployment worker --> GitHub run --> EventBridge --> record_completion --> verification

| Component | State it keeps | Operations | What makes it correct | Module |
|---|---|---|---|---|
| Job lifecycle (`jobs/lifecycle.py`) | status, step, revision, links of a Job | `create_job`, `transition_job` | terminal is final, links written once, each transition one revision | `JobLifecycle` |
| Outbox (`jobs/outbox.py`, `repositories/dynamodb.py`) | one entry per Job: task, status, GSI2 keys | write with the stage, `dispatch_entry`, sweep, mark, record failure | no task is lost, the sweep ends, stale tasks are refused | `WorkflowOutbox` |
| Queues (`jobs/sqs.py`, `m0-foundation.yaml`) | messages, receive counts, DLQ | send, receive, release, redrive | a task is handled or in the DLQ | `WorkflowOutbox` |
| Deployment requests (`api/deployments.py`, `deployment/approval.py`) | DEPLOYMENT, APPROVAL, REJECTION items | create, approve, reject, status | only a READY plan is approved, a rejection is final | `Deployment` |
| Deployment worker (`deployment/worker.py`) | plan facts, DISPATCH, EVENT items | plan, dispatch apply, verify apply | only the approved plan runs; only a matching success is confirmed | `Deployment`, `DeploymentDelivery` |
| Apply completion (`deployment/completion.py`) | EVENT item per run | reserve, absorb | a reserved run is confirmed, or its task is in the DLQ | `Deployment`, `DeploymentDelivery` |
| Verification start (`deployment/verification.py`) | Assessment, record link, Job link | one five-item transaction | one verification, after a confirmed run | `Deployment` |
| Apply workflow (`ci/terraform`) | Terraform state, run conclusion | re-verify state, apply, publish Event | a plan is applied to the state it was computed from | `Deployment` |
| Remediation decisions (`policy/remediation.py`, `api/remediations.py`) | occurrences, exceptions, REMEDIATION items | decide patch, sync, manual review, suppression | a decision follows from stored facts, although read in two reads | `RemediationPolicy`, `RemediationRequests` |
| Remediation worker (`remediation/`) | result, pull request, failure, Job | generate, store, branch, files, pull request, fail | a pull request is one whole patch; what is deployed is the stored one | `RemediationWork` |
| Assessment execution (`assessment/worker.py`, `runtime.py`, `results.py`) | plan, immutable results, counter, findings | plan once, evaluate, store, absorb | results are one delivery's, a report is complete | `AssessmentRun` |
| Assessment evaluation (`assessment/deterministic.py`, `plan_facts.py`, `bedrock.py`) | none | pure functions | declared evidence decides, replies keep the contract | `EvidencePaths`, `EvidenceRules`, `ModelReplies`, `AssessmentEvaluation` |
| Reports, drift, comparison | none | pure functions over stored results | comparable only over the same plan and rubric | `AssessmentReports` |
| Control catalog (`policy/control_catalog.py`, `contracts/policy_authoring.py`) | none: constants | look up a control, its evidence and predicates | every required piece of evidence can be read | `ControlCatalog`, `GovernanceControls` |
| Evidence tools (`agent/runtime/`) | none | list, view, read a document | what is returned was true, and nothing is missing | `EvidenceReading` |
| Policy ingestion (`policy/ingestion`, `repositories/policy_ingestion.py`) | source versions | upload, finalize, normalise, review, delete | a source is used only after review | `PolicySources` |
| Policy authoring (`policy/authoring`) | manifest, candidate children | ask, account for each unit, build rules, store | the candidates offered are one complete run | `PolicyAuthoring`, `PolicySources` |
| Policy approval and publication (`repositories/policy_approval.py`) | approvals, rules, profile versions, pointer | approve, publish, retire | only approved, executable rules are published | `PolicyProfiles` |
| API routing, auth, users, audit, observability, frontend, scripts | little or none | routing, views | - | none (section 8) |

Hard behaviours: redelivery and reordering of tasks and Events, invocations that stop
between two writes, indexes and queries that lag behind the table, a human decision racing
with a worker or another human, a model that answers differently when asked again, an
account and a branch that change while they are read, a GitHub run that outlives everything
that started it. `PROJECT.json` lists them as hazards, each at its line and with the
properties about it.

## 2. Modules

| Module | Models | State and actions against the code |
|---|---|---|
| `JobLifecycle` | `jobs/lifecycle.py` | operators only: `CanTransition` is the guards of `transition_job`, `TransitionJob` what it returns |
| `WorkflowOutbox` | one Job's outbox, SQS queue and worker entry | `outbox` is the item at `OUTBOX#JOB#{job_id}`, `index` GSI2, `jobView` GSI1; a process in `dispatcher` is inside `dispatch_entry`; `message` is SQS |
| `Deployment` | one deployment up to the start of its verification | one variable per item (`record`, `job`, `approval`, `rejected`, `receipt`, `events`), the two lagging views, the invocations of worker and completion handler with what they read, and GitHub (`runs`, `serial`, `atCommit`) |
| `DeploymentDelivery` | how often a deployment's work is delivered (`jobs/sqs.py`, `m0-foundation.yaml`); extends `Deployment` | a message per committed task with its receive count, the dead letter queue, the invocations of an Event, and a budget of faults; each action is one of `Deployment` with what it does to its message |
| `ApplyGate`, `DeploymentRefinement` | what a deployment promises, and the mapping under which `Deployment` keeps it | plan fixed, approved or refused, run, confirmed, verified; the gate's runs are GitHub's, its confirmed runs the VERIFIED items |
| `RemediationPolicy` | `policy/remediation.py`, contract values, bounds on a Terraform change | operators only |
| `RemediationRequests` | `create_remediation` | occurrences and exceptions are stored while a request is between its two reads, its decision and its transaction |
| `RemediationWork` | the remediation worker | one delivery is a chain of steps (load, generate, store, branch, each file, pull request, link, or failure record and Job); GitHub's branches and pull requests are external state |
| `ControlCatalog` | what the contract admits as a control and its evidence | operators over the constant `Catalog` |
| `EvidencePaths`, `EvidenceRules` | JSON values and dotted paths; predicates over observed and planned documents | operators: `PathValues`, verdicts of a capability, plan facts |
| `GovernanceControls` | the product's 18 controls, the views the AWS adapters project, the names of resources in plans | constants, with two assumptions TLC evaluates: every required path is carried by a view, every plan fact names its resource |
| `ModelReplies` | what is a contractual reply to an evaluation, and its retries | operators |
| `AssessmentEvaluation` | verdicts of the three perspectives, drift, scores, remediation readiness | operators |
| `AssessmentReports` | findings, report completeness, segments, comparison | operators |
| `AssessmentRun` | the Assessment worker and the reports | per Assessment the plan, the results, the counter, the findings; a worker holds the configuration it read; `Views` are what a late query may answer |
| `Selections` | `Selected`, what the code's list comprehensions and filters return | one operator, defined without RECURSIVE so that proofs can use it |
| `EvidenceReading` | the AWS adapters and the GitHub snapshot tool | an operation is an agenda of API calls; the account and the branch change between two calls; `seen` is history |
| `PolicyAuthoring` | questions, replies, requirements, the rule builder | operators; `Results` is the set of everything a document may yield |
| `PolicySources` | upload to review of a document, and the authoring worker | one variable per item kind; a client runs one request, a worker one delivery |
| `PolicyProfiles` | approval, publication, retirement, deletion | adds approvals, the Rule registry, versions and pointers |
| `MC...` | TLC instances | constants and symmetry only |
| `WorkflowOutboxProofs`, `DeploymentProofs`, `RemediationWorkProofs`, `RemediationRequestsProofs`, `AssessmentRunProofs`, `EvidenceReadingProofs`, `PolicyProofs` | TLAPS proofs | section 6 |
| `SequenceLemmas` | induction over numbers, selections, flattened sequences | lemmas the proofs cite |

One step of a machine is one atomic access: a read of the table, a conditional transaction,
a call to GitHub, AWS or the model. Where read and transaction are one step, the transaction
is conditioned on what was read, and when the condition fails the request writes nothing.

Decisions worth knowing when comparing with the code:

* **Outbox and deployment.** `Deployment` does not contain the outbox: a committed task may be
  delivered to any worker, at any later moment, any number of times or never. That is weaker
  than what `WorkflowOutbox` guarantees, so the safety properties do not rest on delivery.
  `DeploymentDelivery` adds the limits: three receives of a message, then the dead letter queue
  (`m0-foundation.yaml:471`, maxReceiveCount), which nothing redrives. The attempts of an Event
  are not in the template; they are those of an asynchronous Lambda invocation. It assumes one message per
  committed task, which `WorkflowOutbox` is about, and that a concluded run publishes its Event.
  A receive is refused without a fault when the stored facts refuse it; what else fails is counted.
* **Plans.** A plan digest is a model value; whether it is READY is a property of the digest
  (`ReadyPlans`), as readiness is a pure function of plan summary and remediation context.
  BLOCKED also stands for the verdict that asks for a manual review. A Terraform state is its
  serial: applying moves it, and `StateMoves` is any other writer. A redelivered
  RUN_DEPLOYMENT may take the outputs of an older plan run, which it finds by title
  (`deployment/runtime.py:353-379`): `PlanOutputs` allows any earlier serial. Every successful
  apply is taken to move the serial: a plan that is READY changes something.
* **Commits.** `atCommit` says whether the default branch still ends at the approved commit
  when the run is created: `read_run` reports the run's `head_sha`, so a run dispatched after
  the branch moved is never confirmed although it applied the approved plan.
* **`NullAttribute`** is TRUE for the code as it is: `DeploymentRecord.to_dict` writes the
  absent link as NULL, and the verification transaction requires `attribute_not_exists`. Then
  no verification starts (run `DeploymentNullLink`). FALSE is a record without the attribute,
  as the condition expects it; the safety run uses it because otherwise everything after the
  confirmed run would be unreachable and every property about it vacuous. The proofs hold for
  both.
* **Remediation.** A FAILED record may still get a result from a later delivery. A redelivery
  after the pull request was merged gets 422 from GitHub and fails the Job. Model text is a
  choice among `Proposals`; the bounds on a change are checked as the code checks them.
* **Assessment.** A result is stamped with its delivery: commit and time are the delivery's.
  An AWS verdict reads the resource for its rule alone (`actual_evaluator.py:108`), so two rules
  of one delivery may have seen two states of it. A refused read is an EXECUTION_ERROR of the
  coordinate (`runner.py:87`) and stops nothing else.
  A transaction may take effect although its answer is lost. A late query answers with all
  results or all but one. A verification is started from a report with a FAIL finding whose
  remediation plan is READY_FOR_APPROVAL. One profile version is pinned, so the
  `POLICY_PROFILE_*` rejections do not occur. `GovernanceType` stands for
  `AWS::Governance::Assessment`. Malformed documents, and replies beyond the fields modelled,
  raise in the code and are outside; texts are compared without regard to case; the observed
  counts of a verdict are left out.
* **Catalog.** Titles, guidance, tool bindings, severities and Terraform hints are left out.
  Both instances that need a catalog use the product's controls, so its soundness is evaluated
  on the real entries. EC2_EBS_ENCRYPTION and EC2_SG_INGRESS_RESTRICTED support the types
  Volume and SecurityGroup, but declare their evidence for Instance only: a Rule authored for
  those types would always answer INSUFFICIENT_EVIDENCE (`HasEvidenceGap`).
* **Evidence.** Torn views are allowed: a named part's link and its value are witnessed
  separately, and a view of an instance or database mixes moments. A bucket without a public
  access block or encryption configuration cannot be read (`s3 tool:87-96`); one resource
  deleted during a list fails the whole list. That a well-formed answer leaves nothing out is
  assumed of AWS: the adapters read a missing key as an absence. Any call may fail, and then the reading returns
  nothing. A page token is the position of the last item. The view of a bundle is discarded
  and read again.
* **Policy.** A document exists from its upload session on (its ids are fresh). A load for
  publication is one step. The condition on `approved_at` is one on the approval's rules,
  which grow with each approval. The REQUEST item is merged with its enqueueing, and the
  listing of candidates into the review. `retire_profile` deletes whatever pointer is there by
  then, while its audit item may name another version (`policy_approval.py:287-301`). A crash
  after finalize leaves a document UPLOADED for ever (`policy_ingestion.py:121`, `:194`); a
  worker that goes on after a deletion leaves children without a document
  (`policy_ingestion.py:365`); during a deletion the counts may agree by chance, and an
  approval then fails.

## 3. Runs

| Run | Instance | Distinct states | Shows |
|---|---|---|---|
| `OutboxSingle` | 2 processes, 2 messages, one stage, 2 receives | 52 k | types; the unsent task is recoverable; nothing is lost silently; the entry is dispatched in the end; the task is handled or dead-lettered |
| `OutboxStages` | 2 processes, 2 messages, two stages, 2 receives | 1.06 M | stages are accepted in order, redeliveries included |
| `DeploymentSafety` | 2 workers, 1 completion, 2 runs, 2 digests (1 READY), 2 ids, serial up to 2 | 832 k | only the approved plan runs, once; only successes are confirmed; links, facts and status never go back; every step is one of `ApplyGate` |
| `DeploymentProgress` | 2 workers, 1 completion, 2 runs, 2 receives, 2 attempts, 1 fault | 249 k | with fewer faults than deliveries, a single successful run is confirmed; a reserved completion is confirmed or its task is in the dead letter queue |
| `RemediationDecisions` | 1 request, 2 rules, 2 commits, 2 Assessments, 2 exceptions, time up to 1 | 1.42 M | decisions follow from stored facts |
| `RemediationSafety` | 2 workers, 3 deliveries, 2 good patches and 2 bad ones | 31 k | whole patches; the deployed one is the stored one; a task is answered |
| `PolicySafety` | 1 document of 3 units, 2 clients, 1 worker, 2 deliveries, 6 replies, 2 versions of a profile | 1.51 M | registry, approval and versions agree; only executable, approved rules |
| `Assessment` | 2 workers, 3 deliveries, 3 configurations, 3 rules, 2 resources and the governance resource | 245 k | counter, results and findings agree; results of one delivery; complete scores; comparable verification |
| `Evidence` | 8 resources of 4 kinds, pages of 1, at most 2 pages, 3 commits, 2 changes | 278 k | views and lists are true and complete; documents of one commit |
| `OutboxLost`, `DeploymentNullLink`, `AssessmentRedelivery` | the smallest instance, or the one above | - | section 7 |

Why the bounds are enough.

* *Outbox.* Two processes give every race: one that is late with an update and one that
  commits or sweeps. Two messages are a task and its duplicate, or the tasks of two stages.
  With two receives a message is handled, redelivered and dead-lettered: in `OutboxStages` the
  redelivery of the first stage's task may come after the second stage was accepted.
* *Deployment.* Two workers are a delivery and its duplicate, two runs a run and its
  duplicate, two digests a plan that may be approved and one that may not; the serial goes up
  to 2, so that both runs could apply and another writer come first. Delivery: two
  receives and two attempts against one fault; a task is dead-lettered when a refused load or a
  second run takes the other receive. Larger instances hold too, but take long: both properties
  with two completions (283 k states), `ReservedIsAccounted` for one worker with two faults, which
  use up both receives (613 k), `SuccessIsConfirmed` for one worker with the template's three
  receives, three attempts and two faults (1.20 M). With as many faults as receives
  `SuccessIsConfirmed` fails, as it should.
* *Remediation.* One request between two Assessments and two exceptions meets each of them
  before, between and after its reads; a clock of two values tells apart what the code
  compares. Two workers with three deliveries give an overlap and a redelivery after both;
  two good patches are two answers of the model, two files an attempt that stops between.
* *Policy.* Two clients are two reviewers, two publishers, or either and a deletion. Two
  deliveries to which the model answers differently spoil a run. The three units are asked
  about in two overlapping chunks. One document is enough for every race, since all
  conditions are per document or per profile; several matter only to which Rules a profile
  joins, which the proof covers. Two versions are two publications of one profile.
* *Assessment.* Three deliveries are shared by the two Assessments: one of each and one that
  is late or repeated. One change of configuration falls before, within or between them. The
  rules are one of each kind: HYBRID (a model answers for the files, code for the account,
  and drift joins them), AWS on a resource whose reads are refused, MANUAL. That a model answers for the
  account is not reached here; `ModelReplies` treats it as the files.
* *Evidence.* Pages of one item with two pages make every boundary: a full page, a token, the
  cap with something left. Two changes are a change and its reversal between two calls.

Symmetry is used in safety runs only, over sets whose members no action tells apart.
`CHECK_DEADLOCK FALSE` in every run: a Job that is closed, a deployment whose verification
was started, a document that is deleted or a bound that is used up has nothing left to do.

## 4. What a reader can rely on

Each property states in its comment what it says and of which code. The ones that took the
most to get right:

* `AppliedAtMostOnce`: two apply runs of one approval do occur (section 7); what keeps the
  second from applying is the state check in the workflow.
* `AcceptedInOrder`: a task of an earlier stage that is delivered again after a later one was
  accepted is refused, through a view of the Job that lags.
* `ReservedIsAccounted`: whatever fails, and also when two completions block each other, a
  reserved run is confirmed or its task lies in the dead letter queue.
* `ImplementsGate`: every step of the detailed deployment is a step of `ApplyGate` or none.
* `DeployedCommitIsStoredPatch`: a redelivered remediation may open the pull request of
  another patch than the stored one, but no deployment is made of it.
* `NoRetroactiveSuppression`: exceptions are read at another moment than findings.
* `ApprovalIsTheRegistry`, `ProfilesHoldApprovedRules`: two reviewers at once, and a
  publication that overlaps an approval and a deletion.
* `ResultsAreOfOneDelivery`, `DriftIsOfStoredVerdicts`: overlapping deliveries never mix
  within a resource, nor at all in an initial Assessment.
* `VerificationMeasuresTheSame`, `ComparisonStands`: what is compared is comparable, and the
  answer does not change.
* `ListsAreComplete`: an absence that reads as compliance is real.

## 5. Fairness

`Sweeping` (outbox): the schedule runs the sweeper every minute, so an indexed entry is
picked up again and again (WF on `Sweep`); a send and a status update that are tried for
ever go through once (SF); indexes catch up; SQS delivers a visible message, and a received
one is settled by its visibility timeout at the latest. Nothing is assumed of the request
that commits a stage, and any process may stop.

`Delivering` (deployment): the views catch up, SQS and EventBridge deliver what their limits
still allow, and an invocation ends, one way or the other, by its timeout. This is weak fairness
of one disjunction, and enough, because the limits make every behaviour finite. Nothing is assumed
to succeed and nothing is redriven: an invocation may fail whenever a fault is left, and the budget
of faults is what `SuccessIsConfirmed` is relative to; `ReservedIsAccounted` holds for any budget
that was tried. No fairness is assumed of humans, of GitHub finishing a run,
or of the branch and the state.

`Fairness` (remediation): SQS delivers a queued task or dead-letters it, the index catches
up, and an invocation goes on or stops (its timeout). Nothing is assumed of merges.

## 6. Proofs

Checked by TLAPS for every value of the constants. Every safety and action property of a
passing run is a theorem.

`WorkflowOutboxProofs`, from `BoundsAssumption`:

* `TypeInvariant`, `TypeCorrect`. `TypeOK` is not inductive: that a dispatching process or a
  message in the queue holds a real task, and that an open Job has not passed its last
  stage, is what later types rest on. `TypeInv` adds these.
* `PendingStaysIndexed`, of `PendingIsIndexed`, which no run checks: inductive relative to `TypeInv`.
* `AcceptedInOrderHolds`: every acceptance, a first one or that of a redelivery, is of a task
  no older than any accepted before it. `OnlyAcceptAccepts` says which step accepts a message;
  `StartedIsSeen`, that no accepted task is ahead of the view of the Job, nor the view ahead of
  the Job. It rests on a view that may lag but does not go back.
* `UnsentStaysRecoverable`, `NothingLostSilently`: for `MaxRevision = 0`, from
  `SentIsAccounted` (a task that was sent is in a message, handled or dead) and
  `DispatchedWasSent` (an entry is DISPATCHED, and a process about to mark it, only after
  the send). The second needs that there is one task: with two stages it fails, which is what
  `OutboxLost` shows.

`DeploymentProofs`, from `DeploymentAssumption`:

* `TypeInvariant`, `TypeCorrect`: `TypeInv` adds that an invocation between two steps holds
  the plan and the run it loaded.
* `ApprovalInvariant`, `OnlyApprovedRuns`: plan and approval are written once and an approval
  is of a READY stored plan; hence whatever a worker loaded is still the approved plan when it
  dispatches, however late.
* `AppliedOnce`: every run carries the one stored serial, and a successful run has moved the
  state beyond it, so the check of a second run fails.
* `OnlySuccessIsVerified`: the conclusion, commit and digest of a concluded run do not change
  after the re-read, nor does the approval.
* `RejectedForGood`: the Job of a rejected deployment is CANCELLED, and no transition leaves
  CANCELLED.
* `LinkIsVerified`: a linked verification follows a VERIFIED Event, which is written before
  the transaction that links it, and an Event item is never taken back.
* `FactsStay`: action by action, from the conditions of the writes and the types.
* `StatusOnlyAdvances`: the status is derived from several items, so that it never goes back
  rests on how they fit together. `ChainInvariant` says it: besides the invariants above, a Job
  that was not rejected is QUEUED or RUNNING (`JobInv`: no other transition of the modelled
  code closes it), it is in its first step until there is a plan, and a completion reserves
  existing runs only.

* `DeploymentImplementsGate`, with `GateAssumption` (`NoHash`, the code's None, is no plan and
  no run). Each action that the gate sees has a lemma that says which step of `ApplyGate` it is;
  one lemma covers the others. They use `GateInv`, which is `ChainInv` with the invariants of
  `AppliedOnce` and `RejectedForGood`, because the gate runs, applies and confirms under
  conditions that no single action of the code checks.

`RemediationWorkProofs`, from `ReceivesAreBounded` and `MarkersAreDistinct` (the placeholder of
an absent fact is no item, patch or branch):

* `WorkInvariant`, the inductive `WorkInv`: `RecordInv` (a patch is the result of a patching
  remediation only, and a queued task has a stored remediation), `WorkerInv` (an invocation is
  in the branch of `handle` its stored action leads to, and the patch it holds has stored bytes
  and, while it writes files, a branch), `PullInv` (a branch holds files of its patch, what is
  merged is all of it). The branch and the bytes are named by the patch's digest, so deliveries
  that propose different patches meet only where they agree: that is why the property holds
  of any interleaving.
* `PullsAreWhole` is part of it; `DeployedIsStored` follows from `PullInv`. `TypeCorrect` needs
  `CountInv` besides: the Job of a stored remediation exists and fails at most once.

`RemediationRequestsProofs`, from `OutcomesAreStatuses`, `RequestBounds` (no verdict is no
commit) and `NonesAreDistinct` (absent codes, verdicts and ids are none of the real ones):

* `RequestInvariant`, the inductive `RequestInv`. A query answers with a prefix of what is stored
  (`QueriesArePrefixes`), every prefix has one newest occurrence (`OccurrenceInv`) and every set
  of exceptions a first (`ExceptionInv`): both choices of the code are modelled by CHOOSE, and
  the proof must show that there is something to choose. `CallInv`: what a request read is of a
  stored occurrence, and what it decided is `Grounded` in stored occurrences and exceptions,
  which stay stored.
* `SuppressionIsApproved`, `SyncedCommitIsJudged`, `PatchedCommitIsJudged`: the decision that is
  stored is the one the request held. `RequestTypes` states the types.

`AssessmentRunProofs`, from `RulesAreListed`, `ConfigurationsAreSound` (a configuration lists its
resources and names a rubric, which is what its parser requires), `DeliveriesAreBounded`,
`DeployedIsConfigured`, `RulesGovernBothPhases`, `IsAskedAtLeastOnce` and
`EveryAttemptIsAnswered`:

* `RunInvariant`, the inductive `RunInv`. `StoreAgrees` or `ResultsAreOfOneDelivery` alone is
  far from inductive: a delivery stores its results in several transactions, other deliveries
  do the same, and each transaction is conditioned only on the coordinates it writes. The
  strengthening rests on three facts. A plan holds *all* coordinates of the resources it names
  (`PlanInv`), so any two deliveries agree on which coordinate of a resource comes first
  (`FirstOf`), whatever configuration they read. A result is stored only by the delivery that
  stored that first coordinate (`ResultInv`, `IsBegun`), and in a first Assessment only by
  the one that stored the first coordinate of the plan. And what a worker has yet to store
  continues what its delivery has stored (`WorkerInv`): either the batch begins with the first
  coordinate, so that it fails as a whole when another delivery was there, or the first
  coordinate is its own.
* `CountInv` and `FindingInv` tie counter and findings to the results; `DriftIsOfStoredVerdicts`
  is inductive together with `IsBatch`, by which a drift verdict is drawn from results that are
  stored or come earlier in the same batch.
* `AssessmentTypes`, `StoreAgreement`, `OneDelivery`, `StoredDrift` are consequences.
  `WholeScores`: late views hold a subset of the results, and the counter is the number of all,
  so a page without a result is not covered. `SameMeasure`, `ComparisonStays`: the verification
  plan is the initial one, all results carry the pinned rubric, and neither grows after it is
  complete.

`EvidenceReadingProofs`, from `OrdersAreLists` (identifiers are unique), `PartsHaveAReader` (the
four adapters and the classes of parts each of them reads), `LimitsAreNatural`,
`AccountsAreOfResources` and `NoneIsNoOperation`:

* `ReadingInvariant`, the inductive `ReadingInv`. That nothing is overlooked is a fact about
  calls still to be made. `PartsAreRead`: a part that is not noted is missing, was missing at
  some moment of the operation, or a call on the agenda reads it. `PagesAreRead`: a resource of
  the kind listed that existed all along is listed, or the next page begins before it. `NotedInv`:
  what is noted was true at some moment, and what is only named has a call that asks for
  its value. `AgendaInv`: the calls are about resources of the operation, and a page or a question
  for values can only be the next one. `WorldInv` ties the history to the account and the branch.
* The page token is a position in the list's order, so `PageHoldsWhatFollows` needs that
  `Selected` keeps the order of what it selects from (`SelectedOrder`).
* `AnswerPreserves` and `PagePreserves` say once what an answer must do; each adapter's call is
  shown to be such an answer, whatever changed since the call before it.
* `ViewsWitnessed` and `ListsComplete` are the invariant of an empty agenda; `OneCommit` follows
  from `CommitInv`, which is about the documents still to be read too.

`SequenceLemmas` has the facts on which these rest: the library's induction theorems take an
operator as a parameter and cannot be cited here, so induction over numbers is derived, first
order, from the least number of a set (`LeastNumber`, from the well-foundedness of the natural
numbers), and with it what `Selected` and `FlattenSeq` return, and in which order.

`PolicyProofs`, for any documents, requests, workers, replies of the model and profiles, from
`CatalogIsSound` (the validators of the catalog's contract), `ReceivesAreLimited` and
`NoItemIsAbsent` (the placeholder of an absent item is no item):

* `TypeInvariant`: `TypeInv` gives every request the fields its step has, and confines what
  is stored to outcomes of the extraction. `ItemsAreTyped` adds `ItemsInv`: who is named as a
  reviewer has confirmed, an approval that would add nothing ends before its transaction, and
  a pointer is moved with the version it names.
* `RegisteredAreExecutable`: `OutcomesAreSound` (what a run may yield is of a requirement the
  contract admits) and `AcceptedAreExecutable` (what the builder accepts of those can be run,
  under any sound catalog).
* `PolicyInvariant`, the inductive `PolicyInv`. A publication reads an approval's ids and the
  stored candidates apart, so three facts tie them together: candidates of one id are equal
  (`RuleIdsAreKeys`, from `ChildrenAreKeyed`), every approved id has a stored and registered
  candidate (`ApprovedAreStored`), and a deletion takes the record, then the approval, then
  the children (`DeletionsAreOrdered`), so that no approval outlives its candidates.
  `SelectionsAreOffered` carries this over the steps of an approval and
  `PublicationsAreRegistered` over those of a publication.
* `ProfilesAreApproved`, `ApprovalsAreRegistered` follow from it; `NothingIsOverwritten` from
  the types alone, the conditions of the transaction being what keeps it.
* `OfferedAreComplete`: counting children is enough because the run of a READY manifest stays
  stored while the document stands (`ReadyRunsAreStored`) and a finite set that holds another
  of its size is that set.

Only model-checked: the liveness properties `EventuallyDispatched`, `EventuallySettled`,
`SuccessIsConfirmed`, `ReservedIsAccounted` and `EventuallyAnswered`: fairness and ENABLED are out of the prover's
reach. Not proved are also the assumptions about the constants that the product fixes (catalog,
views, profile): TLC evaluates them on the real entries or on the instance. What the recursive
definitions of the JSON paths compute is checked on the instance only.

## 7. Where code and documentation disagree

Three runs TLC finds violated, each with a finding and its quotation in `PROJECT.json`:

* `OutboxLost`: the outbox promises that what was not sent stays PENDING. There is one entry
  per Job, and the update is conditioned on its status only, so the late mark of one stage
  marks the unsent task of the next.
* `DeploymentNullLink`: the transaction that starts the verification fails against the NULL
  link, and the caller takes that for a lost race.
* `AssessmentRedelivery`: a stored result counts as the same only with its own delivery's
  time, so a delivery that stops after its first result leaves an Assessment no later one
  can complete.

Further statements of documents and comments that the code does not keep. Each is a
definition of the module, and TLC refutes it when it is added to the named configuration as
INVARIANT or PROPERTY:

| Statement | Where it is made | What the code does |
|---|---|---|
| `Deployment.OneRunPerApproval` (`DeploymentSafety.cfg`) | ADR-0019:309, "같은 approval로 두 번째 apply run이 만들어지지 않는다" | a redelivered PLAN_COMPLETED dispatches again (`deployment/worker.py:300`) |
| `Deployment.SettledIsReserved` (`DeploymentSafety.cfg`) | `repositories/deployment_completion.py:128`, "어느 쪽이든 예약은 이미 있으므로 중복으로 보고 호출자가 흡수한다" | a completion whose Job moved in between is absorbed though its run was never reserved (`deployment/completion.py:129`) |
| `Deployment.RejectedIsUnapplied` (`DeploymentSafety.cfg`) | ADR-0019:274, "사람 거절 \| `WAITING_APPROVAL → REJECTED` \| terminal" | a rejection is possible after the apply (`api/deployments.py:200`) |
| `DeploymentDelivery.ConfirmedIsVerified` (`DeploymentProgress.cfg`) | `deployment/worker.py:337`, "여기까지 온 재시도는 starter가 이미 시작된 Assessment id를 돌려주어 흡수된다" | a VERIFIED Event is no longer a run reference, so a worker that stops after confirming leaves a deployment no retry goes on with (`repositories/deployment_work.py:192`) |
| `DeploymentDelivery.FailureIsReviewed` (`DeploymentProgress.cfg`) | ADR-0019:275, "apply 실패·불명확 \| `APPLYING → MANUAL_REVIEW` \| 자동 재시도하지 않는다" | the conclusion of a failed run is stored nowhere (`deployment/worker.py:369`) |
| `RemediationWork.ConsumedIsAnswered` (`RemediationSafety.cfg`) | `remediation/failure.py:95`, "적을 record가 없고, 재시도해도 생기지 않는다" | a lagging index hides the Job of a stored remediation; its task is consumed |
| `RemediationWork.FailureIsOnTheRecord` (`RemediationSafety.cfg`) | `remediation/failure.py:13`, "기록은 두 곳에 남는다" | after a stored result the failure goes to the Job alone |
| `RemediationWork.PullIsOfStoredPatch` (`RemediationSafety.cfg`) | `remediation/worker.py:164-165` | a redelivery generates another patch and opens its pull request |
| `PolicyProfiles.PublishedDocumentsStand` (`PolicySafety.cfg`) | `repositories/policy_ingestion.py:376`, "막는 것은 승인 record의 존재가 아니라 현재 게시된 Profile의 참조다" | a publication loaded before the deletion goes through after it |
| `PolicyProfiles.ReadyRunsStayReviewable` (`PolicySafety.cfg`) | `repositories/policy_approval.py:729`, "worker는 at-least-once다. 같은 내용이면 재시도로 흡수하고" | a redelivery to which the model answers differently adds children to a READY run, whose count then disagrees for ever |

Differences met while reading, stated here only:

* `_resolution` answers None for a finding that was MANUAL_REVIEW or INSUFFICIENT_EVIDENCE
  and is PASS afterwards; ADR-0020:96-99 calls it RESOLVED.
* `runner.py:9`, `:170` and `drift.py:44-46` say that EXECUTION_ERROR is not counted as
  complete; `coverage.py` counts it.
* A contention in which nothing was stored is reported as ImmutableEvaluationResultConflict.
* A verification plan of MANUAL rules only raises "assessment resolves no approved resources".
* The snapshot tool does not read the field by which GitHub says that a tree is truncated.

## 8. Not modelled, and why

* API routing, customer scope and authorization: every operation is modelled for one
  authorised customer. User administration (`api/users.py`) keeps its state in Cognito, which
  has no conditional writes: an account is made by three calls and undone by a fourth, and the
  list of a user's profiles is read, then written. Nothing of the modelled parts reads it.
* Audit and observability: append-only items written in transactions that are modelled, and
  read-only queries. Text parsers of documents: a choice of the resulting status.
* The registry that loads rule files at start-up, the bootstrap of the table, operator
  baselines and legacy candidate records (`record_candidate_extraction`), the legacy resource
  selector and legacy plans without a counter in the Assessment worker.
* Cached credentials and tokens (`github_app_token.py`), the agent graph, S3 evidence objects.
* The sweeper's page limit and several Jobs in one index; the plan workflow's own steps.
* Offline evaluation and benchmarks, frontend, templates, packaging: they keep no state the
  program reads.

## 9. Plan

1. Theorems about the pure operators of `AssessmentEvaluation`, `AssessmentReports` and
   `EvidenceRules`: what a verdict, a drift result and a comparison mean for every input.
2. The sweeper's page limit, with several Jobs in one index.

------------------------- MODULE RemediationRequests -------------------------
(***************************************************************************)
(* From a Finding to a stored remediation: the request a person makes      *)
(* (apps/backend/api/remediations.py), the evidence it reads in two        *)
(* separate reads (apps/backend/repositories/remediation_context.py), the  *)
(* exceptions it lists (apps/backend/repositories/remediation.py) and the  *)
(* transaction that stores the decision, while further Assessments of the  *)
(* same violation and further exceptions are stored.                       *)
(*                                                                         *)
(* One violation (resource, rule, perspective) keeps its finding_id across *)
(* Assessments; each Assessment that finds it stores an occurrence and the *)
(* evaluation results beside it.                                           *)
(***************************************************************************)
EXTENDS RemediationPolicy, Sequences, SequencesExt

CONSTANTS
    Requests,       \* calls of create_remediation, each with its remediation_id
    Rules, Resource, \* the coordinates of the violation
    Outcomes,       \* what an Assessment may conclude: [status, iac] of the finding
    Commits,        \* commits of the customer's repository
    MaxTime,        \* bound on the clock
    MaxAssessments, \* bound on the Assessments that find the violation
    MaxExceptions,  \* bound on the exceptions registered
    NoRecord        \* a remediation that is not stored, a value not read

ASSUME OutcomesAreStatuses ==
    Outcomes \subseteq [status : FindingStatus, iac : VerdictStatus \cup {NoVerdict}]

ASSUME RequestBounds == NoVerdict \notin Commits /\ MaxTime \in Nat

VARIABLES
    rule, perspective,  \* the rule and the perspective of the violation
    now,            \* the clock
    occurrences,    \* stored occurrences of the finding, in storage order
    exceptions,     \* registered exceptions, in storage order
    request,        \* what each call has read so far
    record          \* the stored REMEDIATION items

violation == <<rule, perspective>>

vars == <<violation, now, occurrences, exceptions, request, record>>

Idle == [pc |-> "idle", context |-> NoRecord, target |-> NoRecord,
         at |-> 0, decision |-> NoRecord]

Init ==
    /\ rule \in Rules
    /\ perspective \in Perspectives
    /\ now = 0
    /\ occurrences = <<>>
    /\ exceptions = <<>>
    /\ request = [q \in Requests |-> Idle]
    /\ record = [q \in Requests |-> NoRecord]

----------------------------------------------------------------------------
(* The environment: time, Assessments, exceptions *)

(* The verdicts stored beside an occurrence: the finding's own perspective  *)
(* is always there, a DRIFT finding has both machine perspectives.          *)
MayStore(o) ==
    /\ perspective = "IAC" => o.iac = o.status
    /\ perspective = "DRIFT" => o.iac # NoVerdict
    /\ perspective = "MANUAL" => o.status = "MANUAL_REVIEW"

Tick ==
    /\ now < MaxTime
    /\ now' = now + 1
    /\ UNCHANGED <<violation, occurrences, exceptions, request, record>>

(* An Assessment evaluates at one moment and stores its results later. *)
StoreOccurrence ==
    /\ Len(occurrences) < MaxAssessments
    /\ \E evaluatedAt \in 0..now, commit \in Commits, outcome \in Outcomes :
           /\ MayStore(outcome)
           /\ occurrences' = Append(occurrences,
                  [evaluatedAt |-> evaluatedAt, commit |-> commit,
                   status |-> outcome.status, iac |-> outcome.iac])
    /\ UNCHANGED <<violation, now, exceptions, request, record>>

(* RemediationExceptionApiService.create: approved at the moment of the call. *)
CreateException ==
    /\ Len(exceptions) < MaxExceptions
    /\ \E resource \in {Resource, NoResource}, expiresAt \in now..(MaxTime + 1) :
           LET e == [id |-> Len(exceptions) + 1, rule |-> rule, resource |-> resource,
                     approvedAt |-> now, expiresAt |-> expiresAt]
           IN  /\ ValidException(e)
               /\ exceptions' = Append(exceptions, e)
    /\ UNCHANGED <<violation, now, occurrences, request, record>>

----------------------------------------------------------------------------
(* create_remediation *)

(* _current_occurrence: the newest evaluation; of two at one moment, the    *)
(* later Assessment.                                                        *)
Newer(o, p, i, j) ==
    \/ o.evaluatedAt > p.evaluatedAt
    \/ o.evaluatedAt = p.evaluatedAt /\ i > j

CurrentOccurrence(seen) ==
    CHOOSE i \in DOMAIN seen :
        \A j \in DOMAIN seen \ {i} : Newer(seen[i], seen[j], i, j)

(* A query that is not a consistent read answers with a version of the past. *)
PastVersions(stored) == {SubSeq(stored, 1, k) : k \in 1..Len(stored)}

FindingOf(o) ==
    [rule |-> rule, resource |-> Resource, perspective |-> perspective,
     status |-> o.status, commit |-> o.commit, evaluatedAt |-> o.evaluatedAt]

TargetOf(o) ==
    [managed |-> TRUE, iac |-> o.iac,
     iacCommit |-> IF o.iac = NoVerdict THEN NoVerdict ELSE o.commit]

(* get_context: the finding and the snapshot of its commit. *)
ReadContext(q) ==
    /\ request[q].pc = "idle"
    /\ \E seen \in PastVersions(occurrences) :
           request' = [request EXCEPT ![q].pc = "context",
                                      ![q].context = FindingOf(seen[CurrentOccurrence(seen)])]
    /\ UNCHANGED <<violation, now, occurrences, exceptions, record>>

(* get_target reads the finding again; the clock is read after it. *)
ReadTarget(q) ==
    /\ request[q].pc = "context"
    /\ \E seen \in PastVersions(occurrences) :
           request' = [request EXCEPT ![q].pc = "target", ![q].at = now,
                                      ![q].target = TargetOf(seen[CurrentOccurrence(seen)])]
    /\ UNCHANGED <<violation, now, occurrences, exceptions, record>>

(* list_exceptions, then the decision of the policy. *)
DecideRequest(q) ==
    /\ request[q].pc = "target"
    /\ request[q].context.evaluatedAt <= request[q].at
    /\ \E listed \in PastVersions(exceptions) \cup {<<>>} :
           request' = [request EXCEPT
               ![q].pc = "decided",
               ![q].decision = Decide(request[q].context, request[q].target,
                                      request[q].at, ToSet(listed))]
    /\ UNCHANGED <<violation, now, occurrences, exceptions, record>>

(* record_remediation_decision, or create_remediation_workflow with its Job. *)
StoreDecision(q) ==
    /\ request[q].pc = "decided"
    /\ record[q] = NoRecord
    /\ record' = [record EXCEPT ![q] =
           [finding |-> request[q].context, decision |-> request[q].decision,
            decidedAt |-> request[q].at, hasJob |-> IsActionable(request[q].decision)]]
    /\ request' = [request EXCEPT ![q].pc = "done"]
    /\ UNCHANGED <<violation, now, occurrences, exceptions>>

RequestStep(q) == ReadContext(q) \/ ReadTarget(q) \/ DecideRequest(q) \/ StoreDecision(q)

Next ==
    \/ Tick
    \/ StoreOccurrence
    \/ CreateException
    \/ \E q \in Requests : RequestStep(q)

Spec == Init /\ [][Next]_vars

----------------------------------------------------------------------------
(* Properties *)

Stored == {q \in Requests : record[q] # NoRecord}

(* Every stored value satisfies the checks its contract makes. *)
RequestsTypeOK ==
    /\ rule \in Rules /\ perspective \in Perspectives
    /\ now \in 0..MaxTime
    /\ \A e \in ToSet(exceptions) : ValidException(e)
    /\ \A q \in Requests :
           /\ request[q].pc \in {"idle", "context", "target", "decided", "done"}
           /\ request[q].target = NoRecord \/ ValidTarget(request[q].target)
           /\ request[q].decision = NoRecord \/ ValidDecision(request[q].decision)

(* A violation is suppressed only by an exception somebody had approved     *)
(* before the violation was evaluated and that was still in force when the  *)
(* remediation was decided, whatever was registered while the call ran.     *)
NoRetroactiveSuppression ==
    \A q \in Stored :
        LET r == record[q] IN
        r.decision.action = "SUPPRESSED" =>
            \E i \in DOMAIN exceptions :
                /\ exceptions[i].id = r.decision.exception
                /\ exceptions[i].approvedAt <= r.finding.evaluatedAt
                /\ r.decidedAt < exceptions[i].expiresAt

(* The commit an ACTUAL_SYNC deploys is one whose IaC an Assessment judged  *)
(* to pass, although finding and verdict come from two reads.               *)
SyncedCommitPassed ==
    \A q \in Stored :
        record[q].decision.action = "ACTUAL_SYNC" =>
            \E i \in DOMAIN occurrences :
                /\ occurrences[i].commit = record[q].finding.commit
                /\ occurrences[i].iac = "PASS"

(* A patch is written only onto a commit whose IaC an Assessment judged to  *)
(* fail, and only for a rule that may be patched without a person.          *)
PatchedCommitFailed ==
    \A q \in Stored :
        record[q].decision.action = "TERRAFORM_PATCH" =>
            /\ rule \in AutomaticRules
            /\ \E i \in DOMAIN occurrences :
                   /\ occurrences[i].commit = record[q].finding.commit
                   /\ occurrences[i].iac = "FAIL"

=============================================================================

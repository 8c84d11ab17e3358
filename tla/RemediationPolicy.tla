-------------------------- MODULE RemediationPolicy --------------------------
(***************************************************************************)
(* What may happen to one Finding (apps/backend/policy/remediation.py), the *)
(* contract values it is decided from (packages/contracts/remediation*.py) *)
(* and the deterministic bounds on a proposed Terraform change             *)
(* (apps/backend/remediation/terraform_change.py, bedrock.py).             *)
(*                                                                         *)
(* Everything is one customer's: every read and write is inside the        *)
(* partition of the caller's customer.  A rule is a rule_id with its       *)
(* version.  A finding is [rule, resource, perspective, status, commit,    *)
(* evaluatedAt]; times are naturals.  A document or a change set maps      *)
(* paths to file bodies [text, blocks], blocks being the resource headers. *)
(***************************************************************************)
EXTENDS Naturals, FiniteSets

CONSTANTS
    AutomaticRules,     \* rules whose committed scope is AUTOMATIC
    ManualOnlyRules,    \* rules whose committed scope is MANUAL_ONLY
    NoResource,         \* an exception for the whole rule (resource_id None)
    NoException,        \* exception_id None
    NoCode,             \* manual_review_code None
    NoVerdict           \* iac_status None, with its perspective and its commit

ASSUME ScopesAreExact == AutomaticRules \cap ManualOnlyRules = {}

Perspectives == {"IAC", "AWS_ACTUAL", "DRIFT", "MANUAL"}

FindingStatus == {"FAIL", "MANUAL_REVIEW", "INSUFFICIENT_EVIDENCE"}

VerdictStatus == FindingStatus \cup {"PASS", "OUT_OF_SCOPE", "EXECUTION_ERROR"}

Actions == {"TERRAFORM_PATCH", "ACTUAL_SYNC", "MANUAL_REVIEW", "SUPPRESSED"}

IsActionable(decision) == decision.action \in {"TERRAFORM_PATCH", "ACTUAL_SYNC"}

ManualReviewCodes ==
    {"RULE_NOT_IN_SCOPE", "RULE_MANUAL_ONLY", "RESOURCE_NOT_IAC_MANAGED",
     "IAC_OUTCOME_UNKNOWN", "IAC_VERDICT_COMMIT_MISMATCH", "INSUFFICIENT_EVIDENCE",
     "EVALUATION_REQUIRES_REVIEW"}

(* None is no code, no action, no status and no id.                         *)
ASSUME NonesAreDistinct ==
    /\ NoCode \notin ManualReviewCodes \cup Actions
    /\ NoVerdict \notin VerdictStatus
    /\ NoException \notin Nat

(* RemediationDecision.__post_init__: a code exactly on a manual review, an *)
(* exception exactly on a suppression.                                      *)
ValidDecision(d) ==
    /\ d.action \in Actions
    /\ (d.action = "MANUAL_REVIEW") <=> (d.code \in ManualReviewCodes)
    /\ (d.action # "MANUAL_REVIEW") <=> (d.code = NoCode)
    /\ (d.action = "SUPPRESSED") <=> (d.exception # NoException)

(* RemediationTarget.__post_init__: the verdict and its commit come together. *)
ValidTarget(t) ==
    /\ t.managed \in BOOLEAN
    /\ (t.iac = NoVerdict) <=> (t.iacCommit = NoVerdict)
    /\ t.iac \in VerdictStatus \cup {NoVerdict}

(* RemediationException.__post_init__: every exception expires. *)
ValidException(e) == e.approvedAt < e.expiresAt

----------------------------------------------------------------------------
(* Exceptions *)

Covers(e, finding) ==
    /\ e.rule = finding.rule
    /\ e.resource \in {NoResource, finding.resource}

(* Mutated form of InForceFor: one moment instead of two. *)
ActiveAt(e, evaluatedAt, at) == e.approvedAt <= at /\ at < e.expiresAt

InForceFor(e, evaluatedAt, at) == e.approvedAt <= evaluatedAt /\ at < e.expiresAt

(* select_in_force_exception: a resource's own exception before the rule's, *)
(* then by id.                                                              *)
Precedes(e, o) ==
    IF (e.resource = NoResource) = (o.resource = NoResource)
    THEN e.id <= o.id
    ELSE o.resource = NoResource

InForce(exceptions, finding, at) ==
    {e \in exceptions : Covers(e, finding) /\ InForceFor(e, finding.evaluatedAt, at)}

SelectException(exceptions, finding, at) ==
    CHOOSE e \in InForce(exceptions, finding, at) :
        \A o \in InForce(exceptions, finding, at) : Precedes(e, o)

----------------------------------------------------------------------------
(* RemediationPolicy.decide *)

InScope(rule) == rule \in AutomaticRules \cup ManualOnlyRules

(* Mutated form of IsStaleVerdict: the commit of the verdict is not compared. *)
NeverStale(finding, target) == FALSE

IsStaleVerdict(finding, target) ==
    /\ finding.perspective # "IAC"
    /\ target.iac # NoVerdict
    /\ target.iacCommit # finding.commit

(* Mutated form of Proposed: an unknown verdict is read as a failing one. *)
ProposedUnlessPassing(finding, target) ==
    IF finding.perspective # "IAC" /\ target.iac = "PASS" THEN "ACTUAL_SYNC"
    ELSE "TERRAFORM_PATCH"

(* _proposed_action; NoCode stands for None, an unknown verdict. *)
Proposed(finding, target) ==
    CASE finding.perspective = "IAC" \/ target.iac = "FAIL" -> "TERRAFORM_PATCH"
      [] finding.perspective # "IAC" /\ target.iac = "PASS" -> "ACTUAL_SYNC"
      [] OTHER -> NoCode

(* Mutated form of ManualReason: the unknown verdict has no reason of its own. *)
ManualReasonUnlessUnknown(finding, target) ==
    IF finding.perspective = "MANUAL" \/ finding.status # "FAIL"
    THEN "EVALUATION_REQUIRES_REVIEW"
    ELSE NoCode

(* Why the policy leaves a finding to a person, in the order it asks. *)
ManualReason(finding, target) ==
    IF finding.perspective = "MANUAL" THEN "EVALUATION_REQUIRES_REVIEW"
    ELSE IF finding.status = "INSUFFICIENT_EVIDENCE" THEN "INSUFFICIENT_EVIDENCE"
    ELSE IF finding.status # "FAIL" THEN "EVALUATION_REQUIRES_REVIEW"
    ELSE IF ~InScope(finding.rule) THEN "RULE_NOT_IN_SCOPE"
    ELSE IF ~target.managed THEN "RESOURCE_NOT_IAC_MANAGED"
    ELSE IF IsStaleVerdict(finding, target) THEN "IAC_VERDICT_COMMIT_MISMATCH"
    ELSE IF Proposed(finding, target) = NoCode THEN "IAC_OUTCOME_UNKNOWN"
    ELSE IF Proposed(finding, target) = "TERRAFORM_PATCH" /\ finding.rule \in ManualOnlyRules
         THEN "RULE_MANUAL_ONLY"
    ELSE NoCode

Decide(finding, target, at, exceptions) ==
    IF InForce(exceptions, finding, at) # {}
    THEN [action |-> "SUPPRESSED", code |-> NoCode,
          exception |-> SelectException(exceptions, finding, at).id]
    ELSE IF ManualReason(finding, target) # NoCode
    THEN [action |-> "MANUAL_REVIEW", code |-> ManualReason(finding, target),
          exception |-> NoException]
    ELSE [action |-> Proposed(finding, target), code |-> NoCode, exception |-> NoException]

----------------------------------------------------------------------------
(* The bounds on a patch *)

(* removed_resource_blocks: what a repair request may name. *)
DropsBlocks(document, changes) ==
    \E path \in DOMAIN changes \cap DOMAIN document :
        ~(document[path].blocks \subseteq changes[path].blocks)

(* Mutated form of ValidChanges: a file may lose its resource blocks. *)
ChangesKnownFiles(document, changes) ==
    /\ DOMAIN changes # {} /\ DOMAIN changes \subseteq DOMAIN document
    /\ \A path \in DOMAIN changes : changes[path] # document[path]

(* validate_terraform_changes: existing files, really altered, every block kept. *)
ValidChanges(document, changes) ==
    /\ DOMAIN changes # {} /\ DOMAIN changes \subseteq DOMAIN document
    /\ \A path \in DOMAIN changes :
           /\ changes[path] # document[path]
           /\ document[path].blocks \subseteq changes[path].blocks

(* BedrockPatchGenerator._bound_changes: the answers that lead to a patch.  *)
(* Only an answer that drops blocks is asked again, and only once.          *)
Accepted(document, first, second) ==
    IF ValidChanges(document, first) THEN {first}
    ELSE IF DropsBlocks(document, first) /\ ValidChanges(document, second) THEN {second}
    ELSE {}

=============================================================================

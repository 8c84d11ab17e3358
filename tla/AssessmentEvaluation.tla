------------------------ MODULE AssessmentEvaluation ------------------------
(***************************************************************************)
(* The answers an Assessment computes and does not store anywhere else:    *)
(* which coordinates a rule has (assessment/execution_plan.py), what an    *)
(* Actual read proves (actual_evaluator.py), what drift is (drift.py),     *)
(* what becomes a finding, when a readiness score exists (readiness.py),   *)
(* whether a plan resolves a finding (remediation/readiness.py), and what  *)
(* became of a finding after a deployment (comparison.py).                 *)
(*                                                                         *)
(* A rule is a record                                                      *)
(*   name, type (its evaluation type, "NONE" for a legacy rule),           *)
(*   types (the resource types it governs), phases, severity,              *)
(*   control, required, optional (the control it implements, and the       *)
(*   evidence capabilities it requires and may use), rubric (it carries    *)
(*   one) and sources (the places in policy documents it rests on).        *)
(* A verdict is a record of a status and of who decided it.                *)
(***************************************************************************)
EXTENDS EvidenceRules, ModelReplies

Perspectives == {"IAC", "AWS_ACTUAL", "MANUAL", "DRIFT"}

GovernanceType == "GOVERNANCE"

\* What the contract admits as a rule (packages/contracts/policy.py).
SoundSemantics(rule) ==
    CASE rule.type = "NONE" ->
            /\ rule.control = NoControlKey /\ ~rule.rubric
            /\ rule.required = {} /\ rule.optional = {}
      [] rule.type = "MANUAL" ->
            rule.control # NoControlKey /\ rule.required = {} /\ rule.optional = {}
      [] OTHER ->
            /\ rule.control # NoControlKey /\ rule.rubric
            /\ rule.required # {} /\ rule.required \cap rule.optional = {}

SoundRule(rule) ==
    /\ rule.severity \in {"LOW", "MEDIUM", "HIGH", "CRITICAL"}
    /\ rule.phases # {} /\ rule.types # {} /\ rule.sources # {}
    /\ SoundSemantics(rule)

\* A profile names its rules, and perhaps the origin of every one of them.
SoundProfile(rules, segments) ==
    LET names == {r.name : r \in rules}
    IN  /\ names # {}
        /\ \A s, t \in segments : s.origin = t.origin => s = t
        /\ \A s \in segments : s.rules # {} /\ s.rules \subseteq names
        /\ segments # {} => UNION {s.rules : s \in segments} = names

-----------------------------------------------------------------------------
\* Which coordinates a rule has.

Evaluated ==
    [NONE   |-> {"IAC", "AWS_ACTUAL"}, IAC    |-> {"IAC"}, AWS |-> {"AWS_ACTUAL"},
     HYBRID |-> {"IAC", "AWS_ACTUAL"}, MANUAL |-> {"MANUAL"}]

IsDriftEligible(rule) == rule.type \in {"NONE", "HYBRID"}

\* The runners a worker has for a resource, and whether it compares them.
Runners(type) == IF type = GovernanceType THEN {"MANUAL"} ELSE {"IAC", "AWS_ACTUAL"}

PerspectivesFor(rule, type) ==
    LET evaluated == Evaluated[rule.type] \cap Runners(type)
    IN  evaluated \cup
        {p \in {"DRIFT"} : /\ type # GovernanceType
                           /\ IsDriftEligible(rule)
                           /\ Cardinality(evaluated) = 2}

IsApplicable(rule, phase, type) == phase \in rule.phases /\ type \in rule.types

-----------------------------------------------------------------------------
\* What one side of a coordinate is found to be.

ManualVerdict == Verdict("MANUAL_REVIEW", "CODE")

\* The Actual perspective: no evidence, no question to the model; declared
\* predicates for all of the evidence, no question to the model either.
ActualVerdict(rule, type, document, answer) ==
    CASE /\ ControlKeyOf(rule) # NoControlKey
         /\ HasEvidenceGap(rule, type, document) ->
            Verdict("INSUFFICIENT_EVIDENCE", "CODE")
      [] /\ ControlKeyOf(rule) # NoControlKey
         /\ ~HasEvidenceGap(rule, type, document) /\ IsDecidable(rule, type) ->
            Verdict(Decide(RequiredCapabilities(rule, type), document), "CODE")
      [] OTHER -> answer

\* What drift says of the two perspectives of one rule.
DriftVerdict(iac, actual) ==
    LET both == {iac.status, actual.status}
    IN  Verdict(
          CASE NoVerdict \in {iac, actual} -> "MANUAL_REVIEW"
            [] NoVerdict \notin {iac, actual} /\ "EXECUTION_ERROR" \in both ->
                  "EXECUTION_ERROR"
            [] both = {"OUT_OF_SCOPE"} -> "OUT_OF_SCOPE"
            [] both \in {{"PASS"}, {"FAIL"}} -> "PASS"
            [] both = {"PASS", "FAIL"} /\ iac.by = actual.by -> "FAIL"
            [] OTHER -> "MANUAL_REVIEW",
          "CODE")

IsFollowUp(verdict) ==
    verdict.status \in {"FAIL", "MANUAL_REVIEW", "INSUFFICIENT_EVIDENCE"}

-----------------------------------------------------------------------------
\* What is made of all the results of an Assessment.  Results are a function
\* from coordinates <<resource, rule name, perspective>> to records with a
\* verdict and a severity.

Weight == [LOW |-> 1, MEDIUM |-> 2, HIGH |-> 4, CRITICAL |-> 8]

NoScore == [points |-> 0, weight |-> 0, undetermined |-> 0, errored |-> 0]

WeightOf(results, coordinates) ==
    LET of(severity) ==
            Weight[severity] * Cardinality({c \in coordinates : results[c].severity = severity})
    IN  of("LOW") + of("MEDIUM") + of("HIGH") + of("CRITICAL")

\* A score exists once exactly the planned coordinates have a result.  It is
\* kept as the fraction points / weight.
Readiness(results, planned) ==
    LET With(statuses) ==
            {c \in DOMAIN results : results[c].verdict.status \in statuses}
        scored == {c \in DOMAIN results : c[3] \notin {"DRIFT", "MANUAL"}}
        judged == scored \cap With({"PASS", "FAIL"})
    IN  IF DOMAIN results # planned \/ judged = {} THEN NoScore
        ELSE [points       |->
                  ScoreOf("PASS") * WeightOf(results, judged \cap With({"PASS"}))
                      + ScoreOf("FAIL") * WeightOf(results, judged \cap With({"FAIL"})),
              weight       |-> WeightOf(results, judged),
              undetermined |-> Cardinality(scored \cap
                                  With({"INSUFFICIENT_EVIDENCE", "MANUAL_REVIEW"})),
              errored      |-> Cardinality(With({"EXECUTION_ERROR"}))]

\* The same for the rules of one kind of policy document.
SegmentReadiness(results, planned, names) ==
    LET ofKind(coordinates) == {c \in coordinates : c[2] \in names}
        mine == [c \in ofKind(DOMAIN results) |-> results[c]]
    IN  IF ofKind(planned) = {} THEN NoScore
        ELSE Readiness(mine, ofKind(planned))

-----------------------------------------------------------------------------
\* Whether a refreshed plan may be approved for a finding (readiness.py).

ReadinessReasons(rule, type, resource, plan) ==
    LET IfSo(condition, reason) == IF condition THEN {reason} ELSE {}
    IN  IfSo(~plan.refreshed, "PLAN_NOT_REFRESHED")
        \cup IfSo(resource \notin MappedResources(plan), "FINDING_RESOURCE_NOT_MAPPED")
        \cup IfSo(IsDestructive(plan), "DESTRUCTIVE_CHANGE_REQUIRES_MANUAL_REVIEW")
        \cup IfSo(/\ ControlKeyOf(rule) # NoControlKey
                  /\ DecideFromPlan(rule, type, resource, plan) = "FAIL",
                  "FINDING_UNRESOLVED_IN_PLAN")

DeploymentReadiness(rule, type, resource, plan) ==
    LET reasons == ReadinessReasons(rule, type, resource, plan)
    IN  CASE "DESTRUCTIVE_CHANGE_REQUIRES_MANUAL_REVIEW" \in reasons -> "MANUAL_REVIEW"
          [] reasons = {} -> "READY_FOR_APPROVAL"
          [] OTHER -> "BLOCKED"

-----------------------------------------------------------------------------
\* What became of a coordinate between an Assessment and its verification.
Resolution(before, after) ==
    CASE after.status = "OUT_OF_SCOPE" -> "NO_LONGER_APPLICABLE"
      [] after.status \in {"MANUAL_REVIEW", "INSUFFICIENT_EVIDENCE",
                           "EXECUTION_ERROR"} -> "INDETERMINATE"
      [] before.status = "FAIL" /\ after.status = "PASS" -> "RESOLVED"
      [] before.status = "FAIL" /\ after.status = "FAIL" -> "UNRESOLVED"
      [] before.status = "PASS" /\ after.status = "FAIL" -> "REGRESSED"
      [] OTHER -> "NONE"
=============================================================================

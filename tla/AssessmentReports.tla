--------------------------- MODULE AssessmentReports ---------------------------
(***************************************************************************)
(* What is read from an Assessment (apps/backend/assessment/reporting.py,  *)
(* coverage.py): its report and the page of it, the scope a verification   *)
(* takes from it (repositories/deployment_verification.py, assessment/     *)
(* verification.py) and the comparison with it (assessment/comparison.py). *)
(*                                                                         *)
(* plan is a sequence of coordinates; results and findings are functions   *)
(* from the coordinates that a query saw.  One profile version is pinned,  *)
(* so that it is the same for an Assessment and for its verification.      *)
(***************************************************************************)
EXTENDS AssessmentEvaluation

CONSTANTS
    Rules,       \* the rules of the pinned profile version, in its order
    Segments     \* its policy documents: [kind, origin, rules]

ASSUME ProfileIsSound ==
    /\ SoundProfile(ToSet(Rules), Segments)
    /\ \A r \in ToSet(Rules) : SoundRule(r)

\* A profile version lists its rules.
ASSUME RulesAreListed == Rules \in Seq(ToSet(Rules))

RuleNamed(name) == CHOOSE r \in ToSet(Rules) : r.name = name

-----------------------------------------------------------------------------
\* Findings, coverage and scores.

\* A finding repeats what its result says; its identity is the coordinate.
FindingOf(result) ==
    [at |-> result.at, severity |-> result.severity, status |-> result.verdict.status,
     run |-> result.run]

\* The counter is believed, unless it is zero and there are results: then
\* these are counted.
Coverage(plan, counter, results) ==
    [planned   |-> Len(plan),
     completed |-> IF counter = 0 THEN Cardinality(DOMAIN results) ELSE counter]

IsCovered(coverage) == coverage.completed = coverage.planned

RuleKinds(name) == {s.kind : s \in {t \in Segments : name \in t.rules}}

SourceKinds == {s.kind : s \in Segments}

NamesOfKind ==
    [kind \in SourceKinds |->
        {r.name : r \in {q \in ToSet(Rules) : kind \in RuleKinds(q.name)}}]

SegmentScores(results, planned) ==
    [kind \in SourceKinds |-> SegmentReadiness(results, planned, NamesOfKind[kind])]

NoSegments == [kind \in {} |-> NoScore]

\* The whole of it, as one query saw it.
Report(plan, counter, results, findings) ==
    [results  |-> results, findings |-> findings,
     coverage |-> Coverage(plan, counter, results),
     score    |-> Readiness(results, ToSet(plan)),
     segments |-> SegmentScores(results, ToSet(plan))]

\* A page of it: the plan was read consistently, and there are no scores
\* before the counter says that everything is there.
Page(plan, counter, results, findings) ==
    IF counter = Len(plan) THEN Report(plan, counter, results, findings)
    ELSE [results  |-> results, findings |-> findings,
          coverage |-> Coverage(plan, counter, results),
          score    |-> NoScore, segments |-> NoSegments]

-----------------------------------------------------------------------------
\* The scope of a verification.

RubricsIn(results) == {results[c].rubric : c \in DOMAIN results}

\* Every result of an Assessment was found by one rubric.
HasOneScope(results) == Cardinality(RubricsIn(results)) = 1

ObservedScope(results) == CHOOSE rubric \in RubricsIn(results) : TRUE

VerificationSource(plan, results) ==
    [rubric |-> ObservedScope(results), planned |-> ToSet(plan)]

\* The rules that apply after a deployment to at least one of the types.
VerificationRules(types) ==
    {r \in ToSet(Rules) : \E type \in types : IsApplicable(r, "POST_DEPLOY_VERIFICATION", type)}

VerificationRejection(source, rules) ==
    IF {c[2] : c \in source.planned} \subseteq {r.name : r \in rules}
    THEN "NONE" ELSE "PLANNED_RULE_NOT_APPLICABLE"

-----------------------------------------------------------------------------
\* The comparison of two whole reports.

IsWhole(plan, counter, results) ==
    /\ DOMAIN results # {}
    /\ DOMAIN results = ToSet(plan)
    /\ IsCovered(Coverage(plan, counter, results))
    /\ HasOneScope(results)

IneligibilityReasons(before, beforePlan, after, afterPlan) ==
    LET IfSo(condition, reason) == IF condition THEN {reason} ELSE {}
    IN  IfSo(before.score = NoScore, "SOURCE_READINESS_UNAVAILABLE")
        \cup IfSo(after.score = NoScore, "VERIFICATION_READINESS_UNAVAILABLE")
        \cup IfSo(ToSet(beforePlan) # ToSet(afterPlan), "PLANNED_EVALUATIONS_MISMATCH")
        \cup IfSo(RubricsIn(before.results) # RubricsIn(after.results),
                  "RUBRIC_VERSION_MISMATCH")

\* The resolutions worth telling.
Resolutions(before, after) ==
    LET both == DOMAIN before \cap DOMAIN after
        of == [c \in DOMAIN before \cup DOMAIN after |->
                  IF c \in both THEN Resolution(before[c].verdict, after[c].verdict)
                  ELSE "INDETERMINATE"]
    IN  [c \in {d \in DOMAIN of : of[d] # "NONE"} |-> of[c]]

\* Points per weight, before they are rounded; the numbers of evaluations that
\* the scores carry are left out.
Difference(after, before) ==
    [points |-> after.points * before.weight - before.points * after.weight,
     weight |-> after.weight * before.weight]

NoDifference == [points |-> 0, weight |-> 0]

Comparison(before, beforePlan, after, afterPlan) ==
    LET reasons == IneligibilityReasons(before, beforePlan, after, afterPlan)
    IN  [comparable  |-> reasons = {}, reasons |-> reasons,
         before      |-> [coverage |-> before.coverage, score |-> before.score],
         after       |-> [coverage |-> after.coverage, score |-> after.score],
         delta       |-> IF reasons = {} THEN Difference(after.score, before.score)
                         ELSE NoDifference,
         resolutions |-> Resolutions(before.results, after.results)]
=============================================================================

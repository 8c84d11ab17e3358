---------------------------- MODULE AssessmentRun ----------------------------
(***************************************************************************)
(* The Assessment worker (apps/backend/assessment/runtime.py, worker.py),  *)
(* the plan and the results it stores once (reporting.py, results.py,      *)
(* findings.py), the reports read from them, the verification Assessment   *)
(* that a deployment starts from the first one (verification.py) and the   *)
(* comparison of the two (comparison.py).                                  *)
(*                                                                         *)
(* A delivery of an Assessment's task loads the configured resources once, *)
(* at one commit; deliveries may overlap, because the outbox sweeper sends *)
(* tasks again, and may stop after any step.  A stored result carries the  *)
(* delivery that produced it: its commit and its time are the delivery's.  *)
(* Queries of the table answer late; reads of one item do not.             *)
(***************************************************************************)
EXTENDS AssessmentReports, Selections

CONSTANTS
    Workers,         \* invocations of the worker
    TypeOf,          \* the type of each resource
    Governance,      \* the resource MANUAL rules are about
    Configurations,  \* the runtime configurations: resources in order, rubric
    Deployed,        \* the one that is deployed first
    MaxChanges,      \* how often the configuration may change
    MaxReceives,     \* deliveries of the two Assessments' tasks together
    Replies,         \* the replies to one question, one for each attempt
    Files,           \* the Terraform files, as locators
    Documents,       \* what a read of each type may observe: None, a view it refuses
    RemediationPlans,\* the Terraform plans of the remediations
    None             \* no plan, no pin, no comparison, no view

Assessments == {"initial", "verification"}

ASSUME DeliveriesAreBounded == MaxChanges \in Nat /\ MaxReceives \in Nat

ASSUME DeployedIsConfigured == Deployed \in Configurations

\* A configuration lists its resources and names a rubric (runtime.py, from_json).
ASSUME ConfigurationsAreSound ==
    \A c \in Configurations : c.resources \in Seq(ToSet(c.resources)) /\ c.rubric # None

ASSUME EveryAttemptIsAnswered == \A replies \in Replies : Len(replies) = Attempts

\* Every published rule governs both phases (rule_builder.py, APPLICABLE_PHASES).
ASSUME RulesGovernBothPhases ==
    \A r \in ToSet(Rules) : {"INITIAL", "POST_DEPLOY_VERIFICATION"} \subseteq r.phases

VARIABLES
    configuration,  \* the deployed configuration
    changes,        \* how often it changed
    pin,            \* the rubric the verification was started with
    received,       \* deliveries so far
    plan,           \* the stored plan: a sequence of coordinates
    counter,        \* the stored number of completed evaluations
    results,        \* the stored results, by coordinate
    findings,       \* the stored findings, by coordinate
    worker          \* what each invocation is doing

store == <<plan, counter, results, findings>>
setup == <<configuration, changes, pin>>
vars == <<configuration, changes, pin, received, plan, counter, results, findings, worker>>

Idle == [pc |-> "idle", of |-> "initial", run |-> 0, rubric |-> None,
         planned |-> <<>>, works |-> <<>>, batch |-> <<>>]

Init ==
    /\ configuration = Deployed
    /\ changes = 0
    /\ pin = None
    /\ received = [a \in Assessments |-> 0]
    /\ plan = [a \in Assessments |-> <<>>]
    /\ counter = [a \in Assessments |-> 0]
    /\ results = [a \in Assessments |-> <<>>]
    /\ findings = [a \in Assessments |-> <<>>]
    /\ worker = [w \in Workers |-> Idle]

Reconfigure ==
    /\ changes < MaxChanges
    /\ changes' = changes + 1
    /\ configuration' \in Configurations \ {configuration}
    /\ UNCHANGED <<pin, received, store, worker>>

----------------------------------------------------------------------------
(* What a delivery loads *)

PhaseOf(a) == IF a = "initial" THEN "INITIAL" ELSE "POST_DEPLOY_VERIFICATION"

(* Mutated form of Governing: every rule is evaluated on every resource. *)
EveryRule(a, resource) == Rules

(* The rules of one PolicyContext. *)
Governing(a, resource) ==
    Selected(Rules, {r \in ToSet(Rules) : IsApplicable(r, PhaseOf(a), TypeOf[resource])})

Coordinates(rule, resource) ==
    LET ordered == Selected(<<"IAC", "AWS_ACTUAL", "MANUAL", "DRIFT">>,
                            PerspectivesFor(rule, TypeOf[resource]))
    IN  [i \in DOMAIN ordered |-> <<resource, rule.name, ordered[i]>>]

PlanFor(a, works) ==
    FlattenSeq([i \in DOMAIN works |->
        LET rules == Governing(a, works[i])
        IN  FlattenSeq([j \in DOMAIN rules |-> Coordinates(rules[j], works[i])])])

NamedIn(planned) == {c[1] : c \in ToSet(planned)}

InitialWorks ==
    configuration.resources \o
        (IF Governing("initial", Governance) # <<>> THEN <<Governance>> ELSE <<>>)

(* A verification takes the plan of its source, and its resources from the *)
(* configuration.                                                          *)
VerificationWorks ==
    Selected(Append(configuration.resources, Governance), NamedIn(plan["initial"]))

(* Mutated form of HonoursPin: the rubric of the source is not asked for. *)
AnyRubric(a) == a = "initial" \/ pin # None

HonoursPin(a) == a = "initial" \/ pin = configuration.rubric

IsWithinConfiguration ==
    \A c \in ToSet(plan["initial"]) :
        c[1] \in ToSet(configuration.resources) \cup {Governance}

PlannedFor(a, works) == IF a = "initial" THEN PlanFor(a, works) ELSE plan["initial"]

IsLoadable(a, works) ==
    /\ HonoursPin(a)
    /\ a = "initial" \/ (IsWithinConfiguration /\ works \notin {<<>>, <<Governance>>})

(* A delivery whose load is refused raises, and only uses up a receive. *)
Receive(w, a) ==
    /\ worker[w].pc = "idle"
    /\ received["initial"] + received["verification"] < MaxReceives
    /\ a = "verification" => pin # None
    /\ received' = [received EXCEPT ![a] = @ + 1]
    /\ LET works == IF a = "initial" THEN InitialWorks ELSE VerificationWorks
           planned == PlannedFor(a, works)
           evaluable == Selected(works, NamedIn(planned))
       IN  worker' = IF IsLoadable(a, works) /\ planned # <<>> /\ IsInjective(planned)
                     THEN [worker EXCEPT ![w] =
                              [pc |-> "plan", of |-> a, run |-> received[a] + 1,
                               rubric |-> configuration.rubric, planned |-> planned,
                               works |-> evaluable, batch |-> <<>>]]
                     ELSE worker
    /\ UNCHANGED <<setup, store>>

(* An error, a timeout or a crash: the task will be delivered again. *)
Stop(w) ==
    /\ worker[w].pc # "idle"
    /\ worker' = [worker EXCEPT ![w] = Idle]
    /\ UNCHANGED <<setup, received, store>>

----------------------------------------------------------------------------
(* _ensure_evaluation_plan *)

At(w, pc) == worker[w].pc = pc
GoTo(w, pc) == worker' = [worker EXCEPT ![w].pc = pc]

(* Mutated form of IsOwnPlan: another stored plan is taken for one's own. *)
AnyPlan(w) == plan[worker[w].of] # <<>>

IsOwnPlan(w) == plan[worker[w].of] = worker[w].planned

LookForPlan(w) ==
    /\ At(w, "plan")
    /\ GoTo(w, IF plan[worker[w].of] = <<>> THEN "put plan"
               ELSE IF IsOwnPlan(w) THEN "evaluate" ELSE "refused")
    /\ UNCHANGED <<setup, received, store>>

(* A refused conditional put reads the plan again. *)
PutPlan(w) ==
    LET a == worker[w].of
    IN  /\ At(w, "put plan")
        /\ IF plan[a] = <<>>
           THEN /\ plan' = [plan EXCEPT ![a] = worker[w].planned]
                /\ GoTo(w, "evaluate")
           ELSE /\ GoTo(w, "plan")
                /\ UNCHANGED plan
        /\ UNCHANGED <<setup, received, counter, results, findings>>

----------------------------------------------------------------------------
(* AssessmentWorker.handle, for one resource after the other *)

Result(w, at, severity, verdict) ==
    [at |-> at, severity |-> severity, verdict |-> verdict,
     run |-> worker[w].run, rubric |-> worker[w].rubric]

(* The rules that a resource is evaluated by, under one perspective. *)
Asked(a, resource, p) ==
    Selected(Governing(a, resource),
             {r \in ToSet(Rules) : p \in PerspectivesFor(r, TypeOf[resource])})

OfPerspective(w, resource, p, verdict) ==
    LET asked == Asked(worker[w].of, resource, p)
    IN  [i \in DOMAIN asked |->
            Result(w, <<resource, asked[i].name, p>>, asked[i].severity, verdict[asked[i]])]

(* Perspective by perspective, drift last, from the same verdicts. *)
Batch(w, iac, actual) ==
    LET resource == Head(worker[w].works)
        rules == ToSet(Governing(worker[w].of, resource))
        manual == [r \in rules |-> ManualVerdict]
        drift == [r \in rules |-> DriftVerdict(iac[r], actual[r])]
        of(p, verdict) == OfPerspective(w, resource, p, verdict)
    IN  of("IAC", iac) \o of("AWS_ACTUAL", actual) \o of("MANUAL", manual) \o of("DRIFT", drift)

(* What the questions of one perspective may cite: all of the Terraform    *)
(* files, or the read of the resource.                                     *)
ReadEvidence(perspective, resource) ==
    IF perspective = "IAC" THEN Files
    ELSE {[kind |-> "aws", name |-> resource]}

(* A view that is not of the resource asked for is a ValueError, an error   *)
(* of the coordinate alone; a tool that raises ends the delivery (Stop).    *)
ReadVerdict(rule, type, observed, answer) ==
    IF observed = None THEN Verdict("EXECUTION_ERROR", "CODE")
    ELSE ActualVerdict(rule, type, observed, answer)

(* Every rule about the account reads the resource again: its rules may be *)
(* judged by different moments of it.                                       *)
Evaluate(w) ==
    LET resource == Head(worker[w].works)
        rules == ToSet(Governing(worker[w].of, resource))
        asked(p) == ToSet(Asked(worker[w].of, resource, p))
        total(some) == [r \in rules |-> IF r \in DOMAIN some THEN some[r] ELSE NoVerdict]
        judged(p, r, replies) == Judged(replies, AllowedEvidence(ReadEvidence(p, resource), r))
    IN  /\ At(w, "evaluate")
        /\ \E onFiles \in [asked("IAC") -> Replies],
              onRead \in [asked("AWS_ACTUAL") -> Replies],
              observed \in [asked("AWS_ACTUAL") -> Documents[TypeOf[resource]]] :
               LET iac == [r \in asked("IAC") |-> judged("IAC", r, onFiles[r])]
                   actual == [r \in asked("AWS_ACTUAL") |->
                       ReadVerdict(r, TypeOf[resource], observed[r],
                                   judged("AWS_ACTUAL", r, onRead[r]))]
               IN  worker' = [worker EXCEPT ![w].pc = "store",
                                            ![w].batch = Batch(w, total(iac), total(actual))]
        /\ UNCHANGED <<setup, received, store>>

Stored(a, r) == r.at \in DOMAIN results[a]

(* Mutated form of IsSameResult: any result of the coordinate will do. *)
IsSomeResult(a, r) == Stored(a, r)

IsSameResult(a, r) == Stored(a, r) /\ results[a][r.at] = r

(* Mutated form of MayStore: the conditions on the items are dropped. *)
MayStoreAnyhow(a, r) == counter[a] < Len(plan[a])

MayStore(a, r) == ~Stored(a, r) /\ counter[a] < Len(plan[a])

Advanced(wk) ==
    IF Len(wk.batch) > 1 THEN [wk EXCEPT !.batch = Tail(@)]
    ELSE IF Len(wk.works) > 1
    THEN [wk EXCEPT !.pc = "evaluate", !.batch = <<>>, !.works = Tail(@)]
    ELSE Idle

(* An item is put at its coordinate. *)
Put(items, at, item) ==
    [c \in DOMAIN items \cup {at} |-> IF c = at THEN item ELSE items[c]]

(* One transaction: the result, its finding and the counter.  Its answer    *)
(* may be lost, and the write is then made again.                           *)
StoreResult(w) ==
    LET a == worker[w].of
        r == Head(worker[w].batch)
    IN  /\ At(w, "store") /\ MayStore(a, r)
        /\ results' = [results EXCEPT ![a] = Put(@, r.at, r)]
        /\ counter' = [counter EXCEPT ![a] = @ + 1]
        /\ findings' = [findings EXCEPT ![a] =
               IF IsFollowUp(r.verdict) THEN Put(@, r.at, FindingOf(r)) ELSE @]
        /\ \E wk \in {Advanced(worker[w]), worker[w]} : worker' = [worker EXCEPT ![w] = wk]
        /\ UNCHANGED <<setup, received, plan>>

(* A cancelled transaction: the stored item is this very result, or the     *)
(* delivery raises.                                                         *)
ResolveConflict(w) ==
    LET a == worker[w].of
        r == Head(worker[w].batch)
    IN  /\ At(w, "store") /\ ~MayStore(a, r)
        /\ worker' = [worker EXCEPT ![w] =
               IF IsSameResult(a, r) THEN Advanced(@) ELSE [@ EXCEPT !.pc = "refused"]]
        /\ UNCHANGED <<setup, received, store>>

----------------------------------------------------------------------------
(* Reports, the verification and the comparison *)

PlanOf(a) == ToSet(plan[a])

Seen(some, coordinates) == [c \in coordinates \cap DOMAIN some |-> some[c]]

(* A query sees the results or, late, all but some: one is enough to tell. *)
Views(a) == {Seen(results[a], DOMAIN results[a] \ missing) : missing \in
                 {{}} \cup {{c} : c \in DOMAIN results[a]}}

ReportOf(a, seen) ==
    Report(plan[a], counter[a], seen, Seen(findings[a], DOMAIN seen))

(* get_report_page, of all that the query saw. *)
PageOf(a, seen) ==
    Page(plan[a], counter[a], seen, Seen(findings[a], DOMAIN seen))

(* Mutated form of PageScores: scores of what has been evaluated so far. *)
ScoresSoFar(a, seen) == {<<"ALL", Readiness(seen, DOMAIN seen)>>}

(* The score of everything, and one for each kind of document. *)
PageScores(a, seen) ==
    LET page == PageOf(a, seen)
    IN  {<<"ALL", page.score>>} \cup {<<k, page.segments[k]>> : k \in DOMAIN page.segments}

(* The scores that pages may show now. *)
Scores(a) ==
    {s \in UNION {IF plan[a] = <<>> THEN {} ELSE PageScores(a, seen) : seen \in Views(a)} :
        s[2] # NoScore}

(* A finding that failed was remediated by a plan that could be approved, *)
(* and deployed.                                                          *)
IsRemediable(c) ==
    /\ results["initial"][c].verdict.status = "FAIL"
    /\ \E remediation \in RemediationPlans :
           DeploymentReadiness(RuleNamed(c[2]), TypeOf[c[1]], c[1], remediation)
               = "READY_FOR_APPROVAL"

StartVerification ==
    /\ pin = None
    /\ \E c \in DOMAIN findings["initial"] : IsRemediable(c)
    /\ \E seen \in Views("initial") :
           LET source == VerificationSource(plan["initial"], seen)
               types == {TypeOf[r] : r \in ToSet(configuration.resources) \cup {Governance}}
           IN  /\ HasOneScope(seen)
               /\ VerificationRejection(source, VerificationRules(types)) = "NONE"
               /\ pin' = source.rubric
    /\ UNCHANGED <<configuration, changes, received, store, worker>>

(* Mutated form of IsWholeReport: the counter is believed. *)
IsCounted(a, seen) == DOMAIN seen # {} /\ counter[a] = Len(plan[a])

(* A late counter only refuses more. *)
IsWholeReport(a, seen) == IsWhole(plan[a], counter[a], seen)

(* The comparisons that may be answered now, each report read late perhaps. *)
Comparisons ==
    LET Whole(a) == {ReportOf(a, seen) : seen \in {s \in Views(a) : IsWholeReport(a, s)}}
    IN  IF pin = None \/ counter["verification"] \notin {Len(plan["verification"])} \ {0}
        THEN {}
        ELSE {Comparison(pair[1], plan["initial"], pair[2], plan["verification"]) :
                  pair \in Whole("initial") \X Whole("verification")}

Next ==
    \/ Reconfigure \/ StartVerification
    \/ \E w \in Workers :
           \/ LookForPlan(w) \/ PutPlan(w) \/ Evaluate(w)
           \/ StoreResult(w) \/ ResolveConflict(w) \/ Stop(w)
           \/ \E a \in Assessments : Receive(w, a)

Spec == Init /\ [][Next]_vars

----------------------------------------------------------------------------
(* Properties *)

AssessmentTypeOK ==
    /\ configuration \in Configurations
    /\ changes \in 0..MaxChanges
    /\ pin \in {c.rubric : c \in Configurations} \cup {None}
    /\ \A a \in Assessments :
           /\ received[a] \in 0..MaxReceives
           /\ counter[a] \in 0..Len(plan[a])
           /\ DOMAIN findings[a] \subseteq DOMAIN results[a]
           /\ \A c \in DOMAIN results[a] :
                  /\ results[a][c].at = c
                  /\ \E r \in ToSet(Rules) :
                         /\ r.name = c[2] /\ TypeOf[c[1]] \in r.types
                         /\ c[3] \in PerspectivesFor(r, TypeOf[c[1]])
                  /\ results[a][c].verdict \in Verdicts
    /\ \A w \in Workers :
           worker[w].pc \in {"idle", "plan", "put plan", "evaluate", "store", "refused"}

(* The progress an Assessment shows is the number of results there are, all *)
(* of them are planned, and the findings are exactly of the results that    *)
(* need follow-up, although a transaction may be made again after it took   *)
(* effect.                                                                  *)
StoreAgrees ==
    \A a \in Assessments :
        /\ counter[a] = Cardinality(DOMAIN results[a])
        /\ DOMAIN results[a] \subseteq PlanOf(a)
        /\ DOMAIN findings[a] = {c \in DOMAIN results[a] : IsFollowUp(results[a][c].verdict)}
        /\ \A c \in DOMAIN findings[a] : findings[a][c] = FindingOf(results[a][c])

(* The results of a resource are of one delivery, hence of one commit and   *)
(* one rubric, and so are all results of a first Assessment: the branch     *)
(* head is read once and kept for the whole Assessment (runtime.py:468).    *)
ResultsAreOfOneDelivery ==
    \A a \in Assessments : \A c, d \in DOMAIN results[a] :
        a = "initial" \/ c[1] = d[1] => results[a][c].run = results[a][d].run

(* A stored drift result says of the two stored results of its rule what    *)
(* drift is, never of verdicts that were not stored.                        *)
DriftIsOfStoredVerdicts ==
    \A a \in Assessments : \A c \in DOMAIN results[a] :
        c[3] = "DRIFT" =>
            LET of(p) == <<c[1], c[2], p>>
            IN  /\ {of("IAC"), of("AWS_ACTUAL")} \subseteq DOMAIN results[a]
                /\ results[a][c].verdict = DriftVerdict(results[a][of("IAC")].verdict,
                                                        results[a][of("AWS_ACTUAL")].verdict)

(* A report shows the scores of everything that was planned, of all rules   *)
(* or of one kind of document, or none: a late query never makes another    *)
(* score of the results it saw.                                             *)
ScoresAreOfEverythingPlanned ==
    \A a \in Assessments :
        Scores(a) \subseteq
            {<<"ALL", Readiness(results[a], PlanOf(a))>>}
                \cup {<<k, SegmentScores(results[a], PlanOf(a))[k]>> : k \in SourceKinds}

(* A verification is measured as its source was, with the same coordinates  *)
(* and rubric, whatever was configured in between: only a missing score     *)
(* makes the two incomparable.                                              *)
VerificationMeasuresTheSame ==
    \A comparison \in Comparisons :
        comparison.reasons \subseteq
            {"SOURCE_READINESS_UNAVAILABLE", "VERIFICATION_READINESS_UNAVAILABLE"}

(* Once a comparison is answered, every later one gives the same answer.    *)
ComparisonStands ==
    [][LET answered == Comparisons
       IN  answered # {} => Comparisons' = answered /\ Cardinality(answered) = 1]_vars

(* worker.py, results.py: a redelivery is absorbed.  A result that is       *)
(* refused would judge otherwise than the stored one.                       *)
RedeliveryIsAbsorbed ==
    \A w \in Workers :
        At(w, "refused") /\ worker[w].batch # <<>> =>
            LET r == Head(worker[w].batch)
            IN  Stored(worker[w].of, r) =>
                    results[worker[w].of][r.at].verdict # r.verdict
=============================================================================

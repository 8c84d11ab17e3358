-------------------------- MODULE AssessmentRunProofs --------------------------
(***************************************************************************)
(* Proofs about AssessmentRun, for any rules, resources, configurations,   *)
(* replies and number of workers and deliveries.                           *)
(*                                                                         *)
(* The inductive invariant says of the plans that they hold all of the     *)
(* coordinates of the resources they name, of the stored results that the  *)
(* first coordinate of their resource was stored by their delivery, and of *)
(* a worker that what it has yet to store continues what its delivery has  *)
(* stored: nothing of the resource, or its first coordinate at least.      *)
(***************************************************************************)
EXTENDS AssessmentRun, SequenceLemmas, FiniteSetTheorems, TLAPS

Rubrics == {c.rubric : c \in Configurations}

IsPlannable(c) ==
    \E r \in ToSet(Rules), p \in Perspectives :
        /\ TypeOf[c[1]] \in r.types /\ p \in PerspectivesFor(r, TypeOf[c[1]])
        /\ c = <<c[1], r.name, p>>

IsWholePlan(planned) ==
    /\ planned \in Seq(ToSet(planned))
    /\ \A c \in ToSet(planned) : IsPlannable(c)
    /\ \A c \in ToSet(planned), r \in ToSet(Rules), p \in Perspectives :
           TypeOf[c[1]] \in r.types /\ p \in PerspectivesFor(r, TypeOf[c[1]])
               => <<c[1], r.name, p>> \in ToSet(planned)

IsRecord(wk) ==
    wk = [pc |-> wk.pc, of |-> wk.of, run |-> wk.run, rubric |-> wk.rubric,
          planned |-> wk.planned, works |-> wk.works, batch |-> wk.batch]

FirstOf(resource) ==
    LET First(p) == <<resource, Asked("initial", resource, p)[1].name, p>>
    IN  CASE Asked("initial", resource, "IAC") # <<>> -> First("IAC")
          [] /\ Asked("initial", resource, "IAC") = <<>>
             /\ Asked("initial", resource, "AWS_ACTUAL") # <<>> -> First("AWS_ACTUAL")
          [] OTHER -> First("MANUAL")

IsBegun(some, resource, run, rubric) ==
    /\ FirstOf(resource) \in DOMAIN some
    /\ some[FirstOf(resource)].run = run
    /\ some[FirstOf(resource)].rubric = rubric

ShapeInv ==
    /\ DOMAIN plan = Assessments /\ DOMAIN counter = Assessments
    /\ DOMAIN results = Assessments /\ DOMAIN findings = Assessments
    /\ DOMAIN worker = Workers
    /\ \A a \in Assessments : results[a] = [c \in DOMAIN results[a] |-> results[a][c]]
    /\ \A w \in Workers : IsRecord(worker[w])

PlanInv ==
    /\ \A a \in Assessments : IsWholePlan(plan[a])
    /\ plan["verification"] \in {<<>>, plan["initial"]}

SetupInv ==
    /\ configuration \in Configurations
    /\ changes \in 0..MaxChanges
    /\ received \in [Assessments -> Nat]
    /\ received["initial"] + received["verification"] <= MaxReceives

PinInv ==
    /\ pin \in Rubrics \cup {None}
    /\ pin = None => DOMAIN results["verification"] = {}
    /\ pin # None =>
          /\ DOMAIN results["initial"] # {}
          /\ \A a \in Assessments : \A c \in DOMAIN results[a] : results[a][c].rubric = pin

CountInv ==
    \A a \in Assessments :
        /\ IsFiniteSet(DOMAIN results[a])
        /\ counter[a] = Cardinality(DOMAIN results[a])
        /\ counter[a] <= Len(plan[a])

ResultInv ==
    \A a \in Assessments : \A c \in DOMAIN results[a] :
        /\ results[a][c].at = c
        /\ results[a][c].verdict \in Verdicts
        /\ results[a][c].rubric \in Rubrics
        /\ c \in ToSet(plan[a])
        /\ IsBegun(results[a], c[1], results[a][c].run, results[a][c].rubric)
        /\ a = "initial" =>
              IsBegun(results[a], plan[a][1][1], results[a][c].run, results[a][c].rubric)

FindingInv ==
    \A a \in Assessments :
        /\ DOMAIN findings[a] = {c \in DOMAIN results[a] : IsFollowUp(results[a][c].verdict)}
        /\ \A c \in DOMAIN findings[a] : findings[a][c] = FindingOf(results[a][c])

IsDeliveryOf(wk, plans, first, pinned) ==
    /\ wk.of \in Assessments
    /\ wk.rubric \in Rubrics
    /\ wk.planned # <<>> /\ IsWholePlan(wk.planned)
    /\ wk.works # <<>> /\ wk.works \in Seq(NamedIn(wk.planned))
    /\ wk.of = "verification" =>
          wk.planned = plans["initial"] /\ wk.rubric = pinned /\ pinned # None
    /\ wk.of = "initial" =>
          \/ wk.works[1] = wk.planned[1][1]
          \/ IsBegun(first, wk.planned[1][1], wk.run, wk.rubric)
    /\ wk.pc \in {"evaluate", "store"} => plans[wk.of] = wk.planned

IsDelivery(wk) == IsDeliveryOf(wk, plan, results["initial"], pin)

IsSettled(some, batch, i, at, verdict) ==
    \/ at \in DOMAIN some /\ some[at].verdict = verdict
    \/ \E j \in 1..i-1 : batch[j].at = at /\ batch[j].verdict = verdict

IsBatch(wk, some) ==
    LET resource == wk.works[1]
    IN  /\ wk.batch # <<>> /\ wk.batch \in Seq(ToSet(wk.batch))
        /\ \/ wk.batch[1].at = FirstOf(resource)
           \/ IsBegun(some, resource, wk.run, wk.rubric)
        /\ \A i \in DOMAIN wk.batch :
              LET r == wk.batch[i]
              IN  /\ r.at \in ToSet(wk.planned) /\ r.at[1] = resource
                  /\ r.verdict \in Verdicts /\ r.run = wk.run /\ r.rubric = wk.rubric
                  /\ r.at[3] = "DRIFT" =>
                        \E iac, actual \in Verdicts :
                            /\ r.verdict = DriftVerdict(iac, actual)
                            /\ IsSettled(some, wk.batch, i, <<r.at[1], r.at[2], "IAC">>, iac)
                            /\ IsSettled(some, wk.batch, i, <<r.at[1], r.at[2], "AWS_ACTUAL">>,
                                         actual)

WorkerInv ==
    \A w \in Workers :
        /\ worker[w].pc \in {"idle", "plan", "put plan", "evaluate", "store", "refused"}
        /\ worker[w].pc \notin {"idle", "refused"} => IsDelivery(worker[w])
        /\ worker[w].pc = "store" => IsBatch(worker[w], results[worker[w].of])

RunInv ==
    /\ ShapeInv /\ PlanInv /\ SetupInv /\ PinInv
    /\ CountInv /\ ResultInv /\ FindingInv
    /\ DriftIsOfStoredVerdicts /\ WorkerInv

-----------------------------------------------------------------------------
(* The rules of a resource *)

(* Rules govern both phases, so that the two Assessments evaluate a resource alike. *)
LEMMA GoverningRules ==
    ASSUME NEW a \in Assessments, NEW resource
    PROVE  /\ Governing(a, resource) \in Seq(ToSet(Rules))
           /\ ToSet(Governing(a, resource)) = {r \in ToSet(Rules) : TypeOf[resource] \in r.types}
           /\ Governing(a, resource) = Governing("initial", resource)
<1> DEFINE wanted(b) == {r \in ToSet(Rules) : IsApplicable(r, PhaseOf(b), TypeOf[resource])}
           typed == {r \in ToSet(Rules) : TypeOf[resource] \in r.types}
<1>1. ASSUME NEW b \in Assessments
      PROVE  wanted(b) = typed
  BY RulesGovernBothPhases DEF IsApplicable, PhaseOf, Assessments
<1>2. a \in Assessments /\ "initial" \in Assessments
  BY DEF Assessments
<1>3. Rules \in Seq(ToSet(Rules))
  BY RulesAreListed
<1>4. \A b : Governing(b, resource) = Selected(Rules, wanted(b))
  BY DEF Governing
<1> HIDE DEF wanted
<1>5. Governing(a, resource) = Selected(Rules, typed)
  BY <1>1, <1>2, <1>4
<1>6. Governing("initial", resource) = Selected(Rules, typed)
  BY <1>1, <1>2, <1>4
<1>7. /\ Selected(Rules, typed) \in Seq(ToSet(Rules))
      /\ ToSet(Selected(Rules, typed)) = ToSet(Rules) \cap typed
  BY <1>3, SelectedSet
<1> QED
  BY <1>5, <1>6, <1>7

LEMMA AskedRules ==
    ASSUME NEW a \in Assessments, NEW resource, NEW p
    PROVE  /\ Asked(a, resource, p) \in Seq(ToSet(Rules))
           /\ ToSet(Asked(a, resource, p)) =
                 {r \in ToSet(Rules) : /\ TypeOf[resource] \in r.types
                                       /\ p \in PerspectivesFor(r, TypeOf[resource])}
           /\ Asked(a, resource, p) = Asked("initial", resource, p)
<1> DEFINE wanted == {r \in ToSet(Rules) : p \in PerspectivesFor(r, TypeOf[resource])}
<1>1. PICK rules : rules = Governing("initial", resource)
  OBVIOUS
<1>2. /\ rules \in Seq(ToSet(Rules)) /\ rules = Governing(a, resource)
      /\ ToSet(rules) = {r \in ToSet(Rules) : TypeOf[resource] \in r.types}
  BY <1>1, GoverningRules
<1>3. Asked(a, resource, p) = Selected(rules, wanted)
  BY <1>2 DEF Asked
<1>4. Asked("initial", resource, p) = Selected(rules, wanted)
  BY <1>1 DEF Asked
<1>5. /\ Selected(rules, wanted) \in Seq(ToSet(Rules))
      /\ ToSet(Selected(rules, wanted)) = ToSet(rules) \cap wanted
  BY <1>2, SelectedSet
<1> QED
  BY <1>2, <1>3, <1>4, <1>5

(* A rule that is compared is also evaluated on both sides; nothing else has a perspective. *)
LEMMA PerspectivesOfRule ==
    ASSUME NEW rule, NEW type
    PROVE  /\ PerspectivesFor(rule, type) \subseteq Perspectives
           /\ "DRIFT" \in PerspectivesFor(rule, type) =>
                 {"IAC", "AWS_ACTUAL"} \subseteq PerspectivesFor(rule, type)
<1>1. PerspectivesFor(rule, type) \subseteq Perspectives
  BY DEF PerspectivesFor, Perspectives, Runners
<1>2. ASSUME "DRIFT" \in PerspectivesFor(rule, type)
      PROVE  {"IAC", "AWS_ACTUAL"} \subseteq PerspectivesFor(rule, type)
  <2>1. type # GovernanceType /\ IsDriftEligible(rule)
    BY <1>2 DEF PerspectivesFor, Runners
  <2>2. Evaluated[rule.type] = {"IAC", "AWS_ACTUAL"} /\ Runners(type) = {"IAC", "AWS_ACTUAL"}
    BY <2>1 DEF IsDriftEligible, Evaluated, Runners
  <2> QED
    BY <2>2 DEF PerspectivesFor
<1> QED
  BY <1>1, <1>2

-----------------------------------------------------------------------------
(* The plan of an initial Assessment *)

Spots(resources) == resources \X {r.name : r \in ToSet(Rules)} \X Perspectives

(* All of the coordinates of a resource. *)
SpotsOf(resource) == {c \in Spots({resource}) : IsPlannable(c)}

PartOf(a, resource) ==
    LET rules == Governing(a, resource)
    IN  FlattenSeq([j \in DOMAIN rules |-> Coordinates(rules[j], resource)])

LEMMA CoordinatesOfRule ==
    ASSUME NEW rule \in ToSet(Rules), NEW resource
    PROVE  /\ Coordinates(rule, resource) \in Seq(Spots({resource}))
           /\ ToSet(Coordinates(rule, resource)) =
                 {<<resource, rule.name, p>> : p \in PerspectivesFor(rule, TypeOf[resource])}
<1>1. PICK has : has = PerspectivesFor(rule, TypeOf[resource]) /\ has \subseteq Perspectives
  BY PerspectivesOfRule
<1>2. PICK all : all = <<"IAC", "AWS_ACTUAL", "MANUAL", "DRIFT">>
  OBVIOUS
<1>3. all \in Seq(Perspectives) /\ ToSet(all) = Perspectives
  <2>1. all \in Seq(Perspectives) /\ DOMAIN all = 1 .. 4
    BY <1>2 DEF Perspectives
  <2>2. /\ 1 \in DOMAIN all /\ 2 \in DOMAIN all /\ 3 \in DOMAIN all /\ 4 \in DOMAIN all
        /\ all[1] = "IAC" /\ all[2] = "AWS_ACTUAL" /\ all[3] = "MANUAL" /\ all[4] = "DRIFT"
    BY <1>2, <2>1
  <2>3. Perspectives \subseteq ToSet(all)
    BY <2>2 DEF ToSet, Perspectives
  <2> QED
    BY <2>1, <2>3, ToSetOf
<1>4. PICK ordered : ordered = Selected(all, has)
  OBVIOUS
<1>5. ordered \in Seq(Perspectives) /\ ToSet(ordered) = has
  <2>1. ordered \in Seq(Perspectives) /\ ToSet(ordered) = ToSet(all) \cap has
    BY <1>3, <1>4, SelectedSet
  <2> QED
    BY <1>1, <1>3, <2>1
<1>6. Coordinates(rule, resource) = [i \in DOMAIN ordered |-> <<resource, rule.name, ordered[i]>>]
  BY <1>1, <1>2, <1>4 DEF Coordinates
<1>7. PICK n \in Nat : n = Len(ordered) /\ DOMAIN ordered = 1 .. n
  BY <1>5
<1>8. PICK spots : spots = [i \in 1 .. n |-> <<resource, rule.name, ordered[i]>>]
  OBVIOUS
<1>9. \A i \in 1 .. n : ordered[i] \in Perspectives
  BY <1>5, <1>7
<1>10. \A i \in 1 .. n : spots[i] \in Spots({resource})
  BY <1>8, <1>9 DEF Spots
<1>11. spots \in Seq(Spots({resource}))
  BY <1>8, <1>10
<1>12. ToSet(spots) = {<<resource, rule.name, p>> : p \in has}
  BY <1>5, <1>7, <1>8 DEF ToSet
<1> QED
  BY <1>1, <1>6, <1>7, <1>8, <1>11, <1>12

LEMMA PartOfPlan ==
    ASSUME NEW a \in Assessments, NEW resource
    PROVE  /\ PartOf(a, resource) \in Seq(Spots({resource}))
           /\ ToSet(PartOf(a, resource)) = SpotsOf(resource)
<1>1. PICK rules : rules = Governing(a, resource)
  OBVIOUS
<1>2. /\ rules \in Seq(ToSet(Rules))
      /\ ToSet(rules) = {r \in ToSet(Rules) : TypeOf[resource] \in r.types}
  BY <1>1, GoverningRules
<1>3. PICK n \in Nat : n = Len(rules) /\ DOMAIN rules = 1 .. n
  BY <1>2
<1>4. PICK parts : parts = [j \in 1 .. n |-> Coordinates(rules[j], resource)]
  OBVIOUS
<1>5. \A j \in 1 .. n : rules[j] \in ToSet(Rules)
  BY <1>2, <1>3
<1>6. ASSUME NEW j \in 1 .. n
      PROVE  /\ parts[j] \in Seq(Spots({resource}))
             /\ ToSet(parts[j]) = {<<resource, rules[j].name, p>> :
                                      p \in PerspectivesFor(rules[j], TypeOf[resource])}
  BY <1>4, <1>3, <1>5, CoordinatesOfRule
<1>7. parts \in Seq(Seq(Spots({resource}))) /\ DOMAIN parts = 1 .. n
  <2>1. PICK S : S = Seq(Spots({resource}))
    OBVIOUS
  <2>2. \A j \in 1 .. n : parts[j] \in S
    BY <1>6, <2>1
  <2>3. parts \in Seq(S)
    BY <1>4, <2>2
  <2> QED
    BY <1>4, <2>1, <2>3
<1>8. /\ FlattenSeq(parts) \in Seq(Spots({resource}))
      /\ ToSet(FlattenSeq(parts)) = UNION {ToSet(parts[j]) : j \in DOMAIN parts}
  BY <1>7, FlattenedSet
<1>9. PartOf(a, resource) = FlattenSeq(parts)
  BY <1>1, <1>3, <1>4 DEF PartOf
<1>10. ToSet(FlattenSeq(parts)) \subseteq Spots({resource})
  BY <1>8, ToSetOf
<1>11. ASSUME NEW c \in Spots({resource})
       PROVE  c \in UNION {ToSet(parts[j]) : j \in DOMAIN parts} <=> IsPlannable(c)
  <2>1. c[1] = resource /\ c = <<c[1], c[2], c[3]>>
    BY DEF Spots
  <2>2. ASSUME c \in UNION {ToSet(parts[j]) : j \in DOMAIN parts}
        PROVE  IsPlannable(c)
    <3>1. PICK j \in 1 .. n : c \in ToSet(parts[j])
      BY <1>7, <2>2
    <3>2. PICK p \in PerspectivesFor(rules[j], TypeOf[resource]) :
              c = <<resource, rules[j].name, p>>
      BY <1>6, <3>1
    <3>3. p \in Perspectives
      BY PerspectivesOfRule
    <3>4. rules[j] \in ToSet(rules)
      BY <1>3 DEF ToSet
    <3> QED
      BY <1>2, <2>1, <3>2, <3>3, <3>4 DEF IsPlannable
  <2>3. ASSUME IsPlannable(c)
        PROVE  c \in UNION {ToSet(parts[j]) : j \in DOMAIN parts}
    <3>1. PICK r \in ToSet(Rules), p \in Perspectives :
              /\ TypeOf[resource] \in r.types /\ p \in PerspectivesFor(r, TypeOf[resource])
              /\ c = <<resource, r.name, p>>
      BY <2>1, <2>3 DEF IsPlannable
    <3>2. PICK j \in 1 .. n : r = rules[j]
      BY <1>2, <1>3, <3>1 DEF ToSet
    <3>3. c \in ToSet(parts[j])
      BY <1>6, <3>1, <3>2
    <3> QED
      BY <1>7, <3>3
  <2> QED
    BY <2>2, <2>3
<1> QED
  BY <1>8, <1>9, <1>10, <1>11 DEF SpotsOf

LEMMA PlanForWorks ==
    ASSUME NEW a \in Assessments, NEW works, works \in Seq(ToSet(works))
    PROVE  /\ PlanFor(a, works) \in Seq(Spots(ToSet(works)))
           /\ ToSet(PlanFor(a, works)) = UNION {SpotsOf(resource) : resource \in ToSet(works)}
           /\ PlanFor(a, works) # <<>> =>
                 \E i \in DOMAIN works :
                    /\ SpotsOf(works[i]) # {} /\ PlanFor(a, works)[1] \in SpotsOf(works[i])
                    /\ \A j \in 1 .. i - 1 : SpotsOf(works[j]) = {}
<1>1. PICK n \in Nat : n = Len(works) /\ DOMAIN works = 1 .. n
  OBVIOUS
<1>2. PICK parts : parts = [i \in 1 .. n |-> PartOf(a, works[i])]
  OBVIOUS
<1>3. PlanFor(a, works) = FlattenSeq(parts)
  BY <1>1, <1>2 DEF PlanFor, PartOf
<1>4. \A i \in 1 .. n : works[i] \in ToSet(works)
  BY <1>1 DEF ToSet
<1>5. ASSUME NEW i \in 1 .. n
      PROVE  /\ parts[i] \in Seq(Spots(ToSet(works)))
             /\ ToSet(parts[i]) = SpotsOf(works[i])
             /\ parts[i] = <<>> <=> SpotsOf(works[i]) = {}
             /\ parts[i] # <<>> => parts[i][1] \in SpotsOf(works[i])
  <2>1. PICK part : part = PartOf(a, works[i]) /\ part = parts[i]
    BY <1>2
  <2>2. part \in Seq(Spots({works[i]})) /\ ToSet(part) = SpotsOf(works[i])
    BY <2>1, PartOfPlan
  <2>3. Spots({works[i]}) \subseteq Spots(ToSet(works))
    BY <1>4 DEF Spots
  <2>4. part \in Seq(Spots(ToSet(works)))
    BY <2>2, <2>3, SequenceOfMore
  <2>5. /\ part = <<>> <=> ToSet(part) = {}
        /\ part # <<>> => part[1] \in ToSet(part)
    BY <2>2, ToSetOf
  <2> QED
    BY <2>1, <2>2, <2>4, <2>5
<1>6. parts \in Seq(Seq(Spots(ToSet(works)))) /\ DOMAIN parts = 1 .. n
  BY <1>2, <1>5
<1>7. PICK planned : planned = FlattenSeq(parts)
  OBVIOUS
<1>8. /\ planned \in Seq(Spots(ToSet(works)))
      /\ ToSet(planned) = UNION {ToSet(parts[i]) : i \in DOMAIN parts}
      /\ planned # <<>> =>
            \E i \in DOMAIN parts : /\ parts[i] # <<>> /\ planned[1] = parts[i][1]
                                    /\ \A j \in 1 .. i - 1 : parts[j] = <<>>
  BY <1>6, <1>7, FlattenedSet
<1>9. ToSet(planned) = UNION {SpotsOf(resource) : resource \in ToSet(works)}
  <2>1. ToSet(works) = {works[i] : i \in 1 .. n}
    BY <1>1 DEF ToSet
  <2>2. ASSUME NEW c
        PROVE  c \in ToSet(planned) <=> \E i \in 1 .. n : c \in SpotsOf(works[i])
    BY <1>5, <1>6, <1>8
  <2> QED
    BY <2>1, <2>2
<1>10. ASSUME planned # <<>>
       PROVE  \E i \in DOMAIN works :
                    /\ SpotsOf(works[i]) # {} /\ planned[1] \in SpotsOf(works[i])
                    /\ \A j \in 1 .. i - 1 : SpotsOf(works[j]) = {}
  <2>1. PICK i \in 1 .. n : /\ parts[i] # <<>> /\ planned[1] = parts[i][1]
                            /\ \A j \in 1 .. i - 1 : parts[j] = <<>>
    BY <1>6, <1>8, <1>10
  <2>2. SpotsOf(works[i]) # {} /\ planned[1] \in SpotsOf(works[i])
    BY <1>5, <2>1
  <2>3. ASSUME NEW j \in 1 .. i - 1
        PROVE  SpotsOf(works[j]) = {}
    <3>1. j \in 1 .. n
      OBVIOUS
    <3> QED
      BY <1>5, <2>1, <3>1
  <2> QED
    BY <1>1, <2>2, <2>3
<1> QED
  BY <1>3, <1>7, <1>8, <1>9, <1>10

(* A plan that is loaded names whole resources, and its first coordinate is of the resource *)
(* that is evaluated first.                                                                 *)
LEMMA LoadedPlan ==
    ASSUME NEW a \in Assessments, NEW works, works \in Seq(ToSet(works)),
           NEW planned, planned = PlanFor(a, works), planned # <<>>,
           NEW evaluable, evaluable = Selected(works, NamedIn(planned))
    PROVE  /\ IsWholePlan(planned)
           /\ evaluable \in Seq(NamedIn(planned)) /\ evaluable # <<>>
           /\ evaluable[1] = planned[1][1]
<1>1. /\ planned \in Seq(Spots(ToSet(works)))
      /\ ToSet(planned) = UNION {SpotsOf(resource) : resource \in ToSet(works)}
      /\ planned \in Seq(ToSet(planned)) /\ planned[1] \in ToSet(planned)
  BY PlanForWorks, ToSetOf
<1>2. PICK i \in DOMAIN works :
          /\ planned[1] \in SpotsOf(works[i])
          /\ \A j \in 1 .. i - 1 : SpotsOf(works[j]) = {}
  BY PlanForWorks
<1>3. ASSUME NEW resource, NEW c \in SpotsOf(resource)
      PROVE  c[1] = resource /\ IsPlannable(c)
  BY DEF SpotsOf, Spots
<1>4. \A c \in ToSet(planned) : IsPlannable(c)
  BY <1>1, <1>3
<1>5. ASSUME NEW c \in ToSet(planned), NEW r \in ToSet(Rules), NEW p \in Perspectives,
             TypeOf[c[1]] \in r.types, p \in PerspectivesFor(r, TypeOf[c[1]])
      PROVE  <<c[1], r.name, p>> \in ToSet(planned)
  <2>1. PICK resource \in ToSet(works) : c \in SpotsOf(resource)
    BY <1>1
  <2>2. c[1] = resource
    BY <1>3, <2>1
  <2>3. PICK d : d = <<resource, r.name, p>>
    OBVIOUS
  <2>4. d \in Spots({resource}) /\ d[1] = resource
    BY <2>3 DEF Spots
  <2>5. IsPlannable(d)
    BY <1>5, <2>2, <2>3, <2>4 DEF IsPlannable
  <2>6. d \in SpotsOf(resource)
    BY <2>4, <2>5 DEF SpotsOf
  <2> QED
    BY <1>1, <2>1, <2>2, <2>3, <2>6
<1>6. IsWholePlan(planned)
  BY <1>1, <1>4, <1>5 DEF IsWholePlan
<1>7. ToSet(evaluable) = ToSet(works) \cap NamedIn(planned) /\ evaluable \in Seq(ToSet(works))
  BY SelectedSet
<1>8. ToSet(evaluable) \subseteq NamedIn(planned) /\ evaluable \in Seq(ToSet(evaluable))
  BY <1>7, ToSetOf
<1>9. evaluable \in Seq(NamedIn(planned))
  BY <1>8, SequenceOfMore
<1>10. works[i] \in ToSet(works) /\ works[i] = planned[1][1] /\ works[i] \in NamedIn(planned)
  BY <1>1, <1>2, <1>3 DEF ToSet, NamedIn
<1>11. evaluable # <<>>
  BY <1>7, <1>10, ToSetOf
<1>12. evaluable[1] = planned[1][1]
  <2>1. PICK k \in DOMAIN works : /\ works[k] \in NamedIn(planned) /\ evaluable[1] = works[k]
                                  /\ \A j \in 1 .. k - 1 : works[j] \notin NamedIn(planned)
    BY <1>11, SelectedSet
  <2>2. i \in Nat /\ k \in Nat /\ i >= 1 /\ k >= 1
    OBVIOUS
  <2>3. ~(i < k)
    <3>1. i < k => i \in 1 .. k - 1
      BY <2>2
    <3> QED
      BY <1>10, <2>1, <3>1
  <2>4. ~(k < i)
    <3>1. PICK c \in ToSet(planned) : c[1] = works[k]
      BY <2>1 DEF NamedIn
    <3>2. PICK resource \in ToSet(works) : c \in SpotsOf(resource)
      BY <1>1
    <3>3. SpotsOf(works[k]) # {}
      BY <1>3, <3>1, <3>2
    <3>4. k < i => k \in 1 .. i - 1
      BY <2>2
    <3> QED
      BY <1>2, <3>3, <3>4
  <2>5. i = k
    BY <2>2, <2>3, <2>4
  <2> QED
    BY <1>10, <2>1, <2>5
<1> QED
  BY <1>6, <1>9, <1>11, <1>12

(* The same of the resources of a plan that is there already. *)
LEMMA ReusedPlan ==
    ASSUME NEW planned, NEW S, NEW resources \in Seq(S), NEW works,
           works = Selected(resources, NamedIn(planned)),
           NEW evaluable, evaluable = Selected(works, NamedIn(planned))
    PROVE  /\ evaluable \in Seq(NamedIn(planned))
           /\ works # <<>> => evaluable # <<>>
<1>1. works \in Seq(S) /\ ToSet(works) = ToSet(resources) \cap NamedIn(planned)
  BY SelectedSet
<1>2. evaluable \in Seq(S) /\ ToSet(evaluable) = ToSet(works)
  <2>1. evaluable \in Seq(S) /\ ToSet(evaluable) = ToSet(works) \cap NamedIn(planned)
    BY <1>1, SelectedSet
  <2> QED
    BY <1>1, <2>1
<1>3. evaluable \in Seq(ToSet(evaluable)) /\ ToSet(evaluable) \subseteq NamedIn(planned)
  BY <1>1, <1>2, ToSetOf
<1>4. evaluable \in Seq(NamedIn(planned))
  BY <1>3, SequenceOfMore
<1>5. works # <<>> => evaluable # <<>>
  BY <1>1, <1>2, ToSetOf
<1> QED
  BY <1>4, <1>5

-----------------------------------------------------------------------------
(* Verdicts *)

LEMMA JudgedVerdict ==
    ASSUME NEW replies \in Replies, NEW allowed
    PROVE  Judged(replies, allowed) \in Verdicts
<1>1. Len(replies) \in Nat
  BY EveryAttemptIsAnswered, IsAskedAtLeastOnce
<1> DEFINE kept == {i \in 1 .. Len(replies) : i <= Attempts /\ IsContractual(replies[i], allowed)}
           first == CHOOSE i \in kept : \A j \in kept : i <= j
<1>2. Judged(replies, allowed) = IF kept = {} THEN Verdict("EXECUTION_ERROR", "CODE")
                                 ELSE Verdict(replies[first].status, "MODEL")
  BY DEF Judged
<1>3. CASE kept = {}
  BY <1>2, <1>3 DEF Verdict, Verdicts, Statuses, DecisionSources
<1>4. CASE kept # {}
  <2>1. kept \in SUBSET Nat
    BY <1>1
  <2>2. \E i \in kept : \A j \in kept : i <= j
    <3> HIDE DEF kept
    <3> QED
      BY <1>4, <2>1, LeastNumber
  <2>3. first \in kept
    <3> HIDE DEF kept
    <3> QED
      BY <2>2
  <2>4. replies[first].status \in Statuses
    <3> HIDE DEF first
    <3> QED
      BY <2>3 DEF IsContractual
  <2> HIDE DEF first, kept
  <2> QED
    BY <1>2, <1>4, <2>4 DEF Verdict, Verdicts, DecisionSources
<1> QED
  BY <1>3, <1>4

LEMMA ActualVerdictIsOne ==
    ASSUME NEW rule, NEW type, NEW document, NEW answer \in Verdicts
    PROVE  ActualVerdict(rule, type, document, answer) \in Verdicts
<1>1. Verdict("INSUFFICIENT_EVIDENCE", "CODE") \in Verdicts
  BY DEF Verdict, Verdicts, Statuses, DecisionSources
<1>2. PICK decided : decided = Decide(RequiredCapabilities(rule, type), document)
  OBVIOUS
<1>3. decided \in {"PASS", "FAIL"}
  BY <1>2 DEF Decide, Combined
<1>4. Verdict(decided, "CODE") \in Verdicts
  BY <1>3 DEF Verdict, Verdicts, Statuses, DecisionSources
<1> QED
  BY <1>1, <1>2, <1>4 DEF ActualVerdict

LEMMA ReadVerdictIsOne ==
    ASSUME NEW rule, NEW type, NEW observed, NEW answer \in Verdicts
    PROVE  ReadVerdict(rule, type, observed, answer) \in Verdicts
<1>1. Verdict("EXECUTION_ERROR", "CODE") \in Verdicts
  BY DEF Verdict, Verdicts, Statuses, DecisionSources
<1> QED
  BY <1>1, ActualVerdictIsOne DEF ReadVerdict

LEMMA DriftVerdictIsOne ==
    ASSUME NEW iac, NEW actual
    PROVE  DriftVerdict(iac, actual) \in Verdicts
BY DEF DriftVerdict, Verdict, Verdicts, Statuses, DecisionSources

LEMMA ManualVerdictIsOne == ManualVerdict \in Verdicts
BY DEF ManualVerdict, Verdict, Verdicts, Statuses, DecisionSources

-----------------------------------------------------------------------------
(* What is evaluated of a resource *)

Results(w, resource) ==
    [at : SpotsOf(resource), severity : {r.severity : r \in ToSet(Rules)}, verdict : Verdicts,
     run : {worker[w].run}, rubric : {worker[w].rubric}]

LEMMA PerspectiveResults ==
    ASSUME NEW w, worker[w].of \in Assessments, NEW resource, NEW p \in Perspectives,
           NEW asked, asked = Asked("initial", resource, p), NEW verdict,
           \A r \in ToSet(asked) : verdict[r] \in Verdicts
    PROVE  /\ OfPerspective(w, resource, p, verdict) \in Seq(Results(w, resource))
           /\ Len(OfPerspective(w, resource, p, verdict)) = Len(asked)
           /\ asked \in Seq(ToSet(Rules))
           /\ \A i \in DOMAIN asked :
                 /\ asked[i] \in ToSet(asked)
                 /\ OfPerspective(w, resource, p, verdict)[i].at = <<resource, asked[i].name, p>>
                 /\ OfPerspective(w, resource, p, verdict)[i].verdict = verdict[asked[i]]
<1>1. /\ asked \in Seq(ToSet(Rules)) /\ asked = Asked(worker[w].of, resource, p)
      /\ ToSet(asked) = {r \in ToSet(Rules) : /\ TypeOf[resource] \in r.types
                                              /\ p \in PerspectivesFor(r, TypeOf[resource])}
  <2>1. "initial" \in Assessments
    BY DEF Assessments
  <2> QED
    BY <2>1, AskedRules
<1>2. PICK n \in Nat : n = Len(asked) /\ DOMAIN asked = 1 .. n
  BY <1>1
<1>3. PICK found :
          found = [i \in 1 .. n |-> Result(w, <<resource, asked[i].name, p>>, asked[i].severity,
                                           verdict[asked[i]])]
  OBVIOUS
<1>4. found = OfPerspective(w, resource, p, verdict)
  BY <1>1, <1>2, <1>3 DEF OfPerspective
<1>5. ASSUME NEW i \in 1 .. n
      PROVE  asked[i] \in ToSet(asked) /\ found[i] \in Results(w, resource)
  <2>1. PICK r : r = asked[i] /\ r \in ToSet(asked) /\ r \in ToSet(Rules)
    BY <1>1, <1>2 DEF ToSet
  <2>2. PICK c : c = <<resource, r.name, p>>
    OBVIOUS
  <2>3. c \in Spots({resource}) /\ c[1] = resource
    BY <2>1, <2>2 DEF Spots
  <2>4. IsPlannable(c)
    BY <1>1, <2>1, <2>2, <2>3 DEF IsPlannable
  <2>5. c \in SpotsOf(resource)
    BY <2>3, <2>4 DEF SpotsOf
  <2>6. PICK v \in Verdicts : v = verdict[r]
    BY <2>1
  <2>7. Result(w, c, r.severity, v) \in Results(w, resource)
    BY <2>1, <2>5 DEF Result, Results
  <2> QED
    BY <1>3, <2>1, <2>2, <2>6, <2>7
<1>6. found \in Seq(Results(w, resource)) /\ Len(found) = n
  <2>1. PICK S : S = Results(w, resource)
    OBVIOUS
  <2>2. \A i \in 1 .. n : found[i] \in S
    BY <1>5, <2>1
  <2>3. found \in Seq(S) /\ Len(found) = n
    BY <1>3, <2>2
  <2> QED
    BY <2>1, <2>3
<1>7. ASSUME NEW i \in 1 .. n
      PROVE  found[i].at = <<resource, asked[i].name, p>> /\ found[i].verdict = verdict[asked[i]]
  <2>1. PICK c, v, severity : /\ c = <<resource, asked[i].name, p>> /\ v = verdict[asked[i]]
                              /\ severity = asked[i].severity
    OBVIOUS
  <2>2. found[i] = Result(w, c, severity, v)
    BY <1>3, <2>1
  <2> QED
    BY <2>1, <2>2 DEF Result
<1> QED
  BY <1>1, <1>2, <1>4, <1>5, <1>6, <1>7

(* What is stored of a resource: first the first of its coordinates, and what drift is after *)
(* what it is drawn from.                                                                    *)
IsEvaluated(batch, w, resource) ==
    /\ batch \in Seq(Results(w, resource))
    /\ SpotsOf(resource) # {} => batch # <<>> /\ batch[1].at = FirstOf(resource)
    /\ \A i \in DOMAIN batch : batch[i].at[3] = "DRIFT" =>
          \E j, h \in 1 .. i - 1 :
             /\ batch[i].verdict = DriftVerdict(batch[j].verdict, batch[h].verdict)
             /\ batch[j].at = <<batch[i].at[1], batch[i].at[2], "IAC">>
             /\ batch[h].at = <<batch[i].at[1], batch[i].at[2], "AWS_ACTUAL">>

(* The results of the rules that are asked, perspective by perspective. *)
LEMMA BatchResults ==
    ASSUME NEW w, worker[w].of \in Assessments,
           NEW resource, resource = Head(worker[w].works),
           NEW iac, \A r \in ToSet(Asked("initial", resource, "IAC")) : iac[r] \in Verdicts,
           NEW actual,
           \A r \in ToSet(Asked("initial", resource, "AWS_ACTUAL")) : actual[r] \in Verdicts,
           NEW batch, batch = Batch(w, iac, actual)
    PROVE  IsEvaluated(batch, w, resource)
<1>1. PICK ofIac, ofActual, ofManual, ofDrift :
          /\ ofIac = Asked("initial", resource, "IAC")
          /\ ofActual = Asked("initial", resource, "AWS_ACTUAL")
          /\ ofManual = Asked("initial", resource, "MANUAL")
          /\ ofDrift = Asked("initial", resource, "DRIFT")
  OBVIOUS
<1>2. PICK typed : typed = {r \in ToSet(Rules) : TypeOf[resource] \in r.types}
  OBVIOUS
<1>3. ASSUME NEW p
      PROVE  /\ Asked("initial", resource, p) \in Seq(ToSet(Rules))
             /\ ToSet(Asked("initial", resource, p)) =
                    {r \in typed : p \in PerspectivesFor(r, TypeOf[resource])}
  <2>1. "initial" \in Assessments
    BY DEF Assessments
  <2> QED
    BY <1>2, <2>1, AskedRules
<1>4. ToSet(Governing(worker[w].of, resource)) = typed
  BY <1>2, GoverningRules
<1>5. PICK manual, drift : /\ manual = [r \in typed |-> ManualVerdict]
                           /\ drift = [r \in typed |-> DriftVerdict(iac[r], actual[r])]
  OBVIOUS
<1>6. PICK a, b, c, d : /\ a = OfPerspective(w, resource, "IAC", iac)
                        /\ b = OfPerspective(w, resource, "AWS_ACTUAL", actual)
                        /\ c = OfPerspective(w, resource, "MANUAL", manual)
                        /\ d = OfPerspective(w, resource, "DRIFT", drift)
  OBVIOUS
<1>7. batch = a \o b \o c \o d
  <2>1. manual = [r \in ToSet(Governing(worker[w].of, resource)) |-> ManualVerdict]
    BY <1>4, <1>5
  <2>2. drift = [r \in ToSet(Governing(worker[w].of, resource)) |->
                     DriftVerdict(iac[r], actual[r])]
    BY <1>4, <1>5
  <2> QED
    BY <1>6, <2>1, <2>2 DEF Batch
<1>8. "IAC" \in Perspectives /\ "AWS_ACTUAL" \in Perspectives /\ "MANUAL" \in Perspectives
      /\ "DRIFT" \in Perspectives
  BY DEF Perspectives
<1>9. /\ \A r \in ToSet(ofManual) : manual[r] \in Verdicts
      /\ \A r \in ToSet(ofDrift) : r \in typed /\ drift[r] \in Verdicts
  BY <1>1, <1>3, <1>5, ManualVerdictIsOne, DriftVerdictIsOne
<1>10. PICK S : S = Results(w, resource)
  OBVIOUS
<1>11. /\ a \in Seq(S) /\ Len(a) = Len(ofIac) /\ ofIac \in Seq(ToSet(Rules))
       /\ \A i \in DOMAIN ofIac : /\ a[i].at = <<resource, ofIac[i].name, "IAC">>
                                  /\ a[i].verdict = iac[ofIac[i]]
  BY <1>1, <1>6, <1>8, <1>10, PerspectiveResults
<1>12. /\ b \in Seq(S) /\ Len(b) = Len(ofActual) /\ ofActual \in Seq(ToSet(Rules))
       /\ \A i \in DOMAIN ofActual : /\ b[i].at = <<resource, ofActual[i].name, "AWS_ACTUAL">>
                                     /\ b[i].verdict = actual[ofActual[i]]
  BY <1>1, <1>6, <1>8, <1>10, PerspectiveResults
<1>13. /\ c \in Seq(S) /\ Len(c) = Len(ofManual) /\ ofManual \in Seq(ToSet(Rules))
       /\ \A i \in DOMAIN ofManual : c[i].at = <<resource, ofManual[i].name, "MANUAL">>
  BY <1>1, <1>6, <1>8, <1>9, <1>10, PerspectiveResults
<1>14. /\ d \in Seq(S) /\ Len(d) = Len(ofDrift) /\ ofDrift \in Seq(ToSet(Rules))
       /\ \A i \in DOMAIN ofDrift :
             /\ ofDrift[i] \in ToSet(ofDrift)
             /\ d[i].at = <<resource, ofDrift[i].name, "DRIFT">>
             /\ d[i].verdict = drift[ofDrift[i]]
  BY <1>1, <1>6, <1>8, <1>9, <1>10, PerspectiveResults
<1>15. PICK k \in Nat, l \in Nat, m \in Nat, n \in Nat :
          /\ k = Len(ofIac) /\ DOMAIN ofIac = 1 .. k
          /\ l = Len(ofActual) /\ DOMAIN ofActual = 1 .. l
          /\ m = Len(ofManual) /\ DOMAIN ofManual = 1 .. m
          /\ n = Len(ofDrift) /\ DOMAIN ofDrift = 1 .. n
  BY <1>11, <1>12, <1>13, <1>14
<1>16. /\ batch \in Seq(S) /\ DOMAIN batch = 1 .. k + l + m + n
       /\ \A i \in 1 .. k : batch[i] = a[i]
       /\ \A i \in 1 .. l : batch[k + i] = b[i]
       /\ \A i \in 1 .. m : batch[k + l + i] = c[i]
       /\ \A i \in 1 .. n : batch[k + l + m + i] = d[i]
       /\ \A i \in DOMAIN batch :
             \/ i \in 1 .. k \/ i - k \in 1 .. l \/ i - k - l \in 1 .. m
             \/ i - k - l - m \in 1 .. n
  <2>1. a \in Seq(S) /\ b \in Seq(S) /\ c \in Seq(S) /\ d \in Seq(S)
    BY <1>11, <1>12, <1>13, <1>14
  <2>2. k = Len(a) /\ l = Len(b) /\ m = Len(c) /\ n = Len(d)
    BY <1>11, <1>12, <1>13, <1>14, <1>15
  <2> QED
    <3>1. batch \in Seq(S) /\ AreInOrder(batch, a, b, c, d, k, l, m, n)
      BY <1>7, <2>1, <2>2, FourParts
    <3> QED
      BY <3>1 DEF AreInOrder
<1>17. /\ \A i \in 1 .. k : a[i].at[3] = "IAC"
       /\ \A i \in 1 .. l : b[i].at[3] = "AWS_ACTUAL"
       /\ \A i \in 1 .. m : c[i].at[3] = "MANUAL"
  <2>1. \A i \in 1 .. k : a[i].at = <<resource, ofIac[i].name, "IAC">>
    BY <1>11, <1>15
  <2>2. \A i \in 1 .. l : b[i].at = <<resource, ofActual[i].name, "AWS_ACTUAL">>
    BY <1>12, <1>15
  <2>3. \A i \in 1 .. m : c[i].at = <<resource, ofManual[i].name, "MANUAL">>
    BY <1>13, <1>15
  <2> QED
    BY <2>1, <2>2, <2>3
<1>18. \A r \in ToSet(ofDrift) : r \in ToSet(ofIac) /\ r \in ToSet(ofActual)
  BY <1>1, <1>3, PerspectivesOfRule
<1>19. ASSUME SpotsOf(resource) # {}
       PROVE  batch # <<>> /\ batch[1].at = FirstOf(resource)
  <2>1. PICK r \in typed, p \in Perspectives : p \in PerspectivesFor(r, TypeOf[resource])
    <3>1. PICK spot : spot \in Spots({resource}) /\ IsPlannable(spot) /\ spot[1] = resource
      BY <1>19 DEF SpotsOf, Spots
    <3>2. \E r \in ToSet(Rules), p \in Perspectives :
              TypeOf[resource] \in r.types /\ p \in PerspectivesFor(r, TypeOf[resource])
      BY <3>1 DEF IsPlannable
    <3> QED
      BY <1>2, <3>2
  <2>2. \/ r \in ToSet(ofIac) \/ r \in ToSet(ofActual) \/ r \in ToSet(ofManual)
    <3>1. CASE p = "DRIFT"
      BY <1>1, <1>3, <2>1, <3>1, PerspectivesOfRule
    <3>2. CASE p # "DRIFT"
      BY <1>1, <1>3, <2>1, <3>2 DEF Perspectives
    <3> QED
      BY <3>1, <3>2
  <2>3. k # 0 \/ l # 0 \/ m # 0
    BY <1>15, <2>2 DEF ToSet
  <2>4. batch # <<>>
    BY <1>15, <1>16, <2>3
  <2>5. CASE k # 0
    <3>1. 1 \in 1 .. k
      BY <1>15, <2>5
    <3>2. batch[1].at = <<resource, ofIac[1].name, "IAC">>
      BY <1>11, <1>15, <1>16, <3>1
    <3>3. ofIac # <<>>
      BY <1>15, <3>1
    <3>4. FirstOf(resource) = <<resource, ofIac[1].name, "IAC">>
      BY <1>1, <3>3 DEF FirstOf
    <3> QED
      BY <2>4, <3>2, <3>4
  <2>6. CASE k = 0 /\ l # 0
    <3>1. 1 \in 1 .. l /\ k + 1 = 1
      BY <1>15, <2>6
    <3>2. batch[1] = b[1]
      BY <1>16, <3>1
    <3>3. batch[1].at = <<resource, ofActual[1].name, "AWS_ACTUAL">>
      BY <1>12, <1>15, <3>1, <3>2
    <3>4. ofIac = <<>> /\ ofActual # <<>>
      BY <1>11, <1>15, <2>6, <3>1
    <3>5. FirstOf(resource) = <<resource, ofActual[1].name, "AWS_ACTUAL">>
      BY <1>1, <3>4 DEF FirstOf
    <3> QED
      BY <2>4, <3>3, <3>5
  <2>7. CASE k = 0 /\ l = 0
    <3>1. 1 \in 1 .. m /\ k + l + 1 = 1
      BY <1>15, <2>3, <2>7
    <3>2. batch[1] = c[1]
      BY <1>16, <3>1
    <3>3. batch[1].at = <<resource, ofManual[1].name, "MANUAL">>
      BY <1>13, <1>15, <3>1, <3>2
    <3>4. ofIac = <<>> /\ ofActual = <<>>
      BY <1>11, <1>12, <1>15, <2>7
    <3>5. FirstOf(resource) = <<resource, ofManual[1].name, "MANUAL">>
      BY <1>1, <3>4 DEF FirstOf
    <3> QED
      BY <2>4, <3>3, <3>5
  <2> QED
    BY <2>5, <2>6, <2>7
<1>20. ASSUME NEW i \in DOMAIN batch, batch[i].at[3] = "DRIFT"
       PROVE  \E j, h \in 1 .. i - 1 :
                 /\ batch[i].verdict = DriftVerdict(batch[j].verdict, batch[h].verdict)
                 /\ batch[j].at = <<batch[i].at[1], batch[i].at[2], "IAC">>
                 /\ batch[h].at = <<batch[i].at[1], batch[i].at[2], "AWS_ACTUAL">>
  <2>0. /\ i \in Nat
        /\ i \in 1 .. k \/ i - k \in 1 .. l \/ i - k - l \in 1 .. m \/ i - k - l - m \in 1 .. n
    BY <1>16, <1>20
  <2>1. i \notin 1 .. k
    BY <1>16, <1>20, <1>17
  <2>2. i - k \notin 1 .. l
    <3>1. SUFFICES ASSUME i - k \in 1 .. l PROVE FALSE
      OBVIOUS
    <3>2. PICK e \in 1 .. l : i = k + e
      <4>1. i = k + (i - k)
        BY <2>0
      <4> QED
        BY <3>1, <4>1
    <3> QED
      BY <1>16, <1>20, <1>17, <3>2
  <2>3. i - k - l \notin 1 .. m
    <3>1. SUFFICES ASSUME i - k - l \in 1 .. m PROVE FALSE
      OBVIOUS
    <3>2. PICK e \in 1 .. m : i = k + l + e
      <4>1. i = k + l + (i - k - l)
        BY <2>0
      <4> QED
        BY <3>1, <4>1
    <3> QED
      BY <1>16, <1>20, <1>17, <3>2
  <2>4. PICK e \in 1 .. n : i = k + l + m + e
    <3>1. i - k - l - m \in 1 .. n /\ i = k + l + m + (i - k - l - m)
      BY <2>0, <2>1, <2>2, <2>3
    <3> QED
      BY <3>1
  <2>5. PICK r : r = ofDrift[e] /\ r \in ToSet(ofDrift)
    BY <1>14, <1>15
  <2>6. batch[i].at = <<resource, r.name, "DRIFT">> /\ batch[i].verdict = drift[r]
    <3>1. batch[i] = d[e]
      BY <1>16, <2>4
    <3>2. d[e].at = <<resource, ofDrift[e].name, "DRIFT">> /\ d[e].verdict = drift[ofDrift[e]]
      BY <1>14, <1>15
    <3> QED
      BY <2>5, <3>1, <3>2
  <2>7. drift[r] = DriftVerdict(iac[r], actual[r])
    BY <1>5, <1>9, <2>5
  <2>8. PICK j \in 1 .. k : ofIac[j] = r
    BY <1>15, <1>18, <2>5 DEF ToSet
  <2>9. PICK g \in 1 .. l : ofActual[g] = r
    BY <1>15, <1>18, <2>5 DEF ToSet
  <2>10. PICK h : h = k + g
    OBVIOUS
  <2>11. j \in 1 .. i - 1 /\ h \in 1 .. i - 1
    BY <1>15, <2>4, <2>8, <2>9, <2>10
  <2>12. batch[j].at = <<resource, r.name, "IAC">> /\ batch[j].verdict = iac[r]
    <3>1. batch[j] = a[j]
      BY <1>16
    <3>2. a[j].at = <<resource, ofIac[j].name, "IAC">> /\ a[j].verdict = iac[ofIac[j]]
      BY <1>11, <1>15
    <3> QED
      BY <2>8, <3>1, <3>2
  <2>13. batch[h].at = <<resource, r.name, "AWS_ACTUAL">> /\ batch[h].verdict = actual[r]
    <3>1. batch[h] = b[g]
      BY <1>16, <2>10
    <3>2. /\ b[g].at = <<resource, ofActual[g].name, "AWS_ACTUAL">>
          /\ b[g].verdict = actual[ofActual[g]]
      BY <1>12, <1>15
    <3> QED
      BY <2>9, <3>1, <3>2
  <2>14. /\ batch[i].verdict = DriftVerdict(batch[j].verdict, batch[h].verdict)
         /\ batch[j].at = <<batch[i].at[1], batch[i].at[2], "IAC">>
         /\ batch[h].at = <<batch[i].at[1], batch[i].at[2], "AWS_ACTUAL">>
    BY <2>6, <2>7, <2>12, <2>13
  <2> QED
    BY <2>11, <2>14
<1> QED
  BY <1>10, <1>16, <1>19, <1>20 DEF IsEvaluated

-----------------------------------------------------------------------------
(* What stays *)

Extends(some, more) ==
    DOMAIN some \subseteq DOMAIN more /\ \A c \in DOMAIN some : more[c] = some[c]

(* Plans and the pin are written once, and results are never changed. *)
StoreGrows ==
    /\ \A a \in Assessments : /\ plan[a] # <<>> => plan'[a] = plan[a]
                              /\ Extends(results[a], results'[a])
    /\ pin # None => pin' = pin

LEMMA BegunStays ==
    ASSUME NEW some, NEW more, Extends(some, more), NEW resource, NEW run, NEW rubric,
           IsBegun(some, resource, run, rubric)
    PROVE  IsBegun(more, resource, run, rubric)
BY DEF IsBegun, Extends

LEMMA BatchStays ==
    ASSUME NEW some, NEW more, Extends(some, more), NEW wk, IsBatch(wk, some)
    PROVE  IsBatch(wk, more)
<1>1. ASSUME NEW i, NEW at, NEW verdict, IsSettled(some, wk.batch, i, at, verdict)
      PROVE  IsSettled(more, wk.batch, i, at, verdict)
  BY <1>1 DEF IsSettled, Extends
<1> QED
  BY <1>1, BegunStays DEF IsBatch

LEMMA DeliveryStays ==
    ASSUME NEW wk, IsDelivery(wk), StoreGrows
    PROVE  IsDelivery(wk)'
<1>1. wk.of = "initial" /\ IsBegun(results["initial"], wk.planned[1][1], wk.run, wk.rubric)
          => IsBegun(results'["initial"], wk.planned[1][1], wk.run, wk.rubric)
  <2>1. Extends(results["initial"], results'["initial"])
    BY DEF StoreGrows, Assessments
  <2> QED
    BY <2>1, BegunStays
<1>2. \A a \in Assessments : plan[a] = wk.planned => plan'[a] = wk.planned
  BY DEF IsDelivery, IsDeliveryOf, StoreGrows
<1>3. wk.of = "verification" => wk.planned = plan'["initial"] /\ wk.rubric = pin' /\ pin' # None
  BY <1>2 DEF IsDelivery, IsDeliveryOf, StoreGrows, Assessments
<1> QED
  BY <1>1, <1>2, <1>3 DEF IsDelivery, IsDeliveryOf

(* A step of one worker. *)
LEMMA WorkersStay ==
    ASSUME ShapeInv, WorkerInv, StoreGrows,
           NEW w \in Workers, NEW new, worker' = [worker EXCEPT ![w] = new],
           new.pc \in {"idle", "plan", "put plan", "evaluate", "store", "refused"},
           new.pc \notin {"idle", "refused"} => IsDelivery(new)',
           new.pc = "store" => IsBatch(new, results'[new.of])
    PROVE  WorkerInv'
<1>1. \A v \in Workers : worker'[v] = IF v = w THEN new ELSE worker[v]
  BY DEF ShapeInv
<1>2. ASSUME NEW v \in Workers
      PROVE  /\ worker'[v].pc \in {"idle", "plan", "put plan", "evaluate", "store", "refused"}
             /\ worker'[v].pc \notin {"idle", "refused"} => IsDelivery(worker[v])'
             /\ worker'[v].pc = "store" => IsBatch(worker'[v], results'[worker'[v].of])
  <2>1. CASE v = w
    <3>1. worker'[v] = new
      BY <1>1, <2>1
    <3>2. new.pc \notin {"idle", "refused"} => IsDelivery(worker[v])'
      BY <3>1 DEF IsDelivery, IsDeliveryOf
    <3> QED
      BY <3>1, <3>2
  <2>2. CASE v # w
    <3>1. PICK wk : wk = worker[v] /\ wk = worker'[v]
      BY <1>1, <2>2
    <3>2. /\ wk.pc \in {"idle", "plan", "put plan", "evaluate", "store", "refused"}
          /\ wk.pc \notin {"idle", "refused"} => IsDelivery(wk)
          /\ wk.pc = "store" => IsBatch(wk, results[wk.of])
      BY <3>1 DEF WorkerInv, IsDelivery, IsDeliveryOf
    <3>3. wk.pc \notin {"idle", "refused"} => IsDelivery(wk)'
      BY <3>2, DeliveryStays
    <3>4. wk.pc \notin {"idle", "refused"} => IsDelivery(worker[v])'
      BY <3>1, <3>3 DEF IsDelivery, IsDeliveryOf
    <3>5. wk.pc = "store" => IsBatch(wk, results'[wk.of])
      <4>1. wk.pc = "store" => wk.of \in Assessments
        BY <3>2 DEF IsDelivery, IsDeliveryOf
      <4> QED
        BY <3>2, <4>1, BatchStays DEF StoreGrows
    <3> QED
      BY <3>1, <3>2, <3>4, <3>5
  <2> QED
    BY <2>1, <2>2
<1> QED
  BY <1>2 DEF WorkerInv

LEMMA ShapeStays ==
    ASSUME ShapeInv, NEW w \in Workers, NEW new, worker' = [worker EXCEPT ![w] = new],
           IsRecord(new)
    PROVE  DOMAIN worker' = Workers /\ \A v \in Workers : IsRecord(worker'[v])
<1>1. DOMAIN worker' = Workers /\ \A v \in Workers : worker'[v] = IF v = w THEN new ELSE worker[v]
  BY DEF ShapeInv
<1>2. \A v \in Workers : IsRecord(worker[v])
  BY DEF ShapeInv
<1>3. ASSUME NEW v \in Workers
      PROVE  IsRecord(worker'[v])
  <2>1. CASE v = w
    BY <1>1, <2>1
  <2>2. CASE v # w
    BY <1>1, <1>2, <2>2
  <2> QED
    BY <2>1, <2>2
<1> QED
  BY <1>1, <1>3

(* A worker that goes on with its delivery. *)
LEMMA GoesOn ==
    ASSUME NEW wk, IsRecord(wk), NEW pc, NEW new, new = [wk EXCEPT !.pc = pc]
    PROVE  /\ IsRecord(new) /\ new.pc = pc
           /\ IsDelivery(wk) /\ (pc \in {"evaluate", "store"} => plan[wk.of] = wk.planned)
                  => IsDelivery(new)
<1>1. /\ new = [pc |-> pc, of |-> wk.of, run |-> wk.run, rubric |-> wk.rubric,
                planned |-> wk.planned, works |-> wk.works, batch |-> wk.batch]
  BY DEF IsRecord
<1>2. /\ new.pc = pc /\ new.of = wk.of /\ new.run = wk.run /\ new.rubric = wk.rubric
      /\ new.planned = wk.planned /\ new.works = wk.works /\ new.batch = wk.batch
  BY <1>1
<1>3. IsRecord(new)
  BY <1>1, <1>2 DEF IsRecord
<1> QED
  BY <1>2, <1>3 DEF IsDelivery, IsDeliveryOf

LEMMA NamedResource ==
    ASSUME NEW planned, IsWholePlan(planned), NEW resource \in NamedIn(planned)
    PROVE  /\ SpotsOf(resource) # {} /\ SpotsOf(resource) \subseteq ToSet(planned)
           /\ \A c \in SpotsOf(resource) : c[1] = resource
<1>1. PICK c \in ToSet(planned) : c[1] = resource /\ IsPlannable(c)
  BY DEF NamedIn, IsWholePlan
<1>2. PICK r \in ToSet(Rules), p \in Perspectives : c = <<resource, r.name, p>>
  BY <1>1 DEF IsPlannable
<1>3. c \in SpotsOf(resource)
  BY <1>1, <1>2 DEF SpotsOf, Spots
<1>4. ASSUME NEW d \in SpotsOf(resource)
      PROVE  d \in ToSet(planned) /\ d[1] = resource
  <2>1. d[1] = resource /\ IsPlannable(d)
    BY DEF SpotsOf, Spots
  <2>2. PICK q \in ToSet(Rules), o \in Perspectives :
            /\ TypeOf[resource] \in q.types /\ o \in PerspectivesFor(q, TypeOf[resource])
            /\ d = <<resource, q.name, o>>
    BY <2>1 DEF IsPlannable
  <2> QED
    BY <1>1, <2>1, <2>2 DEF IsWholePlan
<1> QED
  BY <1>3, <1>4

-----------------------------------------------------------------------------
(* The steps preserve the invariant *)

LEMMA InitInvariant == Init => RunInv
<1> SUFFICES ASSUME Init PROVE RunInv
  OBVIOUS
<1> USE DEF Init
<1>1. ASSUME NEW a \in Assessments
      PROVE  plan[a] = <<>> /\ results[a] = <<>> /\ findings[a] = <<>> /\ counter[a] = 0
  OBVIOUS
<1>2. DOMAIN <<>> = {} /\ ToSet(<<>>) = {} /\ <<>> \in Seq({}) /\ Len(<<>>) = 0
  BY DEF ToSet
<1>3. \A w \in Workers : worker[w] = Idle
  OBVIOUS
<1>4. ShapeInv
  <2>1. \A w \in Workers : IsRecord(worker[w])
    BY <1>3 DEF IsRecord, Idle
  <2>2. \A a \in Assessments : results[a] = [c \in DOMAIN results[a] |-> results[a][c]]
    BY <1>1
  <2> QED
    BY <2>1, <2>2 DEF ShapeInv
<1>5. PlanInv
  <2>1. IsWholePlan(<<>>)
    BY <1>2 DEF IsWholePlan
  <2> QED
    BY <1>1, <2>1 DEF PlanInv, Assessments
<1>6. SetupInv
  BY DeployedIsConfigured, DeliveriesAreBounded DEF SetupInv, Assessments
<1>7. PinInv
  BY <1>1, <1>2 DEF PinInv, Assessments
<1>8. CountInv
  BY <1>1, <1>2, FS_EmptySet DEF CountInv
<1>9. ResultInv
  BY <1>1, <1>2 DEF ResultInv
<1>10. FindingInv
  BY <1>1, <1>2 DEF FindingInv
<1>11. WorkerInv
  BY <1>3 DEF WorkerInv, Idle
<1>12. DriftIsOfStoredVerdicts
  BY <1>1, <1>2 DEF DriftIsOfStoredVerdicts
<1> QED
  BY <1>4, <1>5, <1>6, <1>7, <1>8, <1>9, <1>10, <1>11, <1>12 DEF RunInv

(* A step that leaves the store and the pin alone. *)
LEMMA StoreKept ==
    ASSUME RunInv, UNCHANGED <<pin, store>>,
           DOMAIN worker' = Workers, \A v \in Workers : IsRecord(worker'[v])
    PROVE  /\ StoreGrows
           /\ ShapeInv' /\ PlanInv' /\ PinInv' /\ CountInv' /\ ResultInv' /\ FindingInv'
           /\ DriftIsOfStoredVerdicts'
<1>1. plan' = plan /\ counter' = counter /\ results' = results /\ findings' = findings /\ pin' = pin
  BY DEF store
<1>2. StoreGrows
  BY <1>1 DEF StoreGrows, Extends
<1>3. ShapeInv'
  BY <1>1 DEF RunInv, ShapeInv
<1>4. PlanInv'
  BY <1>1 DEF RunInv, PlanInv
<1>5. PinInv' /\ CountInv'
  BY <1>1 DEF RunInv, PinInv, CountInv
<1>6. ResultInv'
  BY <1>1 DEF RunInv, ResultInv
<1>7. FindingInv'
  BY <1>1 DEF RunInv, FindingInv
<1>8. DriftIsOfStoredVerdicts'
  BY <1>1 DEF RunInv, DriftIsOfStoredVerdicts
<1> QED
  BY <1>2, <1>3, <1>4, <1>5, <1>6, <1>7, <1>8

LEMMA SetupKept ==
    ASSUME RunInv, UNCHANGED <<configuration, changes, received>>
    PROVE  SetupInv'
BY DEF RunInv, SetupInv

LEMMA StutterPreserves ==
    ASSUME RunInv, UNCHANGED vars
    PROVE  RunInv'
<1>1. UNCHANGED <<pin, store>> /\ UNCHANGED <<configuration, changes, received>> /\ worker' = worker
  BY DEF vars, store
<1>2. DOMAIN worker' = Workers /\ \A v \in Workers : IsRecord(worker'[v])
  BY <1>1 DEF RunInv, ShapeInv
<1>3. /\ StoreGrows
      /\ ShapeInv' /\ PlanInv' /\ PinInv' /\ CountInv' /\ ResultInv' /\ FindingInv'
      /\ DriftIsOfStoredVerdicts'
  BY <1>1, <1>2, StoreKept
<1>4. WorkerInv'
  BY <1>1 DEF RunInv, WorkerInv, IsDelivery, IsDeliveryOf, store
<1> QED
  BY <1>1, <1>3, <1>4, SetupKept DEF RunInv

LEMMA ReconfigurePreserves ==
    ASSUME RunInv, Reconfigure
    PROVE  RunInv'
<1> USE DEF Reconfigure
<1>1. UNCHANGED <<pin, store>> /\ worker' = worker
  OBVIOUS
<1>2. DOMAIN worker' = Workers /\ \A v \in Workers : IsRecord(worker'[v])
  BY <1>1 DEF RunInv, ShapeInv
<1>3. /\ StoreGrows
      /\ ShapeInv' /\ PlanInv' /\ PinInv' /\ CountInv' /\ ResultInv' /\ FindingInv'
      /\ DriftIsOfStoredVerdicts'
  BY <1>1, <1>2, StoreKept
<1>4. WorkerInv'
  BY <1>1 DEF RunInv, WorkerInv, IsDelivery, IsDeliveryOf, store
<1>5. SetupInv'
  BY DeliveriesAreBounded DEF RunInv, SetupInv
<1> QED
  BY <1>3, <1>4, <1>5 DEF RunInv

(* A step of one worker that leaves everything else alone. *)
LEMMA WorkerStep ==
    ASSUME RunInv, UNCHANGED <<setup, received, store>>,
           NEW w \in Workers, NEW new, worker' = [worker EXCEPT ![w] = new], IsRecord(new),
           new.pc \in {"idle", "plan", "put plan", "evaluate", "store", "refused"},
           new.pc \notin {"idle", "refused"} => IsDelivery(new),
           new.pc = "store" => IsBatch(new, results[new.of])
    PROVE  RunInv'
<1>1. /\ UNCHANGED <<pin, store>> /\ UNCHANGED <<configuration, changes, received>>
      /\ results' = results /\ ShapeInv /\ WorkerInv
  BY DEF setup, store, RunInv
<1>2. DOMAIN worker' = Workers /\ \A v \in Workers : IsRecord(worker'[v])
  BY <1>1, ShapeStays
<1>3. /\ StoreGrows
      /\ ShapeInv' /\ PlanInv' /\ PinInv' /\ CountInv' /\ ResultInv' /\ FindingInv'
      /\ DriftIsOfStoredVerdicts'
  BY <1>1, <1>2, StoreKept
<1>4. new.pc \notin {"idle", "refused"} => IsDelivery(new)'
  BY <1>3, DeliveryStays
<1>5. WorkerInv'
  BY <1>1, <1>3, <1>4, WorkersStay
<1> QED
  BY <1>1, <1>3, <1>5, SetupKept DEF RunInv

LEMMA StopPreserves ==
    ASSUME RunInv, NEW w \in Workers, Stop(w)
    PROVE  RunInv'
<1>1. PICK new : new = Idle
  OBVIOUS
<1>2. IsRecord(new) /\ new.pc = "idle"
  BY <1>1 DEF Idle, IsRecord
<1> QED
  BY <1>1, <1>2, WorkerStep DEF Stop

LEMMA LookForPlanPreserves ==
    ASSUME RunInv, NEW w \in Workers, LookForPlan(w)
    PROVE  RunInv'
<1>1. PICK wk : wk = worker[w] /\ IsRecord(wk) /\ wk.pc = "plan" /\ IsDelivery(wk)
  BY DEF RunInv, ShapeInv, WorkerInv, LookForPlan, At, IsDelivery, IsDeliveryOf
<1>2. PICK pc : pc = IF plan[wk.of] = <<>> THEN "put plan"
                     ELSE IF plan[wk.of] = wk.planned THEN "evaluate" ELSE "refused"
  OBVIOUS
<1>3. PICK new : new = [wk EXCEPT !.pc = pc]
  OBVIOUS
<1>4. worker' = [worker EXCEPT ![w] = new] /\ UNCHANGED <<setup, received, store>>
  BY <1>1, <1>2, <1>3 DEF LookForPlan, GoTo, IsOwnPlan
<1>5. /\ IsRecord(new) /\ new.pc = pc
      /\ (pc \in {"evaluate", "store"} => plan[wk.of] = wk.planned) => IsDelivery(new)
  BY <1>1, <1>3, GoesOn
<1>6. pc \in {"put plan", "evaluate", "refused"} /\ (pc = "evaluate" => plan[wk.of] = wk.planned)
  BY <1>2
<1>7. IsDelivery(new)
  BY <1>5, <1>6
<1> QED
  BY <1>4, <1>5, <1>6, <1>7, WorkerStep

LEMMA PutPlanPreserves ==
    ASSUME RunInv, NEW w \in Workers, PutPlan(w)
    PROVE  RunInv'
<1>1. PICK wk : wk = worker[w] /\ IsRecord(wk) /\ wk.pc = "put plan" /\ IsDelivery(wk)
  BY DEF RunInv, ShapeInv, WorkerInv, PutPlan, At, IsDelivery, IsDeliveryOf
<1>2. PICK a \in Assessments : a = wk.of
  BY <1>1 DEF IsDelivery, IsDeliveryOf
<1>3. CASE plan[a] # <<>>
  <2>1. PICK new : new = [wk EXCEPT !.pc = "plan"]
    OBVIOUS
  <2>2. worker' = [worker EXCEPT ![w] = new] /\ UNCHANGED <<setup, received, store>>
    BY <1>1, <1>2, <1>3, <2>1 DEF PutPlan, GoTo, store
  <2>3. IsRecord(new) /\ new.pc = "plan" /\ IsDelivery(new)
    <3>1. PICK pc : pc = "plan"
      OBVIOUS
    <3>2. new = [wk EXCEPT !.pc = pc] /\ pc \notin {"evaluate", "store"}
      BY <2>1, <3>1
    <3> QED
      BY <1>1, <3>1, <3>2, GoesOn
  <2> QED
    BY <2>2, <2>3, WorkerStep
<1>4. CASE plan[a] = <<>>
  <2>1. PICK new : new = [wk EXCEPT !.pc = "evaluate"]
    OBVIOUS
  <2>2. /\ worker' = [worker EXCEPT ![w] = new]
        /\ plan' = [plan EXCEPT ![a] = wk.planned]
        /\ UNCHANGED <<setup, received, counter, results, findings>>
    BY <1>1, <1>2, <1>4, <2>1 DEF PutPlan, GoTo
  <2>3. /\ pin' = pin /\ received' = received /\ configuration' = configuration
        /\ changes' = changes /\ counter' = counter /\ results' = results /\ findings' = findings
    BY <2>2 DEF setup
  <2>4. \A b \in Assessments : plan'[b] = IF b = a THEN wk.planned ELSE plan[b]
    BY <2>2 DEF RunInv, ShapeInv
  <2>5. StoreGrows
    BY <1>4, <2>3, <2>4 DEF StoreGrows, Extends
  <2>6. /\ IsRecord(new) /\ new.pc = "evaluate"
        /\ new.of = wk.of /\ new.planned = wk.planned
    BY <1>1, <2>1, GoesOn DEF IsRecord
  <2>7. IsDelivery(new)'
    <3>1. IsDelivery(wk)'
      BY <1>1, <2>5, DeliveryStays
    <3>2. /\ new.rubric = wk.rubric /\ new.run = wk.run /\ new.works = wk.works
      BY <1>1, <2>1 DEF IsRecord
    <3>3. plan'[new.of] = new.planned
      BY <1>2, <2>4, <2>6
    <3> QED
      BY <2>6, <3>1, <3>2, <3>3 DEF IsDelivery, IsDeliveryOf
  <2>8. ShapeInv'
    BY <2>2, <2>3, <2>6, ShapeStays DEF RunInv, ShapeInv
  <2>9. PlanInv'
    <3>1. IsWholePlan(wk.planned)
      BY <1>1 DEF IsDelivery, IsDeliveryOf
    <3>2. \A b \in Assessments : IsWholePlan(plan'[b])
      BY <2>4, <3>1 DEF RunInv, PlanInv
    <3>3. plan'["verification"] \in {<<>>, plan'["initial"]}
      BY <1>1, <1>2, <1>4, <2>4 DEF RunInv, PlanInv, Assessments, IsDelivery, IsDeliveryOf
    <3> QED
      BY <3>2, <3>3 DEF PlanInv
  <2>10. SetupInv'
    BY <2>3, SetupKept DEF RunInv
  <2>11. PinInv' /\ FindingInv' /\ DriftIsOfStoredVerdicts'
    BY <2>3 DEF RunInv, PinInv, FindingInv, DriftIsOfStoredVerdicts
  <2>12. DOMAIN results[a] = {} /\ counter[a] = 0
    <3>1. \A c \in DOMAIN results[a] : c \in ToSet(<<>>)
      BY <1>4 DEF RunInv, ResultInv
    <3>2. ToSet(<<>>) = {}
      BY DEF ToSet
    <3> QED
      BY <3>1, <3>2, FS_EmptySet DEF RunInv, CountInv
  <2>13. CountInv'
    <3>1. \A b \in Assessments : counter[b] <= Len(plan'[b])
      <4>1. Len(wk.planned) \in Nat
        <5>1. PICK planned, S : planned = wk.planned /\ planned \in Seq(S)
          BY <1>1 DEF IsDelivery, IsDeliveryOf, IsWholePlan
        <5> QED
          BY <5>1
      <4> QED
        BY <2>4, <2>12, <4>1 DEF RunInv, CountInv
    <3> QED
      BY <2>3, <3>1 DEF RunInv, CountInv
  <2>14. ResultInv'
    <3>1. ASSUME NEW b \in Assessments, NEW c \in DOMAIN results[b]
          PROVE  plan'[b] = plan[b]
      BY <2>4, <2>12
    <3> QED
      BY <2>3, <3>1 DEF RunInv, ResultInv
  <2>15. WorkerInv'
    BY <2>2, <2>5, <2>6, <2>7, WorkersStay DEF RunInv
  <2> QED
    BY <2>8, <2>9, <2>10, <2>11, <2>13, <2>14, <2>15 DEF RunInv
<1> QED
  BY <1>3, <1>4

(* What Evaluate makes of the replies: verdicts on all that is asked. *)
LEMMA Evaluation ==
    ASSUME NEW w, worker[w].of \in Assessments, NEW resource, resource = Head(worker[w].works),
           Evaluate(w)
    PROVE  \E iac, actual :
              /\ \A r \in ToSet(Asked("initial", resource, "IAC")) : iac[r] \in Verdicts
              /\ \A r \in ToSet(Asked("initial", resource, "AWS_ACTUAL")) : actual[r] \in Verdicts
              /\ worker' = [worker EXCEPT ![w].pc = "store", ![w].batch = Batch(w, iac, actual)]
<1> DEFINE here == Head(worker[w].works)
           rules == ToSet(Governing(worker[w].of, here))
           asked(p) == ToSet(Asked(worker[w].of, here, p))
           judged(p, r, replies) == Judged(replies, AllowedEvidence(ReadEvidence(p, here), r))
           ofIac(onFiles) == [r \in asked("IAC") |-> judged("IAC", r, onFiles[r])]
           ofActual(onRead, observed) ==
               [r \in asked("AWS_ACTUAL") |-> ReadVerdict(r, TypeOf[here], observed[r],
                                                  judged("AWS_ACTUAL", r, onRead[r]))]
           total(some) == [r \in rules |-> IF r \in DOMAIN some THEN some[r] ELSE NoVerdict]
<1>1. PICK onFiles \in [asked("IAC") -> Replies], onRead \in [asked("AWS_ACTUAL") -> Replies],
           observed \in [asked("AWS_ACTUAL") -> Documents[TypeOf[here]]] :
          worker' = [worker EXCEPT ![w].pc = "store",
                                   ![w].batch = Batch(w, total(ofIac(onFiles)),
                                                      total(ofActual(onRead, observed)))]
  BY DEF Evaluate
<1>2. PICK onIac, onActual : onIac = asked("IAC") /\ onActual = asked("AWS_ACTUAL")
  OBVIOUS
<1>3. /\ onIac = ToSet(Asked("initial", resource, "IAC"))
      /\ onActual = ToSet(Asked("initial", resource, "AWS_ACTUAL"))
      /\ onIac \subseteq rules /\ onActual \subseteq rules
  BY <1>2, AskedRules, GoverningRules
<1>4. PICK iac, actual : iac = total(ofIac(onFiles)) /\ actual = total(ofActual(onRead, observed))
  OBVIOUS
<1>5. ASSUME NEW r \in onIac
      PROVE  iac[r] \in Verdicts
  <2>1. judged("IAC", r, onFiles[r]) \in Verdicts
    BY <1>2, JudgedVerdict
  <2>2. iac[r] = judged("IAC", r, onFiles[r])
    <3> HIDE DEF judged, asked, rules
    <3> QED
      BY <1>2, <1>3, <1>4
  <2> QED
    BY <2>1, <2>2
<1>6. ASSUME NEW r \in onActual
      PROVE  actual[r] \in Verdicts
  <2>1. PICK answer \in Verdicts : answer = judged("AWS_ACTUAL", r, onRead[r])
    BY <1>2, JudgedVerdict
  <2>2. actual[r] = ReadVerdict(r, TypeOf[here], observed[r], answer)
    <3> HIDE DEF judged, asked, rules, here
    <3> QED
      BY <1>2, <1>3, <1>4, <2>1
  <2> QED
    BY <2>2, ReadVerdictIsOne
<1>7. worker' = [worker EXCEPT ![w].pc = "store", ![w].batch = Batch(w, iac, actual)]
  BY <1>1, <1>4
<1> HIDE DEF judged, ofIac, ofActual, total
<1> QED
  BY <1>3, <1>5, <1>6, <1>7

(* What was evaluated of a resource may be stored. *)
LEMMA EvaluatedBatch ==
    ASSUME NEW w, worker[w].of \in Assessments, NEW wk, wk = worker[w],
           IsWholePlan(wk.planned), wk.works # <<>>, wk.works \in Seq(NamedIn(wk.planned)),
           NEW iac, NEW actual,
           \A r \in ToSet(Asked("initial", wk.works[1], "IAC")) : iac[r] \in Verdicts,
           \A r \in ToSet(Asked("initial", wk.works[1], "AWS_ACTUAL")) : actual[r] \in Verdicts,
           NEW new, new.works = wk.works, new.planned = wk.planned, new.run = wk.run,
           new.rubric = wk.rubric, new.batch = Batch(w, iac, actual), NEW some
    PROVE  IsBatch(new, some)
<1>1. PICK resource, batch : resource = wk.works[1] /\ batch = Batch(w, iac, actual)
  OBVIOUS
<1>2. resource = Head(worker[w].works) /\ resource \in NamedIn(wk.planned)
  <2>1. PICK S, works : S = NamedIn(wk.planned) /\ works = wk.works /\ works \in Seq(S)
                        /\ works # <<>>
    OBVIOUS
  <2>2. works[1] \in S /\ Head(works) = works[1]
    BY <2>1
  <2> QED
    BY <1>1, <2>1, <2>2
<1>3. /\ SpotsOf(resource) # {} /\ SpotsOf(resource) \subseteq ToSet(wk.planned)
      /\ \A c \in SpotsOf(resource) : c[1] = resource
  BY <1>2, NamedResource
<1>4. /\ batch \in Seq(Results(w, resource))
      /\ batch # <<>> /\ batch[1].at = FirstOf(resource)
      /\ \A i \in DOMAIN batch : batch[i].at[3] = "DRIFT" =>
            \E j, h \in 1 .. i - 1 :
               /\ batch[i].verdict = DriftVerdict(batch[j].verdict, batch[h].verdict)
               /\ batch[j].at = <<batch[i].at[1], batch[i].at[2], "IAC">>
               /\ batch[h].at = <<batch[i].at[1], batch[i].at[2], "AWS_ACTUAL">>
  <2>1. IsEvaluated(batch, w, resource)
    BY <1>1, <1>2, BatchResults
  <2> QED
    BY <1>3, <2>1 DEF IsEvaluated
<1>5. PICK S : S = Results(w, resource)
  OBVIOUS
<1>6. batch \in Seq(ToSet(batch)) /\ DOMAIN batch = 1 .. Len(batch) /\ Len(batch) \in Nat
  <2>1. batch \in Seq(S)
    BY <1>4, <1>5
  <2> QED
    BY <2>1, ToSetOf
<1>7. ASSUME NEW i \in DOMAIN batch
      PROVE  batch[i] \in Results(w, resource)
  <2>1. batch \in Seq(S)
    BY <1>4, <1>5
  <2>2. batch[i] \in S
    BY <2>1
  <2> QED
    BY <1>5, <2>2
<1>8. ASSUME NEW i \in DOMAIN batch
      PROVE  /\ batch[i].at \in ToSet(wk.planned) /\ batch[i].at[1] = resource
             /\ batch[i].verdict \in Verdicts
             /\ batch[i].run = wk.run /\ batch[i].rubric = wk.rubric
  <2>1. /\ batch[i].at \in SpotsOf(resource) /\ batch[i].verdict \in Verdicts
        /\ batch[i].run = worker[w].run /\ batch[i].rubric = worker[w].rubric
    BY <1>7 DEF Results
  <2> QED
    BY <1>3, <2>1
<1>9. ASSUME NEW i \in DOMAIN batch, batch[i].at[3] = "DRIFT"
      PROVE  \E one, other \in Verdicts :
                /\ batch[i].verdict = DriftVerdict(one, other)
                /\ IsSettled(some, batch, i, <<batch[i].at[1], batch[i].at[2], "IAC">>, one)
                /\ IsSettled(some, batch, i, <<batch[i].at[1], batch[i].at[2], "AWS_ACTUAL">>,
                             other)
  <2>1. PICK j \in 1 .. i - 1, h \in 1 .. i - 1 :
               /\ batch[i].verdict = DriftVerdict(batch[j].verdict, batch[h].verdict)
               /\ batch[j].at = <<batch[i].at[1], batch[i].at[2], "IAC">>
               /\ batch[h].at = <<batch[i].at[1], batch[i].at[2], "AWS_ACTUAL">>
    BY <1>4, <1>9
  <2>2. j \in DOMAIN batch /\ h \in DOMAIN batch
    BY <1>6
  <2>3. PICK one \in Verdicts, other \in Verdicts :
            one = batch[j].verdict /\ other = batch[h].verdict
    BY <1>8, <2>2
  <2>4. IsSettled(some, batch, i, <<batch[i].at[1], batch[i].at[2], "IAC">>, one)
    BY <2>1, <2>3 DEF IsSettled
  <2>5. IsSettled(some, batch, i, <<batch[i].at[1], batch[i].at[2], "AWS_ACTUAL">>, other)
    BY <2>1, <2>3 DEF IsSettled
  <2> QED
    BY <2>1, <2>3, <2>4, <2>5
<1>10. new.batch = batch /\ new.works[1] = resource
  BY <1>1
<1> QED
  BY <1>4, <1>6, <1>8, <1>9, <1>10 DEF IsBatch

LEMMA EvaluatePreserves ==
    ASSUME RunInv, NEW w \in Workers, Evaluate(w)
    PROVE  RunInv'
<1>1. PICK wk : wk = worker[w] /\ IsRecord(wk) /\ wk.pc = "evaluate" /\ IsDelivery(wk)
  BY DEF RunInv, ShapeInv, WorkerInv, Evaluate, At, IsDelivery, IsDeliveryOf
<1>2. /\ worker[w].of \in Assessments /\ IsWholePlan(wk.planned)
      /\ wk.works # <<>> /\ wk.works \in Seq(NamedIn(wk.planned))
      /\ plan[wk.of] = wk.planned
  BY <1>1 DEF IsDelivery, IsDeliveryOf
<1>3. PICK resource : resource = Head(worker[w].works) /\ resource = wk.works[1]
  <2>1. PICK S, works : S = NamedIn(wk.planned) /\ works = wk.works /\ works \in Seq(S)
                        /\ works # <<>>
    BY <1>2
  <2>2. Head(works) = works[1]
    BY <2>1
  <2> QED
    BY <1>1, <2>1, <2>2
<1>4. PICK iac, actual :
              /\ \A r \in ToSet(Asked("initial", resource, "IAC")) : iac[r] \in Verdicts
              /\ \A r \in ToSet(Asked("initial", resource, "AWS_ACTUAL")) : actual[r] \in Verdicts
              /\ worker' = [worker EXCEPT ![w].pc = "store", ![w].batch = Batch(w, iac, actual)]
  BY <1>2, <1>3, Evaluation
<1>5. PICK batch : batch = Batch(w, iac, actual)
  OBVIOUS
<1>6. PICK new : new = [wk EXCEPT !.pc = "store", !.batch = batch]
  OBVIOUS
<1>7. worker' = [worker EXCEPT ![w] = new] /\ UNCHANGED <<setup, received, store>>
  BY <1>1, <1>4, <1>5, <1>6 DEF Evaluate, RunInv, ShapeInv
<1>8. /\ new.pc = "store" /\ new.batch = batch /\ new.of = wk.of /\ new.run = wk.run
      /\ new.rubric = wk.rubric /\ new.planned = wk.planned /\ new.works = wk.works
      /\ IsRecord(new)
  BY <1>1, <1>6 DEF IsRecord
<1>9. IsDelivery(new)
  BY <1>1, <1>2, <1>8 DEF IsDelivery, IsDeliveryOf
<1>10. IsBatch(new, results[new.of])
  BY <1>1, <1>2, <1>3, <1>4, <1>5, <1>8, EvaluatedBatch
<1> QED
  BY <1>7, <1>8, <1>9, <1>10, WorkerStep

(* The rest of a sequence. *)
FollowsFirst(t, s) ==
    /\ Len(s) \in Nat /\ DOMAIN t = 1 .. Len(s) - 1
    /\ \A i \in DOMAIN t : t[i] = s[i + 1] /\ i + 1 \in DOMAIN s

LEMMA RestOfSequence ==
    ASSUME NEW S, NEW s \in Seq(S), NEW t, t = Tail(s), Len(s) > 1
    PROVE  t \in Seq(S) /\ t # <<>> /\ t \in Seq(ToSet(t)) /\ FollowsFirst(t, s)
<1>1. t \in Seq(S) /\ Len(t) = Len(s) - 1 /\ Len(s) \in Nat /\ DOMAIN s = 1 .. Len(s)
  OBVIOUS
<1>2. DOMAIN t = 1 .. Len(s) - 1
  BY <1>1
<1>3. \A i \in DOMAIN t : t[i] = s[i + 1] /\ i + 1 \in DOMAIN s
  BY <1>1, <1>2
<1>4. t # <<>>
  <2>1. Len(t) # 0
    BY <1>1
  <2>2. Len(<<>>) = 0
    OBVIOUS
  <2> QED
    BY <2>1, <2>2
<1>5. t \in Seq(ToSet(t))
  BY <1>1, ToSetOf
<1> QED
  BY <1>1, <1>2, <1>3, <1>4, <1>5 DEF FollowsFirst

(* The first result that a worker has to store begins its resource, if nothing of the *)
(* delivery did before.                                                               *)
LEMMA FirstIsBegun ==
    ASSUME NEW wk, NEW some, IsBatch(wk, some), NEW r, r = Head(wk.batch),
           r.at \in DOMAIN some, some[r.at] = r
    PROVE  /\ r = wk.batch[1] /\ 1 \in DOMAIN wk.batch
           /\ r.run = wk.run /\ r.rubric = wk.rubric /\ r.at[1] = wk.works[1]
           /\ IsBegun(some, wk.works[1], wk.run, wk.rubric)
<1>1. PICK batch, S : batch = wk.batch /\ S = ToSet(batch) /\ batch \in Seq(S) /\ batch # <<>>
  BY DEF IsBatch
<1>2. r = batch[1] /\ 1 \in DOMAIN batch
  BY <1>1
<1>3. /\ r.run = wk.run /\ r.rubric = wk.rubric /\ r.at[1] = wk.works[1]
      /\ r.at = FirstOf(wk.works[1]) \/ IsBegun(some, wk.works[1], wk.run, wk.rubric)
  BY <1>1, <1>2 DEF IsBatch
<1> QED
  BY <1>1, <1>2, <1>3 DEF IsBegun

LEMMA RestOfBatch ==
    ASSUME NEW wk, NEW some, IsBatch(wk, some), Len(wk.batch) > 1, NEW r, r = Head(wk.batch),
           r.at \in DOMAIN some, some[r.at] = r,
           NEW new, new.works = wk.works, new.planned = wk.planned, new.run = wk.run,
           new.rubric = wk.rubric, new.batch = Tail(wk.batch)
    PROVE  IsBatch(new, some)
<1>1. PICK batch, S : batch = wk.batch /\ S = ToSet(batch) /\ batch \in Seq(S) /\ batch # <<>>
  BY DEF IsBatch
<1>2. PICK rest : rest = Tail(batch)
  OBVIOUS
<1>3. /\ rest # <<>> /\ rest \in Seq(ToSet(rest)) /\ DOMAIN rest = 1 .. Len(batch) - 1
      /\ \A i \in DOMAIN rest : rest[i] = batch[i + 1] /\ i + 1 \in DOMAIN batch
      /\ Len(batch) \in Nat
  <2>1. batch \in Seq(S) /\ Len(batch) > 1
    BY <1>1
  <2>2. rest # <<>> /\ rest \in Seq(ToSet(rest)) /\ FollowsFirst(rest, batch)
    BY <1>2, <2>1, RestOfSequence
  <2> QED
    BY <2>2 DEF FollowsFirst
<1>4. r = batch[1] /\ IsBegun(some, wk.works[1], wk.run, wk.rubric)
  BY <1>1, FirstIsBegun
<1>5. ASSUME NEW i \in DOMAIN rest, NEW at, NEW verdict,
             IsSettled(some, batch, i + 1, at, verdict)
      PROVE  IsSettled(some, rest, i, at, verdict)
  <2>1. i \in Nat
    BY <1>3
  <2>2. CASE at \in DOMAIN some /\ some[at].verdict = verdict
    BY <2>2 DEF IsSettled
  <2>3. CASE \E j \in 1 .. (i + 1) - 1 : batch[j].at = at /\ batch[j].verdict = verdict
    <3>1. PICK j \in 1 .. i : batch[j].at = at /\ batch[j].verdict = verdict
      BY <2>1, <2>3
    <3>2. CASE j = 1
      BY <1>4, <3>1, <3>2 DEF IsSettled
    <3>3. CASE j # 1
      <4>1. PICK k : k = j - 1
        OBVIOUS
      <4>2. k \in 1 .. i - 1 /\ k \in DOMAIN rest /\ j = k + 1
        BY <1>3, <2>1, <3>1, <3>3, <4>1
      <4>3. rest[k] = batch[j]
        BY <1>3, <4>2
      <4> QED
        BY <3>1, <4>2, <4>3 DEF IsSettled
    <3> QED
      BY <3>2, <3>3
  <2> QED
    BY <1>5, <2>2, <2>3 DEF IsSettled
<1>6. ASSUME NEW i \in DOMAIN batch
      PROVE  /\ batch[i].at \in ToSet(wk.planned) /\ batch[i].at[1] = wk.works[1]
             /\ batch[i].verdict \in Verdicts /\ batch[i].run = wk.run
             /\ batch[i].rubric = wk.rubric
             /\ batch[i].at[3] = "DRIFT" =>
                   \E iac, actual \in Verdicts :
                      /\ batch[i].verdict = DriftVerdict(iac, actual)
                      /\ IsSettled(some, batch, i, <<batch[i].at[1], batch[i].at[2], "IAC">>, iac)
                      /\ IsSettled(some, batch, i, <<batch[i].at[1], batch[i].at[2], "AWS_ACTUAL">>,
                                   actual)
  BY <1>1 DEF IsBatch
<1>7. ASSUME NEW i \in DOMAIN rest
      PROVE  /\ rest[i].at \in ToSet(wk.planned) /\ rest[i].at[1] = wk.works[1]
             /\ rest[i].verdict \in Verdicts /\ rest[i].run = wk.run
             /\ rest[i].rubric = wk.rubric
             /\ rest[i].at[3] = "DRIFT" =>
                   \E iac, actual \in Verdicts :
                      /\ rest[i].verdict = DriftVerdict(iac, actual)
                      /\ IsSettled(some, rest, i, <<rest[i].at[1], rest[i].at[2], "IAC">>, iac)
                      /\ IsSettled(some, rest, i, <<rest[i].at[1], rest[i].at[2], "AWS_ACTUAL">>,
                                   actual)
  <2>1. PICK q : q = rest[i] /\ q = batch[i + 1] /\ i + 1 \in DOMAIN batch
    BY <1>3
  <2> QED
    BY <1>5, <1>6, <2>1
<1> QED
  BY <1>1, <1>2, <1>3, <1>4, <1>7 DEF IsBatch

(* A worker goes on after what it had to store is there. *)
LEMMA AdvancedWorker ==
    ASSUME NEW wk, IsRecord(wk), NEW plans, NEW first, NEW pinned, NEW some,
           IsDeliveryOf(wk, plans, first, pinned), IsBatch(wk, some), wk.pc = "store",
           wk.of = "initial" => some = first,
           NEW r, r = Head(wk.batch), r.at \in DOMAIN some, some[r.at] = r,
           NEW new, new = Advanced(wk)
    PROVE  /\ IsRecord(new) /\ new.pc \in {"idle", "evaluate", "store"}
           /\ new.pc # "idle" => IsDeliveryOf(new, plans, first, pinned)
           /\ new.pc = "store" => IsBatch(new, some) /\ new.of = wk.of
<1>1. IsBegun(some, wk.works[1], wk.run, wk.rubric)
  BY FirstIsBegun
<1>2. CASE Len(wk.batch) > 1
  <2>1. PICK rest : rest = Tail(wk.batch)
    OBVIOUS
  <2>2. new = [wk EXCEPT !.batch = rest]
    BY <1>2, <2>1 DEF Advanced
  <2>3. /\ new.batch = rest /\ new.pc = wk.pc /\ new.of = wk.of /\ new.run = wk.run
        /\ new.rubric = wk.rubric /\ new.planned = wk.planned /\ new.works = wk.works
        /\ IsRecord(new)
    BY <2>2 DEF IsRecord
  <2>4. IsBatch(new, some)
    BY <1>2, <2>1, <2>3, RestOfBatch
  <2>5. IsDeliveryOf(new, plans, first, pinned)
    BY <2>3 DEF IsDeliveryOf
  <2> QED
    BY <2>3, <2>4, <2>5
<1>3. CASE ~(Len(wk.batch) > 1) /\ Len(wk.works) > 1
  <2>1. PICK rest : rest = Tail(wk.works)
    OBVIOUS
  <2>2. new = [wk EXCEPT !.pc = "evaluate", !.batch = <<>>, !.works = rest]
    BY <1>3, <2>1 DEF Advanced
  <2>3. /\ new.works = rest /\ new.pc = "evaluate" /\ new.of = wk.of /\ new.run = wk.run
        /\ new.rubric = wk.rubric /\ new.planned = wk.planned
        /\ IsRecord(new)
    BY <2>2 DEF IsRecord
  <2>4. rest # <<>> /\ rest \in Seq(NamedIn(wk.planned))
    <3>1. PICK works, S : works = wk.works /\ S = NamedIn(wk.planned) /\ works \in Seq(S)
      BY DEF IsDeliveryOf
    <3> QED
      BY <1>3, <2>1, <3>1, RestOfSequence
  <2>5. wk.of = "initial" => IsBegun(first, wk.planned[1][1], wk.run, wk.rubric)
    BY <1>1 DEF IsDeliveryOf
  <2> QED
    BY <2>3, <2>4, <2>5 DEF IsDeliveryOf
<1>4. CASE ~(Len(wk.batch) > 1) /\ ~(Len(wk.works) > 1)
  <2>1. new = Idle
    BY <1>4 DEF Advanced
  <2> QED
    BY <2>1 DEF Idle, IsRecord
<1> QED
  BY <1>2, <1>3, <1>4

LEMMA ResolveConflictPreserves ==
    ASSUME RunInv, NEW w \in Workers, ResolveConflict(w)
    PROVE  RunInv'
<1>1. PICK wk : /\ wk = worker[w] /\ IsRecord(wk) /\ wk.pc = "store" /\ IsDelivery(wk)
                /\ IsBatch(wk, results[wk.of])
  BY DEF RunInv, ShapeInv, WorkerInv, ResolveConflict, At, IsDelivery, IsDeliveryOf
<1>2. PICK r : r = Head(wk.batch)
  OBVIOUS
<1>3. CASE IsSameResult(wk.of, r)
  <2>1. PICK new : new = Advanced(wk)
    OBVIOUS
  <2>2. worker' = [worker EXCEPT ![w] = new] /\ UNCHANGED <<setup, received, store>>
    BY <1>1, <1>2, <1>3, <2>1 DEF ResolveConflict
  <2>3. r.at \in DOMAIN results[wk.of] /\ results[wk.of][r.at] = r
    BY <1>3 DEF IsSameResult, Stored
  <2>4. /\ IsRecord(new) /\ new.pc \in {"idle", "evaluate", "store"}
        /\ new.pc # "idle" => IsDeliveryOf(new, plan, results["initial"], pin)
        /\ new.pc = "store" => IsBatch(new, results[wk.of]) /\ new.of = wk.of
    <3>1. IsDeliveryOf(wk, plan, results["initial"], pin)
      BY <1>1 DEF IsDelivery
    <3>2. wk.of = "initial" => results[wk.of] = results["initial"]
      OBVIOUS
    <3> QED
      BY <1>1, <1>2, <2>1, <2>3, <3>1, <3>2, AdvancedWorker
  <2>5. new.pc \notin {"idle", "refused"} => IsDelivery(new)
    BY <2>4 DEF IsDelivery
  <2> QED
    BY <2>2, <2>4, <2>5, WorkerStep
<1>4. CASE ~IsSameResult(wk.of, r)
  <2>1. PICK new : new = [wk EXCEPT !.pc = "refused"]
    OBVIOUS
  <2>2. worker' = [worker EXCEPT ![w] = new] /\ UNCHANGED <<setup, received, store>>
    BY <1>1, <1>2, <1>4, <2>1 DEF ResolveConflict
  <2>3. IsRecord(new) /\ new.pc = "refused"
    BY <1>1, <2>1 DEF IsRecord
  <2> QED
    BY <2>2, <2>3, WorkerStep
<1> QED
  BY <1>3, <1>4

-----------------------------------------------------------------------------
(* A result is stored *)

(* At one more coordinate there is one more thing. *)
IsOneMore(more, some, at, x) ==
    /\ DOMAIN more = DOMAIN some \cup {at} /\ more[at] = x
    /\ \A c \in DOMAIN some : more[c] = some[c]
    /\ more = [c \in DOMAIN more |-> more[c]]

LEMMA OneMore ==
    ASSUME NEW some, NEW at, at \notin DOMAIN some, NEW x, NEW more, more = Put(some, at, x)
    PROVE  IsOneMore(more, some, at, x) /\ Extends(some, more)
<1>1. more = [c \in DOMAIN some \cup {at} |-> IF c = at THEN x ELSE some[c]]
  BY DEF Put
<1>2. DOMAIN more = DOMAIN some \cup {at}
  BY <1>1
<1>3. more[at] = x
  BY <1>1
<1>4. \A c \in DOMAIN some : more[c] = some[c]
  BY <1>1
<1>5. more = [c \in DOMAIN more |-> more[c]]
  BY <1>1
<1> QED
  BY <1>2, <1>3, <1>4, <1>5 DEF IsOneMore, Extends

(* What the first of a batch is, and that its delivery began the Assessment. *)
LEMMA StoredFirst ==
    ASSUME NEW wk, NEW plans, NEW first, NEW pinned, NEW some,
           IsDeliveryOf(wk, plans, first, pinned), wk.pc = "store", IsBatch(wk, some),
           wk.of = "initial" => some = first,
           NEW r, r = Head(wk.batch), NEW more, IsOneMore(more, some, r.at, r), Extends(some, more)
    PROVE  /\ r.at \in ToSet(plans[wk.of]) /\ r.at[1] = wk.works[1] /\ r.verdict \in Verdicts
           /\ r.run = wk.run /\ r.rubric = wk.rubric /\ r.rubric \in Rubrics
           /\ IsBegun(more, r.at[1], r.run, r.rubric)
           /\ wk.of = "initial" => IsBegun(more, plans["initial"][1][1], r.run, r.rubric)
<1>1. IsBatch(wk, more) /\ r.at \in DOMAIN more /\ more[r.at] = r
  BY BatchStays DEF IsOneMore
<1>2. /\ r = wk.batch[1] /\ 1 \in DOMAIN wk.batch
      /\ r.run = wk.run /\ r.rubric = wk.rubric /\ r.at[1] = wk.works[1]
      /\ IsBegun(more, wk.works[1], wk.run, wk.rubric)
  BY <1>1, FirstIsBegun
<1>3. r.at \in ToSet(wk.planned) /\ r.verdict \in Verdicts
  BY <1>2 DEF IsBatch
<1>4. plans[wk.of] = wk.planned /\ wk.rubric \in Rubrics
  BY DEF IsDeliveryOf
<1>5. wk.of = "initial" => IsBegun(more, wk.planned[1][1], wk.run, wk.rubric)
  <2>1. wk.of = "initial" => \/ wk.works[1] = wk.planned[1][1]
                             \/ IsBegun(some, wk.planned[1][1], wk.run, wk.rubric)
    BY DEF IsDeliveryOf
  <2> QED
    BY <1>2, <2>1, BegunStays
<1> QED
  BY <1>2, <1>3, <1>4, <1>5

(* What drift is said to be rests on what is stored. *)
LEMMA StoredDriftFirst ==
    ASSUME NEW wk, NEW some, IsBatch(wk, some), NEW r, r = Head(wk.batch), r.at[3] = "DRIFT"
    PROVE  \E iac, actual \in Verdicts :
              /\ r.verdict = DriftVerdict(iac, actual)
              /\ <<r.at[1], r.at[2], "IAC">> \in DOMAIN some
              /\ some[<<r.at[1], r.at[2], "IAC">>].verdict = iac
              /\ <<r.at[1], r.at[2], "AWS_ACTUAL">> \in DOMAIN some
              /\ some[<<r.at[1], r.at[2], "AWS_ACTUAL">>].verdict = actual
<1>1. PICK batch, S : batch = wk.batch /\ S = ToSet(batch) /\ batch \in Seq(S) /\ batch # <<>>
  BY DEF IsBatch
<1>2. r = batch[1] /\ 1 \in DOMAIN batch
  BY <1>1
<1>3. PICK iac \in Verdicts, actual \in Verdicts :
              /\ r.verdict = DriftVerdict(iac, actual)
              /\ IsSettled(some, batch, 1, <<r.at[1], r.at[2], "IAC">>, iac)
              /\ IsSettled(some, batch, 1, <<r.at[1], r.at[2], "AWS_ACTUAL">>, actual)
  BY <1>1, <1>2 DEF IsBatch
<1>4. ASSUME NEW at, NEW verdict, IsSettled(some, batch, 1, at, verdict)
      PROVE  at \in DOMAIN some /\ some[at].verdict = verdict
  BY <1>4 DEF IsSettled
<1> QED
  BY <1>3, <1>4

LEMMA StoreResultPreserves ==
    ASSUME RunInv, NEW w \in Workers, StoreResult(w)
    PROVE  RunInv'
<1>1. PICK wk : /\ wk = worker[w] /\ IsRecord(wk) /\ wk.pc = "store" /\ IsDelivery(wk)
                /\ IsBatch(wk, results[wk.of])
  BY DEF RunInv, ShapeInv, WorkerInv, StoreResult, At, IsDelivery, IsDeliveryOf
<1>2. PICK a \in Assessments : a = wk.of
  BY <1>1 DEF IsDelivery, IsDeliveryOf
<1>3. PICK r, at : r = Head(wk.batch) /\ at = r.at
  OBVIOUS
<1>4. PICK some, more : some = results[a] /\ more = Put(some, at, r)
  OBVIOUS
<1>5. /\ results' = [results EXCEPT ![a] = more]
      /\ counter' = [counter EXCEPT ![a] = counter[a] + 1]
      /\ findings' = [findings EXCEPT ![a] =
             IF IsFollowUp(r.verdict) THEN Put(findings[a], at, FindingOf(r)) ELSE findings[a]]
      /\ at \notin DOMAIN some /\ counter[a] < Len(plan[a])
      /\ configuration' = configuration /\ changes' = changes /\ pin' = pin
      /\ received' = received /\ plan' = plan
  BY <1>1, <1>2, <1>3, <1>4 DEF StoreResult, MayStore, Stored, setup, RunInv, ShapeInv
<1>6. IsOneMore(more, some, at, r) /\ Extends(some, more)
  BY <1>4, <1>5, OneMore
<1>7. /\ results'[a] = more /\ \A b \in Assessments : b # a => results'[b] = results[b]
      /\ counter'[a] = counter[a] + 1 /\ \A b \in Assessments : b # a => counter'[b] = counter[b]
      /\ findings'[a] = IF IsFollowUp(r.verdict) THEN Put(findings[a], at, FindingOf(r))
                        ELSE findings[a]
      /\ \A b \in Assessments : b # a => findings'[b] = findings[b]
  BY <1>5 DEF RunInv, ShapeInv
<1>8. StoreGrows
  BY <1>4, <1>5, <1>6, <1>7 DEF StoreGrows, Extends
<1>9. IsDelivery(wk)'
  BY <1>1, <1>8, DeliveryStays
<1>10. /\ at \in ToSet(plan[a]) /\ at[1] = wk.works[1] /\ r.verdict \in Verdicts
       /\ r.run = wk.run /\ r.rubric = wk.rubric /\ r.rubric \in Rubrics
       /\ IsBegun(more, at[1], r.run, r.rubric)
       /\ a = "initial" => IsBegun(more, plan["initial"][1][1], r.run, r.rubric)
  <2>1. /\ IsDeliveryOf(wk, plan, results["initial"], pin) /\ IsBatch(wk, some)
        /\ wk.of = "initial" => some = results["initial"]
        /\ IsOneMore(more, some, r.at, r)
    BY <1>1, <1>2, <1>3, <1>4, <1>6 DEF IsDelivery
  <2> QED
    BY <1>1, <1>2, <1>3, <1>6, <2>1, StoredFirst
<1>11. ShapeInv' /\ \E new \in {Advanced(wk), wk} : worker' = [worker EXCEPT ![w] = new]
  <2>1. PICK new \in {Advanced(wk), wk} : worker' = [worker EXCEPT ![w] = new]
    BY <1>1 DEF StoreResult
  <2>2. IsRecord(new)
    <3>1. IsRecord(Advanced(wk))
      <4>1. CASE Len(wk.batch) > 1
        BY <1>1, <4>1 DEF Advanced, IsRecord
      <4>2. CASE ~(Len(wk.batch) > 1) /\ Len(wk.works) > 1
        BY <1>1, <4>2 DEF Advanced, IsRecord
      <4>3. CASE ~(Len(wk.batch) > 1) /\ ~(Len(wk.works) > 1)
        BY <4>3 DEF Advanced, IsRecord, Idle
      <4> QED
        BY <4>1, <4>2, <4>3
    <3> QED
      BY <1>1, <2>1, <3>1
  <2>3. DOMAIN worker' = Workers /\ \A v \in Workers : IsRecord(worker'[v])
    BY <2>1, <2>2, ShapeStays DEF RunInv
  <2>4. \A b \in Assessments : results'[b] = [c \in DOMAIN results'[b] |-> results'[b][c]]
    BY <1>6, <1>7 DEF RunInv, ShapeInv, IsOneMore
  <2>5. /\ DOMAIN plan' = Assessments /\ DOMAIN counter' = Assessments
        /\ DOMAIN results' = Assessments /\ DOMAIN findings' = Assessments
    BY <1>5 DEF RunInv, ShapeInv
  <2> QED
    BY <2>1, <2>3, <2>4, <2>5 DEF ShapeInv
<1>12. PlanInv' /\ SetupInv'
  BY <1>5 DEF RunInv, PlanInv, SetupInv
<1>13. PinInv'
  <2>1. pin = None => DOMAIN results'["verification"] = {}
    BY <1>1, <1>2, <1>7 DEF RunInv, PinInv, Assessments, IsDelivery, IsDeliveryOf
  <2>2. pin # None => DOMAIN results'["initial"] # {}
    BY <1>4, <1>6, <1>7 DEF RunInv, PinInv, Assessments, Extends
  <2>3. pin # None => r.rubric = pin
    <3>1. CASE a = "verification"
      BY <1>1, <1>2, <1>10, <3>1 DEF IsDelivery, IsDeliveryOf
    <3>2. CASE a = "initial" /\ pin # None
      <4>1. PICK c : c \in DOMAIN some /\ some[c].rubric = pin
        BY <1>4, <3>2 DEF RunInv, PinInv, Assessments
      <4>2. IsBegun(some, plan["initial"][1][1], some[c].run, some[c].rubric)
        BY <1>4, <3>2, <4>1 DEF RunInv, ResultInv
      <4>3. IsBegun(more, plan["initial"][1][1], some[c].run, some[c].rubric)
        BY <1>6, <4>2, BegunStays
      <4> QED
        BY <1>10, <3>2, <4>1, <4>3 DEF IsBegun
    <3> QED
      BY <1>2, <3>1, <3>2 DEF Assessments
  <2>4. ASSUME pin # None, NEW b \in Assessments, NEW c \in DOMAIN results'[b]
        PROVE  results'[b][c].rubric = pin
    <3>1. CASE b # a
      BY <1>7, <2>4, <3>1 DEF RunInv, PinInv
    <3>2. CASE b = a
      BY <1>4, <1>6, <1>7, <2>3, <2>4, <3>2 DEF RunInv, PinInv, IsOneMore
    <3> QED
      BY <3>1, <3>2
  <2> QED
    BY <1>5, <2>1, <2>2, <2>4 DEF RunInv, PinInv
<1>14. CountInv'
  <2>1. /\ IsFiniteSet(DOMAIN some) /\ counter[a] = Cardinality(DOMAIN some)
        /\ counter[a] <= Len(plan[a])
    BY <1>4 DEF RunInv, CountInv
  <2>2. /\ IsFiniteSet(DOMAIN more) /\ counter[a] + 1 = Cardinality(DOMAIN more)
        /\ counter[a] \in Nat
    BY <1>5, <1>6, <2>1, FS_AddElement, FS_CardinalityType DEF IsOneMore
  <2>3. Len(plan[a]) \in Nat
    <3>1. PICK planned, S : planned = plan[a] /\ planned \in Seq(S)
      BY DEF RunInv, PlanInv, IsWholePlan
    <3> QED
      BY <3>1
  <2>4. counter[a] + 1 <= Len(plan[a])
    BY <1>5, <2>2, <2>3
  <2>5. ASSUME NEW b \in Assessments
        PROVE  /\ IsFiniteSet(DOMAIN results'[b]) /\ counter'[b] = Cardinality(DOMAIN results'[b])
               /\ counter'[b] <= Len(plan'[b])
    <3>1. CASE b = a
      BY <1>5, <1>7, <2>2, <2>4, <3>1
    <3>2. CASE b # a
      BY <1>5, <1>7, <3>2 DEF RunInv, CountInv
    <3> QED
      BY <3>1, <3>2
  <2> QED
    BY <2>5 DEF CountInv
<1>15. ResultInv'
  <2>1. ASSUME NEW b \in Assessments, NEW c \in DOMAIN results'[b]
        PROVE  /\ results'[b][c].at = c
               /\ results'[b][c].verdict \in Verdicts
               /\ results'[b][c].rubric \in Rubrics
               /\ c \in ToSet(plan'[b])
               /\ IsBegun(results'[b], c[1], results'[b][c].run, results'[b][c].rubric)
               /\ b = "initial" => IsBegun(results'[b], plan'[b][1][1], results'[b][c].run,
                                           results'[b][c].rubric)
    <3>1. CASE b # a
      BY <1>5, <1>7, <2>1, <3>1 DEF RunInv, ResultInv
    <3>2. CASE b = a /\ c = at
      BY <1>3, <1>5, <1>6, <1>7, <1>10, <3>2 DEF IsOneMore
    <3>3. CASE b = a /\ c # at
      <4>1. c \in DOMAIN some /\ results'[b] = more /\ more[c] = some[c]
        BY <1>6, <1>7, <2>1, <3>3 DEF IsOneMore
      <4>2. /\ some[c].at = c /\ some[c].verdict \in Verdicts /\ some[c].rubric \in Rubrics
            /\ c \in ToSet(plan[b])
            /\ IsBegun(some, c[1], some[c].run, some[c].rubric)
            /\ b = "initial" => IsBegun(some, plan[b][1][1], some[c].run, some[c].rubric)
        BY <1>4, <3>3, <4>1 DEF RunInv, ResultInv
      <4>3. /\ IsBegun(more, c[1], some[c].run, some[c].rubric)
            /\ b = "initial" => IsBegun(more, plan[b][1][1], some[c].run, some[c].rubric)
        BY <1>6, <4>2, BegunStays
      <4> QED
        BY <1>5, <4>1, <4>2, <4>3
    <3> QED
      BY <3>1, <3>2, <3>3
  <2> QED
    BY <2>1 DEF ResultInv
<1>16. FindingInv'
  <2>1. PICK found, more2 : found = findings[a] /\ more2 = findings'[a]
    OBVIOUS
  <2>2. /\ DOMAIN found = {c \in DOMAIN some : IsFollowUp(some[c].verdict)}
        /\ \A c \in DOMAIN found : found[c] = FindingOf(some[c])
    BY <1>4, <2>1 DEF RunInv, FindingInv
  <2>3. /\ DOMAIN more2 = {c \in DOMAIN more : IsFollowUp(more[c].verdict)}
        /\ \A c \in DOMAIN more2 : more2[c] = FindingOf(more[c])
    <3>1. at \notin DOMAIN found
      BY <1>5, <2>2
    <3>2. CASE IsFollowUp(r.verdict)
      <4>1. IsOneMore(more2, found, at, FindingOf(r))
        BY <1>7, <2>1, <3>1, <3>2, OneMore
      <4> QED
        BY <1>6, <2>2, <3>2, <4>1 DEF IsOneMore
    <3>3. CASE ~IsFollowUp(r.verdict)
      <4>1. more2 = found
        BY <1>7, <2>1, <3>3
      <4> QED
        BY <1>5, <1>6, <2>2, <3>3, <4>1 DEF IsOneMore
    <3> QED
      BY <3>2, <3>3
  <2>4. ASSUME NEW b \in Assessments
        PROVE  /\ DOMAIN findings'[b] =
                      {c \in DOMAIN results'[b] : IsFollowUp(results'[b][c].verdict)}
               /\ \A c \in DOMAIN findings'[b] : findings'[b][c] = FindingOf(results'[b][c])
    <3>1. CASE b = a
      BY <1>7, <2>1, <2>3, <3>1
    <3>2. CASE b # a
      BY <1>7, <3>2 DEF RunInv, FindingInv
    <3> QED
      BY <3>1, <3>2
  <2> QED
    BY <2>4 DEF FindingInv
<1>17. DriftIsOfStoredVerdicts'
  <2>1. ASSUME NEW b \in Assessments, NEW c \in DOMAIN results'[b], c[3] = "DRIFT"
        PROVE  /\ {<<c[1], c[2], "IAC">>, <<c[1], c[2], "AWS_ACTUAL">>} \subseteq DOMAIN results'[b]
               /\ results'[b][c].verdict =
                      DriftVerdict(results'[b][<<c[1], c[2], "IAC">>].verdict,
                                   results'[b][<<c[1], c[2], "AWS_ACTUAL">>].verdict)
    <3>1. PICK iacAt, actualAt :
              iacAt = <<c[1], c[2], "IAC">> /\ actualAt = <<c[1], c[2], "AWS_ACTUAL">>
      OBVIOUS
    <3>2. CASE c \in DOMAIN results[b] /\ (b = a => c # at)
      <4>1. /\ iacAt \in DOMAIN results[b] /\ actualAt \in DOMAIN results[b]
            /\ results[b][c].verdict =
                   DriftVerdict(results[b][iacAt].verdict, results[b][actualAt].verdict)
        BY <2>1, <3>1, <3>2 DEF RunInv, DriftIsOfStoredVerdicts
      <4>2. /\ \A d \in DOMAIN results[b] : d \in DOMAIN results'[b]
            /\ \A d \in DOMAIN results[b] : results'[b][d] = results[b][d]
        BY <1>8 DEF StoreGrows, Extends
      <4> QED
        BY <3>1, <3>2, <4>1, <4>2
    <3>3. CASE b = a /\ c = at
      <4>1. PICK iac \in Verdicts, actual \in Verdicts :
                 /\ r.verdict = DriftVerdict(iac, actual)
                 /\ iacAt \in DOMAIN some /\ some[iacAt].verdict = iac
                 /\ actualAt \in DOMAIN some /\ some[actualAt].verdict = actual
        <5>1. r.at[3] = "DRIFT" /\ IsBatch(wk, some) /\ c = r.at
          BY <1>1, <1>2, <1>3, <1>4, <2>1, <3>3
        <5> QED
          BY <1>3, <3>1, <5>1, StoredDriftFirst
      <4>2. /\ iacAt \in DOMAIN more /\ more[iacAt].verdict = iac
            /\ actualAt \in DOMAIN more /\ more[actualAt].verdict = actual
            /\ more[c] = r /\ results'[b] = more
        BY <1>6, <1>7, <3>3, <4>1 DEF IsOneMore
      <4> QED
        BY <3>1, <4>1, <4>2
    <3>4. c \in DOMAIN results[b] \/ (b = a /\ c = at)
      BY <1>4, <1>6, <1>7, <2>1 DEF IsOneMore
    <3> QED
      BY <3>2, <3>3, <3>4
  <2> QED
    BY <2>1 DEF DriftIsOfStoredVerdicts
<1>18. WorkerInv'
  <2>1. PICK new \in {Advanced(wk), wk} : worker' = [worker EXCEPT ![w] = new]
    BY <1>11
  <2>2. PICK plans, first, pinned :
           plans = plan' /\ first = results'["initial"] /\ pinned = pin'
    OBVIOUS
  <2>3. IsDeliveryOf(wk, plans, first, pinned) /\ IsBatch(wk, more)
        /\ (wk.of = "initial" => more = first)
    BY <1>1, <1>2, <1>4, <1>6, <1>7, <1>9, <2>2, BatchStays DEF IsDelivery
  <2>4. r.at \in DOMAIN more /\ more[r.at] = r
    BY <1>3, <1>6 DEF IsOneMore
  <2>5. /\ new.pc \in {"idle", "evaluate", "store"}
        /\ new.pc # "idle" => IsDeliveryOf(new, plans, first, pinned)
        /\ new.pc = "store" => IsBatch(new, more) /\ new.of = wk.of
    <3>1. CASE new = wk
      BY <1>1, <2>3, <3>1
    <3>2. CASE new = Advanced(wk)
      BY <1>1, <1>3, <2>3, <2>4, <3>2, AdvancedWorker
    <3> QED
      BY <2>1, <3>1, <3>2
  <2>6. new.pc \notin {"idle", "refused"} => IsDelivery(new)'
    BY <2>2, <2>5 DEF IsDelivery
  <2>7. new.pc = "store" => IsBatch(new, results'[new.of])
    BY <1>2, <1>7, <2>5
  <2> QED
    BY <1>8, <2>1, <2>5, <2>6, <2>7, WorkersStay DEF RunInv
<1> QED
  BY <1>11, <1>12, <1>13, <1>14, <1>15, <1>16, <1>17, <1>18 DEF RunInv

-----------------------------------------------------------------------------
(* A delivery is received *)

(* What is configured, and the governance resource, in order. *)
LEMMA ConfiguredWorks ==
    ASSUME configuration \in Configurations
    PROVE  \E S : /\ InitialWorks \in Seq(ToSet(InitialWorks))
                  /\ Append(configuration.resources, Governance) \in Seq(S)
<1>1. PICK resources, S :
          /\ resources = configuration.resources /\ resources \in Seq(ToSet(resources))
          /\ S = ToSet(resources) \cup {Governance}
  BY ConfigurationsAreSound
<1>2. resources \in Seq(S)
  BY <1>1, SequenceOfMore
<1>3. PICK more : /\ more = IF Governing("initial", Governance) # <<>> THEN <<Governance>> ELSE <<>>
                  /\ more \in Seq(S)
  <2>1. Governance \in S
    BY <1>1
  <2>2. <<Governance>> \in Seq(S) /\ <<>> \in Seq(S)
    BY <2>1
  <2> QED
    BY <2>2
<1>4. PICK works : works = resources \o more /\ works \in Seq(S)
  <2>1. resources \o more \in Seq(S)
    BY <1>2, <1>3, Concatenated
  <2> QED
    BY <2>1
<1>5. works = InitialWorks
  BY <1>1, <1>3, <1>4 DEF InitialWorks
<1>6. works \in Seq(ToSet(works))
  BY <1>4, ToSetOf
<1>7. Append(resources, Governance) \in Seq(S)
  <2>1. Governance \in S
    BY <1>1
  <2> QED
    BY <1>2, <2>1
<1> QED
  BY <1>1, <1>5, <1>6, <1>7

(* What a delivery that is loaded has to do. *)
LEMMA LoadedDelivery ==
    ASSUME configuration \in Configurations, IsWholePlan(plan["initial"]),
           NEW a \in Assessments, a = "verification" => pin # None,
           NEW works, works = (IF a = "initial" THEN InitialWorks ELSE VerificationWorks),
           NEW planned, planned = PlannedFor(a, works), IsLoadable(a, works), planned # <<>>,
           NEW evaluable, evaluable = Selected(works, NamedIn(planned)),
           NEW new, new.of = a, new.pc = "plan", new.rubric = configuration.rubric,
           new.planned = planned, new.works = evaluable
    PROVE  IsDelivery(new)
<1>1. new.rubric \in Rubrics
  BY DEF Rubrics
<1>2. CASE a = "initial"
  <2>1. works \in Seq(ToSet(works)) /\ planned = PlanFor(a, works)
    BY <1>2, ConfiguredWorks DEF PlannedFor
  <2>2. /\ IsWholePlan(planned)
        /\ evaluable \in Seq(NamedIn(planned)) /\ evaluable # <<>>
        /\ evaluable[1] = planned[1][1]
    BY <2>1, LoadedPlan
  <2> QED
    BY <1>1, <1>2, <2>2 DEF IsDelivery, IsDeliveryOf
<1>3. CASE a # "initial"
  <2>1. a = "verification"
    BY <1>3 DEF Assessments
  <2>2. planned = plan["initial"] /\ works = VerificationWorks
        /\ works # <<>> /\ pin = configuration.rubric
    BY <1>3 DEF PlannedFor, IsLoadable, HonoursPin
  <2>3. PICK S, resources : /\ resources = Append(configuration.resources, Governance)
                            /\ resources \in Seq(S)
    BY ConfiguredWorks
  <2>4. works = Selected(resources, NamedIn(planned))
    BY <2>2, <2>3 DEF VerificationWorks
  <2>5. evaluable \in Seq(NamedIn(planned)) /\ evaluable # <<>>
    <3>1. works # <<>>
      BY <2>2
    <3>2. evaluable = Selected(works, NamedIn(planned))
      OBVIOUS
    <3>3. resources \in Seq(S)
      BY <2>3
    <3>4. evaluable \in Seq(NamedIn(planned)) /\ (works # <<>> => evaluable # <<>>)
      BY <2>4, <3>2, <3>3, ReusedPlan
    <3> QED
      BY <3>1, <3>4
  <2> QED
    BY <1>1, <2>1, <2>2, <2>5 DEF IsDelivery, IsDeliveryOf
<1> QED
  BY <1>2, <1>3

LEMMA ReceivePreserves ==
    ASSUME RunInv, NEW w \in Workers, NEW a \in Assessments, Receive(w, a)
    PROVE  RunInv'
<1>1. /\ UNCHANGED <<pin, store>> /\ configuration' = configuration /\ changes' = changes
      /\ received["initial"] + received["verification"] < MaxReceives
      /\ received' = [received EXCEPT ![a] = @ + 1] /\ (a = "verification" => pin # None)
  BY DEF Receive, setup, store
<1>2. SetupInv'
  <2>1. received \in [Assessments -> Nat] /\ MaxReceives \in Nat
    BY DeliveriesAreBounded DEF RunInv, SetupInv
  <2>2. received' \in [Assessments -> Nat]
    BY <1>1, <2>1
  <2>3. received'["initial"] + received'["verification"] <= MaxReceives
    BY <1>1, <2>1 DEF Assessments
  <2> QED
    BY <1>1, <2>2, <2>3 DEF RunInv, SetupInv
<1>3. PICK works, planned, evaluable :
          /\ works = (IF a = "initial" THEN InitialWorks ELSE VerificationWorks)
          /\ planned = PlannedFor(a, works) /\ evaluable = Selected(works, NamedIn(planned))
  OBVIOUS
<1>4. PICK new :
          new = [pc |-> "plan", of |-> a, run |-> received[a] + 1, rubric |-> configuration.rubric,
                 planned |-> planned, works |-> evaluable, batch |-> <<>>]
  OBVIOUS
<1>5. \/ /\ IsLoadable(a, works) /\ planned # <<>>
         /\ worker' = [worker EXCEPT ![w] = new]
      \/ worker' = worker
  BY <1>3, <1>4 DEF Receive
<1>6. CASE worker' = worker
  <2>1. DOMAIN worker' = Workers /\ \A v \in Workers : IsRecord(worker'[v])
    BY <1>6 DEF RunInv, ShapeInv
  <2>2. /\ StoreGrows
        /\ ShapeInv' /\ PlanInv' /\ PinInv' /\ CountInv' /\ ResultInv' /\ FindingInv'
        /\ DriftIsOfStoredVerdicts'
    BY <1>1, <2>1, StoreKept
  <2>3. WorkerInv'
    BY <1>1, <1>6 DEF RunInv, WorkerInv, IsDelivery, IsDeliveryOf, store
  <2> QED
    BY <1>2, <2>2, <2>3 DEF RunInv
<1>7. CASE IsLoadable(a, works) /\ planned # <<>> /\ worker' = [worker EXCEPT ![w] = new]
  <2>1. /\ new.of = a /\ new.pc = "plan" /\ new.rubric = configuration.rubric
        /\ new.planned = planned /\ new.works = evaluable /\ IsRecord(new)
    BY <1>4 DEF IsRecord
  <2>2. configuration \in Configurations /\ IsWholePlan(plan["initial"])
    BY DEF RunInv, SetupInv, PlanInv, Assessments
  <2>3. IsDelivery(new)
    BY <1>1, <1>3, <1>7, <2>1, <2>2, LoadedDelivery
  <2>4. DOMAIN worker' = Workers /\ \A v \in Workers : IsRecord(worker'[v])
    BY <1>7, <2>1, ShapeStays DEF RunInv
  <2>5. /\ StoreGrows
        /\ ShapeInv' /\ PlanInv' /\ PinInv' /\ CountInv' /\ ResultInv' /\ FindingInv'
        /\ DriftIsOfStoredVerdicts'
    BY <1>1, <2>4, StoreKept
  <2>6. IsDelivery(new)'
    BY <2>3, <2>5, DeliveryStays
  <2>7. WorkerInv'
    BY <1>7, <2>1, <2>5, <2>6, WorkersStay DEF RunInv
  <2> QED
    BY <1>2, <2>5, <2>7 DEF RunInv
<1> QED
  BY <1>5, <1>6, <1>7

-----------------------------------------------------------------------------
(* A verification is started *)

(* All results of the first Assessment are of one rubric. *)
LEMMA FirstHasOneRubric ==
    ASSUME RunInv, NEW c \in DOMAIN results["initial"], NEW d \in DOMAIN results["initial"]
    PROVE  /\ results["initial"][c].rubric = results["initial"][d].rubric
           /\ results["initial"][c].run = results["initial"][d].run
<1>1. PICK some, spot : some = results["initial"] /\ spot = plan["initial"][1][1]
  OBVIOUS
<1>2. /\ IsBegun(some, spot, some[c].run, some[c].rubric)
      /\ IsBegun(some, spot, some[d].run, some[d].rubric)
  BY <1>1 DEF RunInv, ResultInv, Assessments
<1> QED
  BY <1>1, <1>2 DEF IsBegun

(* A query sees results as they are stored. *)
LEMMA ViewsAreStored ==
    ASSUME RunInv, NEW a \in Assessments, NEW seen \in Views(a)
    PROVE  /\ DOMAIN seen \subseteq DOMAIN results[a]
           /\ \A c \in DOMAIN seen : seen[c] = results[a][c]
           /\ DOMAIN seen = DOMAIN results[a] => seen = results[a]
<1>1. PICK some : some = results[a] /\ some = [c \in DOMAIN some |-> some[c]]
  BY DEF RunInv, ShapeInv
<1>2. PICK missing : seen = Seen(some, DOMAIN some \ missing)
  BY <1>1 DEF Views
<1>3. seen = [c \in (DOMAIN some \ missing) \cap DOMAIN some |-> some[c]]
  BY <1>2 DEF Seen
<1>4. DOMAIN seen \subseteq DOMAIN some /\ \A c \in DOMAIN seen : seen[c] = some[c]
  BY <1>3
<1>5. DOMAIN seen = DOMAIN some => seen = some
  BY <1>1, <1>3
<1> QED
  BY <1>1, <1>4, <1>5

LEMMA StartVerificationPreserves ==
    ASSUME RunInv, StartVerification
    PROVE  RunInv'
<1>1. /\ pin = None /\ configuration' = configuration /\ changes' = changes
      /\ received' = received /\ plan' = plan /\ counter' = counter /\ results' = results
      /\ findings' = findings /\ worker' = worker
  BY DEF StartVerification, store
<1>2. PICK seen \in Views("initial") : HasOneScope(seen) /\ pin' = ObservedScope(seen)
  BY DEF StartVerification, VerificationSource
<1>3. "initial" \in Assessments /\ "verification" \in Assessments
      /\ \A a \in Assessments : a = "initial" \/ a = "verification"
  BY DEF Assessments
<1>4. PICK some : some = results["initial"]
  OBVIOUS
<1>5. DOMAIN seen \subseteq DOMAIN some /\ \A c \in DOMAIN seen : seen[c] = some[c]
  BY <1>2, <1>3, <1>4, ViewsAreStored
<1>6. PICK c \in DOMAIN some : pin' = some[c].rubric
  <2>1. RubricsIn(seen) # {}
    BY <1>2, FS_EmptySet DEF HasOneScope
  <2>2. pin' \in RubricsIn(seen)
    BY <1>2, <2>1 DEF ObservedScope
  <2> QED
    BY <1>5, <2>2 DEF RubricsIn
<1>7. pin' \in Rubrics /\ \A d \in DOMAIN some : some[d].rubric = pin'
  BY <1>3, <1>4, <1>6, FirstHasOneRubric DEF RunInv, ResultInv
<1>8. pin' # None
  BY <1>7, ConfigurationsAreSound DEF Rubrics
<1>9. DOMAIN results["verification"] = {}
  BY <1>1 DEF RunInv, PinInv
<1>10. PinInv'
  <2>1. \A a \in Assessments : \A d \in DOMAIN results[a] : results[a][d].rubric = pin'
    BY <1>3, <1>4, <1>7, <1>9
  <2> QED
    BY <1>1, <1>4, <1>6, <1>7, <1>8, <2>1 DEF PinInv
<1>11. StoreGrows
  BY <1>1 DEF StoreGrows, Extends
<1>12. WorkerInv'
  <2>1. ASSUME NEW w \in Workers, worker[w].pc \notin {"idle", "refused"}
        PROVE  IsDelivery(worker[w])'
    <3>1. PICK wk : wk = worker[w] /\ IsDelivery(wk)
      BY <2>1 DEF RunInv, WorkerInv, IsDelivery, IsDeliveryOf
    <3>2. IsDelivery(wk)'
      BY <1>11, <3>1, DeliveryStays
    <3> QED
      BY <1>1, <3>1, <3>2 DEF IsDelivery, IsDeliveryOf
  <2>2. ASSUME NEW w \in Workers
        PROVE  /\ worker[w].pc \in {"idle", "plan", "put plan", "evaluate", "store", "refused"}
               /\ worker[w].pc = "store" => IsBatch(worker[w], results[worker[w].of])
    BY DEF RunInv, WorkerInv
  <2> QED
    BY <1>1, <2>1, <2>2 DEF WorkerInv
<1>13. ShapeInv' /\ PlanInv' /\ SetupInv' /\ CountInv'
  BY <1>1 DEF RunInv, ShapeInv, PlanInv, SetupInv, CountInv
<1>14. ResultInv' /\ FindingInv'
  BY <1>1 DEF RunInv, ResultInv, FindingInv
<1>15. DriftIsOfStoredVerdicts'
  BY <1>1 DEF RunInv, DriftIsOfStoredVerdicts
<1> QED
  BY <1>10, <1>12, <1>13, <1>14, <1>15 DEF RunInv

LEMMA NextPreserves ==
    ASSUME RunInv, [Next]_vars
    PROVE  RunInv'
<1>1. CASE Reconfigure
  BY <1>1, ReconfigurePreserves
<1>2. CASE StartVerification
  BY <1>2, StartVerificationPreserves
<1>3. CASE \E w \in Workers : LookForPlan(w)
  BY <1>3, LookForPlanPreserves
<1>4. CASE \E w \in Workers : PutPlan(w)
  BY <1>4, PutPlanPreserves
<1>5. CASE \E w \in Workers : Evaluate(w)
  BY <1>5, EvaluatePreserves
<1>6. CASE \E w \in Workers : StoreResult(w)
  BY <1>6, StoreResultPreserves
<1>7. CASE \E w \in Workers : ResolveConflict(w)
  BY <1>7, ResolveConflictPreserves
<1>8. CASE \E w \in Workers : Stop(w)
  BY <1>8, StopPreserves
<1>9. CASE \E w \in Workers, a \in Assessments : Receive(w, a)
  BY <1>9, ReceivePreserves
<1>10. CASE UNCHANGED vars
  BY <1>10, StutterPreserves
<1> QED
  BY <1>1, <1>2, <1>3, <1>4, <1>5, <1>6, <1>7, <1>8, <1>9, <1>10 DEF Next

(* What a delivery does continues what it has stored, and everything that is stored agrees *)
(* (runtime.py, worker.py, results.py).                                                    *)
THEOREM RunInvariant == Spec => []RunInv
<1>1. Init => RunInv
  BY InitInvariant
<1>2. RunInv /\ [Next]_vars => RunInv'
  BY NextPreserves
<1> QED
  BY <1>1, <1>2, PTL DEF Spec

-----------------------------------------------------------------------------
(* What follows of what is stored *)

(* A stored coordinate names a rule that governs its resource and one of the perspectives   *)
(* the rule has there, whichever plan was reused; progress never exceeds the stored plan    *)
(* (results.py, runtime.py:587).                                                           *)
THEOREM AssessmentTypes == Spec => []AssessmentTypeOK
<1>1. ASSUME RunInv PROVE AssessmentTypeOK
  <2>1. /\ configuration \in Configurations /\ changes \in 0..MaxChanges
        /\ pin \in {c.rubric : c \in Configurations} \cup {None}
    BY <1>1 DEF RunInv, SetupInv, PinInv, Rubrics
  <2>2. ASSUME NEW a \in Assessments
        PROVE  received[a] \in 0..MaxReceives
    <3>1. /\ received["initial"] \in Nat /\ received["verification"] \in Nat
          /\ received["initial"] + received["verification"] <= MaxReceives
      BY <1>1 DEF RunInv, SetupInv, Assessments
    <3>2. a = "initial" \/ a = "verification"
      BY DEF Assessments
    <3> QED
      BY <3>1, <3>2, DeliveriesAreBounded
  <2>3. ASSUME NEW a \in Assessments
        PROVE  counter[a] \in 0..Len(plan[a])
    <3>1. counter[a] \in Nat /\ counter[a] <= Len(plan[a])
      BY <1>1, FS_CardinalityType DEF RunInv, CountInv
    <3>2. Len(plan[a]) \in Nat
      <4>1. PICK planned, S : planned = plan[a] /\ planned \in Seq(S)
        BY <1>1 DEF RunInv, PlanInv, IsWholePlan
      <4> QED
        BY <4>1
    <3> QED
      BY <3>1, <3>2
  <2>4. ASSUME NEW a \in Assessments
        PROVE  DOMAIN findings[a] \subseteq DOMAIN results[a]
    BY <1>1 DEF RunInv, FindingInv
  <2>5. ASSUME NEW a \in Assessments, NEW c \in DOMAIN results[a]
        PROVE  /\ results[a][c].at = c
               /\ \E r \in ToSet(Rules) :
                      /\ r.name = c[2] /\ TypeOf[c[1]] \in r.types
                      /\ c[3] \in PerspectivesFor(r, TypeOf[c[1]])
               /\ results[a][c].verdict \in Verdicts
    <3>1. /\ results[a][c].at = c /\ results[a][c].verdict \in Verdicts
          /\ c \in ToSet(plan[a])
      BY <1>1 DEF RunInv, ResultInv
    <3>2. IsPlannable(c)
      BY <1>1, <3>1 DEF RunInv, PlanInv, IsWholePlan
    <3>3. PICK r \in ToSet(Rules), p \in Perspectives :
              /\ TypeOf[c[1]] \in r.types /\ p \in PerspectivesFor(r, TypeOf[c[1]])
              /\ c = <<c[1], r.name, p>>
      BY <3>2 DEF IsPlannable
    <3>4. r.name = c[2] /\ c[3] = p
      BY <3>3
    <3> QED
      BY <3>1, <3>3, <3>4
  <2>6. \A w \in Workers :
            worker[w].pc \in {"idle", "plan", "put plan", "evaluate", "store", "refused"}
    BY <1>1 DEF RunInv, WorkerInv
  <2> QED
    BY <2>1, <2>2, <2>3, <2>4, <2>5, <2>6 DEF AssessmentTypeOK
<1>2. RunInv => AssessmentTypeOK
  BY <1>1
<1> QED
  BY <1>2, RunInvariant, PTL

(* A transaction that was made again after it took effect neither counts a result twice nor *)
(* loses its finding (results.py).                                                          *)
THEOREM StoreAgreement == Spec => []StoreAgrees
<1>1. RunInv => StoreAgrees
  BY DEF RunInv, CountInv, ResultInv, FindingInv, StoreAgrees, PlanOf
<1> QED
  BY <1>1, RunInvariant, PTL

(* However deliveries overlap, a resource is judged by one of them, and a first Assessment *)
(* is (runtime.py:468).                                                                    *)
THEOREM OneDelivery == Spec => []ResultsAreOfOneDelivery
<1>1. ASSUME RunInv, NEW a \in Assessments, NEW c \in DOMAIN results[a],
             NEW d \in DOMAIN results[a], a = "initial" \/ c[1] = d[1]
      PROVE  results[a][c].run = results[a][d].run
  <2>1. CASE a = "initial"
    BY <1>1, <2>1, FirstHasOneRubric
  <2>2. CASE c[1] = d[1]
    <3>1. /\ IsBegun(results[a], c[1], results[a][c].run, results[a][c].rubric)
          /\ IsBegun(results[a], c[1], results[a][d].run, results[a][d].rubric)
      BY <1>1, <2>2 DEF RunInv, ResultInv
    <3> QED
      BY <3>1 DEF IsBegun
  <2> QED
    BY <1>1, <2>1, <2>2
<1>2. RunInv => ResultsAreOfOneDelivery
  BY <1>1 DEF ResultsAreOfOneDelivery
<1> QED
  BY <1>2, RunInvariant, PTL

(* What is stored of drift was drawn from what is stored of the two sides, whoever stored *)
(* them (worker.py, drift.py).                                                            *)
THEOREM StoredDrift == Spec => []DriftIsOfStoredVerdicts
<1>1. RunInv => DriftIsOfStoredVerdicts
  BY DEF RunInv
<1> QED
  BY <1>1, RunInvariant, PTL

-----------------------------------------------------------------------------
(* What is read *)

(* Whoever saw all that was planned saw all that is stored. *)
LEMMA WholeView ==
    ASSUME RunInv, NEW a \in Assessments, NEW seen \in Views(a), DOMAIN seen = PlanOf(a)
    PROVE  seen = results[a]
<1>1. DOMAIN results[a] \subseteq PlanOf(a)
  BY DEF RunInv, ResultInv, PlanOf
<1> QED
  BY <1>1, ViewsAreStored

(* A segment has a score of all that was planned of its rules, or none. *)
LEMMA WholeSegment ==
    ASSUME NEW seen, NEW stored, NEW planned, NEW names,
           DOMAIN seen \subseteq DOMAIN stored, DOMAIN stored \subseteq planned,
           \A c \in DOMAIN seen : seen[c] = stored[c],
           SegmentReadiness(seen, planned, names) # NoScore
    PROVE  SegmentReadiness(seen, planned, names) = SegmentReadiness(stored, planned, names)
<1> DEFINE ofKind(coordinates) == {c \in coordinates : c[2] \in names}
<1>1. PICK mine, all : /\ mine = [c \in ofKind(DOMAIN seen) |-> seen[c]]
                       /\ all = [c \in ofKind(DOMAIN stored) |-> stored[c]]
  OBVIOUS
<1>2. /\ SegmentReadiness(seen, planned, names) =
             IF ofKind(planned) = {} THEN NoScore ELSE Readiness(mine, ofKind(planned))
      /\ SegmentReadiness(stored, planned, names) =
             IF ofKind(planned) = {} THEN NoScore ELSE Readiness(all, ofKind(planned))
  BY <1>1 DEF SegmentReadiness
<1>3. ofKind(planned) # {} /\ Readiness(mine, ofKind(planned)) # NoScore
  BY <1>2
<1>4. DOMAIN mine = ofKind(planned)
  BY <1>3 DEF Readiness
<1>5. ofKind(DOMAIN seen) = ofKind(DOMAIN stored)
  BY <1>1, <1>4
<1>6. mine = all
  BY <1>1, <1>5
<1> QED
  BY <1>2, <1>6

(* However late a query is, a page shows a score of all that was planned or none *)
(* (reporting.py, readiness.py).                                                 *)
THEOREM WholeScores == Spec => []ScoresAreOfEverythingPlanned
<1>1. ASSUME RunInv, NEW a \in Assessments, NEW s \in Scores(a)
      PROVE  s \in {<<"ALL", Readiness(results[a], PlanOf(a))>>}
                       \cup {<<k, SegmentScores(results[a], PlanOf(a))[k]>> : k \in SourceKinds}
  <2>1. PICK seen \in Views(a) : s \in PageScores(a, seen) /\ s[2] # NoScore
    BY DEF Scores
  <2>2. PICK stored, planned : stored = results[a] /\ planned = PlanOf(a)
    OBVIOUS
  <2>3. /\ DOMAIN seen \subseteq DOMAIN stored /\ \A c \in DOMAIN seen : seen[c] = stored[c]
        /\ DOMAIN stored \subseteq planned
    BY <1>1, <2>2, ViewsAreStored DEF RunInv, ResultInv, PlanOf
  <2>4. PICK page : page = PageOf(a, seen)
    OBVIOUS
  <2>5. \/ s = <<"ALL", page.score>>
        \/ \E k \in DOMAIN page.segments : s = <<k, page.segments[k]>>
    BY <2>1, <2>4 DEF PageScores
  <2>6. \/ page.score = NoScore /\ DOMAIN page.segments = {}
        \/ /\ page.score = Readiness(seen, planned)
           /\ page.segments = SegmentScores(seen, planned)
    <3>1. CASE counter[a] = Len(plan[a])
      BY <2>2, <2>4, <3>1 DEF PageOf, Page, Report, PlanOf
    <3>2. CASE counter[a] # Len(plan[a])
      BY <2>4, <3>2 DEF PageOf, Page, NoSegments
    <3> QED
      BY <3>1, <3>2
  <2>7. CASE s = <<"ALL", page.score>>
    <3>1. page.score # NoScore /\ page.score = Readiness(seen, planned)
      BY <2>1, <2>6, <2>7
    <3>2. DOMAIN seen = planned
      BY <3>1 DEF Readiness
    <3>3. seen = stored
      BY <1>1, <2>2, <3>2, WholeView
    <3> QED
      BY <2>2, <2>7, <3>1, <3>3
  <2>8. CASE \E k \in DOMAIN page.segments : s = <<k, page.segments[k]>>
    <3>1. PICK k \in DOMAIN page.segments : s = <<k, page.segments[k]>>
      BY <2>8
    <3>2. page.segments = SegmentScores(seen, planned)
      BY <2>6, <3>1
    <3>3. k \in SourceKinds /\ page.segments[k] = SegmentReadiness(seen, planned, NamesOfKind[k])
      BY <3>1, <3>2 DEF SegmentScores
    <3>4. SegmentReadiness(seen, planned, NamesOfKind[k])
              = SegmentReadiness(stored, planned, NamesOfKind[k])
      <4>1. PICK names : names = NamesOfKind[k]
        OBVIOUS
      <4>2. SegmentReadiness(seen, planned, names) # NoScore
        BY <2>1, <3>1, <3>3, <4>1
      <4> QED
        BY <2>3, <4>1, <4>2, WholeSegment
    <3>5. SegmentScores(stored, planned)[k] = SegmentReadiness(stored, planned, NamesOfKind[k])
      BY <3>3 DEF SegmentScores
    <3> QED
      BY <2>2, <3>1, <3>3, <3>4, <3>5
  <2> QED
    BY <2>5, <2>7, <2>8
<1>2. RunInv => ScoresAreOfEverythingPlanned
  BY <1>1 DEF ScoresAreOfEverythingPlanned
<1> QED
  BY <1>2, RunInvariant, PTL

-----------------------------------------------------------------------------
(* The comparison *)

(* A report that is whole is of all that is stored, and nothing more will be. *)
LEMMA WholeReport ==
    ASSUME RunInv, NEW a \in Assessments, NEW seen \in Views(a), IsWholeReport(a, seen)
    PROVE  /\ seen = results[a] /\ DOMAIN results[a] = PlanOf(a) /\ DOMAIN results[a] # {}
           /\ counter[a] = Len(plan[a])
<1>1. /\ DOMAIN seen # {} /\ DOMAIN seen = PlanOf(a)
      /\ IsCovered(Coverage(plan[a], counter[a], seen))
  BY DEF IsWholeReport, IsWhole, PlanOf
<1>2. seen = results[a]
  BY <1>1, WholeView
<1>3. counter[a] = Cardinality(DOMAIN results[a])
  BY DEF RunInv, CountInv
<1>4. (IF counter[a] = 0 THEN Cardinality(DOMAIN seen) ELSE counter[a]) = Len(plan[a])
  BY <1>1 DEF IsCovered, Coverage
<1> QED
  BY <1>1, <1>2, <1>3, <1>4

(* The one answer there can be. *)
Answer ==
    Comparison(ReportOf("initial", results["initial"]), plan["initial"],
               ReportOf("verification", results["verification"]), plan["verification"])

LEMMA AnsweredComparison ==
    ASSUME RunInv, NEW comparison \in Comparisons
    PROVE  /\ comparison = Answer /\ pin # None
           /\ plan["verification"] = plan["initial"] /\ plan["initial"] # <<>>
           /\ \A a \in Assessments :
                 DOMAIN results[a] # {} /\ counter[a] = Len(plan[a])
<1> DEFINE whole(a) == {ReportOf(a, seen) : seen \in {s \in Views(a) : IsWholeReport(a, s)}}
<1>1. /\ pin # None /\ counter["verification"] = Len(plan["verification"])
      /\ counter["verification"] # 0
      /\ \E pair \in whole("initial") \X whole("verification") :
             comparison = Comparison(pair[1], plan["initial"], pair[2], plan["verification"])
  BY DEF Comparisons
<1>2. PICK before \in whole("initial"), after \in whole("verification") :
          comparison = Comparison(before, plan["initial"], after, plan["verification"])
  BY <1>1
<1>3. PICK first \in Views("initial"), second \in Views("verification") :
          /\ IsWholeReport("initial", first) /\ before = ReportOf("initial", first)
          /\ IsWholeReport("verification", second) /\ after = ReportOf("verification", second)
  BY <1>2
<1>4. "initial" \in Assessments /\ "verification" \in Assessments
      /\ \A a \in Assessments : a = "initial" \/ a = "verification"
  BY DEF Assessments
<1>5. /\ first = results["initial"] /\ DOMAIN results["initial"] # {}
      /\ counter["initial"] = Len(plan["initial"])
      /\ second = results["verification"] /\ DOMAIN results["verification"] # {}
      /\ counter["verification"] = Len(plan["verification"])
  BY <1>3, <1>4, WholeReport
<1>6. comparison = Answer
  BY <1>2, <1>3, <1>5 DEF Answer
<1>7. plan["verification"] # <<>>
  <2>1. Len(<<>>) = 0
    OBVIOUS
  <2> QED
    BY <1>1, <2>1
<1>8. plan["verification"] = plan["initial"]
  BY <1>7 DEF RunInv, PlanInv
<1> QED
  BY <1>1, <1>4, <1>5, <1>6, <1>7, <1>8

(* A verification that is complete differs from its source in what was found, and never in *)
(* what was planned or by which rubric (verification.py, comparison.py).                   *)
THEOREM SameMeasure == Spec => []VerificationMeasuresTheSame
<1>1. ASSUME RunInv, NEW comparison \in Comparisons
      PROVE  comparison.reasons \subseteq
                 {"SOURCE_READINESS_UNAVAILABLE", "VERIFICATION_READINESS_UNAVAILABLE"}
  <2>1. /\ comparison = Answer /\ pin # None /\ plan["verification"] = plan["initial"]
        /\ DOMAIN results["initial"] # {} /\ DOMAIN results["verification"] # {}
    BY <1>1, AnsweredComparison DEF Assessments
  <2>2. PICK before, after, planned :
            /\ before = ReportOf("initial", results["initial"])
            /\ after = ReportOf("verification", results["verification"])
            /\ planned = plan["initial"]
    OBVIOUS
  <2>3. before.results = results["initial"] /\ after.results = results["verification"]
    BY <2>2 DEF ReportOf, Report
  <2>4. ASSUME NEW a \in Assessments, DOMAIN results[a] # {}
        PROVE  RubricsIn(results[a]) = {pin}
    <3>1. \A c \in DOMAIN results[a] : results[a][c].rubric = pin
      BY <1>1, <2>1 DEF RunInv, PinInv
    <3> QED
      BY <2>4, <3>1 DEF RubricsIn
  <2>5. RubricsIn(before.results) = RubricsIn(after.results)
    BY <2>1, <2>3, <2>4 DEF Assessments
  <2>6. comparison = Comparison(before, planned, after, planned)
    BY <2>1, <2>2 DEF Answer
  <2>7. comparison.reasons = IneligibilityReasons(before, planned, after, planned)
    BY <2>6 DEF Comparison
  <2>8. IneligibilityReasons(before, planned, after, planned) \subseteq
            {"SOURCE_READINESS_UNAVAILABLE", "VERIFICATION_READINESS_UNAVAILABLE"}
    BY <2>5 DEF IneligibilityReasons
  <2> QED
    BY <2>7, <2>8
<1>2. RunInv => VerificationMeasuresTheSame
  BY <1>1 DEF VerificationMeasuresTheSame
<1> QED
  BY <1>2, RunInvariant, PTL

(* A comparison is drawn from the store and the pin. *)
LEMMA ComparisonsAreOfStore ==
    ASSUME UNCHANGED <<pin, store>>
    PROVE  Comparisons' = Comparisons
<1>1. plan' = plan /\ counter' = counter /\ results' = results /\ findings' = findings /\ pin' = pin
  BY DEF store
<1>2. ASSUME NEW a
      PROVE  Views(a)' = Views(a)
  BY <1>1 DEF Views
<1>3. ASSUME NEW a, NEW seen
      PROVE  /\ IsWholeReport(a, seen)' = IsWholeReport(a, seen)
             /\ ReportOf(a, seen)' = ReportOf(a, seen)
  BY <1>1 DEF IsWholeReport, ReportOf
<1> DEFINE whole(a) == {ReportOf(a, seen) : seen \in {s \in Views(a) : IsWholeReport(a, s)}}
<1>4. ASSUME NEW a
      PROVE  whole(a)' = whole(a)
  BY <1>1, <1>2, <1>3 DEF IsWholeReport, ReportOf
<1>5. PICK before, after : before = whole("initial") /\ after = whole("verification")
  OBVIOUS
<1>6. Comparisons =
          IF pin = None \/ counter["verification"] \notin {Len(plan["verification"])} \ {0}
          THEN {}
          ELSE {Comparison(pair[1], plan["initial"], pair[2], plan["verification"]) :
                    pair \in before \X after}
  BY <1>5 DEF Comparisons
<1>7. before = whole("initial")' /\ after = whole("verification")'
  <2> HIDE DEF whole
  <2> QED
    BY <1>4, <1>5
<1>8. Comparisons' =
          IF pin' = None \/ counter'["verification"] \notin {Len(plan'["verification"])} \ {0}
          THEN {}
          ELSE {Comparison(pair[1], plan'["initial"], pair[2], plan'["verification"]) :
                    pair \in before \X after}
  BY <1>7 DEF Comparisons
<1> HIDE DEF whole
<1> QED
  BY <1>1, <1>6, <1>8

(* There is nothing left to write once a comparison is answered. *)
LEMMA NothingLeft ==
    ASSUME RunInv, [Next]_vars, pin # None,
           \A a \in Assessments : plan[a] # <<>> /\ counter[a] = Len(plan[a])
    PROVE  UNCHANGED <<pin, store>>
<1>1. ASSUME NEW w \in Workers, StoreResult(w)
      PROVE  FALSE
  <2>1. worker[w].of \in Assessments
    BY <1>1 DEF RunInv, WorkerInv, StoreResult, At, IsDelivery, IsDeliveryOf
  <2>2. PICK a \in Assessments : a = worker[w].of
    BY <2>1
  <2>3. counter[a] < Len(plan[a])
    BY <1>1, <2>2 DEF StoreResult, MayStore
  <2>4. Len(plan[a]) \in Nat
    <3>1. PICK planned, S : planned = plan[a] /\ planned \in Seq(S)
      BY DEF RunInv, PlanInv, IsWholePlan
    <3> QED
      BY <3>1
  <2> QED
    BY <2>3, <2>4
<1>2. ASSUME NEW w \in Workers, PutPlan(w)
      PROVE  UNCHANGED <<pin, store>>
  <2>1. worker[w].of \in Assessments
    BY <1>2 DEF RunInv, WorkerInv, PutPlan, At, IsDelivery, IsDeliveryOf
  <2>2. plan[worker[w].of] # <<>>
    BY <2>1
  <2> QED
    BY <1>2, <2>2 DEF PutPlan, setup, store
<1>3. CASE Reconfigure
  BY <1>3 DEF Reconfigure, store
<1>4. CASE StartVerification
  BY <1>4 DEF StartVerification
<1>5. CASE \E w \in Workers : LookForPlan(w) \/ Evaluate(w) \/ ResolveConflict(w) \/ Stop(w)
  BY <1>5 DEF LookForPlan, Evaluate, ResolveConflict, Stop, setup
<1>6. CASE \E w \in Workers, a \in Assessments : Receive(w, a)
  BY <1>6 DEF Receive, setup
<1>7. CASE UNCHANGED vars
  BY <1>7 DEF vars, store
<1> QED
  BY <1>1, <1>2, <1>3, <1>4, <1>5, <1>6, <1>7 DEF Next

(* Whoever asks for the comparison, and whenever, gets the same answer from the first one on *)
(* (comparison.py).                                                                          *)
THEOREM ComparisonStays == Spec => ComparisonStands
<1>1. ASSUME RunInv, [Next]_vars, Comparisons # {}
      PROVE  Comparisons' = Comparisons /\ Cardinality(Comparisons) = 1
  <2>1. PICK comparison : comparison \in Comparisons
    BY <1>1
  <2>2. /\ pin # None /\ plan["verification"] = plan["initial"] /\ plan["initial"] # <<>>
        /\ \A a \in Assessments : counter[a] = Len(plan[a])
    BY <1>1, <2>1, AnsweredComparison
  <2>3. \A a \in Assessments : plan[a] # <<>> /\ counter[a] = Len(plan[a])
    BY <2>2 DEF Assessments
  <2>4. UNCHANGED <<pin, store>>
    BY <1>1, <2>2, <2>3, NothingLeft
  <2>5. Comparisons = {Answer}
    BY <1>1, <2>1, AnsweredComparison
  <2> QED
    BY <2>4, <2>5, ComparisonsAreOfStore, FS_Singleton
<1>2. RunInv /\ [Next]_vars =>
          [LET answered == Comparisons
           IN  answered # {} => Comparisons' = answered /\ Cardinality(answered) = 1]_vars
  BY <1>1
<1> QED
  BY <1>2, RunInvariant, PTL DEF Spec, ComparisonStands

=============================================================================

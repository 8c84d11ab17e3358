---------------------- MODULE RemediationRequestsProofs ----------------------
(***************************************************************************)
(* Theorems about RemediationRequests, for any number of calls, any rules, *)
(* outcomes and commits, and any bounds.                                   *)
(***************************************************************************)
EXTENDS RemediationRequests, SequenceTheorems, TLAPS

Occurrences == [evaluatedAt : Nat, commit : Commits, status : FindingStatus,
                iac : VerdictStatus \cup {NoVerdict}]

Exceptions == [id : Nat, rule : Rules, resource : {Resource, NoResource},
               approvedAt : Nat, expiresAt : Nat]

-----------------------------------------------------------------------------
(* Choices among stored items. *)

(* Every prefix of the stored occurrences has a current one. *)
Newest(stored, k) ==
    \E i \in 1 .. k : \A j \in 1 .. k : j # i => Newer(stored[i], stored[j], i, j)

OccurrenceInv ==
    /\ occurrences \in Seq(Occurrences)
    /\ \A i \in DOMAIN occurrences : MayStore(occurrences[i])
    /\ \A k \in DOMAIN occurrences : Newest(occurrences, k)

(* A set of positions of exceptions has a first one. *)
ExceptionInv ==
    /\ exceptions \in Seq(Exceptions)
    /\ \A i \in DOMAIN exceptions : exceptions[i].id = i /\ ValidException(exceptions[i])
    /\ \A S \in SUBSET DOMAIN exceptions :
          S # {} => \E i \in S : \A j \in S : i <= j

(* What a query answers with is a prefix. *)
LEMMA QueriesArePrefixes ==
    ASSUME NEW S, NEW stored \in Seq(S), NEW seen \in PastVersions(stored)
    PROVE  \E k \in DOMAIN stored :
              DOMAIN seen = 1 .. k /\ \A i \in 1 .. k : i \in DOMAIN stored /\ seen[i] = stored[i]
<1>1. PICK k \in 1 .. Len(stored) : seen = SubSeq(stored, 1, k)
  BY DEF PastVersions
<1>2. Len(stored) \in Nat /\ DOMAIN stored = 1 .. Len(stored)
  OBVIOUS
<1>3. \A i \in 1 .. k : stored[i] \in S
  BY <1>1, <1>2
<1>4. seen \in Seq(S) /\ Len(seen) = k /\ \A i \in 1 .. k : seen[i] = stored[i]
  BY <1>1, <1>2, <1>3, SubSeqProperties
<1>5. DOMAIN seen = 1 .. k
  BY <1>4
<1> QED
  BY <1>1, <1>2, <1>4, <1>5

(* What get_context and get_target take from the finding is a stored occurrence. *)
LEMMA CurrentIsStored ==
    ASSUME OccurrenceInv, NEW seen \in PastVersions(occurrences)
    PROVE  \E i \in DOMAIN occurrences : seen[CurrentOccurrence(seen)] = occurrences[i]
<1>1. occurrences \in Seq(Occurrences)
  BY DEF OccurrenceInv
<1>2. PICK k \in DOMAIN occurrences :
          /\ DOMAIN seen = 1 .. k
          /\ \A i \in 1 .. k : i \in DOMAIN occurrences /\ seen[i] = occurrences[i]
  BY <1>1, QueriesArePrefixes
<1>3. Newest(occurrences, k)
  BY DEF OccurrenceInv
<1>4. \E i \in DOMAIN seen : \A j \in DOMAIN seen \ {i} : Newer(seen[i], seen[j], i, j)
  BY <1>2, <1>3 DEF Newest
<1>5. CurrentOccurrence(seen) \in DOMAIN seen
  BY <1>4 DEF CurrentOccurrence
<1> QED
  BY <1>2, <1>5

(* A further occurrence leaves one of each prefix the newest. *)
LEMMA AppendKeepsNewest ==
    ASSUME OccurrenceInv, NEW o \in Occurrences,
           NEW stored, stored = Append(occurrences, o), NEW k \in DOMAIN stored
    PROVE  Newest(stored, k)
<1>1. /\ occurrences \in Seq(Occurrences) /\ Len(occurrences) \in Nat
      /\ DOMAIN occurrences = 1 .. Len(occurrences)
  BY DEF OccurrenceInv
<1>2. PICK n \in Nat : n = Len(occurrences)
  BY <1>1
<1>3. /\ \A j \in 1 .. n : occurrences[j].evaluatedAt \in Nat
      /\ o.evaluatedAt \in Nat
  <2>1. \A j \in 1 .. n : occurrences[j] \in Occurrences
    BY <1>1, <1>2
  <2> QED
    BY <2>1 DEF Occurrences
<1>4. /\ Len(stored) = n + 1 /\ DOMAIN stored = 1 .. n + 1 /\ stored[n + 1] = o
      /\ \A j \in 1 .. n : stored[j] = occurrences[j]
  BY <1>1, <1>2, AppendProperties
<1>5. CASE k \in 1 .. n
  <2>1. Newest(occurrences, k)
    BY <1>1, <1>2, <1>5 DEF OccurrenceInv
  <2>2. PICK i \in 1 .. k : \A j \in 1 .. k : j # i => Newer(occurrences[i], occurrences[j], i, j)
    BY <2>1, Zenon DEF Newest
  <2>3. \A j \in 1 .. k : stored[j] = occurrences[j]
    BY <1>4, <1>5
  <2>4. \A j \in 1 .. k : j # i => Newer(stored[i], stored[j], i, j)
    BY <2>2, <2>3, Zenon
  <2> QED
    BY <2>4, Zenon DEF Newest
<1>6. CASE k = n + 1 /\ n = 0
  <2>1. \A j \in 1 .. k : j = 1
    BY <1>6
  <2>2. 1 \in 1 .. k
    BY <1>6
  <2> QED
    BY <2>1, <2>2, Zenon DEF Newest
<1>7. CASE k = n + 1 /\ n > 0
  <2>1. Newest(occurrences, n)
    BY <1>1, <1>2, <1>7 DEF OccurrenceInv
  <2>2. PICK i \in 1 .. n : \A j \in 1 .. n : j # i => Newer(occurrences[i], occurrences[j], i, j)
    BY <2>1, Zenon DEF Newest
  <2>3. i \in 1 .. k /\ k \in 1 .. k /\ stored[k] = o /\ stored[i] = occurrences[i]
    BY <1>4, <1>7
  <2>4. CASE o.evaluatedAt >= occurrences[i].evaluatedAt
    <3>1. ASSUME NEW j \in 1 .. k, j # k
          PROVE  Newer(stored[k], stored[j], k, j)
      <4>1. j \in 1 .. n /\ stored[j] = occurrences[j] /\ k > j
        BY <1>4, <1>7, <3>1
      <4>2. j # i => Newer(occurrences[i], occurrences[j], i, j)
        BY <2>2, <4>1
      <4> QED
        BY <1>3, <2>3, <2>4, <4>1, <4>2 DEF Newer
    <3> QED
      BY <2>3, <3>1, Zenon DEF Newest
  <2>5. CASE o.evaluatedAt < occurrences[i].evaluatedAt
    <3>1. Newer(stored[i], stored[k], i, k)
      BY <1>3, <2>3, <2>5 DEF Newer
    <3>2. ASSUME NEW j \in 1 .. k, j # i
          PROVE  Newer(stored[i], stored[j], i, j)
      <4>1. CASE j = k
        BY <3>1, <4>1
      <4>2. CASE j # k
        <5>1. j \in 1 .. n /\ stored[j] = occurrences[j]
          BY <1>4, <1>7, <4>2
        <5> QED
          BY <2>2, <2>3, <3>2, <5>1
      <4> QED
        BY <4>1, <4>2
    <3> QED
      BY <2>3, <3>2, Zenon DEF Newest
  <2> QED
    BY <1>3, <2>4, <2>5
<1> QED
  BY <1>4, <1>5, <1>6, <1>7

(* Positions and one more have a first one. *)
LEMMA AppendKeepsFirst ==
    ASSUME NEW n \in Nat, NEW S \in SUBSET (1 .. n + 1), S # {},
           \A T \in SUBSET (1 .. n) : T # {} => \E i \in T : \A j \in T : i <= j
    PROVE  \E i \in S : \A j \in S : i <= j
<1>1. CASE \A i \in S : i \notin 1 .. n
  <2>1. \A i \in S : i = n + 1
    BY <1>1
  <2> QED
    BY <2>1
<1>2. CASE \E i \in S : i \in 1 .. n
  <2>1. PICK i \in S \cap (1 .. n) : \A j \in S \cap (1 .. n) : i <= j
    BY <1>2
  <2> QED
    BY <2>1
<1> QED
  BY <1>1, <1>2

-----------------------------------------------------------------------------
(* The policy. *)

(* select_in_force_exception: of the exceptions in force one precedes all others, so the      *)
(* choice is of one of them.                                                                  *)
LEMMA SelectedIsInForce ==
    ASSUME ExceptionInv, NEW listed \in PastVersions(exceptions) \cup {<<>>},
           NEW finding, NEW at, InForce(ToSet(listed), finding, at) # {}
    PROVE  \E i \in DOMAIN exceptions :
              /\ SelectException(ToSet(listed), finding, at) = exceptions[i]
              /\ InForceFor(exceptions[i], finding.evaluatedAt, at)
<1> DEFINE force == InForce(ToSet(listed), finding, at)
           positions == {i \in DOMAIN exceptions : exceptions[i] \in force}
           own == {i \in positions : exceptions[i].resource # NoResource}
<1>1. \A e \in force : e \in ToSet(listed) /\ InForceFor(e, finding.evaluatedAt, at)
  BY DEF InForce
<1>2. \A e \in ToSet(listed) : \E i \in DOMAIN exceptions : e = exceptions[i]
  <2>1. CASE listed = <<>>
    BY <2>1 DEF ToSet
  <2>2. CASE listed \in PastVersions(exceptions)
    BY <2>2, QueriesArePrefixes DEF ExceptionInv, ToSet
  <2> QED
    BY <2>1, <2>2
<1>3. \A e \in force : \E i \in positions : e = exceptions[i]
  BY <1>1, <1>2
<1>4. \A S \in SUBSET DOMAIN exceptions : S # {} => \E i \in S : \A j \in S : i <= j
  BY DEF ExceptionInv
<1>5. \A i \in positions : exceptions[i].id = i /\ i \in Nat
  BY DEF ExceptionInv
<1>6. \E i \in positions : \A j \in positions : Precedes(exceptions[i], exceptions[j])
  <2>1. CASE own # {}
    <3>1. PICK i \in own : \A j \in own : i <= j
      BY <1>4, <2>1
    <3> QED
      BY <1>5, <3>1 DEF Precedes
  <2>2. CASE own = {}
    <3>1. PICK i \in positions : \A j \in positions : i <= j
      BY <1>3, <1>4
    <3> QED
      BY <1>5, <2>2, <3>1 DEF Precedes
  <2> QED
    BY <2>1, <2>2
<1>7. \E e \in force : \A o \in force : Precedes(e, o)
  BY <1>3, <1>6
<1>8. SelectException(ToSet(listed), finding, at) \in force
  BY <1>7 DEF SelectException
<1> QED
  BY <1>1, <1>3, <1>8

(* decide(): the action follows from the finding, the verdict and the rule. *)
LEMMA DecideCases ==
    ASSUME NEW finding, NEW target, NEW at, NEW listed,
           finding.perspective \in Perspectives,
           InForce(listed, finding, at) = {}
    PROVE  LET d == Decide(finding, target, at, listed) IN
           /\ d.exception = NoException
           /\ \/ d.action = "MANUAL_REVIEW" /\ d.code \in ManualReviewCodes
              \/ /\ d.action \in {"TERRAFORM_PATCH", "ACTUAL_SYNC"} /\ d.code = NoCode
                 /\ finding.status = "FAIL"
                 /\ ~IsStaleVerdict(finding, target)
                 /\ d.action = "ACTUAL_SYNC" =>
                       finding.perspective # "IAC" /\ target.iac = "PASS"
                 /\ d.action = "TERRAFORM_PATCH" =>
                       /\ finding.perspective = "IAC" \/ target.iac = "FAIL"
                       /\ finding.rule \in AutomaticRules
<1>1. Proposed(finding, target) \in {"TERRAFORM_PATCH", "ACTUAL_SYNC", NoCode}
  BY DEF Proposed
<1>2. /\ Proposed(finding, target) = "TERRAFORM_PATCH" =>
             finding.perspective = "IAC" \/ target.iac = "FAIL"
      /\ Proposed(finding, target) = "ACTUAL_SYNC" =>
             finding.perspective # "IAC" /\ target.iac = "PASS"
  BY NonesAreDistinct DEF Proposed, Actions
<1>3. ManualReason(finding, target) \in ManualReviewCodes \cup {NoCode}
  BY DEF ManualReason, ManualReviewCodes
<1>4. ManualReason(finding, target) = NoCode =>
          /\ finding.status = "FAIL" /\ InScope(finding.rule)
          /\ ~IsStaleVerdict(finding, target)
          /\ Proposed(finding, target) # NoCode
          /\ ~(Proposed(finding, target) = "TERRAFORM_PATCH" /\ finding.rule \in ManualOnlyRules)
  BY NonesAreDistinct DEF ManualReason, ManualReviewCodes
<1>5. Decide(finding, target, at, listed) =
          IF ManualReason(finding, target) # NoCode
          THEN [action |-> "MANUAL_REVIEW", code |-> ManualReason(finding, target),
                exception |-> NoException]
          ELSE [action |-> Proposed(finding, target), code |-> NoCode, exception |-> NoException]
  BY DEF Decide
<1>6. CASE ManualReason(finding, target) # NoCode
  BY <1>3, <1>5, <1>6
<1>7. CASE ManualReason(finding, target) = NoCode
  BY <1>1, <1>2, <1>4, <1>5, <1>7 DEF InScope
<1> QED
  BY <1>6, <1>7

-----------------------------------------------------------------------------
(* Requests. *)

Findings == [rule : Rules, resource : {Resource}, perspective : Perspectives,
             status : FindingStatus, commit : Commits, evaluatedAt : Nat]

Targets == [managed : {TRUE}, iac : VerdictStatus \cup {NoVerdict},
            iacCommit : Commits \cup {NoVerdict}]

Decisions == [action : Actions, code : ManualReviewCodes \cup {NoCode},
              exception : Nat \cup {NoException}]

Calls == [pc : {"idle", "context", "target", "decided", "done"},
          context : Findings \cup {NoRecord}, target : Targets \cup {NoRecord},
          at : Nat, decision : Decisions \cup {NoRecord}]

(* What the decision d about the finding f, taken at the moment at, rests on. *)
Grounded(f, d, at) ==
    /\ ValidDecision(d)
    /\ d.action = "SUPPRESSED" =>
          \E i \in DOMAIN exceptions : /\ exceptions[i].id = d.exception
                                       /\ exceptions[i].approvedAt <= f.evaluatedAt
                                       /\ at < exceptions[i].expiresAt
    /\ d.action = "ACTUAL_SYNC" =>
          \E i \in DOMAIN occurrences : /\ occurrences[i].commit = f.commit
                                        /\ occurrences[i].iac = "PASS"
    /\ d.action = "TERRAFORM_PATCH" =>
          /\ rule \in AutomaticRules
          /\ \E i \in DOMAIN occurrences : /\ occurrences[i].commit = f.commit
                                           /\ occurrences[i].iac = "FAIL"

Started(q) == request[q].pc # "idle"
Targeted(q) == request[q].pc \in {"target", "decided", "done"}
Decided(q) == request[q].pc \in {"decided", "done"}

(* A call holds what it read from stored occurrences, and a grounded decision. *)
CallInv(q) ==
    /\ Started(q) => \E i \in DOMAIN occurrences : request[q].context = FindingOf(occurrences[i])
    /\ Targeted(q) => \E i \in DOMAIN occurrences : request[q].target = TargetOf(occurrences[i])
    /\ Decided(q) => Grounded(request[q].context, request[q].decision, request[q].at)
    /\ ~Targeted(q) => request[q].target = NoRecord
    /\ ~Decided(q) => request[q].decision = NoRecord
    /\ record[q] # NoRecord =>
          Grounded(record[q].finding, record[q].decision, record[q].decidedAt)

EnvironmentInv ==
    /\ rule \in Rules /\ perspective \in Perspectives
    /\ now \in 0 .. MaxTime
    /\ OccurrenceInv
    /\ ExceptionInv

RequestInv ==
    /\ EnvironmentInv
    /\ request \in [Requests -> Calls] /\ DOMAIN record = Requests
    /\ \A q \in Requests : CallInv(q)

(* Finding and target of a stored occurrence are contract values. *)
LEMMA ReadTypes ==
    ASSUME EnvironmentInv, NEW i \in DOMAIN occurrences
    PROVE  /\ FindingOf(occurrences[i]) \in Findings
           /\ TargetOf(occurrences[i]) \in Targets
           /\ ValidTarget(TargetOf(occurrences[i]))
<1>1. occurrences[i] \in Occurrences
  BY DEF EnvironmentInv, OccurrenceInv
<1>2. rule \in Rules /\ perspective \in Perspectives
  BY DEF EnvironmentInv
<1> QED
  BY <1>1, <1>2, RequestBounds
     DEF Occurrences, FindingOf, Findings, TargetOf, Targets, ValidTarget

(* The heart of it: a decision taken from a finding of one read and a verdict of another is   *)
(* grounded in what is stored, because a verdict of another commit is stale.                  *)
LEMMA DecisionIsGrounded ==
    ASSUME EnvironmentInv, NEW f, NEW t, NEW at,
           NEW i \in DOMAIN occurrences, f = FindingOf(occurrences[i]),
           NEW j \in DOMAIN occurrences, t = TargetOf(occurrences[j]),
           NEW listed \in PastVersions(exceptions) \cup {<<>>}, NEW d,
           d = Decide(f, t, at, ToSet(listed))
    PROVE  d \in Decisions /\ Grounded(f, d, at)
<1>1. /\ f \in Findings /\ t \in Targets
      /\ f.rule = rule /\ f.perspective = perspective /\ f.commit = occurrences[i].commit
      /\ f.status = occurrences[i].status
      /\ t.iac = occurrences[j].iac
      /\ t.iac # NoVerdict => t.iacCommit = occurrences[j].commit
  BY ReadTypes DEF FindingOf, TargetOf
<1>2. CASE InForce(ToSet(listed), f, at) # {}
  <2>1. PICK k \in DOMAIN exceptions :
            /\ SelectException(ToSet(listed), f, at) = exceptions[k]
            /\ InForceFor(exceptions[k], f.evaluatedAt, at)
    BY <1>2, SelectedIsInForce DEF EnvironmentInv
  <2>2. d = [action |-> "SUPPRESSED", code |-> NoCode, exception |-> exceptions[k].id]
    BY <1>2, <2>1 DEF Decide
  <2>3. exceptions[k].id \in Nat
    BY DEF EnvironmentInv, ExceptionInv, Exceptions
  <2>4. ValidDecision(d)
    BY <2>2, <2>3, NonesAreDistinct DEF ValidDecision, Actions
  <2> QED
    BY <2>1, <2>2, <2>3, <2>4 DEF Grounded, InForceFor, Decisions, Actions
<1>3. CASE InForce(ToSet(listed), f, at) = {}
  <2>1. /\ d.exception = NoException
        /\ \/ d.action = "MANUAL_REVIEW" /\ d.code \in ManualReviewCodes
           \/ /\ d.action \in {"TERRAFORM_PATCH", "ACTUAL_SYNC"} /\ d.code = NoCode
              /\ f.status = "FAIL" /\ ~IsStaleVerdict(f, t)
              /\ d.action = "ACTUAL_SYNC" => f.perspective # "IAC" /\ t.iac = "PASS"
              /\ d.action = "TERRAFORM_PATCH" =>
                    /\ f.perspective = "IAC" \/ t.iac = "FAIL"
                    /\ f.rule \in AutomaticRules
    BY <1>1, <1>3, DecideCases DEF Findings
  <2>2. \E a, c : d = [action |-> a, code |-> c, exception |-> NoException]
    BY <1>3 DEF Decide
  <2>3. ValidDecision(d) /\ d \in Decisions
    BY <2>1, <2>2, NonesAreDistinct DEF ValidDecision, Decisions, Actions
  <2>4. t.iac \in {"PASS", "FAIL"} /\ perspective # "IAC" /\ ~IsStaleVerdict(f, t) =>
            occurrences[j].commit = f.commit
    BY <1>1, NonesAreDistinct DEF IsStaleVerdict, VerdictStatus, FindingStatus
  <2>5. d.action = "ACTUAL_SYNC" =>
            occurrences[j].commit = f.commit /\ occurrences[j].iac = "PASS"
    BY <1>1, <2>1, <2>4
  <2>6. d.action = "TERRAFORM_PATCH" => \E k \in {i, j} :
            occurrences[k].commit = f.commit /\ occurrences[k].iac = "FAIL"
    <3>1. perspective = "IAC" => occurrences[i].iac = occurrences[i].status
      BY DEF EnvironmentInv, OccurrenceInv, MayStore
    <3> QED
      BY <1>1, <2>1, <2>4, <3>1
  <2> QED
    BY <1>1, <2>1, <2>3, <2>5, <2>6 DEF Grounded
<1> QED
  BY <1>2, <1>3

(* Stored occurrences and exceptions stay where they are. *)
Grows ==
    /\ UNCHANGED violation
    /\ \A i \in DOMAIN occurrences : i \in DOMAIN occurrences' /\ occurrences'[i] = occurrences[i]
    /\ \A i \in DOMAIN exceptions : i \in DOMAIN exceptions' /\ exceptions'[i] = exceptions[i]

(* Time, Assessments and exceptions keep EnvironmentInv and add to what is stored. *)
LEMMA EnvironmentSteps ==
    ASSUME EnvironmentInv, Tick \/ StoreOccurrence \/ CreateException
    PROVE  EnvironmentInv' /\ Grows
<1>1. /\ occurrences \in Seq(Occurrences) /\ exceptions \in Seq(Exceptions)
      /\ now \in Nat /\ now <= MaxTime /\ MaxTime \in Nat
      /\ rule \in Rules /\ perspective \in Perspectives
  BY RequestBounds DEF EnvironmentInv, OccurrenceInv, ExceptionInv
<1>2. CASE Tick
  <2>1. now' \in 0 .. MaxTime
    BY <1>1, <1>2 DEF Tick
  <2> QED
    BY <1>2, <2>1 DEF Tick, EnvironmentInv, OccurrenceInv, ExceptionInv, MayStore, violation, Grows
<1>3. CASE StoreOccurrence
  <2>1. PICK o : /\ occurrences' = Append(occurrences, o)
                 /\ o \in Occurrences /\ MayStore(o)
    BY <1>1, <1>3, OutcomesAreStatuses DEF StoreOccurrence, Occurrences, MayStore
  <2>2. /\ occurrences' \in Seq(Occurrences) /\ Len(occurrences) \in Nat
        /\ DOMAIN occurrences = 1 .. Len(occurrences)
        /\ DOMAIN occurrences' = 1 .. Len(occurrences) + 1
        /\ \A i \in 1 .. Len(occurrences) : occurrences'[i] = occurrences[i]
        /\ occurrences'[Len(occurrences) + 1] = o
    BY <1>1, <2>1, AppendProperties
  <2>3. \A k \in DOMAIN occurrences' : Newest(occurrences', k)
    BY <2>1, AppendKeepsNewest DEF EnvironmentInv
  <2>4. UNCHANGED <<violation, now, exceptions>>
    BY <1>3 DEF StoreOccurrence
  <2>5. \A i \in DOMAIN occurrences' : MayStore(occurrences'[i])
    BY <2>1, <2>2 DEF EnvironmentInv, OccurrenceInv
  <2>6. OccurrenceInv'
    BY <2>2, <2>3, <2>4, <2>5 DEF OccurrenceInv, MayStore, violation
  <2> QED
    BY <2>2, <2>4, <2>6 DEF EnvironmentInv, ExceptionInv, violation, Grows
<1>4. CASE CreateException
  <2>1. PICK e : /\ exceptions' = Append(exceptions, e) /\ ValidException(e)
                 /\ e \in Exceptions /\ e.id = Len(exceptions) + 1
    <3> DEFINE x(resource, expiresAt) ==
              [id |-> Len(exceptions) + 1, rule |-> rule, resource |-> resource,
               approvedAt |-> now, expiresAt |-> expiresAt]
    <3>1. PICK resource \in {Resource, NoResource}, expiresAt \in now .. (MaxTime + 1) :
              /\ ValidException(x(resource, expiresAt))
              /\ exceptions' = Append(exceptions, x(resource, expiresAt))
      BY <1>4 DEF CreateException
    <3>2. Len(exceptions) + 1 \in Nat /\ expiresAt \in Nat
      BY <1>1
    <3>3. x(resource, expiresAt) \in Exceptions
      BY <1>1, <3>1, <3>2 DEF Exceptions
    <3> QED
      BY <3>1, <3>3
  <2>2. /\ exceptions' \in Seq(Exceptions) /\ Len(exceptions) \in Nat
        /\ DOMAIN exceptions = 1 .. Len(exceptions)
        /\ DOMAIN exceptions' = 1 .. Len(exceptions) + 1
        /\ \A i \in 1 .. Len(exceptions) : exceptions'[i] = exceptions[i]
        /\ exceptions'[Len(exceptions) + 1] = e
    BY <1>1, <2>1, AppendProperties
  <2>3. \A S \in SUBSET DOMAIN exceptions' : S # {} => \E i \in S : \A j \in S : i <= j
    BY <2>2, AppendKeepsFirst DEF EnvironmentInv, ExceptionInv
  <2>4. UNCHANGED <<violation, now, occurrences>>
    BY <1>4 DEF CreateException
  <2>5. \A i \in DOMAIN exceptions' : exceptions'[i].id = i /\ ValidException(exceptions'[i])
    BY <2>1, <2>2 DEF EnvironmentInv, ExceptionInv
  <2>6. ExceptionInv'
    BY <2>2, <2>3, <2>5 DEF ExceptionInv
  <2> QED
    BY <2>2, <2>4, <2>6 DEF EnvironmentInv, OccurrenceInv, MayStore, violation, Grows
<1> QED
  BY <1>2, <1>3, <1>4

(* What a decision rests on stays stored. *)
LEMMA GroundedStays ==
    ASSUME Grows, NEW f, NEW d, NEW at, Grounded(f, d, at)
    PROVE  Grounded(f, d, at)'
BY DEF Grows, Grounded, violation

(* A call that does not move keeps what it read and decided. *)
LEMMA CallStays ==
    ASSUME Grows, NEW q, CallInv(q), request'[q] = request[q], record'[q] = record[q]
    PROVE  CallInv(q)'
<1>1. PICK c, r : c = request[q] /\ r = record[q]
  OBVIOUS
<1>2. Decided(q) => Grounded(c.context, c.decision, c.at)'
  BY <1>1, GroundedStays DEF CallInv
<1>3. r # NoRecord => Grounded(r.finding, r.decision, r.decidedAt)'
  BY <1>1, GroundedStays DEF CallInv
<1>4. UNCHANGED violation
  BY DEF Grows
<1>5. \A i \in DOMAIN occurrences :
          /\ FindingOf(occurrences[i])' = FindingOf(occurrences[i])
          /\ TargetOf(occurrences[i])' = TargetOf(occurrences[i])
  BY <1>4 DEF Grows, FindingOf, TargetOf, violation
<1> QED
  BY <1>1, <1>2, <1>3, <1>5 DEF CallInv, Started, Targeted, Decided, Grows

(* Reading, deciding and storing keep what the other calls have. *)
LEMMA RequestSteps ==
    ASSUME RequestInv, NEW q \in Requests, RequestStep(q)
    PROVE  /\ UNCHANGED <<violation, now, occurrences, exceptions>>
           /\ request' \in [Requests -> Calls] /\ DOMAIN record' = Requests
           /\ CallInv(q)'
           /\ \A p \in Requests \ {q} : request'[p] = request[p] /\ record'[p] = record[p]
<1>1. /\ request \in [Requests -> Calls] /\ DOMAIN record = Requests
      /\ EnvironmentInv /\ CallInv(q)
  BY DEF RequestInv
<1>2. PICK c, r : c = request[q] /\ r = record[q] /\ c \in Calls
  BY <1>1
<1>3. now \in Nat
  BY <1>1, RequestBounds DEF EnvironmentInv
<1>4. ASSUME UNCHANGED <<occurrences, exceptions, violation>>, NEW f, NEW d, NEW at
      PROVE  Grounded(f, d, at)' <=> Grounded(f, d, at)
  BY <1>4 DEF Grounded, violation
<1>5. ASSUME UNCHANGED violation, NEW o
      PROVE  FindingOf(o)' = FindingOf(o) /\ TargetOf(o)' = TargetOf(o)
  BY <1>5 DEF FindingOf, TargetOf, violation
<1>6. CASE ReadContext(q)
  <2>1. UNCHANGED <<violation, now, occurrences, exceptions, record>> /\ c.pc = "idle"
    BY <1>2, <1>6 DEF ReadContext
  <2>2. PICK i \in DOMAIN occurrences :
            request' = [request EXCEPT ![q].pc = "context",
                                       ![q].context = FindingOf(occurrences[i])]
    BY <1>1, <1>6, CurrentIsStored DEF ReadContext, EnvironmentInv
  <2>3. FindingOf(occurrences[i]) \in Findings
    BY <1>1, ReadTypes
  <2>4. request'[q] = [c EXCEPT !.pc = "context", !.context = FindingOf(occurrences[i])]
    BY <1>1, <1>2, <2>2
  <2>5. request'[q] \in Calls
    BY <1>2, <2>3, <2>4 DEF Calls
  <2>6. \A p \in Requests \ {q} : request'[p] = request[p]
    BY <1>1, <2>2
  <2>7. request' \in [Requests -> Calls]
    BY <1>1, <2>2, <2>5, <2>6
  <2>8. /\ request'[q].pc = "context" /\ request'[q].context = FindingOf(occurrences[i])
        /\ request'[q].target = c.target /\ request'[q].decision = c.decision
    BY <1>2, <2>4 DEF Calls
  <2>9. FindingOf(occurrences[i])' = FindingOf(occurrences[i])
    BY <2>1 DEF FindingOf, violation
  <2>10. r # NoRecord => Grounded(r.finding, r.decision, r.decidedAt)'
    BY <1>1, <1>2, <1>4, <2>1 DEF CallInv
  <2>11. CallInv(q)'
    BY <1>1, <1>2, <2>1, <2>8, <2>9, <2>10 DEF CallInv, Started, Targeted, Decided
  <2> QED
    BY <1>1, <2>1, <2>6, <2>7, <2>11
<1>7. CASE ReadTarget(q)
  <2>1. UNCHANGED <<violation, now, occurrences, exceptions, record>> /\ c.pc = "context"
    BY <1>2, <1>7 DEF ReadTarget
  <2>2. PICK i \in DOMAIN occurrences :
            request' = [request EXCEPT ![q].pc = "target", ![q].at = now,
                                       ![q].target = TargetOf(occurrences[i])]
    <3>1. PICK seen \in PastVersions(occurrences) :
              request' = [request EXCEPT
                  ![q].pc = "target", ![q].at = now,
                  ![q].target = TargetOf(seen[CurrentOccurrence(seen)])]
      BY <1>7 DEF ReadTarget
    <3>2. \E i \in DOMAIN occurrences : seen[CurrentOccurrence(seen)] = occurrences[i]
      BY <1>1, <3>1, CurrentIsStored DEF EnvironmentInv
    <3> QED
      BY <3>1, <3>2
  <2>3. TargetOf(occurrences[i]) \in Targets
    BY <1>1, ReadTypes
  <2>4. request'[q] = [c EXCEPT !.pc = "target", !.at = now, !.target = TargetOf(occurrences[i])]
    BY <1>1, <1>2, <2>2
  <2>5. request'[q] \in Calls
    BY <1>2, <1>3, <2>3, <2>4 DEF Calls
  <2>6. \A p \in Requests \ {q} : request'[p] = request[p]
    BY <1>1, <2>2
  <2>7. request' \in [Requests -> Calls]
    BY <1>1, <2>2, <2>5, <2>6
  <2>8. /\ request'[q].pc = "target" /\ request'[q].target = TargetOf(occurrences[i])
        /\ request'[q].context = c.context /\ request'[q].decision = c.decision
    BY <1>2, <2>4 DEF Calls
  <2>9. \A j \in DOMAIN occurrences :
            /\ FindingOf(occurrences[j])' = FindingOf(occurrences[j])
            /\ TargetOf(occurrences[j])' = TargetOf(occurrences[j])
    BY <2>1 DEF FindingOf, TargetOf, violation
  <2>10. r # NoRecord => Grounded(r.finding, r.decision, r.decidedAt)'
    BY <1>1, <1>2, <1>4, <2>1 DEF CallInv
  <2>11. CallInv(q)'
    BY <1>1, <1>2, <2>1, <2>8, <2>9, <2>10 DEF CallInv, Started, Targeted, Decided
  <2> QED
    BY <1>1, <2>1, <2>6, <2>7, <2>11
<1>8. CASE DecideRequest(q)
  <2>1. UNCHANGED <<violation, now, occurrences, exceptions, record>> /\ c.pc = "target"
    BY <1>2, <1>8 DEF DecideRequest
  <2>2. PICK listed \in PastVersions(exceptions) \cup {<<>>} :
            request' = [request EXCEPT
                ![q].pc = "decided",
                ![q].decision = Decide(c.context, c.target, c.at, ToSet(listed))]
    BY <1>2, <1>8 DEF DecideRequest
  <2>3. PICK d : d = Decide(c.context, c.target, c.at, ToSet(listed))
    OBVIOUS
  <2>4. PICK i \in DOMAIN occurrences, j \in DOMAIN occurrences :
            c.context = FindingOf(occurrences[i]) /\ c.target = TargetOf(occurrences[j])
    BY <1>1, <1>2, <2>1 DEF CallInv, Started, Targeted
  <2>5. d \in Decisions /\ Grounded(c.context, d, c.at)
    BY <1>1, <2>3, <2>4, DecisionIsGrounded
  <2>6. request'[q] = [c EXCEPT !.pc = "decided", !.decision = d]
    BY <1>1, <1>2, <2>2, <2>3
  <2>7. request'[q] \in Calls
    BY <1>2, <2>5, <2>6 DEF Calls
  <2>8. \A p \in Requests \ {q} : request'[p] = request[p]
    BY <1>1, <2>2
  <2>9. request' \in [Requests -> Calls]
    BY <1>1, <2>2, <2>7, <2>8
  <2>10. /\ request'[q].pc = "decided" /\ request'[q].context = c.context
         /\ request'[q].target = c.target /\ request'[q].decision = d /\ request'[q].at = c.at
    BY <1>2, <2>6 DEF Calls
  <2>11. /\ FindingOf(occurrences[i])' = FindingOf(occurrences[i])
         /\ TargetOf(occurrences[j])' = TargetOf(occurrences[j])
    BY <2>1 DEF FindingOf, TargetOf, violation
  <2>12. /\ r # NoRecord => Grounded(r.finding, r.decision, r.decidedAt)'
         /\ Grounded(c.context, d, c.at)'
    BY <1>1, <1>2, <1>4, <2>1, <2>5 DEF CallInv
  <2>13. CallInv(q)'
    BY <1>2, <2>1, <2>4, <2>10, <2>11, <2>12 DEF CallInv, Started, Targeted, Decided
  <2> QED
    BY <1>1, <2>1, <2>8, <2>9, <2>13
<1>9. CASE StoreDecision(q)
  <2>1. UNCHANGED <<violation, now, occurrences, exceptions>> /\ c.pc = "decided"
    BY <1>2, <1>9 DEF StoreDecision
  <2>2. /\ record' = [record EXCEPT ![q] =
              [finding |-> c.context, decision |-> c.decision,
               decidedAt |-> c.at, hasJob |-> IsActionable(c.decision)]]
        /\ request' = [request EXCEPT ![q].pc = "done"]
    BY <1>2, <1>9 DEF StoreDecision
  <2>3. request'[q] = [c EXCEPT !.pc = "done"]
    BY <1>1, <1>2, <2>2
  <2>4. request'[q] \in Calls
    BY <1>2, <2>3 DEF Calls
  <2>5. \A p \in Requests \ {q} : request'[p] = request[p] /\ record'[p] = record[p]
    BY <1>1, <2>2
  <2>6. request' \in [Requests -> Calls] /\ DOMAIN record' = Requests
    BY <1>1, <2>2, <2>4, <2>5
  <2>7. /\ request'[q].pc = "done" /\ request'[q].context = c.context
        /\ request'[q].target = c.target /\ request'[q].decision = c.decision
        /\ request'[q].at = c.at
    BY <1>2, <2>3 DEF Calls
  <2>8. /\ record'[q].finding = c.context /\ record'[q].decision = c.decision
        /\ record'[q].decidedAt = c.at
    BY <1>1, <2>2
  <2>9. Grounded(c.context, c.decision, c.at)'
    BY <1>1, <1>2, <1>4, <2>1 DEF CallInv, Decided
  <2>10. \A j \in DOMAIN occurrences :
            /\ FindingOf(occurrences[j])' = FindingOf(occurrences[j])
            /\ TargetOf(occurrences[j])' = TargetOf(occurrences[j])
    BY <2>1 DEF FindingOf, TargetOf, violation
  <2>11. CallInv(q)'
    BY <1>1, <1>2, <2>1, <2>7, <2>8, <2>9, <2>10 DEF CallInv, Started, Targeted, Decided
  <2> QED
    BY <2>1, <2>5, <2>6, <2>11
<1> QED
  BY <1>6, <1>7, <1>8, <1>9 DEF RequestStep

LEMMA InitialRequests == Init => RequestInv
<1> SUFFICES ASSUME Init PROVE RequestInv
  OBVIOUS
<1>1. /\ rule \in Rules /\ perspective \in Perspectives /\ now = 0
      /\ occurrences = <<>> /\ exceptions = <<>>
      /\ request = [q \in Requests |-> Idle]
      /\ record = [q \in Requests |-> NoRecord]
  BY DEF Init
<1>2. occurrences \in Seq(Occurrences) /\ DOMAIN occurrences = {}
  BY <1>1
<1>3. exceptions \in Seq(Exceptions) /\ DOMAIN exceptions = {}
  BY <1>1
<1>4. EnvironmentInv
  BY <1>1, <1>2, <1>3, RequestBounds DEF EnvironmentInv, OccurrenceInv, ExceptionInv
<1>5. Idle \in Calls
  BY DEF Idle, Calls
<1>6. \A q \in Requests : CallInv(q)
  BY <1>1 DEF CallInv, Started, Targeted, Decided, Idle
<1> QED
  BY <1>1, <1>4, <1>5, <1>6 DEF RequestInv

LEMMA StepKeepsRequests == RequestInv /\ [Next]_vars => RequestInv'
<1> SUFFICES ASSUME RequestInv, [Next]_vars PROVE RequestInv'
  OBVIOUS
<1>1. CASE Tick \/ StoreOccurrence \/ CreateException
  <2>1. EnvironmentInv' /\ Grows
    BY <1>1, EnvironmentSteps DEF RequestInv
  <2>2. UNCHANGED <<request, record>>
    BY <1>1 DEF Tick, StoreOccurrence, CreateException
  <2>3. \A q \in Requests : CallInv(q)'
    BY <2>1, <2>2, CallStays DEF RequestInv
  <2> QED
    BY <2>1, <2>2, <2>3 DEF RequestInv
<1>2. CASE \E q \in Requests : RequestStep(q)
  <2>1. PICK q \in Requests : RequestStep(q)
    BY <1>2
  <2>2. /\ UNCHANGED <<violation, now, occurrences, exceptions>>
        /\ request' \in [Requests -> Calls] /\ DOMAIN record' = Requests
        /\ CallInv(q)'
        /\ \A p \in Requests \ {q} : request'[p] = request[p] /\ record'[p] = record[p]
    BY <2>1, RequestSteps
  <2>3. Grows
    BY <2>2 DEF Grows
  <2>4. EnvironmentInv'
    BY <2>2 DEF RequestInv, EnvironmentInv, OccurrenceInv, ExceptionInv, MayStore, violation
  <2>5. \A p \in Requests : CallInv(p)'
    BY <2>2, <2>3, CallStays DEF RequestInv
  <2> QED
    BY <2>2, <2>4, <2>5 DEF RequestInv
<1>3. CASE UNCHANGED vars
  <2>1. UNCHANGED <<violation, now, occurrences, exceptions, request, record>>
    BY <1>3 DEF vars
  <2>2. Grows
    BY <2>1 DEF Grows
  <2>3. EnvironmentInv'
    BY <2>1 DEF RequestInv, EnvironmentInv, OccurrenceInv, ExceptionInv, MayStore, violation
  <2>4. \A q \in Requests : CallInv(q)'
    BY <2>1, <2>2, CallStays DEF RequestInv
  <2> QED
    BY <2>1, <2>3, <2>4 DEF RequestInv
<1> QED
  BY <1>1, <1>2, <1>3 DEF Next

(* Every remediation request, between any of its reads, holds only what was stored: its       *)
(* finding and its target verdict are those of stored occurrences, and its decision is        *)
(* grounded in them and in a stored exception.                                                *)
THEOREM RequestInvariant == Spec => []RequestInv
<1>1. Init => RequestInv
  BY InitialRequests
<1>2. RequestInv /\ [Next]_vars => RequestInv'
  BY StepKeepsRequests
<1> QED
  BY <1>1, <1>2, PTL DEF Spec

(* Whatever a call reads and decides satisfies the checks of the contract it is built with,   *)
(* so that create_remediation never fails on a value it made itself.                          *)
THEOREM RequestTypes == Spec => []RequestsTypeOK
<1>1. ASSUME RequestInv PROVE RequestsTypeOK
  <2>1. \A e \in ToSet(exceptions) : ValidException(e)
    BY <1>1 DEF RequestInv, EnvironmentInv, ExceptionInv, ToSet
  <2>2. ASSUME NEW q \in Requests
        PROVE  /\ request[q].pc \in {"idle", "context", "target", "decided", "done"}
               /\ request[q].target = NoRecord \/ ValidTarget(request[q].target)
               /\ request[q].decision = NoRecord \/ ValidDecision(request[q].decision)
    <3>1. request[q] \in Calls /\ CallInv(q) /\ EnvironmentInv
      BY <1>1, <2>2 DEF RequestInv
    <3>2. request[q].target = NoRecord \/ ValidTarget(request[q].target)
      BY <3>1, ReadTypes DEF CallInv
    <3>3. request[q].decision = NoRecord \/ ValidDecision(request[q].decision)
      BY <3>1 DEF CallInv, Grounded
    <3> QED
      BY <3>1, <3>2, <3>3 DEF Calls
  <2> QED
    BY <1>1, <2>1, <2>2 DEF RequestsTypeOK, RequestInv, EnvironmentInv
<1> QED
  BY <1>1, RequestInvariant, PTL

(* A remediation is stored SUPPRESSED only under an exception approved before the violation   *)
(* was evaluated and in force when decide() ran, whatever was registered meanwhile.           *)
THEOREM SuppressionIsApproved == Spec => []NoRetroactiveSuppression
<1>1. RequestInv => NoRetroactiveSuppression
  BY DEF RequestInv, CallInv, Grounded, NoRetroactiveSuppression, Stored
<1> QED
  BY <1>1, RequestInvariant, PTL

(* ACTUAL_SYNC is decided only for a commit an Assessment judged to pass, although get_context *)
(* and get_target read the occurrence apart: a verdict of another commit is stale.             *)
THEOREM SyncedCommitIsJudged == Spec => []SyncedCommitPassed
<1>1. RequestInv => SyncedCommitPassed
  BY DEF RequestInv, CallInv, Grounded, SyncedCommitPassed, Stored
<1> QED
  BY <1>1, RequestInvariant, PTL

(* TERRAFORM_PATCH is decided only for a commit an Assessment judged to fail and a rule that  *)
(* may be patched automatically.                                                              *)
THEOREM PatchedCommitIsJudged == Spec => []PatchedCommitFailed
<1>1. RequestInv => PatchedCommitFailed
  BY DEF RequestInv, CallInv, Grounded, PatchedCommitFailed, Stored
<1> QED
  BY <1>1, RequestInvariant, PTL

=============================================================================

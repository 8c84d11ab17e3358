---------------------------- MODULE PolicyProofs ----------------------------
(***************************************************************************)
(* Theorems about PolicyProfiles, for any documents, clients, workers and  *)
(* profiles, any replies of the model and any sound control catalog.       *)
(***************************************************************************)
EXTENDS PolicyProfiles, FiniteSetTheorems, TLAPS

-----------------------------------------------------------------------------
(* Types *)

AllOutcomes == UNION Results
AllRules == {Rule(o.of) : o \in Candidates(AllOutcomes)}
AllEntries == [of : Documents, rule : AllRules]
RuleNames == {r.id : r \in AllRules}

Statuses == {"UPLOAD_PENDING", "UPLOADED", "REVIEW_REQUIRED", "READY", "FAILED"}
SourceItems == [status : Statuses, reviewer : Clients \cup {NoItem}]
Manifests == {NoItem, Processing} \cup {Ready(r) : r \in Results}
Approvals == [rules : SUBSET RuleNames]
Segmentations == UNION {[D -> SUBSET RuleNames] : D \in SUBSET Documents}
VersionItems == [rules : SUBSET AllEntries, segments : Segmentations]

(* What a request holds while it is under way. *)
Idling == [pc : {"idle"}]
Handling ==
    [pc : {"finalize", "normalize", "confirm", "delete", "source item"}, of : Documents]
Reviewing == [pc : {"review"}, of : Documents, results : Results]
Approving == [pc : {"approve"}, of : Documents, rules : SUBSET AllRules]
Recording ==
    [pc : {"record"}, of : Documents, rules : SUBSET AllRules, seen : Approvals \cup {NoItem}]
Publishing ==
    [pc : {"publish"}, profile : Profiles, expected : Versions \cup {NoItem},
     rules : SUBSET AllEntries]
Retiring == [pc : {"retire"}, profile : Profiles]
Deleting ==
    [pc : {"approval item", "run item", "children"}, of : Documents, run : Manifests,
     keys : SUBSET AllOutcomes]
ClientStates ==
    Idling \cup Handling \cup Reviewing \cup Approving \cup Recording
        \cup Publishing \cup Retiring \cup Deleting

WorkerStates ==
    [pc : {"idle"}]
        \cup [pc : {"begin", "children", "ready", "source"}, of : Documents, result : Results]

SourcesTypeInv ==
    /\ source \in [Documents -> SourceItems \cup {NoItem}]
    /\ queued \subseteq Documents
    /\ receives \in [Documents -> 0..MaxReceives]
    /\ manifest \in [Documents -> Manifests]
    /\ children \in [Documents -> SUBSET AllOutcomes]
    /\ published \subseteq Documents
    /\ worker \in [Workers -> WorkerStates]

PolicyTypeInv ==
    /\ approval \in [Documents -> Approvals \cup {NoItem}]
    /\ registry \subseteq AllEntries
    /\ version \in [Profiles -> [Versions -> VersionItems \cup {NoItem}]]
    /\ current \in [Profiles -> Versions \cup {NoItem}]

ClientTypeInv == client \in [Clients -> ClientStates]

TypeInv == SourcesTypeInv /\ PolicyTypeInv /\ ClientTypeInv

(* The value of "pc" tells what else a request holds. *)
LEMMA ClientKinds ==
    ASSUME ClientTypeInv, NEW c \in Clients
    PROVE  /\ client[c] \in ClientStates
           /\ client[c].pc \in {"finalize", "normalize", "confirm", "delete", "source item"}
                  => client[c] \in Handling
           /\ At(c, "review") => client[c] \in Reviewing
           /\ At(c, "approve") => client[c] \in Approving
           /\ At(c, "record") => client[c] \in Recording
           /\ At(c, "publish") => client[c] \in Publishing
           /\ At(c, "retire") => client[c] \in Retiring
           /\ client[c].pc \in {"approval item", "run item", "children"}
                  => client[c] \in Deleting
BY DEF ClientTypeInv, ClientStates, Idling, Handling, Reviewing, Approving, Recording,
       Publishing, Retiring, Deleting, At

(* A request goes on alone. *)
LEMMA GoType ==
    ASSUME ClientTypeInv, NEW c \in Clients, NEW state \in ClientStates, Go(c, state)
    PROVE  /\ ClientTypeInv'
           /\ client'[c] = state
           /\ \A e \in Clients \ {c} : client'[e] = client[e]
BY DEF ClientTypeInv, Go

LEMMA DoneType ==
    ASSUME ClientTypeInv, NEW c \in Clients, Done(c)
    PROVE  /\ ClientTypeInv'
           /\ client'[c].pc = "idle"
           /\ \A e \in Clients \ {c} : client'[e] = client[e]
<1>1. Idle \in ClientStates /\ Idle.pc = "idle"
  BY DEF Idle, ClientStates, Idling
<1>2. Go(c, Idle)
  BY DEF Done
<1> QED
  BY <1>1, <1>2, GoType

(* The initial state has the right types. *)
LEMMA InitialType == Init => TypeInv
<1> SUFFICES ASSUME Init PROVE TypeInv
  OBVIOUS
<1>1. UploadSession \in SourceItems
  BY DEF UploadSession, SourceItems, Statuses
<1>2. Idle \in ClientStates /\ Idle \in WorkerStates
  BY DEF Idle, ClientStates, Idling, WorkerStates
<1>3. SourcesTypeInv /\ ClientTypeInv
  BY <1>1, <1>2, ReceivesAreLimited
     DEF Init, SourcesInit, SourcesTypeInv, ClientTypeInv, Manifests
<1>4. PolicyTypeInv
  BY DEF Init, PolicyTypeInv
<1> QED
  BY <1>3, <1>4 DEF TypeInv

(* Everything a document may yield is an outcome of a sound requirement. *)
LEMMA OutcomesAreSound ==
    ASSUME NEW outcomes \in Results, NEW o \in outcomes
    PROVE  SoundRequirement(o.of) /\ o = Outcome(o.of)
<1>1. PICK kept \in Extractions : outcomes = {Outcome(q) : q \in kept}
  BY DEF Results
<1>2. PICK q \in kept : o = Outcome(q)
  BY <1>1
<1>3. o.of = q
  BY <1>2 DEF Outcome, Unsupported, Rejected, Accepted
<1>4. SoundRequirement(q)
  <2> DEFINE Chosen == {f \in [WindowStarts -> Replies] :
                          \A s \in WindowStarts : IsUsable(Chunk(s), f[s])}
             Merged(f) ==
                {e \in UNION {f[s].requirements : s \in WindowStarts} :
                    \E s \in WindowStarts :
                        /\ e \in f[s].requirements
                        /\ \A t \in WindowStarts : t < s =>
                               \A x \in f[t].requirements : Digest(x) # Digest(e)}
  <2>1. kept \in UNION {OnePerDigest(Merged(f)) : f \in Chosen}
    BY DEF Extractions
  <2>2. PICK f \in Chosen : kept \in OnePerDigest(Merged(f))
    BY <2>1
  <2>3. q \in Merged(f)
    BY <2>2 DEF OnePerDigest
  <2>4. PICK s \in WindowStarts : q \in f[s].requirements
    BY <2>3
  <2> QED
    BY <2>2, <2>4 DEF IsUsable
<1> QED
  BY <1>2, <1>3, <1>4

-----------------------------------------------------------------------------
(* Types are kept. *)

(* The steps of a document's upload and of its review. *)
LEMMA UploadStepType ==
    ASSUME TypeInv, NEW c \in Clients,
           \/ \E d \in Documents : BeginFinalize(c, d) \/ BeginConfirm(c, d)
           \/ Finalize(c) \/ RecordNormalization(c) \/ Confirm(c) \/ ClientStops(c)
    PROVE  SourcesTypeInv' /\ ClientTypeInv'
<1> USE DEF TypeInv
<1>1. ASSUME NEW d \in Documents, BeginFinalize(c, d) \/ BeginConfirm(c, d)
      PROVE  SourcesTypeInv' /\ ClientTypeInv'
  <2>1. /\ [pc |-> "finalize", of |-> d] \in ClientStates
        /\ [pc |-> "confirm", of |-> d] \in ClientStates
    BY DEF ClientStates, Handling
  <2>2. ClientTypeInv'
    BY <1>1, <2>1, GoType DEF BeginFinalize, BeginConfirm
  <2> QED
    BY <1>1, <2>2 DEF BeginFinalize, BeginConfirm, SourcesTypeInv, authoring
<1>2. ASSUME NEW d \in Documents, NEW s \in Statuses, source[d] # NoItem, SetStatus(d, s)
      PROVE  source' \in [Documents -> SourceItems \cup {NoItem}]
  BY <1>2 DEF SetStatus, SourcesTypeInv, SourceItems
<1>3. CASE Finalize(c)
  <2>1. client[c] \in Handling /\ client[c].of \in Documents
    BY <1>3, ClientKinds DEF Finalize, At, Handling
  <2>2. [client[c] EXCEPT !.pc = "normalize"] \in ClientStates
    BY <2>1 DEF ClientStates, Handling
  <2>3. ClientTypeInv'
    BY <1>3, <2>2, GoType, DoneType DEF Finalize
  <2>4. source' \in [Documents -> SourceItems \cup {NoItem}]
    BY <1>2, <1>3, <2>1 DEF Finalize, StatusIs, Statuses, SourcesTypeInv
  <2> QED
    BY <1>3, <2>3, <2>4 DEF Finalize, SourcesTypeInv, authoring
<1>4. CASE RecordNormalization(c)
  <2>1. client[c].of \in Documents
    BY <1>4, ClientKinds DEF RecordNormalization, At, Handling
  <2>2. \A parse \in {"clean", "warned", "failed"} : NormalizedStatus(parse) \in Statuses
    BY DEF NormalizedStatus, Statuses
  <2>3. source' \in [Documents -> SourceItems \cup {NoItem}]
    BY <1>2, <1>4, <2>1, <2>2 DEF RecordNormalization, StatusIs, SourcesTypeInv
  <2>4. ClientTypeInv'
    BY <1>4, DoneType DEF RecordNormalization
  <2> QED
    BY <1>4, <2>3, <2>4 DEF RecordNormalization, SourcesTypeInv, authoring
<1>5. CASE Confirm(c)
  <2>1. client[c].of \in Documents
    BY <1>5, ClientKinds DEF Confirm, At, Handling
  <2>2. Confirmed(c) \in SourceItems
    BY DEF Confirmed, SourceItems, Statuses
  <2>3. source' \in [Documents -> SourceItems \cup {NoItem}]
    BY <1>5, <2>1, <2>2 DEF Confirm, SourcesTypeInv
  <2>4. ClientTypeInv'
    BY <1>5, DoneType DEF Confirm
  <2> QED
    BY <1>5, <2>3, <2>4 DEF Confirm, SourcesTypeInv, authoring
<1>6. CASE ClientStops(c)
  BY <1>6, DoneType DEF ClientStops, SourcesTypeInv, authoring
<1> QED
  BY <1>1, <1>3, <1>4, <1>5, <1>6

(* The steps of the authoring worker and of its queue. *)
LEMMA AuthoringStepType ==
    ASSUME TypeInv,
           \/ \E d \in Documents : RequestExtraction(d) \/ SkipTask(d)
           \/ \E w \in Workers :
                 \/ \E d \in Documents : Extract(w, d)
                 \/ BeginRun(w) \/ StoreChild(w) \/ CheckChildren(w)
                 \/ CompleteRun(w) \/ StoreSourceItem(w) \/ WorkerStops(w)
    PROVE  SourcesTypeInv' /\ ClientTypeInv'
<1> USE DEF TypeInv, SourcesTypeInv, ClientTypeInv
<1>1. CASE \E d \in Documents : RequestExtraction(d) \/ SkipTask(d)
  BY <1>1 DEF RequestExtraction, SkipTask
<1>2. ASSUME NEW w \in Workers, worker[w].pc \in {"begin", "children", "ready", "source"}
      PROVE  /\ worker[w] \in [pc : {"begin", "children", "ready", "source"},
                                of : Documents, result : Results]
             /\ worker[w].of \in Documents /\ worker[w].result \in Results
             /\ \A pc \in {"begin", "children", "ready", "source"} :
                    [worker[w] EXCEPT !.pc = pc] \in WorkerStates
  BY <1>2 DEF WorkerStates
<1>3. ASSUME NEW w \in Workers, NEW d \in Documents, Extract(w, d)
      PROVE  SourcesTypeInv' /\ ClientTypeInv'
  <2>1. \A result \in Results :
            [pc |-> "begin", of |-> d, result |-> result] \in WorkerStates
    BY DEF WorkerStates
  <2>2. worker' \in [Workers -> WorkerStates]
    BY <1>3, <2>1 DEF Extract
  <2>3. receives' \in [Documents -> 0..MaxReceives]
    BY <1>3, ReceivesAreLimited DEF Extract
  <2> QED
    BY <1>3, <2>2, <2>3 DEF Extract
<1>4. ASSUME NEW w \in Workers, BeginRun(w) PROVE SourcesTypeInv' /\ ClientTypeInv'
  <2>1. worker' \in [Workers -> WorkerStates]
    BY <1>2, <1>4 DEF BeginRun, WorkerGo
  <2>2. manifest' \in [Documents -> Manifests]
    BY <1>2, <1>4 DEF BeginRun, Manifests
  <2> QED
    BY <1>4, <2>1, <2>2 DEF BeginRun
<1>5. ASSUME NEW w \in Workers, StoreChild(w) PROVE SourcesTypeInv' /\ ClientTypeInv'
  <2>1. PICK o \in worker[w].result \ children[worker[w].of] :
            children' = [children EXCEPT ![worker[w].of] = @ \cup {o}]
    BY <1>5 DEF StoreChild
  <2>2. worker[w].of \in Documents /\ o \in AllOutcomes
    BY <1>2, <1>5, <2>1 DEF StoreChild, AllOutcomes
  <2>3. children' \in [Documents -> SUBSET AllOutcomes]
    <3>1. children[worker[w].of] \cup {o} \in SUBSET AllOutcomes
      BY <2>2
    <3> HIDE DEF AllOutcomes
    <3> QED
      BY <2>1, <2>2, <3>1
  <2> QED
    BY <1>5, <2>3 DEF StoreChild
<1>6. ASSUME NEW w \in Workers, CheckChildren(w) PROVE SourcesTypeInv' /\ ClientTypeInv'
  BY <1>2, <1>6 DEF CheckChildren, WorkerGo, authoring
<1>7. ASSUME NEW w \in Workers, CompleteRun(w) PROVE SourcesTypeInv' /\ ClientTypeInv'
  <2>1. worker' \in [Workers -> WorkerStates]
    BY <1>2, <1>7 DEF CompleteRun, WorkerGo
  <2>2. manifest' \in [Documents -> Manifests]
    BY <1>2, <1>7 DEF CompleteRun, Manifests
  <2> QED
    BY <1>7, <2>1, <2>2 DEF CompleteRun
<1>8. Idle \in WorkerStates
  BY DEF Idle, WorkerStates
<1>9. ASSUME NEW w \in Workers, StoreSourceItem(w) PROVE SourcesTypeInv' /\ ClientTypeInv'
  BY <1>2, <1>8, <1>9 DEF StoreSourceItem
<1>10. ASSUME NEW w \in Workers, WorkerStops(w) PROVE SourcesTypeInv' /\ ClientTypeInv'
  BY <1>8, <1>10 DEF WorkerStops, authoring
<1> QED
  BY <1>1, <1>3, <1>4, <1>5, <1>6, <1>7, <1>9, <1>10

(* The Rules of a document are of what is stored of it. *)
LEMMA RulesAreOfOutcomes ==
    ASSUME TypeInv, NEW d \in Documents
    PROVE  /\ RulesOf(d) \subseteq AllRules
           /\ Covered(d) \subseteq RuleNames
           /\ \A rules \in SUBSET AllRules : Entries(d, rules) \subseteq AllEntries
<1>1. children[d] \subseteq AllOutcomes
  BY DEF TypeInv, SourcesTypeInv
<1>2. RulesOf(d) \subseteq AllRules
  BY <1>1 DEF RulesOf, AllRules, Candidates
<1>3. Covered(d) \subseteq RuleNames
  BY DEF Covered, TypeInv, PolicyTypeInv, Approvals
<1>4. \A rules \in SUBSET AllRules : Entries(d, rules) \subseteq AllEntries
  BY DEF Entries, AllEntries
<1> QED
  BY <1>2, <1>3, <1>4

(* The steps of a review, an approval, a publication and a retirement. *)
LEMMA PolicyStepType ==
    ASSUME TypeInv, NEW c \in Clients,
           \/ \E d \in Documents : BeginReview(c, d)
           \/ \E p \in Profiles : LoadPublication(c, p) \/ BeginRetire(c, p)
           \/ Select(c) \/ BeginApproval(c) \/ RecordApproval(c)
           \/ RecordProfile(c) \/ Retire(c)
    PROVE  TypeInv'
<1> USE DEF TypeInv
<1>1. ASSUME NEW d \in Documents, BeginReview(c, d) PROVE TypeInv'
  <2>1. manifest[d].results \in Results
    BY <1>1 DEF BeginReview, IsReviewable, SourcesTypeInv, Manifests, Processing, Ready
  <2>2. [pc |-> "review", of |-> d, results |-> manifest[d].results] \in ClientStates
    BY <2>1 DEF ClientStates, Reviewing
  <2>3. ClientTypeInv'
    BY <1>1, <2>2, GoType DEF BeginReview
  <2> QED
    BY <1>1, <2>3 DEF BeginReview, SourcesTypeInv, PolicyTypeInv, authoring, policy
<1>2. CASE Select(c)
  <2>1. client[c].of \in Documents
    BY <1>2, ClientKinds DEF Select, Reviewing, At
  <2>2. PICK picked \in SUBSET RulesOf(client[c].of) :
            Go(c, [pc |-> "approve", of |-> client[c].of, rules |-> picked])
    BY <1>2 DEF Select
  <2>3. [pc |-> "approve", of |-> client[c].of, rules |-> picked] \in ClientStates
    BY <2>1, <2>2, RulesAreOfOutcomes DEF ClientStates, Approving
  <2>4. ClientTypeInv'
    BY <2>2, <2>3, GoType
  <2> QED
    BY <1>2, <2>4 DEF Select, SourcesTypeInv, PolicyTypeInv, authoring, policy
<1>3. CASE BeginApproval(c)
  <2> DEFINE d == client[c].of
             added == {r \in client[c].rules : r.id \notin Covered(d)}
             next == [pc |-> "record", of |-> d, rules |-> added, seen |-> approval[d]]
  <2>1. d \in Documents /\ client[c].rules \subseteq AllRules
    BY <1>3, ClientKinds DEF BeginApproval, Approving, At
  <2>2. next \in ClientStates
    BY <2>1 DEF ClientStates, Recording, PolicyTypeInv
  <2>3. Done(c) \/ Go(c, next)
    BY <1>3 DEF BeginApproval
  <2>4. ClientTypeInv'
    BY <2>2, <2>3, GoType, DoneType
  <2> QED
    BY <1>3, <2>4 DEF BeginApproval, SourcesTypeInv, PolicyTypeInv, authoring, policy
<1>4. CASE RecordApproval(c)
  <2> DEFINE d == client[c].of
             new == Entries(d, client[c].rules)
             names == RuleIds(new) \cup
                          (IF client[c].seen = NoItem THEN {} ELSE client[c].seen.rules)
  <2>1. client[c] \in Recording
    BY <1>4, ClientKinds DEF RecordApproval
  <2>2. d \in Documents /\ new \subseteq AllEntries
    BY <2>1, RulesAreOfOutcomes DEF Recording
  <2>3. names \subseteq RuleNames
    BY <2>1, <2>2 DEF Recording, Approvals, RuleIds, AllEntries, RuleNames
  <2>4. approval' = [approval EXCEPT ![d] = [rules |-> names]] /\ registry' = registry \cup new
    BY <1>4 DEF RecordApproval
  <2>5. approval' \in [Documents -> Approvals \cup {NoItem}]
    <3>1. [rules |-> names] \in Approvals
      BY <2>3 DEF Approvals
    <3> QED
      BY <2>4, <3>1 DEF PolicyTypeInv
  <2>6. ClientTypeInv'
    BY <1>4, DoneType DEF RecordApproval
  <2>7. PolicyTypeInv'
    BY <1>4, <2>2, <2>4, <2>5 DEF RecordApproval, PolicyTypeInv
  <2> QED
    BY <1>4, <2>6, <2>7 DEF RecordApproval, SourcesTypeInv, authoring
<1>5. ASSUME NEW p \in Profiles, LoadPublication(c, p) PROVE TypeInv'
  <2>1. PICK documents \in SUBSET Documents, baseline \in Baselines \cup {{}} :
            \E chosen \in SUBSET UNION {ApprovedRules(d) : d \in documents} :
                \E expected \in {NoItem, current[p]} :
                    Go(c, [pc |-> "publish", profile |-> p, expected |-> expected,
                           rules |-> chosen \cup baseline])
    BY <1>5 DEF LoadPublication
  <2>2. PICK chosen \in SUBSET UNION {ApprovedRules(d) : d \in documents},
             expected \in {NoItem, current[p]} :
            Go(c, [pc |-> "publish", profile |-> p, expected |-> expected,
                   rules |-> chosen \cup baseline])
    BY <2>1
  <2>3. \A d \in Documents : ApprovedRules(d) \subseteq AllEntries
    BY RulesAreOfOutcomes DEF ApprovedRules, AllEntries
  <2>4. chosen \subseteq AllEntries
    BY <2>3
  <2>5. baseline \subseteq AllEntries
    BY DEF Baselines, PolicyTypeInv
  <2>6. [pc |-> "publish", profile |-> p, expected |-> expected, rules |-> chosen \cup baseline]
            \in ClientStates
    BY <2>4, <2>5 DEF ClientStates, Publishing, PolicyTypeInv
  <2>7. ClientTypeInv'
    BY <2>2, <2>6, GoType
  <2> QED
    BY <1>5, <2>7 DEF LoadPublication, SourcesTypeInv, PolicyTypeInv, authoring, policy
<1>6. CASE RecordProfile(c)
  <2> DEFINE rules == client[c].rules
             p == client[c].profile
             item == [rules |-> rules, segments |-> SegmentsOf(rules)]
  <2>1. p \in Profiles /\ rules \subseteq AllEntries
    BY <1>6, ClientKinds DEF RecordProfile, Publishing
  <2>2. item \in VersionItems
    <3> DEFINE D == {entry.of : entry \in rules}
    <3>1. D \in SUBSET Documents
      BY <2>1 DEF AllEntries
    <3>2. SegmentsOf(rules) \in [D -> SUBSET RuleNames]
      BY <2>1 DEF SegmentsOf, RuleIds, AllEntries, RuleNames
    <3>3. SegmentsOf(rules) \in Segmentations
      BY <3>1, <3>2 DEF Segmentations
    <3> QED
      BY <2>1, <3>3 DEF VersionItems
  <2>3. PICK v \in Versions : /\ version' = [version EXCEPT ![p][v] = item]
                              /\ current' = [current EXCEPT ![p] = v]
    BY <1>6 DEF RecordProfile
  <2>4. PolicyTypeInv'
    BY <1>6, <2>1, <2>2, <2>3 DEF RecordProfile, PolicyTypeInv
  <2>5. ClientTypeInv'
    BY <1>6, DoneType DEF RecordProfile
  <2> QED
    BY <1>6, <2>4, <2>5 DEF RecordProfile, SourcesTypeInv, authoring
<1>7. ASSUME NEW p \in Profiles, BeginRetire(c, p) PROVE TypeInv'
  <2>1. [pc |-> "retire", profile |-> p] \in ClientStates
    BY DEF ClientStates, Retiring
  <2>2. ClientTypeInv'
    BY <1>7, <2>1, GoType DEF BeginRetire
  <2> QED
    BY <1>7, <2>2 DEF BeginRetire, SourcesTypeInv, PolicyTypeInv, authoring, policy
<1>8. CASE Retire(c)
  <2>1. ClientTypeInv'
    BY <1>8, DoneType DEF Retire
  <2>2. PolicyTypeInv'
    BY <1>8 DEF Retire, PolicyTypeInv
  <2> QED
    BY <1>8, <2>1, <2>2 DEF Retire, SourcesTypeInv, authoring
<1> QED
  BY <1>1, <1>2, <1>3, <1>4, <1>5, <1>6, <1>7, <1>8

(* The steps of a deletion. *)
LEMMA DeletionStepType ==
    ASSUME TypeInv, NEW c \in Clients,
           \/ \E d \in Documents : BeginDelete(c, d)
           \/ DeleteRecord(c) \/ DeleteSourceItem(c) \/ DeleteApproval(c)
           \/ DeleteManifest(c) \/ DeleteChild(c)
    PROVE  TypeInv'
<1> USE DEF TypeInv
<1>1. ASSUME NEW d \in Documents, BeginDelete(c, d) PROVE TypeInv'
  <2>1. [pc |-> "delete", of |-> d] \in ClientStates
    BY DEF ClientStates, Handling
  <2>2. ClientTypeInv'
    BY <1>1, <2>1, GoType DEF BeginDelete
  <2> QED
    BY <1>1, <2>2 DEF BeginDelete, SourcesTypeInv, PolicyTypeInv, authoring, policy
<1>2. CASE DeleteRecord(c)
  <2>1. client[c] \in Handling
    BY <1>2, ClientKinds DEF DeleteRecord, At
  <2>2. [client[c] EXCEPT !.pc = "source item"] \in ClientStates
    BY <2>1 DEF ClientStates, Handling
  <2>3. ClientTypeInv'
    BY <1>2, <2>2, GoType DEF DeleteRecord
  <2>4. SourcesTypeInv'
    BY <1>2 DEF DeleteRecord, SourcesTypeInv, authoring
  <2> QED
    BY <1>2, <2>3, <2>4 DEF DeleteRecord, PolicyTypeInv, policy
<1>3. CASE DeleteSourceItem(c)
  <2> DEFINE d == client[c].of
             next == [pc |-> "approval item", of |-> d, run |-> manifest[d], keys |-> children[d]]
  <2>1. d \in Documents
    BY <1>3, ClientKinds DEF DeleteSourceItem, At, Handling
  <2>2. next \in ClientStates
    BY <2>1 DEF ClientStates, Deleting, SourcesTypeInv
  <2>3. ClientTypeInv'
    BY <1>3, <2>2, GoType DEF DeleteSourceItem
  <2> QED
    BY <1>3, <2>3 DEF DeleteSourceItem, SourcesTypeInv, PolicyTypeInv, policy
<1>4. ASSUME client[c].pc \in {"approval item", "run item", "children"}
      PROVE  /\ client[c] \in Deleting
             /\ [client[c] EXCEPT !.pc = "run item"] \in ClientStates
             /\ [client[c] EXCEPT !.pc = "children"] \in ClientStates
             /\ \A keys \in SUBSET AllOutcomes : [client[c] EXCEPT !.keys = keys] \in ClientStates
  <2>1. client[c] \in Deleting
    BY <1>4, ClientKinds
  <2> QED
    BY <2>1 DEF ClientStates, Deleting
<1>5. CASE DeleteApproval(c)
  <2>1. ClientTypeInv'
    BY <1>4, <1>5, GoType DEF DeleteApproval, At
  <2>2. PolicyTypeInv'
    BY <1>5 DEF DeleteApproval, PolicyTypeInv
  <2> QED
    BY <1>5, <2>1, <2>2 DEF DeleteApproval, SourcesTypeInv, authoring
<1>6. Idle \in ClientStates
  BY DEF Idle, ClientStates, Idling
<1>7. CASE DeleteManifest(c)
  <2>1. ClientTypeInv'
    BY <1>4, <1>6, <1>7, GoType DEF DeleteManifest, At
  <2>2. SourcesTypeInv'
    BY <1>7 DEF DeleteManifest, SourcesTypeInv, Manifests
  <2> QED
    BY <1>7, <2>1, <2>2 DEF DeleteManifest, PolicyTypeInv, policy
<1>8. CASE DeleteChild(c)
  <2>1. client[c] \in Deleting
    BY <1>4, <1>8 DEF DeleteChild, At
  <2>2. PICK o \in client[c].keys :
            /\ children' = [children EXCEPT ![client[c].of] = @ \ {o}]
            /\ Go(c, IF client[c].keys = {o} THEN Idle
                     ELSE [client[c] EXCEPT !.keys = client[c].keys \ {o}])
    BY <1>8, <2>1 DEF DeleteChild, Deleting
  <2>3. client[c].keys \ {o} \in SUBSET AllOutcomes
    BY <2>1 DEF Deleting
  <2>4. ClientTypeInv'
    BY <1>4, <1>6, <1>8, <2>2, <2>3, GoType DEF DeleteChild, At
  <2>5. SourcesTypeInv'
    BY <1>8, <2>1, <2>2 DEF DeleteChild, SourcesTypeInv, Deleting
  <2> QED
    BY <1>8, <2>4, <2>5 DEF DeleteChild, PolicyTypeInv, policy
<1> QED
  BY <1>1, <1>2, <1>3, <1>5, <1>7, <1>8

(* Every step keeps the types. *)
LEMMA TypeStep == TypeInv /\ [Next]_vars => TypeInv'
<1> SUFFICES ASSUME TypeInv, [Next]_vars PROVE TypeInv'
  OBVIOUS
<1>1. CASE SourcesNext /\ UNCHANGED policy
  <2>1. PolicyTypeInv'
    BY <1>1 DEF TypeInv, PolicyTypeInv, policy
  <2>2. SourcesTypeInv' /\ ClientTypeInv'
    BY <1>1, UploadStepType, AuthoringStepType DEF SourcesNext
  <2> QED
    BY <2>1, <2>2 DEF TypeInv
<1>2. CASE ProfilesNext
  BY <1>2, PolicyStepType, DeletionStepType DEF ProfilesNext
<1>3. CASE UNCHANGED vars
  BY <1>3 DEF vars, authoring, policy, TypeInv, SourcesTypeInv, PolicyTypeInv, ClientTypeInv
<1> QED
  BY <1>1, <1>2, <1>3 DEF Next

(* Everything has its type, whatever the model answers. *)
THEOREM TypeInvariant == Spec => []TypeInv
<1> QED
  BY InitialType, TypeStep, PTL DEF Spec

-----------------------------------------------------------------------------
(* What a step may do to each part of the state. *)

(* A deleted document does not come back. *)
LEMMA DocumentsStayGone ==
    ASSUME TypeInv, [Next]_vars, NEW d \in Documents, source[d] = NoItem
    PROVE  source'[d] = NoItem
<1> USE DEF TypeInv, SourcesTypeInv
<1>1. CASE UNCHANGED source
  BY <1>1
<1>2. ASSUME NEW c \in Clients,
             Finalize(c) \/ RecordNormalization(c) \/ Confirm(c) \/ DeleteRecord(c)
      PROVE  source'[d] = NoItem
  BY <1>2 DEF Finalize, RecordNormalization, Confirm, DeleteRecord, AwaitsReview,
              StatusIs, SetStatus
<1> QED
  BY <1>1, <1>2
     DEF Next, vars, SourcesNext, ProfilesNext, BeginFinalize, BeginConfirm, ClientStops,
         RequestExtraction, SkipTask, Extract, BeginRun, StoreChild, CheckChildren, CompleteRun,
         StoreSourceItem, WorkerStops, BeginReview, Select, BeginApproval, RecordApproval,
         LoadPublication, RecordProfile, BeginRetire, Retire, BeginDelete, DeleteSourceItem,
         DeleteApproval, DeleteManifest, DeleteChild

(* Only the authoring worker and a deletion write the children of a document. *)
LEMMA ChildrenChange ==
    ASSUME [Next]_vars
    PROVE  \/ UNCHANGED children
           \/ \E w \in Workers : StoreChild(w)
           \/ \E c \in Clients : DeleteChild(c)
BY DEF Next, vars, authoring, SourcesNext, ProfilesNext, BeginFinalize, BeginConfirm, Finalize,
       RecordNormalization, Confirm, ClientStops, RequestExtraction, SkipTask, Extract, BeginRun,
       CheckChildren, CompleteRun, StoreSourceItem, WorkerStops, BeginReview, Select,
       BeginApproval, RecordApproval, LoadPublication, RecordProfile, BeginRetire, Retire,
       BeginDelete, DeleteRecord, DeleteSourceItem, DeleteApproval, DeleteManifest

(* Approvals and Rules are written by an approval, an approval also by a deletion. *)
LEMMA ApprovalsChange ==
    ASSUME [Next]_vars
    PROVE  \/ UNCHANGED <<approval, registry>>
           \/ \E c \in Clients : RecordApproval(c)
           \/ (\E c \in Clients : DeleteApproval(c)) /\ UNCHANGED registry
BY DEF Next, vars, policy, SourcesNext, ProfilesNext, BeginReview, Select, BeginApproval,
       LoadPublication, RecordProfile, BeginRetire, Retire, BeginDelete, DeleteRecord,
       DeleteSourceItem, DeleteApproval, DeleteManifest, DeleteChild

(* Versions are written by a publication, pointers also by a retirement. *)
LEMMA ProfilesChange ==
    ASSUME [Next]_vars
    PROVE  \/ UNCHANGED <<version, current>>
           \/ \E c \in Clients : RecordProfile(c)
           \/ (\E c \in Clients : Retire(c)) /\ UNCHANGED version
BY DEF Next, vars, policy, SourcesNext, ProfilesNext, BeginReview, Select, BeginApproval,
       RecordApproval, LoadPublication, Retire, BeginRetire, BeginDelete, DeleteRecord,
       DeleteSourceItem, DeleteApproval, DeleteManifest, DeleteChild

(* Where a request may be after a step. *)
LEMMA RequestGoesOn ==
    ASSUME TypeInv, [Next]_vars, NEW c \in Clients
    PROVE  \/ client'[c] = client[c]
           \/ client'[c].pc \in {"idle", "finalize", "normalize", "confirm", "review",
                                  "retire", "delete"}
           \/ Select(c) \/ BeginApproval(c)
           \/ \E p \in Profiles : LoadPublication(c, p)
           \/ DeleteRecord(c) \/ DeleteSourceItem(c) \/ DeleteApproval(c)
           \/ DeleteManifest(c) \/ DeleteChild(c)
<1> DEFINE Early == {"idle", "finalize", "normalize", "confirm", "review", "retire", "delete"}
<1> USE DEF TypeInv
<1>1. CASE UNCHANGED client
  BY <1>1
<1>2. ASSUME NEW e \in Clients, e # c, NEW state, Go(e, state)
      PROVE  client'[c] = client[c]
  BY <1>2 DEF Go, ClientTypeInv
<1>3. ASSUME NEW e \in Clients, Done(e)
      PROVE  client'[c] = client[c] \/ client'[c].pc \in Early
  BY <1>3, DoneType
<1>4. ASSUME NEW state, Go(c, state), state.pc \in Early
      PROVE  client'[c].pc \in Early
  BY <1>4 DEF Go, ClientTypeInv
<1>5. ASSUME NEW e \in Clients, Finalize(e)
      PROVE  client'[c] = client[c] \/ client'[c].pc \in Early
  <2>1. [client[e] EXCEPT !.pc = "normalize"].pc = "normalize"
    BY <1>5, ClientKinds DEF Finalize, At, Handling
  <2> QED
    BY <1>2, <1>3, <1>4, <1>5, <2>1 DEF Finalize
<1>6. ASSUME NEW e \in Clients,
             \/ \E d \in Documents : \/ BeginFinalize(e, d) \/ BeginConfirm(e, d)
                                      \/ BeginReview(e, d) \/ BeginDelete(e, d)
             \/ \E p \in Profiles : BeginRetire(e, p)
             \/ RecordNormalization(e) \/ Confirm(e) \/ ClientStops(e)
             \/ RecordApproval(e) \/ RecordProfile(e) \/ Retire(e)
      PROVE  client'[c] = client[c] \/ client'[c].pc \in Early
  BY <1>2, <1>3, <1>4, <1>6
     DEF BeginFinalize, BeginConfirm, BeginReview, BeginDelete, BeginRetire,
         RecordNormalization, Confirm, ClientStops, RecordApproval, RecordProfile, Retire
<1>7. ASSUME NEW e \in Clients, e # c,
             \/ Select(e) \/ BeginApproval(e) \/ (\E p \in Profiles : LoadPublication(e, p))
             \/ DeleteRecord(e) \/ DeleteSourceItem(e) \/ DeleteApproval(e)
             \/ DeleteManifest(e) \/ DeleteChild(e)
      PROVE  client'[c] = client[c] \/ client'[c].pc \in Early
  BY <1>2, <1>3, <1>7
     DEF Select, BeginApproval, LoadPublication, DeleteRecord, DeleteSourceItem,
         DeleteApproval, DeleteManifest, DeleteChild
<1>8. CASE SourcesNext
  BY <1>1, <1>5, <1>6, <1>8
     DEF SourcesNext, RequestExtraction, SkipTask, Extract, BeginRun, StoreChild,
         CheckChildren, CompleteRun, StoreSourceItem, WorkerStops
<1>9. CASE ProfilesNext
  BY <1>6, <1>7, <1>9 DEF ProfilesNext
<1> QED
  BY <1>1, <1>8, <1>9 DEF Next, vars

-----------------------------------------------------------------------------
(* The inductive invariant: a document's children have one wording for each key, *)
(* what requests hold is offered, stored or registered still, and a deletion     *)
(* takes away in an order that leaves no approval without its children.          *)

ChildrenAreKeyed ==
    \A d \in Documents : \A o, e \in children[d] : Key(o) = Key(e) => o = e

DeletionsAreOrdered ==
    \A c \in Clients :
        /\ client[c].pc \in {"source item", "approval item", "run item", "children"} =>
               source[client[c].of] = NoItem
        /\ client[c].pc \in {"run item", "children"} => approval[client[c].of] = NoItem

SelectionsAreOffered ==
    \A c \in Clients :
        client[c].pc \in {"approve", "record"} /\ source[client[c].of] # NoItem =>
            client[c].rules \subseteq RulesOf(client[c].of)

ApprovedAreStored ==
    \A d \in Documents : approval[d] # NoItem =>
        \A id \in approval[d].rules : \E r \in RulesOf(d) :
            r.id = id /\ [of |-> d, rule |-> r] \in registry

PublicationsAreRegistered ==
    \A c \in Clients : client[c].pc = "publish" =>
        client[c].rules # {} /\ client[c].rules \subseteq registry

PolicyInv ==
    /\ TypeInv
    /\ ChildrenAreKeyed
    /\ DeletionsAreOrdered
    /\ SelectionsAreOffered
    /\ ApprovedAreStored
    /\ PublicationsAreRegistered
    /\ ProfilesHoldApprovedRules
    /\ ApprovalIsTheRegistry

(* Two stored candidates of a document never share the id of their Rules: the id *)
(* and what the contract admits determine the digest a child is stored under.    *)
LEMMA RuleIdsAreKeys ==
    ASSUME TypeInv, ChildrenAreKeyed, NEW d \in Documents,
           NEW r \in RulesOf(d), NEW s \in RulesOf(d), r.id = s.id
    PROVE  r = s
<1>1. PICK o \in Candidates(children[d]), e \in Candidates(children[d]) :
          r = Rule(o.of) /\ s = Rule(e.of)
  BY DEF RulesOf
<1>2. o \in AllOutcomes /\ e \in AllOutcomes
  BY DEF Candidates, TypeInv, SourcesTypeInv
<1>3. /\ SoundRequirement(o.of) /\ o = Outcome(o.of) /\ o.kind = "CANDIDATE"
      /\ SoundRequirement(e.of) /\ e = Outcome(e.of) /\ e.kind = "CANDIDATE"
  BY <1>2, OutcomesAreSound DEF AllOutcomes, Candidates
<1>4. /\ o.of.class \in {"AUTOMATABLE", "MANUAL"}
      /\ e.of.class \in {"AUTOMATABLE", "MANUAL"}
  BY <1>3 DEF SoundRequirement, Outcome, Unsupported
<1>5. /\ o.of.control = e.of.control /\ o.of.evaluation = e.of.evaluation
      /\ o.of.locators = e.of.locators /\ o.of.text = e.of.text
  BY <1>1 DEF Rule
<1>6. o.of.class = e.of.class
  BY <1>3, <1>4, <1>5
     DEF SoundRequirement, SoundAutomatable, SoundManual, SoundUnsupported, Automatic
<1>7. Key(o) = Key(e)
  BY <1>3, <1>5, <1>6 DEF Key, Digest
<1> QED
  BY <1>1, <1>7 DEF ChildrenAreKeyed, Candidates

(* The Rules a publication may choose of a document are registered. *)
LEMMA ApprovedRulesAreRegistered ==
    ASSUME TypeInv, ChildrenAreKeyed, ApprovedAreStored, NEW d \in Documents
    PROVE  ApprovedRules(d) \subseteq registry
<1> SUFFICES ASSUME NEW r \in RulesOf(d), r.id \in Covered(d)
             PROVE  [of |-> d, rule |-> r] \in registry
  BY DEF ApprovedRules
<1>1. PICK s \in RulesOf(d) : s.id = r.id /\ [of |-> d, rule |-> s] \in registry
  BY DEF ApprovedAreStored, Covered
<1>2. r = s
  BY <1>1, RuleIdsAreKeys
<1> QED
  BY <1>1, <1>2

(* The initial state satisfies the invariant. *)
LEMMA PolicyInitial == Init => PolicyInv
<1> SUFFICES ASSUME Init PROVE PolicyInv
  OBVIOUS
<1>1. TypeInv
  BY InitialType
<1>2. \A c \in Clients : client[c].pc = "idle"
  BY DEF Init, SourcesInit, Idle
<1>3. ChildrenAreKeyed /\ ApprovedAreStored /\ ProfilesHoldApprovedRules
  BY DEF Init, SourcesInit, ChildrenAreKeyed, ApprovedAreStored, ProfilesHoldApprovedRules
<1>4. DeletionsAreOrdered /\ SelectionsAreOffered /\ PublicationsAreRegistered
  BY <1>2 DEF DeletionsAreOrdered, SelectionsAreOffered, PublicationsAreRegistered
<1>5. ApprovalIsTheRegistry
  BY DEF Init, ApprovalIsTheRegistry, Covered, Registered, RuleIds
<1> QED
  BY <1>1, <1>3, <1>4, <1>5 DEF PolicyInv

(* A child is stored only if none of its key is there. *)
LEMMA ChildrenStayKeyed ==
    ASSUME PolicyInv, [Next]_vars
    PROVE  ChildrenAreKeyed'
<1> USE DEF PolicyInv, TypeInv, SourcesTypeInv
<1>1. CASE UNCHANGED children
  BY <1>1 DEF ChildrenAreKeyed, Key
<1>2. ASSUME NEW w \in Workers, StoreChild(w) PROVE ChildrenAreKeyed'
  <2> DEFINE d == worker[w].of
  <2>1. PICK o \in worker[w].result \ children[d] :
            ~Clashes(d, o) /\ children' = [children EXCEPT ![d] = @ \cup {o}]
    BY <1>2 DEF StoreChild
  <2>2. \A e \in children[d] : Key(e) # Key(o)
    BY <2>1 DEF Clashes
  <2>3. ASSUME NEW f \in Documents, NEW x \in children'[f], NEW y \in children'[f],
               Key(x) = Key(y)
        PROVE  x = y
    <3>1. CASE f = d
      <4>1. children'[f] = children[f] \cup {o}
        BY <2>1, <3>1
      <4> QED
        BY <2>2, <2>3, <3>1, <4>1 DEF ChildrenAreKeyed
    <3>2. CASE f # d
      BY <2>1, <2>3, <3>2 DEF ChildrenAreKeyed
    <3> QED
      BY <3>1, <3>2
  <2> QED
    BY <2>3 DEF ChildrenAreKeyed, Key
<1>3. ASSUME NEW c \in Clients, DeleteChild(c) PROVE ChildrenAreKeyed'
  <2>1. \A d \in Documents : children'[d] \subseteq children[d]
    BY <1>3 DEF DeleteChild
  <2> QED
    BY <2>1 DEF ChildrenAreKeyed, Key
<1> QED
  BY <1>1, <1>2, <1>3, ChildrenChange

(* What a deletion has taken away stays away while it goes on. *)
LEMMA DeletionsStayOrdered ==
    ASSUME PolicyInv, [Next]_vars
    PROVE  DeletionsAreOrdered'
<1> USE DEF PolicyInv
<1> DEFINE Gone == {"source item", "approval item", "run item", "children"}
           Late == {"run item", "children"}
<1> SUFFICES ASSUME NEW c \in Clients
             PROVE  /\ client'[c].pc \in Gone => source'[client'[c].of] = NoItem
                    /\ client'[c].pc \in Late => approval'[client'[c].of] = NoItem
  BY DEF DeletionsAreOrdered
<1>1. ASSUME NEW d \in Documents, source[d] = NoItem, approval[d] = NoItem
      PROVE  approval'[d] = NoItem
  <2>1. ASSUME NEW e \in Clients, RecordApproval(e) PROVE approval'[d] = NoItem
    BY <1>1, <2>1 DEF RecordApproval, StatusIs, TypeInv, PolicyTypeInv
  <2>2. ASSUME NEW e \in Clients, DeleteApproval(e) PROVE approval'[d] = NoItem
    BY <1>1, <2>2 DEF DeleteApproval, TypeInv, PolicyTypeInv
  <2> QED
    BY <1>1, <2>1, <2>2, ApprovalsChange
<1>2. client[c].pc \in Gone => client[c].of \in Documents
  BY ClientKinds DEF TypeInv, Handling, Deleting
<1>3. CASE client'[c] = client[c]
  BY <1>1, <1>2, <1>3, DocumentsStayGone DEF DeletionsAreOrdered
<1>4. ASSUME Go(c, [client[c] EXCEPT !.pc = "source item"]), client[c] \in Handling
      PROVE  client'[c].pc = "source item" /\ client'[c].of = client[c].of
  BY <1>4 DEF Go, TypeInv, ClientTypeInv, Handling
<1>5. CASE DeleteRecord(c)
  <2>1. client[c] \in Handling /\ client[c].of \in Documents
    BY <1>5, ClientKinds DEF DeleteRecord, At, TypeInv, Handling
  <2>2. client'[c].pc = "source item" /\ client'[c].of = client[c].of
    BY <1>4, <1>5, <2>1 DEF DeleteRecord
  <2>3. source'[client[c].of] = NoItem
    BY <1>5, <2>1 DEF DeleteRecord, TypeInv, SourcesTypeInv
  <2> QED
    BY <2>2, <2>3
<1>6. CASE DeleteSourceItem(c)
  <2>1. client'[c].pc = "approval item" /\ client'[c].of = client[c].of
    BY <1>6 DEF DeleteSourceItem, Go, TypeInv, ClientTypeInv
  <2>2. source'[client[c].of] = NoItem
    BY <1>6 DEF DeleteSourceItem, At, DeletionsAreOrdered
  <2> QED
    BY <2>1, <2>2
<1>7. ASSUME client[c].pc \in {"approval item", "run item", "children"}
      PROVE  client[c] \in Deleting /\ client[c].of \in Documents
  BY <1>7, ClientKinds DEF TypeInv, Deleting
<1>8. CASE DeleteApproval(c)
  <2>1. client[c] \in Deleting /\ client[c].of \in Documents
    BY <1>7, <1>8 DEF DeleteApproval, At
  <2>2. client'[c].pc = "run item" /\ client'[c].of = client[c].of
    BY <1>8, <2>1 DEF DeleteApproval, Go, TypeInv, ClientTypeInv, Deleting
  <2>3. approval'[client[c].of] = NoItem
    BY <1>8, <2>1 DEF DeleteApproval, TypeInv, PolicyTypeInv
  <2>4. source'[client[c].of] = NoItem
    BY <1>8 DEF DeleteApproval, At, DeletionsAreOrdered
  <2> QED
    BY <2>2, <2>3, <2>4
<1>9. CASE DeleteManifest(c)
  <2>1. client[c] \in Deleting /\ client[c].of \in Documents
    BY <1>7, <1>9 DEF DeleteManifest, At
  <2>2. client'[c].pc = "idle" \/ client'[c].of = client[c].of
    BY <1>9, <2>1 DEF DeleteManifest, Go, Idle, TypeInv, ClientTypeInv, Deleting
  <2>3. source'[client[c].of] = NoItem /\ approval'[client[c].of] = NoItem
    BY <1>9 DEF DeleteManifest, At, DeletionsAreOrdered, policy
  <2> QED
    BY <2>2, <2>3
<1>10. CASE DeleteChild(c)
  <2>1. client[c] \in Deleting /\ client[c].of \in Documents
    BY <1>7, <1>10 DEF DeleteChild, At
  <2>2. client'[c].pc = "idle" \/ client'[c].of = client[c].of
    <3>1. PICK o \in client[c].keys :
              Go(c, IF client[c].keys = {o} THEN Idle
                    ELSE [client[c] EXCEPT !.keys = client[c].keys \ {o}])
      BY <1>10, <2>1 DEF DeleteChild, Deleting
    <3>2. CASE client[c].keys = {o}
      BY <3>1, <3>2 DEF Go, Idle, TypeInv, ClientTypeInv
    <3>3. CASE client[c].keys # {o}
      BY <2>1, <3>1, <3>3 DEF Go, TypeInv, ClientTypeInv, Deleting
    <3> QED
      BY <3>2, <3>3
  <2>3. source'[client[c].of] = NoItem /\ approval'[client[c].of] = NoItem
    BY <1>10 DEF DeleteChild, At, DeletionsAreOrdered, policy
  <2> QED
    BY <2>2, <2>3
<1>11. CASE client'[c].pc \in {"idle", "finalize", "normalize", "confirm", "review",
                               "retire", "delete"}
  BY <1>11
<1>12. CASE Select(c)
  <2>1. client'[c].pc = "approve"
    BY <1>12 DEF Select, Go, TypeInv, ClientTypeInv
  <2> QED
    BY <2>1
<1>13. CASE BeginApproval(c)
  <2>1. client'[c].pc \in {"idle", "record"}
    BY <1>13 DEF BeginApproval, Done, Go, Idle, TypeInv, ClientTypeInv
  <2> QED
    BY <2>1
<1>14. CASE \E p \in Profiles : LoadPublication(c, p)
  <2>1. client'[c].pc = "publish"
    BY <1>14 DEF LoadPublication, Go, TypeInv, ClientTypeInv
  <2> QED
    BY <2>1
<1> QED
  BY <1>3, <1>5, <1>6, <1>8, <1>9, <1>10, <1>11, <1>12, <1>13, <1>14, RequestGoesOn DEF TypeInv

(* What is stored of a document that stands is not taken away: only its deletion does. *)
LEMMA RulesOfStandingStay ==
    ASSUME PolicyInv, [Next]_vars, NEW d \in Documents, source[d] # NoItem \/ approval[d] # NoItem
    PROVE  RulesOf(d) \subseteq RulesOf(d)'
<1> USE DEF PolicyInv
<1>1. children[d] \subseteq children'[d]
  <2>1. ASSUME NEW w \in Workers, StoreChild(w) PROVE children[d] \subseteq children'[d]
    BY <2>1 DEF StoreChild, TypeInv, SourcesTypeInv
  <2>2. ASSUME NEW c \in Clients, DeleteChild(c) PROVE children[d] \subseteq children'[d]
    <3>1. client[c].of # d
      BY <2>2 DEF DeleteChild, At, DeletionsAreOrdered
    <3> QED
      BY <2>2, <3>1 DEF DeleteChild, TypeInv, SourcesTypeInv
  <2> QED
    BY <2>1, <2>2, ChildrenChange
<1> QED
  BY <1>1 DEF RulesOf, Candidates, Rule

(* Nothing is taken out of the registry. *)
LEMMA RegistryGrows ==
    ASSUME [Next]_vars
    PROVE  registry \subseteq registry'
BY ApprovalsChange DEF RecordApproval

(* A step of a deletion leads to its next one, or ends it. *)
LEMMA DeletionGoesOn ==
    ASSUME ClientTypeInv, NEW c \in Clients,
           \/ DeleteRecord(c) \/ DeleteSourceItem(c) \/ DeleteApproval(c)
           \/ DeleteManifest(c) \/ DeleteChild(c)
    PROVE  client'[c].pc \in {"idle", "source item", "approval item", "run item", "children"}
<1>1. CASE DeleteRecord(c)
  <2>1. client[c] \in Handling
    BY <1>1, ClientKinds DEF DeleteRecord, At
  <2> QED
    BY <1>1, <2>1 DEF DeleteRecord, Go, ClientTypeInv, Handling
<1>2. CASE DeleteSourceItem(c)
  BY <1>2 DEF DeleteSourceItem, Go, ClientTypeInv
<1>3. ASSUME client[c].pc \in {"approval item", "run item", "children"}
      PROVE  client[c] \in Deleting
  BY <1>3, ClientKinds
<1>4. CASE DeleteApproval(c)
  BY <1>3, <1>4 DEF DeleteApproval, At, Go, ClientTypeInv, Deleting
<1>5. CASE DeleteManifest(c)
  BY <1>3, <1>5 DEF DeleteManifest, At, Go, Idle, ClientTypeInv, Deleting
<1>6. CASE DeleteChild(c)
  <2>1. client[c] \in Deleting /\ client[c].pc = "children"
    BY <1>3, <1>6 DEF DeleteChild, At
  <2>2. PICK o \in client[c].keys :
            Go(c, IF client[c].keys = {o} THEN Idle
                  ELSE [client[c] EXCEPT !.keys = client[c].keys \ {o}])
    BY <1>6, <2>1 DEF DeleteChild, Deleting
  <2>3. [client[c] EXCEPT !.keys = client[c].keys \ {o}].pc = "children"
    BY <2>1 DEF Deleting
  <2> QED
    BY <2>2, <2>3 DEF Go, Idle, ClientTypeInv
<1> QED
  BY <1>1, <1>2, <1>4, <1>5, <1>6

(* What a reviewer picked is stored for as long as the document stands. *)
LEMMA SelectionsStayOffered ==
    ASSUME PolicyInv, [Next]_vars
    PROVE  SelectionsAreOffered'
<1> USE DEF PolicyInv
<1> SUFFICES ASSUME NEW c \in Clients, client'[c].pc \in {"approve", "record"},
                    source'[client'[c].of] # NoItem
             PROVE  client'[c].rules \subseteq RulesOf(client[c].of)'
  BY DEF SelectionsAreOffered
<1>1. ASSUME NEW d \in Documents, source'[d] # NoItem
      PROVE  source[d] # NoItem /\ RulesOf(d) \subseteq RulesOf(d)'
  BY <1>1, DocumentsStayGone, RulesOfStandingStay
<1>2. client[c].pc \in {"approve", "record"} => client[c].of \in Documents
  BY ClientKinds DEF TypeInv, At, Approving, Recording
<1>3. CASE client'[c] = client[c]
  BY <1>1, <1>2, <1>3 DEF SelectionsAreOffered
<1>4. CASE Select(c)
  <2>1. client[c].of \in Documents
    BY <1>4, ClientKinds DEF Select, TypeInv, At, Reviewing
  <2>2. client'[c].of = client[c].of /\ client'[c].rules \subseteq RulesOf(client[c].of)
    BY <1>4 DEF Select, Go, TypeInv, ClientTypeInv
  <2> QED
    BY <1>1, <2>1, <2>2
<1>5. CASE BeginApproval(c)
  <2>1. client[c].of \in Documents /\ client[c].pc = "approve"
    BY <1>5, ClientKinds DEF BeginApproval, TypeInv, At, Approving
  <2>2. client'[c].of = client[c].of /\ client'[c].rules \subseteq client[c].rules
    BY <1>5 DEF BeginApproval, Done, Go, Idle, TypeInv, ClientTypeInv
  <2> QED
    BY <1>1, <2>1, <2>2 DEF SelectionsAreOffered
<1>6. ASSUME NEW p \in Profiles, LoadPublication(c, p) PROVE FALSE
  <2>1. client'[c].pc = "publish"
    BY <1>6 DEF LoadPublication, Go, TypeInv, ClientTypeInv
  <2> QED
    BY <2>1
<1>7. CASE \/ DeleteRecord(c) \/ DeleteSourceItem(c) \/ DeleteApproval(c)
           \/ DeleteManifest(c) \/ DeleteChild(c)
  BY <1>7, DeletionGoesOn DEF TypeInv
<1> QED
  BY <1>3, <1>4, <1>5, <1>6, <1>7, RequestGoesOn DEF TypeInv

(* An approval names stored candidates that are registered. *)
LEMMA ApprovedStayStored ==
    ASSUME PolicyInv, [Next]_vars
    PROVE  ApprovedAreStored'
<1> USE DEF PolicyInv, TypeInv, PolicyTypeInv
<1> SUFFICES ASSUME NEW d \in Documents, approval'[d] # NoItem, NEW id \in approval'[d].rules
             PROVE  \E r \in RulesOf(d)' : r.id = id /\ [of |-> d, rule |-> r] \in registry'
  BY DEF ApprovedAreStored
<1>1. ASSUME approval'[d] = approval[d]
      PROVE  \E r \in RulesOf(d)' : r.id = id /\ [of |-> d, rule |-> r] \in registry'
  <2>1. PICK r \in RulesOf(d) : r.id = id /\ [of |-> d, rule |-> r] \in registry
    BY <1>1 DEF ApprovedAreStored
  <2> QED
    BY <1>1, <2>1, RulesOfStandingStay, RegistryGrows
<1>2. ASSUME NEW c \in Clients, RecordApproval(c), approval'[d] # approval[d]
      PROVE  \E r \in RulesOf(d)' : r.id = id /\ [of |-> d, rule |-> r] \in registry'
  <2> DEFINE new == Entries(d, client[c].rules)
             old == IF client[c].seen = NoItem THEN {} ELSE client[c].seen.rules
  <2>1. client[c].of = d
    BY <1>2 DEF RecordApproval
  <2>2. /\ source[d] # NoItem /\ approval[d] = client[c].seen /\ client[c].pc = "record"
        /\ registry' = registry \cup new
        /\ approval' = [approval EXCEPT ![d] = [rules |-> RuleIds(new) \cup old]]
    BY <1>2, <2>1 DEF RecordApproval, StatusIs, IsAsSeen, At
  <2>3. id \in RuleIds(new) \/ id \in old
    BY <2>2
  <2>4. CASE id \in RuleIds(new)
    <3>1. PICK r \in client[c].rules : r.id = id /\ [of |-> d, rule |-> r] \in new
      BY <2>4 DEF RuleIds, Entries
    <3>2. r \in RulesOf(d)
      BY <2>1, <2>2, <3>1 DEF SelectionsAreOffered
    <3> QED
      BY <2>2, <3>1, <3>2, RulesOfStandingStay
  <2>5. CASE id \in old
    <3>1. PICK r \in RulesOf(d) : r.id = id /\ [of |-> d, rule |-> r] \in registry
      BY <2>2, <2>5 DEF ApprovedAreStored
    <3> QED
      BY <2>2, <3>1, RulesOfStandingStay
  <2> QED
    BY <2>3, <2>4, <2>5
<1>3. ASSUME NEW c \in Clients, DeleteApproval(c), approval'[d] # approval[d] PROVE FALSE
  BY <1>3 DEF DeleteApproval
<1> QED
  BY <1>1, <1>2, <1>3, ApprovalsChange

(* What a publication was loaded with is registered when it is stored. *)
LEMMA PublicationsStayRegistered ==
    ASSUME PolicyInv, [Next]_vars
    PROVE  PublicationsAreRegistered'
<1> USE DEF PolicyInv
<1> SUFFICES ASSUME NEW c \in Clients, client'[c].pc = "publish"
             PROVE  client'[c].rules # {} /\ client'[c].rules \subseteq registry'
  BY DEF PublicationsAreRegistered
<1>1. CASE client'[c] = client[c]
  BY <1>1, RegistryGrows DEF PublicationsAreRegistered
<1>2. ASSUME NEW p \in Profiles, LoadPublication(c, p)
      PROVE  client'[c].rules # {} /\ client'[c].rules \subseteq registry
  <2>1. PICK documents \in SUBSET Documents, baseline \in Baselines \cup {{}} :
            \E chosen \in SUBSET UNION {ApprovedRules(d) : d \in documents} :
                /\ MayPublish(chosen, baseline)
                /\ \E expected \in {NoItem, current[p]} :
                       Go(c, [pc |-> "publish", profile |-> p, expected |-> expected,
                              rules |-> chosen \cup baseline])
    BY <1>2 DEF LoadPublication
  <2>2. PICK chosen \in SUBSET UNION {ApprovedRules(d) : d \in documents},
             expected \in {NoItem, current[p]} :
            /\ MayPublish(chosen, baseline)
            /\ Go(c, [pc |-> "publish", profile |-> p, expected |-> expected,
                      rules |-> chosen \cup baseline])
    BY <2>1
  <2>3. client'[c].rules = chosen \cup baseline
    BY <2>2 DEF Go, TypeInv, ClientTypeInv
  <2>4. chosen \subseteq registry
    <3>1. \A d \in documents : ApprovedRules(d) \subseteq registry
      BY ApprovedRulesAreRegistered
    <3> QED
      BY <3>1
  <2>5. baseline \subseteq registry
    BY DEF Baselines
  <2> QED
    BY <2>2, <2>3, <2>4, <2>5 DEF MayPublish
<1>3. CASE Select(c) \/ BeginApproval(c)
  BY <1>3 DEF Select, BeginApproval, Go, Done, Idle, TypeInv, ClientTypeInv
<1>4. CASE \/ DeleteRecord(c) \/ DeleteSourceItem(c) \/ DeleteApproval(c)
           \/ DeleteManifest(c) \/ DeleteChild(c)
  BY <1>4, DeletionGoesOn DEF TypeInv
<1> QED
  BY <1>1, <1>2, <1>3, <1>4, RegistryGrows, RequestGoesOn DEF TypeInv

(* The segments of a version hold its Rules, each those of one document. *)
LEMMA SegmentsPartition ==
    ASSUME NEW rules, rules \subseteq registry
    PROVE  /\ UNION {SegmentsOf(rules)[d] : d \in DOMAIN SegmentsOf(rules)} = RuleIds(rules)
           /\ \A d \in DOMAIN SegmentsOf(rules) :
                  SegmentsOf(rules)[d] \subseteq RuleIds(Registered(d))
<1> DEFINE D == {entry.of : entry \in rules}
<1>1. /\ DOMAIN SegmentsOf(rules) = D
      /\ \A d \in D : SegmentsOf(rules)[d] = RuleIds({entry \in rules : entry.of = d})
  BY DEF SegmentsOf
<1>2. \A d \in D : RuleIds({entry \in rules : entry.of = d}) \subseteq RuleIds(Registered(d))
  BY DEF RuleIds, Registered
<1>3. UNION {SegmentsOf(rules)[d] : d \in D} \subseteq RuleIds(rules)
  BY <1>1 DEF RuleIds
<1>4. ASSUME NEW id \in RuleIds(rules)
      PROVE  id \in UNION {SegmentsOf(rules)[d] : d \in D}
  <2>1. PICK entry \in rules : entry.rule.id = id
    BY <1>4 DEF RuleIds
  <2>2. id \in SegmentsOf(rules)[entry.of] /\ entry.of \in D
    BY <1>1, <2>1 DEF RuleIds
  <2> QED
    BY <2>2
<1> QED
  BY <1>1, <1>2, <1>3, <1>4

(* What a document's registered Rules are called stays so. *)
LEMMA RegisteredGrows ==
    ASSUME [Next]_vars, NEW d
    PROVE  RuleIds(Registered(d)) \subseteq RuleIds(Registered(d))'
BY RegistryGrows DEF RuleIds, Registered

IsApproved(item) ==
    /\ item.rules # {} /\ item.rules \subseteq registry
    /\ UNION {item.segments[d] : d \in DOMAIN item.segments} = RuleIds(item.rules)
    /\ \A d \in DOMAIN item.segments : item.segments[d] \subseteq RuleIds(Registered(d))

(* A version is stored of a publication, which holds registered Rules alone. *)
LEMMA ProfilesStayApproved ==
    ASSUME PolicyInv, [Next]_vars
    PROVE  ProfilesHoldApprovedRules'
<1> USE DEF PolicyInv, TypeInv, PolicyTypeInv
<1>1. ASSUME NEW item, IsApproved(item) PROVE IsApproved(item)'
  BY <1>1, RegistryGrows, RegisteredGrows DEF IsApproved, RuleIds
<1>2. \A p \in Profiles : \A v \in Versions : version[p][v] # NoItem => IsApproved(version[p][v])
  BY DEF ProfilesHoldApprovedRules, IsApproved
<1> SUFFICES ASSUME NEW p \in Profiles, NEW v \in Versions, version'[p][v] # NoItem
             PROVE  IsApproved(version[p][v])'
  BY DEF ProfilesHoldApprovedRules, IsApproved
<1>3. ASSUME NEW c \in Clients, RecordProfile(c), version'[p][v] # version[p][v]
      PROVE  IsApproved(version[p][v])'
  <2> DEFINE rules == client[c].rules
             item == [rules |-> rules, segments |-> SegmentsOf(rules)]
  <2>1. rules # {} /\ rules \subseteq registry
    BY <1>3 DEF RecordProfile, At, PublicationsAreRegistered
  <2>2. IsApproved(item)
    BY <2>1, SegmentsPartition DEF IsApproved
  <2>3. version'[p][v] = item
    BY <1>3 DEF RecordProfile
  <2>4. PICK x : x = item
    OBVIOUS
  <2>5. IsApproved(x)'
    BY <1>1, <2>2, <2>4
  <2> QED
    BY <2>3, <2>4, <2>5 DEF IsApproved
<1>4. CASE version'[p][v] = version[p][v]
  <2>1. PICK x : x = version[p][v]
    OBVIOUS
  <2>2. x # NoItem
    BY <1>4, <2>1
  <2>3. IsApproved(x)
    BY <1>2, <2>1, <2>2
  <2>4. IsApproved(x)'
    BY <1>1, <2>3
  <2> QED
    BY <1>4, <2>1, <2>4 DEF IsApproved
<1> QED
  BY <1>3, <1>4, ProfilesChange

(* An approval and the Rules it names are written by one transaction. *)
LEMMA ApprovalStaysTheRegistry ==
    ASSUME PolicyInv, [Next]_vars
    PROVE  ApprovalIsTheRegistry'
<1> USE DEF PolicyInv, TypeInv, PolicyTypeInv
<1> SUFFICES ASSUME NEW d \in Documents, source'[d] # NoItem
             PROVE  (Covered(d) = RuleIds(Registered(d)))'
  BY DEF ApprovalIsTheRegistry
<1>1. source[d] # NoItem /\ Covered(d) = RuleIds(Registered(d))
  BY DocumentsStayGone DEF ApprovalIsTheRegistry
<1>2. CASE approval'[d] = approval[d] /\ Registered(d)' = Registered(d)
  BY <1>1, <1>2 DEF Covered, RuleIds
<1>3. ASSUME NEW c \in Clients, RecordApproval(c)
      PROVE  (Covered(d) = RuleIds(Registered(d)))'
  <2> DEFINE new == Entries(client[c].of, client[c].rules)
             old == IF client[c].seen = NoItem THEN {} ELSE client[c].seen.rules
  <2>1. /\ client[c] \in Recording /\ client[c].of \in Documents
        /\ client[c].rules \subseteq AllRules
    BY <1>3, ClientKinds DEF RecordApproval, Recording
  <2>2. /\ approval[client[c].of] = client[c].seen
        /\ registry' = registry \cup new
        /\ approval' = [approval EXCEPT ![client[c].of] = [rules |-> RuleIds(new) \cup old]]
    BY <1>3 DEF RecordApproval, IsAsSeen
  <2>3. CASE client[c].of # d
    <3>1. \A entry \in new : entry.of # d
      BY <2>3 DEF Entries
    <3>2. Registered(d)' = Registered(d)
      BY <2>2, <3>1 DEF Registered
    <3> QED
      BY <1>2, <2>2, <2>3, <3>2
  <2>4. CASE client[c].of = d
    <3>1. old = Covered(d)
      BY <2>2, <2>4 DEF Covered
    <3>2. approval'[d] = [rules |-> RuleIds(new) \cup old]
      BY <2>2, <2>4
    <3>3. approval'[d] # NoItem
      <4>1. RuleIds(new) \subseteq RuleNames
        BY <2>1 DEF RuleIds, Entries, RuleNames
      <4>2. old \subseteq RuleNames
        BY <2>1 DEF Recording, Approvals
      <4>3. AllRules = {Rule(o.of) : o \in Candidates(UNION Results)}
        BY DEF AllRules, AllOutcomes
      <4>4. approval'[d] \in [rules : SUBSET RuleNames]
        BY <3>2, <4>1, <4>2
      <4> QED
        BY <4>3, <4>4, NoItemIsAbsent DEF RuleNames
    <3>4. Covered(d)' = RuleIds(new) \cup old
      BY <3>2, <3>3 DEF Covered
    <3>5. RuleIds(Registered(d))' = RuleIds(Registered(d)) \cup RuleIds(new)
      BY <2>2, <2>4 DEF RuleIds, Registered, Entries
    <3> QED
      BY <1>1, <3>1, <3>4, <3>5
  <2> QED
    BY <2>3, <2>4
<1>4. ASSUME NEW c \in Clients, DeleteApproval(c), UNCHANGED registry
      PROVE  (Covered(d) = RuleIds(Registered(d)))'
  <2>1. client[c].of # d
    BY <1>1, <1>4 DEF DeleteApproval, At, DeletionsAreOrdered
  <2>2. approval'[d] = approval[d] /\ Registered(d)' = Registered(d)
    BY <1>4, <2>1 DEF DeleteApproval, Registered
  <2> QED
    BY <1>2, <2>2
<1>5. CASE UNCHANGED <<approval, registry>>
  BY <1>2, <1>5 DEF Registered
<1> QED
  BY <1>3, <1>4, <1>5, ApprovalsChange

(* Every step keeps the invariant. *)
LEMMA PolicyStep == PolicyInv /\ [Next]_vars => PolicyInv'
<1> SUFFICES ASSUME PolicyInv, [Next]_vars PROVE PolicyInv'
  OBVIOUS
<1>1. TypeInv'
  BY TypeStep DEF PolicyInv
<1> QED
  BY <1>1, ChildrenStayKeyed, DeletionsStayOrdered, SelectionsStayOffered, ApprovedStayStored,
     PublicationsStayRegistered, ProfilesStayApproved, ApprovalStaysTheRegistry DEF PolicyInv

(* What requests hold, what is stored and what is registered agree throughout. *)
THEOREM PolicyInvariant == Spec => []PolicyInv
<1> QED
  BY PolicyInitial, PolicyStep, PTL DEF Spec

-----------------------------------------------------------------------------
(* What follows from it *)

(* publish_profile: no version of any profile holds a Rule nobody approved, and *)
(* its Rules are divided among the documents they were approved of.             *)
THEOREM ProfilesAreApproved == Spec => []ProfilesHoldApprovedRules
<1>1. PolicyInv => ProfilesHoldApprovedRules
  BY DEF PolicyInv
<1> QED
  BY <1>1, PolicyInvariant, PTL

(* record_approval: the approval of a document that stands names its registered *)
(* Rules, however many reviewers approve, and deletions are interrupted, at once. *)
THEOREM ApprovalsAreRegistered == Spec => []ApprovalIsTheRegistry
<1>1. PolicyInv => ApprovalIsTheRegistry
  BY DEF PolicyInv
<1> QED
  BY <1>1, PolicyInvariant, PTL

(* record_profile: a version once stored stays, and the pointer moves forward only *)
(* from the version the publisher named.                                           *)
THEOREM NothingIsOverwritten == Spec => PublicationsDoNotOverwrite
<1> DEFINE Kept ==
        \A p \in Profiles :
            /\ \A v \in Versions : version[p][v] # NoItem => version'[p][v] = version[p][v]
            /\ current'[p] \notin {current[p], NoItem} =>
                   /\ version[p][current'[p]] = NoItem
                   /\ \E c \in Clients : client[c].pc = "publish" /\ client'[c] = Idle
                                         /\ client[c].expected = current[p]
<1>1. ASSUME TypeInv, [Next]_vars PROVE Kept
  <2> USE <1>1 DEF TypeInv, PolicyTypeInv
  <2> SUFFICES ASSUME NEW p \in Profiles
               PROVE  /\ \A v \in Versions : version[p][v] # NoItem => version'[p][v] = version[p][v]
                      /\ current'[p] \notin {current[p], NoItem} =>
                             /\ version[p][current'[p]] = NoItem
                             /\ \E c \in Clients : client[c].pc = "publish" /\ client'[c] = Idle
                                                   /\ client[c].expected = current[p]
    OBVIOUS
  <2>1. CASE UNCHANGED <<version, current>>
    BY <2>1
  <2>2. ASSUME NEW c \in Clients, RecordProfile(c)
        PROVE  /\ \A v \in Versions : version[p][v] # NoItem => version'[p][v] = version[p][v]
               /\ current'[p] \notin {current[p], NoItem} =>
                      /\ version[p][current'[p]] = NoItem
                      /\ client[c].pc = "publish" /\ client'[c] = Idle
                      /\ client[c].expected = current[p]
    <3>1. client[c].profile \in Profiles /\ client[c].pc = "publish"
      BY <2>2, ClientKinds DEF RecordProfile, At, Publishing
    <3>2. client'[c] = Idle
      BY <2>2, <3>1 DEF RecordProfile, Done, Go, ClientTypeInv
    <3>3. PICK w \in Versions :
              /\ version[client[c].profile][w] = NoItem
              /\ current[client[c].profile] = client[c].expected
              /\ \E item : version' = [version EXCEPT ![client[c].profile][w] = item]
              /\ current' = [current EXCEPT ![client[c].profile] = w]
      BY <2>2 DEF RecordProfile, IsNewVersion, IsExpected
    <3> QED
      BY <3>1, <3>2, <3>3
  <2>3. ASSUME NEW c \in Clients, Retire(c), UNCHANGED version
        PROVE  version' = version /\ current'[p] \in {current[p], NoItem}
    BY <2>3 DEF Retire
  <2> QED
    BY <2>1, <2>2, <2>3, ProfilesChange
<1> QED
  BY <1>1, TypeInvariant, PTL DEF Spec, PublicationsDoNotOverwrite

(* What the rule builder accepts of what the contract admits can be run, under any *)
(* catalog that is sound.                                                          *)
LEMMA AcceptedAreExecutable ==
    ASSUME NEW q, SoundRequirement(q), q.class # "UNSUPPORTED", ~IsRefused(q)
    PROVE  IsExecutable(Rule(q)) /\ q.locators \subseteq ToSet(Units)
<1> DEFINE control == Catalog[q.control]
           rule == Rule(q)
<1>1. q.locators \subseteq ToSet(Units) /\ IsKnown(q.control) /\ ~Conflicts(q)
  BY DEF IsRefused
<1>2. SoundControl(control)
  BY <1>1, CatalogIsSound DEF IsKnown
<1>3. /\ rule.control = q.control /\ rule.evaluation = q.evaluation
      /\ rule.phases = ApplicablePhases(q.evaluation)
      /\ rule.types = IF q.class = "MANUAL" THEN {"GovernanceAssessment"} ELSE q.types
      /\ rule.required = IF q.class = "MANUAL" THEN {} ELSE control.required \cup q.required
      /\ rule.optional = IF q.class = "MANUAL" THEN {}
                         ELSE (control.optional \cup q.optional) \ rule.required
  BY DEF Rule
<1>4. CASE q.class = "MANUAL"
  <2>1. control.support = "MANUAL" /\ q.evaluation = "MANUAL"
    BY <1>1, <1>4 DEF Conflicts, SoundRequirement, SoundManual
  <2>2. control.evaluations = {"MANUAL"}
    BY <1>2, <2>1 DEF SoundControl
  <2> QED
    BY <1>1, <1>3, <1>4, <2>1, <2>2 DEF IsExecutable, ApplicablePhases
<1>5. CASE q.class = "AUTOMATABLE"
  <2>1. control.support = "AVAILABLE" /\ ~Exceeds(q)
    BY <1>1, <1>5 DEF Conflicts, IsRefused
  <2>2. q.evaluation # "MANUAL" /\ q.types # {}
    BY <1>5 DEF SoundRequirement, SoundAutomatable, Automatic
  <2>3. control.required \cup control.optional \subseteq Keys(control)
    BY <1>2, <2>1 DEF SoundControl, SoundAvailable
  <2>4. /\ q.types \subseteq control.types /\ q.evaluation \in control.evaluations
        /\ q.required \cup q.optional \subseteq Keys(control)
        /\ q.required \cup control.required # {}
    BY <2>1 DEF Exceeds
  <2> HIDE DEF rule, control
  <2>5. /\ rule.types = q.types /\ rule.required = control.required \cup q.required
        /\ rule.optional = (control.optional \cup q.optional) \ rule.required
    BY <1>3, <1>5
  <2> QED
    BY <1>1, <1>3, <2>2, <2>3, <2>4, <2>5 DEF IsExecutable, control, rule
<1> QED
  BY <1>4, <1>5 DEF SoundRequirement

(* rule_builder.py: whatever the model answers, a Rule that reaches the registry is *)
(* one an assessment can run, under any sound catalog.                              *)
THEOREM RegisteredAreExecutable == Spec => []RegisteredRulesAreExecutable
<1>1. TypeInv => RegisteredRulesAreExecutable
  <2> SUFFICES ASSUME TypeInv, NEW entry \in registry
               PROVE  IsExecutable(entry.rule) /\ entry.rule.locators \subseteq ToSet(Units)
    BY DEF RegisteredRulesAreExecutable
  <2>1. entry.rule \in AllRules
    BY DEF TypeInv, PolicyTypeInv, AllEntries
  <2>2. PICK o \in Candidates(AllOutcomes) : entry.rule = Rule(o.of)
    BY <2>1 DEF AllRules
  <2>3. SoundRequirement(o.of) /\ o = Outcome(o.of) /\ o.kind = "CANDIDATE"
    BY OutcomesAreSound DEF AllOutcomes, Candidates
  <2>4. o.of.class # "UNSUPPORTED" /\ ~IsRefused(o.of)
    BY <2>3 DEF Outcome, Unsupported, Rejected
  <2>5. entry.rule.locators = o.of.locators
    BY <2>2 DEF Rule
  <2> QED
    BY <2>2, <2>3, <2>4, <2>5, AcceptedAreExecutable
<1> QED
  BY <1>1, TypeInvariant, PTL

-----------------------------------------------------------------------------
(* The items of the table. *)

ReviewsAreReady ==
    \A d \in Documents : source[d] # NoItem /\ source[d].reviewer # NoItem =>
        source[d].status = "READY"

ApprovalsAreOfSomething ==
    /\ \A c \in Clients : client[c].pc = "record" => client[c].rules # {}
    /\ \A d \in Documents : approval[d] # NoItem => approval[d].rules # {}

PointersAreStored ==
    \A p \in Profiles : current[p] # NoItem => version[p][current[p]] # NoItem

ItemsInv == TypeInv /\ ReviewsAreReady /\ ApprovalsAreOfSomething /\ PointersAreStored

(* Only a confirmation names a reviewer, and what it confirms is READY for good. *)
LEMMA ReviewsStayReady ==
    ASSUME ItemsInv, [Next]_vars
    PROVE  ReviewsAreReady'
<1> USE DEF ItemsInv, TypeInv, SourcesTypeInv
<1>1. CASE UNCHANGED source
  BY <1>1 DEF ReviewsAreReady
<1>2. ASSUME NEW d \in Documents, NEW s, SetStatus(d, s), source[d].reviewer = NoItem,
             source[d] # NoItem
      PROVE  ReviewsAreReady'
  BY <1>2 DEF SetStatus, ReviewsAreReady, SourceItems
<1>3. ASSUME NEW d \in Documents, StatusIs(d, "UPLOAD_PENDING") \/ StatusIs(d, "UPLOADED")
      PROVE  source[d].reviewer = NoItem /\ source[d] # NoItem
  BY <1>3 DEF ReviewsAreReady, StatusIs
<1>4. ASSUME NEW c \in Clients, Finalize(c) PROVE ReviewsAreReady'
  <2>1. client[c].of \in Documents
    BY <1>4, ClientKinds DEF Finalize, At, Handling
  <2> QED
    BY <1>1, <1>2, <1>3, <1>4, <2>1 DEF Finalize
<1>5. ASSUME NEW c \in Clients, RecordNormalization(c) PROVE ReviewsAreReady'
  <2>1. client[c].of \in Documents
    BY <1>5, ClientKinds DEF RecordNormalization, At, Handling
  <2> QED
    BY <1>1, <1>2, <1>3, <1>5, <2>1 DEF RecordNormalization
<1>6. ASSUME NEW c \in Clients, Confirm(c) PROVE ReviewsAreReady'
  BY <1>6 DEF Confirm, Confirmed, ReviewsAreReady
<1>7. ASSUME NEW c \in Clients, DeleteRecord(c) PROVE ReviewsAreReady'
  BY <1>7 DEF DeleteRecord, ReviewsAreReady
<1> QED
  BY <1>1, <1>4, <1>5, <1>6, <1>7
     DEF Next, vars, SourcesNext, ProfilesNext, BeginFinalize, BeginConfirm, ClientStops,
         RequestExtraction, SkipTask, Extract, BeginRun, StoreChild, CheckChildren, CompleteRun,
         StoreSourceItem, WorkerStops, BeginReview, Select, BeginApproval, RecordApproval,
         LoadPublication, RecordProfile, BeginRetire, Retire, BeginDelete, DeleteSourceItem,
         DeleteApproval, DeleteManifest, DeleteChild

(* An approval that adds no Rule ends before it is stored. *)
LEMMA ApprovalsStayOfSomething ==
    ASSUME ItemsInv, [Next]_vars
    PROVE  ApprovalsAreOfSomething'
<1> USE DEF ItemsInv, TypeInv
<1>1. ASSUME NEW c \in Clients, client'[c].pc = "record" PROVE client'[c].rules # {}
  <2>1. CASE client'[c] = client[c]
    BY <1>1, <2>1 DEF ApprovalsAreOfSomething
  <2>2. CASE BeginApproval(c)
    BY <1>1, <2>2 DEF BeginApproval, Done, Go, Idle, ClientTypeInv
  <2>3. CASE Select(c) \/ \E p \in Profiles : LoadPublication(c, p)
    <3>1. client'[c].pc \in {"approve", "publish"}
      BY <2>3 DEF Select, LoadPublication, Go, ClientTypeInv
    <3> QED
      BY <1>1, <3>1
  <2> QED
    BY <1>1, <2>1, <2>2, <2>3, RequestGoesOn, DeletionGoesOn
<1>2. ASSUME NEW d \in Documents, approval'[d] # NoItem PROVE approval'[d].rules # {}
  <2>1. CASE UNCHANGED approval
    BY <1>2, <2>1 DEF ApprovalsAreOfSomething
  <2>2. ASSUME NEW c \in Clients, RecordApproval(c) PROVE approval'[d].rules # {}
    <3> DEFINE new == Entries(client[c].of, client[c].rules)
               old == IF client[c].seen = NoItem THEN {} ELSE client[c].seen.rules
    <3>1. client[c].rules # {}
      BY <2>2 DEF RecordApproval, At, ApprovalsAreOfSomething
    <3>2. RuleIds(new) # {}
      BY <3>1 DEF RuleIds, Entries
    <3>3. approval' = [approval EXCEPT ![client[c].of] = [rules |-> RuleIds(new) \cup old]]
      BY <2>2 DEF RecordApproval
    <3>4. CASE client[c].of = d
      BY <3>2, <3>3, <3>4 DEF PolicyTypeInv
    <3>5. CASE client[c].of # d
      BY <1>2, <3>3, <3>5 DEF PolicyTypeInv, ApprovalsAreOfSomething
    <3> QED
      BY <3>4, <3>5
  <2>3. ASSUME NEW c \in Clients, DeleteApproval(c) PROVE approval'[d].rules # {}
    BY <1>2, <2>3 DEF DeleteApproval, PolicyTypeInv, ApprovalsAreOfSomething
  <2> QED
    BY <2>1, <2>2, <2>3, ApprovalsChange
<1> QED
  BY <1>1, <1>2 DEF ApprovalsAreOfSomething

(* The pointer is moved with the version it names, and no version is deleted. *)
LEMMA PointersStayStored ==
    ASSUME ItemsInv, [Next]_vars
    PROVE  PointersAreStored'
<1> USE DEF ItemsInv, TypeInv, PolicyTypeInv
<1>1. CASE UNCHANGED <<version, current>>
  BY <1>1 DEF PointersAreStored
<1>2. ASSUME NEW c \in Clients, RecordProfile(c) PROVE PointersAreStored'
  <2> DEFINE rules == client[c].rules
             q == client[c].profile
             item == [rules |-> rules, segments |-> SegmentsOf(rules)]
  <2>1. q \in Profiles /\ rules \subseteq AllEntries
    BY <1>2, ClientKinds DEF RecordProfile, Publishing
  <2>2. PICK v \in Versions : /\ version' = [version EXCEPT ![q][v] = item]
                              /\ current' = [current EXCEPT ![q] = v]
    BY <1>2 DEF RecordProfile
  <2>3. item # NoItem
    <3> DEFINE D == {entry.of : entry \in rules}
    <3>1. D \in SUBSET Documents
      BY <2>1 DEF AllEntries
    <3>2. SegmentsOf(rules) \in [D -> SUBSET RuleNames]
      BY <2>1 DEF SegmentsOf, RuleIds, AllEntries, RuleNames
    <3>3. AllRules = {Rule(o.of) : o \in Candidates(UNION Results)}
      BY DEF AllRules, AllOutcomes
    <3>4. item \in [rules : SUBSET [of : Documents, rule : AllRules],
                    segments : [D -> SUBSET RuleNames]]
      BY <2>1, <3>2 DEF AllEntries
    <3>5. NoItem \notin [rules : SUBSET [of : Documents, rule : AllRules],
                        segments : [D -> SUBSET RuleNames]]
      BY <3>1, <3>3, NoItemIsAbsent DEF RuleNames
    <3> QED
      BY <3>4, <3>5
  <2> HIDE DEF item
  <2> QED
    BY <2>1, <2>2, <2>3 DEF PointersAreStored
<1>3. ASSUME NEW c \in Clients, Retire(c), UNCHANGED version PROVE PointersAreStored'
  BY <1>3 DEF Retire, PointersAreStored
<1> QED
  BY <1>1, <1>2, <1>3, ProfilesChange

(* The items of a document and of a profile hold what their writers store. *)
THEOREM ItemsAreTyped == Spec => []PolicyTypeOK
<1>1. Init => ItemsInv
  <2> SUFFICES ASSUME Init PROVE ItemsInv
    OBVIOUS
  <2>1. \A d \in Documents : source[d].reviewer = NoItem
    BY DEF Init, SourcesInit, UploadSession
  <2>2. \A c \in Clients : client[c].pc = "idle"
    BY DEF Init, SourcesInit, Idle
  <2> QED
    BY <2>1, <2>2, InitialType
       DEF Init, ItemsInv, ReviewsAreReady, ApprovalsAreOfSomething, PointersAreStored
<1>2. ItemsInv /\ [Next]_vars => ItemsInv'
  BY TypeStep, ReviewsStayReady, ApprovalsStayOfSomething, PointersStayStored DEF ItemsInv
<1>3. ItemsInv => PolicyTypeOK
  BY DEF ItemsInv, TypeInv, SourcesTypeInv, PolicyTypeInv, SourceItems, Statuses,
         ReviewsAreReady, ApprovalsAreOfSomething, PointersAreStored, PolicyTypeOK
<1> QED
  BY <1>1, <1>2, <1>3, PTL DEF Spec

-----------------------------------------------------------------------------
(* What a reviewer is offered *)

(* While a document stands, the run of a manifest, of the worker about to write one *)
(* and of a reviewer who read one is stored; and what is stored is finite.          *)
ReadyRunsAreStored ==
    /\ \A d \in Documents : source[d] # NoItem /\ IsReviewable(d) =>
           manifest[d].results \subseteq children[d]
    /\ \A w \in Workers : worker[w].pc = "ready" /\ source[worker[w].of] # NoItem =>
           worker[w].result \subseteq children[worker[w].of]
    /\ \A c \in Clients : client[c].pc = "review" /\ source[client[c].of] # NoItem =>
           client[c].results \subseteq children[client[c].of]

ChildrenAreFinite == \A d \in Documents : IsFiniteSet(children[d])

ReviewInv == PolicyInv /\ ReadyRunsAreStored /\ ChildrenAreFinite

(* Children come and go one at a time. *)
LEMMA ChildrenStayFinite ==
    ASSUME ReviewInv, [Next]_vars
    PROVE  ChildrenAreFinite'
<1> USE DEF ReviewInv, PolicyInv, TypeInv, SourcesTypeInv
<1>1. CASE UNCHANGED children
  BY <1>1 DEF ChildrenAreFinite
<1>2. ASSUME NEW w \in Workers, StoreChild(w) PROVE ChildrenAreFinite'
  <2>1. PICK o \in worker[w].result : children' = [children EXCEPT ![worker[w].of] = @ \cup {o}]
    BY <1>2 DEF StoreChild
  <2>2. \A d \in Documents : children'[d] = children[d] \/ children'[d] = children[d] \cup {o}
    BY <2>1
  <2>3. ASSUME NEW d \in Documents PROVE IsFiniteSet(children'[d])
    <3>1. IsFiniteSet(children[d]) /\ IsFiniteSet(children[d] \cup {o})
      BY FS_AddElement DEF ChildrenAreFinite
    <3> QED
      BY <2>2, <3>1
  <2> QED
    BY <2>3 DEF ChildrenAreFinite
<1>3. ASSUME NEW c \in Clients, DeleteChild(c) PROVE ChildrenAreFinite'
  <2>1. \A d \in Documents : children'[d] \subseteq children[d]
    BY <1>3 DEF DeleteChild
  <2> QED
    BY <2>1, FS_Subset DEF ChildrenAreFinite
<1> QED
  BY <1>1, <1>2, <1>3, ChildrenChange

(* Manifests are written by the worker and taken away by a deletion. *)
LEMMA ManifestsChange ==
    ASSUME [Next]_vars
    PROVE  \/ UNCHANGED manifest
           \/ \E w \in Workers : BeginRun(w) \/ CompleteRun(w)
           \/ \E c \in Clients : DeleteManifest(c)
BY DEF Next, vars, authoring, SourcesNext, ProfilesNext, BeginFinalize, BeginConfirm, Finalize,
       RecordNormalization, Confirm, ClientStops, RequestExtraction, SkipTask, Extract,
       StoreChild, CheckChildren, StoreSourceItem, WorkerStops, BeginReview, Select,
       BeginApproval, RecordApproval, LoadPublication, RecordProfile, BeginRetire, Retire,
       BeginDelete, DeleteRecord, DeleteSourceItem, DeleteApproval, DeleteChild

(* A worker comes to write the manifest by comparing the children. *)
LEMMA ReadyWorkers ==
    ASSUME TypeInv, [Next]_vars, NEW w \in Workers, worker'[w].pc = "ready"
    PROVE  worker'[w] = worker[w] \/ CheckChildren(w)
<1> USE DEF TypeInv, SourcesTypeInv
<1>1. CASE UNCHANGED worker
  BY <1>1
<1>2. ASSUME NEW v \in Workers, v # w, CheckChildren(v) PROVE worker'[w] = worker[w]
  BY <1>2 DEF CheckChildren, WorkerGo
<1>3. ASSUME NEW v \in Workers,
             \/ \E d \in Documents : Extract(v, d)
             \/ StoreSourceItem(v) \/ WorkerStops(v)
      PROVE  worker'[w] = worker[w]
  BY <1>3 DEF Extract, StoreSourceItem, WorkerStops, Idle
<1>4. ASSUME NEW v \in Workers, BeginRun(v) \/ CompleteRun(v)
      PROVE  worker'[w] = worker[w]
  <2>1. worker[v] \in [pc : {"begin", "children", "ready", "source"},
                       of : Documents, result : Results]
    BY <1>4 DEF BeginRun, CompleteRun, WorkerStates
  <2> QED
    BY <1>4, <2>1 DEF BeginRun, CompleteRun, WorkerGo
<1> QED
  BY <1>1, <1>2, <1>3, <1>4
     DEF Next, vars, SourcesNext, ProfilesNext, BeginFinalize, BeginConfirm, Finalize,
         RecordNormalization, Confirm, ClientStops, RequestExtraction, SkipTask, StoreChild,
         BeginReview, Select, BeginApproval, RecordApproval, LoadPublication, RecordProfile,
         BeginRetire, Retire, BeginDelete, DeleteRecord, DeleteSourceItem, DeleteApproval,
         DeleteManifest, DeleteChild

(* A review begins by reading the manifest. *)
LEMMA ReviewsBegin ==
    ASSUME TypeInv, [Next]_vars, NEW c \in Clients, client'[c].pc = "review"
    PROVE  client'[c] = client[c] \/ \E d \in Documents : BeginReview(c, d)
<1> USE DEF TypeInv
<1>1. CASE UNCHANGED client
  BY <1>1
<1>2. ASSUME NEW e \in Clients, NEW state, Go(e, state), e # c \/ state.pc # "review"
      PROVE  client'[c] = client[c]
  BY <1>2 DEF Go, ClientTypeInv
<1>3. ASSUME NEW e \in Clients, Done(e) PROVE client'[c] = client[c]
  BY <1>2, <1>3 DEF Done, Idle
<1>4. ASSUME NEW e \in Clients,
             \/ \E d \in Documents : \/ BeginFinalize(e, d) \/ BeginConfirm(e, d)
                                      \/ BeginDelete(e, d)
             \/ \E p \in Profiles : BeginRetire(e, p)
             \/ RecordNormalization(e) \/ Confirm(e) \/ ClientStops(e)
             \/ RecordApproval(e) \/ RecordProfile(e) \/ Retire(e)
             \/ Select(e) \/ BeginApproval(e)
             \/ (\E p \in Profiles : LoadPublication(e, p)) \/ DeleteSourceItem(e)
      PROVE  client'[c] = client[c]
  BY <1>2, <1>3, <1>4
     DEF BeginFinalize, BeginConfirm, BeginDelete, BeginRetire, RecordNormalization, Confirm,
         ClientStops, RecordApproval, RecordProfile, Retire, Select, BeginApproval,
         LoadPublication, DeleteSourceItem
<1>5. ASSUME NEW e \in Clients, Finalize(e) PROVE client'[c] = client[c]
  <2>1. [client[e] EXCEPT !.pc = "normalize"].pc = "normalize"
    BY <1>5, ClientKinds DEF Finalize, At, Handling
  <2> QED
    BY <1>2, <1>3, <1>5, <2>1 DEF Finalize
<1>6. ASSUME NEW e \in Clients,
             DeleteRecord(e) \/ DeleteApproval(e) \/ DeleteManifest(e) \/ DeleteChild(e)
      PROVE  client'[c] = client[c]
  <2>1. CASE e = c
    BY <1>6, <2>1, DeletionGoesOn
  <2>2. CASE e # c
    BY <1>2, <1>3, <1>6, <2>2 DEF DeleteRecord, DeleteApproval, DeleteManifest, DeleteChild
  <2> QED
    BY <2>1, <2>2
<1>7. ASSUME NEW e \in Clients, NEW d \in Documents, BeginReview(e, d), e # c
      PROVE  client'[c] = client[c]
  BY <1>2, <1>7 DEF BeginReview
<1>8. CASE SourcesNext
  BY <1>1, <1>4, <1>5, <1>8
     DEF SourcesNext, RequestExtraction, SkipTask, Extract, BeginRun, StoreChild,
         CheckChildren, CompleteRun, StoreSourceItem, WorkerStops
<1>9. CASE ProfilesNext
  BY <1>4, <1>6, <1>7, <1>9 DEF ProfilesNext
<1> QED
  BY <1>1, <1>8, <1>9 DEF Next, vars

(* The children of a document that stands are not taken away. *)
LEMMA ChildrenOfStandingStay ==
    ASSUME PolicyInv, [Next]_vars, NEW d \in Documents, source'[d] # NoItem
    PROVE  source[d] # NoItem /\ children[d] \subseteq children'[d]
<1> USE DEF PolicyInv, TypeInv, SourcesTypeInv
<1>1. source[d] # NoItem
  BY DocumentsStayGone
<1>2. ASSUME NEW w \in Workers, StoreChild(w) PROVE children[d] \subseteq children'[d]
  BY <1>2 DEF StoreChild
<1>3. ASSUME NEW c \in Clients, DeleteChild(c) PROVE children[d] \subseteq children'[d]
  <2>1. client[c].of # d
    BY <1>1, <1>3 DEF DeleteChild, At, DeletionsAreOrdered
  <2> QED
    BY <1>3, <2>1 DEF DeleteChild
<1> QED
  BY <1>1, <1>2, <1>3, ChildrenChange

(* A run whose manifest is READY stays stored. *)
LEMMA ReadyRunsStayStored ==
    ASSUME ReviewInv, [Next]_vars
    PROVE  ReadyRunsAreStored'
<1> USE DEF ReviewInv, PolicyInv, TypeInv
<1>1. ASSUME NEW d \in Documents, source'[d] # NoItem, IsReviewable(d)'
      PROVE  manifest'[d].results \subseteq children'[d]
  <2>1. source[d] # NoItem /\ children[d] \subseteq children'[d]
    BY <1>1, ChildrenOfStandingStay
  <2>2. CASE manifest'[d] = manifest[d]
    BY <1>1, <2>1, <2>2 DEF ReadyRunsAreStored, IsReviewable
  <2>3. ASSUME NEW w \in Workers, BeginRun(w) PROVE manifest'[d] = manifest[d]
    BY <1>1, <2>3 DEF BeginRun, IsReviewable, Processing, SourcesTypeInv
  <2>4. ASSUME NEW w \in Workers, CompleteRun(w), manifest'[d] # manifest[d]
        PROVE  manifest'[d].results \subseteq children'[d]
    <3>1. worker[w].of = d /\ worker[w].pc = "ready"
      BY <2>4 DEF CompleteRun, SourcesTypeInv
    <3>2. manifest'[d].results = worker[w].result
      BY <2>4, <3>1 DEF CompleteRun, Ready, SourcesTypeInv
    <3> QED
      BY <2>1, <3>1, <3>2 DEF ReadyRunsAreStored
  <2>5. ASSUME NEW c \in Clients, DeleteManifest(c) PROVE manifest'[d] = manifest[d]
    BY <1>1, <2>5 DEF DeleteManifest, IsReviewable, SourcesTypeInv
  <2> QED
    BY <2>2, <2>3, <2>4, <2>5, ManifestsChange
<1>2. ASSUME NEW w \in Workers, worker'[w].pc = "ready", source'[worker'[w].of] # NoItem
      PROVE  worker'[w].result \subseteq children'[worker'[w].of]
  <2>1. /\ worker[w] \in [pc : {"begin", "children", "ready", "source"},
                          of : Documents, result : Results]
        /\ worker'[w].of = worker[w].of /\ worker'[w].result = worker[w].result
    BY <1>2, ReadyWorkers DEF SourcesTypeInv, WorkerStates, CheckChildren, WorkerGo
  <2>2. source[worker[w].of] # NoItem /\ children[worker[w].of] \subseteq children'[worker[w].of]
    BY <1>2, <2>1, ChildrenOfStandingStay
  <2>3. worker[w].result \subseteq children[worker[w].of]
    BY <1>2, <2>2, ReadyWorkers DEF ReadyRunsAreStored, CheckChildren
  <2> QED
    BY <2>1, <2>2, <2>3
<1>3. ASSUME NEW c \in Clients, client'[c].pc = "review", source'[client'[c].of] # NoItem
      PROVE  client'[c].results \subseteq children'[client'[c].of]
  <2>1. CASE client'[c] = client[c]
    <3>1. client[c].of \in Documents
      BY <1>3, <2>1, ClientKinds DEF At, Reviewing
    <3> QED
      BY <1>3, <2>1, <3>1, ChildrenOfStandingStay DEF ReadyRunsAreStored
  <2>2. ASSUME NEW d \in Documents, BeginReview(c, d)
        PROVE  client'[c].results \subseteq children'[client'[c].of]
    <3>1. client'[c].of = d /\ client'[c].results = manifest[d].results
      BY <2>2 DEF BeginReview, Go, ClientTypeInv
    <3>2. source[d] # NoItem /\ IsReviewable(d)
      BY <2>2 DEF BeginReview, StatusIs
    <3>3. children[d] \subseteq children'[d]
      BY <1>3, <3>1, ChildrenOfStandingStay
    <3> QED
      BY <3>1, <3>2, <3>3 DEF ReadyRunsAreStored
  <2> QED
    BY <1>3, <2>1, <2>2, ReviewsBegin
<1> QED
  BY <1>1, <1>2, <1>3 DEF ReadyRunsAreStored, IsReviewable

(* As many candidates as the manifest counts are its own, since they hold them. *)
LEMMA CountedAreOwn ==
    ASSUME NEW results, NEW stored, results \subseteq stored, IsFiniteSet(stored),
           Cardinality(Candidates(stored)) = Cardinality(Candidates(results))
    PROVE  Candidates(stored) = Candidates(results)
<1>1. Candidates(results) \subseteq Candidates(stored)
  BY DEF Candidates
<1>2. IsFiniteSet(Candidates(stored))
  BY FS_Subset DEF Candidates
<1> QED
  BY <1>1, <1>2, FS_Subset

(* _load_candidates: as the run of a READY manifest stays stored while the document *)
(* stands, counting the children is enough to tell that they are those of the run   *)
(* whose manifest was read.                                                         *)
THEOREM OfferedAreComplete == Spec => OfferedIsTheCompleteRun
<1>1. Init => ReviewInv
  <2> SUFFICES ASSUME Init PROVE ReviewInv
    OBVIOUS
  <2>1. \A c \in Clients : client[c].pc = "idle"
    BY DEF Init, SourcesInit, Idle
  <2>2. \A w \in Workers : worker[w].pc = "idle"
    BY DEF Init, SourcesInit, Idle
  <2>3. ReadyRunsAreStored
    BY <2>1, <2>2 DEF Init, SourcesInit, ReadyRunsAreStored, IsReviewable
  <2>4. ChildrenAreFinite
    BY FS_EmptySet DEF Init, SourcesInit, ChildrenAreFinite
  <2> QED
    BY <2>3, <2>4, PolicyInitial DEF ReviewInv
<1>2. ReviewInv /\ [Next]_vars => ReviewInv'
  BY PolicyStep, ReadyRunsStayStored, ChildrenStayFinite DEF ReviewInv
<1>3. ASSUME ReviewInv, [Next]_vars, NEW c \in Clients,
             At(c, "review"), client'[c].pc = "approve", source[client[c].of] # NoItem
      PROVE  client'[c].rules \subseteq {Rule(o.of) : o \in Candidates(client[c].results)}
  <2> USE DEF ReviewInv, PolicyInv, TypeInv
  <2>1. client[c].of \in Documents
    BY <1>3, ClientKinds DEF Reviewing
  <2>2. Select(c)
    <3>1. ~BeginApproval(c) /\ ~DeleteRecord(c) /\ ~DeleteSourceItem(c) /\ ~DeleteApproval(c)
      BY <1>3 DEF At, BeginApproval, DeleteRecord, DeleteSourceItem, DeleteApproval
    <3>2. ~DeleteManifest(c) /\ ~DeleteChild(c) /\ \A p \in Profiles : ~LoadPublication(c, p)
      BY <1>3 DEF At, DeleteManifest, DeleteChild, LoadPublication
    <3> QED
      BY <1>3, <3>1, <3>2, RequestGoesOn DEF At
  <2>3. client'[c].rules \subseteq RulesOf(client[c].of)
    <3>1. PICK picked \in SUBSET RulesOf(client[c].of) :
              Go(c, [pc |-> "approve", of |-> client[c].of, rules |-> picked])
      BY <2>2 DEF Select
    <3> QED
      BY <1>3, <3>1 DEF Go, ClientTypeInv
  <2>4. Candidates(children[client[c].of]) = Candidates(client[c].results)
    BY <1>3, <2>1, <2>2, CountedAreOwn
       DEF At, Select, CountsAgree, ReadyRunsAreStored, ChildrenAreFinite
  <2> QED
    BY <2>3, <2>4 DEF RulesOf
<1>4. ReviewInv /\ [Next]_vars =>
          [\A c \in Clients :
               At(c, "review") /\ client'[c].pc = "approve" /\ source[client[c].of] # NoItem =>
                   client'[c].rules \subseteq
                       {Rule(o.of) : o \in Candidates(client[c].results)}]_vars
  BY <1>3
<1> QED
  BY <1>1, <1>2, <1>4, PTL DEF Spec, OfferedIsTheCompleteRun

=============================================================================

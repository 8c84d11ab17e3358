---------------------------- MODULE PolicyProfiles ----------------------------
(***************************************************************************)
(* Approval of candidates, the Rule registry, publication and retirement   *)
(* of Policy Profiles (apps/backend/api/policy_approval.py,                *)
(* apps/backend/policy/ingestion/approval.py,                              *)
(* apps/backend/repositories/policy_approval.py) and the deletion of a     *)
(* document with what is stored under it                                   *)
(* (apps/backend/repositories/policy_ingestion.py delete_source).          *)
(*                                                                         *)
(* Each call of a handler to the table is a step; a transaction is one.    *)
(***************************************************************************)
EXTENDS PolicySources

CONSTANTS
    Profiles,   \* profile ids
    Versions    \* version names a publisher may give

VARIABLES
    approval,   \* the APPROVAL item of each document, the Rules it covers
    registry,   \* the RULE items: an approved Rule and its document
    version,    \* the immutable VERSION items of the profiles
    current     \* the pointer items: the current version of a profile

(* The placeholder of an absent item is neither an APPROVAL nor a VERSION item. *)
ASSUME NoItemIsAbsent ==
    LET rules == {Rule(o.of) : o \in Candidates(UNION Results)}
        ids == {r.id : r \in rules}
    IN  /\ NoItem \notin [rules : SUBSET ids]
        /\ \A D \in SUBSET Documents :
               NoItem \notin [rules : SUBSET [of : Documents, rule : rules],
                             segments : [D -> SUBSET ids]]

policy == <<approval, registry, version, current>>
vars == <<source, authoring, client, worker, policy>>

Init ==
    /\ SourcesInit
    /\ approval = [d \in Documents |-> NoItem]
    /\ registry = {}
    /\ version = [p \in Profiles |-> [v \in Versions |-> NoItem]]
    /\ current = [p \in Profiles |-> NoItem]

----------------------------------------------------------------------------
(* Reading the candidates: the READY manifest, then the children, whose *)
(* number must be the one the manifest counts.                          *)

(* Mutant: the children are not counted. *)
AnyCount(d, results) == TRUE

CountsAgree(d, results) ==
    Cardinality(Candidates(children[d])) = Cardinality(Candidates(results))

RulesOf(d) == {Rule(o.of) : o \in Candidates(children[d])}

BeginReview(c, d) ==
    /\ At(c, "idle") /\ StatusIs(d, "READY") /\ IsReviewable(d)
    /\ Go(c, [pc |-> "review", of |-> d, results |-> manifest[d].results])
    /\ UNCHANGED <<source, authoring, worker, policy>>

(* A Rule is approved with the text it cites: units of this very document. *)
MatchesDocument(rule) == rule.locators \subseteq ToSet(Units)

(* approve_source: each Rule once, and none that cites another text. *)
MayApprove(rules) ==
    /\ rules # {}
    /\ \A r, s \in rules : r.id = s.id => r = s
    /\ \A r \in rules : MatchesDocument(r)

(* The reviewer picks a part of the candidates. *)
Select(c) ==
    /\ At(c, "review")
    /\ LET d == client[c].of IN
       /\ CountsAgree(d, client[c].results)
       /\ \E picked \in SUBSET RulesOf(d) :
              /\ MayApprove(picked)
              /\ Go(c, [pc |-> "approve", of |-> d, rules |-> picked])
    /\ UNCHANGED <<source, authoring, worker, policy>>

----------------------------------------------------------------------------
(* record_approval: approvals of one document add up. *)

Registered(d) == {entry \in registry : entry.of = d}
Entries(d, rules) == {[of |-> d, rule |-> r] : r \in rules}
RuleIds(entries) == {entry.rule.id : entry \in entries}

(* Mutant: an approval is taken for one of the whole document. *)
CoveredWhole(d) == IF approval[d] = NoItem THEN {} ELSE RuleIds(Entries(d, RulesOf(d)))

Covered(d) == IF approval[d] = NoItem THEN {} ELSE approval[d].rules

BeginApproval(c) ==
    /\ At(c, "approve")
    /\ LET d == client[c].of
           added == {r \in client[c].rules : r.id \notin Covered(d)}
       IN  IF added = {} THEN Done(c)
           ELSE Go(c, [pc |-> "record", of |-> d, rules |-> added, seen |-> approval[d]])
    /\ UNCHANGED <<source, authoring, worker, policy>>

(* One transaction: the document is still READY, its manifest too, no Rule is *)
(* registered yet and the approval is the one that was read: its timestamp    *)
(* tells it from others as its Rules do, for they grow with each approval.    *)
AnyApproval(c) == TRUE    \* Mutant: approvals overwrite one another.
IsAsSeen(c) == approval[client[c].of] = client[c].seen

RecordApproval(c) ==
    /\ At(c, "record")
    /\ LET d == client[c].of
           new == Entries(d, client[c].rules)
       IN  /\ StatusIs(d, "READY")
           /\ IsReviewable(d)
           /\ IsAsSeen(c)
           /\ RuleIds(new) \cap RuleIds(Registered(d)) = {}
           /\ registry' = registry \cup new
           /\ approval' = [approval EXCEPT ![d] =
                  [rules |-> RuleIds(new) \cup
                             (IF client[c].seen = NoItem THEN {} ELSE client[c].seen.rules)]]
    /\ Done(c)
    /\ UNCHANGED <<source, authoring, worker, version, current>>

----------------------------------------------------------------------------
(* Publication *)

(* load_publication does not read the ingestion record. *)
Loads(d) == approval[d] # NoItem /\ d \in published /\ IsReviewable(d)

ApprovedRules(d) ==
    {[of |-> d, rule |-> r] : r \in {s \in RulesOf(d) : s.id \in Covered(d)}}

(* The approval of the document a Rule cites names that Rule. *)
HasProvenance(entry) == entry.rule.id \in Covered(entry.of)

(* publish_profile, of what it was given: chosen candidates and a baseline. *)
MayPublish(chosen, baseline) ==
    /\ \A entry \in chosen : HasProvenance(entry)
    /\ chosen \cup baseline # {}
    /\ RuleIds(chosen) \cap RuleIds(baseline) = {}

(* The Rules of a profile by the document they cite, for a readiness of each. *)
SegmentsOf(rules) ==
    [d \in {entry.of : entry \in rules} |-> RuleIds({entry \in rules : entry.of = d})]

(* A published version whose Rules join unchanged: all of them registered and *)
(* their documents still stored.                                              *)
Baselines ==
    {item.rules : item \in
        {version[p][v] : p \in Profiles, v \in Versions} \ {NoItem}} \cap
    {rules \in SUBSET registry : \A entry \in rules : entry.of \in published}

(* A chosen part of the approved Rules of some documents, and a baseline.  The *)
(* client believes it publishes first, or names the version it saw.            *)
LoadPublication(c, p) ==
    /\ At(c, "idle")
    /\ \E documents \in SUBSET Documents, baseline \in Baselines \cup {{}} :
           /\ \A d \in documents : Loads(d) /\ CountsAgree(d, manifest[d].results)
           /\ \E chosen \in SUBSET UNION {ApprovedRules(d) : d \in documents} :
                  /\ MayPublish(chosen, baseline)
                  /\ \E expected \in {NoItem, current[p]} :
                         Go(c, [pc |-> "publish", profile |-> p, expected |-> expected,
                                rules |-> chosen \cup baseline])
    /\ UNCHANGED <<source, authoring, worker, policy>>

(* One transaction: the version is new and the pointer is the expected one. *)
AnyPointer(c) == TRUE    \* Mutant: the last publication wins.
IsExpected(c) == current[client[c].profile] = client[c].expected
IsNewVersion(p, v) == version[p][v] = NoItem

RecordProfile(c) ==
    /\ At(c, "publish")
    /\ LET p == client[c].profile IN
       \E v \in Versions :
           /\ IsNewVersion(p, v)
           /\ IsExpected(c)
           /\ version' = [version EXCEPT ![p][v] =
                  [rules |-> client[c].rules, segments |-> SegmentsOf(client[c].rules)]]
           /\ current' = [current EXCEPT ![p] = v]
    /\ Done(c)
    /\ UNCHANGED <<source, authoring, worker, approval, registry>>

(* retire_profile deletes the pointer, whatever version it names by then. *)
BeginRetire(c, p) ==
    /\ At(c, "idle") /\ current[p] # NoItem
    /\ Go(c, [pc |-> "retire", profile |-> p])
    /\ UNCHANGED <<source, authoring, worker, policy>>

Retire(c) ==
    /\ At(c, "retire") /\ current[client[c].profile] # NoItem
    /\ current' = [current EXCEPT ![client[c].profile] = NoItem]
    /\ Done(c)
    /\ UNCHANGED <<source, authoring, worker, approval, registry, version>>

----------------------------------------------------------------------------
(* Deletion: the record first, then the items a query finds under it, in key *)
(* order, each in a write of its own that may be the last.                   *)

CurrentRules(p) == IF current[p] = NoItem THEN {} ELSE version[p][current[p]].rules
IsReferenced(d) == \E p \in Profiles : \E entry \in CurrentRules(p) : entry.of = d

BeginDelete(c, d) ==
    /\ At(c, "idle") /\ source[d] # NoItem /\ ~IsReferenced(d)
    /\ Go(c, [pc |-> "delete", of |-> d])
    /\ UNCHANGED <<source, authoring, worker, policy>>

DeleteRecord(c) ==
    /\ At(c, "delete") /\ source[client[c].of] # NoItem
    /\ source' = [source EXCEPT ![client[c].of] = NoItem]
    /\ Go(c, [client[c] EXCEPT !.pc = "source item"])
    /\ UNCHANGED <<authoring, worker, policy>>

DeleteSourceItem(c) ==
    /\ At(c, "source item")
    /\ LET d == client[c].of IN
       /\ published' = published \ {d}
       /\ Go(c, [pc |-> "approval item", of |-> d, run |-> manifest[d], keys |-> children[d]])
    /\ UNCHANGED <<source, queued, receives, manifest, children, worker, policy>>

DeleteApproval(c) ==
    /\ At(c, "approval item")
    /\ approval' = [approval EXCEPT ![client[c].of] = NoItem]
    /\ Go(c, [client[c] EXCEPT !.pc = "run item"])
    /\ UNCHANGED <<source, authoring, worker, registry, version, current>>

DeleteManifest(c) ==
    /\ At(c, "run item")
    /\ manifest' = [manifest EXCEPT ![client[c].of] =
                       IF client[c].run = NoItem THEN @ ELSE NoItem]
    /\ Go(c, IF client[c].keys = {} THEN Idle ELSE [client[c] EXCEPT !.pc = "children"])
    /\ UNCHANGED <<source, queued, receives, children, published, worker, policy>>

DeleteChild(c) ==
    /\ At(c, "children")
    /\ \E o \in client[c].keys :
           /\ children' = [children EXCEPT ![client[c].of] = @ \ {o}]
           /\ Go(c, IF client[c].keys = {o} THEN Idle ELSE [client[c] EXCEPT !.keys = @ \ {o}])
    /\ UNCHANGED <<source, queued, receives, manifest, published, worker, policy>>

ProfilesNext ==
    \/ \E c \in Clients :
        \/ \E d \in Documents : BeginReview(c, d) \/ BeginDelete(c, d)
        \/ \E p \in Profiles : LoadPublication(c, p) \/ BeginRetire(c, p)
        \/ Select(c) \/ BeginApproval(c) \/ RecordApproval(c)
        \/ RecordProfile(c) \/ Retire(c)
        \/ DeleteRecord(c) \/ DeleteSourceItem(c) \/ DeleteApproval(c)
        \/ DeleteManifest(c) \/ DeleteChild(c)

Next == (SourcesNext /\ UNCHANGED policy) \/ ProfilesNext

Spec == Init /\ [][Next]_vars

----------------------------------------------------------------------------
(* Properties *)

(* The items hold what their writers store. *)
PolicyTypeOK ==
    /\ \A d \in Documents : source[d] # NoItem =>
           /\ source[d].status \in {"UPLOAD_PENDING", "UPLOADED", "REVIEW_REQUIRED", "READY", "FAILED"}
           /\ source[d].reviewer # NoItem => source[d].status = "READY"
    /\ queued \cup published \subseteq Documents
    /\ \A d \in Documents : receives[d] \in 0..MaxReceives
    /\ \A d \in Documents : approval[d] # NoItem => approval[d].rules # {}
    /\ \A p \in Profiles : current[p] # NoItem => version[p][current[p]] # NoItem

(* rule_builder.py: a Rule that reaches the registry, through extraction,     *)
(* validation and approval, is one an assessment can run: on evidence its     *)
(* control has, for resources it supports, by the person if it is manual.     *)
RegisteredRulesAreExecutable ==
    \A entry \in registry :
        IsExecutable(entry.rule) /\ entry.rule.locators \subseteq ToSet(Units)

(* policy_approval.py record_approval: while a document stands, what its      *)
(* approval covers is what the registry holds of it, whoever approved at once. *)
ApprovalIsTheRegistry ==
    \A d \in Documents : source[d] # NoItem => Covered(d) = RuleIds(Registered(d))

(* load_publication and publish_profile: no profile version, current or past, *)
(* built from approvals or from a baseline, holds a Rule that nobody approved, *)
(* and each Rule counts for the readiness of the document it was approved of.  *)
ProfilesHoldApprovedRules ==
    \A p \in Profiles : \A v \in Versions :
        version[p][v] # NoItem =>
            LET item == version[p][v] IN
            /\ item.rules # {} /\ item.rules \subseteq registry
            /\ UNION {item.segments[d] : d \in DOMAIN item.segments} = RuleIds(item.rules)
            /\ \A d \in DOMAIN item.segments : item.segments[d] \subseteq RuleIds(Registered(d))

(* _load_candidates: what a reviewer chooses from is the run whose manifest   *)
(* was read, not one a redelivered task has stored a part of.  (During a      *)
(* deletion the numbers may agree by chance; an approval then fails.)         *)
OfferedIsTheCompleteRun ==
    [][\A c \in Clients :
           At(c, "review") /\ client'[c].pc = "approve" /\ source[client[c].of] # NoItem =>
               client'[c].rules \subseteq {Rule(o.of) : o \in Candidates(client[c].results)}]_vars

(* record_profile: a publication never silently replaces another: it stores a *)
(* new version and moves the pointer from the version its client knew of.     *)
PublicationsDoNotOverwrite ==
    [][\A p \in Profiles :
        /\ \A v \in Versions : version[p][v] # NoItem => version'[p][v] = version[p][v]
        /\ current'[p] \notin {current[p], NoItem} =>
               /\ version[p][current'[p]] = NoItem
               /\ \E c \in Clients : client[c].pc = "publish" /\ client'[c] = Idle
                                     /\ client[c].expected = current[p]]_vars

(* apps/backend/repositories/policy_ingestion.py:376: what stops a deletion is *)
(* the reference of a currently published profile.  Refuted: a publication     *)
(* loaded before, or made from what an interrupted deletion leaves, is not     *)
(* stopped by the deletion.                                                    *)
PublishedDocumentsStand ==
    \A d \in Documents : IsReferenced(d) => source[d] # NoItem

(* apps/backend/repositories/policy_approval.py:729: the worker is delivered   *)
(* at least once and a retry is absorbed.  Refuted: a delivery to which the    *)
(* model answers differently spoils a run that was READY.                      *)
ReadyRunsStayReviewable ==
    \A d \in Documents :
        source[d] # NoItem /\ IsReviewable(d) => CountsAgree(d, manifest[d].results)

=============================================================================

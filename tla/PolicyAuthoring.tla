--------------------------- MODULE PolicyAuthoring ---------------------------
(***************************************************************************)
(* How one normalised policy document becomes Rule candidates: the answers *)
(* of the model and how they are accounted for                             *)
(* (apps/backend/policy/authoring/bedrock_extractor.py), and the rule      *)
(* builder (apps/backend/policy/authoring/rule_builder.py).                *)
(*                                                                         *)
(* A requirement is a record of the fields the decisions read; its wording *)
(* is the value of "text".                                                 *)
(***************************************************************************)
EXTENDS ControlCatalog, Integers, Sequences, SequencesExt

CONSTANTS
    Units,          \* the locators of the document, in order
    UnitsPerChunk,  \* how many units one question to the model carries
    ChunkOverlap,   \* how many of them the next question repeats
    Replies,        \* what the model may reply to a question
    MaxRequirements, \* requirements of one document
    NoControl,      \* a requirement that maps to no control
    NoType          \* a requirement without an evaluation type

Automatic == {"IAC", "AWS", "HYBRID"}

ASSUME ChunksAdvance == ChunkOverlap \in Nat /\ UnitsPerChunk \in Nat /\ ChunkOverlap < UnitsPerChunk

----------------------------------------------------------------------------
(* A requirement of the model, and what the contract admits as one. *)

SoundAutomatable(q) ==
    /\ q.control # NoControl /\ q.evaluation \in Automatic
    /\ q.types # {} /\ q.required # {}
    /\ q.required \cap q.optional = {}

SoundManual(q) ==
    /\ q.control # NoControl /\ q.evaluation = "MANUAL"
    /\ q.required \cup q.optional \cup q.types = {}

SoundUnsupported(q) ==
    /\ q.control = NoControl /\ q.evaluation = NoType
    /\ q.required \cup q.optional \cup q.types = {}

SoundRequirement(q) ==
    \/ q.class = "AUTOMATABLE" /\ SoundAutomatable(q)
    \/ q.class = "MANUAL" /\ SoundManual(q)
    \/ q.class = "UNSUPPORTED" /\ SoundUnsupported(q)

(* The identity a requirement keeps over retries; the rest may be reworded. *)
Digest(q) == <<q.class, q.control, q.locators, q.text>>

----------------------------------------------------------------------------
(* The questions and the replies *)

(* Fixed windows that overlap; the last one reaches the end of the document. *)
WindowStarts ==
    LET step == UnitsPerChunk - ChunkOverlap IN
    {s \in 1..Len(Units) : /\ (s - 1) % step = 0
                           /\ s = 1 \/ s - step + UnitsPerChunk <= Len(Units)}

Chunk(start) ==
    {Units[i] : i \in {k \in 1..Len(Units) : start <= k /\ k < start + UnitsPerChunk}}

Cited(requirements) == UNION {q.locators : q \in requirements}

(* A reply is usable if every unit of the chunk is accounted for once: as the *)
(* ground of requirements or as context; one bad entry spoils the reply.      *)
IsUsable(chunk, reply) ==
    /\ ~reply.judges
    /\ reply.context \subseteq chunk
    /\ \A q \in reply.requirements :
           q.locators # {} /\ q.locators \subseteq chunk /\ SoundRequirement(q)
    /\ Cited(reply.requirements) \cap reply.context = {}
    /\ Cited(reply.requirements) \cup reply.context = chunk

(* What a document may yield.  A chunk is asked again while its reply is not  *)
(* usable, at most three times, and one that stays unusable fails the whole   *)
(* extraction: a result holds a usable reply to every chunk.  Of requirements *)
(* with one digest the first is kept.                                         *)
OnePerDigest(requirements) ==
    {kept \in SUBSET requirements :
        \A q \in requirements : \E one \in kept :
            {k \in kept : Digest(k) = Digest(q)} = {one}}

Extractions ==
    LET Chosen == {f \in [WindowStarts -> Replies] :
                      \A s \in WindowStarts : IsUsable(Chunk(s), f[s])}
        Merged(f) ==
            {q \in UNION {f[s].requirements : s \in WindowStarts} :
                \E s \in WindowStarts :
                    /\ q \in f[s].requirements
                    /\ \A t \in WindowStarts : t < s =>
                           \A e \in f[t].requirements : Digest(e) # Digest(q)}
    IN  {kept \in UNION {OnePerDigest(Merged(f)) : f \in Chosen} :
            Cardinality(kept) <= MaxRequirements}

----------------------------------------------------------------------------
(* The rule builder: why a requirement is refused, or the Rule it becomes. *)

Conflicts(q) ==
    Catalog[q.control].support # (IF q.class = "MANUAL" THEN "MANUAL" ELSE "AVAILABLE")

(* Mutant: evidence outside the catalog is let through. *)
ExceedsTypesOnly(q) ==
    \/ ~(q.types \subseteq Catalog[q.control].types)
    \/ q.evaluation \notin Catalog[q.control].evaluations

Exceeds(q) ==
    LET control == Catalog[q.control] IN
    \/ ~(q.types \subseteq control.types)
    \/ q.evaluation \notin control.evaluations
    \/ ~(q.required \cup q.optional \subseteq Keys(control))
    \/ q.required \cup control.required = {}

IsKnown(control) == control \in DOMAIN Catalog

IsRefused(q) ==
    \/ ~(q.locators \subseteq ToSet(Units))
    \/ ~IsKnown(q.control)
    \/ Conflicts(q)
    \/ q.class = "AUTOMATABLE" /\ Exceeds(q)

ApplicablePhases(evaluation) ==
    {"INITIAL", "POST_DEPLOY_VERIFICATION"}
        \cup (IF evaluation \in {"IAC", "HYBRID"} THEN {"DEPLOYMENT_READINESS"} ELSE {})

(* The Rule id covers what tells requirements of one document apart; what the *)
(* catalog demands is added, and a demand is never weakened to an option.     *)
Rule(q) ==
    LET control == Catalog[q.control]
        required == IF q.class = "MANUAL" THEN {} ELSE control.required \cup q.required
    IN  [id |-> <<q.control, q.evaluation, q.locators, q.text>>,
         control |-> q.control, evaluation |-> q.evaluation,
         phases |-> ApplicablePhases(q.evaluation),
         types |-> IF q.class = "MANUAL" THEN {"GovernanceAssessment"} ELSE q.types,
         locators |-> q.locators,
         required |-> required,
         optional |-> IF q.class = "MANUAL" THEN {}
                      ELSE (control.optional \cup q.optional) \ required]

(* What is stored of one requirement; an accepted one is kept next to the Rule  *)
(* it became, which is Rule(q), and a refused one is not tried as MANUAL.       *)
Unsupported(q) == [kind |-> "UNSUPPORTED", of |-> q]
Rejected(q) == [kind |-> "REJECTED", of |-> q]
Accepted(q) == [kind |-> "CANDIDATE", of |-> q]

Outcome(q) ==
    IF q.class = "UNSUPPORTED" THEN Unsupported(q)
    ELSE IF IsRefused(q) THEN Rejected(q) ELSE Accepted(q)

Candidates(outcomes) == {o \in outcomes : o.kind = "CANDIDATE"}

(* The results of a run: two candidates of one Rule id fail it. *)
Results ==
    {outcomes \in {{Outcome(q) : q \in kept} : kept \in Extractions} :
        \A o, e \in Candidates(outcomes) : Rule(o.of).id = Rule(e.of).id => o = e}

(* A Rule an assessment can run: its control runs it on evidence that exists. *)
IsExecutable(rule) ==
    LET control == Catalog[rule.control] IN
    /\ rule.evaluation \in control.evaluations
    /\ rule.required \cap rule.optional = {}
    /\ IF rule.evaluation = "MANUAL"
       THEN rule.required \cup rule.optional = {} /\ "DEPLOYMENT_READINESS" \notin rule.phases
       ELSE /\ rule.required # {}
            /\ rule.required \cup rule.optional \subseteq Keys(control)
            /\ rule.types # {} /\ rule.types \subseteq control.types

=============================================================================

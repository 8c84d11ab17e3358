--------------------------- MODULE ControlCatalog ---------------------------
(***************************************************************************)
(* The governance control catalog (packages/contracts/policy_authoring.py):*)
(* the boundary of what this product can evaluate, and what evidence it    *)
(* declares for it.  Authoring may only write Rules within it, and an      *)
(* evaluation only takes for evidence what it declares.                    *)
(*                                                                         *)
(* A control is [support, types, evaluations, capabilities, required,      *)
(* optional].  A capability is [key, perspective, type, paths, expectation,*)
(* expected, judged, plan]: where the projected document of an AWS resource*)
(* carries it, what makes it satisfied, of which of the paths (of all, if  *)
(* none is named), and the places of a Terraform plan that carry the same. *)
(***************************************************************************)
EXTENDS FiniteSets

CONSTANT Catalog    \* the governance controls, by their key

EvidencePerspectives == {"IAC", "AWS_ACTUAL"}

Expectations == {"ALL_TRUE", "ALL_FALSE", "NON_EMPTY", "ALL_EQUAL", "NONE_EQUAL",
                 "ALL_IN", "NO_PUBLIC_INGRESS"}

Keys(control) == {c.key : c \in control.capabilities}

SupportsPerspective(control, perspective) ==
    control.evaluations \cap (IF perspective = "AWS_ACTUAL" THEN {"AWS", "HYBRID"}
                                                            ELSE {"IAC", "HYBRID"}) # {}

\* Only the expectations that compare with something carry something to compare.
SoundExpectation(c) ==
    IF c.expectation = "NONE" THEN c.expected = {} /\ c.judged = {} /\ c.plan = {}
    ELSE /\ c.expectation \in Expectations
         /\ c.judged \subseteq c.paths
         /\ CASE c.expectation \in {"ALL_EQUAL", "NONE_EQUAL"} -> Cardinality(c.expected) = 1
              [] c.expectation = "ALL_IN" -> c.expected # {}
              [] OTHER -> c.expected = {}

\* Evidence of the IaC side is a file: it has no place to look and no criterion.
SoundBinding(c) ==
    IF c.perspective = "AWS_ACTUAL" THEN c.paths # {} /\ SoundExpectation(c)
    ELSE c.perspective = "IAC" /\ c.paths = {} /\ c.plan = {} /\ c.expectation = "NONE"

SoundCapabilities(control) ==
    /\ \A c, e \in control.capabilities : c.key = e.key => c = e
    /\ \A c \in control.capabilities :
           /\ c.type \in control.types
           /\ SoundBinding(c)
           /\ c.perspective \in EvidencePerspectives
           /\ SupportsPerspective(control, c.perspective)

WithoutEvidence(control) ==
    control.capabilities = {} /\ control.required = {} /\ control.optional = {}

SoundAvailable(control) ==
    /\ "MANUAL" \notin control.evaluations
    /\ control.evaluations # {} /\ control.types # {}
    /\ control.capabilities # {} /\ control.required # {}
    /\ control.required \cup control.optional \subseteq Keys(control)
    /\ control.required \cap control.optional = {}

SoundControl(control) ==
    /\ SoundCapabilities(control)
    /\ CASE control.support = "MANUAL" ->
                control.evaluations = {"MANUAL"} /\ WithoutEvidence(control)
         [] control.support = "KNOWN_UNSUPPORTED" ->
                control.evaluations = {} /\ WithoutEvidence(control)
         [] control.support = "AVAILABLE" -> SoundAvailable(control)

ASSUME CatalogIsSound == \A key \in DOMAIN Catalog : SoundControl(Catalog[key])

\* is_decidable and judged_paths.
IsDecided(c) == c.expectation # "NONE"

JudgedPaths(c) == IF c.judged = {} THEN c.paths ELSE c.judged

AwsCapabilities(control, type) ==
    {c \in control.capabilities : c.perspective = "AWS_ACTUAL" /\ c.type = type}
=============================================================================

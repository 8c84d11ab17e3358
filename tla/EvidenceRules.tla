---------------------------- MODULE EvidenceRules ----------------------------
(***************************************************************************)
(* What code decides without a model: the predicates of the catalog on the *)
(* values of a document (assessment/deterministic.py), the same predicates *)
(* on what a Terraform plan would leave behind (assessment/plan_facts.py,  *)
(* packages/contracts/terraform_plan.py), and the control whose evidence a *)
(* Rule asks for (policy/control_catalog.py control_for_rule).             *)
(*                                                                         *)
(* Text is compared without case.                                          *)
(***************************************************************************)
EXTENDS ControlCatalog, EvidencePaths

CONSTANTS
    LegacyControls,   \* the controls that rules without a type implement, by rule
    IdentityOf,       \* the attribute that names a resource, by Terraform type
    Unrestricted      \* the CIDRs of the whole internet

-----------------------------------------------------------------------------
\* The predicates of the catalog.

NoPublicIngress(group) ==
    \A path \in {<<Each("IpPermissions"), Each("IpRanges"), Step("CidrIp")>>,
                 <<Each("IpPermissions"), Each("Ipv6Ranges"), Step("CidrIpv6")>>} :
        \A cidr \in PathValues(group, path) : cidr.text \notin Unrestricted

IsFilled(value) ==
    CASE value.kind = "TEXT" -> value.text # ""
      [] value.kind = "LIST" -> value.items # <<>>
      [] value.kind = "OBJECT" -> DOMAIN value.fields # {}
      [] OTHER -> value # Null

\* A flag and its spelling are the same fact for an equality; an identifier is
\* never a flag.
IsSpelled(value, expected) == value.kind \in {"TEXT", "BOOLEAN"} /\ value.text \in expected

Satisfies(capability, value) ==
    CASE capability.expectation = "ALL_TRUE" -> value = Flag(TRUE)
      [] capability.expectation = "ALL_FALSE" -> value = Flag(FALSE)
      [] capability.expectation = "NON_EMPTY" -> IsFilled(value)
      [] capability.expectation = "ALL_EQUAL" -> IsSpelled(value, capability.expected)
      [] capability.expectation = "NONE_EQUAL" -> ~IsSpelled(value, capability.expected)
      [] capability.expectation = "ALL_IN" ->
            value.kind = "TEXT" /\ value.text \in capability.expected
      [] capability.expectation = "NO_PUBLIC_INGRESS" -> NoPublicIngress(value)

\* verdict_from_observations, of at least one of them.
Combined(observed) == IF FALSE \in observed THEN "FAIL" ELSE "PASS"

Decide(capabilities, document) ==
    Combined(UNION {{Satisfies(c, v) :
                        v \in UNION {PathValues(document, path) : path \in JudgedPaths(c)}} :
                    c \in capabilities})

-----------------------------------------------------------------------------
\* The control a Rule implements.

NoControlKey == "NONE"

\* A legacy Rule names neither its control nor its evidence.
ControlKeyOf(rule) ==
    CASE rule.type # "NONE" -> rule.control
      [] rule.type = "NONE" /\ rule.name \in DOMAIN LegacyControls -> LegacyControls[rule.name]
      [] OTHER -> NoControlKey

RequiredBy(rule) ==
    IF rule.type # "NONE" THEN rule.required ELSE Catalog[ControlKeyOf(rule)].required

RequiredCapabilities(rule, type) ==
    {c \in AwsCapabilities(Catalog[ControlKeyOf(rule)], type) : c.key \in RequiredBy(rule)}

\* Evidence that is not declared for this type, or that the read did not carry.
HasEvidenceGap(rule, type, document) ==
    \/ {c.key : c \in RequiredCapabilities(rule, type)} # RequiredBy(rule)
    \/ \E c \in RequiredCapabilities(rule, type) : \E p \in c.paths : ~IsPresent(document, p)

\* Code decides all of the required evidence, or none of it.
IsDecidable(rule, type) ==
    /\ RequiredBy(rule) # {}
    /\ {c.key : c \in RequiredCapabilities(rule, type)} = RequiredBy(rule)
    /\ \A c \in RequiredCapabilities(rule, type) : IsDecided(c)

-----------------------------------------------------------------------------
\* What a Terraform plan would change: records [type, actions, before, after,
\* replaced], where a state is a value, Null where there is none.

IsDestructive(plan) ==
    \E change \in plan.changes : "delete" \in change.actions \/ change.replaced

\* The resource as findings name it: first as it will be, then as it was.
NamesIn(state, type) ==
    {v.text : v \in {w \in Child(state, IdentityOf[type]) : w.kind = "TEXT"}} \ {""}

Identities(change) ==
    IF change.type \notin DOMAIN IdentityOf THEN {}
    ELSE IF NamesIn(change.after, change.type) # {} THEN NamesIn(change.after, change.type)
    ELSE NamesIn(change.before, change.type)

MappedResources(plan) == UNION {Identities(change) : change \in plan.changes}

\* The values of one resource at one declared place <<Terraform type, path>>.
PlanValues(plan, resource, place) ==
    UNION {PathValues(change.after, place[2]) :
              change \in {c \in plan.changes : /\ c.type = place[1]
                                               /\ c.after.kind = "OBJECT"
                                               /\ resource \in Identities(c)}}

PlannedValues(plan, resource, capability) ==
    UNION {PlanValues(plan, resource, place) : place \in capability.plan}

\* What the plan says of the Rule: nothing, unless it has all of the evidence.
DecideFromPlan(rule, type, resource, plan) ==
    LET required == RequiredCapabilities(rule, type)
    IN  IF IsDecidable(rule, type) /\ \A c \in required : PlannedValues(plan, resource, c) # {}
        THEN Combined(UNION {{Satisfies(c, v) : v \in PlannedValues(plan, resource, c)} :
                             c \in required})
        ELSE "NONE"
=============================================================================

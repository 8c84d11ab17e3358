--------------------------- MODULE MCAssessmentRun ---------------------------
(* A small instance of AssessmentRun with the controls of the product: a     *)
(* bucket under a HYBRID rule that a model answers from the files and code   *)
(* decides from the read, a database under an AWS rule whose reads are       *)
(* refused, and a MANUAL rule.  Another rubric may be configured, or the     *)
(* bucket no longer.  The plan of one remediation disables the ACLs of the   *)
(* bucket, another one does not, and a third one replaces its configuration. *)
EXTENDS AssessmentRun, GovernanceControls

MCSymmetry == Permutations(Workers)

Phases == {"INITIAL", "POST_DEPLOY_VERIFICATION"}

Clause(name) == [kind |-> "policy", name |-> name]

PolicyRule(name, type, types, severity, control, required) ==
    [name |-> name, type |-> type, types |-> types, phases |-> Phases,
     severity |-> severity, control |-> control, required |-> required, optional |-> {},
     rubric |-> type # "MANUAL", sources |-> {Clause("clause")}]

MCRules ==
    << PolicyRule("acl disabled", "HYBRID", {S3Bucket}, "HIGH",
                  "S3_BUCKET_ACL_DISABLED", {"S3.OWNERSHIP_CONTROLS"}),
       PolicyRule("logs exported", "AWS", {DBInstance}, "LOW",
                  "RDS_LOG_EXPORTS", {"RDS.LOG_EXPORTS"}),
       PolicyRule("reviewed", "MANUAL", {GovernanceType}, "LOW",
                  "ORGANIZATIONAL_CONTROL_MANUAL_REVIEW", {}) >>

MCSegments ==
    { [kind |-> "INTERNAL", origin |-> "handbook", rules |-> {"acl disabled", "logs exported"}],
      [kind |-> "ISMS_P", origin |-> "baseline", rules |-> {"logs exported", "reviewed"}] }

MCTypeOf == ("bucket" :> S3Bucket) @@ ("db" :> DBInstance) @@ ("governance" :> GovernanceType)

MCDeployed == [resources |-> <<"bucket", "db">>, rubric |-> "r1"]

MCConfigurations ==
    { MCDeployed, [MCDeployed EXCEPT !.rubric = "r2"],
      [MCDeployed EXCEPT !.resources = <<"db">>] }

MCFiles == {[kind |-> "terraform", name |-> "main.tf"]}

Cite(base) == [shape |-> "LOCATOR", base |-> base, anchor |-> FALSE]
TheRead == [kind |-> "aws", name |-> "bucket"]

Reply(status, cites) == [form |-> TRUE, status |-> status, score |-> 0, cites |-> cites]

\* An answer that keeps to the evidence when it is repeated, and one about the
\* files that goes on citing the read.
MCReplies ==
    { <<Reply("PASS", {Cite(Clause("invented"))}), Reply("PASS", {Cite(Clause("clause"))})>>,
      <<Reply("FAIL", {Cite(TheRead)}), Reply("FAIL", {Cite(TheRead)})>> }

Ownership(value) == "ownership_controls" :> Object("ObjectOwnership" :> Text(value))

Observed(attributes) == Object("attributes" :> Object(attributes))

\* A read of the database is always refused.
MCDocuments ==
    (S3Bucket :> {Observed(Ownership(value)) : value \in {"BucketOwnerEnforced", "ObjectWriter"}})
    @@ (DBInstance :> {None}) @@ (GovernanceType :> {})

Change(actions, replaced, value) ==
    [type |-> "aws_s3_bucket_ownership_controls", actions |-> actions, replaced |-> replaced,
     before |-> Object("bucket" :> Text("bucket")),
     after |-> Object(("bucket" :> Text("bucket"))
                      @@ ("rule" :> List(<<Object("object_ownership" :> Text(value))>>)))]

MCRemediationPlans ==
    { [refreshed |-> TRUE, changes |-> {Change({"update"}, FALSE, "BucketOwnerEnforced")}],
      [refreshed |-> TRUE, changes |-> {Change({"update"}, FALSE, "BucketOwnerPreferred")}],
      [refreshed |-> TRUE,
       changes |-> {Change({"delete", "create"}, TRUE, "BucketOwnerEnforced")}] }
=============================================================================

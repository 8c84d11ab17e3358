-------------------------- MODULE GovernanceControls --------------------------
(***************************************************************************)
(* The governance controls of the product, MVP_CONTROL_CATALOG of          *)
(* apps/backend/policy/control_catalog.py: for each one the resource types,*)
(* the evaluations and the evidence it declares, and the values that       *)
(* satisfy it.  It is a value for the constant Catalog of ControlCatalog.  *)
(*                                                                         *)
(* Titles, guidance, tool bindings and the Terraform hints of the file     *)
(* evidence, which nothing decides from, are left out.  A path of an AWS   *)
(* document starts at its "attributes".                                    *)
(***************************************************************************)
EXTENDS EvidencePaths, TLC

S3Bucket == "AWS::S3::Bucket"
Instance == "AWS::EC2::Instance"
Volume == "AWS::EC2::Volume"
SecurityGroup == "AWS::EC2::SecurityGroup"
Snapshot == "AWS::EC2::Snapshot"
DBInstance == "AWS::RDS::DBInstance"
LoadBalancer == "AWS::ElasticLoadBalancingV2::LoadBalancer"

-----------------------------------------------------------------------------
\* Capabilities.  _aws and _iac: evidence that a person or a model judges,
\* evidence that code judges, and evidence in a file.

Read(key, type, paths) ==
    [key |-> key, perspective |-> "AWS_ACTUAL", type |-> type,
     paths |-> {<<Step("attributes")>> \o path : path \in paths},
     expectation |-> "NONE", expected |-> {}, judged |-> {}, plan |-> {}]

Decided(key, type, paths, expectation, expected) ==
    [Read(key, type, paths) EXCEPT !.expectation = expectation, !.expected = expected]

File(key, type) ==
    [key |-> key, perspective |-> "IAC", type |-> type, paths |-> {},
     expectation |-> "NONE", expected |-> {}, judged |-> {}, plan |-> {}]

\* A field of an object, and of each item of a list.
Field(name, field) == <<Step(name), Step(field)>>
Of(list, field) == <<Each(list), Step(field)>>

\* The judged part of the paths of a capability, and the same facts in a plan.
JudgedBy(capability, path) ==
    [capability EXCEPT !.judged = {<<Step("attributes")>> \o path}]

Planned(capability, places) == [capability EXCEPT !.plan = places]

\* Controls, by how they are evaluated.
Available(types, capabilities, required) ==
    [support |-> "AVAILABLE", types |-> types, evaluations |-> {"IAC", "AWS", "HYBRID"},
     capabilities |-> capabilities, required |-> required,
     optional |-> {c.key : c \in capabilities} \ required]

Unevidenced(support, types, evaluations) ==
    [support |-> support, types |-> types, evaluations |-> evaluations,
     capabilities |-> {}, required |-> {}, optional |-> {}]

-----------------------------------------------------------------------------
\* S3

S3BlockPublicAccess ==
    LET flags == {"BlockPublicAcls", "IgnorePublicAcls",
                  "BlockPublicPolicy", "RestrictPublicBuckets"}
        arguments == {"block_public_acls", "ignore_public_acls",
                      "block_public_policy", "restrict_public_buckets"}
    IN  Available({S3Bucket},
            {Planned(Decided("S3.PUBLIC_ACCESS_BLOCK", S3Bucket,
                             {Field("public_access_block", flag) : flag \in flags},
                             "ALL_TRUE", {}),
                     {<<"aws_s3_bucket_public_access_block", <<Step(a)>>>> : a \in arguments}),
             File("S3.IAC_PUBLIC_ACCESS_BLOCK", S3Bucket)},
            {"S3.PUBLIC_ACCESS_BLOCK"})

S3EncryptionAtRest ==
    Available({S3Bucket},
        {Planned(Decided("S3.ENCRYPTION", S3Bucket,
                         {<<Step("encryption"), Each("Rules"),
                            Step("ApplyServerSideEncryptionByDefault"), Step("SSEAlgorithm")>>},
                         "ALL_IN", {"AES256", "aws:kms", "aws:kms:dsse"}),
                 {<<"aws_s3_bucket_server_side_encryption_configuration",
                    <<Each("rule"), Each("apply_server_side_encryption_by_default"),
                      Step("sse_algorithm")>>>>}),
         File("S3.IAC_ENCRYPTION", S3Bucket)},
        {"S3.ENCRYPTION"})

S3BucketPolicyRestricted ==
    Available({S3Bucket},
        {Read("S3.BUCKET_POLICY_PRINCIPALS", S3Bucket, {Field("bucket_policy", "present")}),
         File("S3.IAC_BUCKET_POLICY", S3Bucket)},
        {"S3.BUCKET_POLICY_PRINCIPALS"})

S3BucketAclDisabled ==
    Available({S3Bucket},
        {Planned(Decided("S3.OWNERSHIP_CONTROLS", S3Bucket,
                         {Field("ownership_controls", "ObjectOwnership")},
                         "ALL_EQUAL", {"BucketOwnerEnforced"}),
                 {<<"aws_s3_bucket_ownership_controls", Of("rule", "object_ownership")>>}),
         File("S3.IAC_OBJECT_OWNERSHIP", S3Bucket)},
        {"S3.OWNERSHIP_CONTROLS"})

S3TlsOnly ==
    Available({S3Bucket},
        {Read("S3.BUCKET_POLICY_TLS", S3Bucket, {Field("bucket_policy", "present")}),
         File("S3.IAC_TLS_ONLY_POLICY", S3Bucket)},
        {"S3.BUCKET_POLICY_TLS"})

S3ServerAccessLogging ==
    Available({S3Bucket},
        {Decided("S3.SERVER_ACCESS_LOGGING", S3Bucket, {Field("logging", "enabled")},
                 "ALL_TRUE", {}),
         File("S3.IAC_SERVER_ACCESS_LOGGING", S3Bucket)},
        {"S3.SERVER_ACCESS_LOGGING"})

-----------------------------------------------------------------------------
\* EC2

EC2NoPublicIp ==
    Available({Instance},
        {Read("EC2.PUBLIC_ADDRESS", Instance, {Field("instance", "SubnetId")}),
         Read("EC2.NETWORK_INTERFACE_ASSOCIATION", Instance,
              {Of("network_interfaces", "NetworkInterfaceId")}),
         Read("EC2.SUBNET_PUBLIC_IP_ASSIGNMENT", Instance,
              {Field("subnet", "MapPublicIpOnLaunch")}),
         File("EC2.IAC_PUBLIC_ADDRESS", Instance)},
        {"EC2.PUBLIC_ADDRESS", "EC2.SUBNET_PUBLIC_IP_ASSIGNMENT"})

\* The id of a volume is evidence, and no criterion.
EC2EbsEncryption ==
    Available({Instance, Volume},
        {Planned(JudgedBy(Decided("EC2.VOLUME_ENCRYPTION", Instance,
                                  {Of("volumes", "VolumeId"), Of("volumes", "Encrypted")},
                                  "ALL_TRUE", {}),
                          Of("volumes", "Encrypted")),
                 {<<"aws_instance", Of("root_block_device", "encrypted")>>,
                  <<"aws_instance", Of("ebs_block_device", "encrypted")>>}),
         File("EC2.IAC_VOLUME_ENCRYPTION", Instance)},
        {"EC2.VOLUME_ENCRYPTION"})

EC2SgIngressRestricted ==
    Available({Instance, SecurityGroup},
        {JudgedBy(Decided("EC2.SECURITY_GROUP_INGRESS", Instance,
                          {<<Each("security_groups")>>, Of("security_groups", "GroupId"),
                           Of("security_groups", "IpPermissions")},
                          "NO_PUBLIC_INGRESS", {}),
                  <<Each("security_groups")>>),
         File("EC2.IAC_SECURITY_GROUP_INGRESS", Instance)},
        {"EC2.SECURITY_GROUP_INGRESS"})

EC2SnapshotNotPublic == Unevidenced("KNOWN_UNSUPPORTED", {Snapshot}, {})

-----------------------------------------------------------------------------
\* RDS and load balancers

RDSNotPublic ==
    Available({DBInstance},
        {Planned(Decided("RDS.PUBLICLY_ACCESSIBLE", DBInstance,
                         {Field("db_instance", "PubliclyAccessible")}, "ALL_FALSE", {}),
                 {<<"aws_db_instance", <<Step("publicly_accessible")>>>>}),
         File("RDS.IAC_PUBLICLY_ACCESSIBLE", DBInstance)},
        {"RDS.PUBLICLY_ACCESSIBLE"})

RDSAccessRestricted ==
    Available({DBInstance},
        {JudgedBy(Decided("RDS.SECURITY_GROUP_INGRESS", DBInstance,
                          {<<Each("vpc_security_groups")>>,
                           Of("vpc_security_groups", "VpcSecurityGroupId"),
                           Of("vpc_security_groups", "IpPermissions")},
                          "NO_PUBLIC_INGRESS", {}),
                  <<Each("vpc_security_groups")>>),
         Read("RDS.SUBNET_GROUP", DBInstance, {Field("db_subnet_group", "VpcId")}),
         File("RDS.IAC_SECURITY_GROUP_INGRESS", DBInstance)},
        {"RDS.SECURITY_GROUP_INGRESS"})

RDSEncryptionAtRest ==
    Available({DBInstance},
        {Planned(Decided("RDS.STORAGE_ENCRYPTED", DBInstance,
                         {Field("db_instance", "StorageEncrypted")}, "ALL_TRUE", {}),
                 {<<"aws_db_instance", <<Step("storage_encrypted")>>>>}),
         File("RDS.IAC_STORAGE_ENCRYPTED", DBInstance)},
        {"RDS.STORAGE_ENCRYPTED"})

RDSLogExports ==
    Available({DBInstance},
        {Planned(Decided("RDS.LOG_EXPORTS", DBInstance,
                         {Field("db_instance", "EnabledCloudwatchLogsExports")},
                         "NON_EMPTY", {}),
                 {<<"aws_db_instance", <<Step("enabled_cloudwatch_logs_exports")>>>>}),
         File("RDS.IAC_LOG_EXPORTS", DBInstance)},
        {"RDS.LOG_EXPORTS"})

ALBHttpsOnly ==
    Available({LoadBalancer},
        {Planned(JudgedBy(Decided("ALB.LISTENER_PROTOCOL", LoadBalancer,
                                  {Of("listeners", "ListenerArn"), Of("listeners", "Protocol")},
                                  "NONE_EQUAL", {"HTTP"}),
                          Of("listeners", "Protocol")),
                 {<<listener, <<Step("protocol")>>>> :
                     listener \in {"aws_lb_listener", "aws_alb_listener"}}),
         File("ALB.IAC_LISTENER_PROTOCOL", LoadBalancer)},
        {"ALB.LISTENER_PROTOCOL"})

ALBAccessLogging ==
    Available({LoadBalancer},
        {Planned(Decided("ALB.ACCESS_LOGS", LoadBalancer,
                         {Field("load_balancer_attributes", "access_logs.s3.enabled")},
                         "ALL_EQUAL", {"true"}),
                 {<<balancer, Of("access_logs", "enabled")>> :
                     balancer \in {"aws_lb", "aws_alb"}}),
         File("ALB.IAC_ACCESS_LOGS", LoadBalancer)},
        {"ALB.ACCESS_LOGS"})

-----------------------------------------------------------------------------

\* Organisational controls, and technical ones without evidence as yet.
OrganizationalControl == Unevidenced("MANUAL", {}, {"MANUAL"})
NotYetSupportedControl == Unevidenced("MANUAL", {}, {"MANUAL"})

MVPControlCatalog ==
    [S3_BLOCK_PUBLIC_ACCESS      |-> S3BlockPublicAccess,
     S3_ENCRYPTION_AT_REST       |-> S3EncryptionAtRest,
     S3_BUCKET_POLICY_RESTRICTED |-> S3BucketPolicyRestricted,
     S3_BUCKET_ACL_DISABLED      |-> S3BucketAclDisabled,
     S3_TLS_ONLY                 |-> S3TlsOnly,
     S3_SERVER_ACCESS_LOGGING    |-> S3ServerAccessLogging,
     EC2_NO_PUBLIC_IP            |-> EC2NoPublicIp,
     EC2_EBS_ENCRYPTION          |-> EC2EbsEncryption,
     EC2_SG_INGRESS_RESTRICTED   |-> EC2SgIngressRestricted,
     EC2_SNAPSHOT_NOT_PUBLIC     |-> EC2SnapshotNotPublic,
     RDS_NOT_PUBLIC              |-> RDSNotPublic,
     RDS_ACCESS_RESTRICTED       |-> RDSAccessRestricted,
     RDS_ENCRYPTION_AT_REST      |-> RDSEncryptionAtRest,
     RDS_LOG_EXPORTS             |-> RDSLogExports,
     ALB_HTTPS_ONLY              |-> ALBHttpsOnly,
     ALB_ACCESS_LOGGING          |-> ALBAccessLogging,
     ORGANIZATIONAL_CONTROL_MANUAL_REVIEW |-> OrganizationalControl,
     TECHNICAL_CONTROL_NOT_YET_SUPPORTED  |-> NotYetSupportedControl]

\* The controls that the Rules written before there was a catalog implement.
LegacyRuleControlKeys ==
    ("S3-PUBLIC-001"            :> "S3_BLOCK_PUBLIC_ACCESS")
    @@ ("S3-ENCRYPT-001"        :> "S3_ENCRYPTION_AT_REST")
    @@ ("S3-POLICY-001"         :> "S3_BUCKET_POLICY_RESTRICTED")
    @@ ("S3-ACL-001"            :> "S3_BUCKET_ACL_DISABLED")
    @@ ("S3-TLS-001"            :> "S3_TLS_ONLY")
    @@ ("S3-LOGGING-001"        :> "S3_SERVER_ACCESS_LOGGING")
    @@ ("EC2-PUBLIC-IP-001"     :> "EC2_NO_PUBLIC_IP")
    @@ ("EC2-EBS-ENCRYPT-001"   :> "EC2_EBS_ENCRYPTION")
    @@ ("EC2-SG-INGRESS-001"    :> "EC2_SG_INGRESS_RESTRICTED")
    @@ ("EC2-SNAPSHOT-PUBLIC-001" :> "EC2_SNAPSHOT_NOT_PUBLIC")
    @@ ("RDS-PUBLIC-001"        :> "RDS_NOT_PUBLIC")
    @@ ("RDS-ACCESS-001"        :> "RDS_ACCESS_RESTRICTED")
    @@ ("RDS-ENCRYPT-001"       :> "RDS_ENCRYPTION_AT_REST")
    @@ ("RDS-LOGGING-001"       :> "RDS_LOG_EXPORTS")
    @@ ("ALB-HTTPS-001"         :> "ALB_HTTPS_ONLY")
    @@ ("ALB-LOGGING-001"       :> "ALB_ACCESS_LOGGING")

-----------------------------------------------------------------------------
\* What the views of the adapters carry: for each name the fields that are
\* copied, none for an object that is taken as it is.

BucketView ==
    [public_access_block |-> {}, encryption |-> {}, policy |-> {},
     bucket_policy |-> {"present", "document"},
     ownership_controls |-> {"ObjectOwnership", "configured"},
     logging |-> {"enabled", "target_bucket", "target_prefix"}]

InstanceView ==
    [instance |-> {"InstanceId", "State", "SubnetId", "VpcId", "PublicIpAddress",
                   "PublicDnsName"},
     network_interfaces |-> {"NetworkInterfaceId", "SubnetId", "Association"},
     volumes |-> {"VolumeId", "Encrypted", "KmsKeyId"},
     security_groups |-> {"GroupId", "GroupName", "VpcId", "IpPermissions"},
     subnet |-> {"SubnetId", "VpcId", "MapPublicIpOnLaunch"}]

DatabaseView ==
    [db_instance |-> {"DBInstanceIdentifier", "DBInstanceStatus", "Engine",
                      "PubliclyAccessible", "StorageEncrypted", "KmsKeyId",
                      "IAMDatabaseAuthenticationEnabled", "EnabledCloudwatchLogsExports"},
     db_subnet_group |-> {"DBSubnetGroupName", "VpcId", "SubnetGroupStatus"},
     vpc_security_groups |-> {"VpcSecurityGroupId", "Status", "GroupId", "GroupName",
                              "VpcId", "IpPermissions"}]

BalancerView ==
    [load_balancer |-> {"LoadBalancerArn", "LoadBalancerName", "Type", "Scheme", "State",
                        "VpcId"},
     listeners |-> {"ListenerArn", "Port", "Protocol", "SslPolicy", "Certificates"},
     load_balancer_attributes |-> {"access_logs.s3.enabled", "access_logs.s3.bucket",
                                   "access_logs.s3.prefix"}]

ViewOf ==
    (S3Bucket :> BucketView) @@ (Instance :> InstanceView)
        @@ (DBInstance :> DatabaseView) @@ (LoadBalancer :> BalancerView)

IsCarried(path, view) ==
    /\ path[2].key \in DOMAIN view
    /\ Len(path) > 2 /\ view[path[2].key] # {} => path[3].key \in view[path[2].key]

\* A path that no view carries would be reported as missing evidence whatever
\* the account looks like (tests/unit/test_governance_control_catalog.py:3-6).
ASSUME EveryPathIsCarried ==
    \A key \in DOMAIN MVPControlCatalog :
        \A c \in MVPControlCatalog[key].capabilities :
            c.perspective = "AWS_ACTUAL" =>
                \A path \in c.paths : IsCarried(path, ViewOf[c.type])

\* The attribute that names a resource as findings do, by Terraform type.
ResourceIdentityAttributes ==
    [type \in {"aws_s3_bucket", "aws_s3_bucket_acl", "aws_s3_bucket_logging",
               "aws_s3_bucket_ownership_controls", "aws_s3_bucket_policy",
               "aws_s3_bucket_public_access_block",
               "aws_s3_bucket_server_side_encryption_configuration",
               "aws_s3_bucket_versioning"} |-> "bucket"]
    @@ ("aws_instance" :> "id") @@ ("aws_db_instance" :> "identifier")
    @@ ("aws_lb" :> "arn") @@ ("aws_alb" :> "arn")
    @@ ("aws_lb_listener" :> "load_balancer_arn")
    @@ ("aws_alb_listener" :> "load_balancer_arn")

\* What a capability is decided from in a plan names the resource it is about.
ASSUME EveryPlaceIsMapped ==
    \A key \in DOMAIN MVPControlCatalog :
        \A c \in MVPControlCatalog[key].capabilities :
            \A place \in c.plan : place[1] \in DOMAIN ResourceIdentityAttributes
===============================================================================

-------------------------- MODULE MCEvidenceReading --------------------------
(* A small account: a bucket with a required and an optional setting, two    *)
(* instances, two databases that share a group, an application balancer with *)
(* two listeners and a network balancer; pages of one item, at most two      *)
(* pages (a third database exceeds them), a repository with a commit that is *)
(* too large to read and two that are not, and a task about a queue, a kind  *)
(* of resource that has no adapter.                                          *)
EXTENDS EvidenceReading, TLC

MCKindOf ==
    ("bucket1" :> "bucket") @@ ("vm1" :> "instance") @@ ("vm2" :> "instance")
        @@ ("db1" :> "database") @@ ("db2" :> "database")
        @@ ("db3" :> "database")
        @@ ("nlb" :> "balancer") @@ ("alb" :> "balancer")

MCResources == <<"bucket1", "vm1", "vm2", "db1", "db2", "db3", "nlb", "alb">>

MCParts == <<"block", "policy", "volume", "group", "http", "https">>

MCClassOf ==
    ("block" :> "required") @@ ("policy" :> "optional") @@ ("volume" :> "named")
        @@ ("group" :> "named") @@ ("http" :> "listener") @@ ("https" :> "listener")

MCPartsOf ==
    ("bucket1" :> {"block", "policy"}) @@ ("vm1" :> {"volume", "group"})
        @@ ("vm2" :> {"group"}) @@ ("db1" :> {"group"}) @@ ("db2" :> {"group"})
        @@ ("db3" :> {}) @@ ("nlb" :> {}) @@ ("alb" :> {"http", "https"})

MCSizes ==
    ("large" :> <<1, 2>>) @@ ("c1" :> <<1, 1>>) @@ ("c2" :> <<2>>)

MCCommits == DOMAIN MCSizes

MCAccounts == {ToSet(MCResources) \ {"db3"}, ToSet(MCResources) \ {"db1", "vm2", "nlb"}}

MCWorks == <<"bucket1", "db1", "alb">>

MCRereadable == <<"bucket", "instance", "database", "balancer", "queue">>
=============================================================================

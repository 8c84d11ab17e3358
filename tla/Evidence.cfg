SPECIFICATION Spec
CONSTANTS
    Kinds = {"bucket", "instance", "database", "balancer"}
    Resources <- MCResources
    KindOf <- MCKindOf
    Network = {"nlb"}
    Parts <- MCParts
    ClassOf <- MCClassOf
    PartsOf <- MCPartsOf
    Commits <- MCCommits
    Sizes <- MCSizes
    DocumentLimit = 2
    PageSize = 1
    MaxPages = 2
    Accounts <- MCAccounts
    Works <- MCWorks
    Rereadable <- MCRereadable
    Targets = {"branch", "c1"}
    Branch = "branch"
    MaxChanges = 2
    MaxReadings = 1
    None = None
INVARIANTS ViewsAreWitnessed ListsAreComplete DocumentsAreOfOneCommit
CHECK_DEADLOCK FALSE

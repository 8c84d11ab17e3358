SPECIFICATION FairSpec
CONSTANTS
    AutomaticRules = {rule}
    ManualOnlyRules = {}
    NoResource = NoResource
    NoException = NoException
    NoCode = NoCode
    NoVerdict = NoVerdict
    NoLink = NoLink
    Remediations = {r1}
    Workers = {w1, w2}
    Document <- MCDocument
    Proposals <- MCProposals
    MaxReceives = 3
    NoFact = NoFact
    SyncTarget = SyncTarget
INVARIANTS PullsAreWholePatches DeployedCommitIsStoredPatch
PROPERTIES EventuallyAnswered
CHECK_DEADLOCK FALSE

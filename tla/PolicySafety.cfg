SPECIFICATION Spec
CONSTANTS
    Catalog <- MVPControlCatalog
    Units <- MCUnits
    UnitsPerChunk = 2
    ChunkOverlap = 1
    Replies <- MCReplies
    MaxRequirements = 3
    NoControl = NoControl
    NoType = NoType
    Documents = {d1}
    Clients = {c1, c2}
    Workers = {w1}
    MaxReceives = 2
    NoItem = NoItem
    Profiles = {p1}
    Versions = {v1, v2}
INVARIANTS PolicyTypeOK RegisteredRulesAreExecutable ApprovalIsTheRegistry ProfilesHoldApprovedRules
PROPERTIES OfferedIsTheCompleteRun PublicationsDoNotOverwrite
SYMMETRY MCSymmetry
CHECK_DEADLOCK FALSE

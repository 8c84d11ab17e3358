CONSTANTS
    NoLink = NoLink
    NoHash = NoHash
    Workers = {w1}
    Completers = {c1}
    Runs = {r1}
    Hashes = {ready}
    ReadyPlans = {ready}
    AssessmentIds = {a1}
    NullAttribute = TRUE
    MaxSerial = 1
SPECIFICATION Spec
INVARIANTS
    ConflictHasWinner
CHECK_DEADLOCK FALSE

CONSTANTS
    NoLink = NoLink
    NoHash = NoHash
    Workers = {w1, w2}
    Completers = {c1}
    Runs = {r1, r2}
    Hashes = {ready}
    ReadyPlans = {ready}
    AssessmentIds = {a1}
    NullAttribute = FALSE
    MaxSerial = 1
    MaxReceive = 2
    MaxAttempts = 2
    MaxFaults = 1
SPECIFICATION FairSpec
PROPERTIES
    SuccessIsConfirmed
    ReservedIsAccounted
CHECK_DEADLOCK FALSE

CONSTANTS
    NoLink = NoLink
    NoHash = NoHash
    Workers = {w1, w2}
    Completers = {c1}
    Runs = {r1, r2}
    Hashes = {ready, blocked}
    ReadyPlans = {ready}
    AssessmentIds = {a1, a2}
    NullAttribute = FALSE
    MaxSerial = 2
SPECIFICATION Spec
SYMMETRY Symmetry
INVARIANTS
    TypeOK
    RunsAreApproved
    AppliedAtMostOnce
    VerifiedRunsSucceeded
    VerificationIsLinked
PROPERTIES
    RejectionIsFinal
    FactsAreWriteOnce
    StatusNeverRegresses
    ImplementsGate
CHECK_DEADLOCK FALSE

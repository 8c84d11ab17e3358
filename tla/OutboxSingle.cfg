CONSTANTS
    Dispatchers = {d1, d2}
    Messages = {m1, m2}
    MaxRevision = 0
    MaxReceive = 2
SPECIFICATION FairSpec
INVARIANTS
    TypeOK
    UnsentIsRecoverable
    NoSilentLoss
PROPERTIES
    EventuallyDispatched
    EventuallySettled
CHECK_DEADLOCK FALSE

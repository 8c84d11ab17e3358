CONSTANTS
    Dispatchers = {d1, d2}
    Messages = {m1}
    MaxRevision = 1
    MaxReceive = 1
SPECIFICATION Spec
INVARIANTS
    UnsentIsRecoverable
CHECK_DEADLOCK FALSE

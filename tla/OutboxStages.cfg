CONSTANTS
    Dispatchers = {d1, d2}
    Messages = {m1, m2}
    MaxRevision = 1
    MaxReceive = 2
SPECIFICATION Spec
SYMMETRY Symmetry
PROPERTIES
    AcceptedInOrder
CHECK_DEADLOCK FALSE

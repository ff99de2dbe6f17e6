SPECIFICATION Spec
CONSTANTS
    k = k
    s1 = s1
    s2 = s2
    Keys <- MCKeys
    Sessions <- MCSessions
    Requests <- MCRequests
    MAX_REQUEST_SESSIONS = 1
    MAX_APPLICATION_GROUP = 3
    MaxSlot = 4
INVARIANTS
    GroupingIsInvisible
    ExactlyOnce
    RetriesAreStable
    OptimisticIsolation
CHECK_DEADLOCK FALSE

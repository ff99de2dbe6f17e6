SPECIFICATION Spec
CONSTANTS
    N = 2
    Operator = 2
    None = None
    c1 = c1
    k = k
    Clients <- MCClients
    Keys <- MCKeys
    Bodies <- MCBodies
    MAX_CONNECTIONS = 2
    CHUNK = 2
    WINDOW = 3
    MAX_REQUEST_SESSIONS = 1
    MaxSlot = 3
    MaxSequence = 2
    MaxAttempts = 4
INVARIANTS
    ResultsAreTrue
    WritesInOrder
    SlotsBackConnections
CHECK_DEADLOCK FALSE

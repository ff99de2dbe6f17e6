SPECIFICATION Spec
CONSTANTS
    N = 3
    Reader = 1
    ReadQuorum = 2
    WriteQuorum = 2
    c1 = c1
    c2 = c2
    Clients <- MCClients
    Skips <- NoSkips
    MaxSlot = 1
    MaxToken = 2
    MAX_QUEUED_FRAMES = 1
    MaxFaults = 1
INVARIANTS
    FrontierBoundsMembers
    CohortHasMembers
PROPERTY ReadsAreFresh
SYMMETRY MCSymmetry

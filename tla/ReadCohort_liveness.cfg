SPECIFICATION FairSpec
CONSTANTS
    N = 3
    Reader = 1
    ReadQuorum = 3
    WriteQuorum = 1
    c1 = c1
    c2 = c2
    Clients <- MCOneClient
    Skips <- MCSkips
    MaxSlot = 1
    MaxToken = 2
    MAX_QUEUED_FRAMES = 1
    MaxFaults = 1
PROPERTY
    CohortsEnd

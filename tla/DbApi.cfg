SPECIFICATION MCSpec
CONSTANTS
    c1 = c1
    c2 = c2
    Conns <- MCConns
    Names = {s1}
    None = None
    NoRead = NoRead
    MAX_STATEMENTS = 2
    MaxNew <- MCNew
    MaxOps <- MCOps
    MaxSavepoints <- MCSavepoints
    Modes <- MCModes
    MaxEpoch = 1
    MaxSession <- MCSession
    MaxText = 4
    Followers <- MCFollowers
INVARIANTS
    SavepointsNest
    FatesAreTrue
    HistoryExplained
    BodiesSplitBack
CHECK_DEADLOCK FALSE

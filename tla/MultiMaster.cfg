SPECIFICATION Spec
CONSTANTS
    N = 3
    a = a
    Noop = noop
    None = none
    Slots <- MCSlots
    Values <- MCValues
    Ballots <- MCBallots
    ReadQuorum = 2
    WriteQuorum = 2
    GROUP_MESSAGES = 2
INVARIANTS
    Agreement
    DurableDecisionsRestOnDurableVotes
    ReleasedIsDurable
PROPERTY JournalNeverForgets
CHECK_DEADLOCK FALSE

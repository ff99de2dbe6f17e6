SPECIFICATION FairSpec
CONSTANTS
    Skips <- MCSkips
    WINDOW = 2
    MAX_STEP_BATCH = 2
    QUEUE_LIMIT = 1
    GROUP_MESSAGES = 1
    TRANSITION_MESSAGES = 1
    GROUP_REQUESTS = 1
    MAX_MEMBERS = 1
    GROUP_RECORDS = 2
    TRANSITION_RECORDS = 2
    MaxSlot = 2
    MaxSeq = 3
INVARIANTS
    TypeOK
    SentIsDurable
    ApplicationBehindJournal
    AcknowledgedSurvives
    GroupFits
    EntriesContinueApplication
PROPERTIES
    StagedPacketsSettle
    RecoveryCompletes

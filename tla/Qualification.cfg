SPECIFICATION LiveSpec
CONSTANTS
    None = None
    Ops = 2
    MaxExtra = 1
    MaxAuto = 1
INVARIANTS
    NoFalseAlarm
    RecordsAreTrue
    NothingLeftRunning
PROPERTY CampaignsEnd
CHECK_DEADLOCK FALSE

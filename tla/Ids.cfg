SPECIFICATION Spec
CONSTANTS
    Members <- MCMembers
    NODE_IDS = 3
    BLOCK = 2
    MS_LIMIT = 3
    MaxIssued = 6
INVARIANTS
    TypeOK
    IdsIncrease
    IdsDistinctAcrossNodes

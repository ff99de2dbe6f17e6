SPECIFICATION Spec
CONSTANT MaxStarts = 3
INVARIANT DirectoryIsExclusive
PROPERTY VotersExpire
CHECK_DEADLOCK FALSE

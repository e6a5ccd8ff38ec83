CONSTANTS
    Transfer = {t1}
    Length = 2
    Claim = {2}
    Existing = {}
    MaxName = 1
SPECIFICATION Spec
INVARIANT CompletedIsWhole
CHECK_DEADLOCK FALSE

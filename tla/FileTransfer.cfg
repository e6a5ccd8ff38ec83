CONSTANTS
    Transfer = {t1, t2}
    Length = 1
    Claim = {0, 1, 2}
    Existing = {}
    MaxName = 1
SPECIFICATION FairSpec
INVARIANTS
    TypeOK
    OneOwner
    WholeWhenUndisturbed
    ProgressSettles
PROPERTIES
    KeptFilesStay
    KeptMatchesHash
    TransfersEnd
CHECK_DEADLOCK FALSE

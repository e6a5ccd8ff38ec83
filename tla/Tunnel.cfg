SPECIFICATION FairSpec
CONSTANTS
    MaxTries = 2
    MaxUp = 2
    MaxHead = 2
    MaxDown = 1
INVARIANTS TypeOK OneTarget ServedIsConnected ClosedWithReason
PROPERTIES IsTwoPipes CloseSpreads SentArrives
CHECK_DEADLOCK FALSE

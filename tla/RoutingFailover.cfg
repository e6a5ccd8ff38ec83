CONSTANTS
    NodeId = {1, 2}
    Me = 1
    Dialable = {1, 2}
    Request = {r1, r2}
    MaxTries = 3
SPECIFICATION CalmSpec
INVARIANT AllAvailableFailed
CHECK_DEADLOCK FALSE

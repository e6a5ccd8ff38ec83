CONSTANTS
    NodeId = {1, 2}
    Me = 1
    Dialable = {1, 2}
    Request = {r1}
    MaxTries = 2
    HasApi = {2}
    MaxFlips = 1
SPECIFICATION FairPoolSpec
PROPERTIES RoutingHolds HealthHolds RequestsSettle PoolConverges

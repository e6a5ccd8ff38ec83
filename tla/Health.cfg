CONSTANTS
    NodeId = {me, n1, n2}
    Me = me
    HasApi = {n1}
    MaxFlips = 1
SPECIFICATION FairSpec
INVARIANTS TypeOK OnlineIsAdvertised
PROPERTIES RemoteConverges SelfConverges AdvertiseConverges

CONSTANTS
    NodeId = {1, 2, 3}
    Me = 2
    Dialable = {1, 2, 3}
    Request = {r1, r2}
    MaxTries = 3
SPECIFICATION Spec
SYMMETRY RequestSymmetry
INVARIANTS
    TypeOK
    ExhaustiveFailover
    EarlyGiveUp
    EvenLoad
PROPERTY BalancesLoad

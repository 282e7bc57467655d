SPECIFICATION Spec
CONSTANTS
    Workers = {w1, w2}
    Callers = {c1, c2}
    Main = main
    Addresses = {a1, a2, t}
    Treasury = t
    NoAddress = none
    Nobody = nobody
    MaxRequests = 3
    MaxTip = 2
SYMMETRY Symmetry
INVARIANTS
    TypeOK
    LiveWorkersExact
    CountedBlocksPayAddress
    ActiveReplyNamesAddress
    EveryThreadOwned
    NoMiningAfterFree
PROPERTY OneAddressAtATime
CHECK_DEADLOCK FALSE

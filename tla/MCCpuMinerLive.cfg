SPECIFICATION FairSpec
CONSTANTS
    Workers = {w1, w2}
    Callers = {c1, c2}
    Main = main
    Addresses = {a1, t}
    Treasury = t
    NoAddress = none
    Nobody = nobody
    MaxRequests = 2
    MaxTip = 1
PROPERTIES
    RequestsReturn
    StaleWorkDropped
    WorkersEnd
CHECK_DEADLOCK FALSE

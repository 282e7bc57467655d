SPECIFICATION Spec
CONSTANTS
    Workers = {w1}
    Callers = {c1}
    Main = main
    Addresses = {a1, t}
    Treasury = t
    NoAddress = none
    Nobody = nobody
    MaxRequests = 1
    MaxTip = 1
INVARIANT WorkersFinishBeforeFree
CHECK_DEADLOCK FALSE

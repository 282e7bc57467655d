SPECIFICATION Spec
CONSTANTS
    Interval = 2
    Initial = 20
    Width = 5
    Percent = 10
    MAX_MONEY = 80
    Miner = miner
    Treasury = treasury
    None = none
    MaxHeight = 11
    Values = {0, 1, 2, 9}
    MaxFees = 1
INVARIANTS
    SupplyWithinLimit
    TemplatesAccepted
    PoolsServed
CHECK_DEADLOCK FALSE

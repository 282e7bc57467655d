SPECIFICATION FairSpec
CONSTANTS
  g = g
  a1 = a1
  a2 = a2
  a3 = a3
  a4 = a4
  b2 = b2
  b3 = b3
  None = None
  Blocks <- MCBlocks
  Genesis = g
  Parent <- MCParent
  Work <- MCWork
  Txs <- MCTxs
  Batch = 2
  Window = 2
  Maturity = 2
  MaxReorgs = 2
  MaxFaults = 1
INVARIANTS
  IndexMatchesBranch
  FiguresOfOneBranch
  FiguresOfTip
  ListingIsChain
PROPERTY
  CatchesUp

SPECIFICATION Spec
CONSTANTS
  u1 = u1
  u2 = u2
  Updaters <- TwoUpdaters
  None = None
  MaxVersion = 2
  MaxFaults = 2
  MaxSignals = 1
  MaxKills = 1
SYMMETRY Symmetry
INVARIANTS
  WholeInstallation
  ServiceAsFound
  ReleasesKept
PROPERTY
  SwapWhileStopped

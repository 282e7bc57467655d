SPECIFICATION Spec
CONSTANTS
  u1 = u1
  u2 = u2
  Updaters <- TwoUpdaters
  None = None
  MaxVersion = 2
  MaxFaults = 0
  MaxSignals = 0
  MaxKills = 0
SYMMETRY Symmetry
INVARIANT
  NoDowngrade

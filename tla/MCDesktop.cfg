SPECIFICATION DesktopSpec
CONSTANTS
  Apps = {a1, a2}
  Nodes = {n1, n2}
  Nobody = Nobody
  MaxAttempts = 2
SYMMETRY Symmetry
INVARIANTS
  RecordedNodeFound
  HandoverExclusive
  DesktopAfterUpdate
  InstallWhole
PROPERTIES
  StoppedByOwner
  NodeKeepsOwner
  ReplacedAfterExit

SPECIFICATION Spec
CONSTANTS
  w1 = w1
  w2 = w2
  c1 = c1
  c2 = c2
  Wallets <- TwoWallets
  Clicks <- OneClick
  Patient = TRUE
  NoWallet = NoWallet
  NoTx = NoTx
  Missing = Missing
  Damaged = Damaged
  Opener = Opener
  Locker = Locker
  MaxPayments = 2
  MaxSaveFailures = 1
  MaxDamage = 1
INVARIANTS
  OnlyApprovedOffered
  RecordSurvivesRestart
PROPERTY
  NoSecondPayment
SYMMETRY Symmetry
CHECK_DEADLOCK FALSE

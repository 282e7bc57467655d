SPECIFICATION Spec
CONSTANTS
  w1 = w1
  w2 = w2
  c1 = c1
  c2 = c2
  Wallets <- OneWallet
  Clicks <- TwoClicks
  Patient = FALSE
  NoWallet = NoWallet
  NoTx = NoTx
  Missing = Missing
  Damaged = Damaged
  Opener = Opener
  Locker = Locker
  MaxPayments = 2
  MaxSaveFailures = 0
  MaxDamage = 0
INVARIANT
  LostResponseSurvivesRestart

SPECIFICATION Spec
CONSTANTS
    Wallets = {w1, w2}
    NoWallet = nowallet
    NoTx = notx
    Damaged = damaged
    MaxPayments = 2
SYMMETRY Symmetry
INVARIANTS
    UnsettledOnRecord
    MemoryMatchesRecord
    OnlyApprovedOffered
PROPERTIES
    RecordKeptUntilAccepted
    NoSecondPayment

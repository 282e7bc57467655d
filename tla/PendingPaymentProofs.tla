------------------------ MODULE PendingPaymentProofs ------------------------
(***************************************************************************)
(* Proofs that an approved payment stays on record until the node has it,  *)
(* and that PendingPayment implements PaymentPromise, for any wallets and  *)
(* any number of payments.                                                 *)
(***************************************************************************)
EXTENDS PendingPayment, TLAPS

(* What each await knows.  Past CloseCurrentWallet payments are blocked;   *)
(* a new payment is prepared only with none pending; the rest is a payment *)
(* of the open wallet.                                                     *)
AwaitInv ==
    /\ pc \in {"close", "open"} =>
          opening \in Wallets /\ pending = NoTx /\ paymentBlocked
    /\ pc = "open" => walletName = NoWallet
    /\ pc \in {"prepare", "confirm"} =>
          walletName \in Wallets /\ pending = NoTx /\ ~paymentBlocked
    /\ pc = "confirm" => prepared \in Txs /\ Payer[prepared] = walletName
    /\ pc \in {"check", "retry", "relay", "sent", "verify"} =>
          walletName \in Wallets

(* Records and the window's transaction were approved and belong to the    *)
(* wallet they are kept for.                                               *)
OriginInv ==
    /\ \A w \in Wallets : file[w] \in Txs => file[w] \in approved /\ Payer[file[w]] = w
    /\ pending # NoTx => pending \in approved
    /\ pending # NoTx /\ walletName # NoWallet => Payer[pending] = walletName

(* The node only has what it was offered.                                  *)
NodeInv == transit \subseteq offered /\ accepted \subseteq offered /\ known \subseteq accepted

(* A wallet has at most one unsettled transaction, and with one in memory  *)
(* it is that one.                                                         *)
OneUnsettled ==
    /\ \A t, u \in offered \ accepted : Payer[t] = Payer[u] => t = u
    /\ pending # NoTx /\ walletName # NoWallet =>
          \A t \in offered \ accepted : Payer[t] = walletName => t = pending

IInv ==
    /\ TypeOK /\ AwaitInv /\ OriginInv /\ NodeInv /\ OnlyApprovedOffered
    /\ MemoryMatchesRecord /\ UnsettledOnRecord /\ OneUnsettled

USE PaymentAssumption
USE DEF app, node, past

-----------------------------------------------------------------------------

(* A transaction belongs to the wallet that signed it and is no marker.    *)
LEMMA TxFacts ==
  /\ NoTx \notin Txs /\ Damaged \notin Txs
  /\ \A t \in Txs : Payer[t] \in Wallets
  /\ \A w \in Wallets, n \in 1..MaxPayments : <<w, n>> \in Txs /\ Payer[<<w, n>>] = w
BY DEF Txs, Payer

(* The window starts with no record and nothing offered.                   *)
LEMMA InitIInv == Init => IInv
BY TxFacts DEF Init, Fresh, IInv, TypeOK, Awaits, AwaitInv, OriginInv, NodeInv, OnlyApprovedOffered,
       MemoryMatchesRecord, UnsettledOnRecord, OneUnsettled

-----------------------------------------------------------------------------
(* Steps that move the window from one await to another.                   *)

(* The part of the invariant that such a step cannot disturb.              *)
LEMMA RecordsKept ==
  ASSUME IInv, UNCHANGED <<file, walletName, pending, paymentBlocked, node, past>>
  PROVE  /\ OriginInv' /\ NodeInv' /\ OnlyApprovedOffered'
         /\ MemoryMatchesRecord' /\ UnsettledOnRecord' /\ OneUnsettled'
BY DEF IInv, OriginInv, NodeInv, OnlyApprovedOffered, MemoryMatchesRecord, UnsettledOnRecord,
       OneUnsettled

(* A pending payment is looked up first.                                   *)
LEMMA SendPendingStep ==
  ASSUME IInv, SendPending
  PROVE  IInv'
<1>1. TypeOK'
  BY TxFacts DEF IInv, TypeOK, Awaits, AwaitInv, SendPending, MayPay
<1>2. AwaitInv'
  BY TxFacts DEF IInv, TypeOK, AwaitInv, SendPending, MayPay
<1> QED
  BY <1>1, <1>2, RecordsKept DEF IInv, SendPending

(* A new payment starts with none pending.                                 *)
LEMMA NewPaymentStep ==
  ASSUME IInv, NewPayment
  PROVE  IInv'
<1>1. TypeOK'
  BY TxFacts DEF IInv, TypeOK, Awaits, AwaitInv, NewPayment, MayPay
<1>2. AwaitInv'
  BY TxFacts DEF IInv, TypeOK, AwaitInv, NewPayment, MayPay
<1> QED
  BY <1>1, <1>2, RecordsKept DEF IInv, NewPayment

(* The wallet signs a transaction of its own.                              *)
LEMMA PreparedStep ==
  ASSUME IInv, Prepared
  PROVE  IInv'
<1>1. TypeOK'
  BY TxFacts DEF IInv, TypeOK, Awaits, AwaitInv, Prepared
<1>2. AwaitInv'
  BY TxFacts DEF IInv, TypeOK, AwaitInv, Prepared
<1> QED
  BY <1>1, <1>2, RecordsKept DEF IInv, Prepared

(* A dialog is cancelled or a step before the approval throws.             *)
LEMMA AbandonStep ==
  ASSUME IInv, Abandon
  PROVE  IInv'
<1>1. TypeOK'
  BY TxFacts DEF IInv, TypeOK, Awaits, AwaitInv, Abandon
<1>2. AwaitInv'
  BY TxFacts DEF IInv, TypeOK, AwaitInv, Abandon
<1> QED
  BY <1>1, <1>2, RecordsKept DEF IInv, Abandon

(* The user retries the recorded transaction.                              *)
LEMMA RetryStep ==
  ASSUME IInv, Retry
  PROVE  IInv'
<1>1. TypeOK'
  BY TxFacts DEF IInv, TypeOK, Awaits, AwaitInv, Retry
<1>2. AwaitInv'
  BY TxFacts DEF IInv, TypeOK, AwaitInv, Retry
<1> QED
  BY <1>1, <1>2, RecordsKept DEF IInv, Retry

(* The call to the node fails.                                             *)
LEMMA RelayFailsStep ==
  ASSUME IInv, RelayFails
  PROVE  IInv'
<1>1. TypeOK'
  BY TxFacts DEF IInv, TypeOK, Awaits, AwaitInv, RelayFails
<1>2. AwaitInv'
  BY TxFacts DEF IInv, TypeOK, AwaitInv, RelayFails
<1> QED
  BY <1>1, <1>2, RecordsKept DEF IInv, RelayFails

(* The node's wallet does not know the transaction.                        *)
LEMMA NotFoundStep ==
  ASSUME IInv, NotFound
  PROVE  IInv'
<1>1. TypeOK'
  BY TxFacts DEF IInv, TypeOK, Awaits, AwaitInv, NotFound
<1>2. AwaitInv'
  BY TxFacts DEF IInv, TypeOK, AwaitInv, NotFound
<1> QED
  BY <1>1, <1>2, RecordsKept DEF IInv, NotFound

(* Asking the node's wallet fails.                                         *)
LEMMA LookupFailsStep ==
  ASSUME IInv, LookupFails
  PROVE  IInv'
<1>1. TypeOK'
  BY TxFacts DEF IInv, TypeOK, Awaits, AwaitInv, LookupFails
<1>2. AwaitInv'
  BY TxFacts DEF IInv, TypeOK, AwaitInv, LookupFails
<1> QED
  BY <1>1, <1>2, RecordsKept DEF IInv, LookupFails

(* The app starts again.                                                   *)
LEMMA RestartStep ==
  ASSUME IInv, Restart
  PROVE  IInv'
<1>1. TypeOK'
  BY TxFacts DEF IInv, TypeOK, Awaits, AwaitInv, Restart
<1>2. AwaitInv'
  BY TxFacts DEF IInv, TypeOK, AwaitInv, Restart
<1> QED
  BY <1>1, <1>2, RecordsKept DEF IInv, Restart

-----------------------------------------------------------------------------
(* Steps that change the record, the window's copy of it or the node.      *)

(* Closing forgets the window's copy and blocks payments.                  *)
LEMMA CloseCurrentWalletStep ==
  ASSUME IInv, NEW w \in Wallets, CloseCurrentWallet(w)
  PROVE  IInv'
<1>1. TypeOK'
  BY TxFacts DEF IInv, AwaitInv, TypeOK, Awaits, CloseCurrentWallet, Forget
<1>2. AwaitInv' /\ NodeInv'
  BY TxFacts DEF IInv, TypeOK, AwaitInv, NodeInv, CloseCurrentWallet, Forget
<1>3. OriginInv' /\ OnlyApprovedOffered'
  BY TxFacts DEF IInv, TypeOK, AwaitInv, OriginInv, NodeInv, OnlyApprovedOffered,
         CloseCurrentWallet, Forget
<1>4. MemoryMatchesRecord'
  BY TxFacts DEF IInv, TypeOK, AwaitInv, OriginInv, MemoryMatchesRecord, CloseCurrentWallet, Forget
<1>5. UnsettledOnRecord' /\ OneUnsettled'
  BY TxFacts DEF IInv, TypeOK, AwaitInv, OriginInv, NodeInv, MemoryMatchesRecord,
         UnsettledOnRecord, OneUnsettled, CloseCurrentWallet, Forget
<1> QED
  BY <1>1, <1>2, <1>3, <1>4, <1>5 DEF IInv

(* The old wallet is closed, or stays open and blocked.                    *)
LEMMA CloseAnswersStep ==
  ASSUME IInv, NEW ok \in BOOLEAN, CloseAnswers(ok)
  PROVE  IInv'
<1>1. TypeOK'
  BY TxFacts DEF IInv, AwaitInv, TypeOK, Awaits, CloseAnswers
<1>2. AwaitInv' /\ NodeInv'
  BY TxFacts DEF IInv, TypeOK, AwaitInv, NodeInv, CloseAnswers
<1>3. OriginInv' /\ OnlyApprovedOffered'
  BY TxFacts DEF IInv, TypeOK, AwaitInv, OriginInv, NodeInv, OnlyApprovedOffered, CloseAnswers
<1>4. MemoryMatchesRecord'
  BY TxFacts DEF IInv, TypeOK, AwaitInv, OriginInv, MemoryMatchesRecord, CloseAnswers
<1>5. UnsettledOnRecord' /\ OneUnsettled'
  BY TxFacts DEF IInv, TypeOK, AwaitInv, OriginInv, NodeInv, MemoryMatchesRecord,
         UnsettledOnRecord, OneUnsettled, CloseAnswers
<1> QED
  BY <1>1, <1>2, <1>3, <1>4, <1>5 DEF IInv

(* The opened wallet's record is loaded, or payments stay blocked.         *)
LEMMA OpenAnswersStep ==
  ASSUME IInv, NEW result, OpenAnswers(result)
  PROVE  IInv'
<1>1. TypeOK'
  BY TxFacts, Zenon DEF IInv, AwaitInv, TypeOK, Awaits, OpenAnswers, LoadPending
<1>2. AwaitInv' /\ NodeInv'
  BY TxFacts DEF IInv, TypeOK, AwaitInv, NodeInv, OpenAnswers, LoadPending
<1>3. OriginInv' /\ OnlyApprovedOffered'
  <2>1. OriginInv'
    <3>a. opening \in Wallets /\ pending = NoTx /\ UNCHANGED <<file, approved>>
      BY DEF IInv, AwaitInv, OpenAnswers, past
    <3>b. CASE result = "opened"
      <4>1. pending' # NoTx => pending' = file[opening] /\ file[opening] \in Txs
        BY <3>a, <3>b DEF IInv, TypeOK, OpenAnswers, LoadPending
      <4>2. walletName' = opening
        BY <3>b DEF OpenAnswers
      <4> QED BY <3>a, <4>1, <4>2 DEF IInv, OriginInv
    <3>c. CASE result # "opened"
      <4>1. pending' = NoTx
        BY <3>a, <3>c DEF OpenAnswers
      <4> QED BY <3>a, <4>1 DEF IInv, OriginInv
    <3> QED BY <3>b, <3>c
  <2>2. OnlyApprovedOffered'
    BY DEF IInv, OnlyApprovedOffered, OpenAnswers
  <2> QED BY <2>1, <2>2
<1>4. MemoryMatchesRecord'
  BY TxFacts, Zenon DEF IInv, TypeOK, AwaitInv, OriginInv, MemoryMatchesRecord, OpenAnswers, LoadPending
<1>5. UnsettledOnRecord' /\ OneUnsettled'
  BY TxFacts, Zenon DEF IInv, TypeOK, AwaitInv, OriginInv, NodeInv, MemoryMatchesRecord,
         UnsettledOnRecord, OneUnsettled, OpenAnswers, LoadPending
<1> QED
  BY <1>1, <1>2, <1>3, <1>4, <1>5 DEF IInv

(* A failed update leaves no wallet open.                                  *)
LEMMA UpdateFailedStep ==
  ASSUME IInv, UpdateFailed
  PROVE  IInv'
<1>1. TypeOK'
  BY TxFacts DEF IInv, AwaitInv, TypeOK, Awaits, UpdateFailed
<1>2. AwaitInv' /\ NodeInv'
  BY TxFacts DEF IInv, TypeOK, AwaitInv, NodeInv, UpdateFailed
<1>3. OriginInv' /\ OnlyApprovedOffered'
  BY TxFacts DEF IInv, TypeOK, AwaitInv, OriginInv, NodeInv, OnlyApprovedOffered, UpdateFailed
<1>4. MemoryMatchesRecord'
  BY TxFacts DEF IInv, TypeOK, AwaitInv, OriginInv, MemoryMatchesRecord, UpdateFailed
<1>5. UnsettledOnRecord' /\ OneUnsettled'
  BY TxFacts DEF IInv, TypeOK, AwaitInv, OriginInv, NodeInv, MemoryMatchesRecord,
         UnsettledOnRecord, OneUnsettled, UpdateFailed
<1> QED
  BY <1>1, <1>2, <1>3, <1>4, <1>5 DEF IInv

(* The approved transaction is recorded where there was no record.         *)
LEMMA RememberApprovedPaymentStep ==
  ASSUME IInv, RememberApprovedPayment
  PROVE  IInv'
<1>1. TypeOK'
  BY TxFacts DEF IInv, AwaitInv, TypeOK, Awaits, RememberApprovedPayment
<1>2. AwaitInv' /\ NodeInv'
  BY TxFacts DEF IInv, TypeOK, AwaitInv, NodeInv, RememberApprovedPayment
<1>3. OriginInv' /\ OnlyApprovedOffered'
  BY TxFacts DEF IInv, TypeOK, AwaitInv, OriginInv, NodeInv, OnlyApprovedOffered,
         RememberApprovedPayment
<1>4. MemoryMatchesRecord'
  BY TxFacts DEF IInv, TypeOK, AwaitInv, OriginInv, MemoryMatchesRecord, RememberApprovedPayment
<1>5. UnsettledOnRecord' /\ OneUnsettled'
  BY TxFacts DEF IInv, TypeOK, AwaitInv, OriginInv, NodeInv, MemoryMatchesRecord,
         UnsettledOnRecord, OneUnsettled, RememberApprovedPayment
<1> QED
  BY <1>1, <1>2, <1>3, <1>4, <1>5 DEF IInv

(* Writing the record fails and payments are blocked.                      *)
LEMMA RememberFailsStep ==
  ASSUME IInv, RememberFails
  PROVE  IInv'
<1>1. TypeOK'
  BY TxFacts DEF IInv, AwaitInv, TypeOK, Awaits, RememberFails
<1>2. AwaitInv' /\ NodeInv'
  BY TxFacts DEF IInv, TypeOK, AwaitInv, NodeInv, RememberFails
<1>3. OriginInv' /\ OnlyApprovedOffered'
  BY TxFacts DEF IInv, TypeOK, AwaitInv, OriginInv, NodeInv, OnlyApprovedOffered, RememberFails
<1>4. MemoryMatchesRecord'
  BY TxFacts DEF IInv, TypeOK, AwaitInv, OriginInv, MemoryMatchesRecord, RememberFails
<1>5. UnsettledOnRecord' /\ OneUnsettled'
  BY TxFacts DEF IInv, TypeOK, AwaitInv, OriginInv, NodeInv, MemoryMatchesRecord,
         UnsettledOnRecord, OneUnsettled, RememberFails
<1> QED
  BY <1>1, <1>2, <1>3, <1>4, <1>5 DEF IInv

(* The recorded transaction is offered to the node.                        *)
LEMMA RelayStep ==
  ASSUME IInv, Relay
  PROVE  IInv'
<1>1. TypeOK'
  BY TxFacts DEF IInv, AwaitInv, TypeOK, Awaits, Relay
<1>2. AwaitInv' /\ NodeInv'
  BY TxFacts DEF IInv, TypeOK, AwaitInv, NodeInv, Relay
<1>3. OriginInv' /\ OnlyApprovedOffered'
  BY TxFacts DEF IInv, TypeOK, AwaitInv, OriginInv, NodeInv, OnlyApprovedOffered, Relay
<1>4. MemoryMatchesRecord'
  BY TxFacts DEF IInv, TypeOK, AwaitInv, OriginInv, MemoryMatchesRecord, Relay
<1>5. UnsettledOnRecord' /\ OneUnsettled'
  BY TxFacts DEF IInv, TypeOK, AwaitInv, OriginInv, NodeInv, MemoryMatchesRecord,
         UnsettledOnRecord, OneUnsettled, Relay
<1> QED
  BY <1>1, <1>2, <1>3, <1>4, <1>5 DEF IInv

(* The node accepted it: the record goes, or stays with the copy.          *)
LEMMA RelayAcceptedStep ==
  ASSUME IInv, RelayAccepted
  PROVE  IInv'
<1>1. TypeOK'
  BY TxFacts, Zenon DEF IInv, AwaitInv, TypeOK, Awaits, RelayAccepted, DeletePending
<1>2. AwaitInv' /\ NodeInv'
  BY TxFacts DEF IInv, TypeOK, AwaitInv, NodeInv, RelayAccepted, DeletePending
<1>3. OriginInv' /\ OnlyApprovedOffered'
  BY TxFacts DEF IInv, TypeOK, AwaitInv, OriginInv, NodeInv, OnlyApprovedOffered, RelayAccepted,
         DeletePending
<1>4. MemoryMatchesRecord'
  BY TxFacts DEF IInv, TypeOK, AwaitInv, OriginInv, MemoryMatchesRecord, RelayAccepted,
         DeletePending
<1>5. UnsettledOnRecord' /\ OneUnsettled'
  BY TxFacts DEF IInv, TypeOK, AwaitInv, OriginInv, NodeInv, MemoryMatchesRecord,
         UnsettledOnRecord, OneUnsettled, RelayAccepted, DeletePending
<1> QED
  BY <1>1, <1>2, <1>3, <1>4, <1>5 DEF IInv

(* The node's wallet knows it: the record goes, or stays with the copy.    *)
LEMMA FoundStep ==
  ASSUME IInv, Found
  PROVE  IInv'
<1>1. TypeOK'
  BY TxFacts, Zenon DEF IInv, AwaitInv, TypeOK, Awaits, Found, DeletePending
<1>2. AwaitInv' /\ NodeInv'
  BY TxFacts DEF IInv, TypeOK, AwaitInv, NodeInv, Found, DeletePending
<1>3. OriginInv' /\ OnlyApprovedOffered'
  BY TxFacts DEF IInv, TypeOK, AwaitInv, OriginInv, NodeInv, OnlyApprovedOffered, Found,
         DeletePending
<1>4. MemoryMatchesRecord'
  BY TxFacts DEF IInv, TypeOK, AwaitInv, OriginInv, MemoryMatchesRecord, Found, DeletePending
<1>5. UnsettledOnRecord' /\ OneUnsettled'
  BY TxFacts DEF IInv, TypeOK, AwaitInv, OriginInv, NodeInv, MemoryMatchesRecord,
         UnsettledOnRecord, OneUnsettled, Found, DeletePending
<1> QED
  BY <1>1, <1>2, <1>3, <1>4, <1>5 DEF IInv

(* The app dies; records and node are as they were.                        *)
LEMMA CrashStep ==
  ASSUME IInv, Crash
  PROVE  IInv'
<1>1. TypeOK'
  BY TxFacts DEF IInv, AwaitInv, TypeOK, Awaits, Crash, Forget
<1>2. AwaitInv' /\ NodeInv'
  BY TxFacts DEF IInv, TypeOK, AwaitInv, NodeInv, Crash, Forget
<1>3. OriginInv' /\ OnlyApprovedOffered'
  BY TxFacts DEF IInv, TypeOK, AwaitInv, OriginInv, NodeInv, OnlyApprovedOffered, Crash, Forget
<1>4. MemoryMatchesRecord'
  BY TxFacts DEF IInv, TypeOK, AwaitInv, OriginInv, MemoryMatchesRecord, Crash, Forget
<1>5. UnsettledOnRecord' /\ OneUnsettled'
  BY TxFacts DEF IInv, TypeOK, AwaitInv, OriginInv, NodeInv, MemoryMatchesRecord,
         UnsettledOnRecord, OneUnsettled, Crash, Forget
<1> QED
  BY <1>1, <1>2, <1>3, <1>4, <1>5 DEF IInv

(* The node accepts a transaction it was offered.                          *)
LEMMA AcceptStep ==
  ASSUME IInv, NEW t \in Txs, Accept(t)
  PROVE  IInv'
<1>1. TypeOK'
  BY TxFacts DEF IInv, AwaitInv, TypeOK, Awaits, Accept
<1>2. AwaitInv' /\ NodeInv'
  BY TxFacts DEF IInv, TypeOK, AwaitInv, NodeInv, Accept
<1>3. OriginInv' /\ OnlyApprovedOffered'
  BY TxFacts DEF IInv, TypeOK, AwaitInv, OriginInv, NodeInv, OnlyApprovedOffered, Accept
<1>4. MemoryMatchesRecord'
  BY TxFacts DEF IInv, TypeOK, AwaitInv, OriginInv, MemoryMatchesRecord, Accept
<1>5. UnsettledOnRecord' /\ OneUnsettled'
  BY TxFacts DEF IInv, TypeOK, AwaitInv, OriginInv, NodeInv, MemoryMatchesRecord,
         UnsettledOnRecord, OneUnsettled, Accept
<1> QED
  BY <1>1, <1>2, <1>3, <1>4, <1>5 DEF IInv

(* A call is lost or refused.                                              *)
LEMMA RefuseStep ==
  ASSUME IInv, NEW t \in Txs, Refuse(t)
  PROVE  IInv'
<1>1. TypeOK'
  BY TxFacts DEF IInv, AwaitInv, TypeOK, Awaits, Refuse
<1>2. AwaitInv' /\ NodeInv'
  BY TxFacts DEF IInv, TypeOK, AwaitInv, NodeInv, Refuse
<1>3. OriginInv' /\ OnlyApprovedOffered'
  BY TxFacts DEF IInv, TypeOK, AwaitInv, OriginInv, NodeInv, OnlyApprovedOffered, Refuse
<1>4. MemoryMatchesRecord'
  BY TxFacts DEF IInv, TypeOK, AwaitInv, OriginInv, MemoryMatchesRecord, Refuse
<1>5. UnsettledOnRecord' /\ OneUnsettled'
  BY TxFacts DEF IInv, TypeOK, AwaitInv, OriginInv, NodeInv, MemoryMatchesRecord,
         UnsettledOnRecord, OneUnsettled, Refuse
<1> QED
  BY <1>1, <1>2, <1>3, <1>4, <1>5 DEF IInv

(* The node's wallet learns of an accepted transaction.                    *)
LEMMA WalletLearnsStep ==
  ASSUME IInv, NEW t \in Txs, WalletLearns(t)
  PROVE  IInv'
<1>1. TypeOK'
  BY TxFacts DEF IInv, AwaitInv, TypeOK, Awaits, WalletLearns
<1>2. AwaitInv' /\ NodeInv'
  BY TxFacts DEF IInv, TypeOK, AwaitInv, NodeInv, WalletLearns
<1>3. OriginInv' /\ OnlyApprovedOffered'
  BY TxFacts DEF IInv, TypeOK, AwaitInv, OriginInv, NodeInv, OnlyApprovedOffered, WalletLearns
<1>4. MemoryMatchesRecord'
  BY TxFacts DEF IInv, TypeOK, AwaitInv, OriginInv, MemoryMatchesRecord, WalletLearns
<1>5. UnsettledOnRecord' /\ OneUnsettled'
  BY TxFacts DEF IInv, TypeOK, AwaitInv, OriginInv, NodeInv, MemoryMatchesRecord,
         UnsettledOnRecord, OneUnsettled, WalletLearns
<1> QED
  BY <1>1, <1>2, <1>3, <1>4, <1>5 DEF IInv

(* A record becomes unreadable.                                            *)
LEMMA DamageStep ==
  ASSUME IInv, NEW w \in Wallets, Damage(w)
  PROVE  IInv'
<1>1. TypeOK'
  BY TxFacts DEF IInv, AwaitInv, TypeOK, Awaits, Damage
<1>2. AwaitInv' /\ NodeInv'
  BY TxFacts DEF IInv, TypeOK, AwaitInv, NodeInv, Damage
<1>3. OriginInv' /\ OnlyApprovedOffered'
  BY TxFacts DEF IInv, TypeOK, AwaitInv, OriginInv, NodeInv, OnlyApprovedOffered, Damage
<1>4. MemoryMatchesRecord'
  BY TxFacts DEF IInv, TypeOK, AwaitInv, OriginInv, MemoryMatchesRecord, Damage
<1>5. UnsettledOnRecord' /\ OneUnsettled'
  BY TxFacts DEF IInv, TypeOK, AwaitInv, OriginInv, NodeInv, MemoryMatchesRecord,
         UnsettledOnRecord, OneUnsettled, Damage
<1> QED
  BY <1>1, <1>2, <1>3, <1>4, <1>5 DEF IInv

-----------------------------------------------------------------------------

(* Every step of the window, the process, the node or the disk keeps IInv. *)
LEMMA NextIInv == IInv /\ [Next]_vars => IInv'
<1> SUFFICES ASSUME IInv, [Next]_vars PROVE IInv'
  OBVIOUS
<1>1. CASE UNCHANGED vars
  BY <1>1 DEF vars, IInv, TypeOK, AwaitInv, OriginInv, NodeInv, OnlyApprovedOffered,
       MemoryMatchesRecord, UnsettledOnRecord, OneUnsettled
<1>2. CASE WindowStep
  BY <1>2, SendPendingStep, NewPaymentStep, PreparedStep, AbandonStep, RetryStep, RelayFailsStep,
     NotFoundStep, LookupFailsStep, RestartStep, CloseCurrentWalletStep, CloseAnswersStep,
     OpenAnswersStep, UpdateFailedStep, RememberApprovedPaymentStep, RememberFailsStep, RelayStep,
     RelayAcceptedStep, FoundStep DEF WindowStep
<1>3. CASE Crash \/ Restart
  BY <1>3, CrashStep, RestartStep
<1>4. CASE \E t \in Txs : Accept(t) \/ Refuse(t) \/ WalletLearns(t)
  BY <1>4, AcceptStep, RefuseStep, WalletLearnsStep
<1>5. CASE \E w \in Wallets : Damage(w)
  BY <1>5, DamageStep
<1> QED
  BY <1>1, <1>2, <1>3, <1>4, <1>5 DEF Next

(* The inductive invariant holds in every reachable state.                 *)
THEOREM Invariance == Spec => []IInv
BY InitIInv, NextIInv, PTL DEF Spec

(* The fields of the window keep their types: past the approval there is a *)
(* transaction to send (RelayPendingPayment never throws for lack of one). *)
THEOREM TypeCorrect == Spec => []TypeOK
<1>1. IInv => TypeOK
  BY DEF IInv
<1> QED
  BY <1>1, Invariance, PTL

(* Whatever crashes, times out or fails, a transaction handed to the node  *)
(* and not accepted is in its wallet's record (RememberApprovedPayment).   *)
THEOREM StaysOnRecord == Spec => []UnsettledOnRecord
<1>1. IInv => UnsettledOnRecord
  BY DEF IInv
<1> QED
  BY <1>1, Invariance, PTL

(* The window's copy is what LoadPending would read after a restart.       *)
THEOREM CopyIsCurrent == Spec => []MemoryMatchesRecord
<1>1. IInv => MemoryMatchesRecord
  BY DEF IInv
<1> QED
  BY <1>1, Invariance, PTL

(* Only transactions the user confirmed are given to sendrawtransaction.   *)
THEOREM ApprovedOnly == Spec => []OnlyApprovedOffered
<1>1. IInv => OnlyApprovedOffered
  BY DEF IInv
<1> QED
  BY <1>1, Invariance, PTL

(* DeletePending removes a readable record only when the node has its      *)
(* transaction.                                                            *)
THEOREM RecordsKeptUntilAccepted == Spec => RecordKeptUntilAccepted
<1> DEFINE Kept == \A w \in Wallets : file[w] \in Txs /\ file'[w] = NoTx => file[w] \in accepted
<1>1. IInv /\ [Next]_vars => [Kept]_vars
  <2> SUFFICES ASSUME IInv, Next, NEW w \in Wallets, file[w] \in Txs, file'[w] = NoTx
               PROVE  file[w] \in accepted
    BY DEF Kept
  <2>1. CASE RelayAccepted \/ Found
    BY <2>1, TxFacts DEF IInv, TypeOK, AwaitInv, NodeInv, MemoryMatchesRecord, RelayAccepted, Found,
           DeletePending
  <2>2. CASE RememberApprovedPayment
    BY <2>2, TxFacts DEF IInv, TypeOK, AwaitInv, RememberApprovedPayment
  <2>3. CASE \E v \in Wallets : Damage(v)
    BY <2>3, TxFacts DEF IInv, TypeOK, Damage
  <2>4. file' # file
    BY TxFacts
  <2>5. CASE WindowStep /\ ~(RelayAccepted \/ Found) /\ ~RememberApprovedPayment
    BY <2>4, <2>5, Zenon DEF WindowStep, CloseCurrentWallet, CloseAnswers, OpenAnswers, UpdateFailed,
           SendPending, NewPayment, Prepared, Abandon, RememberFails, Retry, Relay, RelayFails,
           NotFound, LookupFails
  <2>6. CASE Crash \/ Restart \/ \E t \in Txs : Accept(t) \/ Refuse(t) \/ WalletLearns(t)
    BY <2>4, <2>6, Zenon DEF Crash, Restart, Accept, Refuse, WalletLearns
  <2> QED
    BY <2>1, <2>2, <2>3, <2>5, <2>6 DEF Next
<1> QED
  BY <1>1, Invariance, PTL DEF Spec, RecordKeptUntilAccepted

-----------------------------------------------------------------------------
(* Refinement.                                                             *)

(* The only step that offers a transaction is Relay, and then every other  *)
(* transaction the open wallet ever offered was accepted.                  *)
LEMMA RelayOffers ==
  ASSUME IInv, Relay
  PROVE  pending \in Txs /\ Promise!Offer(pending)
BY TxFacts DEF IInv, TypeOK, AwaitInv, OriginInv, OneUnsettled, Relay, Promise!Offer

(* PendingPayment implements PaymentPromise.                               *)
THEOREM ImplementsPromise == Spec => NoSecondPayment
<1>1. Init => Promise!Init
  BY DEF Init, Promise!Init
<1>2. IInv /\ [Next]_vars
        => [\E t \in Txs : Promise!Offer(t) \/ Promise!Accept(t)]_<<offered, accepted>>
  <2> SUFFICES ASSUME IInv, [Next]_vars, <<offered, accepted>>' # <<offered, accepted>>
               PROVE  \E t \in Txs : Promise!Offer(t) \/ Promise!Accept(t)
    OBVIOUS
  <2>1. CASE Relay
    BY <2>1, RelayOffers
  <2>2. CASE \E t \in Txs : Accept(t)
    BY <2>2 DEF IInv, NodeInv, Accept, Promise!Accept
  <2>3. CASE WindowStep /\ ~Relay
    BY <2>3, Zenon DEF WindowStep, CloseCurrentWallet, CloseAnswers, OpenAnswers, UpdateFailed,
           SendPending, NewPayment, Prepared, Abandon, RememberApprovedPayment, RememberFails,
           Retry, RelayAccepted, RelayFails, Found, NotFound, LookupFails, DeletePending
  <2>4. CASE UNCHANGED vars \/ Crash \/ Restart \/ \E t \in Txs : Refuse(t) \/ WalletLearns(t)
    BY <2>4 DEF vars, Crash, Restart, Refuse, WalletLearns
  <2>5. CASE \E w \in Wallets : Damage(w)
    BY <2>5 DEF Damage
  <2> QED
    BY <2>1, <2>2, <2>3, <2>4, <2>5 DEF Next
<1> QED
  BY <1>1, <1>2, Invariance, PTL DEF Spec, NoSecondPayment, Promise!Spec
=============================================================================

--------------------------- MODULE PendingPayment ---------------------------
(***************************************************************************)
(* Sending from the Linux wallet (Desktop/Slithy.Linux/MainWindow.cs and   *)
(* MainWindow.Wallet.cs, with RelayTransferAsync and HasTransactionAsync   *)
(* of WalletRpcClient.cs).  An approved transaction is written to a record *)
(* file of its wallet before it is handed to the local node; the record is *)
(* deleted when the node is known to have it, and until then the app only  *)
(* retries the same bytes.  Every await is a point where the app may crash *)
(* and where the node, which runs on, may finish a call whose answer the   *)
(* app has given up on.                                                    *)
(***************************************************************************)
EXTENDS Naturals

CONSTANTS
    Wallets,       \* wallet names
    NoWallet,      \* _walletName == ""
    NoTx,          \* _pending == null; no record file
    Damaged,       \* a record file that ReadPendingPayment refuses
    MaxPayments    \* bound: transactions each wallet prepares

ASSUME PaymentAssumption ==
    /\ NoWallet \notin Wallets
    /\ MaxPayments \in Nat
    /\ NoTx # Damaged
    /\ \A w \in Wallets, n \in 1..MaxPayments : <<w, n>> \notin {NoTx, Damaged}

VARIABLES
    file,            \* the record under PendingPath, for each wallet name
    walletName,      \* _walletName
    pending,         \* _pending
    paymentBlocked,  \* _paymentBlocked
    pc,              \* the await the window is in, "idle", or "off"
    opening,         \* the wallet RunWalletAction is about to open
    prepared,        \* the PreparedTransfer shown for approval
    made,            \* how many transactions each wallet has signed
    transit,         \* sendrawtransaction calls the node has not finished
    accepted,        \* transactions in the node's mempool or chain
    known,           \* transactions the node's wallet has been told of
    approved,        \* history: the user pressed "Send payment"
    offered          \* history: handed to sendrawtransaction at least once

app  == <<walletName, pending, paymentBlocked, pc, opening, prepared>>
node == <<transit, accepted, known>>
past == <<approved, offered>>
vars == <<file, app, made, node, past>>

(* A signed transaction: the n-th one its wallet prepared.                 *)
Txs == Wallets \X (1..MaxPayments)
Payer == [t \in Txs |-> t[1]]

(* The window's fields start with no wallet and payments blocked.          *)
Fresh ==
    /\ walletName = NoWallet
    /\ pending = NoTx
    /\ paymentBlocked = TRUE
    /\ opening = NoWallet
    /\ prepared = NoTx

Init ==
    /\ Fresh
    /\ pc = "idle"
    /\ file = [w \in Wallets |-> NoTx]
    /\ made = [w \in Wallets |-> 0]
    /\ transit = {} /\ accepted = {} /\ known = {}
    /\ approved = {} /\ offered = {}

-----------------------------------------------------------------------------
(* Opening a wallet: RunWalletAction and RestoreFile.                      *)

(* The fields CloseCurrentWallet and LoadPending reset first.              *)
Forget == pending' = NoTx /\ paymentBlocked' = TRUE

(* CloseCurrentWallet up to its first await; nothing to close with no      *)
(* wallet open.                                                            *)
CloseCurrentWallet(w) ==
    /\ pc = "idle"
    /\ Forget
    /\ opening' = w
    /\ pc' = IF walletName = NoWallet THEN "open" ELSE "close"
    /\ UNCHANGED <<file, walletName, prepared, made, node, past>>

(* Locking the old wallet answers, or throws and leaves it the open one.   *)
CloseAnswers(ok) ==
    /\ pc = "close"
    /\ IF ok THEN /\ walletName' = NoWallet /\ pc' = "open"
                  /\ UNCHANGED opening
             ELSE /\ pc' = "idle" /\ opening' = NoWallet
                  /\ UNCHANGED walletName
    /\ UNCHANGED <<file, pending, paymentBlocked, prepared, made, node, past>>

(* Fault: a record that cannot be read is taken for no record.             *)
LoadPendingTolerant(w) ==
    /\ pending' = IF file[w] = Damaged THEN NoTx ELSE file[w]
    /\ paymentBlocked' = FALSE

(* LoadPending of wallet w: blocked unless the record is absent or sound.  *)
LoadPending(w) ==
    /\ pending' = IF file[w] = Damaged THEN NoTx ELSE file[w]
    /\ paymentBlocked' = (file[w] = Damaged)

(* Creating, restoring or opening the wallet throws (result "refused"),    *)
(* or it succeeds and then saving the settings throws before LoadPending   *)
(* ("unsaved") or not ("opened").                                          *)
OpenAnswers(result) ==
    /\ pc = "open"
    /\ pc' = "idle" /\ opening' = NoWallet
    /\ walletName' = IF result = "refused" THEN NoWallet ELSE opening
    /\ IF result = "opened" THEN LoadPending(opening)
                            ELSE UNCHANGED <<pending, paymentBlocked>>
    /\ UNCHANGED <<file, prepared, made, node, past>>

(* ReviewUpdate when the replacement did not start: the node was restarted *)
(* and no wallet is open.  It refuses to begin with a payment pending.     *)
UpdateFailed ==
    /\ pc = "idle" /\ pending = NoTx
    /\ walletName' = NoWallet
    /\ UNCHANGED <<file, pending, paymentBlocked, pc, opening, prepared, made, node, past>>

-----------------------------------------------------------------------------
(* Send and Consolidate.                                                   *)

MayPay == pc = "idle" /\ walletName # NoWallet /\ ~paymentBlocked

(* Send with a payment on record asks the node's wallet about it first.    *)
SendPending ==
    /\ MayPay /\ pending # NoTx
    /\ pc' = "check"
    /\ UNCHANGED <<file, walletName, pending, paymentBlocked, opening, prepared, made, node, past>>

(* Send or Consolidate with none: the dialogs, then unlock, fund, sign.    *)
NewPayment ==
    /\ MayPay /\ pending = NoTx
    /\ pc' = "prepare"
    /\ UNCHANGED <<file, walletName, pending, paymentBlocked, opening, prepared, made, node, past>>

(* Fault: the record is written before the user approves.                  *)
PreparedRecords ==
    /\ pc = "prepare" /\ made[walletName] < MaxPayments
    /\ made' = [made EXCEPT ![walletName] = @ + 1]
    /\ prepared' = <<walletName, made'[walletName]>>
    /\ file' = [file EXCEPT ![walletName] = prepared']
    /\ pc' = "confirm"
    /\ UNCHANGED <<walletName, pending, paymentBlocked, opening, node, past>>

(* Signing succeeds and the keys are locked again.                         *)
Prepared ==
    /\ pc = "prepare" /\ made[walletName] < MaxPayments
    /\ made' = [made EXCEPT ![walletName] = @ + 1]
    /\ prepared' = <<walletName, made'[walletName]>>
    /\ pc' = "confirm"
    /\ UNCHANGED <<file, walletName, pending, paymentBlocked, opening, node, past>>

(* A dialog is cancelled, a check throws, or the wallet lock throws: the   *)
(* signed transaction, if there is one, is dropped unseen by the network.  *)
Abandon ==
    /\ pc \in {"prepare", "confirm", "retry"}
    /\ pc' = "idle" /\ prepared' = NoTx
    /\ UNCHANGED <<file, walletName, pending, paymentBlocked, opening, made, node, past>>

(* Fault: the transaction is kept in memory only.                          *)
RememberInMemory ==
    /\ pc = "confirm"
    /\ pending' = prepared /\ prepared' = NoTx
    /\ approved' = approved \cup {prepared}
    /\ pc' = "relay"
    /\ UNCHANGED <<file, walletName, paymentBlocked, opening, made, node, offered>>

(* RememberApprovedPayment: blocked, record written, fields set, unblocked.*)
(* SavePending moves a finished file into place and never overwrites one.  *)
RememberApprovedPayment ==
    /\ pc = "confirm" /\ file[walletName] = NoTx
    /\ file' = [file EXCEPT ![walletName] = prepared]
    /\ pending' = prepared /\ prepared' = NoTx
    /\ approved' = approved \cup {prepared}
    /\ pc' = "relay"
    /\ UNCHANGED <<walletName, paymentBlocked, opening, made, node, offered>>


(* SavePending throws, nothing is written and payments stay blocked.       *)
RememberFails ==
    /\ pc = "confirm"
    /\ paymentBlocked' = TRUE
    /\ approved' = approved \cup {prepared}
    /\ prepared' = NoTx /\ pc' = "idle"
    /\ UNCHANGED <<file, walletName, pending, opening, made, node, offered>>

(* "Retry same transaction".                                               *)
Retry ==
    /\ pc = "retry" /\ pc' = "relay"
    /\ UNCHANGED <<file, walletName, pending, paymentBlocked, opening, prepared, made, node, past>>

(* RelayPendingPayment hands the recorded bytes to sendrawtransaction.     *)
Relay ==
    /\ pc = "relay"
    /\ offered' = offered \cup {pending}
    /\ transit' = transit \cup {pending}
    /\ pc' = "sent"
    /\ UNCHANGED <<file, walletName, pending, paymentBlocked, opening, prepared, made, accepted, known, approved>>

(* DeletePending: the file is deleted, then the fields are cleared; when   *)
(* the deletion throws both stay.                                          *)
DeletePending ==
    /\ pc' = "idle"
    /\ \/ /\ file' = [file EXCEPT ![walletName] = NoTx]
          /\ pending' = NoTx /\ paymentBlocked' = FALSE
       \/ UNCHANGED <<file, pending, paymentBlocked>>
    /\ UNCHANGED <<walletName, opening, prepared, made, node, past>>

(* RelayTransferAsync: the node answers with the transaction id.           *)
RelayAccepted == pc = "sent" /\ pending \in accepted /\ DeletePending

(* Fault: a failed call is taken for a refused transaction.                *)
RelayFailsForgets == pc = "sent" /\ DeletePending

(* RelayTransferAsync: the call fails or times out, whatever became of it. *)
RelayFails ==
    /\ pc = "sent" /\ pc' = "verify"
    /\ UNCHANGED <<file, walletName, pending, paymentBlocked, opening, prepared, made, node, past>>

(* HasTransactionAsync finds the transaction in the node's wallet.         *)
Found == pc \in {"check", "verify"} /\ pending \in known /\ DeletePending

(* It does not.  Send then offers the retry; RelayTransferAsync throws     *)
(* that the result is unknown.                                             *)
NotFound ==
    /\ pc \in {"check", "verify"} /\ pending \notin known
    /\ pc' = IF pc = "check" THEN "retry" ELSE "idle"
    /\ UNCHANGED <<file, walletName, pending, paymentBlocked, opening, prepared, made, node, past>>

(* The question itself fails: both callers throw.                          *)
LookupFails ==
    /\ pc \in {"check", "verify"} /\ pc' = "idle"
    /\ UNCHANGED <<file, walletName, pending, paymentBlocked, opening, prepared, made, node, past>>

-----------------------------------------------------------------------------
(* The app process and the node.                                           *)

(* The app dies at any await; only the record files and the node survive.  *)
Crash ==
    /\ pc # "off" /\ pc' = "off"
    /\ walletName' = NoWallet /\ opening' = NoWallet
    /\ Forget /\ prepared' = NoTx
    /\ UNCHANGED <<file, made, node, past>>

Restart ==
    /\ pc = "off" /\ pc' = "idle"
    /\ UNCHANGED <<file, walletName, pending, paymentBlocked, opening, prepared, made, node, past>>

(* The node finishes a call, perhaps long after the app stopped waiting.   *)
Accept(t) ==
    /\ t \in transit
    /\ accepted' = accepted \cup {t} /\ transit' = transit \ {t}
    /\ UNCHANGED <<file, app, made, known, past>>

(* The call is lost, or the node refuses it for now.                       *)
Refuse(t) ==
    /\ t \in transit /\ transit' = transit \ {t}
    /\ UNCHANGED <<file, app, made, accepted, known, past>>

(* The node's wallet learns of an accepted transaction asynchronously.     *)
WalletLearns(t) ==
    /\ t \in accepted \ known
    /\ known' = known \cup {t}
    /\ UNCHANGED <<file, app, made, transit, accepted, past>>

(* A record on disk becomes unreadable.                                    *)
Damage(w) ==
    /\ file[w] \in Txs
    /\ file' = [file EXCEPT ![w] = Damaged]
    /\ UNCHANGED <<app, made, node, past>>

WindowStep ==
    \/ \E w \in Wallets : CloseCurrentWallet(w)
    \/ \E ok \in BOOLEAN : CloseAnswers(ok)
    \/ \E result \in {"refused", "unsaved", "opened"} : OpenAnswers(result)
    \/ UpdateFailed \/ SendPending \/ NewPayment \/ Prepared \/ Abandon
    \/ RememberApprovedPayment \/ RememberFails \/ Retry \/ Relay
    \/ RelayAccepted \/ RelayFails \/ Found \/ NotFound \/ LookupFails

Next ==
    \/ WindowStep \/ Crash \/ Restart
    \/ \E t \in Txs : Accept(t) \/ Refuse(t) \/ WalletLearns(t)
    \/ \E w \in Wallets : Damage(w)

Spec == Init /\ [][Next]_vars

-----------------------------------------------------------------------------
(* Properties.                                                             *)

Awaits == {"off", "idle", "close", "open", "check", "retry", "prepare",
           "confirm", "relay", "sent", "verify"}

(* Types; the window is in the middle of a payment only with a wallet open *)
(* and, once past the approval, with a transaction to send.                *)
TypeOK ==
    /\ file \in [Wallets -> Txs \cup {NoTx, Damaged}]
    /\ walletName \in Wallets \cup {NoWallet}
    /\ pending \in Txs \cup {NoTx}
    /\ paymentBlocked \in BOOLEAN
    /\ pc \in Awaits
    /\ opening \in Wallets \cup {NoWallet}
    /\ prepared \in Txs \cup {NoTx}
    /\ made \in [Wallets -> 0..MaxPayments]
    /\ transit \subseteq Txs /\ accepted \subseteq Txs /\ known \subseteq Txs
    /\ approved \subseteq Txs /\ offered \subseteq Txs
    /\ pc = "confirm" => prepared \in Txs
    /\ pc \in {"check", "retry", "relay", "sent", "verify"} => pending \in Txs

(* A transaction that was handed to the node and that the node has not     *)
(* accepted is still in its wallet's record file, whatever crashed, timed  *)
(* out or failed since: RememberApprovedPayment's "Store the approved      *)
(* signed transaction before attempting the network call".                 *)
UnsettledOnRecord ==
    \A t \in offered \ accepted : file[Payer[t]] \in {t, Damaged}

(* What the window holds in memory for the open wallet is what a restart   *)
(* would read: a pending transaction is the recorded one, and payments are *)
(* unblocked with nothing pending only where there is no record.           *)
MemoryMatchesRecord ==
    walletName # NoWallet =>
        /\ pending # NoTx => file[walletName] \in {pending, Damaged}
        /\ pending = NoTx /\ ~paymentBlocked => file[walletName] = NoTx

(* Nothing reaches the network that the user did not approve in the        *)
(* confirmation dialog, retries after a restart included.                  *)
OnlyApprovedOffered == offered \subseteq approved

(* A record is deleted only when the node has the transaction in it: an    *)
(* approved payment is never dropped silently by DeletePending.            *)
RecordKeptUntilAccepted ==
    [][\A w \in Wallets :
          file[w] \in Txs /\ file'[w] = NoTx => file[w] \in accepted]_vars

(* "After a timeout, retry this transaction instead of creating a second   *)
(* payment": a second transaction of a wallet is offered only when all its *)
(* earlier ones were accepted.                                             *)
Promise == INSTANCE PaymentPromise
NoSecondPayment == Promise!Spec
=============================================================================

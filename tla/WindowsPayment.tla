--------------------------- MODULE WindowsPayment ---------------------------
(***************************************************************************)
(* Sending from the Windows wallet (Form1.cs, with RelayTransferAsync and   *)
(* HasTransactionAsync of WalletRpcClient.cs and the settings file of       *)
(* AppSettings.cs).  The approved transaction is one record among the       *)
(* settings: it lives in memory, in settings.json and, one generation late, *)
(* in settings.json.previous.  Several activations of sendButton_Click may  *)
(* be waiting for the node at once; a message box or dialog keeps the user  *)
(* from the buttons but not an answer from resuming its activation.         *)
(***************************************************************************)
EXTENDS Naturals

CONSTANTS
  Wallets,          \* wallet names
  NoWallet,         \* _openWalletName == ""
  NoTx,             \* PendingSendTransactionId == ""
  Missing, Damaged, \* a settings file that is not there, or cannot be read
  Clicks,           \* activations of sendButton_Click alive at once
  Opener, Locker,   \* the activations of ShowWalletAccessAsync and LockWalletAsync
  Patient,          \* the user presses Send and Wallet only when neither is at work
  MaxPayments,      \* bound: transactions each wallet prepares
  MaxSaveFailures,  \* bound: settings writes that fail
  MaxDamage         \* bound: settings files that become unreadable

ASSUME WindowsAssumption ==
  /\ NoWallet \notin Wallets /\ Opener # Locker /\ {Opener, Locker} \cap Clicks = {}
  /\ Patient \in BOOLEAN
  /\ MaxPayments \in Nat /\ MaxSaveFailures \in Nat /\ MaxDamage \in Nat

VARIABLES
  running,    \* the app is up
  mem,        \* the pending payment of _settings
  file,       \* settings.json
  previous,   \* settings.json.previous
  wallet,     \* _openWalletName
  busy,       \* _walletBusy: SetWalletBusy turned the wallet buttons off
  act,        \* the activations of the three handlers
  made,       \* how many transactions each wallet has signed
  transit,    \* sendrawtransaction calls the node has not finished
  accepted,   \* transactions in the node's mempool or chain
  known,      \* transactions the node's wallet has been told of
  approved,   \* history: confirmed by the user
  offered,    \* history: handed to sendrawtransaction at least once
  left        \* write failures and damage still allowed

node == <<transit, accepted, known>>
stored == <<file, previous>>
past == <<approved, offered>>
vars == <<running, mem, file, previous, wallet, busy, act, made, node, past, left>>

Txs == Wallets \X (1..MaxPayments)
Payer == [t \in Txs |-> t[1]]

(* PendingSendTransactionId with PendingSendWallet, the other fields being  *)
(* set and cleared with them.                                               *)
NoPending == [tx |-> NoTx, wallet |-> NoWallet]
Pending == [tx : Txs, wallet : Wallets \cup {NoWallet}] \cup {NoPending}

(* No transaction has the empty id, and a settings file that is missing or  *)
(* damaged is no settings.                                                  *)
ASSUME FileAssumption ==
  NoTx \notin Txs /\ Missing # Damaged /\ {Missing, Damaged} \cap Pending = {}

(* Where an activation waits, the transaction it waits about, and the       *)
(* wallet that was open when it began to wait.                              *)
Idle == [pc |-> "idle", tx |-> NoTx, wallet |-> NoWallet]
Activations == Clicks \cup {Opener, Locker}
Modal == {"retryBox", "dialog", "confirm"}

Init ==
  /\ running = TRUE /\ mem = NoPending /\ file = NoPending /\ previous = Missing
  /\ wallet = NoWallet /\ busy = FALSE
  /\ act = [c \in Activations |-> Idle]
  /\ made = [w \in Wallets |-> 0]
  /\ transit = {} /\ accepted = {} /\ known = {} /\ approved = {} /\ offered = {}
  /\ left = [save |-> MaxSaveFailures, damage |-> MaxDamage]

(* The user can press a button: no dialog is open and the form is not busy. *)
FormFree == running /\ ~busy /\ \A c \in Clicks : act[c].pc \notin Modal
PressFree == FormFree /\ (Patient => \A a \in Activations \ {Locker} : act[a] = Idle)

At(c, label) == running /\ act[c].pc = label
Become(c, label, tx) ==
  act' = [act EXCEPT ![c] = [pc |-> label, tx |-> tx, wallet |-> wallet]]

(* The activation ends, through the finally that enables the buttons.       *)
Return(c) == act' = [act EXCEPT ![c] = Idle] /\ busy' = FALSE

----------------------------------------------------------------------------
(* SettingsStore.                                                           *)

(* Save writes a complete temporary file and puts it in place; what was     *)
(* there becomes .previous.                                                 *)
SaveWorks(pending) ==
  /\ file' = pending
  /\ previous' = IF file = Missing THEN previous ELSE file
  /\ UNCHANGED left

SaveFails ==
  /\ left.save > 0 /\ left' = [left EXCEPT !.save = @ - 1]
  /\ UNCHANGED stored

Save(pending) == SaveWorks(pending) \/ SaveFails

(* Load reads settings.json; when that throws, .previous, and moves the     *)
(* damaged file aside; when that cannot be read either, the app does not    *)
(* start.  Without a settings file it starts with fresh settings.           *)
Loadable == file # Damaged \/ previous \notin {Missing, Damaged}
Load == CASE file = Missing -> NoPending
          [] file = Damaged -> previous
          [] file \in Pending -> file

----------------------------------------------------------------------------
(* The window.                                                              *)

(* ShowWalletAccessAsync: the dialog is answered and the buttons go off. *)
WalletButton ==
  /\ PressFree /\ wallet = NoWallet /\ act[Opener] = Idle
  /\ Become(Opener, "opening", NoTx) /\ busy' = TRUE
  /\ UNCHANGED <<running, mem, stored, wallet, made, node, past, left>>

(* The node has opened it: the choice is saved, and a payment pending for   *)
(* that wallet is asked about.                                              *)
OpenWallet(w) ==
  /\ At(Opener, "opening")
  /\ \/ /\ SaveWorks(mem) /\ wallet' = w
        /\ act' = [act EXCEPT ![Opener] = [pc |-> "opened", wallet |-> w,
                                 tx |-> IF mem.wallet = w THEN mem.tx ELSE NoTx]]
        /\ UNCHANGED busy
     \/ SaveFails /\ wallet' = NoWallet /\ Return(Opener)
  /\ UNCHANGED <<running, mem, made, node, past>>

(* It could not be opened: ClearWallet. *)
OpenFails ==
  /\ At(Opener, "opening")
  /\ wallet' = NoWallet /\ Return(Opener)
  /\ UNCHANGED <<running, mem, stored, made, node, past, left>>

(* LockWalletAsync, from its button or, under an open message box too, from *)
(* the inactivity timer.  It leaves the buttons enabled while it waits.     *)
LockWallet ==
  /\ running /\ wallet # NoWallet /\ act[Locker] = Idle
  /\ \/ FormFree
     \/ ~busy /\ act[Opener] = Idle /\ \A c \in Clicks : act[c].pc # "dialog"
  /\ Become(Locker, "locking", NoTx)
  /\ UNCHANGED <<running, mem, stored, wallet, busy, made, node, past, left>>

(* The node has locked and unloaded the wallet, or the call threw. *)
Locked ==
  /\ At(Locker, "locking")
  /\ wallet' \in {wallet, NoWallet}
  /\ act' = [act EXCEPT ![Locker] = Idle]
  /\ UNCHANGED <<running, mem, stored, busy, made, node, past, left>>

(* Any other setting is changed and saved, the pending payment with it. *)
SaveSettings ==
  /\ running /\ Save(mem)
  /\ UNCHANGED <<running, mem, wallet, busy, act, made, node, past>>

(* sendButton_Click.  With a payment pending for the open wallet the node's *)
(* wallet is asked about it, with the buttons still enabled; one of another *)
(* wallet ends the click with a message.  Else the send dialog opens.       *)
Click(c) ==
  /\ PressFree /\ wallet # NoWallet /\ act[c].pc = "idle"
  /\ CASE mem = NoPending -> Become(c, "dialog", NoTx) /\ UNCHANGED busy
       [] mem # NoPending /\ mem.wallet = wallet -> Become(c, "ask", mem.tx) /\ UNCHANGED busy
       [] mem # NoPending /\ mem.wallet # wallet -> Return(c)
  /\ UNCHANGED <<running, mem, stored, wallet, made, node, past, left>>

(* ClearPendingSend clears whatever payment is pending now, and saves. *)
ClearPendingSend == mem' = NoPending /\ Save(NoPending)

(* The answer for ShowWalletAccessAsync.  A question or save that throws    *)
(* leaves no wallet open.                                                   *)
OpenEnds ==
  LET t == act[Opener].tx IN
  /\ At(Opener, "opened") /\ Return(Opener)
  /\ \/ t \notin known /\ UNCHANGED <<mem, stored, wallet, left>>
     \/ t \in known /\ ClearPendingSend
          /\ wallet' = IF left' = left THEN wallet ELSE NoWallet
     \/ t # NoTx /\ wallet' = NoWallet /\ UNCHANGED <<mem, stored, left>>
  /\ UNCHANGED <<running, made, node, past>>

(* HasTransactionAsync answers that the wallet has the transaction asked    *)
(* about.  From the first question the click ends; from the one after the   *)
(* send dialog it goes on to prepare the new payment, unless the save threw.*)
Found(c) ==
  /\ act[c].pc \in {"ask", "reconcile"} /\ running /\ act[c].tx \in known
  /\ Payer[act[c].tx] = act[c].wallet
  /\ ClearPendingSend
  /\ IF act[c].pc = "ask" \/ left' # left
     THEN Return(c) ELSE Become(c, "prepare", NoTx) /\ UNCHANGED busy
  /\ UNCHANGED <<running, wallet, made, node, past>>

(* It has not.  The first question leads to the retry box if a payment of   *)
(* the open wallet is still pending; after the second the click goes on if  *)
(* another activation has cleared the record meanwhile.                     *)
NotFound(c) ==
  /\ act[c].pc \in {"ask", "reconcile"} /\ running
  /\ act[c].tx \notin known \/ Payer[act[c].tx] # act[c].wallet
  /\ \/ /\ act[c].pc = "ask" /\ mem # NoPending /\ mem.wallet = wallet
        /\ Become(c, "retryBox", NoTx) /\ UNCHANGED busy
     \/ /\ act[c].pc = "ask" /\ (mem = NoPending \/ mem.wallet # wallet)
        /\ Return(c)
     \/ /\ act[c].pc = "reconcile" /\ mem = NoPending
        /\ Become(c, "prepare", NoTx) /\ UNCHANGED busy
     \/ /\ act[c].pc = "reconcile" /\ mem # NoPending
        /\ Return(c)
  /\ UNCHANGED <<running, mem, stored, wallet, made, node, past, left>>

(* "Resubmit that same signed transaction?" Yes relays what is pending by   *)
(* then; with nothing pending the call fails.                               *)
RetryYes(c) ==
  /\ At(c, "retryBox")
  /\ IF mem = NoPending \/ wallet = NoWallet
     THEN Return(c) /\ UNCHANGED <<transit, offered>>
     ELSE /\ Become(c, "relay", mem.tx) /\ busy' = TRUE
          /\ transit' = transit \cup {mem.tx} /\ offered' = offered \cup {mem.tx}
  /\ UNCHANGED <<running, mem, stored, wallet, made, accepted, known, approved, left>>

(* The send dialog is accepted: the buttons go off, and a payment that is   *)
(* pending by now is asked about or refused.                                *)
DialogOk(c) ==
  /\ At(c, "dialog")
  /\ CASE mem = NoPending -> Become(c, "prepare", NoTx) /\ busy' = TRUE
       [] mem # NoPending /\ mem.wallet = wallet -> Become(c, "reconcile", mem.tx) /\ busy' = TRUE
       [] mem # NoPending /\ mem.wallet # wallet -> Return(c)
  /\ UNCHANGED <<running, mem, stored, wallet, made, node, past, left>>

DialogCancel(c) ==
  /\ At(c, "dialog")
  /\ act' = [act EXCEPT ![c] = Idle]
  /\ UNCHANGED <<running, mem, stored, wallet, busy, made, node, past, left>>

(* Fault: the payment is recorded before the user confirms it. *)
PreparedRecords(c) ==
  /\ At(c, "prepare") /\ wallet # NoWallet /\ wallet = act[c].wallet
  /\ made[wallet] < MaxPayments
  /\ made' = [made EXCEPT ![wallet] = @ + 1]
  /\ Become(c, "confirm", <<wallet, made'[wallet]>>)
  /\ mem' = [tx |-> <<wallet, made'[wallet]>>, wallet |-> wallet] /\ SaveWorks(mem')
  /\ UNCHANGED <<running, wallet, busy, node, past>>

(* PrepareTransferAsync funds and signs; EnsureSameWallet throws when       *)
(* another wallet is open by then.                                          *)
Prepared(c) ==
  /\ At(c, "prepare") /\ wallet # NoWallet /\ wallet = act[c].wallet
  /\ made[wallet] < MaxPayments
  /\ made' = [made EXCEPT ![wallet] = @ + 1]
  /\ Become(c, "confirm", <<wallet, made'[wallet]>>)
  /\ UNCHANGED <<running, mem, stored, wallet, busy, node, past, left>>

(* A check or call throws, a password or confirmation is refused, the retry *)
(* box is answered No, or the question to the node fails.                   *)
Abandon(c) ==
  /\ running /\ act[c].pc \in {"ask", "reconcile", "retryBox", "prepare", "confirm"}
  /\ Return(c)
  /\ UNCHANGED <<running, mem, stored, wallet, made, node, past, left>>

(* Fault: the transaction is relayed although its record was not saved.     *)
ConfirmUnsaved(c) ==
  /\ At(c, "confirm")
  /\ mem' = [tx |-> act[c].tx, wallet |-> wallet]
  /\ approved' = approved \cup {act[c].tx}
  /\ Become(c, "relay", act[c].tx) /\ busy' = TRUE
  /\ transit' = transit \cup {act[c].tx} /\ offered' = offered \cup {act[c].tx}
  /\ UNCHANGED <<running, wallet, made, accepted, known, stored, left>>

(* Confirmed: the record is set in memory and saved, and the transaction is *)
(* relayed; when the save throws the click ends with the record in memory,  *)
(* and with no wallet open RelayTransferAsync throws at once.               *)
Confirm(c) ==
  /\ At(c, "confirm")
  /\ mem' = [tx |-> act[c].tx, wallet |-> wallet]
  /\ approved' = approved \cup {act[c].tx}
  /\ \/ /\ SaveWorks(mem') /\ wallet # NoWallet
        /\ Become(c, "relay", act[c].tx) /\ busy' = TRUE
        /\ transit' = transit \cup {act[c].tx} /\ offered' = offered \cup {act[c].tx}
     \/ /\ SaveFails \/ (SaveWorks(mem') /\ wallet = NoWallet)
        /\ Return(c) /\ UNCHANGED <<transit, offered>>
  /\ UNCHANGED <<running, wallet, made, accepted, known>>

(* RelayTransferAsync returns: the node answered with the id, or the call   *)
(* failed and the node's wallet has the transaction.                        *)
Relayed(c) ==
  /\ At(c, "relay")
  /\ act[c].tx \in accepted
  /\ ClearPendingSend /\ Return(c)
  /\ UNCHANGED <<running, wallet, made, node, past>>

(* Fault: the record is cleared although the result is unknown. *)
RelayForgets(c) ==
  /\ At(c, "relay")
  /\ ClearPendingSend /\ Return(c)
  /\ UNCHANGED <<running, wallet, made, node, past>>

(* RelayTransferAsync throws that the result is unknown, whatever became of *)
(* the call.                                                                *)
RelayUnknown(c) ==
  /\ At(c, "relay")
  /\ Return(c)
  /\ UNCHANGED <<running, mem, stored, wallet, made, node, past, left>>

----------------------------------------------------------------------------
(* The process, the disk and the node.                                      *)

Crash ==
  /\ running /\ running' = FALSE
  /\ mem' = NoPending /\ wallet' = NoWallet /\ busy' = FALSE
  /\ act' = [c \in Activations |-> Idle]
  /\ UNCHANGED <<stored, made, node, past, left>>

Restart ==
  /\ ~running /\ Loadable
  /\ running' = TRUE /\ mem' = Load
  /\ file' = IF file = Damaged THEN Missing ELSE file
  /\ UNCHANGED <<previous, wallet, busy, act, made, node, past, left>>

Damage ==
  /\ left.damage > 0 /\ left' = [left EXCEPT !.damage = @ - 1]
  /\ file \in Pending /\ file' = Damaged
  /\ UNCHANGED <<running, mem, previous, wallet, busy, act, made, node, past>>

(* The node finishes a call, perhaps long after the app stopped waiting;    *)
(* or the call is lost; its wallet learns of a transaction later.           *)
Accept(t) ==
  /\ t \in transit
  /\ accepted' = accepted \cup {t} /\ transit' = transit \ {t}
  /\ UNCHANGED <<running, mem, stored, wallet, busy, act, made, known, past, left>>

Refuse(t) ==
  /\ t \in transit /\ transit' = transit \ {t}
  /\ UNCHANGED <<running, mem, stored, wallet, busy, act, made, accepted, known, past, left>>

WalletLearns(t) ==
  /\ t \in accepted \ known /\ known' = known \cup {t}
  /\ UNCHANGED <<running, mem, stored, wallet, busy, act, made, transit, accepted, past, left>>

Next ==
  \/ \E w \in Wallets : OpenWallet(w)
  \/ WalletButton \/ OpenFails \/ OpenEnds \/ LockWallet \/ Locked \/ SaveSettings
  \/ \E c \in Clicks :
       \/ Click(c) \/ Found(c) \/ NotFound(c) \/ RetryYes(c) \/ DialogOk(c)
       \/ DialogCancel(c) \/ Prepared(c) \/ Abandon(c) \/ Confirm(c)
       \/ Relayed(c) \/ RelayUnknown(c)
  \/ Crash \/ Restart \/ Damage
  \/ \E t \in Txs : Accept(t) \/ Refuse(t) \/ WalletLearns(t)

Spec == Init /\ [][Next]_vars

----------------------------------------------------------------------------
Files == Pending \cup {Missing, Damaged}
Labels == {"idle", "opening", "opened", "locking", "ask", "reconcile", "retryBox", "dialog", "prepare",
           "confirm", "relay"}

(* Types; an activation that asks about, confirms or relays a transaction   *)
(* has one.                                                                 *)
TypeOK ==
  /\ running \in BOOLEAN /\ busy \in BOOLEAN
  /\ mem \in Pending /\ file \in Files /\ previous \in Files
  /\ wallet \in Wallets \cup {NoWallet}
  /\ act \in [Activations -> [pc : Labels, tx : Txs \cup {NoTx},
                              wallet : Wallets \cup {NoWallet}]]
  /\ \A c \in Clicks : act[c].pc \in {"ask", "reconcile", "confirm", "relay"} => act[c].tx \in Txs
  /\ made \in [Wallets -> 0..MaxPayments]
  /\ transit \subseteq Txs /\ accepted \subseteq Txs /\ known \subseteq Txs
  /\ approved \subseteq Txs /\ offered \subseteq Txs
  /\ left \in [save : 0..MaxSaveFailures, damage : 0..MaxDamage]

(* Nothing reaches the network that the user did not confirm, however the   *)
(* activations interleave and whatever a restart reads.                     *)
OnlyApprovedOffered == offered \subseteq approved

(* "Record the ID before broadcasting, so a lost response survives          *)
(* restart": a transaction handed to the node and not accepted is the one a *)
(* restart would load.                                                      *)
LostResponseSurvivesRestart ==
  \A t \in offered \ accepted : Loadable => Load.tx = t

(* Every write of the settings succeeded and no file was damaged so far.    *)
Intact == left = [save |-> MaxSaveFailures, damage |-> MaxDamage]

(* As long as the settings are written and read without a failure, the      *)
(* record that Confirm saved outlives timeouts, locks, late answers and     *)
(* crashes.  After a failed Save or a return to settings.json.previous it   *)
(* may be lost.                                                             *)
RecordSurvivesRestart == Intact => LostResponseSurvivesRestart

(* "Resubmit that same signed transaction? This cannot create a second      *)
(* payment": under the same condition every step is one PaymentPromise      *)
(* allows; a wallet's next transaction is offered only when its earlier     *)
(* ones were accepted.                                                      *)
Promise == INSTANCE PaymentPromise
NoSecondPayment ==
  Promise!Init /\ [][Intact' => \E t \in Txs : Promise!Offer(t) \/ Promise!Accept(t)]_<<offered, accepted>>
=============================================================================

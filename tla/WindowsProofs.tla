---------------------------- MODULE WindowsProofs ----------------------------
(***************************************************************************)
(* Proofs about the two parts of the Windows wallet.                        *)
(* WindowsPayment: for any wallets, any number of activations, payments,    *)
(* failing writes and damaged files.  What depends on the user waiting for  *)
(* a payment before pressing the next button is proved from Patient.        *)
(* WindowsUpdate: for any number of attempts to update.                     *)
(***************************************************************************)
EXTENDS WindowsPayment, WindowsUpdate, TLAPS

(* Where an approval comes from: the node only has what was offered, and    *)
(* every copy of the record holds an approved transaction.                  *)
ApprovedInv ==
  /\ offered \subseteq approved /\ transit \subseteq offered
  /\ accepted \subseteq offered /\ known \subseteq accepted
  /\ \A r \in {mem, file, previous} : r \in Pending \ {NoPending} => r.tx \in approved

(* Sending and opening a wallet; locking one touches no payment. *)
Work == Activations \ {Locker}

(* What an activation knows of the record in memory. *)
Fits(a, pending) ==
  /\ a.pc \in {"ask", "reconcile", "relay"} => a.tx = pending.tx
  /\ a.pc \in {"dialog", "prepare", "confirm"} => pending = NoPending
  /\ a.pc = "opened" => a.tx \in {pending.tx, NoTx}

(* Only one activation is at work, so what it asks about, relays or replaces *)
(* is what the record holds.                                                *)
WorkInv ==
  /\ \A a, b \in Work : act[a] # Idle /\ act[b] # Idle => a = b
  /\ ~running => \A a \in Work : act[a] = Idle
  /\ \A a \in Work : Fits(act[a], mem)

(* The settings file agrees with memory, and holds the one transaction that *)
(* may be without a result.                                                 *)
RecordInv ==
  Intact =>
    /\ file \in Pending
    /\ running => mem = file
    /\ \A t \in offered \ accepted : file.tx = t

IInv == TypeOK /\ ApprovedInv /\ (Patient => WorkInv /\ RecordInv)

USE WindowsAssumption, FileAssumption

-----------------------------------------------------------------------------
(* Types.                                                                   *)

Acts == [pc : Labels, tx : Txs \cup {NoTx}, wallet : Wallets \cup {NoWallet}]
Budgets == [save : 0..MaxSaveFailures, damage : 0..MaxDamage]
HasTx(a) == a.pc \in {"ask", "reconcile", "confirm", "relay"} => a.tx \in Txs

(* TypeOK in terms of the sets above. *)
LEMMA Types ==
  TypeOK <=> /\ running \in BOOLEAN /\ busy \in BOOLEAN
             /\ mem \in Pending /\ file \in Files /\ previous \in Files
             /\ wallet \in Wallets \cup {NoWallet}
             /\ act \in [Activations -> Acts] /\ \A c \in Clicks : HasTx(act[c])
             /\ made \in [Wallets -> 0..MaxPayments]
             /\ transit \subseteq Txs /\ accepted \subseteq Txs /\ known \subseteq Txs
             /\ approved \subseteq Txs /\ offered \subseteq Txs
             /\ left \in Budgets
BY Zenon DEF TypeOK, Acts, Budgets, HasTx

(* The same of the next state. *)
LEMMA TypesKept ==
  ASSUME running' \in BOOLEAN, busy' \in BOOLEAN,
         mem' \in Pending, file' \in Files, previous' \in Files,
         wallet' \in Wallets \cup {NoWallet},
         act' \in [Activations -> Acts], \A c \in Clicks : HasTx(act'[c]),
         made' \in [Wallets -> 0..MaxPayments],
         transit' \subseteq Txs, accepted' \subseteq Txs, known' \subseteq Txs,
         approved' \subseteq Txs, offered' \subseteq Txs, left' \in Budgets
  PROVE  TypeOK'
BY Zenon DEF TypeOK, Acts, Budgets, HasTx

(* The records an activation or the settings start from. *)
LEMMA Blank ==
  /\ Idle \in Acts /\ NoPending \in Pending /\ HasTx(Idle) /\ \A r : Fits(Idle, r)
  /\ NoPending.tx = NoTx /\ \A r \in Pending \ {NoPending} : r.tx \in Txs
  /\ Clicks \subseteq Work /\ Opener \in Work /\ Locker \in Activations \ Work
BY Zenon DEF Idle, Acts, Labels, NoPending, Pending, HasTx, Fits, Work, Activations

(* The initial state of the wallet window satisfies the invariant. *)
LEMMA InitIInv == Init => IInv
<1> SUFFICES ASSUME Init PROVE IInv
  BY Zenon
<1>1. TypeOK
  <2>1. left \in Budgets /\ made \in [Wallets -> 0..MaxPayments]
    BY DEF Init, Budgets
  <2>2. act \in [Activations -> Acts] /\ \A c \in Clicks : HasTx(act[c])
    BY Blank, Zenon DEF Init, Activations
  <2>3. mem \in Pending /\ file \in Files /\ previous \in Files
    BY Blank, Zenon DEF Init, Files
  <2> QED
    BY <2>1, <2>2, <2>3, Types, Zenon DEF Init
<1>2. ApprovedInv
  BY Blank, Zenon DEF Init, ApprovedInv
<1>3. WorkInv
  BY Blank, Zenon DEF Init, WorkInv, Work
<1>4. RecordInv
  BY Blank, Zenon DEF Init, RecordInv
<1> QED
  BY <1>1, <1>2, <1>3, <1>4, Zenon DEF IInv

-----------------------------------------------------------------------------
(* What the steps have in common.                                           *)

(* What a step does to the activation that takes it, *)
Turn(a, new) ==
  /\ act' \in [Activations -> Acts] /\ act'[a] = new
  /\ \A b \in Activations \ {a} : act'[b] = act[b]

(* and to the settings files when it saves. *)
Wrote(pending) ==
  /\ file' \in {file, pending} /\ previous' \in {previous, file}
  /\ left' \in Budgets
  /\ Intact' => Intact /\ file' = pending

(* SettingsStore.Save, whether it works or throws. *)
LEMMA SaveWrote ==
  ASSUME TypeOK, NEW pending, Save(pending)
  PROVE  Wrote(pending)
<1>1. left \in Budgets
  BY Types, Zenon
<1>2. CASE SaveWorks(pending)
  BY <1>1, <1>2, Zenon DEF SaveWorks, Wrote, Intact
<1>3. CASE SaveFails
  <2>1. left' \in Budgets /\ left'.save < MaxSaveFailures
    BY <1>1, <1>3 DEF SaveFails, Budgets
  <2>2. ~Intact'
    BY <2>1 DEF Intact
  <2> QED
    BY <1>3, <2>1, <2>2, Zenon DEF SaveFails, stored, Wrote
<1> QED
  BY <1>2, <1>3, Zenon DEF Save

(* The activation that ends and the one that goes on to wait. *)
LEMMA Turns ==
  ASSUME TypeOK, NEW a \in Activations
  PROVE  /\ act' = [act EXCEPT ![a] = Idle] => Turn(a, Idle)
         /\ \A pc \in Labels, tx \in Txs \cup {NoTx} :
              Become(a, pc, tx) => Turn(a, [pc |-> pc, tx |-> tx, wallet |-> wallet])
<1>1. act \in [Activations -> Acts] /\ Idle \in Acts
  BY Types, Blank, Zenon
<1>2. \A pc \in Labels, tx \in Txs \cup {NoTx} : [pc |-> pc, tx |-> tx, wallet |-> wallet] \in Acts
  BY Types, Zenon DEF Acts
<1> QED
  BY <1>1, <1>2, Zenon DEF Become, Turn

(* Nobody else is at work. *)
Alone(a) == \A b \in Work \ {a} : act[b] = Idle

(* With patience, whoever is at work is alone.                             *)
LEMMA AtWorkAlone ==
  ASSUME IInv, Patient, NEW a \in Work, act[a].pc # "idle"
  PROVE  Alone(a)
BY DEF IInv, WorkInv, Alone, Idle

(* With patience, a button is pressed when nobody is at work.              *)
LEMMA PressAlone ==
  ASSUME Patient, PressFree
  PROVE  \A a \in Work : Alone(a)
BY Zenon DEF PressFree, Alone, Work

(* A step of the only activation at work. *)
LEMMA WorkKept ==
  ASSUME IInv, Patient, NEW a \in Work, NEW new, Turn(a, new), Alone(a), Fits(new, mem'), running'
  PROVE  WorkInv'
<1>1. \A b \in Work \ {a} : act'[b] = Idle
  BY Zenon DEF Turn, Alone, Work
<1> QED
  BY <1>1, Blank, Zenon DEF Turn, WorkInv

(* A step that leaves the record and the node alone. *)
LEMMA QuietStep ==
  ASSUME IInv, NEW a \in Activations, NEW new, Turn(a, new), a \in Clicks => HasTx(new),
         Patient /\ a # Locker => Alone(a) /\ Fits(new, mem),
         running, UNCHANGED <<running, mem, stored, node, past, left>>,
         busy' \in BOOLEAN, wallet' \in Wallets \cup {NoWallet},
         made' \in [Wallets -> 0..MaxPayments]
  PROVE  IInv'
<1>0. UNCHANGED <<running, mem, file, previous, transit, accepted, known, approved, offered, left>>
  BY Zenon DEF stored, node, past
<1>1. TypeOK'
  <2>1. \A c \in Clicks : HasTx(act'[c])
    BY Types, Zenon DEF IInv, Turn, Activations
  <2>2. act' \in [Activations -> Acts]
    BY Zenon DEF Turn
  <2> QED
    BY <1>0, <2>1, <2>2, Types, TypesKept, Zenon DEF IInv
<1>2. ApprovedInv'
  BY <1>0, Zenon DEF IInv, ApprovedInv
<1>3. ASSUME Patient PROVE WorkInv'
  <2>1. CASE a # Locker
    BY <1>0, <1>3, <2>1, WorkKept DEF Work
  <2>2. CASE a = Locker
    <3>1. \A b \in Work : act'[b] = act[b]
      BY <2>2, Zenon DEF Turn, Work
    <3> QED
      BY <1>0, <1>3, <3>1 DEF IInv, WorkInv
  <2> QED
    BY <2>1, <2>2, Zenon
<1>4. ASSUME Patient PROVE RecordInv'
  BY <1>0, <1>4, Zenon DEF IInv, RecordInv, Intact
<1> QED
  BY <1>1, <1>2, <1>3, <1>4, Zenon DEF IInv

(* A step that saves the settings with the record kept or cleared; a record *)
(* is cleared only when its transaction has been accepted.                  *)
LEMMA SavingStep ==
  ASSUME IInv, NEW a \in Work, NEW new, Turn(a, new), a \in Clicks => HasTx(new),
         Patient => Alone(a) /\ Fits(new, mem'),
         Wrote(mem'), mem' = mem \/ (mem' = NoPending /\ (Patient => mem.tx \in accepted)),
         running, UNCHANGED <<running, made, node, past>>,
         busy' \in BOOLEAN, wallet' \in Wallets \cup {NoWallet}
  PROVE  IInv'
<1>0. UNCHANGED <<running, made, transit, accepted, known, approved, offered>>
  BY Zenon DEF node, past
<1>1. TypeOK'
  <2>1. \A c \in Clicks : HasTx(act'[c])
    BY Types, Zenon DEF IInv, Turn, Activations
  <2>2. act' \in [Activations -> Acts]
    BY Zenon DEF Turn
  <2>3. mem' \in Pending /\ file' \in Files /\ previous' \in Files /\ left' \in Budgets
    BY Types, Blank, Zenon DEF IInv, Wrote, Files
  <2> QED
    BY <1>0, <2>1, <2>2, <2>3, Types, TypesKept, Zenon DEF IInv
<1>2. ApprovedInv'
  <2>1. \A r \in {mem', file', previous'} : r \in {mem, file, previous, NoPending}
    BY Zenon DEF Wrote
  <2> QED
    BY <1>0, <2>1, Zenon DEF IInv, ApprovedInv
<1>3. Patient => WorkInv'
  BY <1>0, WorkKept
<1>4. ASSUME Patient, Intact' PROVE RecordInv'
  <2>1. Intact /\ file' = mem'
    BY <1>4, Zenon DEF Wrote
  <2>2. mem = file /\ \A t \in offered \ accepted : mem.tx = t
    BY <1>4, <2>1, Zenon DEF IInv, RecordInv
  <2>3. mem' \in Pending
    BY Types, Blank, Zenon DEF IInv
  <2> QED
    BY <1>0, <1>4, <2>1, <2>2, <2>3, Zenon DEF RecordInv
<1> QED
  BY <1>1, <1>2, <1>3, <1>4, Zenon DEF IInv, RecordInv

-----------------------------------------------------------------------------
(* The steps.                                                               *)

(* ShowWalletAccessAsync starts to wait. *)
LEMMA WalletButtonKeeps ==
  ASSUME IInv, WalletButton
  PROVE  IInv'
<1>1. Turn(Opener, [pc |-> "opening", tx |-> NoTx, wallet |-> wallet])
  BY Turns, Types, Blank, Zenon DEF IInv, WalletButton, Return, Labels, Work, Activations
<1>2. Patient => Alone(Opener) /\ Fits([pc |-> "opening", tx |-> NoTx, wallet |-> wallet], mem)
  BY PressAlone, Blank, Zenon DEF WalletButton, Fits
<1>3. /\ busy' \in BOOLEAN /\ wallet' \in Wallets \cup {NoWallet}
      /\ made' \in [Wallets -> 0..MaxPayments]
  BY Types, Zenon DEF IInv, WalletButton, Return
<1> QED
  BY <1>1, <1>2, <1>3, QuietStep, Blank, Zenon DEF WalletButton, Activations, HasTx, At, PressFree,
         FormFree

(* The wallet could not be opened. *)
LEMMA OpenFailsKeeps ==
  ASSUME IInv, OpenFails
  PROVE  IInv'
<1>1. Turn(Opener, Idle)
  BY Turns, Types, Blank, Zenon DEF IInv, OpenFails, Return, Labels, Work, Activations
<1>2. Patient => Alone(Opener) /\ Fits(Idle, mem)
  BY AtWorkAlone, Blank, Zenon DEF OpenFails, At
<1>3. /\ busy' \in BOOLEAN /\ wallet' \in Wallets \cup {NoWallet}
      /\ made' \in [Wallets -> 0..MaxPayments]
  BY Types, Zenon DEF IInv, OpenFails, Return
<1> QED
  BY <1>1, <1>2, <1>3, QuietStep, Blank, Zenon DEF OpenFails, Activations, HasTx, At, PressFree, FormFree

(* LockWalletAsync starts to wait. *)
LEMMA LockWalletKeeps ==
  ASSUME IInv, LockWallet
  PROVE  IInv'
<1>1. Turn(Locker, [pc |-> "locking", tx |-> NoTx, wallet |-> wallet])
  BY Turns, Types, Blank, Zenon DEF IInv, LockWallet, Return, Labels, Work, Activations
<1>2. /\ busy' \in BOOLEAN /\ wallet' \in Wallets \cup {NoWallet}
      /\ made' \in [Wallets -> 0..MaxPayments]
  BY Types, Zenon DEF IInv, LockWallet, Return
<1> QED
  BY <1>1, <1>2, QuietStep, Blank, Zenon DEF LockWallet, Activations, HasTx, At, PressFree, FormFree

(* The wallet was locked, or not. *)
LEMMA LockedKeeps ==
  ASSUME IInv, Locked
  PROVE  IInv'
<1>1. Turn(Locker, Idle)
  BY Turns, Types, Blank, Zenon DEF IInv, Locked, Return, Labels, Work, Activations
<1>2. /\ busy' \in BOOLEAN /\ wallet' \in Wallets \cup {NoWallet}
      /\ made' \in [Wallets -> 0..MaxPayments]
  BY Types, Zenon DEF IInv, Locked, Return
<1> QED
  BY <1>1, <1>2, QuietStep, Blank, Zenon DEF Locked, Activations, HasTx, At, PressFree, FormFree

(* The send dialog is cancelled. *)
LEMMA DialogCancelKeeps ==
  ASSUME IInv, NEW c \in Clicks, DialogCancel(c)
  PROVE  IInv'
<1>1. Turn(c, Idle)
  BY Turns, Types, Blank, Zenon DEF IInv, DialogCancel, Return, Labels, Work, Activations
<1>2. Patient => Alone(c) /\ Fits(Idle, mem)
  BY AtWorkAlone, Blank, Zenon DEF DialogCancel, At
<1>3. /\ busy' \in BOOLEAN /\ wallet' \in Wallets \cup {NoWallet}
      /\ made' \in [Wallets -> 0..MaxPayments]
  BY Types, Zenon DEF IInv, DialogCancel, Return
<1> QED
  BY <1>1, <1>2, <1>3, QuietStep, Blank, Zenon DEF DialogCancel, Activations, HasTx, At, PressFree,
         FormFree

(* The click ends early. *)
LEMMA AbandonKeeps ==
  ASSUME IInv, NEW c \in Clicks, Abandon(c)
  PROVE  IInv'
<1>1. Turn(c, Idle)
  BY Turns, Types, Blank, Zenon DEF IInv, Abandon, Return, Labels, Work, Activations
<1>2. Patient => Alone(c) /\ Fits(Idle, mem)
  BY AtWorkAlone, Blank, Zenon DEF Abandon, At
<1>3. /\ busy' \in BOOLEAN /\ wallet' \in Wallets \cup {NoWallet}
      /\ made' \in [Wallets -> 0..MaxPayments]
  BY Types, Zenon DEF IInv, Abandon, Return
<1> QED
  BY <1>1, <1>2, <1>3, QuietStep, Blank, Zenon DEF Abandon, Activations, HasTx, At, PressFree, FormFree

(* RelayTransferAsync throws. *)
LEMMA RelayUnknownKeeps ==
  ASSUME IInv, NEW c \in Clicks, RelayUnknown(c)
  PROVE  IInv'
<1>1. Turn(c, Idle)
  BY Turns, Types, Blank, Zenon DEF IInv, RelayUnknown, Return, Labels, Work, Activations
<1>2. Patient => Alone(c) /\ Fits(Idle, mem)
  BY AtWorkAlone, Blank, Zenon DEF RelayUnknown, At
<1>3. /\ busy' \in BOOLEAN /\ wallet' \in Wallets \cup {NoWallet}
      /\ made' \in [Wallets -> 0..MaxPayments]
  BY Types, Zenon DEF IInv, RelayUnknown, Return
<1> QED
  BY <1>1, <1>2, <1>3, QuietStep, Blank, Zenon DEF RelayUnknown, Activations, HasTx, At, PressFree,
         FormFree

(* sendButton_Click up to its first wait. *)
LEMMA ClickKeeps ==
  ASSUME IInv, NEW c \in Clicks, Click(c)
  PROVE  IInv'
<1>0. mem # NoPending => mem.tx \in Txs
  BY Types, Blank, Zenon DEF IInv
<1>1. PICK new \in {Idle, [pc |-> "dialog", tx |-> NoTx, wallet |-> wallet],
                    [pc |-> "ask", tx |-> mem.tx, wallet |-> wallet]} :
        Turn(c, new) /\ HasTx(new) /\ Fits(new, mem)
  BY <1>0, Turns, Types, Blank, Zenon DEF IInv, Click, Return, Labels, Activations, HasTx, Fits
<1>2. Patient => Alone(c)
  BY PressAlone, Blank, Zenon DEF Click
<1>3. /\ busy' \in BOOLEAN /\ wallet' \in Wallets \cup {NoWallet}
      /\ made' \in [Wallets -> 0..MaxPayments]
  BY Types, Zenon DEF IInv, Click, Return
<1> QED
  BY <1>1, <1>2, <1>3, QuietStep, Blank, Zenon DEF Click, Activations, At, PressFree, FormFree

(* The send dialog is accepted. *)
LEMMA DialogOkKeeps ==
  ASSUME IInv, NEW c \in Clicks, DialogOk(c)
  PROVE  IInv'
<1>0. mem # NoPending => mem.tx \in Txs
  BY Types, Blank, Zenon DEF IInv
<1>1. PICK new \in {Idle, [pc |-> "prepare", tx |-> NoTx, wallet |-> wallet],
                    [pc |-> "reconcile", tx |-> mem.tx, wallet |-> wallet]} :
        Turn(c, new) /\ HasTx(new) /\ Fits(new, mem)
  BY <1>0, Turns, Types, Blank, Zenon DEF IInv, DialogOk, Return, Labels, Activations, HasTx, Fits
<1>2. Patient => Alone(c)
  BY AtWorkAlone, Blank, Zenon DEF DialogOk, At
<1>3. /\ busy' \in BOOLEAN /\ wallet' \in Wallets \cup {NoWallet}
      /\ made' \in [Wallets -> 0..MaxPayments]
  BY Types, Zenon DEF IInv, DialogOk, Return
<1> QED
  BY <1>1, <1>2, <1>3, QuietStep, Blank, Zenon DEF DialogOk, Activations, At, PressFree, FormFree

(* The node has not got the transaction. *)
LEMMA NotFoundKeeps ==
  ASSUME IInv, NEW c \in Clicks, NotFound(c)
  PROVE  IInv'
<1>0. mem # NoPending => mem.tx \in Txs
  BY Types, Blank, Zenon DEF IInv
<1>1. PICK new \in {Idle, [pc |-> "retryBox", tx |-> NoTx, wallet |-> wallet],
                    [pc |-> "prepare", tx |-> NoTx, wallet |-> wallet]} :
        Turn(c, new) /\ HasTx(new) /\ Fits(new, mem)
  BY <1>0, Turns, Types, Blank, Zenon DEF IInv, NotFound, Return, Labels, Activations, HasTx, Fits
<1>2. Patient => Alone(c)
  BY AtWorkAlone, Blank, Zenon DEF NotFound
<1>3. /\ busy' \in BOOLEAN /\ wallet' \in Wallets \cup {NoWallet}
      /\ made' \in [Wallets -> 0..MaxPayments]
  BY Types, Zenon DEF IInv, NotFound, Return
<1> QED
  BY <1>1, <1>2, <1>3, QuietStep, Blank, Zenon DEF NotFound, Activations, At, PressFree, FormFree

(* A new transaction is funded and signed. *)
LEMMA PreparedKeeps ==
  ASSUME IInv, NEW c \in Clicks, Prepared(c)
  PROVE  IInv'
<1>0. /\ wallet \in Wallets /\ made' \in [Wallets -> 0..MaxPayments]
      /\ <<wallet, made'[wallet]>> \in Txs
  BY Types DEF IInv, Prepared, Txs
<1>1. Turn(c, [pc |-> "confirm", tx |-> <<wallet, made'[wallet]>>, wallet |-> wallet])
  BY <1>0, Turns, Types, Zenon DEF IInv, Prepared, Labels, Activations
<1>2. Patient => /\ Alone(c)
                 /\ Fits([pc |-> "confirm", tx |-> <<wallet, made'[wallet]>>, wallet |-> wallet], mem)
  <2>1. Patient => Alone(c) /\ Fits(act[c], mem)
    BY AtWorkAlone, Blank, Zenon DEF Prepared, At, IInv, WorkInv
  <2> QED
    BY <2>1, Zenon DEF Fits, Prepared, At
<1>3. HasTx([pc |-> "confirm", tx |-> <<wallet, made'[wallet]>>, wallet |-> wallet])
  BY <1>0, Zenon DEF HasTx
<1>4. busy' = busy /\ busy \in BOOLEAN /\ wallet' = wallet
  BY Types, Zenon DEF IInv, Prepared
<1> QED
  BY <1>0, <1>1, <1>2, <1>3, <1>4, QuietStep, Blank, Zenon DEF Prepared, Activations, At

(* A wallet has been opened and the choice saved. *)
LEMMA OpenWalletKeeps ==
  ASSUME IInv, NEW w \in Wallets, OpenWallet(w)
  PROVE  IInv'
<1>0. act \in [Activations -> Acts] /\ mem \in Pending /\ mem.tx \in Txs \cup {NoTx}
  BY Types, Blank, Zenon DEF IInv
<1>1. PICK new \in {Idle, [pc |-> "opened", tx |-> IF mem.wallet = w THEN mem.tx ELSE NoTx, wallet |-> w]} :
        Turn(Opener, new) /\ Fits(new, mem)
  <2>1. [pc |-> "opened", tx |-> IF mem.wallet = w THEN mem.tx ELSE NoTx, wallet |-> w] \in Acts
    BY <1>0, Zenon DEF Acts, Labels
  <2>2. Fits([pc |-> "opened", tx |-> IF mem.wallet = w THEN mem.tx ELSE NoTx, wallet |-> w], mem)
    BY Zenon DEF Fits
  <2>3. \/ act' = [act EXCEPT ![Opener] = Idle]
        \/ act' = [act EXCEPT ![Opener] =
                     [pc |-> "opened", tx |-> IF mem.wallet = w THEN mem.tx ELSE NoTx, wallet |-> w]]
    BY Zenon DEF OpenWallet, Return
  <2> QED
    BY <1>0, <2>1, <2>2, <2>3, Blank DEF Turn, Activations
<1>2. Patient => Alone(Opener)
  BY AtWorkAlone, Blank, Zenon DEF OpenWallet, At
<1>3. Wrote(mem)
  BY SaveWrote, Zenon DEF IInv, OpenWallet, Save
<1>4. busy' \in BOOLEAN /\ wallet' \in Wallets \cup {NoWallet} /\ mem' = mem
  BY Types, Zenon DEF IInv, OpenWallet, Return
<1> QED
  BY <1>1, <1>2, <1>3, <1>4, SavingStep, Blank, Zenon DEF OpenWallet, Activations, At

(* Another setting is saved. *)
LEMMA SaveSettingsKeeps ==
  ASSUME IInv, SaveSettings
  PROVE  IInv'
<1>1. Turn(Opener, act[Opener]) /\ Wrote(mem)
  BY SaveWrote, Types, Blank, Zenon DEF IInv, SaveSettings, Turn, Work
<1>2. TypeOK'
  BY <1>1, Types, TypesKept, Zenon DEF IInv, SaveSettings, node, past, Wrote, Files
<1>3. ApprovedInv'
  BY <1>1, Zenon DEF IInv, ApprovedInv, SaveSettings, node, past, Wrote
<1>4. Patient => WorkInv'
  BY Zenon DEF IInv, WorkInv, SaveSettings
<1>5. Patient => RecordInv'
  BY <1>1, Types, Zenon DEF IInv, RecordInv, SaveSettings, node, past, Wrote
<1> QED
  BY <1>2, <1>3, <1>4, <1>5, Zenon DEF IInv

(* The answer for ShowWalletAccessAsync. *)
LEMMA OpenEndsKeeps ==
  ASSUME IInv, OpenEnds
  PROVE  IInv'
<1>1. Turn(Opener, Idle)
  BY Turns, Blank, Zenon DEF IInv, OpenEnds, Return, Work
<1>2. Patient => Alone(Opener) /\ Fits(act[Opener], mem)
  BY AtWorkAlone, Blank, Zenon DEF IInv, WorkInv, OpenEnds, At
<1>3. /\ busy' \in BOOLEAN /\ wallet' \in Wallets \cup {NoWallet}
      /\ made' \in [Wallets -> 0..MaxPayments]
  BY Types, Zenon DEF IInv, OpenEnds, Return
<1>4. CASE UNCHANGED <<mem, stored, left>>
  BY <1>1, <1>2, <1>3, <1>4, QuietStep, Blank, Zenon DEF OpenEnds, Activations, At
<1>5. CASE act[Opener].tx \in known /\ ClearPendingSend
  <2>1. Wrote(NoPending) /\ mem' = NoPending
    BY <1>5, SaveWrote, Zenon DEF IInv, ClearPendingSend
  <2>2. act[Opener].tx \in accepted /\ act[Opener].tx \in Txs
    BY <1>5, Types, Zenon DEF IInv, ApprovedInv
  <2>3. Patient => mem.tx \in accepted
    BY <1>2, <2>2, Zenon DEF OpenEnds, At, Fits
  <2> QED
    BY <1>1, <1>2, <1>3, <2>1, <2>3, SavingStep, Blank, Zenon DEF OpenEnds, Activations, At
<1> QED
  BY <1>4, <1>5, Zenon DEF OpenEnds

(* The node has the transaction: the record is cleared. *)
LEMMA FoundKeeps ==
  ASSUME IInv, NEW c \in Clicks, Found(c)
  PROVE  IInv'
<1>1. PICK new \in {Idle, [pc |-> "prepare", tx |-> NoTx, wallet |-> wallet]} :
        Turn(c, new) /\ HasTx(new) /\ Fits(new, NoPending)
  BY Turns, Blank, Zenon DEF IInv, Found, Return, Labels, Activations, HasTx, Fits
<1>2. Patient => Alone(c) /\ Fits(act[c], mem)
  BY AtWorkAlone, Blank, Zenon DEF IInv, WorkInv, Found
<1>3. Wrote(NoPending) /\ mem' = NoPending
  BY SaveWrote, Zenon DEF IInv, Found, ClearPendingSend
<1>4. Patient => mem.tx \in accepted
  BY <1>2, Zenon DEF IInv, ApprovedInv, Found, Fits
<1>5. busy' \in BOOLEAN /\ wallet' \in Wallets \cup {NoWallet}
  BY Types, Zenon DEF IInv, Found, Return
<1> QED
  BY <1>1, <1>2, <1>3, <1>4, <1>5, SavingStep, Blank, Zenon DEF Found

(* The transaction was relayed: the record is cleared. *)
LEMMA RelayedKeeps ==
  ASSUME IInv, NEW c \in Clicks, Relayed(c)
  PROVE  IInv'
<1>1. Turn(c, Idle)
  BY Turns, Blank, Zenon DEF IInv, Relayed, Return, Activations
<1>2. Patient => Alone(c) /\ Fits(act[c], mem)
  BY AtWorkAlone, Blank, Zenon DEF IInv, WorkInv, Relayed, At
<1>3. Wrote(NoPending) /\ mem' = NoPending
  BY SaveWrote, Zenon DEF IInv, Relayed, ClearPendingSend
<1>4. Patient => mem.tx \in accepted
  BY <1>2, Zenon DEF Relayed, At, Fits
<1>5. busy' \in BOOLEAN /\ wallet' \in Wallets \cup {NoWallet}
  BY Types, Zenon DEF IInv, Relayed, Return
<1> QED
  BY <1>1, <1>2, <1>3, <1>4, <1>5, SavingStep, Blank, Zenon DEF Relayed, At

(* The pending transaction is relayed again. *)
LEMMA RetryYesKeeps ==
  ASSUME IInv, NEW c \in Clicks, RetryYes(c)
  PROVE  IInv'
<1>0. mem \in Pending /\ (Patient => Alone(c))
  BY Types, AtWorkAlone, Blank, Zenon DEF IInv, RetryYes, At
<1>1. CASE mem = NoPending \/ wallet = NoWallet
  <2>1. Turn(c, Idle) /\ busy' = FALSE
    BY <1>1, Turns, Blank, Zenon DEF IInv, RetryYes, Return, Activations
  <2>2. made' \in [Wallets -> 0..MaxPayments] /\ wallet' \in Wallets \cup {NoWallet}
    BY Types, Zenon DEF IInv, RetryYes
  <2> QED
    BY <1>0, <1>1, <2>1, <2>2, QuietStep, Blank, Zenon DEF RetryYes, At, node, past, Activations
<1>2. CASE mem # NoPending /\ wallet # NoWallet
  <2>1. mem.tx \in Txs /\ mem.tx \in approved
    BY <1>0, <1>2, Blank, Zenon DEF IInv, ApprovedInv
  <2>2. /\ Turn(c, [pc |-> "relay", tx |-> mem.tx, wallet |-> wallet])
        /\ HasTx([pc |-> "relay", tx |-> mem.tx, wallet |-> wallet])
        /\ Fits([pc |-> "relay", tx |-> mem.tx, wallet |-> wallet], mem)
    BY <1>2, <2>1, Turns, Zenon DEF IInv, RetryYes, Labels, Activations, HasTx, Fits
  <2>3. /\ UNCHANGED <<running, mem, file, previous, wallet, made, accepted, known, approved, left>>
        /\ busy' = TRUE /\ transit' = transit \cup {mem.tx} /\ offered' = offered \cup {mem.tx}
        /\ running
    BY <1>2, Zenon DEF RetryYes, stored, At
  <2>4. TypeOK'
    <3>1. \A d \in Clicks : HasTx(act'[d])
      BY <2>2, Types, Zenon DEF IInv, Turn, Activations
    <3> QED
      BY <2>1, <2>2, <2>3, <3>1, Types, TypesKept, Zenon DEF IInv, Turn
  <2>5. ApprovedInv'
    BY <2>1, <2>3, Zenon DEF IInv, ApprovedInv
  <2>6. Patient => WorkInv'
    BY <1>0, <2>2, <2>3, WorkKept, Blank, Zenon
  <2>7. Patient => RecordInv'
    BY <2>3, Zenon DEF IInv, RecordInv, Intact
  <2> QED
    BY <2>4, <2>5, <2>6, <2>7, Zenon DEF IInv
<1> QED
  BY <1>1, <1>2, Zenon

(* The user confirms: the record is saved, then the transaction relayed. *)
LEMMA ConfirmKeeps ==
  ASSUME IInv, NEW c \in Clicks, Confirm(c)
  PROVE  IInv'
<1>0. act[c].tx \in Txs /\ running /\ act[c].pc = "confirm" /\ wallet \in Wallets \cup {NoWallet}
  BY Types, Zenon DEF IInv, Confirm, At, HasTx
<1>1. PICK new \in {Idle, [pc |-> "relay", tx |-> act[c].tx, wallet |-> wallet]} :
        /\ Turn(c, new) /\ HasTx(new) /\ Fits(new, mem')
  <2>1. CASE Return(c)
    BY <2>1, Turns, Blank, Zenon DEF IInv, Return, Activations
  <2>2. CASE Become(c, "relay", act[c].tx)
    BY <1>0, <2>2, Turns, Zenon DEF IInv, Confirm, Labels, Activations, HasTx, Fits
  <2> QED
    BY <2>1, <2>2, Zenon DEF Confirm
<1>2. Patient => Alone(c) /\ mem = NoPending
  BY <1>0, AtWorkAlone, Blank, Zenon DEF IInv, WorkInv, Fits
<1>3. mem' = [tx |-> act[c].tx, wallet |-> wallet] /\ mem' \in Pending /\ mem'.tx = act[c].tx
  BY <1>0, Zenon DEF Confirm, Pending
<1>4. Wrote(mem')
  BY SaveWrote, Zenon DEF IInv, Confirm, Save
<1>5. /\ running' = running /\ wallet' = wallet /\ made' = made /\ accepted' = accepted /\ known' = known
      /\ approved' = approved \cup {act[c].tx} /\ busy' \in BOOLEAN
      /\ \/ transit' = transit /\ offered' = offered
         \/ transit' = transit \cup {act[c].tx} /\ offered' = offered \cup {act[c].tx}
  BY Zenon DEF Confirm, Return
<1>6. TypeOK'
  <2>1. act' \in [Activations -> Acts] /\ \A d \in Clicks : HasTx(act'[d])
    BY <1>1, Types, Zenon DEF IInv, Turn, Activations
  <2>2. file' \in Files /\ previous' \in Files /\ left' \in Budgets
    BY <1>3, <1>4, Types, Zenon DEF IInv, Wrote, Files
  <2> QED
    BY <1>0, <1>3, <1>5, <2>1, <2>2, Types, TypesKept, Zenon DEF IInv
<1>7. ApprovedInv'
  <2>1. \A r \in {mem', file', previous'} : r \in {mem', file, previous}
    BY <1>4, Zenon DEF Wrote
  <2> QED
    BY <1>3, <1>5, <2>1, Zenon DEF IInv, ApprovedInv
<1>8. Patient => WorkInv'
  BY <1>0, <1>1, <1>2, <1>5, WorkKept, Blank, Zenon
<1>9. ASSUME Patient, Intact' PROVE RecordInv'
  <2>1. Intact /\ file' = mem' /\ file = mem
    BY <1>0, <1>4, <1>9, Zenon DEF Wrote, IInv, RecordInv
  <2>2. offered \subseteq accepted
    BY <1>2, <1>9, <2>1, Types, Blank, Zenon DEF IInv, RecordInv
  <2> QED
    BY <1>3, <1>5, <2>1, <2>2, Zenon DEF RecordInv
<1> QED
  BY <1>6, <1>7, <1>8, <1>9, Zenon DEF IInv, RecordInv

(* The process ends. *)
LEMMA CrashKeeps ==
  ASSUME IInv, Crash
  PROVE  IInv'
<1>1. act' \in [Activations -> Acts] /\ \A a \in Activations : act'[a] = Idle
  BY Blank, Zenon DEF Crash
<1>2. TypeOK'
  BY <1>1, Blank, Types, TypesKept, Zenon DEF IInv, Crash, stored, node, past, Activations
<1>3. ApprovedInv'
  BY Zenon DEF IInv, ApprovedInv, Crash, stored, node, past
<1>4. WorkInv'
  BY <1>1, Blank, Zenon DEF WorkInv, Work
<1>5. Patient => RecordInv'
  BY Zenon DEF IInv, RecordInv, Intact, Crash, stored, node, past
<1> QED
  BY <1>2, <1>3, <1>4, <1>5, Zenon DEF IInv

(* The app starts and reads its settings. *)
LEMMA RestartKeeps ==
  ASSUME IInv, Restart
  PROVE  IInv'
<1>0. mem' \in Pending /\ mem' \in {NoPending, file, previous} /\ file' \in {file, Missing}
      /\ (file \in Pending => mem' = file /\ file' = file)
  BY Types, Blank, Zenon DEF IInv, Restart, Loadable, Load, Files
<1>1. UNCHANGED <<previous, wallet, busy, act, made, transit, accepted, known, approved, offered, left>>
  BY Zenon DEF Restart, node, past
<1>2. TypeOK'
  BY <1>0, <1>1, Types, TypesKept, Zenon DEF IInv, Restart, Files
<1>3. ApprovedInv'
  BY <1>0, <1>1, Zenon DEF IInv, ApprovedInv
<1>4. Patient => WorkInv'
  BY <1>1, Blank, Zenon DEF IInv, WorkInv, Restart
<1>5. Patient => RecordInv'
  BY <1>0, <1>1, Zenon DEF IInv, RecordInv, Intact
<1> QED
  BY <1>2, <1>3, <1>4, <1>5, Zenon DEF IInv

(* A settings file becomes unreadable. *)
LEMMA DamageKeeps ==
  ASSUME IInv, Damage
  PROVE  IInv'
<1>0. left' \in Budgets /\ left'.damage < MaxDamage
  BY Types DEF IInv, Damage, Budgets
<1>1. ~Intact'
  BY <1>0 DEF Intact
<1>2. UNCHANGED <<running, mem, previous, wallet, busy, act, made, transit, accepted, known, approved, offered>>
  BY Zenon DEF Damage, node, past
<1>3. TypeOK'
  BY <1>0, <1>2, Types, TypesKept, Zenon DEF IInv, Damage, Files
<1>4. ApprovedInv'
  BY <1>2, Zenon DEF IInv, ApprovedInv, Damage
<1>5. Patient => WorkInv'
  BY <1>2, Zenon DEF IInv, WorkInv
<1> QED
  BY <1>1, <1>3, <1>4, <1>5, Zenon DEF IInv, RecordInv

(* The node accepts or loses a call, or its wallet learns of a transaction. *)
LEMMA NodeKeeps ==
  ASSUME IInv, NEW t \in Txs, Accept(t) \/ Refuse(t) \/ WalletLearns(t)
  PROVE  IInv'
<1>0. UNCHANGED <<running, mem, file, previous, wallet, busy, act, made, approved, offered, left>>
  BY Zenon DEF Accept, Refuse, WalletLearns, stored, past
<1>1. /\ transit' \subseteq transit /\ accepted \subseteq accepted' /\ accepted' \subseteq offered
      /\ known' \subseteq accepted'
  BY Zenon DEF IInv, ApprovedInv, Accept, Refuse, WalletLearns
<1>2. TypeOK'
  <2>1. offered \subseteq Txs /\ transit \subseteq Txs
    BY Types, Zenon DEF IInv
  <2>2. transit' \subseteq Txs /\ accepted' \subseteq Txs /\ known' \subseteq Txs
    BY <1>1, <2>1, Zenon
  <2> QED
    BY <1>0, <2>2, Types, TypesKept, Zenon DEF IInv
<1>3. ApprovedInv'
  BY <1>0, <1>1, Zenon DEF IInv, ApprovedInv
<1>4. Patient => WorkInv' /\ RecordInv'
  BY <1>0, <1>1, Zenon DEF IInv, WorkInv, RecordInv, Intact
<1> QED
  BY <1>2, <1>3, <1>4, Zenon DEF IInv

(* Every step keeps the inductive invariant. *)
LEMMA NextKeepsIInv == IInv /\ [Next]_vars => IInv'
<1> SUFFICES ASSUME IInv, [Next]_vars PROVE IInv'
  BY Zenon
<1>0. CASE UNCHANGED vars
  BY <1>0, Zenon DEF IInv, TypeOK, ApprovedInv, WorkInv, RecordInv, Intact, vars, node, past
<1>1. ASSUME NEW w \in Wallets, OpenWallet(w) PROVE IInv'
  BY <1>1, OpenWalletKeeps, Zenon
<1>2. CASE WalletButton
  BY <1>2, WalletButtonKeeps, Zenon
<1>3. CASE OpenFails
  BY <1>3, OpenFailsKeeps, Zenon
<1>4. CASE OpenEnds
  BY <1>4, OpenEndsKeeps, Zenon
<1>5. CASE LockWallet
  BY <1>5, LockWalletKeeps, Zenon
<1>6. CASE Locked
  BY <1>6, LockedKeeps, Zenon
<1>7. CASE SaveSettings
  BY <1>7, SaveSettingsKeeps, Zenon
<1>8. ASSUME NEW c \in Clicks, Click(c) PROVE IInv'
  BY <1>8, ClickKeeps, Zenon
<1>9. ASSUME NEW c \in Clicks, Found(c) PROVE IInv'
  BY <1>9, FoundKeeps, Zenon
<1>10. ASSUME NEW c \in Clicks, NotFound(c) PROVE IInv'
  BY <1>10, NotFoundKeeps, Zenon
<1>11. ASSUME NEW c \in Clicks, RetryYes(c) PROVE IInv'
  BY <1>11, RetryYesKeeps, Zenon
<1>12. ASSUME NEW c \in Clicks, DialogOk(c) PROVE IInv'
  BY <1>12, DialogOkKeeps, Zenon
<1>13. ASSUME NEW c \in Clicks, DialogCancel(c) PROVE IInv'
  BY <1>13, DialogCancelKeeps, Zenon
<1>14. ASSUME NEW c \in Clicks, Prepared(c) PROVE IInv'
  BY <1>14, PreparedKeeps, Zenon
<1>15. ASSUME NEW c \in Clicks, Abandon(c) PROVE IInv'
  BY <1>15, AbandonKeeps, Zenon
<1>16. ASSUME NEW c \in Clicks, Confirm(c) PROVE IInv'
  BY <1>16, ConfirmKeeps, Zenon
<1>17. ASSUME NEW c \in Clicks, Relayed(c) PROVE IInv'
  BY <1>17, RelayedKeeps, Zenon
<1>18. ASSUME NEW c \in Clicks, RelayUnknown(c) PROVE IInv'
  BY <1>18, RelayUnknownKeeps, Zenon
<1>19. CASE Crash
  BY <1>19, CrashKeeps, Zenon
<1>20. CASE Restart
  BY <1>20, RestartKeeps, Zenon
<1>21. CASE Damage
  BY <1>21, DamageKeeps, Zenon
<1>22. ASSUME NEW t \in Txs, Accept(t) \/ Refuse(t) \/ WalletLearns(t) PROVE IInv'
  BY <1>22, NodeKeeps, Zenon
<1> QED
  BY <1>0, <1>1, <1>2, <1>3, <1>4, <1>5, <1>6, <1>7, <1>8, <1>9, <1>10, <1>11, <1>12, <1>13, <1>14,
     <1>15, <1>16, <1>17, <1>18, <1>19, <1>20, <1>21, <1>22, Zenon DEF Next

-----------------------------------------------------------------------------
(* The theorems.                                                            *)

(* The inductive invariant holds in every state of the window, the disk and *)
(* the node.                                                                *)
THEOREM Invariance == Spec => []IInv
BY InitIInv, NextKeepsIInv, PTL DEF Spec

(* Every field keeps its type, and an activation that asks about, confirms  *)
(* or relays a transaction has one.                                         *)
THEOREM TypeCorrect == Spec => []TypeOK
<1>1. IInv => TypeOK
  BY Zenon DEF IInv
<1> QED
  BY <1>1, Invariance, PTL

(* sendButton_Click and its retry hand the node only what the user has      *)
(* confirmed, however many activations interleave.                          *)
THEOREM ApprovedOnly == Spec => []OnlyApprovedOffered
<1>1. IInv => OnlyApprovedOffered
  BY Zenon DEF IInv, ApprovedInv, OnlyApprovedOffered
<1> QED
  BY <1>1, Invariance, PTL

(* "Record the ID before broadcasting, so a lost response survives restart": *)
(* with a user who waits, and as long as every write works and no file is   *)
(* damaged, the one transaction without a result is what a restart loads.   *)
THEOREM RestartRemembers ==
  ASSUME Patient
  PROVE  Spec => []RecordSurvivesRestart
<1>1. IInv => RecordSurvivesRestart
  BY Blank, Zenon DEF IInv, RecordInv, RecordSurvivesRestart, LostResponseSurvivesRestart, Load
<1> QED
  BY <1>1, Invariance, PTL

(* Under that condition a step of the window or the node is one the promise *)
(* allows.                                                                  *)
LEMMA PromiseStep ==
  ASSUME Patient, IInv, [Next]_vars, Intact', <<offered, accepted>>' # <<offered, accepted>>
  PROVE  \E t \in Txs : Promise!Offer(t) \/ Promise!Accept(t)
<1>1. \/ \E c \in Clicks : RetryYes(c) \/ Confirm(c)
      \/ \E t \in Txs : Accept(t)
  BY Zenon DEF Next, vars, node, past, OpenWallet, WalletButton, OpenFails, OpenEnds, LockWallet, Locked,
     SaveSettings, Click, Found, NotFound, DialogOk, DialogCancel, Prepared, Abandon, Relayed,
     RelayUnknown, Crash, Restart, Damage, Refuse, WalletLearns
<1>2. ASSUME NEW c \in Clicks, RetryYes(c)
      PROVE  \E t \in Txs : Promise!Offer(t)
  <2>1. /\ mem # NoPending /\ running /\ left' = left
        /\ offered' = offered \cup {mem.tx} /\ accepted' = accepted
    BY <1>2, Zenon DEF RetryYes, At
  <2>2. mem.tx \in Txs /\ \A t \in offered \ accepted : mem.tx = t
    BY <2>1, Types, Blank, Zenon DEF IInv, RecordInv, Intact
  <2> QED
    BY <2>1, <2>2, Zenon DEF Promise!Offer
<1>3. ASSUME NEW c \in Clicks, Confirm(c)
      PROVE  \E t \in Txs : Promise!Offer(t)
  <2>1. /\ act[c].pc = "confirm" /\ act[c].tx \in Txs /\ running
        /\ offered' = offered \cup {act[c].tx} /\ accepted' = accepted
    BY <1>3, Types, Zenon DEF IInv, Confirm, At, HasTx
  <2>2. mem = NoPending
    BY <2>1, Blank, Zenon DEF IInv, WorkInv, Fits
  <2>3. Intact
    BY <1>3, SaveWrote, Zenon DEF IInv, Confirm, Save, Wrote
  <2>4. offered \subseteq accepted
    BY <2>1, <2>2, <2>3, Types, Blank, Zenon DEF IInv, RecordInv
  <2> QED
    BY <2>1, <2>4, Zenon DEF Promise!Offer
<1>4. ASSUME NEW t \in Txs, Accept(t)
      PROVE  Promise!Accept(t)
  BY <1>4, Zenon DEF IInv, ApprovedInv, Accept, past, Promise!Accept
<1> QED
  BY <1>1, <1>2, <1>3, <1>4, Zenon

(* "Resubmit that same signed transaction? This cannot create a second      *)
(* payment": under the same condition the window implements PaymentPromise. *)
THEOREM ImplementsPromise ==
  ASSUME Patient
  PROVE  Spec => NoSecondPayment
<1>1. Init => Promise!Init
  BY Zenon DEF Init, Promise!Init
<1>2. IInv /\ [Next]_vars
        => [Intact' => \E t \in Txs : Promise!Offer(t) \/ Promise!Accept(t)]_<<offered, accepted>>
  BY PromiseStep, Zenon
<1> QED
  BY <1>1, <1>2, Invariance, PTL DEF Spec, NoSecondPayment

-----------------------------------------------------------------------------
(* The update installer.                                                    *)

Active(k) == helper[k].pc \notin {"unused", "ended"}

(* A helper's parent runs only while that window hands over or closes, is    *)
(* the parent of one helper, and has exited when files are replaced.         *)
HelperInv ==
  /\ \A k \in Attempts : helper[k].parent => ~Replacing(k) /\ (form.pc = "handing" \/ form.handed)
  /\ \A j, k \in Attempts : helper[j].parent /\ helper[k].parent => j = k
  /\ form.handed => form.pc \in {"open", "closing"}

(* The old release, and what a part of the new one over it leaves. *)
OldFiles == FilesOf("old")
Partial == {Overlay(part, OldFiles) : part \in SUBSET FilesOf("new")}

(* What the installation is while a helper is at a step. *)
Expected(k) ==
  CASE helper[k].pc \in {"verify", "wait", "backup", "apply", "reopen"} -> {OldFiles}
    [] helper[k].pc = "copy" -> Partial
    [] helper[k].pc \in {"start", "health", "kill"} -> {Updated}
    [] OTHER -> SUBSET AppFiles

(* As long as nothing disturbs the updates there is one helper at a time, no *)
(* old window runs while it works on the files, and the installation is what *)
(* its step says; the backup is the old release.                             *)
PhaseInv ==
  undisturbed =>
    /\ \A j, k \in Attempts : Active(j) /\ Active(k) => j = k
    /\ FormRuns /\ form.ver = "old" => disk.install = OldFiles
    /\ \A k \in Attempts : Active(k) =>
         /\ FormRuns => helper[k].parent \/ (Replacing(k) /\ form.ver = "new")
         /\ disk.install \in Expected(k)
         /\ Replacing(k) /\ helper[k].pc # "backup" => disk.backup[k] = OldFiles
    /\ (\A k \in Attempts : ~Active(k)) =>
         disk.install = OldFiles \/ (disk.install = Updated /\ disk.healthy # None)

UpdateIInv == UpdateTypeOK /\ HelperInv /\ PhaseInv

USE AttemptsAssumption

-----------------------------------------------------------------------------
(* Types.                                                                   *)

Forms == [pc : {"none", "opening", "open", "handing", "closing"}, ver : {"old", "new"},
          handed : BOOLEAN, by : Attempts \cup {None}]
Steps == {"unused", "verify", "wait", "backup", "apply", "copy", "start",
          "health", "kill", "restore", "reopen", "ended"}
Helpers == [pc : Steps, parent : BOOLEAN]
Releases == SUBSET AppFiles
Disks == [install : Releases, backup : [Attempts -> Releases],
          pending : Attempts \cup {None}, ready : BOOLEAN, healthy : Attempts \cup {None}]

(* The type invariant, by the record sets named above.                     *)
LEMMA UpdateTypes ==
  UpdateTypeOK <=> /\ form \in Forms /\ helper \in [Attempts -> Helpers] /\ disk \in Disks
                   /\ undisturbed \in BOOLEAN
BY Zenon DEF UpdateTypeOK, Forms, Steps, Helpers, Releases, Disks

(* The type invariant of the next state, part by part.                     *)
LEMMA UpdateTypesKept ==
  ASSUME form' \in Forms, helper' \in [Attempts -> Helpers], disk' \in Disks,
         undisturbed' \in BOOLEAN
  PROVE  UpdateTypeOK'
BY Zenon DEF UpdateTypeOK, Forms, Steps, Helpers, Releases, Disks

(* The records of a closed and of a new window.                            *)
LEMMA FormTypes ==
  /\ NoForm \in Forms
  /\ \A v \in {"old", "new"}, k \in Attempts \cup {None} : NewForm(v, k) \in Forms
BY Zenon DEF NoForm, NewForm, Forms, None

(* A window runs a release.                                                *)
LEMMA ProgramTypes == Programs \subseteq {"old", "new"}
BY Zenon DEF Programs

(* The files that copies leave, and the program among them.                *)
LEMMA Copies ==
  /\ OldFiles \in Releases /\ Updated \in Releases
  /\ \A dir \in Releases, part \in SUBSET FilesOf("new") : Overlay(part, dir) \in Releases
  /\ \A dir \in Partial : Overlay(FilesOf("new"), dir) = Updated
  /\ OldFiles \in Partial /\ Partial \subseteq Releases
  /\ disk.install = OldFiles => Programs = {"old"}
  /\ disk.install = Updated => Programs = {"new"}
<1>1. \A dir \in Releases, part \in SUBSET FilesOf("new") : Overlay(part, dir) \in Releases
  BY Zenon DEF Releases, AppFiles, Overlay
<1>2. OldFiles \in Releases
  BY Zenon DEF OldFiles, Releases, AppFiles
<1>3. Updated \in Releases
  BY <1>1, <1>2, Zenon DEF Updated, OldFiles
<1>4. \A dir \in Partial : Overlay(FilesOf("new"), dir) = Updated
  BY Zenon DEF Partial, Overlay, Updated, OldFiles
<1>5. OldFiles \in Partial
  <2>1. Overlay({}, OldFiles) = OldFiles
    BY Zenon DEF Overlay
  <2> QED
    BY <2>1, Zenon DEF Partial
<1>6. Partial \subseteq Releases
  BY <1>1, <1>2, Zenon DEF Partial
<1>7. ASSUME disk.install = OldFiles PROVE Programs = {"old"}
  BY <1>7 DEF Programs, OldFiles, FilesOf
<1>8. ASSUME disk.install = Updated PROVE Programs = {"new"}
  <2>1. <<"program", "new">> \in Updated
    BY DEF Updated, Overlay, FilesOf
  <2>2. <<"program", "old">> \notin Updated
    BY DEF Updated, Overlay, FilesOf
  <2> QED
    BY <1>8, <2>1, <2>2 DEF Programs
<1> QED
  BY <1>1, <1>2, <1>3, <1>4, <1>5, <1>6, <1>7, <1>8, Zenon

(* A helper goes from one step to another. *)
LEMMA GotoEffect ==
  ASSUME UpdateTypeOK, NEW k \in Attempts, NEW pc \in Steps, HelperGoto(k, pc)
  PROVE  /\ helper' \in [Attempts -> Helpers]
         /\ helper'[k].pc = pc /\ helper'[k].parent = helper[k].parent
         /\ \A j \in Attempts \ {k} : helper'[j] = helper[j]
<1>1. helper \in [Attempts -> Helpers] /\ [helper[k] EXCEPT !.pc = pc] \in Helpers
  BY UpdateTypes, Zenon DEF Helpers
<1> QED
  BY <1>1, Zenon DEF HelperGoto, Helpers

(* The window ends. *)
LEMMA EndEffect ==
  ASSUME UpdateTypeOK, EndForm
  PROVE  /\ form' = NoForm /\ helper' \in [Attempts -> Helpers]
         /\ \A k \in Attempts : helper'[k].pc = helper[k].pc /\ ~helper'[k].parent
<1>1. \A k \in Attempts : [helper[k] EXCEPT !.parent = FALSE] \in Helpers
  BY UpdateTypes, Zenon DEF Helpers
<1> QED
  BY <1>1, UpdateTypes, Zenon DEF EndForm, Helpers

(* The old release is installed and no update has begun.                   *)
LEMMA UpdateInitIInv == UpdateInit => UpdateIInv
<1> SUFFICES ASSUME UpdateInit PROVE UpdateIInv
  BY Zenon
<1>1. UpdateTypeOK
  <2>1. helper \in [Attempts -> Helpers] /\ disk \in Disks
    <3>1. OldFiles \in Releases /\ {} \in Releases
      BY Copies, Zenon DEF Releases
    <3> QED
      BY <3>1, Zenon DEF UpdateInit, Helpers, Steps, Disks, OldFiles, None
  <2> QED
    BY <2>1, FormTypes, UpdateTypes, Zenon DEF UpdateInit
<1>2. HelperInv /\ PhaseInv
  BY Zenon DEF UpdateInit, HelperInv, PhaseInv, Active, Replacing, FormRuns, NoForm, OldFiles
<1> QED
  BY <1>1, <1>2, Zenon DEF UpdateIInv

-----------------------------------------------------------------------------
(* Steps of the window.                                                     *)

(* The app is opened by hand. *)
LEMMA OpenFormKeeps ==
  ASSUME UpdateIInv, OpenForm
  PROVE  UpdateIInv'
<1>0. PICK ver \in Programs : form' = NewForm(ver, None)
  BY Zenon DEF OpenForm
<1>1. UpdateTypeOK'
  BY <1>0, UpdateTypesKept, UpdateTypes, FormTypes, ProgramTypes, Zenon DEF UpdateIInv, OpenForm
<1>2. HelperInv'
  BY <1>0, Zenon DEF UpdateIInv, HelperInv, FormRuns, Replacing, OpenForm, NewForm
<1>3. PhaseInv'
  <2>1. disk.install = Updated => ver = "new"
    BY <1>0, Copies, Zenon
  <2> QED
    BY <1>0, <2>1, Zenon DEF UpdateIInv, PhaseInv, FormRuns, Active, OpenForm, NewForm
<1> QED
  BY <1>1, <1>2, <1>3, Zenon DEF UpdateIInv

(* MarkCurrentVersionHealthy. *)
LEMMA ShownKeeps ==
  ASSUME UpdateIInv, Shown
  PROVE  UpdateIInv'
<1>0. /\ form'.pc = "open" /\ form'.ver = form.ver /\ form'.handed = form.handed
      /\ disk'.install = disk.install /\ disk'.backup = disk.backup
      /\ disk.healthy # None => disk'.healthy # None
  BY UpdateTypes, Zenon DEF UpdateIInv, Shown, Forms, Disks
<1>1. UpdateTypeOK'
  <2>1. form' \in Forms
    BY UpdateTypes, Zenon DEF UpdateIInv, Shown, Forms
  <2>2. disk' \in Disks
    BY UpdateTypes, Zenon DEF UpdateIInv, Shown, Disks
  <2> QED
    BY <2>1, <2>2, UpdateTypesKept, UpdateTypes, Zenon DEF UpdateIInv, Shown
<1>2. HelperInv'
  BY <1>0, Zenon DEF UpdateIInv, HelperInv, FormRuns, Replacing, Shown
<1>3. PhaseInv'
  BY <1>0 DEF UpdateIInv, HelperInv, PhaseInv, FormRuns, Replacing, Active, Expected, Shown
<1> QED
  BY <1>1, <1>2, <1>3, Zenon DEF UpdateIInv

(* The window ends. *)
LEMMA FormEndsKeeps ==
  ASSUME UpdateIInv, FormEnds
  PROVE  UpdateIInv'
<1>0. /\ form' = NoForm /\ helper' \in [Attempts -> Helpers]
      /\ \A k \in Attempts : helper'[k].pc = helper[k].pc /\ ~helper'[k].parent
  BY EndEffect, Zenon DEF UpdateIInv, FormEnds
<1>1. UpdateTypeOK'
  BY <1>0, UpdateTypesKept, UpdateTypes, FormTypes, Zenon DEF UpdateIInv, FormEnds
<1>2. HelperInv'
  BY <1>0, Zenon DEF UpdateIInv, HelperInv, FormRuns, Replacing, FormEnds, NoForm
<1>3. PhaseInv'
  BY <1>0 DEF UpdateIInv, HelperInv, PhaseInv, FormRuns, Replacing, Active, Expected, FormEnds, NoForm
<1> QED
  BY <1>1, <1>2, <1>3, Zenon DEF UpdateIInv

(* The helper is started. *)
LEMMA StartUpdateHandoffKeeps ==
  ASSUME UpdateIInv, NEW k \in Attempts, StartUpdateHandoff(k)
  PROVE  UpdateIInv'
<1>0. /\ helper' \in [Attempts -> Helpers] /\ disk' \in Disks /\ form' \in Forms
      /\ helper'[k].pc = "verify" /\ helper'[k].parent
      /\ \A j \in Attempts \ {k} : helper'[j] = helper[j]
      /\ form'.pc = "handing" /\ form'.ver = "old" /\ ~form'.handed
      /\ disk'.install = disk.install /\ disk'.backup = disk.backup
  <2>1. [pc |-> "verify", parent |-> TRUE] \in Helpers
    BY Zenon DEF Helpers, Steps
  <2>2. helper \in [Attempts -> Helpers] /\ disk \in Disks /\ form \in Forms
    BY UpdateTypes, Zenon DEF UpdateIInv
  <2>3. helper' \in [Attempts -> Helpers] /\ helper'[k] = [pc |-> "verify", parent |-> TRUE]
        /\ \A j \in Attempts \ {k} : helper'[j] = helper[j]
    BY <2>1, <2>2, Zenon DEF StartUpdateHandoff
  <2>4. form' \in Forms /\ form'.pc = "handing" /\ form'.ver = "old" /\ ~form'.handed
    BY <2>2, Zenon DEF StartUpdateHandoff, Forms
  <2>5. disk' \in Disks /\ disk'.install = disk.install /\ disk'.backup = disk.backup
    BY <2>2, Zenon DEF StartUpdateHandoff, Disks
  <2> QED
    BY <2>3, <2>4, <2>5
<1>a. form.pc = "open" /\ form.ver = "old" /\ ~form.handed /\ undisturbed' = undisturbed
  BY Zenon DEF StartUpdateHandoff
<1>b. \A j \in Attempts : ~helper[j].parent
  BY <1>a, Zenon DEF UpdateIInv, HelperInv
<1>c. undisturbed => \A j \in Attempts : ~Active(j)
  BY <1>a, <1>b, Zenon DEF UpdateIInv, PhaseInv, FormRuns
<1>1. UpdateTypeOK'
  BY <1>0, UpdateTypesKept, UpdateTypes, Zenon DEF UpdateIInv, StartUpdateHandoff
<1>2. HelperInv'
  BY <1>0, <1>b, Zenon DEF UpdateIInv, HelperInv, FormRuns, Replacing, Shown
<1>3. PhaseInv'
  BY <1>0, <1>a, <1>b, <1>c DEF UpdateIInv, HelperInv, PhaseInv, FormRuns, Replacing, Active, Expected,
         Shown
<1> QED
  BY <1>1, <1>2, <1>3, Zenon DEF UpdateIInv

(* The helper is ready. *)
LEMMA HelperReadyKeeps ==
  ASSUME UpdateIInv, HelperReady
  PROVE  UpdateIInv'
<1>0. form' \in Forms /\ form'.pc = "closing" /\ form'.ver = form.ver /\ form'.handed
  BY UpdateTypes, Zenon DEF UpdateIInv, HelperReady, Forms
<1>1. UpdateTypeOK'
  BY <1>0, UpdateTypesKept, UpdateTypes, Zenon DEF UpdateIInv, HelperReady
<1>2. HelperInv'
  BY <1>0, Zenon DEF UpdateIInv, HelperInv, FormRuns, Replacing, HelperReady
<1>3. PhaseInv'
  BY <1>0, Zenon DEF UpdateIInv, HelperInv, PhaseInv, FormRuns, Replacing, Active, Expected, HelperReady
<1> QED
  BY <1>1, <1>2, <1>3, Zenon DEF UpdateIInv

(* The helper is given up. *)
LEMMA HelperNotReadyKeeps ==
  ASSUME UpdateIInv, NEW k \in Attempts, HelperNotReady(k)
  PROVE  UpdateIInv'
<1>0. /\ helper' \in [Attempts -> Helpers] /\ form' \in Forms
      /\ helper'[k].pc = "ended" /\ ~helper'[k].parent
      /\ \A j \in Attempts \ {k} : helper'[j] = helper[j]
      /\ form'.pc = "open" /\ form'.ver = form.ver /\ form'.handed = form.handed
  <2>1. [pc |-> "ended", parent |-> FALSE] \in Helpers
    BY Zenon DEF Helpers, Steps
  <2>2. helper' \in [Attempts -> Helpers] /\ helper'[k] = [pc |-> "ended", parent |-> FALSE]
        /\ \A j \in Attempts \ {k} : helper'[j] = helper[j]
    BY <2>1, UpdateTypes, Zenon DEF UpdateIInv, HelperNotReady
  <2>3. form' \in Forms /\ form'.pc = "open" /\ form'.ver = form.ver /\ form'.handed = form.handed
    BY UpdateTypes, Zenon DEF UpdateIInv, HelperNotReady, Forms
  <2> QED
    BY <2>2, <2>3
<1>1. UpdateTypeOK'
  BY <1>0, UpdateTypesKept, UpdateTypes, Zenon DEF UpdateIInv, HelperNotReady
<1>2. HelperInv'
  BY <1>0, Zenon DEF UpdateIInv, HelperInv, FormRuns, Replacing, HelperNotReady
<1>3. PhaseInv'
  <2> SUFFICES ASSUME undisturbed PROVE PhaseInv'
    BY Zenon DEF PhaseInv, HelperNotReady
  <2>1. \A j \in Attempts : Active(j)' => Active(j) /\ j # k /\ helper'[j] = helper[j]
    BY <1>0, Zenon DEF Active
  <2>2. helper[k].parent /\ FormRuns /\ FormRuns' /\ disk' = disk
    BY <1>0, Zenon DEF HelperNotReady, FormRuns
  <2>3. Active(k) => disk.install = OldFiles
    BY <2>2 DEF UpdateIInv, HelperInv, PhaseInv, Replacing, Active, Expected, UpdateTypeOK
  <2>4. \A j \in Attempts : ~Active(j)' => ~Active(j) \/ j = k
    BY <1>0, Zenon DEF Active
  <2> QED
    BY <1>0, <2>1, <2>2, <2>3, <2>4 DEF UpdateIInv, PhaseInv, Replacing, Expected, HelperNotReady
<1> QED
  BY <1>1, <1>2, <1>3, Zenon DEF UpdateIInv

(* OnFormClosing fails. *)
LEMMA ShutdownFailsKeeps ==
  ASSUME UpdateIInv, ShutdownFails
  PROVE  UpdateIInv'
<1>0. form' \in Forms /\ form'.pc = "open" /\ form'.ver = form.ver /\ form'.handed = form.handed
  BY UpdateTypes, Zenon DEF UpdateIInv, ShutdownFails, Forms
<1>1. UpdateTypeOK'
  BY <1>0, UpdateTypesKept, UpdateTypes, Zenon DEF UpdateIInv, ShutdownFails
<1>2. HelperInv'
  BY <1>0, Zenon DEF UpdateIInv, HelperInv, FormRuns, Replacing, ShutdownFails
<1>3. PhaseInv'
  BY <1>0, Zenon DEF UpdateIInv, HelperInv, PhaseInv, FormRuns, Replacing, Active, Expected, ShutdownFails
<1> QED
  BY <1>1, <1>2, <1>3, Zenon DEF UpdateIInv

-----------------------------------------------------------------------------
(* Steps of the helper.                                                     *)

(* OpenVerifiedPackage and the .ready file. *)
LEMMA VerifyKeeps ==
  ASSUME UpdateIInv, NEW k \in Attempts, Verify(k)
  PROVE  UpdateIInv'
<1>0. PICK pc \in {"wait", "ended"} :
        /\ helper' \in [Attempts -> Helpers]
        /\ helper'[k].pc = pc /\ helper'[k].parent = helper[k].parent
        /\ \A j \in Attempts \ {k} : helper'[j] = helper[j]
        /\ disk'.install = disk.install /\ disk'.backup = disk.backup
        /\ disk'.healthy = disk.healthy
  BY GotoEffect, UpdateTypes, Zenon DEF UpdateIInv, Steps, Disks, Install, Verify
<1>d. disk' \in Disks
  BY UpdateTypes, Zenon DEF UpdateIInv, Disks, Releases, Install, Verify
<1>1. UpdateTypeOK'
  BY <1>0, <1>d, UpdateTypesKept, UpdateTypes, Zenon DEF UpdateIInv, Verify
<1>2. HelperInv'
  BY <1>0 DEF UpdateIInv, HelperInv, FormRuns, Replacing, HelperAt, Verify
<1>3. PhaseInv'
  BY <1>0 DEF UpdateIInv, HelperInv, PhaseInv, FormRuns, Replacing, Active, Expected, HelperAt, Verify
<1> QED
  BY <1>1, <1>2, <1>3, Zenon DEF UpdateIInv

(* WaitForParentExit. *)
LEMMA WaitForParentExitKeeps ==
  ASSUME UpdateIInv, NEW k \in Attempts, WaitForParentExit(k)
  PROVE  UpdateIInv'
<1>0. PICK pc \in {"ended", "backup"} :
        /\ helper' \in [Attempts -> Helpers]
        /\ helper'[k].pc = pc /\ helper'[k].parent = helper[k].parent
        /\ \A j \in Attempts \ {k} : helper'[j] = helper[j]
        /\ pc = "backup" => ~helper[k].parent
  BY GotoEffect, UpdateTypes, Zenon DEF UpdateIInv, Steps, Disks, Install, WaitForParentExit
<1>1. UpdateTypeOK'
  BY <1>0, UpdateTypesKept, UpdateTypes, Zenon DEF UpdateIInv, WaitForParentExit
<1>2. HelperInv'
  BY <1>0 DEF UpdateIInv, HelperInv, FormRuns, Replacing, HelperAt, WaitForParentExit
<1>3. PhaseInv'
  BY <1>0 DEF UpdateIInv, HelperInv, PhaseInv, FormRuns, Replacing, Active, Expected, HelperAt,
         WaitForParentExit
<1> QED
  BY <1>1, <1>2, <1>3, Zenon DEF UpdateIInv

(* CreateBackup. *)
LEMMA CreateBackupKeeps ==
  ASSUME UpdateIInv, NEW k \in Attempts, CreateBackup(k)
  PROVE  UpdateIInv'
<1>0. PICK pc \in {"apply", "ended"} :
        /\ helper' \in [Attempts -> Helpers]
        /\ helper'[k].pc = pc /\ helper'[k].parent = helper[k].parent
        /\ \A j \in Attempts \ {k} : helper'[j] = helper[j]
        /\ disk'.install = disk.install /\ disk'.healthy = disk.healthy
        /\ pc = "apply" => disk'.backup[k] = disk.install
        /\ \A j \in Attempts \ {k} : disk'.backup[j] = disk.backup[j]
  BY GotoEffect, UpdateTypes DEF UpdateIInv, Steps, Disks, Install, CreateBackup
<1>d. disk' \in Disks
  <2>1. disk.backup \in [Attempts -> Releases] /\ disk.install \in Releases
    BY UpdateTypes, Zenon DEF UpdateIInv, Disks
  <2>2. [disk.backup EXCEPT ![k] = disk.install] \in [Attempts -> Releases]
    BY <2>1, Zenon
  <2> QED
    BY <2>2, UpdateTypes, Zenon DEF UpdateIInv, Disks, CreateBackup
<1>1. UpdateTypeOK'
  BY <1>0, <1>d, UpdateTypesKept, UpdateTypes, Zenon DEF UpdateIInv, CreateBackup
<1>2. HelperInv'
  BY <1>0 DEF UpdateIInv, HelperInv, Replacing, HelperAt, CreateBackup
<1>3. PhaseInv'
  BY <1>0 DEF UpdateIInv, HelperInv, PhaseInv, FormRuns, Replacing, Active, Expected, HelperAt,
         CreateBackup
<1> QED
  BY <1>1, <1>2, <1>3, Zenon DEF UpdateIInv

(* ApplyPackage before the first file. *)
LEMMA ApplyPackageKeeps ==
  ASSUME UpdateIInv, NEW k \in Attempts, ApplyPackage(k)
  PROVE  UpdateIInv'
<1>0. PICK pc \in {"copy", "restore"} :
        /\ helper' \in [Attempts -> Helpers]
        /\ helper'[k].pc = pc /\ helper'[k].parent = helper[k].parent
        /\ \A j \in Attempts \ {k} : helper'[j] = helper[j]
        /\ disk'.backup = disk.backup
        /\ pc = "copy" => \E part \in SUBSET FilesOf("new") : disk'.install = Overlay(part, disk.install)
        /\ pc = "restore" => disk'.install = disk.install
  BY GotoEffect, UpdateTypes, Zenon DEF UpdateIInv, Steps, Disks, Install, ApplyPackage
<1>d. disk' \in Disks
  <2>1. \/ UNCHANGED disk
        \/ \E part \in SUBSET FilesOf("new") : disk' = [disk EXCEPT !.install = Overlay(part, disk.install)]
    BY Zenon DEF ApplyPackage, Install
  <2>2. disk \in Disks /\ disk.install \in Releases
    BY UpdateTypes, Zenon DEF UpdateIInv, Disks
  <2>3. \A part \in SUBSET FilesOf("new") : Overlay(part, disk.install) \in Releases
    BY <2>2, Copies
  <2> QED
    BY <2>1, <2>2, <2>3, Zenon DEF Disks
<1>1. UpdateTypeOK'
  BY <1>0, <1>d, UpdateTypesKept, UpdateTypes, Zenon DEF UpdateIInv, ApplyPackage
<1>2. HelperInv'
  BY <1>0 DEF UpdateIInv, HelperInv, FormRuns, Replacing, HelperAt, ApplyPackage
<1>3. PhaseInv'
  <2> SUFFICES ASSUME undisturbed' PROVE PhaseInv'
    BY Zenon DEF PhaseInv
  <2>1. /\ undisturbed /\ helper[k].pc = "apply" /\ form' = form /\ Active(k) /\ Replacing(k)
        /\ Active(k)' /\ Replacing(k)'
    BY <1>0, Zenon DEF ApplyPackage, HelperAt, Active, Replacing
  <2>2. \A j \in Attempts : Active(j)' => j = k
    BY <1>0, <2>1, Zenon DEF UpdateIInv, PhaseInv, Active
  <2>3. disk.install = OldFiles /\ disk.backup[k] = OldFiles /\ ~helper[k].parent
    BY <2>1, Zenon DEF UpdateIInv, HelperInv, PhaseInv, Expected
  <2>4. disk'.install \in Expected(k)'
    <3>1. CASE pc = "copy"
      BY <1>0, <2>3, <3>1, Zenon DEF Expected, Partial
    <3>2. CASE pc = "restore"
      BY <1>0, <2>3, <3>2, Copies, Zenon DEF Expected, Releases
    <3> QED
      BY <1>0, <3>1, <3>2, Zenon
  <2>5. FormRuns => form.ver = "new"
    BY <2>1, <2>3, Zenon DEF UpdateIInv, PhaseInv
  <2> QED
    BY <1>0, <2>1, <2>2, <2>3, <2>4, <2>5, Zenon DEF PhaseInv, FormRuns
<1> QED
  BY <1>1, <1>2, <1>3, Zenon DEF UpdateIInv

(* ApplyPackage from its first file. *)
LEMMA CopiedKeeps ==
  ASSUME UpdateIInv, NEW k \in Attempts, Copied(k)
  PROVE  UpdateIInv'
<1>0. PICK pc \in {"start", "restore"} :
        /\ helper' \in [Attempts -> Helpers]
        /\ helper'[k].pc = pc /\ helper'[k].parent = helper[k].parent
        /\ \A j \in Attempts \ {k} : helper'[j] = helper[j]
        /\ disk'.backup = disk.backup
        /\ pc = "start" => disk'.install = Overlay(FilesOf("new"), disk.install) /\ ~FormRuns
        /\ pc = "restore" => disk'.install = disk.install
  BY GotoEffect, UpdateTypes, Zenon DEF UpdateIInv, Steps, Disks, Install, Copied
<1>d. disk' \in Disks
  <2>1. UNCHANGED disk \/ disk' = [disk EXCEPT !.install = Overlay(FilesOf("new"), disk.install)]
    BY Zenon DEF Copied, Install
  <2>2. disk \in Disks /\ disk.install \in Releases
    BY UpdateTypes, Zenon DEF UpdateIInv, Disks
  <2>3. Overlay(FilesOf("new"), disk.install) \in Releases
    BY <2>2, Copies
  <2> QED
    BY <2>1, <2>2, <2>3, Zenon DEF Disks
<1>1. UpdateTypeOK'
  BY <1>0, <1>d, UpdateTypesKept, UpdateTypes, Zenon DEF UpdateIInv, Copied
<1>2. HelperInv'
  BY <1>0, Zenon DEF UpdateIInv, HelperInv, FormRuns, Replacing, HelperAt, Copied
<1>3. PhaseInv'
  <2> SUFFICES ASSUME undisturbed' PROVE PhaseInv'
    BY Zenon DEF PhaseInv
  <2>1. /\ undisturbed /\ helper[k].pc = "copy" /\ form' = form /\ Active(k) /\ Replacing(k)
        /\ Active(k)' /\ Replacing(k)'
    BY <1>0, Zenon DEF Copied, HelperAt, Active, Replacing
  <2>2. \A j \in Attempts : Active(j)' => j = k
    BY <1>0, <2>1, Zenon DEF UpdateIInv, PhaseInv, Active
  <2>3. disk.install \in Partial /\ disk.backup[k] = OldFiles /\ ~helper[k].parent
    BY <2>1, Zenon DEF UpdateIInv, HelperInv, PhaseInv, Expected
  <2>4. disk'.install \in Expected(k)'
    <3>1. CASE pc = "start"
      BY <1>0, <2>3, <3>1, Copies, Zenon DEF Expected
    <3>2. CASE pc = "restore"
      BY <1>0, <2>3, <3>2, Copies, Zenon DEF Expected, Releases
    <3> QED
      BY <1>0, <3>1, <3>2, Zenon
  <2>5. FormRuns => form.ver = "new"
    BY <2>1, <2>3, Zenon DEF UpdateIInv, PhaseInv
  <2> QED
    BY <1>0, <2>1, <2>2, <2>3, <2>4, <2>5, Zenon DEF PhaseInv, FormRuns
<1> QED
  BY <1>1, <1>2, <1>3, Zenon DEF UpdateIInv

(* StartApplication. *)
LEMMA StartApplicationKeeps ==
  ASSUME UpdateIInv, NEW k \in Attempts, StartApplication(k)
  PROVE  UpdateIInv'
<1>0. PICK pc \in {"health", "restore"} :
        /\ helper' \in [Attempts -> Helpers]
        /\ helper'[k].pc = pc /\ helper'[k].parent = helper[k].parent
        /\ \A j \in Attempts \ {k} : helper'[j] = helper[j]
        /\ form' = form \/ (~FormRuns /\ \E ver \in Programs : form' = NewForm(ver, k))
  BY GotoEffect, UpdateTypes, Zenon DEF UpdateIInv, Steps, Disks, Install, StartApplication
<1>1. UpdateTypeOK'
  BY <1>0, UpdateTypesKept, UpdateTypes, FormTypes, ProgramTypes, Zenon DEF UpdateIInv, StartApplication
<1>2. HelperInv'
  BY <1>0 DEF UpdateIInv, HelperInv, FormRuns, Replacing, HelperAt, StartApplication, NewForm
<1>3. PhaseInv'
  <2> SUFFICES ASSUME undisturbed' PROVE PhaseInv'
    BY Zenon DEF PhaseInv
  <2>1. /\ undisturbed /\ helper[k].pc = "start" /\ disk' = disk /\ Active(k) /\ Replacing(k)
        /\ Active(k)' /\ Replacing(k)'
    BY <1>0, Zenon DEF StartApplication, HelperAt, Active, Replacing
  <2>2. \A j \in Attempts : Active(j)' => j = k
    BY <1>0, <2>1, Zenon DEF UpdateIInv, PhaseInv, Active
  <2>3. disk.install = Updated /\ disk.backup[k] = OldFiles /\ ~helper[k].parent
    BY <2>1, Zenon DEF UpdateIInv, HelperInv, PhaseInv, Expected
  <2>4. disk'.install \in Expected(k)'
    BY <1>0, <2>1, <2>3, Copies, Zenon DEF Expected, Releases
  <2>5. FormRuns' => form'.ver = "new"
    <3>1. FormRuns => form.ver = "new"
      BY <2>1, <2>3, Zenon DEF UpdateIInv, PhaseInv
    <3>2. Programs = {"new"}
      BY <2>3, Copies, Zenon
    <3>3. form' = form \/ form' = NewForm("new", k)
      BY <1>0, <3>2, Zenon
    <3> QED
      BY <3>1, <3>3 DEF FormRuns, NewForm
  <2> QED
    BY <1>0, <2>1, <2>2, <2>3, <2>4, <2>5, Zenon DEF PhaseInv
<1> QED
  BY <1>1, <1>2, <1>3, Zenon DEF UpdateIInv

(* The marker has this token. *)
LEMMA HealthyKeeps ==
  ASSUME UpdateIInv, NEW k \in Attempts, Healthy(k)
  PROVE  UpdateIInv'
<1>0. PICK pc \in {"ended"} :
        /\ helper' \in [Attempts -> Helpers]
        /\ helper'[k].pc = pc /\ helper'[k].parent = helper[k].parent
        /\ \A j \in Attempts \ {k} : helper'[j] = helper[j]
        /\ disk'.install = disk.install /\ disk'.backup = disk.backup
        /\ disk'.healthy = disk.healthy
  BY GotoEffect, UpdateTypes, Zenon DEF UpdateIInv, Steps, Disks, Install, Healthy
<1>d. disk' \in Disks
  BY UpdateTypes, Zenon DEF UpdateIInv, Disks, Releases, Install, Healthy
<1>1. UpdateTypeOK'
  BY <1>0, <1>d, UpdateTypesKept, UpdateTypes, Zenon DEF UpdateIInv, Healthy
<1>2. HelperInv'
  BY <1>0 DEF UpdateIInv, HelperInv, FormRuns, Replacing, HelperAt, Healthy
<1>3. PhaseInv'
  BY <1>0 DEF UpdateIInv, HelperInv, PhaseInv, FormRuns, Replacing, Active, Expected, HelperAt, Healthy,
         Attempts, None
<1> QED
  BY <1>1, <1>2, <1>3, Zenon DEF UpdateIInv

(* No marker in time. *)
LEMMA UnhealthyKeeps ==
  ASSUME UpdateIInv, NEW k \in Attempts, Unhealthy(k)
  PROVE  UpdateIInv'
<1>0. PICK pc \in {"kill"} :
        /\ helper' \in [Attempts -> Helpers]
        /\ helper'[k].pc = pc /\ helper'[k].parent = helper[k].parent
        /\ \A j \in Attempts \ {k} : helper'[j] = helper[j]
  BY GotoEffect, UpdateTypes, Zenon DEF UpdateIInv, Steps, Disks, Install, Unhealthy
<1>1. UpdateTypeOK'
  BY <1>0, UpdateTypesKept, UpdateTypes, Zenon DEF UpdateIInv, Unhealthy
<1>2. HelperInv'
  BY <1>0, Zenon DEF UpdateIInv, HelperInv, FormRuns, Replacing, HelperAt, Unhealthy
<1>3. PhaseInv'
  BY <1>0 DEF UpdateIInv, HelperInv, PhaseInv, FormRuns, Replacing, Active, Expected, HelperAt, Unhealthy
<1> QED
  BY <1>1, <1>2, <1>3, Zenon DEF UpdateIInv

(* TryTerminate. *)
LEMMA TryTerminateKeeps ==
  ASSUME UpdateIInv, NEW k \in Attempts, TryTerminate(k)
  PROVE  UpdateIInv'
<1>0. /\ helper' \in [Attempts -> Helpers] /\ ~helper'[k].parent
      /\ \A j \in Attempts \ {k} : helper'[j].pc = helper[j].pc
      /\ \/ /\ form' = NoForm /\ helper'[k].pc = "restore" /\ undisturbed' = undisturbed
            /\ \A j \in Attempts : ~helper'[j].parent
         \/ /\ form' = form /\ \A j \in Attempts \ {k} : helper'[j] = helper[j]
            /\ \/ helper'[k].pc = "ended" /\ undisturbed' = FALSE
               \/ helper'[k].pc = "restore" /\ undisturbed' = undisturbed
  <2>0. helper \in [Attempts -> Helpers] /\ ~helper[k].parent
    BY UpdateTypes, Zenon DEF UpdateIInv, HelperInv, Replacing, TryTerminate, HelperAt
  <2>1. CASE HelperGoto(k, "ended") /\ undisturbed' = FALSE /\ UNCHANGED form
    BY <2>0, <2>1, GotoEffect, Zenon DEF UpdateIInv, Steps
  <2>2. CASE HelperGoto(k, "restore") /\ UNCHANGED <<form, undisturbed>>
    BY <2>0, <2>2, GotoEffect, Zenon DEF UpdateIInv, Steps
  <2>3. CASE /\ form' = NoForm /\ UNCHANGED undisturbed
             /\ helper' = [j \in Attempts |-> IF j = k THEN [helper[k] EXCEPT !.pc = "restore"]
                                              ELSE [helper[j] EXCEPT !.parent = FALSE]]
    <3>1. \A j \in Attempts : /\ [helper[j] EXCEPT !.parent = FALSE] \in Helpers
                              /\ [helper[j] EXCEPT !.pc = "restore"] \in Helpers
      BY <2>0, Zenon DEF Helpers, Steps
    <3> QED
      BY <2>0, <2>3, <3>1, Zenon DEF Helpers
  <2> QED
    BY <2>1, <2>2, <2>3, Zenon DEF TryTerminate
<1>1. UpdateTypeOK'
  BY <1>0, UpdateTypesKept, UpdateTypes, FormTypes, Zenon DEF UpdateIInv, TryTerminate
<1>2. HelperInv'
  BY <1>0 DEF UpdateIInv, HelperInv, FormRuns, Replacing, TryTerminate, NoForm, HelperAt
<1>3. PhaseInv'
  <2> SUFFICES ASSUME undisturbed' PROVE PhaseInv'
    BY Zenon DEF PhaseInv
  <2>1. /\ undisturbed /\ helper'[k].pc = "restore" /\ helper[k].pc = "kill" /\ disk' = disk
        /\ form' \in {NoForm, form}
    BY <1>0, Zenon DEF TryTerminate, HelperAt
  <2>2. \A j \in Attempts : Active(j)' => j = k
    BY <1>0, <2>1, Zenon DEF UpdateIInv, PhaseInv, Active
  <2>3. Active(k)' /\ Active(k) /\ Replacing(k) /\ Replacing(k)'
    BY <2>1, Zenon DEF Active, Replacing
  <2>4. disk'.install \in Expected(k)'
    BY <2>1, UpdateTypes, Zenon DEF UpdateIInv, Expected, Disks, Releases
  <2>5. ~helper[k].parent
    BY <2>3, Zenon DEF UpdateIInv, HelperInv
  <2> QED
    BY <2>1, <2>2, <2>3, <2>4, <2>5 DEF UpdateIInv, PhaseInv, FormRuns, NoForm
<1> QED
  BY <1>1, <1>2, <1>3, Zenon DEF UpdateIInv

(* RestoreBackup. *)
LEMMA RestoreBackupKeeps ==
  ASSUME UpdateIInv, NEW k \in Attempts, RestoreBackup(k)
  PROVE  UpdateIInv'
<1>0. PICK pc \in {"reopen", "ended"} :
        /\ helper' \in [Attempts -> Helpers]
        /\ helper'[k].pc = pc /\ helper'[k].parent = helper[k].parent
        /\ \A j \in Attempts \ {k} : helper'[j] = helper[j]
        /\ disk'.backup = disk.backup /\ disk'.healthy = disk.healthy
        /\ pc = "reopen" => disk'.install = disk.backup[k] /\ undisturbed' = undisturbed
        /\ pc = "ended" => undisturbed' = FALSE
  BY GotoEffect, UpdateTypes, Zenon DEF UpdateIInv, Steps, Disks, Install, RestoreBackup
<1>d. disk' \in Disks
  <2>1. disk' = disk \/ (disk' = [disk EXCEPT !.install = disk.backup[k], !.pending = None])
    BY Zenon DEF RestoreBackup
  <2> QED
    BY <2>1, UpdateTypes, Zenon DEF UpdateIInv, Disks
<1>1. UpdateTypeOK'
  BY <1>0, <1>d, UpdateTypesKept, UpdateTypes, Zenon DEF UpdateIInv, RestoreBackup
<1>2. HelperInv'
  BY <1>0 DEF UpdateIInv, HelperInv, FormRuns, Replacing, HelperAt, RestoreBackup
<1>3. PhaseInv'
  <2> SUFFICES ASSUME undisturbed' PROVE PhaseInv'
    BY Zenon DEF PhaseInv
  <2>1. /\ undisturbed /\ helper'[k].pc = "reopen" /\ helper[k].pc = "restore" /\ form' = form
        /\ ~FormRuns
    BY <1>0, Zenon DEF RestoreBackup, HelperAt
  <2>2. disk'.install = OldFiles /\ disk'.backup[k] = OldFiles
    BY <1>0, <2>1, Zenon DEF UpdateIInv, PhaseInv, Active, Replacing
  <2>3. \A j \in Attempts : Active(j)' => j = k
    BY <1>0, <2>1, Zenon DEF UpdateIInv, PhaseInv, Active
  <2> QED
    BY <2>1, <2>2, <2>3, Zenon DEF PhaseInv, FormRuns, Expected, Active
<1> QED
  BY <1>1, <1>2, <1>3, Zenon DEF UpdateIInv

(* The restored app is opened. *)
LEMMA ReopenKeeps ==
  ASSUME UpdateIInv, NEW k \in Attempts, Reopen(k)
  PROVE  UpdateIInv'
<1>0. PICK pc \in {"ended"} :
        /\ helper' \in [Attempts -> Helpers]
        /\ helper'[k].pc = pc /\ helper'[k].parent = helper[k].parent
        /\ \A j \in Attempts \ {k} : helper'[j] = helper[j]
        /\ form' = form \/ (~FormRuns /\ \E ver \in Programs : form' = NewForm(ver, None))
  BY GotoEffect, UpdateTypes, Zenon DEF UpdateIInv, Steps, Disks, Install, Reopen
<1>1. UpdateTypeOK'
  BY <1>0, UpdateTypesKept, UpdateTypes, FormTypes, ProgramTypes, Zenon DEF UpdateIInv, Reopen
<1>2. HelperInv'
  BY <1>0 DEF UpdateIInv, HelperInv, FormRuns, Replacing, HelperAt, Reopen, NewForm
<1>3. PhaseInv'
  <2> SUFFICES ASSUME undisturbed' PROVE PhaseInv'
    BY Zenon DEF PhaseInv
  <2>1. undisturbed /\ helper[k].pc = "reopen" /\ disk' = disk /\ Active(k) /\ ~Active(k)'
    BY <1>0, Zenon DEF Reopen, HelperAt, Active
  <2>2. \A j \in Attempts : ~Active(j)'
    BY <1>0, <2>1, Zenon DEF UpdateIInv, PhaseInv, Active
  <2>3. disk.install = OldFiles
    BY <2>1, Zenon DEF UpdateIInv, PhaseInv, Expected
  <2> QED
    BY <2>1, <2>2, <2>3, Zenon DEF PhaseInv
<1> QED
  BY <1>1, <1>2, <1>3, Zenon DEF UpdateIInv

(* The helper is killed. *)
LEMMA HelperDiesKeeps ==
  ASSUME UpdateIInv, NEW k \in Attempts, HelperDies(k)
  PROVE  UpdateIInv'
<1>0. PICK pc \in {"ended"} :
        /\ helper' \in [Attempts -> Helpers]
        /\ helper'[k].pc = pc /\ helper'[k].parent = helper[k].parent
        /\ \A j \in Attempts \ {k} : helper'[j] = helper[j]
  BY GotoEffect, UpdateTypes, Zenon DEF UpdateIInv, Steps, Disks, Install, HelperDies
<1>1. UpdateTypeOK'
  BY <1>0, UpdateTypesKept, UpdateTypes, Zenon DEF UpdateIInv, HelperDies
<1>2. HelperInv'
  BY <1>0, Zenon DEF UpdateIInv, HelperInv, FormRuns, Replacing, HelperAt, HelperDies
<1>3. PhaseInv'
  <2> SUFFICES ASSUME undisturbed' PROVE PhaseInv'
    BY Zenon DEF PhaseInv
  <2>1. undisturbed /\ ~Replacing(k) /\ Active(k) /\ disk' = disk /\ form' = form
    BY Zenon DEF HelperDies, Active
  <2>2. \A j \in Attempts : ~Active(j)'
    BY <1>0, <2>1, Zenon DEF UpdateIInv, PhaseInv, Active
  <2>3. disk.install = OldFiles
    BY <2>1, UpdateTypes, Zenon DEF UpdateIInv, PhaseInv, Replacing, Active, Expected, Helpers, Steps
  <2> QED
    BY <2>1, <2>2, <2>3, Zenon DEF PhaseInv
<1> QED
  BY <1>1, <1>2, <1>3, Zenon DEF UpdateIInv

-----------------------------------------------------------------------------
(* Every step of the window, of the helpers and of the machine.            *)
LEMMA UpdateNextKeepsIInv == UpdateIInv /\ [UpdateNext]_updateVars => UpdateIInv'
<1> SUFFICES ASSUME UpdateIInv, [UpdateNext]_updateVars PROVE UpdateIInv'
  BY Zenon
<1>1. CASE OpenForm \/ Shown \/ FormEnds \/ HelperReady \/ ShutdownFails
  BY <1>1, OpenFormKeeps, ShownKeeps, FormEndsKeeps, HelperReadyKeeps, ShutdownFailsKeeps, Zenon
<1>2. ASSUME NEW k \in Attempts, StartUpdateHandoff(k) \/ HelperNotReady(k) \/ HelperDies(k)
      PROVE  UpdateIInv'
  BY <1>2, StartUpdateHandoffKeeps, HelperNotReadyKeeps, HelperDiesKeeps, Zenon
<1>3. ASSUME NEW k \in Attempts, HelperStep(k) PROVE UpdateIInv'
  BY <1>3, VerifyKeeps, WaitForParentExitKeeps, CreateBackupKeeps, ApplyPackageKeeps, CopiedKeeps,
     StartApplicationKeeps, HealthyKeeps, UnhealthyKeeps, TryTerminateKeeps, RestoreBackupKeeps,
     ReopenKeeps, Zenon DEF HelperStep
<1>4. CASE UNCHANGED updateVars
  BY <1>4 DEF updateVars, UpdateIInv, UpdateTypeOK, HelperInv, PhaseInv, FormRuns, Replacing, Active,
         Expected
<1> QED
  BY <1>1, <1>2, <1>3, <1>4, Zenon DEF UpdateNext

(* The inductive invariant holds in every reachable state. *)
THEOREM UpdateInvariance == UpdateSpec => []UpdateIInv
BY UpdateInitIInv, UpdateNextKeepsIInv, PTL DEF UpdateSpec

(* The window, the helpers and the files keep their types.                 *)
THEOREM UpdateTypeCorrect == UpdateSpec => []UpdateTypeOK
<1>1. UpdateIInv => UpdateTypeOK
  BY Zenon DEF UpdateIInv
<1> QED
  BY <1>1, UpdateInvariance, PTL

(* Once no helper works on it, an installation whose updates were not         *)
(* disturbed is the snapshot of the old release or has all of the new one     *)
(* over it, after any number of attempts, and the latter only if that has     *)
(* shown its window.                                                          *)
THEOREM WholeAfterUpdate == UpdateSpec => []InstallWhole
<1>1. UpdateIInv => InstallWhole
  <2> SUFFICES ASSUME UpdateIInv, undisturbed, \A k \in Attempts : ~Replacing(k)
               PROVE  disk.install = OldFiles \/ (disk.install = Updated /\ disk.healthy # None)
    BY Zenon DEF InstallWhole, OldFiles
  <2>1. CASE \A k \in Attempts : ~Active(k)
    BY <2>1, Zenon DEF UpdateIInv, PhaseInv
  <2>2. ASSUME NEW k \in Attempts, Active(k) PROVE disk.install = OldFiles
    <3>1. helper[k].pc \in {"verify", "wait"}
      BY <2>2, UpdateTypes, Zenon DEF UpdateIInv, Active, Replacing, Helpers, Steps
    <3> QED
      BY <2>2, <3>1, Zenon DEF UpdateIInv, PhaseInv, Expected
  <2> QED
    BY <2>1, <2>2, Zenon
<1> QED
  BY <1>1, UpdateInvariance, PTL

(* Only a helper past WaitForParentExit replaces files. *)
LEMMA FilesReplaced ==
  ASSUME [UpdateNext]_updateVars, disk'.install # disk.install, UpdateTypeOK
  PROVE  \E k \in Attempts : Replacing(k) /\ \A j \in Attempts \ {k} : helper'[j] = helper[j]
<1>0. disk \in Disks /\ helper \in [Attempts -> Helpers]
  BY UpdateTypes, Zenon
<1>1. ASSUME NEW k \in Attempts, ApplyPackage(k) \/ Copied(k) \/ RestoreBackup(k)
      PROVE  Replacing(k) /\ \A j \in Attempts \ {k} : helper'[j] = helper[j]
  BY <1>0, <1>1, Zenon DEF ApplyPackage, Copied, RestoreBackup, HelperAt, HelperGoto, Replacing
<1>2. ASSUME NEW k \in Attempts, ~(ApplyPackage(k) \/ Copied(k) \/ RestoreBackup(k)), HelperStep(k)
      PROVE  disk'.install = disk.install
  BY <1>0, <1>2, Zenon DEF HelperStep, Verify, WaitForParentExit, CreateBackup, StartApplication, Healthy,
         Unhealthy, TryTerminate, Reopen, Disks
<1>3. ASSUME NEW k \in Attempts, StartUpdateHandoff(k) \/ HelperNotReady(k) \/ HelperDies(k)
      PROVE  disk'.install = disk.install
  BY <1>0, <1>3, Zenon DEF StartUpdateHandoff, HelperNotReady, HelperDies, Disks
<1>4. CASE OpenForm \/ Shown \/ FormEnds \/ HelperReady \/ ShutdownFails
  BY <1>0, <1>4, Zenon DEF OpenForm, Shown, FormEnds, HelperReady, ShutdownFails, Disks
<1> QED
  BY <1>1, <1>2, <1>3, <1>4, Zenon DEF UpdateNext, updateVars

(* No step of a helper replaces a file while the app that started it runs. *)
THEOREM ParentExitsFirst == UpdateSpec => ReplacedAfterExit
<1>1. UpdateIInv /\ [UpdateNext]_updateVars
        => [\A k \in Attempts : helper[k].parent /\ helper'[k] # helper[k]
                                  => disk'.install = disk.install]_updateVars
  BY FilesReplaced, Zenon DEF UpdateIInv, HelperInv
<1> QED
  BY <1>1, UpdateInvariance, PTL DEF UpdateSpec, ReplacedAfterExit
=============================================================================

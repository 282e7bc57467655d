--------------------------- MODULE StatusCollector ---------------------------
(***************************************************************************)
(* The public status collector (slithy-node-status-server.py): one thread   *)
(* asks the node, one CLI call at a time, for the status and explorer       *)
(* snapshots that the HTTP handlers serve.  The treasury part of the status *)
(* comes from an index of the treasury's coins that follows the chain a few *)
(* blocks per round.  The node may adopt another branch between any two     *)
(* calls, any call may fail, and the process may be restarted (everything   *)
(* is kept in memory).                                                      *)
(* A block is a model value: the tree of blocks, their transactions and the *)
(* work of the branch each ends are constants.  Of a transaction only what  *)
(* concerns the treasury is kept: the outpoints it spends and its outputs   *)
(* to the treasury script.                                                  *)
(***************************************************************************)
EXTENDS Integers, Sequences, FiniteSets, FiniteSetsExt

CONSTANTS Blocks, Genesis, Parent, Work, Txs, None, Batch, Window, Maturity,
          MaxReorgs, MaxFaults

ASSUME CollectorAssumption ==
  /\ Genesis \in Blocks /\ None \notin Blocks
  /\ Parent \in [Blocks \ {Genesis} -> Blocks]
  /\ Work \in [Blocks -> Nat]
  /\ \A b \in Blocks \ {Genesis} : Work[b] > Work[Parent[b]]
  /\ Batch \in Nat \ {0} /\ Window \in Nat /\ Maturity \in Nat
  /\ MaxReorgs \in Nat /\ MaxFaults \in Nat

VARIABLES
  tip,        \* the node's best block
  reorgs,     \* branch switches so far
  pc,         \* the collector's next CLI call
  index,      \* _treasury_height, _hash, _utxos, _rewards, _spent
  last,       \* the last height of the current round of the index
  status,     \* the status payload under construction
  listing,    \* the explorer payload under construction
  explorer,   \* _explorer_tip and _explorer_blocks
  snapshots,  \* _snapshots, what HTTP requests are answered from
  left        \* CLI failures and restarts still allowed

vars == <<tip, reorgs, pc, index, last, status, listing, explorer, snapshots, left>>

(* The branch that ends in a block, from the genesis block on. *)
branch[b \in Blocks] == IF b = Genesis THEN <<b>> ELSE Append(branch[Parent[b]], b)
HeightOf(b) == Len(branch[b]) - 1
MinOf(a, b) == IF a < b THEN a ELSE b
MaxOf(a, b) == IF a < b THEN b ELSE a

(* getblockhash: the block of the active chain at a height, or an error. *)
Known(h) == h <= HeightOf(tip)
getblockhash(h) == branch[tip][h + 1]

Total(f) == MapThenSumSet(LAMBDA x : f[x], DOMAIN f)
ValueOf(coins) == Total([c \in coins |-> c.value])

----------------------------------------------------------------------------
(* The treasury index.                                                      *)

reset == [height |-> 0, hash |-> None, utxos |-> {}, rewards |-> 0, spent |-> 0]

(* One transaction at a height: take the treasury's coins it spends, add    *)
(* its outputs to the treasury; what leaves net of change is spending.      *)
ApplyTx(idx, tx, h) ==
  LET spent == {c \in idx.utxos : c.point \in tx.ins}
      coins == {[point |-> <<tx.txid, o.n>>, value |-> o.value, at |-> h,
                 coinbase |-> tx.coinbase] : o \in tx.outs}
  IN [idx EXCEPT !.utxos = (@ \ spent) \cup coins,
                 !.rewards = IF tx.coinbase THEN @ + ValueOf(coins) ELSE @,
                 !.spent = @ + MaxOf(0, ValueOf(spent) - ValueOf(coins))]

ApplyTxs(idx, txs, h) ==
  LET after[k \in 0..Len(txs)] == IF k = 0 THEN idx ELSE ApplyTx(after[k - 1], txs[k], h)
  IN after[Len(txs)]

ApplyBlock(idx, b, h) == [ApplyTxs(idx, Txs[b], h) EXCEPT !.height = h, !.hash = b]

(* The figures computed from the index at the status height. *)
FiguresOffByOne(idx, height) ==
  LET unlocked == {c \in idx.utxos : ~c.coinbase \/ height - c.at >= Maturity}
  IN [rewards |-> idx.rewards, current |-> ValueOf(idx.utxos),
      unlocked |-> ValueOf(unlocked), spent |-> idx.spent]

Figures(idx, height) ==
  LET unlocked == {c \in idx.utxos : ~c.coinbase \/ height - c.at + 1 >= Maturity}
  IN [rewards |-> idx.rewards, current |-> ValueOf(idx.utxos),
      unlocked |-> ValueOf(unlocked), spent |-> idx.spent]

----------------------------------------------------------------------------
NoStatus == [height |-> 0, hash |-> None, treasury |-> None]
NoListing == [height |-> 0, hash |-> None, blocks |-> <<>>]

Init ==
  /\ tip = Genesis /\ reorgs = 0
  /\ pc = "status" /\ index = reset /\ last = 0
  /\ status = NoStatus /\ listing = NoListing /\ explorer = [tip |-> None, blocks |-> <<>>]
  /\ snapshots = [status |-> None, explorer |-> None]
  /\ left = MaxFaults

(* The node adopts a branch with more work, an extension of its own or not. *)
NewTip ==
  /\ \E b \in Blocks :
       /\ Work[b] > Work[tip]
       /\ tip' = b
       /\ reorgs' = IF \E i \in DOMAIN branch[b] : branch[b][i] = tip
                    THEN reorgs ELSE reorgs + 1
       /\ reorgs' <= MaxReorgs
  /\ UNCHANGED <<pc, index, last, status, listing, explorer, snapshots, left>>

Node == <<tip, reorgs>>

(* build_status: getblockchaininfo, and the calls for display fields. *)
BuildStatus ==
  /\ pc = "status"
  /\ status' = [height |-> HeightOf(tip), hash |-> tip, treasury |-> None]
  /\ pc' = "resume"
  /\ UNCHANGED <<Node, index, last, listing, explorer, snapshots, left>>

(* advance_treasury_index: an index ahead of the chain, or whose last block *)
(* is no longer in it, starts over; then the round's range is fixed.        *)
Resume ==
  /\ pc = "resume"
  /\ index.height > status.height \/ index.height = 0 \/ Known(index.height)
  /\ index' = IF index.height > status.height
                 \/ (index.height > 0 /\ getblockhash(index.height) # index.hash)
              THEN reset ELSE index
  /\ last' = MinOf(status.height, index'.height + Batch)
  /\ pc' = "scan"
  /\ UNCHANGED <<Node, status, listing, explorer, snapshots, left>>

(* One block of the range: getblockhash and getblock (whose answer depends  *)
(* on the hash alone).  A block that does not continue the indexed branch   *)
(* empties the index.  The round may run out of time after any block.       *)
ScanUnlinked ==
  /\ pc = "scan" /\ index.height < last /\ Known(index.height + 1)
  /\ LET h == index.height + 1
     IN index' = ApplyBlock(index, getblockhash(h), h)
  /\ pc' \in {"scan", "verify"}
  /\ UNCHANGED <<Node, last, status, listing, explorer, snapshots, left>>

ScanTimedOutFirst ==
  /\ pc = "scan" /\ index.height < last /\ Known(index.height + 1)
  /\ LET h == index.height + 1
         b == getblockhash(h)
     IN IF index.hash # None /\ Parent[b] # index.hash
        THEN index' = reset /\ pc' = "publish"
        ELSE \/ index' = ApplyBlock(index, b, h) /\ pc' = "scan"
             \/ UNCHANGED index /\ pc' = "verify"
  /\ UNCHANGED <<Node, last, status, listing, explorer, snapshots, left>>

Scan ==
  /\ pc = "scan" /\ index.height < last /\ Known(index.height + 1)
  /\ LET h == index.height + 1
         b == getblockhash(h)
     IN IF index.hash # None /\ Parent[b] # index.hash
        THEN index' = reset /\ pc' = "publish"
        ELSE index' = ApplyBlock(index, b, h) /\ pc' \in {"scan", "verify"}
  /\ UNCHANGED <<Node, last, status, listing, explorer, snapshots, left>>

ScanDone ==
  /\ pc = "scan" /\ index.height >= last
  /\ pc' = "verify"
  /\ UNCHANGED <<Node, index, last, status, listing, explorer, snapshots, left>>

(* No figures unless the index has reached the status height and its block  *)
(* is in the chain at that moment.                                          *)
Verify ==
  /\ pc = "verify"
  /\ index.height # status.height \/ status.height = 0 \/ Known(status.height)
  /\ LET reached == index.height = status.height
         stale == reached /\ status.height > 0 /\ getblockhash(status.height) # index.hash
     IN /\ index' = IF stale THEN reset ELSE index
        /\ status' = IF reached /\ ~stale
                     THEN [status EXCEPT !.treasury = Figures(index, status.height)]
                     ELSE status
  /\ pc' = "publish"
  /\ UNCHANGED <<Node, last, listing, explorer, snapshots, left>>

(* The end of build_status: the block of the status must still be in the    *)
(* chain, or the round is given up.  Else collect_snapshots stores it.      *)
PublishUnchecked ==
  /\ pc = "publish"
  /\ snapshots' = [snapshots EXCEPT !.status = status]
  /\ pc' = "explorer"
  /\ UNCHANGED <<Node, index, last, status, listing, explorer, left>>

Publish ==
  /\ pc = "publish" /\ Known(status.height)
  /\ snapshots' = IF getblockhash(status.height) = status.hash
                  THEN [snapshots EXCEPT !.status = status] ELSE snapshots
  /\ pc' = "explorer"
  /\ UNCHANGED <<Node, index, last, status, listing, explorer, left>>

----------------------------------------------------------------------------
(* build_explorer: the last blocks, newest first, unless the tip is the one  *)
(* already listed.                                                           *)
BuildExplorer ==
  /\ pc = "explorer"
  /\ listing' = [height |-> HeightOf(tip), hash |-> tip, blocks |-> <<>>]
  /\ pc' = IF tip = explorer.tip THEN "show" ELSE "list"
  /\ UNCHANGED <<Node, index, last, status, explorer, snapshots, left>>

(* block_summary of the next height down: getblockhash and getblock. *)
ListBlock ==
  LET h == listing.height - Len(listing.blocks) IN
  /\ pc = "list" /\ Len(listing.blocks) <= MinOf(Window, listing.height) /\ Known(h)
  /\ listing' = [listing EXCEPT !.blocks = Append(@, getblockhash(h))]
  /\ UNCHANGED <<Node, pc, index, last, status, explorer, snapshots, left>>

(* The listing is kept if its tip is still in the chain, else given up. *)
ListedUnchecked ==
  /\ pc = "list" /\ Len(listing.blocks) > MinOf(Window, listing.height)
  /\ explorer' = [tip |-> listing.hash, blocks |-> listing.blocks] /\ pc' = "show"
  /\ UNCHANGED <<Node, index, last, status, listing, snapshots, left>>

Listed ==
  /\ pc = "list" /\ Len(listing.blocks) > MinOf(Window, listing.height)
  /\ Known(listing.height)
  /\ IF getblockhash(listing.height) = listing.hash
     THEN explorer' = [tip |-> listing.hash, blocks |-> listing.blocks] /\ pc' = "show"
     ELSE UNCHANGED explorer /\ pc' = "status"
  /\ UNCHANGED <<Node, index, last, status, listing, snapshots, left>>

(* collect_snapshots stores the payload and sleeps before the next round. *)
Show ==
  /\ pc = "show"
  /\ snapshots' = [snapshots EXCEPT !.explorer =
                     [height |-> listing.height, hash |-> listing.hash,
                      blocks |-> explorer.blocks]]
  /\ pc' = "status"
  /\ UNCHANGED <<Node, index, last, status, listing, explorer, left>>

----------------------------------------------------------------------------
(* The call the collector makes at a label asks for a height the node no     *)
(* longer has.                                                               *)
Unknown ==
  \/ pc = "resume" /\ index.height \in 1..status.height /\ ~Known(index.height)
  \/ pc = "scan" /\ index.height < last /\ ~Known(index.height + 1)
  \/ pc = "verify" /\ index.height = status.height /\ ~Known(status.height)
  \/ pc = "publish" /\ ~Known(status.height)
  \/ pc = "list" /\ Len(listing.blocks) <= MinOf(Window, listing.height)
       /\ ~Known(listing.height - Len(listing.blocks))
  \/ pc = "list" /\ Len(listing.blocks) > MinOf(Window, listing.height)
       /\ ~Known(listing.height)

(* A CLI call raises: because of the height, or because the node does not    *)
(* answer.  Inside treasury_status the index is emptied; the snapshot being  *)
(* built is given up and the old one stays.                                  *)
Raise ==
  /\ pc # "show"
  /\ \/ Unknown /\ UNCHANGED left
     \/ left > 0 /\ left' = left - 1
  /\ index' = IF pc \in {"resume", "scan", "verify"} THEN reset ELSE index
  /\ pc' = IF pc \in {"explorer", "list"} THEN "status" ELSE "explorer"
  /\ UNCHANGED <<Node, last, status, listing, explorer, snapshots>>

(* The service is restarted: nothing is on disk. *)
Restart ==
  /\ left > 0 /\ left' = left - 1
  /\ pc' = "status" /\ index' = reset /\ last' = 0
  /\ status' = NoStatus /\ listing' = NoListing
  /\ explorer' = [tip |-> None, blocks |-> <<>>]
  /\ snapshots' = [status |-> None, explorer |-> None]
  /\ UNCHANGED Node

Collect == BuildStatus \/ Resume \/ Scan \/ ScanDone \/ Verify \/ Publish
             \/ BuildExplorer \/ ListBlock \/ Listed \/ Show

Next == NewTip \/ Collect \/ Raise \/ Restart

Spec == Init /\ [][Next]_vars

(* The collector is a loop of bounded calls: it always takes its next step. *)
FairSpec == Spec /\ WF_vars(Collect \/ Raise)

----------------------------------------------------------------------------
(* What the treasury owns after a set of mined transactions, from the set   *)
(* alone: the outputs they pay to the treasury and those none of them       *)
(* spends, and what each of them takes net of what it gives back.           *)
Coins(m) == {[point |-> <<m.tx.txid, o.n>>, value |-> o.value, at |-> m.at,
              coinbase |-> m.tx.coinbase] : o \in m.tx.outs}
Received(mined) == UNION {Coins(m) : m \in mined}
Unspent(mined) == {c \in Received(mined) : \A m \in mined : c.point \notin m.tx.ins}
SpentBy(mined, m) == {c \in Received(mined) : c.point \in m.tx.ins}
Spending(mined) ==
  Total([m \in mined |-> MaxOf(0, ValueOf(SpentBy(mined, m)) - ValueOf(Coins(m)))])

(* The transactions of a block, those of a branch, and those that precede   *)
(* the k-th transaction of a block in its branch.                           *)
FirstOf(b, k) == {[at |-> HeightOf(b), tx |-> Txs[b][j]] : j \in 1..k}
Mined(b) == UNION {FirstOf(a, Len(Txs[a])) : a \in {branch[b][i] : i \in DOMAIN branch[b]}}
Before(b, k) == Mined(Parent[b]) \cup FirstOf(b, k - 1)

(* What consensus guarantees of every branch: the genesis block pays the    *)
(* treasury nothing, no identifier is used twice, no output is spent twice, *)
(* and none is spent before its transaction.                                *)
ASSUME TransactionsAssumption ==
  /\ Txs[Genesis] = <<>>
  /\ \A b \in Blocks : Len(Txs[b]) \in Nat /\ DOMAIN Txs[b] = 1..Len(Txs[b])
  /\ \A b \in Blocks : \A k \in DOMAIN Txs[b] :
       LET tx == Txs[b][k]
       IN /\ tx.coinbase \in BOOLEAN /\ IsFiniteSet(tx.outs)
          /\ \A o \in tx.outs : o.value \in Nat
          /\ \A p \in tx.ins : p[1] # tx.txid
          /\ \A m \in Before(b, k) :
               /\ m.tx.txid # tx.txid /\ m.tx.ins \cap tx.ins = {}
               /\ \A p \in m.tx.ins : p[1] # tx.txid

HoldingsOf(b) ==
  [height |-> HeightOf(b), hash |-> b, utxos |-> Unspent(Mined(b)),
   rewards |-> ValueOf({c \in Received(Mined(b)) : c.coinbase}), spent |-> Spending(Mined(b))]

Holdings == [b \in Blocks |-> HoldingsOf(b)]

TrueFiguresOf(b) ==
  LET h == Holdings[b]
      ripe == {c \in h.utxos : c.coinbase => HeightOf(b) - c.at + 1 >= Maturity}
  IN [rewards |-> h.rewards, current |-> ValueOf(h.utxos),
      unlocked |-> ValueOf(ripe), spent |-> h.spent]

TrueFigures == [b \in Blocks |-> TrueFiguresOf(b)]

----------------------------------------------------------------------------
FiguresType == [rewards : Nat, current : Nat, unlocked : Nat, spent : Nat]
StatusType == [height : Nat, hash : Blocks \cup {None},
               treasury : FiguresType \cup {None}]
ListingType == [height : Nat, hash : Blocks \cup {None}, blocks : Seq(Blocks)]

(* The collector's variables hold what the code can put there; in           *)
(* particular every published sum is a natural number.                      *)
TypeOK ==
  /\ tip \in Blocks /\ reorgs \in 0..MaxReorgs
  /\ pc \in {"status", "resume", "scan", "verify", "publish", "explorer", "list", "show"}
  /\ index.height \in Nat /\ index.hash \in Blocks \cup {None}
  /\ index.rewards \in Nat /\ index.spent \in Nat
  /\ last \in Nat /\ status \in StatusType /\ listing \in ListingType
  /\ explorer \in [tip : Blocks \cup {None}, blocks : Seq(Blocks)]
  /\ snapshots \in [status : StatusType \cup {None}, explorer : ListingType \cup {None}]
  /\ left \in 0..MaxFaults

(* Between two calls the treasury index is empty or holds exactly what the   *)
(* branch of its last block gives the treasury, whatever branches the node   *)
(* has gone through and wherever rounds were cut short or failed: no block   *)
(* is counted twice, skipped, or mixed with another branch.                  *)
IndexMatchesBranch == index = reset \/ index = Holdings[index.hash]

(* "Refuse a mixed-chain snapshot": published treasury figures are those of  *)
(* one branch at the published height, also when the node changes branch     *)
(* back and forth while they are collected.                                  *)
FiguresOfOneBranch ==
  LET s == snapshots.status IN
  s # None /\ s.treasury # None =>
    \E b \in Blocks : HeightOf(b) = s.height /\ s.treasury = TrueFigures[b]

(* "A reorg during the treasury scan must not pair new balances with the     *)
(* previous branch's block hash": the published figures are those of the     *)
(* published block, as long as the node has changed branch once.  When it    *)
(* leaves a branch during the scan and is back on it before the closing test *)
(* of build_status, that test sees no difference.                            *)
FiguresOfTip ==
  LET s == snapshots.status IN
  reorgs <= 1 /\ s # None /\ s.treasury # None => s.treasury = TrueFigures[s.hash]

(* The published explorer list is the chain that ends in the published       *)
(* block: consecutive ancestors, newest first, none of another branch, under *)
(* the same condition; build_explorer has the same closing test.             *)
ListingIsChain ==
  LET x == snapshots.explorer IN
  reorgs <= 1 /\ x # None => \A i \in DOMAIN x.blocks : x.blocks[i] = branch[x.hash][x.height + 2 - i]

(* When the node settles on a branch and answers, the index catches up in    *)
(* rounds of at most Batch blocks, however soon each round runs out of time, *)
(* and the status shows the tip with its treasury figures from then on.      *)
CatchesUp ==
  <>[](/\ snapshots.status # None
       /\ snapshots.status.hash = tip /\ snapshots.status.treasury # None)
=============================================================================

------------------------------- MODULE Reward -------------------------------
(***************************************************************************)
(* Issuance and the treasury share: GetBlockSubsidy and the coinbase rules *)
(* of ConnectBlock (core/src/validation.cpp), the coinbase that            *)
(* CreateNewBlock builds (core/src/node/miner.cpp) and getblocktemplate    *)
(* (core/src/rpc/mining.cpp) with the coinbases pools build from its       *)
(* reply.  A coinbase is the sequence of its outputs; one or two are       *)
(* enough for what ConnectBlock tells apart.  One chain is followed from   *)
(* genesis; a reorganisation follows another chain from an earlier height. *)
(***************************************************************************)
EXTENDS Integers, Sequences

CONSTANTS
    Interval,    \* consensus.nSubsidyHalvingInterval
    Initial,     \* 10 * COIN
    Width,       \* 64: the bits of a CAmount
    Percent,     \* consensus.treasury_percent
    MAX_MONEY,   \* consensus/amount.h
    Miner, Treasury,    \* the two kinds of output script
    None,        \* a null pointer
    MaxHeight,   \* bound: blocks connected
    Values,      \* bound: values of the outputs of a peer's coinbase
    MaxFees      \* bound: fees of one block

(* MAX_MONEY is 21024000 COIN with 1051200 blocks of 10 COIN to a halving. *)
(* The last conjunct is what a shift by one more bit does; it is spelled   *)
(* out for the proofs, whose backends do not know exponentiation.          *)
ASSUME RewardAssumption ==
    /\ Interval \in Nat \ {0} /\ Initial \in Nat /\ Width \in Nat \ {0}
    /\ Percent \in 0..100
    /\ MAX_MONEY = 2 * Interval * Initial
    /\ Miner # Treasury
    /\ MaxHeight \in Nat /\ Values \subseteq Nat /\ MaxFees \in Nat
    /\ 2^0 = 1 /\ \A n \in 0..Width : 2^n \in Nat \ {0} /\ 2^(n + 1) = 2 * 2^n

VARIABLES
    height,     \* height of the tip
    issued,     \* coins in existence: minted, less what miners left unclaimed
    poll,       \* the tip a long poll read before it released cs_main
    gbt         \* getblocktemplate's static pindexPrev and block_template

vars == <<height, issued, poll, gbt>>

(* Genesis has no spendable reward.                                        *)
Init == height = 0 /\ issued = 0 /\ poll = None /\ gbt = None

-----------------------------------------------------------------------------
(* The schedule and the coinbases.                                         *)

Halvings(h) == h \div Interval

(* A count of the width or more is undefined; processors reduce it.        *)
RightShift(v, n) == v \div 2^(n % Width)

(* Fault: nothing keeps the shift count below the width.                   *)
SubsidyUnguarded(h) == RightShift(Initial, Halvings(h))

GetBlockSubsidy(h) == IF Halvings(h) >= Width THEN 0 ELSE RightShift(Initial, Halvings(h))

TreasuryReward(h) == (GetBlockSubsidy(h) * Percent) \div 100

Output(to, v) == [script |-> to, value |-> v]
Scripts == {Miner, Treasury}
Outputs(values) == [script : Scripts, value : values]
Coinbases == [1..1 -> Outputs(Values)] \cup [1..2 -> Outputs(Values)]

(* GetValueOut, and ConnectBlock's sum for the treasury script.            *)
Paid(o, scripts) == IF o.script \in scripts THEN o.value ELSE 0
ValueTo(scripts, vout) ==
    Paid(vout[1], scripts) + (IF Len(vout) = 2 THEN Paid(vout[2], scripts) ELSE 0)

(* Fault: the template takes its share of the whole reward, fees included. *)
CreateNewBlockSharesFees(h, fees, to) ==
    LET share == ((GetBlockSubsidy(h) + fees) * Percent) \div 100
        rest  == fees + GetBlockSubsidy(h) - share
    IN  IF share > 0 THEN <<Output(to, rest), Output(Treasury, share)>> ELSE <<Output(to, rest)>>

(* CreateNewBlock: fees and the rest of the subsidy to m_options' script,  *)
(* and an output for the treasury unless its share is zero.                *)
CreateNewBlock(h, fees, to) ==
    LET share == TreasuryReward(h)
        rest  == fees + GetBlockSubsidy(h) - share
    IN  IF share > 0 THEN <<Output(to, rest), Output(Treasury, share)>> ELSE <<Output(to, rest)>>

MoneyRange(v) == v >= 0 /\ v <= MAX_MONEY

(* The checks on a coinbase: CheckTransaction's ranges, bad-cb-amount and  *)
(* bad-cb-treasury of ConnectBlock.                                        *)
Accepts(h, vout, fees) ==
    /\ \A i \in DOMAIN vout : MoneyRange(vout[i].value)
    /\ MoneyRange(ValueTo(Scripts, vout)) /\ MoneyRange(fees)
    /\ ValueTo(Scripts, vout) <= fees + GetBlockSubsidy(h)
    /\ h > 0 => ValueTo({Treasury}, vout) = TreasuryReward(h)

(* ConnectBlock at the next height; fees move coins that exist.            *)
ConnectBlock(vout, fees) ==
    /\ height < MaxHeight
    /\ fees <= issued
    /\ Accepts(height + 1, vout, fees)
    /\ height' = height + 1
    /\ issued' = issued + ValueTo(Scripts, vout) - fees
    /\ UNCHANGED <<poll, gbt>>

MinedBlock(to, fees) == ConnectBlock(CreateNewBlock(height + 1, fees, to), fees)
PeerBlock(vout, fees) == ConnectBlock(vout, fees)

-----------------------------------------------------------------------------
(* getblocktemplate.                                                       *)

(* A long poll reads the tip, releases cs_main and reads it while waiting. *)
LongPoll == poll' = height /\ UNCHANGED <<height, issued, gbt>>

(* createNewBlock builds on the tip of the chain, or fails and leaves      *)
(* pindexPrev null.                                                        *)
NewTemplate(tip) ==
    \/ \E fees \in 0..MaxFees :
          /\ fees <= issued
          /\ gbt' = [pindexPrev |-> tip, parent |-> height, fees |-> fees,
                     vout |-> CreateNewBlock(height + 1, fees, Miner)]
    \/ gbt' = None

(* Under cs_main: a template on another tip is replaced, one on this tip   *)
(* may be, when the mempool changed and it is older than five seconds.     *)
UpdateTemplate(tip) ==
    \/ NewTemplate(tip)
    \/ gbt # None /\ gbt.pindexPrev = tip /\ UNCHANGED gbt

(* A call that does not wait holds cs_main from the tip to the reply.      *)
Getblocktemplate == UpdateTemplate(height) /\ UNCHANGED <<height, issued, poll>>

(* Fault: the tip is not read again after the wait.                        *)
PolledStale ==
    /\ poll # None /\ poll' = None
    /\ UpdateTemplate(poll)
    /\ UNCHANGED <<height, issued>>

(* The wait is over: the tip is read again under cs_main, and the call     *)
(* goes on or is refused (shutdown, missing rules).                        *)
Polled ==
    /\ poll # None /\ poll' = None
    /\ UpdateTemplate(height) \/ UNCHANGED gbt
    /\ UNCHANGED <<height, issued>>

(* slithy_treasury's value in the reply.                                   *)
TreasuryValue(template) == TreasuryReward(template.pindexPrev + 1)

(* CHECK_NONFATAL: without it the reply is an error.  find_if takes the    *)
(* first output that pays the treasury.                                    *)
Served(template) ==
    \/ TreasuryValue(template) = 0
    \/ \E i \in DOMAIN template.vout :
          /\ template.vout[i] = Output(Treasury, TreasuryValue(template))
          /\ \A j \in 1..(i - 1) : template.vout[j].script # Treasury

(* What a pool makes of the reply: it pays the treasury's value out of     *)
(* coinbasevalue, and "the output may be omitted when its value is zero".  *)
PoolCoinbases(template) ==
    LET share == TreasuryValue(template)
        rest  == ValueTo(Scripts, template.vout) - share
    IN  {<<Output(Miner, rest), Output(Treasury, share)>>}
            \cup (IF share = 0 THEN {<<Output(Miner, rest)>>} ELSE {})

PoolBlock ==
    /\ gbt # None /\ gbt.parent = height /\ Served(gbt)
    /\ \E vout \in PoolCoinbases(gbt) : ConnectBlock(vout, gbt.fees)

Next ==
    \/ \E fees \in 0..MaxFees :
          \/ \E to \in Scripts : MinedBlock(to, fees)
          \/ \E vout \in Coinbases : PeerBlock(vout, fees)
    \/ LongPoll \/ Polled \/ Getblocktemplate \/ PoolBlock

Spec == Init /\ [][Next]_vars

-----------------------------------------------------------------------------

Templates == [pindexPrev : 0..MaxHeight, parent : 0..MaxHeight, fees : Nat,
              vout : Seq(Outputs(Int))]

(* Heights, amounts and templates; the coins in existence are an amount    *)
(* CheckTransaction would accept.                                          *)
TypeOK ==
    /\ height \in 0..MaxHeight /\ MoneyRange(issued) /\ issued \in Nat
    /\ poll \in 0..MaxHeight \cup {None} /\ gbt \in Templates \cup {None}

(* "The full reward schedule fits within that limit": whatever coinbases   *)
(* are accepted, the coins in existence stay below MAX_MONEY by the first  *)
(* subsidy, which genesis does not pay.                                    *)
SupplyWithinLimit == issued + Initial <= MAX_MONEY

(* The coinbase this node builds passes its own ConnectBlock at every      *)
(* height and for all fees that exist, also when late halvings round the   *)
(* share to zero and there is no treasury output.  Only a payout to the    *)
(* treasury script itself is refused (startcpumining rejects that          *)
(* address), unless it pays nothing.                                       *)
TemplatesAccepted ==
    \A fees \in 0..issued :
        LET h == height + 1
        IN  /\ Accepts(h, CreateNewBlock(h, fees, Miner), fees)
            /\ Accepts(h, CreateNewBlock(h, fees, Treasury), fees)
                  <=> fees + GetBlockSubsidy(h) = TreasuryReward(h)

(* getblocktemplate serves pools in every era: the template it keeps       *)
(* passes the CHECK_NONFATAL on the treasury output, also where the share  *)
(* is zero and when a halving was connected during a long poll, and every  *)
(* coinbase a pool builds from the reply claims the whole reward and is    *)
(* accepted while the template's parent is the tip.                        *)
PoolsServed ==
    gbt # None =>
        /\ Served(gbt)
        /\ gbt.parent = height =>
              \A vout \in PoolCoinbases(gbt) :
                  /\ ValueTo(Scripts, vout) = gbt.fees + GetBlockSubsidy(height + 1)
                  /\ Accepts(height + 1, vout, gbt.fees)
=============================================================================

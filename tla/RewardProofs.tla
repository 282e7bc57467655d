---------------------------- MODULE RewardProofs ----------------------------
(***************************************************************************)
(* The supply bound and the acceptance of the coinbases that the node and  *)
(* the pools it serves build, for every halving interval, initial subsidy  *)
(* and treasury percentage.                                                *)
(***************************************************************************)
EXTENDS Reward, TLAPS

(* What may still be minted above height h: the rest of the current era at *)
(* the current subsidy, and at most one more era's worth after it.         *)
Room(h) == (2 * Interval - 1 - (h % Interval)) * GetBlockSubsidy(h)

(* What getblocktemplate keeps once it built on the block at height p.     *)
Template(p, fees) == [pindexPrev |-> p, parent |-> p, fees |-> fees,
                      vout |-> CreateNewBlock(p + 1, fees, Miner)]

(* The kept template was built on the tip its pindexPrev names, and while  *)
(* that is still the tip its fees exist.                                   *)
Kept == \/ gbt = None
        \/ \E p \in 0..height, fees \in Nat :
              gbt = Template(p, fees) /\ (p = height => fees <= issued)

IInv ==
    /\ height \in 0..MaxHeight /\ issued \in Nat /\ poll \in 0..MaxHeight \cup {None}
    /\ issued + Room(height) <= (2 * Interval - 1) * Initial
    /\ Kept

-----------------------------------------------------------------------------
(* Arithmetic of the schedule.                                             *)

(* The next height is in the same era, or the first of the next one.       *)
LEMMA EraStep ==
  ASSUME NEW h \in Nat
  PROVE  /\ Halvings(h) \in Nat /\ (h % Interval) \in 0..(Interval - 1)
         /\ \/ Halvings(h + 1) = Halvings(h) /\ (h + 1) % Interval = (h % Interval) + 1
            \/ /\ Halvings(h + 1) = Halvings(h) + 1
               /\ (h + 1) % Interval = 0 /\ h % Interval = Interval - 1
BY RewardAssumption DEF Halvings

(* Below the width the shift count is used as it is.                       *)
LEMMA ShiftBelow ==
  ASSUME NEW h \in Nat, ~(Halvings(h) >= Width)
  PROVE  /\ Halvings(h) \in 0..Width /\ 2^Halvings(h) \in Nat \ {0}
         /\ 2^(Halvings(h) + 1) = 2 * 2^Halvings(h)
         /\ GetBlockSubsidy(h) = Initial \div 2^Halvings(h)
<1>1. Halvings(h) \in 0..Width /\ Halvings(h) % Width = Halvings(h)
  <2>1. ASSUME NEW n \in Nat, NEW w \in Nat \ {0}, ~(n >= w) PROVE n % w = n /\ n \in 0..w
    BY <2>1
  <2>2. Halvings(h) \in Nat /\ Width \in Nat \ {0}
    BY EraStep, RewardAssumption
  <2> QED
    BY <2>1, <2>2, Zenon
<1>2. 2^Halvings(h) \in Nat \ {0} /\ 2^(Halvings(h) + 1) = 2 * 2^Halvings(h)
  BY <1>1, RewardAssumption
<1>3. GetBlockSubsidy(h) = Initial \div 2^(Halvings(h) % Width)
  BY Zenon DEF GetBlockSubsidy, RightShift
<1>4. Initial \div 2^(Halvings(h) % Width) = Initial \div 2^Halvings(h)
  BY <1>1, Zenon
<1> QED
  BY <1>1, <1>2, <1>3, <1>4, Zenon

(* Subsidies and treasury shares are amounts, and a share is a part.       *)
LEMMA SubsidyType ==
  ASSUME NEW h \in Nat
  PROVE  /\ GetBlockSubsidy(h) \in Nat /\ TreasuryReward(h) \in Nat
         /\ TreasuryReward(h) <= GetBlockSubsidy(h)
<1>1. GetBlockSubsidy(h) \in Nat
  <2>1. CASE Halvings(h) >= Width
    BY <2>1 DEF GetBlockSubsidy
  <2>2. CASE ~(Halvings(h) >= Width)
    BY <2>2, ShiftBelow, RewardAssumption
  <2> QED
    BY <2>1, <2>2
<1>2. ASSUME NEW s \in Nat, NEW p \in 0..100
      PROVE  (s * p) \div 100 \in Nat /\ (s * p) \div 100 <= s
  <2>1. s * p <= s * 100 /\ s * p \in Nat
    OBVIOUS
  <2> QED
    BY <2>1
<1> QED
  BY <1>1, <1>2, RewardAssumption DEF TreasuryReward

(* A halving at least halves, and within an era the subsidy is constant.   *)
LEMMA SubsidyStep ==
  ASSUME NEW h \in Nat
  PROVE  /\ Halvings(h + 1) = Halvings(h) => GetBlockSubsidy(h + 1) = GetBlockSubsidy(h)
         /\ Halvings(h + 1) = Halvings(h) + 1 => 2 * GetBlockSubsidy(h + 1) <= GetBlockSubsidy(h)
<1>1. ASSUME Halvings(h + 1) = Halvings(h)
      PROVE  GetBlockSubsidy(h + 1) = GetBlockSubsidy(h)
  BY <1>1 DEF GetBlockSubsidy
<1>2. ASSUME Halvings(h + 1) = Halvings(h) + 1
      PROVE  2 * GetBlockSubsidy(h + 1) <= GetBlockSubsidy(h)
  <2>1. CASE Halvings(h + 1) >= Width
    BY <2>1, SubsidyType DEF GetBlockSubsidy
  <2>2. CASE ~(Halvings(h + 1) >= Width)
    <3> DEFINE n == Halvings(h)
               p == 2^n
    <3>1. ~(n >= Width) /\ h + 1 \in Nat
      BY <1>2, <2>2, EraStep, RewardAssumption
    <3>2. p \in Nat \ {0} /\ 2^(n + 1) = 2 * p /\ GetBlockSubsidy(h) = Initial \div p
      BY <3>1, ShiftBelow, Zenon
    <3>3. GetBlockSubsidy(h + 1) = Initial \div (2 * p)
      <4>1. GetBlockSubsidy(h + 1) = Initial \div 2^Halvings(h + 1)
        BY <2>2, <3>1, ShiftBelow, Zenon
      <4> QED
        BY <1>2, <3>2, <4>1, Zenon
    <3>4. ASSUME NEW a \in Nat, NEW q \in Nat \ {0}
          PROVE  2 * (a \div (2 * q)) <= a \div q
      <4>1. a \div (2 * q) = (a \div q) \div 2
        OBVIOUS
      <4>2. a \div q \in Nat
        OBVIOUS
      <4> QED
        BY <4>1, <4>2
    <3> QED
      BY <3>2, <3>3, <3>4, RewardAssumption, Zenon
  <2> QED
    BY <2>1, <2>2
<1> QED
  BY <1>1, <1>2

(* Minting the next subsidy uses up room.                                  *)
LEMMA RoomStep ==
  ASSUME NEW h \in Nat
  PROVE  /\ Room(h) \in Nat /\ Room(h + 1) \in Nat
         /\ GetBlockSubsidy(h + 1) + Room(h + 1) <= Room(h)
<1> DEFINE S == GetBlockSubsidy(h)
           T == GetBlockSubsidy(h + 1)
           k == h % Interval
<1>1. S \in Nat /\ T \in Nat /\ Interval \in Nat \ {0} /\ k \in 0..(Interval - 1)
  <2>1. h + 1 \in Nat
    OBVIOUS
  <2>2. S \in Nat /\ T \in Nat
    BY <2>1, SubsidyType
  <2>3. k \in 0..(Interval - 1)
    BY EraStep
  <2> QED
    BY <2>2, <2>3, RewardAssumption
<1>2. Room(h) = (2 * Interval - 1 - k) * S /\ Room(h) \in Nat
  <2>1. ASSUME NEW a \in Nat, NEW b \in Nat PROVE a * b \in Nat
    OBVIOUS
  <2>2. 2 * Interval - 1 - k \in Nat
    BY <1>1
  <2> QED
    BY <1>1, <2>1, <2>2 DEF Room
<1>3. CASE Halvings(h + 1) = Halvings(h) /\ (h + 1) % Interval = k + 1
  <2>1. Room(h + 1) = (2 * Interval - 1 - (k + 1)) * S /\ T = S
    BY <1>3, SubsidyStep DEF Room
  <2> QED
    BY <1>1, <1>2, <2>1
<1>4. CASE Halvings(h + 1) = Halvings(h) + 1 /\ (h + 1) % Interval = 0 /\ k = Interval - 1
  <2>1. Room(h + 1) = (2 * Interval - 1 - 0) * T /\ 2 * T <= S
    BY <1>4, SubsidyStep DEF Room
  <2>2. Room(h) = Interval * S
    BY <1>1, <1>2, <1>4
  <2>3. Interval * (2 * T) <= Interval * S
    BY <1>1, <2>1
  <2> QED
    BY <1>1, <2>1, <2>2, <2>3
<1> QED
  BY <1>3, <1>4, EraStep

-----------------------------------------------------------------------------
(* Coinbases of one and of two outputs.                                    *)

Formed == {vout \in Seq(Outputs(Int)) : Len(vout) \in {1, 2}}

(* The rules of ConnectBlock for a coinbase with one output.               *)
LEMMA AcceptsOne ==
  ASSUME NEW h \in Nat \ {0}, NEW fees \in Nat, NEW to \in Scripts, NEW a \in Int
  PROVE  LET vout == <<Output(to, a)>>
         IN  /\ vout \in Formed /\ ValueTo(Scripts, vout) = a
             /\ Accepts(h, vout, fees) <=>
                  /\ MoneyRange(a) /\ MoneyRange(fees) /\ a <= fees + GetBlockSubsidy(h)
                  /\ (IF to = Treasury THEN a ELSE 0) = TreasuryReward(h)
<1> DEFINE vout == <<Output(to, a)>>
<1>1. /\ Len(vout) = 1 /\ DOMAIN vout = {1} /\ vout[1] = [script |-> to, value |-> a]
      /\ vout \in Seq(Outputs(Int))
  BY DEF Output, Outputs
<1> HIDE DEF vout
<1>2. /\ ValueTo(Scripts, vout) = a
      /\ ValueTo({Treasury}, vout) = (IF to = Treasury THEN a ELSE 0)
  BY <1>1 DEF ValueTo, Paid
<1>3. (\A i \in DOMAIN vout : MoneyRange(vout[i].value)) <=> MoneyRange(a)
  BY <1>1
<1>4. Accepts(h, vout, fees) <=>
         /\ MoneyRange(a) /\ MoneyRange(fees) /\ a <= fees + GetBlockSubsidy(h)
         /\ (IF to = Treasury THEN a ELSE 0) = TreasuryReward(h)
  <2>1. h > 0
    OBVIOUS
  <2> QED
    BY <1>2, <1>3, <2>1 DEF Accepts
<1>5. vout \in Formed
  BY <1>1 DEF Formed
<1> QED
  BY <1>2, <1>4, <1>5 DEF vout

(* The rules for a coinbase whose second output pays the treasury.         *)
TwoRules(h, to, a, b, fees) ==
    /\ MoneyRange(a) /\ MoneyRange(b) /\ MoneyRange(a + b) /\ MoneyRange(fees)
    /\ a + b <= fees + GetBlockSubsidy(h)
    /\ (IF to = Treasury THEN a + b ELSE b) = TreasuryReward(h)

(* ConnectBlock accepts such a coinbase when it keeps them.                *)
LEMMA AcceptsTwo ==
  ASSUME NEW h \in Nat \ {0}, NEW fees \in Nat, NEW to \in Scripts,
         NEW a \in Int, NEW b \in Int
  PROVE  LET vout == <<Output(to, a), Output(Treasury, b)>>
         IN  /\ vout \in Formed /\ ValueTo(Scripts, vout) = a + b
             /\ Accepts(h, vout, fees) <=> TwoRules(h, to, a, b, fees)
<1> DEFINE vout == <<Output(to, a), Output(Treasury, b)>>
<1>1. /\ Len(vout) = 2 /\ DOMAIN vout = {1, 2} /\ vout[1] = [script |-> to, value |-> a]
      /\ vout[2] = [script |-> Treasury, value |-> b]
      /\ vout \in Seq(Outputs(Int))
  BY DEF Output, Outputs, Scripts
<1> HIDE DEF vout
<1>2. /\ ValueTo(Scripts, vout) = a + b
      /\ ValueTo({Treasury}, vout) = IF to = Treasury THEN a + b ELSE b
  BY <1>1 DEF ValueTo, Paid, Scripts
<1>3. (\A i \in DOMAIN vout : MoneyRange(vout[i].value)) <=> MoneyRange(a) /\ MoneyRange(b)
  BY <1>1
<1>4. Accepts(h, vout, fees) <=> TwoRules(h, to, a, b, fees)
  <2>1. h > 0
    OBVIOUS
  <2> QED
    BY <1>2, <1>3, <2>1, Zenon DEF Accepts, TwoRules
<1>5. vout \in Formed
  BY <1>1 DEF Formed
<1> QED
  BY <1>2, <1>4, <1>5 DEF vout

(* CreateNewBlock pays the whole reward, in one output or two.             *)
LEMMA Built ==
  ASSUME NEW h \in Nat \ {0}, NEW fees \in Nat, NEW to \in Scripts
  PROVE  LET vout == CreateNewBlock(h, fees, to)
             S == GetBlockSubsidy(h)
             T == TreasuryReward(h)
         IN  /\ vout \in Formed /\ ValueTo(Scripts, vout) = fees + S
             /\ T = 0 => vout = <<Output(to, fees + S)>>
             /\ T > 0 => vout = <<Output(to, fees + S - T), Output(Treasury, T)>>
<1> DEFINE S == GetBlockSubsidy(h)
           T == TreasuryReward(h)
<1>1. S \in Nat /\ T \in Nat
  BY SubsidyType
<1>2. CASE T = 0
  <2>1. ~(T > 0) /\ fees + S - T = fees + S /\ fees + S \in Int
    BY <1>1, <1>2
  <2>2. CreateNewBlock(h, fees, to) = <<Output(to, fees + S)>>
    BY <2>1, Zenon DEF CreateNewBlock
  <2> QED
    BY <2>1, <2>2, <1>2, AcceptsOne
<1>3. CASE T > 0
  <2>1. T # 0 /\ (fees + S - T) + T = fees + S /\ fees + S - T \in Int /\ T \in Int
    BY <1>1, <1>3
  <2>2. CreateNewBlock(h, fees, to) = <<Output(to, fees + S - T), Output(Treasury, T)>>
    BY <1>3, Zenon DEF CreateNewBlock
  <2>3. LET vout == <<Output(to, fees + S - T), Output(Treasury, T)>>
        IN  vout \in Formed /\ ValueTo(Scripts, vout) = (fees + S - T) + T
    BY <2>1, AcceptsTwo
  <2> QED
    BY <2>1, <2>2, <2>3, Zenon
<1> QED
  BY <1>1, <1>2, <1>3

(* What a pool builds from a template pays the whole reward.               *)
LEMMA PoolBuilt ==
  ASSUME NEW p \in Nat, NEW fees \in Nat, NEW vout \in PoolCoinbases(Template(p, fees))
  PROVE  LET S == GetBlockSubsidy(p + 1)
             T == TreasuryReward(p + 1)
         IN  /\ vout \in Formed /\ ValueTo(Scripts, vout) = fees + S
             /\ \/ vout = <<Output(Miner, (fees + S) - T), Output(Treasury, T)>>
                \/ T = 0 /\ vout = <<Output(Miner, fees + S)>>
<1> DEFINE S == GetBlockSubsidy(p + 1)
           T == TreasuryReward(p + 1)
<1>1. p + 1 \in Nat \ {0} /\ p + 1 \in Nat /\ Miner \in Scripts
  BY DEF Scripts
<1>2. S \in Nat /\ T \in Nat
  BY <1>1, SubsidyType
<1>3. /\ TreasuryValue(Template(p, fees)) = T
      /\ ValueTo(Scripts, Template(p, fees).vout) = fees + S
  BY <1>1, Built DEF Template, TreasuryValue
<1>4. CASE vout = <<Output(Miner, (fees + S) - T), Output(Treasury, T)>>
  <2>1. ((fees + S) - T) + T = fees + S /\ (fees + S) - T \in Int /\ T \in Int
    BY <1>2
  <2>2. LET w == <<Output(Miner, (fees + S) - T), Output(Treasury, T)>>
        IN  w \in Formed /\ ValueTo(Scripts, w) = ((fees + S) - T) + T
    BY <1>1, <2>1, AcceptsTwo
  <2> QED
    BY <1>4, <2>1, <2>2, Zenon
<1>5. CASE T = 0 /\ vout = <<Output(Miner, (fees + S) - T)>>
  <2>1. (fees + S) - T = fees + S /\ fees + S \in Int
    BY <1>2, <1>5
  <2> QED
    BY <1>1, <1>5, <2>1, AcceptsOne
<1>6. \/ vout = <<Output(Miner, (fees + S) - T), Output(Treasury, T)>>
      \/ T = 0 /\ vout = <<Output(Miner, (fees + S) - T)>>
  <2> DEFINE Choice(v, t) == \/ vout = <<Output(Miner, v - t), Output(Treasury, t)>>
                             \/ t = 0 /\ vout = <<Output(Miner, v - t)>>
  <2>1. Choice(ValueTo(Scripts, Template(p, fees).vout), TreasuryValue(Template(p, fees)))
    BY Zenon DEF PoolCoinbases
  <2> HIDE DEF Choice
  <2>2. Choice(fees + S, T)
    BY <1>3, <2>1, Zenon
  <2> QED
    BY <2>2, Zenon DEF Choice
<1> QED
  BY <1>4, <1>5, <1>6

-----------------------------------------------------------------------------
(* The invariant.                                                          *)

(* At genesis nothing is issued and the whole schedule is ahead.           *)
LEMMA InitIInv == Init => IInv
<1> SUFFICES ASSUME Init PROVE IInv
  OBVIOUS
<1>1. Halvings(0) = 0 /\ 0 % Interval = 0
  BY RewardAssumption DEF Halvings
<1>2. GetBlockSubsidy(0) = Initial
  <2>1. 0 \in Nat /\ ~(Halvings(0) >= Width) /\ Initial \div 1 = Initial
    BY <1>1, RewardAssumption
  <2>2. 2^0 = 1
    BY RewardAssumption, Zenon
  <2> QED
    BY <1>1, <2>1, <2>2, ShiftBelow, Zenon
<1>3. Room(0) = (2 * Interval - 1 - 0) * Initial
  BY <1>1, <1>2 DEF Room
<1>4. (2 * Interval - 1) * Initial \in Nat
  BY RewardAssumption
<1> QED
  BY <1>3, <1>4, RewardAssumption DEF Init, IInv, Kept

(* A connected block mints at most its subsidy over the fees it collects.  *)
LEMMA ConnectIInv ==
  ASSUME IInv, NEW vout \in Formed, NEW fees \in Nat, ConnectBlock(vout, fees)
  PROVE  IInv'
<1> DEFINE out == ValueTo(Scripts, vout)
<1>1. height \in Nat /\ height + 1 \in 0..MaxHeight
  BY RewardAssumption DEF IInv, ConnectBlock
<1>2. out \in Int
  <2>1. /\ vout[1] \in Outputs(Int)
        /\ Len(vout) = 2 => vout[2] \in Outputs(Int)
    <3>1. vout \in Seq(Outputs(Int)) /\ Len(vout) \in {1, 2}
      BY Zenon DEF Formed
    <3>2. ASSUME NEW O, NEW v \in Seq(O), Len(v) \in {1, 2}
          PROVE  v[1] \in O /\ (Len(v) = 2 => v[2] \in O)
      BY <3>2
    <3> QED
      BY <3>1, <3>2, Zenon
  <2> QED
    BY <2>1 DEF ValueTo, Paid, Outputs
<1>3. fees <= issued /\ out >= 0 /\ out <= fees + GetBlockSubsidy(height + 1)
  BY Zenon DEF ConnectBlock, Accepts, MoneyRange
<1>4. height' = height + 1 /\ issued' = issued + out - fees /\ poll' = poll /\ gbt' = gbt
  BY Zenon DEF ConnectBlock
<1> HIDE DEF out
<1>5. Room(height) \in Nat /\ Room(height + 1) \in Nat
      /\ GetBlockSubsidy(height + 1) + Room(height + 1) <= Room(height)
  BY <1>1, RoomStep
<1>6. issued \in Nat /\ issued' \in Nat /\ issued' <= issued + GetBlockSubsidy(height + 1)
  BY <1>1, <1>2, <1>3, <1>4, SubsidyType DEF IInv
<1>7. (2 * Interval - 1) * Initial \in Nat
  BY RewardAssumption
<1>8. issued' + Room(height + 1) <= (2 * Interval - 1) * Initial
  BY <1>1, <1>5, <1>6, <1>7, SubsidyType DEF IInv
<1>9. Kept'
  <2>1. CASE gbt = None
    BY <1>4, <2>1 DEF Kept
  <2>2. CASE gbt # None
    <3>1. PICK p \in 0..height, f \in Nat : gbt = Template(p, f)
      BY <2>2, Zenon DEF IInv, Kept
    <3>2. p \in 0..(height + 1) /\ p # height + 1
      BY <1>1
    <3> QED
      BY <1>4, <3>1, <3>2, Zenon DEF Kept, Template, CreateNewBlock
  <2> QED
    BY <2>1, <2>2
<1>10. poll' \in 0..MaxHeight \cup {None}
  BY <1>4 DEF IInv
<1>11. Room(height)' = Room(height + 1)
  BY <1>4 DEF Room, GetBlockSubsidy, Halvings, RightShift
<1> QED
  BY <1>1, <1>4, <1>6, <1>8, <1>9, <1>10, <1>11 DEF IInv

(* getblocktemplate keeps a template of the tip, under cs_main.            *)
LEMMA KeptStep ==
  ASSUME IInv, UpdateTemplate(height) \/ UNCHANGED gbt, UNCHANGED <<height, issued>>,
         poll' \in 0..MaxHeight \cup {None}
  PROVE  IInv'
<1>1. Kept'
  <2>1. CASE UNCHANGED gbt
    BY <2>1, Zenon DEF IInv, Kept, Template, CreateNewBlock
  <2>2. CASE gbt' = None
    BY <2>2 DEF Kept
  <2>3. ASSUME NEW fees \in 0..MaxFees, fees <= issued,
               gbt' = [pindexPrev |-> height, parent |-> height, fees |-> fees,
                       vout |-> CreateNewBlock(height + 1, fees, Miner)]
        PROVE  Kept'
    <3>1. height \in 0..height /\ fees \in Nat
      BY RewardAssumption DEF IInv
    <3>2. gbt' = Template(height, fees)
      BY <2>3, Zenon DEF Template
    <3> QED
      BY <2>3, <3>1, <3>2, Zenon DEF Kept, Template, CreateNewBlock
  <2> QED
    BY <2>1, <2>2, <2>3, Zenon DEF UpdateTemplate, NewTemplate
<1> QED
  BY <1>1 DEF IInv, Room, GetBlockSubsidy, Halvings, RightShift

(* Every block a miner, a pool or a peer connects and every call of        *)
(* getblocktemplate keeps the invariant.                                   *)
LEMMA NextIInv == IInv /\ [Next]_vars => IInv'
<1> SUFFICES ASSUME IInv, [Next]_vars PROVE IInv'
  OBVIOUS
<1>1. height \in Nat /\ height + 1 \in Nat \ {0} /\ poll \in 0..MaxHeight \cup {None}
  BY DEF IInv
<1>2. \A f \in 0..MaxFees : f \in Nat
  BY RewardAssumption
<1>3. CASE UNCHANGED vars
  BY <1>1, <1>3, KeptStep, Zenon DEF vars
<1>4. ASSUME NEW fees \in 0..MaxFees, NEW to \in Scripts, MinedBlock(to, fees) PROVE IInv'
  BY <1>1, <1>2, <1>4, Built, ConnectIInv, Zenon DEF MinedBlock
<1>5. ASSUME NEW fees \in 0..MaxFees, NEW vout \in Coinbases, PeerBlock(vout, fees) PROVE IInv'
  <2>1. ASSUME NEW O, NEW n \in {1, 2}, NEW v \in [1..n -> O] PROVE v \in Seq(O) /\ Len(v) = n
    OBVIOUS
  <2>2. Outputs(Values) \subseteq Outputs(Int)
    <3>1. Values \subseteq Int
      BY RewardAssumption
    <3>2. ASSUME NEW o \in Outputs(Values)
          PROVE  /\ o = [script |-> o.script, value |-> o.value]
                 /\ o.script \in Scripts /\ o.value \in Values
      BY DEF Outputs
    <3> QED
      BY <3>1, <3>2, Zenon DEF Outputs
  <2>3. PICK n \in {1, 2} : vout \in [1..n -> Outputs(Int)]
    BY <2>2, Zenon DEF Coinbases
  <2>4. vout \in Formed
    BY <2>1, <2>3, Zenon DEF Formed
  <2> QED
    BY <1>2, <1>5, <2>4, ConnectIInv, Zenon DEF PeerBlock
<1>6. CASE LongPoll
  BY <1>6, KeptStep DEF LongPoll, IInv
<1>7. CASE Polled
  BY <1>7, KeptStep DEF Polled
<1>8. CASE Getblocktemplate
  BY <1>1, <1>8, KeptStep, Zenon DEF Getblocktemplate
<1>9. CASE PoolBlock
  <2>1. PICK p \in 0..height, f \in Nat : gbt = Template(p, f)
    BY <1>9, Zenon DEF IInv, Kept, PoolBlock
  <2>2. PICK vout \in PoolCoinbases(gbt) : ConnectBlock(vout, gbt.fees)
    BY <1>9, Zenon DEF PoolBlock
  <2>3. p \in Nat /\ gbt.fees = f
    BY <1>1, <2>1 DEF Template
  <2>4. vout \in Formed
    BY <2>1, <2>2, <2>3, PoolBuilt, Zenon
  <2> QED
    BY <2>2, <2>3, <2>4, ConnectIInv, Zenon
<1> QED
  BY <1>3, <1>4, <1>5, <1>6, <1>7, <1>8, <1>9, Zenon DEF Next

(* The inductive invariant holds on every chain of accepted blocks.        *)
THEOREM Invariance == Spec => []IInv
BY InitIInv, NextIInv, PTL DEF Spec

(* The room left is never negative, so the issued coins stay below the     *)
(* limit of consensus/amount.h by one initial subsidy, for every schedule. *)
THEOREM SupplyBound == Spec => []SupplyWithinLimit
<1>1. IInv => SupplyWithinLimit
  <2> SUFFICES ASSUME IInv PROVE SupplyWithinLimit
    OBVIOUS
  <2>1. Room(height) \in Nat
    BY RoomStep DEF IInv
  <2>2. (2 * Interval - 1) * Initial + Initial = 2 * Interval * Initial
    BY RewardAssumption
  <2>3. (2 * Interval - 1) * Initial \in Nat /\ Initial \in Nat
    BY RewardAssumption
  <2> QED
    BY <2>1, <2>2, <2>3, RewardAssumption DEF IInv, SupplyWithinLimit
<1> QED
  BY <1>1, Invariance, PTL

(* Heights, amounts and the kept template have their types, and the coins  *)
(* in existence are an amount MoneyRange takes.                            *)
THEOREM TypeCorrect == Spec => []TypeOK
<1>1. IInv /\ SupplyWithinLimit => TypeOK
  <2> SUFFICES ASSUME IInv, SupplyWithinLimit PROVE TypeOK
    OBVIOUS
  <2>1. Initial \in Nat /\ MAX_MONEY \in Nat
    BY RewardAssumption
  <2>2. ASSUME gbt # None PROVE gbt \in Templates
    <3>1. PICK p \in 0..height, f \in Nat : gbt = Template(p, f)
      BY <2>2, Zenon DEF IInv, Kept
    <3>2. p \in 0..MaxHeight /\ p + 1 \in Nat \ {0} /\ Miner \in Scripts
      BY RewardAssumption DEF IInv, Scripts
    <3>3. CreateNewBlock(p + 1, f, Miner) \in Seq(Outputs(Int))
      BY <3>2, Built, Zenon DEF Formed
    <3> QED
      BY <3>1, <3>2, <3>3, Zenon DEF Template, Templates
  <2> QED
    BY <2>1, <2>2 DEF IInv, SupplyWithinLimit, TypeOK, MoneyRange
<1> QED
  BY <1>1, Invariance, SupplyBound, PTL

(* The reward of the next block is an amount, for all fees that exist.     *)
LEMMA RewardInRange ==
  ASSUME IInv, NEW fees \in Nat, fees <= issued
  PROVE  LET S == GetBlockSubsidy(height + 1)
             T == TreasuryReward(height + 1)
         IN  /\ height + 1 \in Nat \ {0} /\ S \in Nat /\ T \in Nat /\ T <= S
             /\ MAX_MONEY \in Nat /\ fees + S <= MAX_MONEY
<1> DEFINE h == height + 1
           S == GetBlockSubsidy(h)
           T == TreasuryReward(h)
<1>1. height \in Nat /\ h \in Nat \ {0} /\ issued \in Nat
  BY DEF IInv
<1>2. S \in Nat /\ T \in Nat /\ T <= S
  BY <1>1, SubsidyType
<1>3. Room(height) \in Nat /\ Room(h) \in Nat /\ S + Room(h) <= Room(height)
  BY <1>1, RoomStep
<1>4. /\ (2 * Interval - 1) * Initial <= MAX_MONEY /\ (2 * Interval - 1) * Initial \in Nat
      /\ MAX_MONEY \in Nat
  BY RewardAssumption
<1>5. fees + S <= MAX_MONEY
  BY <1>1, <1>2, <1>3, <1>4 DEF IInv
<1> QED
  BY <1>1, <1>2, <1>4, <1>5

(* CreateNewBlock builds coinbases that ConnectBlock accepts at every      *)
(* height and for all existing fees, unless they pay the treasury script.  *)
THEOREM TemplatesPass == Spec => []TemplatesAccepted
<1>1. IInv => TemplatesAccepted
  <2> DEFINE h == height + 1
             S == GetBlockSubsidy(h)
             T == TreasuryReward(h)
  <2> SUFFICES ASSUME IInv, NEW fees \in 0..issued
               PROVE  /\ Accepts(h, CreateNewBlock(h, fees, Miner), fees)
                      /\ Accepts(h, CreateNewBlock(h, fees, Treasury), fees) <=> fees + S = T
    BY DEF TemplatesAccepted
  <2>1. fees \in Nat /\ fees <= issued
    BY DEF IInv
  <2>2. /\ h \in Nat \ {0} /\ S \in Nat /\ T \in Nat /\ T <= S
        /\ MAX_MONEY \in Nat /\ fees + S <= MAX_MONEY
    BY <2>1, RewardInRange
  <2>3. Miner \in Scripts /\ Treasury \in Scripts /\ Miner # Treasury
    BY RewardAssumption DEF Scripts
  <2> HIDE DEF h, S, T
  <2>4. CASE T = 0
    <3> DEFINE a == fees + S
    <3>1. \A to \in Scripts : CreateNewBlock(h, fees, to) = <<Output(to, a)>>
      BY <2>1, <2>2, <2>4, Built, Zenon DEF S, T
    <3>2. a \in Int /\ MoneyRange(a) /\ MoneyRange(fees) /\ a <= fees + S
      BY <2>1, <2>2 DEF MoneyRange
    <3>3. \A to \in Scripts : Accepts(h, <<Output(to, a)>>, fees) <=>
             /\ MoneyRange(a) /\ MoneyRange(fees) /\ a <= fees + S
             /\ (IF to = Treasury THEN a ELSE 0) = T
      <4> HIDE DEF a
      <4> QED
        BY <2>1, <2>2, <3>2, AcceptsOne, Zenon DEF S, T
    <3> QED
      BY <2>3, <2>4, <3>1, <3>2, <3>3, Zenon
  <2>5. CASE T > 0
    <3> DEFINE a == fees + S - T
    <3>1. \A to \in Scripts : CreateNewBlock(h, fees, to) = <<Output(to, a), Output(Treasury, T)>>
      BY <2>1, <2>2, <2>5, Built, Zenon DEF S, T
    <3>2. a \in Int /\ T \in Int /\ a + T = fees + S
      BY <2>1, <2>2
    <3>3. \A to \in Scripts : Accepts(h, <<Output(to, a), Output(Treasury, T)>>, fees)
             <=> TwoRules(h, to, a, T, fees)
      <4> HIDE DEF a
      <4> QED
        BY <2>1, <2>2, <3>2, AcceptsTwo, Zenon DEF S, T
    <3>4. /\ MoneyRange(a) /\ MoneyRange(T) /\ MoneyRange(a + T) /\ MoneyRange(fees)
          /\ a + T <= fees + S
      BY <2>1, <2>2 DEF MoneyRange
    <3> HIDE DEF a
    <3> QED
      BY <2>3, <3>1, <3>2, <3>3, <3>4, Zenon DEF TwoRules, S, T
  <2> QED
    BY <2>2, <2>4, <2>5
<1> QED
  BY <1>1, Invariance, PTL

(* getblocktemplate serves pools in every era, whatever was connected      *)
(* while a long poll waited, and what they build from its reply is         *)
(* accepted, for every schedule, percentage and amount of fees.            *)
THEOREM PoolsAreServed == Spec => []PoolsServed
<1>1. IInv => PoolsServed
  <2> SUFFICES ASSUME IInv, gbt # None PROVE PoolsServed
    BY DEF PoolsServed
  <2>1. PICK p \in 0..height, f \in Nat : gbt = Template(p, f) /\ (p = height => f <= issued)
    BY Zenon DEF IInv, Kept
  <2>2. p \in Nat /\ p + 1 \in Nat \ {0} /\ Miner \in Scripts /\ Miner # Treasury
    BY RewardAssumption DEF IInv, Scripts
  <2>3. gbt.pindexPrev = p /\ gbt.parent = p /\ gbt.fees = f
        /\ gbt.vout = CreateNewBlock(p + 1, f, Miner)
    BY <2>1 DEF Template
  <2>4. Served(gbt)
    <3> DEFINE T == TreasuryReward(p + 1)
               a == f + GetBlockSubsidy(p + 1) - T
    <3>1. TreasuryValue(gbt) = T /\ T \in Nat
      BY <2>2, <2>3, SubsidyType DEF TreasuryValue
    <3>2. CASE T = 0
      BY <3>1, <3>2 DEF Served
    <3>3. CASE T > 0
      <4>1. gbt.vout = <<Output(Miner, a), Output(Treasury, T)>>
        BY <2>2, <2>3, <3>3, Built, Zenon
      <4> HIDE DEF a, T
      <4>2. /\ 2 \in DOMAIN gbt.vout /\ gbt.vout[2] = Output(Treasury, T)
            /\ gbt.vout[1].script = Miner
        BY <4>1 DEF Output
      <4>3. \A j \in 1..(2 - 1) : gbt.vout[j].script # Treasury
        BY <2>2, <4>2
      <4> QED
        BY <3>1, <4>2, <4>3, Zenon DEF Served
    <3> QED
      BY <3>1, <3>2, <3>3
  <2>5. ASSUME p = height, NEW vout \in PoolCoinbases(gbt)
        PROVE  /\ ValueTo(Scripts, vout) = f + GetBlockSubsidy(height + 1)
               /\ Accepts(height + 1, vout, f)
    <3> DEFINE S == GetBlockSubsidy(height + 1)
               T == TreasuryReward(height + 1)
               a == (f + S) - T
    <3>1. /\ height + 1 \in Nat \ {0} /\ S \in Nat /\ T \in Nat /\ T <= S
          /\ MAX_MONEY \in Nat /\ f + S <= MAX_MONEY
      BY <2>1, <2>5, RewardInRange
    <3>2. /\ ValueTo(Scripts, vout) = f + S
          /\ \/ vout = <<Output(Miner, a), Output(Treasury, T)>>
             \/ T = 0 /\ vout = <<Output(Miner, f + S)>>
      BY <2>1, <2>2, <2>5, PoolBuilt, Zenon
    <3>3. /\ MoneyRange(a) /\ MoneyRange(T) /\ MoneyRange(f) /\ MoneyRange(f + S)
          /\ f + S <= f + S /\ f + S \in Int /\ a \in Int /\ T \in Int /\ a + T = f + S
      BY <3>1 DEF MoneyRange
    <3> HIDE DEF a
    <3>4. CASE vout = <<Output(Miner, a), Output(Treasury, T)>>
      BY <2>2, <3>1, <3>2, <3>3, <3>4, AcceptsTwo, Zenon DEF TwoRules
    <3>5. CASE T = 0 /\ vout = <<Output(Miner, f + S)>>
      BY <2>2, <3>1, <3>2, <3>3, <3>5, AcceptsOne, Zenon
    <3> QED
      BY <3>2, <3>4, <3>5
  <2> QED
    BY <2>3, <2>4, <2>5, Zenon DEF PoolsServed
<1> QED
  BY <1>1, Invariance, PTL
=============================================================================

----------------------------- MODULE Difficulty -----------------------------
(***************************************************************************)
(* The difficulty rule of the Slithy networks: GetNextWorkRequired,        *)
(* CalculateNextWorkRequired, ScaleTarget and PermittedDifficultyTransition*)
(* (core/src/pow.cpp) with the compact encoding of targets                 *)
(* (core/src/arith_uint256.cpp).  arith_uint256 is modelled modulo Width,  *)
(* and a byte of a target is a digit of base Base, so a small Base and     *)
(* Width show the carries and roundings of 256 and 2^256.  Mainnet and     *)
(* beta set fPowAllowMinDifficultyBlocks, enforce_BIP94 and                *)
(* fPowNoRetargeting to false; the branches of the other test networks are *)
(* left out.                                                               *)
(***************************************************************************)
EXTENDS Integers, Sequences, FiniteSetsExt, TLC

CONSTANTS
    Base,       \* 256: one byte of the compact encoding (even)
    Digits,     \* 32: bytes of a target
    powLimit,   \* consensus.powLimit
    Timespan,   \* nPowTargetTimespan
    Spacing,    \* nPowTargetSpacing
    MedianSpan, \* 11: blocks of GetMedianTimePast
    Steps,      \* how far a header's time may be from its parent's
    MaxHeight   \* bound: blocks in the chain

Width == Base^Digits
DifficultyAdjustmentInterval == Timespan \div Spacing

ASSUME DifficultyAssumption ==
    /\ Base \in Nat /\ Base > 1 /\ Base % 2 = 0 /\ Digits \in Nat /\ Digits > 3
    /\ Width \in Nat /\ powLimit \in 1..(Width - 1)
    /\ Spacing \in Nat \ {0} /\ Timespan \in Nat /\ Timespan > 0 /\ Timespan % 4 = 0 /\ Timespan >= Spacing
    /\ 4 * Timespan * Timespan < Width   \* "fits in 128 bits"
    /\ Steps \subseteq Int /\ MaxHeight \in Nat /\ MedianSpan \in Nat \ {0}

(* The laws of exponents, up to the width of a target.                     *)
ASSUME PowersAssumption ==
    /\ Base^0 = 1 /\ Base^1 = Base
    /\ \A m, n \in 0..Digits :
          Base^m \in Nat \ {0} /\ (m + n <= Digits => Base^(m + n) = Base^m * Base^n)

VARIABLE chain  \* the headers from genesis to the tip, height h at h + 1

-----------------------------------------------------------------------------
(* arith_uint256.                                                          *)

Mul(a, b) == (a * b) % Width
Sub(a, b) == (a - b) % Width
Add(a, b) == (a + b) % Width

SignBit == Base^3 \div 2

(* (bits() + 7) / 8: the digits of x without leading zeros.                *)
Size(x) == Min({n \in 0..Digits : x < Base^n})

(* The three leading digits of x.                                          *)
Mantissa(x) == IF Size(x) <= 3 THEN x * Base^(3 - Size(x)) ELSE x \div Base^(Size(x) - 3)

(* Fault: a mantissa that reaches the sign bit is kept as it is.           *)
GetCompactSigned(x) == [size |-> Size(x), word |-> Mantissa(x)]

GetCompact(x) ==
    IF Mantissa(x) >= SignBit THEN [size |-> Size(x) + 1, word |-> Mantissa(x) \div Base]
                              ELSE [size |-> Size(x), word |-> Mantissa(x)]

SetCompact(c) ==
    LET word == c.word % SignBit
    IN  IF c.size <= 3 THEN word \div Base^(3 - c.size) ELSE Mul(word, Base^(c.size - 3))

(* The flags of SetCompact, with DeriveTarget's range check.               *)
Negative(c) == c.word % SignBit # 0 /\ c.word >= SignBit
Overflow(c) ==
    LET word == c.word % SignBit
    IN  word # 0 /\ \/ c.size > Digits + 2
                    \/ word > Base - 1 /\ c.size > Digits + 1
                    \/ word > Base^2 - 1 /\ c.size > Digits
DeriveTarget(c) ==
    {t \in {SetCompact(c)} : ~Negative(c) /\ ~Overflow(c) /\ t # 0 /\ t <= powLimit}

-----------------------------------------------------------------------------
(* pow.cpp.                                                                *)

(* Fault: multiply first, as upstream does; the product wraps around.      *)
ScaleTargetWraps(target, elapsed, interval, limit) == Min({Mul(target, elapsed) \div interval, limit})

ScaleTarget(target, elapsed, interval, limit) ==
    LET quotient  == target \div interval
        remainder == Sub(target, Mul(quotient, interval))
        base      == Mul(quotient, elapsed)
        tail      == Mul(remainder, elapsed) \div interval
    IN  IF quotient > limit \div elapsed \/ tail > Sub(limit, base) THEN limit ELSE Add(base, tail)

(* Fault: only the lower end is clamped.                                   *)
ClampBelow(timespan) == Max({Timespan \div 4, timespan})

(* The clamp of nActualTimespan.                                           *)
Clamp(timespan) == Max({Timespan \div 4, Min({Timespan * 4, timespan})})

(* pindexLast.                                                             *)
Last(c) == c[Len(c)]

CalculateNextWorkRequired(last, nFirstBlockTime) ==
    GetCompact(Min({powLimit,
        ScaleTarget(SetCompact(last.nBits), Clamp(last.time - nFirstBlockTime), Timespan, powLimit)}))

GetNextWorkRequired(c) ==
    LET nHeight == Len(c) - 1
    IN  IF (nHeight + 1) % DifficultyAdjustmentInterval # 0 THEN Last(c).nBits
        ELSE CalculateNextWorkRequired(Last(c), c[Len(c) - (DifficultyAdjustmentInterval - 1)].time)

(* The rounded targets between which headers sync accepts a retarget.      *)
Rounded(old_nbits, timespan) ==
    SetCompact(GetCompact(Min({powLimit, ScaleTarget(SetCompact(old_nbits), timespan, Timespan, powLimit)})))

PermittedDifficultyTransition(height, old_nbits, new_nbits) ==
    IF height % DifficultyAdjustmentInterval = 0
    THEN /\ SetCompact(new_nbits) <= Rounded(old_nbits, Timespan * 4)
         /\ SetCompact(new_nbits) >= Rounded(old_nbits, Timespan \div 4)
    ELSE old_nbits = new_nbits

-----------------------------------------------------------------------------
(* A chain of headers.                                                     *)

(* GetMedianTimePast of the tip.                                           *)
MedianTimePast ==
    LET n     == Min({MedianSpan, Len(chain)})
        times == [i \in 1..n |-> chain[Len(chain) - n + i].time]
    IN  SortSeq(times, <)[(n \div 2) + 1]

(* Genesis, with any target the encoding can state.                        *)
Init == \E t \in 1..powLimit : chain = <<[time |-> 0, nBits |-> GetCompact(t)]>>

(* ContextualCheckBlockHeader and the proof of work of the next header.    *)
AcceptHeader(step) ==
    /\ Len(chain) <= MaxHeight
    /\ LET header == [time |-> Last(chain).time + step, nBits |-> GetNextWorkRequired(chain)]
       IN  /\ DeriveTarget(header.nBits) # {}
           /\ header.time > MedianTimePast
           /\ chain' = Append(chain, header)

Next == \E step \in Steps : AcceptHeader(step)

Spec == Init /\ [][Next]_chain

-----------------------------------------------------------------------------

(* The headers have a time and a compact target, whose mantissa never sets *)
(* the sign bit (the assertion in GetCompact).                             *)
TypeOK ==
    chain \in Seq([time : Int, nBits : [size : 0..(Digits + 1), word : 0..(SignBit - 1)]])

(* ScaleTarget is the exact product over the interval, cut at the limit,   *)
(* for every clamped time: "Split before multiplying. The quotient is      *)
(* bounded before its multiplication; the remainder product fits".         *)
ScaleTargetExact ==
    LET target == SetCompact(Last(chain).nBits)
    IN  \A elapsed \in (Timespan \div 4)..(Timespan * 4) :
            ScaleTarget(target, elapsed, Timespan, powLimit)
                = Min({powLimit, (target * elapsed) \div Timespan})

(* Headers sync (PermittedDifficultyTransition, before a chain is stored)  *)
(* never refuses a step that validation (GetNextWorkRequired) demands,     *)
(* whatever the timestamps and the rounding of the encoding.               *)
PresyncAccepts ==
    PermittedDifficultyTransition(Len(chain), Last(chain).nBits, GetNextWorkRequired(chain))

(* The demanded target can be mined: DeriveTarget accepts it, unless a     *)
(* retarget from a target below four rounds to zero.                       *)
NextTargetDerivable ==
    SetCompact(Last(chain).nBits) >= 4 => DeriveTarget(GetNextWorkRequired(chain)) # {}
=============================================================================

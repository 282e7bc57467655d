-------------------------- MODULE DifficultyProofs --------------------------
(***************************************************************************)
(* ScaleTarget computes the exact scaled target, for every word width,     *)
(* limit and interval: no intermediate product wraps around.  Storing a    *)
(* target in the compact encoding rounds it down and keeps the order of    *)
(* targets.  Hence headers sync accepts every retarget that validation     *)
(* demands, on every chain.                                                *)
(***************************************************************************)
EXTENDS Difficulty, SequenceTheorems, WellFoundedInduction, TLAPS

(* The minimum of a pair.                                                  *)
LEMMA MinPair ==
  ASSUME NEW a \in Int, NEW b \in Int
  PROVE  Min({a, b}) = IF a <= b THEN a ELSE b
BY DEF Min

(* Quotient and remainder of a division.                                   *)
LEMMA Division ==
  ASSUME NEW t \in Nat, NEW i \in Nat \ {0}
  PROVE  /\ t \div i \in Nat /\ t - (t \div i) * i \in 0..(i - 1)
         /\ (t \div i) * i \in Nat /\ (t \div i) * i <= t
BY SMT

(* A number below the width is its own residue.                            *)
LEMMA NoWrap ==
  ASSUME NEW x \in Nat, NEW w \in Nat, x < w
  PROVE  x % w = x
BY SMT

(* Splitting the factor before multiplying loses nothing.                  *)
LEMMA SplitProduct ==
  ASSUME NEW q \in Nat, NEW r \in Nat, NEW e \in Nat, NEW i \in Nat \ {0}
  PROVE  ((q * i + r) * e) \div i = q * e + (r * e) \div i
<1>1. (q * i + r) * e = (q * e) * i + r * e
  OBVIOUS
<1>2. ASSUME NEW x \in Nat, NEW y \in Nat PROVE (x * i + y) \div i = x + y \div i
  OBVIOUS
<1>3. q * e \in Nat /\ r * e \in Nat
  OBVIOUS
<1> QED
  BY <1>1, <1>2, <1>3, Zenon

(* ScaleTarget(target, elapsed, interval, limit) of pow.cpp is the smaller *)
(* of the limit and target * elapsed / interval rounded down, as long as   *)
(* the two times' product is below the width: "the remainder product fits".*)
THEOREM ScaleTargetCorrect ==
  ASSUME NEW target \in 0..(Width - 1), NEW limit \in 0..(Width - 1),
         NEW elapsed \in Nat \ {0}, NEW interval \in Nat \ {0}, interval * elapsed < Width
  PROVE  ScaleTarget(target, elapsed, interval, limit)
            = Min({limit, (target * elapsed) \div interval})
<1> DEFINE q == target \div interval
           r == target - q * interval
           exact == (target * elapsed) \div interval
<1> Width \in Nat
  BY DifficultyAssumption
<1>1. q \in Nat /\ r \in 0..(interval - 1) /\ q * interval \in Nat /\ q * interval <= target
  <2>1. target \in Nat
    OBVIOUS
  <2> QED
    BY <2>1, Division, Zenon
<1>2. Mul(q, interval) = q * interval
  <2> HIDE DEF q, r, exact
  <2>1. q * interval \in Nat /\ q * interval < Width
    BY <1>1
  <2> QED
    BY <2>1, NoWrap, Zenon DEF Mul
<1>3. Sub(target, Mul(q, interval)) = r
  BY <1>1, <1>2, NoWrap DEF Sub
<1>4. r * elapsed \in Nat /\ r * elapsed < Width
  <2>1. r * elapsed <= interval * elapsed
    BY <1>1
  <2> QED
    BY <1>1, <2>1
<1>5. Mul(r, elapsed) = r * elapsed
  BY <1>4, NoWrap DEF Mul
<1>6. exact = q * elapsed + (r * elapsed) \div interval
  <2>1. target = q * interval + r
    BY <1>1
  <2> HIDE DEF q, r
  <2>2. q \in Nat /\ r \in Nat
    BY <1>1
  <2>3. ((q * interval + r) * elapsed) \div interval = q * elapsed + (r * elapsed) \div interval
    BY <2>2, SplitProduct
  <2> QED
    BY <2>1, <2>3, Zenon
<1>7. (r * elapsed) \div interval \in Nat /\ q * elapsed \in Nat /\ exact \in Nat
  BY <1>1, <1>4, <1>6
<1> DEFINE tail == (r * elapsed) \div interval
           base == q * elapsed
<1>8. ScaleTarget(target, elapsed, interval, limit)
         = IF q > limit \div elapsed \/ tail > Sub(limit, Mul(q, elapsed))
           THEN limit ELSE Add(Mul(q, elapsed), tail)
  BY <1>3, <1>5 DEF ScaleTarget
<1> HIDE DEF q, r, exact, tail, base
<1>9. CASE q > limit \div elapsed
  <2>1. base > limit
    <3>1. ASSUME NEW x \in Nat, x > limit \div elapsed PROVE x * elapsed > limit
      <4>1. limit < (limit \div elapsed) * elapsed + elapsed /\ limit \div elapsed \in Nat
        BY SMT
      <4>2. x >= limit \div elapsed + 1
        BY <3>1, <4>1
      <4>3. x * elapsed >= (limit \div elapsed + 1) * elapsed
        BY <4>1, <4>2
      <4> QED
        BY <4>1, <4>3
    <3> QED
      BY <1>1, <1>9, <3>1 DEF base
  <2>2. exact > limit
    BY <1>6, <1>7, <2>1 DEF base, tail
  <2> QED
    BY <1>7, <1>8, <1>9, <2>2, MinPair DEF exact
<1>10. CASE ~(q > limit \div elapsed)
  <2>1. base <= limit /\ base \in Nat
    <3>1. (limit \div elapsed) * elapsed <= limit /\ limit \div elapsed \in Nat
      BY Division
    <3>2. q * elapsed <= (limit \div elapsed) * elapsed
      BY <1>1, <1>10, <3>1
    <3> QED
      BY <1>1, <1>7, <3>1, <3>2 DEF base
  <2>2. Mul(q, elapsed) = base
    BY <2>1, NoWrap DEF Mul, base
  <2>3. Sub(limit, base) = limit - base
    BY <2>1, NoWrap DEF Sub
  <2>4. exact = base + tail /\ tail \in Nat
    BY <1>6, <1>7 DEF base, tail
  <2>5. tail <= limit - base => Add(base, tail) = base + tail
    BY <2>1, <2>4, NoWrap DEF Add
  <2> QED
    BY <1>7, <1>8, <1>10, <2>1, <2>2, <2>3, <2>4, <2>5, MinPair, SMTT(30) DEF exact
<1> QED
  BY <1>9, <1>10
-----------------------------------------------------------------------------
(* The compact encoding.                                                   *)

(* The weight of a digit.                                                  *)
Pow(n) == Base^n

(* The constants, and the laws of exponents for powers below the width.    *)
LEMMA Bounds ==
  /\ Pow(0) = 1 /\ Pow(1) = Base /\ Pow(Digits) = Width
  /\ Base \in Nat \ {0} /\ Base > 1 /\ Digits \in Nat /\ Digits > 3 /\ Width \in Nat
BY DifficultyAssumption, PowersAssumption DEF Pow, Width

(* The powers are positive.                                                *)
LEMMA PowNat == \A n \in 0..Digits : Pow(n) \in Nat \ {0}
BY PowersAssumption DEF Pow

(* The power of a sum.                                                     *)
LEMMA PowSum ==
  ASSUME NEW m \in 0..Digits, NEW n \in 0..Digits, m + n <= Digits
  PROVE  Pow(m + n) = Pow(m) * Pow(n)
BY PowersAssumption DEF Pow

(* The sign bit is half of the third digit's range.                        *)
LEMMA SignBitValue ==
  \E h \in Nat \ {0} : /\ Base = 2 * h /\ SignBit = h * Pow(2) /\ SignBit \in Nat \ {0}
                       /\ Pow(2) = Base * Base /\ Pow(3) = Base * Pow(2) /\ Pow(2) <= SignBit
                       /\ SignBit < Pow(3)
<1>1. PICK h \in Nat \ {0} : Base = 2 * h
  <2>1. Base \in Nat /\ Base > 1 /\ Base % 2 = 0
    BY DifficultyAssumption
  <2>2. Base = 2 * (Base \div 2) /\ Base \div 2 \in Nat \ {0}
    BY <2>1
  <2> QED
    BY <2>2
<1>2. Pow(2) = Base * Base
  <2>1. Pow(1 + 1) = Pow(1) * Pow(1)
    BY PowSum, Bounds
  <2> QED
    BY <2>1, Bounds
<1>3. Pow(3) = Base * Pow(2)
  <2>1. Pow(1 + 2) = Pow(1) * Pow(2)
    BY PowSum, Bounds
  <2> QED
    BY <2>1, Bounds
<1>4. Pow(2) \in Nat \ {0}
  BY PowNat, Bounds
<1>5. SignBit = h * Pow(2)
  <2>1. SignBit = (2 * h * Pow(2)) \div 2
    BY <1>1, <1>3 DEF SignBit, Pow
  <2>2. h * Pow(2) \in Nat /\ 2 * h * Pow(2) = 2 * (h * Pow(2))
    BY <1>1, <1>4
  <2>3. \A x \in Nat : (2 * x) \div 2 = x
    OBVIOUS
  <2> QED
    BY <2>1, <2>2, <2>3
<1>6. h * Pow(2) \in Nat \ {0} /\ Pow(2) <= h * Pow(2) /\ h * Pow(2) < (2 * h) * Pow(2)
  BY <1>1, <1>4
<1> QED
  BY <1>1, <1>2, <1>3, <1>5, <1>6

(* Size is the number of digits without leading zeros.                     *)
LEMMA SizeValue ==
  ASSUME NEW x \in 0..(Width - 1)
  PROVE  /\ Size(x) \in 0..Digits /\ x < Pow(Size(x))
         /\ \A n \in 0..Digits : n < Size(x) => Pow(n) <= x
<1> DEFINE S == {n \in 0..Digits : x < Pow(n)}
<1>1. Digits \in S /\ S \in SUBSET Nat
  BY Bounds
<1>2. PICK least \in S : \A m \in S : least <= m
  <2> DEFINE R == OpToRel(<, Nat)
  <2>1. IsWellFoundedOn(R, Nat)
    BY NatLessThanWellFounded, Zenon
  <2>2. \A j, k \in Nat : j < k => <<j, k>> \in R
    BY DEF OpToRel
  <2> HIDE DEF R
  <2>3. PICK k \in S : \A j \in S : <<j, k>> \notin R
    BY <1>1, <2>1, WFMin, Zenon
  <2>4. k \in Nat /\ \A j \in S : j \in Nat /\ ~(j < k)
    BY <1>1, <2>2, <2>3, Zenon
  <2> QED
    BY <2>3, <2>4
<1>3. Size(x) \in S /\ \A m \in S : Size(x) <= m
  BY <1>2 DEF Size, Min, Pow
<1>4. \A n \in 0..Digits : n < Size(x) => n \notin S
  BY <1>1, <1>3
<1> QED
  <2>1. \A n \in 0..Digits : n \notin S => Pow(n) <= x
    BY PowNat, Bounds
  <2> QED
    BY <1>3, <1>4, <2>1

(* Division by a product in two steps.                                     *)
LEMMA DivTwice ==
  ASSUME NEW x \in Nat, NEW a \in Nat \ {0}, NEW b \in Nat \ {0}
  PROVE  (x \div a) \div b = x \div (b * a)
<1> DEFINE q == x \div a
           p == q \div b
<1>1. q \in Nat /\ q * a <= x /\ x < q * a + a
  BY SMT
<1>2. p \in Nat /\ p * b <= q /\ q <= p * b + b - 1
  <2>1. q \in Nat
    BY <1>1
  <2> HIDE DEF q
  <2> QED
    BY <2>1, SMT
<1> HIDE DEF q, p
<1>3. p * (b * a) <= x
  <2>1. (p * b) * a <= q * a
    BY <1>1, <1>2
  <2> QED
    BY <1>1, <1>2, <2>1
<1>4. x < p * (b * a) + b * a
  <2>1. (q + 1) * a <= (p * b + b) * a
    BY <1>1, <1>2
  <2> QED
    BY <1>1, <1>2, <2>1
<1>5. ASSUME NEW y \in Nat, NEW d \in Nat \ {0}, NEW k \in Nat, k * d <= y, y < k * d + d
      PROVE  y \div d = k
  BY <1>5, SMT
<1>6. b * a \in Nat \ {0}
  OBVIOUS
<1> QED
  BY <1>2, <1>3, <1>4, <1>5, <1>6, SMTT(30) DEF p, q

(* The three leading digits stay below the fourth power.                   *)
LEMMA MantissaBound ==
  ASSUME NEW x \in 0..(Width - 1)
  PROVE  /\ Mantissa(x) \in Nat /\ Mantissa(x) < Pow(3)
         /\ Size(x) >= 3 => Mantissa(x) = x \div Pow(Size(x) - 3)
<1> DEFINE n == Size(x)
<1>1. n \in 0..Digits /\ x < Pow(n) /\ x \in Nat
  BY SizeValue, Bounds
<1>2. Mantissa(x) = IF n <= 3 THEN x * Pow(3 - n) ELSE x \div Pow(n - 3)
  BY DEF Mantissa, Pow
<1> HIDE DEF n
<1>3. CASE n <= 3
  <2>1. Pow(3 - n) \in Nat \ {0} /\ Pow(n) \in Nat \ {0} /\ Pow(3) = Pow(n) * Pow(3 - n)
    <3>1. 3 - n \in 0..Digits /\ n + (3 - n) = 3 /\ 3 <= Digits
      BY <1>1, <1>3, Bounds
    <3>2. Pow(n + (3 - n)) = Pow(n) * Pow(3 - n)
      BY <1>1, <3>1, PowSum
    <3> QED
      BY <1>1, <3>1, <3>2, PowNat
  <2>2. x * Pow(3 - n) \in Nat /\ x * Pow(3 - n) < Pow(n) * Pow(3 - n)
    BY <1>1, <2>1
  <2>3. n >= 3 => n = 3 /\ Pow(3 - n) = 1 /\ Pow(n - 3) = 1
    BY <1>1, <1>3, Bounds
  <2>4. x * 1 = x /\ x \div 1 = x
    BY <1>1
  <2> QED
    BY <1>2, <1>3, <2>1, <2>2, <2>3, <2>4 DEF n
<1>4. CASE n > 3
  <2>1. Pow(n - 3) \in Nat \ {0} /\ Pow(3) \in Nat \ {0} /\ Pow(n) = Pow(3) * Pow(n - 3)
    <3>1. n - 3 \in 0..Digits /\ 3 \in 0..Digits /\ 3 + (n - 3) = n /\ n <= Digits
      BY <1>1, <1>4, Bounds
    <3>2. Pow(3 + (n - 3)) = Pow(3) * Pow(n - 3)
      BY <3>1, PowSum
    <3> QED
      BY <3>1, <3>2, PowNat
  <2>2. ASSUME NEW y \in Nat, NEW d \in Nat \ {0}, NEW k \in Nat, y < k * d
        PROVE  y \div d \in Nat /\ y \div d < k
    <3>1. y \div d \in Nat /\ (y \div d) * d <= y
      BY Division
    <3>2. y \div d >= k => (y \div d) * d >= k * d
      BY <3>1
    <3> QED
      BY <2>2, <3>1, <3>2
  <2>3. x \div Pow(n - 3) \in Nat /\ x \div Pow(n - 3) < Pow(3)
    BY <1>1, <2>1, <2>2
  <2> QED
    BY <1>1, <1>2, <1>4, <2>3 DEF n
<1> QED
  BY <1>1, <1>3, <1>4

(* GetCompact's result never has the sign bit, and one that needs a digit  *)
(* more than a target has is small: the assertions at its end.             *)
LEMMA CompactForm ==
  ASSUME NEW x \in 0..(Width - 1)
  PROVE  /\ GetCompact(x) \in [size : 0..(Digits + 1), word : 0..(SignBit - 1)]
         /\ GetCompact(x).size = Digits + 1 => GetCompact(x).word < Pow(2)
         /\ Mantissa(x) >= SignBit => /\ Mantissa(x) \div Base \in Nat
                                      /\ Mantissa(x) \div Base < SignBit
<1>1. Size(x) \in 0..Digits /\ Digits \in Nat /\ Base \in Nat \ {0}
  BY SizeValue, Bounds
<1>2. Mantissa(x) \in Nat /\ Mantissa(x) < Pow(3)
  BY MantissaBound
<1>3. /\ SignBit \in Nat \ {0} /\ Pow(3) = Base * Pow(2) /\ Pow(2) <= SignBit
      /\ Pow(2) \in Nat
  BY SignBitValue, PowNat, Bounds
<1>4. ASSUME NEW m \in Nat, NEW k \in Nat, m < Base * k PROVE m \div Base \in Nat /\ m \div Base < k
  <2>1. m \div Base \in Nat /\ (m \div Base) * Base <= m
    BY <1>1, Division
  <2>2. m \div Base >= k => (m \div Base) * Base >= k * Base
    BY <1>1, <2>1
  <2> QED
    BY <1>1, <1>4, <2>1, <2>2
<1>5. Mantissa(x) \div Base \in Nat /\ Mantissa(x) \div Base < Pow(2)
  BY <1>2, <1>3, <1>4
<1> QED
  BY <1>1, <1>2, <1>3, <1>5 DEF GetCompact

(* What storing a target in a header does to it: GetCompact cuts it to a   *)
(* multiple of Unit, a power of the base.                                  *)
Round(x) == SetCompact(GetCompact(x))
Unit(x) ==
  IF Mantissa(x) < SignBit THEN IF Size(x) <= 3 THEN 1 ELSE Pow(Size(x) - 3)
                           ELSE IF Size(x) <= 2 THEN 1 ELSE Pow(Size(x) - 2)

(* SetCompact reads back the largest multiple of Unit below the target.    *)
LEMMA RoundValue ==
  ASSUME NEW x \in 0..(Width - 1)
  PROVE  Unit(x) \in Nat \ {0} /\ Round(x) = (x \div Unit(x)) * Unit(x)
<1> DEFINE n == Size(x)
           m == Mantissa(x)
<1>1. n \in 0..Digits /\ x \in Nat /\ m \in Nat /\ Width \in Nat
  BY SizeValue, MantissaBound, Bounds
<1>2. /\ SignBit \in Nat \ {0} /\ Base \in Nat \ {0} /\ Digits \in Nat
      /\ \A k \in 0..Digits : Pow(k) \in Nat \ {0}
  BY SignBitValue, PowNat, Bounds
<1>3. Unit(x) \in Nat \ {0}
  BY <1>1, <1>2 DEF Unit
<1>4. m = IF n <= 3 THEN x * Pow(3 - n) ELSE x \div Pow(n - 3)
  BY DEF Mantissa, Pow
<1>5. Round(x) = IF m >= SignBit
                 THEN IF n + 1 <= 3 THEN ((m \div Base) % SignBit) \div Pow(3 - (n + 1))
                                    ELSE Mul((m \div Base) % SignBit, Pow((n + 1) - 3))
                 ELSE IF n <= 3 THEN (m % SignBit) \div Pow(3 - n) ELSE Mul(m % SignBit, Pow(n - 3))
  BY DEF Round, GetCompact, SetCompact, Pow
<1>6. ASSUME NEW u \in Nat \ {0} PROVE (x \div u) * u \in Nat /\ Mul(x \div u, u) = (x \div u) * u
  <2>1. (x \div u) * u \in Nat /\ (x \div u) * u <= x
    BY <1>1, Division, Zenon
  <2>2. x < Width
    BY <1>1
  <2> QED
    BY <1>1, <2>1, <2>2, NoWrap DEF Mul
<1>7. ASSUME NEW u \in Nat \ {0} PROVE (x * u) \div u = x
  BY <1>1
<1>8. x \div 1 = x /\ x * 1 = x
  BY <1>1
<1>9. m >= SignBit => (m \div Base) % SignBit = m \div Base
  BY <1>2, CompactForm, NoWrap
<1>10. m < SignBit => m % SignBit = m
  BY <1>1, <1>2, NoWrap
<1> HIDE DEF n, m
<1>11. CASE m < SignBit /\ n <= 3
  <2>1. Round(x) = m \div Pow(3 - n) /\ m = x * Pow(3 - n) /\ Pow(3 - n) \in Nat \ {0}
    <3>1. 3 - n \in 0..Digits
      BY <1>1, <1>11, Bounds
    <3> QED
      BY <1>2, <1>4, <1>5, <1>10, <1>11, <3>1
  <2>2. Unit(x) = 1
    BY <1>11 DEF Unit, n, m
  <2> QED
    BY <1>3, <1>7, <1>8, <2>1, <2>2, SMTT(30)
<1>12. CASE m < SignBit /\ ~(n <= 3)
  <2>1. Round(x) = Mul(m, Pow(n - 3)) /\ m = x \div Pow(n - 3) /\ Pow(n - 3) \in Nat \ {0}
    <3>1. n - 3 \in 0..Digits
      BY <1>1, <1>12, Bounds
    <3> QED
      BY <1>2, <1>4, <1>5, <1>10, <1>12, <3>1
  <2>2. Unit(x) = Pow(n - 3)
    BY <1>12 DEF Unit, n, m
  <2> QED
    BY <1>3, <1>6, <2>1, <2>2, Zenon
<1>13. CASE ~(m < SignBit) /\ n <= 2
  <2>1. Round(x) = (m \div Base) \div Pow(2 - n) /\ m = x * Pow(3 - n) /\ Pow(2 - n) \in Nat \ {0}
    <3>1. 2 - n \in 0..Digits /\ 3 - (n + 1) = 2 - n /\ n + 1 <= 3 /\ n <= 3
      BY <1>1, <1>13, Bounds
    <3> QED
      BY <1>1, <1>2, <1>4, <1>5, <1>9, <1>13, <3>1, SMTT(30)
  <2>2. Pow(3 - n) = Pow(2 - n) * Base /\ Pow(3 - n) \in Nat \ {0}
    <3>1. 2 - n \in 0..Digits /\ 1 \in 0..Digits /\ (2 - n) + 1 <= Digits /\ (2 - n) + 1 = 3 - n
      BY <1>1, <1>13, Bounds
    <3>2. Pow((2 - n) + 1) = Pow(2 - n) * Pow(1)
      BY <3>1, PowSum
    <3>3. Pow(3 - n) \in Nat \ {0}
      BY <3>1, PowNat, Bounds
    <3> QED
      BY <3>1, <3>2, <3>3, Bounds
  <2>3. Round(x) = m \div Pow(3 - n)
    BY <1>1, <1>2, <2>1, <2>2, DivTwice, SMTT(30)
  <2>4. Unit(x) = 1
    BY <1>13 DEF Unit, n, m
  <2> QED
    BY <1>3, <1>7, <1>8, <2>1, <2>2, <2>3, <2>4, SMTT(30)
<1>14. CASE ~(m < SignBit) /\ ~(n <= 2)
  <2>1. /\ Round(x) = Mul(m \div Base, Pow(n - 2)) /\ Pow(n - 2) \in Nat \ {0}
        /\ Pow(n - 3) \in Nat \ {0}
    <3>1. (n + 1) - 3 = n - 2 /\ ~(n + 1 <= 3) /\ n - 2 \in 0..Digits /\ n - 3 \in 0..Digits
      BY <1>1, <1>2, <1>14
    <3> QED
      BY <1>1, <1>2, <1>5, <1>9, <1>14, <3>1
  <2>2. m = x \div Pow(n - 3)
    BY <1>1, <1>14, MantissaBound DEF n, m
  <2>3. Pow(n - 2) = Base * Pow(n - 3)
    <3>1. n - 3 \in 0..Digits /\ 1 \in 0..Digits /\ 1 + (n - 3) <= Digits /\ 1 + (n - 3) = n - 2
      BY <1>1, <1>14, Bounds
    <3>2. Pow(1 + (n - 3)) = Pow(1) * Pow(n - 3)
      BY <3>1, PowSum
    <3> QED
      BY <3>1, <3>2, Bounds
  <2>4. m \div Base = x \div Pow(n - 2)
    BY <1>1, <1>2, <2>1, <2>2, <2>3, DivTwice
  <2>5. Unit(x) = Pow(n - 2)
    BY <1>14 DEF Unit, n, m
  <2> QED
    BY <1>3, <1>6, <2>1, <2>4, <2>5, Zenon
<1> QED
  BY <1>3, <1>11, <1>12, <1>13, <1>14

(* Rounding is downwards, to the nearest multiple of the unit.             *)
LEMMA RoundDown ==
  ASSUME NEW y \in 0..(Width - 1)
  PROVE  /\ Round(y) \in Nat /\ Round(y) <= y
         /\ \A k \in Nat : k * Unit(y) <= y => k * Unit(y) <= Round(y)
<1>1. y \in Nat /\ Unit(y) \in Nat \ {0} /\ Round(y) = (y \div Unit(y)) * Unit(y)
  BY RoundValue, Bounds
<1>2. (y \div Unit(y)) * Unit(y) \in Nat /\ (y \div Unit(y)) * Unit(y) <= y
  BY <1>1, Division, Zenon
<1>3. ASSUME NEW u \in Nat \ {0}, NEW k \in Nat, k * u <= y
      PROVE  k * u <= (y \div u) * u
  <2>1. y \div u \in Nat /\ y < (y \div u) * u + u
    BY <1>1, SMT
  <2>2. k > y \div u => k * u >= (y \div u + 1) * u
    BY <2>1
  <2>3. k <= y \div u
    BY <1>1, <1>3, <2>1, <2>2
  <2> QED
    BY <2>1, <2>3
<1> QED
  BY <1>1, <1>2, <1>3

(* The unit is a power below the leading digit's.                          *)
LEMMA UnitPower ==
  ASSUME NEW y \in 0..(Width - 1), Size(y) >= 1
  PROVE  \E k \in Nat : Pow(Size(y) - 1) = k * Unit(y)
<1> DEFINE n == Size(y)
<1>1. n \in 0..Digits /\ n >= 1 /\ Digits \in Nat
  BY SizeValue, Bounds
<1>2. PICK j \in 0..(n - 1) : Unit(y) = Pow(j)
  <2>1. Unit(y) \in {1} \/ (n > 3 /\ Unit(y) = Pow(n - 3)) \/ (n > 2 /\ Unit(y) = Pow(n - 2))
    BY <1>1 DEF Unit
  <2>2. 0 \in 0..(n - 1) /\ (n > 3 => n - 3 \in 0..(n - 1)) /\ (n > 2 => n - 2 \in 0..(n - 1))
    BY <1>1
  <2> QED
    BY <2>1, <2>2, Bounds
<1> HIDE DEF n
<1>3. /\ j \in 0..Digits /\ (n - 1) - j \in 0..Digits
      /\ ((n - 1) - j) + j = n - 1 /\ n - 1 <= Digits
  BY <1>1
<1>4. Pow(((n - 1) - j) + j) = Pow((n - 1) - j) * Pow(j)
  BY <1>3, PowSum
<1>5. Pow((n - 1) - j) \in Nat
  BY <1>3, PowNat
<1> QED
  BY <1>2, <1>3, <1>4, <1>5 DEF n

(* The leading digit survives, so a positive target stays positive.        *)
LEMMA RoundLeading ==
  ASSUME NEW y \in 0..(Width - 1), y > 0
  PROVE  /\ Size(y) >= 1 /\ Pow(Size(y) - 1) <= Round(y) /\ Round(y) > 0
<1>1. Size(y) \in 0..Digits /\ y < Pow(Size(y)) /\ \A n \in 0..Digits : n < Size(y) => Pow(n) <= y
  BY SizeValue
<1>2. y \in Nat /\ Digits \in Nat
  BY Bounds
<1>3. Size(y) >= 1
  <2>1. Size(y) = 0 => y < 1
    BY <1>1, Bounds
  <2> QED
    BY <1>1, <1>2, <2>1
<1>4. Size(y) - 1 \in 0..Digits /\ Pow(Size(y) - 1) <= y /\ Pow(Size(y) - 1) \in Nat \ {0}
  <2>1. Size(y) - 1 \in 0..Digits /\ Size(y) - 1 < Size(y)
    BY <1>1, <1>2, <1>3
  <2> QED
    BY <1>1, <2>1, PowNat
<1>5. PICK k \in Nat : Pow(Size(y) - 1) = k * Unit(y)
  BY <1>3, UnitPower
<1>6. Pow(Size(y) - 1) <= Round(y) /\ Round(y) \in Nat
  BY <1>4, <1>5, RoundDown
<1> QED
  BY <1>3, <1>4, <1>6

(* A larger target has no smaller mantissa.                                *)
LEMMA MantissaMonotone ==
  ASSUME NEW x \in 0..(Width - 1), NEW y \in 0..(Width - 1), x <= y, Size(x) = Size(y)
  PROVE  Mantissa(x) <= Mantissa(y)
<1> DEFINE n == Size(y)
<1>1. x \in Nat /\ y \in Nat /\ n \in 0..Digits /\ Digits \in Nat
  BY SizeValue, Bounds
<1>2. ASSUME NEW u \in Nat \ {0} PROVE x * u <= y * u /\ x \div u <= y \div u
  <2>1. x * u <= y * u
    BY <1>1
  <2>2. /\ x \div u \in Nat /\ (x \div u) * u <= x
        /\ y \div u \in Nat /\ y < (y \div u) * u + u
    BY <1>1, SMT
  <2>3. x \div u > y \div u => (x \div u) * u >= (y \div u + 1) * u
    BY <2>2
  <2> QED
    BY <1>1, <2>1, <2>2, <2>3
<1>3. /\ Mantissa(x) = IF n <= 3 THEN x * Pow(3 - n) ELSE x \div Pow(n - 3)
      /\ Mantissa(y) = IF n <= 3 THEN y * Pow(3 - n) ELSE y \div Pow(n - 3)
  BY DEF Mantissa, Pow
<1>4. (n <= 3 => Pow(3 - n) \in Nat \ {0}) /\ (~(n <= 3) => Pow(n - 3) \in Nat \ {0})
  <2>1. (n <= 3 => 3 - n \in 0..Digits) /\ (~(n <= 3) => n - 3 \in 0..Digits)
    BY <1>1, Bounds
  <2> QED
    BY <2>1, PowNat
<1> HIDE DEF n
<1> QED
  BY <1>2, <1>3, <1>4

(* Rounding keeps the order of targets.                                    *)
LEMMA RoundMonotone ==
  ASSUME NEW x \in 0..(Width - 1), NEW y \in 0..(Width - 1), x <= y
  PROVE  Round(x) <= Round(y)
<1> DEFINE n == Size(x)
           k == Size(y)
<1>1. /\ x \in Nat /\ y \in Nat /\ n \in 0..Digits /\ k \in 0..Digits /\ x < Pow(n) /\ y < Pow(k)
      /\ Digits \in Nat
  BY SizeValue, Bounds
<1>2. Round(x) \in Nat /\ Round(y) \in Nat /\ Round(x) <= x /\ Round(y) <= y
  BY RoundDown
<1>3. n <= k
  <2>1. k < n => Pow(k) <= x
    BY <1>1, SizeValue
  <2>2. Pow(k) \in Nat
    BY <1>1, PowNat
  <2> QED
    BY <1>1, <2>1, <2>2
<1>4. CASE n < k
  <2>1. y > 0
    <3>1. y = 0 => Pow(n) <= 0
      BY <1>1, <1>4, SizeValue
    <3>2. Pow(n) \in Nat \ {0}
      BY <1>1, PowNat
    <3> QED
      BY <1>1, <3>1, <3>2
  <2>2. Pow(k - 1) <= Round(y)
    BY <2>1, RoundLeading
  <2>3. Pow(n) <= Pow(k - 1) /\ Pow(n) \in Nat /\ Pow(k - 1) \in Nat
    <3>1. (k - 1) - n \in 0..Digits /\ n + ((k - 1) - n) = k - 1 /\ k - 1 \in 0..Digits
      BY <1>1, <1>4
    <3>2. Pow(n + ((k - 1) - n)) = Pow(n) * Pow((k - 1) - n)
      BY <1>1, <3>1, PowSum
    <3>3. Pow(n) \in Nat \ {0} /\ Pow((k - 1) - n) \in Nat \ {0} /\ Pow(k - 1) \in Nat
      BY <1>1, <3>1, PowNat
    <3>4. \A a, b \in Nat \ {0} : a <= a * b
      OBVIOUS
    <3> QED
      BY <3>1, <3>2, <3>3, <3>4
  <2> QED
    BY <1>1, <1>2, <2>2, <2>3
<1>5. CASE n = k /\ Unit(x) = Unit(y)
  <2>1. x \div Unit(x) \in Nat /\ Round(x) = (x \div Unit(x)) * Unit(y)
    BY <1>1, <1>5, RoundValue, Division, Zenon
  <2> QED
    BY <1>1, <1>2, <2>1, RoundDown
<1>6. CASE n = k /\ Unit(x) # Unit(y)
  <2>1. Mantissa(x) <= Mantissa(y) /\ Mantissa(x) \in Nat /\ Mantissa(y) \in Nat /\ SignBit \in Nat
    BY <1>6, MantissaMonotone, MantissaBound, SignBitValue, SMTT(30)
  <2>2. n >= 3 /\ Mantissa(x) < SignBit /\ Mantissa(y) >= SignBit /\ Unit(y) = Pow(n - 2)
    <3>1. (Mantissa(x) < SignBit) # (Mantissa(y) < SignBit)
      BY <1>6 DEF Unit
    <3>2. Mantissa(x) < SignBit /\ Mantissa(y) >= SignBit
      BY <2>1, <3>1
    <3>3. ~(n <= 2)
      BY <1>1, <1>6, <3>2 DEF Unit
    <3> QED
      BY <1>1, <1>6, <2>1, <3>2, <3>3, SMTT(30) DEF Unit
  <2> DEFINE P == Pow(n - 3)
             z == SignBit * P
  <2>3. P \in Nat \ {0} /\ Mantissa(x) = x \div P /\ Mantissa(y) = y \div P
    <3>1. n - 3 \in 0..Digits
      BY <1>1, <2>2
    <3> QED
      BY <1>6, <2>2, <3>1, PowNat, MantissaBound, SMTT(30)
  <2> HIDE DEF P
  <2>4. z <= y
    <3>1. (y \div P) * P <= y /\ y \div P \in Nat
      BY <1>1, <2>3, Division, Zenon
    <3>2. SignBit * P <= (y \div P) * P
      BY <2>1, <2>2, <2>3, <3>1
    <3> QED
      BY <1>1, <2>1, <2>3, <3>1, <3>2, SMTT(30)
  <2>5. x < z
    <3>1. x < (x \div P) * P + P /\ x \div P \in Nat
      BY <1>1, <2>3, SMT
    <3>2. (x \div P + 1) * P <= SignBit * P
      BY <2>1, <2>2, <2>3, <3>1
    <3> QED
      BY <1>1, <2>1, <2>3, <3>1, <3>2, SMTT(30)
  <2>6. \E j \in Nat : z = j * Unit(y)
    <3>1. PICK h \in Nat \ {0} : SignBit = h * Pow(2) /\ Pow(2) = Base * Base
      BY SignBitValue
    <3>2. Pow(n - 2) = Base * P
      <4>1. n - 3 \in 0..Digits /\ 1 \in 0..Digits /\ 1 + (n - 3) <= Digits /\ 1 + (n - 3) = n - 2
        BY <1>1, <2>2, Bounds
      <4>2. Pow(1 + (n - 3)) = Pow(1) * Pow(n - 3)
        BY <4>1, PowSum
      <4> QED
        BY <4>1, <4>2, Bounds DEF P
    <3>3. ASSUME NEW b \in Nat, NEW c \in Nat
          PROVE  (h * (b * b)) * c = (h * b) * (b * c) /\ h * b \in Nat
      OBVIOUS
    <3>4. z = (h * Base) * (Base * P) /\ h * Base \in Nat
      BY <2>3, <3>1, <3>3, Bounds
    <3> QED
      BY <2>2, <3>2, <3>4
  <2>7. z <= Round(y)
    BY <2>4, <2>6, RoundDown
  <2>8. z \in Nat
    BY <2>1, <2>3
  <2> HIDE DEF z
  <2> QED
    BY <1>1, <1>2, <2>5, <2>7, <2>8, SMTT(30)
<1> QED
  BY <1>1, <1>3, <1>4, <1>5, <1>6

-----------------------------------------------------------------------------
(* Retargeting.                                                            *)

(* The clamped times, and the target before rounding for each of them.     *)
Times == (Timespan \div 4)..(Timespan * 4)
Scaled(target, elapsed) == Min({powLimit, ScaleTarget(target, elapsed, Timespan, powLimit)})

(* What the consensus parameters say of the interval.                      *)
LEMMA Interval ==
  /\ Timespan \in Nat \ {0} /\ Timespan \div 4 \in Nat \ {0} /\ Timespan = 4 * (Timespan \div 4)
  /\ powLimit \in 1..(Width - 1) /\ Width \in Nat
  /\ DifficultyAdjustmentInterval \in Nat \ {0}
  /\ \A elapsed \in Times : elapsed \in Nat \ {0} /\ Timespan * elapsed < Width
<1>1. /\ Timespan \in Nat \ {0} /\ Timespan % 4 = 0 /\ powLimit \in 1..(Width - 1) /\ Width \in Nat
      /\ Spacing \in Nat \ {0} /\ Timespan >= Spacing /\ 4 * Timespan * Timespan < Width
  BY DifficultyAssumption
<1>2. Timespan \div 4 \in Nat \ {0} /\ Timespan = 4 * (Timespan \div 4)
  BY <1>1
<1>3. DifficultyAdjustmentInterval \in Nat \ {0}
  <2>1. Timespan \div Spacing \in Nat /\ Timespan < (Timespan \div Spacing) * Spacing + Spacing
    BY <1>1, SMT
  <2>2. Timespan \div Spacing = 0 => Timespan < Spacing
    BY <1>1, <2>1
  <2> QED
    BY <1>1, <2>1, <2>2 DEF DifficultyAdjustmentInterval
<1>4. ASSUME NEW elapsed \in Times PROVE elapsed \in Nat \ {0} /\ Timespan * elapsed < Width
  <2>1. elapsed \in Nat \ {0} /\ elapsed <= Timespan * 4
    BY <1>1, <1>2 DEF Times
  <2>2. Timespan * elapsed <= Timespan * (Timespan * 4)
    BY <1>1, <2>1
  <2>3. Timespan * (Timespan * 4) = 4 * Timespan * Timespan
    BY <1>1
  <2> QED
    BY <1>1, <2>1, <2>2, <2>3
<1> QED
  BY <1>1, <1>2, <1>3, <1>4

(* The exact value of the scaled target.                                   *)
LEMMA ScaledValue ==
  ASSUME NEW target \in 0..(Width - 1), NEW elapsed \in Times
  PROVE  /\ ScaleTarget(target, elapsed, Timespan, powLimit)
              = Min({powLimit, (target * elapsed) \div Timespan})
         /\ Scaled(target, elapsed) = Min({powLimit, (target * elapsed) \div Timespan})
         /\ (target * elapsed) \div Timespan \in Nat /\ Scaled(target, elapsed) \in 0..powLimit
<1>1. /\ elapsed \in Nat \ {0} /\ Timespan \in Nat \ {0} /\ Timespan * elapsed < Width
      /\ powLimit \in 0..(Width - 1)
  BY Interval
<1>2. ScaleTarget(target, elapsed, Timespan, powLimit)
        = Min({powLimit, (target * elapsed) \div Timespan})
  BY <1>1, ScaleTargetCorrect
<1>3. target * elapsed \in Nat
  BY <1>1, Interval
<1>4. (target * elapsed) \div Timespan \in Nat
  BY <1>1, <1>3, Division, Zenon
<1>5. ASSUME NEW v \in Nat
      PROVE  /\ Min({powLimit, Min({powLimit, v})}) = Min({powLimit, v})
             /\ Min({powLimit, v}) \in 0..powLimit
  BY <1>1, Interval, MinPair
<1> QED
  BY <1>2, <1>4, <1>5 DEF Scaled

(* A longer interval never demands a smaller target.                       *)
LEMMA ScaledMonotone ==
  ASSUME NEW target \in 0..(Width - 1), NEW a \in Times, NEW b \in Times, a <= b
  PROVE  Scaled(target, a) <= Scaled(target, b)
<1>1. a \in Nat /\ b \in Nat /\ Timespan \in Nat \ {0} /\ target \in Nat /\ powLimit \in Nat
  BY Interval
<1>2. target * a <= target * b /\ target * a \in Nat /\ target * b \in Nat
  BY <1>1
<1>3. ASSUME NEW x \in Nat, NEW y \in Nat, NEW u \in Nat \ {0}, x <= y PROVE x \div u <= y \div u
  <2>1. /\ x \div u \in Nat /\ (x \div u) * u <= x
        /\ y \div u \in Nat /\ y < (y \div u) * u + u
    BY SMT
  <2>2. x \div u > y \div u => (x \div u) * u >= (y \div u + 1) * u
    BY <2>1
  <2> QED
    BY <1>3, <2>1, <2>2
<1>4. (target * a) \div Timespan <= (target * b) \div Timespan
  BY <1>1, <1>2, <1>3
<1>5. /\ (target * a) \div Timespan \in Nat
      /\ (target * b) \div Timespan \in Nat
      /\ Scaled(target, a) = Min({powLimit, (target * a) \div Timespan})
      /\ Scaled(target, b) = Min({powLimit, (target * b) \div Timespan})
  BY ScaledValue, Zenon
<1> QED
  BY <1>1, <1>4, <1>5, MinPair

(* The clamp of nActualTimespan leaves a time within the bounds.           *)
LEMMA ClampBounds ==
  ASSUME NEW t \in Int
  PROVE  Clamp(t) \in Times
<1>1. Timespan * 4 \in Int /\ Timespan \div 4 \in Int /\ Timespan \div 4 <= Timespan * 4
  BY Interval
<1>2. \A a, b \in Int : Max({a, b}) = IF a >= b THEN a ELSE b
  BY DEF Max
<1>3. Min({Timespan * 4, t}) = IF Timespan * 4 <= t THEN Timespan * 4 ELSE t
  BY <1>1, MinPair
<1>4. Min({Timespan * 4, t}) \in Int /\ Min({Timespan * 4, t}) <= Timespan * 4
  BY <1>1, <1>3
<1>5. Clamp(t) = IF Timespan \div 4 >= Min({Timespan * 4, t})
                 THEN Timespan \div 4 ELSE Min({Timespan * 4, t})
  BY <1>1, <1>2, <1>4, Zenon DEF Clamp
<1>6. Clamp(t) \in Int /\ Timespan \div 4 <= Clamp(t) /\ Clamp(t) <= Timespan * 4
  BY <1>1, <1>4, <1>5
<1> QED
  BY <1>1, <1>6 DEF Times

(* A header's stored target, as DeriveTarget reads it back.                *)
LEMMA Derivable ==
  ASSUME NEW t \in 0..powLimit
  PROVE  /\ t \in 0..(Width - 1) /\ Round(t) \in 0..powLimit
         /\ DeriveTarget(GetCompact(t)) # {} <=> t > 0
<1>1. t \in 0..(Width - 1) /\ t \in Nat /\ powLimit \in Nat
  BY Interval
<1>2. Round(t) \in Nat /\ Round(t) <= t
  BY <1>1, RoundDown
<1>3. t > 0 => Round(t) > 0
  BY <1>1, RoundLeading
<1>4. /\ GetCompact(t).size \in 0..(Digits + 1) /\ GetCompact(t).word \in 0..(SignBit - 1)
      /\ GetCompact(t).size = Digits + 1 => GetCompact(t).word < Pow(2)
  BY <1>1, CompactForm
<1>5. GetCompact(t).word % SignBit = GetCompact(t).word /\ ~Negative(GetCompact(t))
  <2>1. SignBit \in Nat \ {0}
    BY SignBitValue
  <2>2. GetCompact(t).word \in Nat /\ GetCompact(t).word < SignBit
    BY <1>4, <2>1
  <2>3. GetCompact(t).word % SignBit = GetCompact(t).word
    BY <2>1, <2>2, NoWrap
  <2> QED
    BY <2>1, <2>2, <2>3 DEF Negative
<1>6. ~Overflow(GetCompact(t))
  BY <1>4, <1>5, SignBitValue, Bounds DEF Overflow, Pow
<1>7. DeriveTarget(GetCompact(t)) = {r \in {Round(t)} : r # 0 /\ r <= powLimit}
  BY <1>5, <1>6 DEF DeriveTarget, Round
<1> QED
  BY <1>1, <1>2, <1>3, <1>7

-----------------------------------------------------------------------------
(* The chain.                                                              *)

(* Every header of the chain stores a target within the limit.             *)
Headers == [time : Int, nBits : {GetCompact(t) : t \in 1..powLimit}]
IInv == chain \in Seq(Headers) /\ Len(chain) >= 1

(* The tip's target, and what the next header's is computed from.          *)
LEMMA NextWork ==
  ASSUME IInv
  PROVE  /\ Last(chain) \in Headers
         /\ SetCompact(Last(chain).nBits) \in 1..powLimit
         /\ SetCompact(Last(chain).nBits) \in 0..(Width - 1)
         /\ \/ /\ Len(chain) % DifficultyAdjustmentInterval # 0
               /\ GetNextWorkRequired(chain) = Last(chain).nBits
            \/ /\ Len(chain) % DifficultyAdjustmentInterval = 0
               /\ \E elapsed \in Times :
                     GetNextWorkRequired(chain)
                       = GetCompact(Scaled(SetCompact(Last(chain).nBits), elapsed))
<1>1. Last(chain) \in Headers /\ Last(chain) = chain[Len(chain)] /\ Len(chain) \in Nat \ {0}
  BY DEF IInv, Last
<1>2. PICK t \in 1..powLimit : Last(chain).nBits = GetCompact(t)
  BY <1>1 DEF Headers
<1>3. /\ SetCompact(Last(chain).nBits) \in 1..powLimit
      /\ SetCompact(Last(chain).nBits) \in 0..(Width - 1)
  <2>1. t \in 0..(Width - 1) /\ t > 0 /\ t \in 0..powLimit
    BY Interval
  <2>2. Round(t) \in 0..powLimit /\ Round(t) > 0
    BY <2>1, Derivable, RoundLeading
  <2> QED
    BY <1>2, <2>2, Interval DEF Round
<1>4. (Len(chain) - 1) + 1 = Len(chain)
  BY <1>1
<1>5. CASE Len(chain) % DifficultyAdjustmentInterval # 0
  BY <1>1, <1>3, <1>4, <1>5, SMTT(30) DEF GetNextWorkRequired
<1>6. CASE Len(chain) % DifficultyAdjustmentInterval = 0
  <2> DEFINE first == Len(chain) - (DifficultyAdjustmentInterval - 1)
             elapsed == Clamp(Last(chain).time - chain[first].time)
  <2>1. first \in 1..Len(chain)
    <3>1. ASSUME NEW n \in Nat \ {0}, NEW d \in Nat \ {0}, n % d = 0 PROVE n >= d
      BY <3>1, NoWrap
    <3> QED
      BY <1>1, <1>6, <3>1, Interval, SMTT(30)
  <2>2. chain[first].time \in Int /\ Last(chain).time \in Int
    <3>1. chain[first] \in Headers
      <4> HIDE DEF first
      <4> QED
        BY <2>1 DEF IInv
    <3>2. \A h \in Headers : h.time \in Int
      BY DEF Headers
    <3> HIDE DEF first
    <3> QED
      BY <1>1, <3>1, <3>2
  <2>3. elapsed \in Times
    BY <2>2, ClampBounds
  <2>4. GetNextWorkRequired(chain) = GetCompact(Scaled(SetCompact(Last(chain).nBits), elapsed))
    BY <1>4, <1>6 DEF GetNextWorkRequired, CalculateNextWorkRequired, Scaled
  <2> HIDE DEF elapsed, first
  <2> QED
    BY <1>1, <1>3, <1>6, <2>3, <2>4, SMTT(30)
<1> QED
  BY <1>5, <1>6

(* Every accepted header keeps the chain's targets within the limit.       *)
LEMMA ChainKept == IInv /\ [Next]_chain => IInv'
<1> SUFFICES ASSUME IInv, Next PROVE IInv'
  BY DEF IInv
<1>1. PICK step \in Steps :
        /\ DeriveTarget(GetNextWorkRequired(chain)) # {}
        /\ chain' = Append(chain, [time |-> Last(chain).time + step,
                                   nBits |-> GetNextWorkRequired(chain)])
  BY DEF Next, AcceptHeader
<1>2. step \in Int /\ Last(chain).time \in Int
  BY NextWork, DifficultyAssumption DEF Headers
<1>3. GetNextWorkRequired(chain) \in {GetCompact(t) : t \in 1..powLimit}
  <2>1. CASE GetNextWorkRequired(chain) = Last(chain).nBits
    BY <2>1, NextWork DEF Headers
  <2>2. ASSUME NEW elapsed \in Times,
               GetNextWorkRequired(chain)
                 = GetCompact(Scaled(SetCompact(Last(chain).nBits), elapsed))
        PROVE  GetNextWorkRequired(chain) \in {GetCompact(t) : t \in 1..powLimit}
    <3>1. Scaled(SetCompact(Last(chain).nBits), elapsed) \in 0..powLimit
      BY NextWork, ScaledValue, Zenon
    <3>2. Scaled(SetCompact(Last(chain).nBits), elapsed) > 0
      BY <1>1, <2>2, <3>1, Derivable, SMTT(30)
    <3>3. Scaled(SetCompact(Last(chain).nBits), elapsed) \in 1..powLimit
      BY <3>1, <3>2, Interval
    <3> QED
      BY <2>2, <3>3
  <2> QED
    BY <2>1, <2>2, NextWork
<1>4. [time |-> Last(chain).time + step, nBits |-> GetNextWorkRequired(chain)] \in Headers
  BY <1>2, <1>3 DEF Headers
<1> QED
  BY <1>1, <1>4, SMTT(30) DEF IInv

(* Every header of every chain stores a target within the limit.           *)
THEOREM Invariance == Spec => []IInv
<1>1. Init => IInv
  BY DEF Init, IInv, Headers
<1> QED
  BY <1>1, ChainKept, PTL DEF Spec

(* The headers keep their types: the mantissa GetCompact stores never has  *)
(* the sign bit, the assertion at its end.                                 *)
THEOREM TypeCorrect == Spec => []TypeOK
<1>1. IInv => TypeOK
  <2>1. \A t \in 1..powLimit : GetCompact(t) \in [size : 0..(Digits + 1), word : 0..(SignBit - 1)]
    BY CompactForm, Interval
  <2>2. Headers \subseteq [time : Int, nBits : [size : 0..(Digits + 1), word : 0..(SignBit - 1)]]
    BY <2>1 DEF Headers
  <2>3. ASSUME NEW S, NEW T, S \subseteq T, NEW s \in Seq(S) PROVE s \in Seq(T)
    <3>1. Len(s) \in Nat /\ s \in [1..Len(s) -> S]
      OBVIOUS
    <3>2. s \in [1..Len(s) -> T]
      BY <2>3, <3>1, SMTT(30)
    <3> QED
      BY <3>1, <3>2, SeqDef
  <2> QED
    BY <2>2, <2>3, Zenon DEF IInv, TypeOK
<1> QED
  BY <1>1, Invariance, PTL

(* "Split before multiplying": on every chain ScaleTarget of the tip is    *)
(* exact for every clamped time.                                           *)
THEOREM RetargetExact == Spec => []ScaleTargetExact
<1>1. IInv => ScaleTargetExact
  BY NextWork, ScaledValue DEF ScaleTargetExact, Times
<1> QED
  BY <1>1, Invariance, PTL

(* PermittedDifficultyTransition accepts whatever GetNextWorkRequired      *)
(* demands: scaling and rounding both keep the order of targets, so the    *)
(* demanded target lies between the two it is compared with.               *)
THEOREM HeadersSyncAccepts == Spec => []PresyncAccepts
<1>1. ASSUME IInv PROVE PresyncAccepts
  <2> DEFINE old == SetCompact(Last(chain).nBits)
  <2>1. CASE Len(chain) % DifficultyAdjustmentInterval # 0
    BY <1>1, <2>1, NextWork DEF PresyncAccepts, PermittedDifficultyTransition
  <2>2. CASE Len(chain) % DifficultyAdjustmentInterval = 0
    <3>1. PICK elapsed \in Times : GetNextWorkRequired(chain) = GetCompact(Scaled(old, elapsed))
      BY <1>1, <2>2, NextWork, SMTT(30)
    <3>2. old \in 0..(Width - 1)
      BY <1>1, NextWork
    <3> HIDE DEF old
    <3>3. /\ Timespan * 4 \in Times /\ elapsed <= Timespan * 4
          /\ Timespan \div 4 \in Times /\ Timespan \div 4 <= elapsed
      BY Interval DEF Times
    <3>4. ASSUME NEW a \in Times, NEW b \in Times, a <= b
          PROVE  Round(Scaled(old, a)) <= Round(Scaled(old, b))
      <4>1. Scaled(old, a) \in 0..powLimit /\ Scaled(old, b) \in 0..powLimit
        BY <3>2, ScaledValue, Zenon
      <4>2. Scaled(old, a) \in 0..(Width - 1) /\ Scaled(old, b) \in 0..(Width - 1)
        BY <4>1, Interval
      <4>3. Scaled(old, a) <= Scaled(old, b)
        BY <3>2, <3>4, ScaledMonotone
      <4> QED
        BY <4>2, <4>3, RoundMonotone
    <3>5. /\ Round(Scaled(old, elapsed)) <= Round(Scaled(old, Timespan * 4))
          /\ Round(Scaled(old, Timespan \div 4)) <= Round(Scaled(old, elapsed))
      BY <3>3, <3>4
    <3>6. ASSUME NEW a \in Times PROVE Round(Scaled(old, a)) \in Nat
      <4>1. Scaled(old, a) \in 0..powLimit
        BY <3>2, ScaledValue, Zenon
      <4>2. Round(Scaled(old, a)) \in 0..powLimit
        BY <4>1, Derivable
      <4> QED
        BY <4>2, Interval
    <3>7. Rounded(Last(chain).nBits, Timespan * 4) = Round(Scaled(old, Timespan * 4))
      BY DEF Rounded, Round, Scaled, old
    <3>8. Rounded(Last(chain).nBits, Timespan \div 4) = Round(Scaled(old, Timespan \div 4))
      BY DEF Rounded, Round, Scaled, old
    <3>9. SetCompact(GetNextWorkRequired(chain)) = Round(Scaled(old, elapsed))
      BY <3>1, SMTT(30) DEF Round
    <3> QED
      BY <2>2, <3>3, <3>5, <3>6, <3>7, <3>8, <3>9, SMTT(30) DEF PresyncAccepts, PermittedDifficultyTransition
  <2> QED
    BY <2>1, <2>2
<1> QED
  BY <1>1, Invariance, PTL

(* The target GetNextWorkRequired demands can be mined: DeriveTarget takes *)
(* it whenever the tip's target is at least four.                          *)
THEOREM NextDerivable == Spec => []NextTargetDerivable
<1>1. ASSUME IInv PROVE NextTargetDerivable
  <2> DEFINE old == SetCompact(Last(chain).nBits)
  <2> SUFFICES ASSUME old >= 4 PROVE DeriveTarget(GetNextWorkRequired(chain)) # {}
    BY DEF NextTargetDerivable
  <2>1. CASE GetNextWorkRequired(chain) = Last(chain).nBits
    <3>1. PICK t \in 1..powLimit : Last(chain).nBits = GetCompact(t)
      BY <1>1, NextWork DEF Headers
    <3>2. t \in 0..powLimit /\ t > 0
      BY Interval
    <3> QED
      BY <2>1, <3>1, <3>2, Derivable, SMTT(30)
  <2>2. ASSUME NEW elapsed \in Times, GetNextWorkRequired(chain) = GetCompact(Scaled(old, elapsed))
        PROVE  DeriveTarget(GetNextWorkRequired(chain)) # {}
    <3>1. old \in 0..(Width - 1) /\ old >= 4
      BY <1>1, NextWork
    <3> HIDE DEF old
    <3>2. /\ old \in Nat /\ elapsed \in Nat /\ Timespan \in Nat \ {0} /\ Timespan <= 4 * elapsed
          /\ powLimit \in Nat \ {0}
      BY <3>1, Interval DEF Times
    <3>3. old * elapsed >= Timespan
      <4>1. old * elapsed >= 4 * elapsed
        BY <3>1, <3>2
      <4>2. old * elapsed \in Nat
        BY <3>2
      <4> QED
        BY <3>2, <4>1, <4>2
    <3>4. (old * elapsed) \div Timespan >= 1 /\ (old * elapsed) \div Timespan \in Nat
      <4>1. ASSUME NEW x \in Nat, NEW d \in Nat \ {0}, x >= d
            PROVE  x \div d >= 1 /\ x \div d \in Nat
        <5>1. x \div d \in Nat /\ x < (x \div d) * d + d
          BY SMT
        <5>2. x \div d = 0 => x < d
          BY <5>1
        <5> QED
          BY <4>1, <5>1, <5>2
      <4>2. old * elapsed \in Nat
        BY <3>2
      <4> QED
        BY <3>2, <3>3, <4>1, <4>2, SMTT(30)
    <3>5. Scaled(old, elapsed) \in 0..powLimit /\ Scaled(old, elapsed) > 0
      <4>1. /\ Scaled(old, elapsed) \in 0..powLimit
            /\ Scaled(old, elapsed) = Min({powLimit, (old * elapsed) \div Timespan})
        BY <3>1, ScaledValue
      <4>2. ASSUME NEW v \in Nat, v >= 1 PROVE Min({powLimit, v}) > 0
        BY <3>2, <4>2, MinPair
      <4> QED
        BY <3>4, <4>1, <4>2
    <3> QED
      BY <2>2, <3>5, Derivable
  <2> QED
    BY <1>1, <2>1, <2>2, NextWork
<1> QED
  BY <1>1, Invariance, PTL
=============================================================================

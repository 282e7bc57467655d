------------------------ MODULE StatusCollectorProofs ------------------------
(***************************************************************************)
(* The treasury index of the status collector is that of one branch, and    *)
(* the published figures and listings are those of the published block, for *)
(* every tree of blocks that consensus allows, every batch size and every   *)
(* order of reorganisations, failed calls and restarts.                     *)
(***************************************************************************)
EXTENDS StatusCollector, FiniteSetTheorems, TLAPS

-----------------------------------------------------------------------------
(* The tree of blocks.                                                      *)

(* A set of numbers has a least one.                                        *)
LEMMA LeastNumber ==
  ASSUME NEW S \in SUBSET Nat, S # {}
  PROVE  \E n \in S : \A m \in S : n <= m
<1> DEFINE R == OpToRel(<, Nat)
<1>1. IsWellFoundedOn(R, Nat)
  BY NatLessThanWellFounded, Zenon
<1>2. \A j, k \in Nat : j < k => <<j, k>> \in R
  BY Zenon DEF OpToRel
<1> HIDE DEF R
<1>3. PICK k \in S : \A j \in S : <<j, k>> \notin R
  BY <1>1, WFMin, Zenon
<1>4. k \in Nat /\ \A j \in S : j \in Nat /\ ~(j < k)
  BY <1>2, <1>3, Zenon
<1> QED
  BY <1>3, <1>4

(* A set of blocks has one with the least work.                             *)
LEMMA LeastWork ==
  ASSUME NEW S \in SUBSET Blocks, S # {}
  PROVE  \E b \in S : \A c \in S : Work[b] <= Work[c]
<1> DEFINE W == {Work[b] : b \in S}
<1>1. W \in SUBSET Nat /\ W # {}
  BY CollectorAssumption
<1>2. PICK n \in W : \A m \in W : n <= m
  BY <1>1, LeastNumber, Zenon
<1> QED
  BY <1>2, Zenon

(* A sequence of blocks from the genesis block, each the parent of the next.*)
Chain(s, b) ==
  /\ s \in Seq(Blocks) /\ Len(s) > 0 /\ s[1] = Genesis /\ s[Len(s)] = b
  /\ \A i \in 1..(Len(s) - 1) : s[i + 1] # Genesis /\ Parent[s[i + 1]] = s[i]

(* The chain of the genesis block.                                          *)
LEMMA ChainGenesis == Chain(<<Genesis>>, Genesis) /\ \A s : Chain(s, Genesis) => s = <<Genesis>>
<1>1. Genesis \in Blocks
  BY CollectorAssumption, Zenon
<1>2. Chain(<<Genesis>>, Genesis)
  BY <1>1 DEF Chain
<1>3. ASSUME NEW s, Chain(s, Genesis) PROVE s = <<Genesis>>
  <2>1. s \in Seq(Blocks) /\ Len(s) > 0 /\ s[1] = Genesis /\ s[Len(s)] = Genesis
    BY <1>3, Zenon DEF Chain
  <2>2. Len(s) \in Nat
    BY <2>1
  <2>3. \A n \in 1..(Len(s) - 1) : s[n + 1] # Genesis
    BY <1>3, Zenon DEF Chain
  <2>4. ~(Len(s) > 1)
    <3>1. Len(s) > 1 => Len(s) - 1 \in 1..(Len(s) - 1) /\ (Len(s) - 1) + 1 = Len(s)
      BY <2>2
    <3> QED
      BY <2>1, <2>3, <3>1, Zenon
  <2>5. Len(s) = 1
    <3>1. \A n \in Nat : n > 0 /\ ~(n > 1) => n = 1
      OBVIOUS
    <3> QED
      BY <2>1, <2>2, <2>4, <3>1, Zenon
  <2> QED
    BY <2>1, <2>5
<1> QED
  BY <1>2, <1>3, Zenon

(* A block continues the chain of its parent.                               *)
LEMMA ChainAppend ==
  ASSUME NEW b \in Blocks \ {Genesis}, NEW s, Chain(s, Parent[b])
  PROVE  Chain(Append(s, b), b)
<1> DEFINE t == Append(s, b)
<1>1. s \in Seq(Blocks) /\ Len(s) \in Nat \ {0}
  BY DEF Chain
<1>2. /\ t \in Seq(Blocks) /\ Len(t) = Len(s) + 1 /\ t[Len(s) + 1] = b
      /\ \A i \in 1..Len(s) : t[i] = s[i]
  BY <1>1
<1> HIDE DEF t
<1>3. s[1] = Genesis /\ s[Len(s)] = Parent[b]
  BY Zenon DEF Chain
<1>4. \A i \in 1..(Len(s) - 1) : s[i + 1] # Genesis /\ Parent[s[i + 1]] = s[i]
  BY Zenon DEF Chain
<1>5. \A i \in 1..(Len(t) - 1) : t[i + 1] # Genesis /\ Parent[t[i + 1]] = t[i]
  BY <1>1, <1>2, <1>3, <1>4
<1>6. Chain(t, b)
  BY <1>1, <1>2, <1>3, <1>5 DEF Chain
<1> QED
  BY <1>6, Zenon DEF t

(* The beginning of a chain is the chain of its last block.                 *)
LEMMA ChainPrefix ==
  ASSUME NEW s, NEW b, Chain(s, b), NEW n \in 1..Len(s)
  PROVE  Chain(SubSeq(s, 1, n), s[n]) /\ Len(SubSeq(s, 1, n)) = n /\ s[n] \in Blocks
<1> DEFINE t == SubSeq(s, 1, n)
<1>1. s \in Seq(Blocks) /\ Len(s) \in Nat \ {0}
  BY DEF Chain
<1>2. \A i \in 1..n : s[i] \in Blocks
  BY <1>1
<1>3. t \in Seq(Blocks) /\ Len(t) = n /\ \A i \in 1..n : t[i] = s[i]
  BY <1>1, <1>2
<1> HIDE DEF t
<1>4. Chain(t, s[n])
  <2>1. Len(t) > 0 /\ t[1] = Genesis /\ t[Len(t)] = s[n]
    BY <1>1, <1>3 DEF Chain
  <2>2. ASSUME NEW i \in 1..(Len(t) - 1) PROVE t[i + 1] # Genesis /\ Parent[t[i + 1]] = t[i]
    <3>1. i \in 1..(Len(s) - 1) /\ i \in 1..n /\ i + 1 \in 1..n
      BY <1>1, <1>3
    <3>2. t[i] = s[i] /\ t[i + 1] = s[i + 1]
      BY <1>3, <3>1, Zenon
    <3> QED
      BY <3>1, <3>2, Zenon DEF Chain
  <2> QED
    BY <1>3, <2>1, <2>2, Zenon DEF Chain
<1> QED
  BY <1>2, <1>3, <1>4 DEF t

(* The chain of a block without its last element is that of its parent.     *)
LEMMA ChainFront ==
  ASSUME NEW b, b # Genesis, NEW s, Chain(s, b)
  PROVE  \E t : Chain(t, Parent[b]) /\ s = Append(t, b)
<1>1. s \in Seq(Blocks) /\ Len(s) \in Nat /\ Len(s) > 1 /\ s[Len(s)] = b
  BY DEF Chain
<1> DEFINE n == Len(s) - 1
           t == SubSeq(s, 1, n)
<1>2. n \in 1..Len(s) /\ Parent[b] = s[n] /\ b \in Blocks
  BY <1>1 DEF Chain
<1>3. Chain(t, s[n]) /\ Len(t) = n
  BY <1>2, ChainPrefix, Zenon
<1>4. t \in Seq(Blocks) /\ \A i \in 1..n : t[i] = s[i]
  BY <1>1, <1>2, <1>3 DEF Chain
<1> HIDE DEF t
<1>5. Append(t, b) \in Seq(Blocks) /\ Len(Append(t, b)) = Len(s)
  BY <1>1, <1>2, <1>3, <1>4
<1>6. \A i \in 1..Len(s) : Append(t, b)[i] = s[i]
  BY <1>1, <1>2, <1>3, <1>4
<1>7. s = Append(t, b)
  BY <1>1, <1>5, <1>6
<1> QED
  BY <1>2, <1>3, <1>7, Zenon

(* The parent of a block has less work.                                     *)
LEMMA ParentWork ==
  ASSUME NEW b \in Blocks, b # Genesis
  PROVE  Parent[b] \in Blocks /\ Work[Parent[b]] < Work[b] /\ Work[b] \in Nat /\ Work[Parent[b]] \in Nat
BY CollectorAssumption, Zenon

(* Every block has a chain.                                                 *)
LEMMA ChainExists == \A b \in Blocks : \E s : Chain(s, b)
<1> DEFINE Bad == {b \in Blocks : ~\E s : Chain(s, b)}
<1> SUFFICES ASSUME Bad # {} PROVE FALSE
  BY Zenon
<1>1. PICK b \in Bad : \A c \in Bad : Work[b] <= Work[c]
  BY LeastWork, Zenon
<1>2. b \in Blocks /\ b # Genesis
  BY <1>1, ChainGenesis, Zenon
<1>3. Parent[b] \in Blocks /\ Parent[b] \notin Bad
  BY <1>1, <1>2, ParentWork
<1>4. PICK s : Chain(s, Parent[b])
  BY <1>3, Zenon
<1> QED
  BY <1>1, <1>2, <1>4, ChainAppend, Zenon

(* A block has only one chain.                                              *)
LEMMA ChainUnique == \A b \in Blocks : \A s, t : Chain(s, b) /\ Chain(t, b) => s = t
<1> DEFINE Bad == {b \in Blocks : ~\A s, t : Chain(s, b) /\ Chain(t, b) => s = t}
<1> SUFFICES ASSUME Bad # {} PROVE FALSE
  BY Zenon
<1>1. PICK b \in Bad : \A c \in Bad : Work[b] <= Work[c]
  BY LeastWork, Zenon
<1>2. b \in Blocks /\ b # Genesis
  BY <1>1, ChainGenesis, Zenon
<1>3. Parent[b] \in Blocks /\ Parent[b] \notin Bad
  BY <1>1, <1>2, ParentWork
<1>4. PICK s, t : Chain(s, b) /\ Chain(t, b) /\ s # t
  BY <1>1, Zenon
<1>5. PICK u : Chain(u, Parent[b]) /\ s = Append(u, b)
  BY <1>2, <1>4, ChainFront, Zenon
<1>6. PICK v : Chain(v, Parent[b]) /\ t = Append(v, b)
  BY <1>2, <1>4, ChainFront, Zenon
<1>7. u = v
  BY <1>3, <1>5, <1>6, Zenon
<1> QED
  BY <1>4, <1>5, <1>6, <1>7, Zenon

(* branch satisfies the equation that defines it: the recursion is founded  *)
(* on the work of the blocks.                                               *)
LEMMA BranchDef ==
  \A b \in Blocks : branch[b] = IF b = Genesis THEN <<b>> ELSE Append(branch[Parent[b]], b)
<1> DEFINE f == [b \in Blocks |-> CHOOSE s : Chain(s, b)]
           Step(g) == [b \in Blocks |-> IF b = Genesis THEN <<b>> ELSE Append(g[Parent[b]], b)]
<1>1. \A b \in Blocks : Chain(f[b], b)
  BY ChainExists, Zenon
<1> HIDE DEF f
<1>2. \A b \in Blocks : f[b] = IF b = Genesis THEN <<b>> ELSE Append(f[Parent[b]], b)
  <2> SUFFICES ASSUME NEW b \in Blocks
               PROVE  f[b] = IF b = Genesis THEN <<b>> ELSE Append(f[Parent[b]], b)
    BY Zenon
  <2>1. CASE b = Genesis
    BY <1>1, <2>1, ChainGenesis, Zenon
  <2>2. CASE b # Genesis
    <3>1. Chain(Append(f[Parent[b]], b), b)
      BY <1>1, <2>2, ParentWork, ChainAppend, Zenon
    <3> QED
      BY <1>1, <2>2, <3>1, ChainUnique, Zenon
  <2> QED
    BY <2>1, <2>2, Zenon
<1>3. f = Step(f)
  BY <1>2 DEF f
<1>4. branch = CHOOSE g : g = Step(g)
  BY Zenon DEF branch
<1> HIDE DEF Step
<1>5. branch = Step(branch)
  BY <1>3, <1>4, Zenon
<1> QED
  BY <1>5, Zenon DEF Step

(* branch[b] is the chain of b.                                             *)
LEMMA BranchChain == \A b \in Blocks : Chain(branch[b], b)
<1> DEFINE Bad == {b \in Blocks : ~Chain(branch[b], b)}
<1> SUFFICES ASSUME Bad # {} PROVE FALSE
  BY Zenon
<1>1. PICK b \in Bad : \A c \in Bad : Work[b] <= Work[c]
  BY LeastWork, Zenon
<1>2. b \in Blocks /\ b # Genesis
  BY <1>1, BranchDef, ChainGenesis, Zenon
<1>3. Parent[b] \in Blocks /\ Parent[b] \notin Bad
  BY <1>1, <1>2, ParentWork
<1> QED
  BY <1>1, <1>2, <1>3, ChainAppend, BranchDef, Zenon

(* The branch of a block, and its height.                                   *)
LEMMA BranchType ==
  ASSUME NEW b \in Blocks
  PROVE  /\ branch[b] \in Seq(Blocks) /\ Len(branch[b]) = HeightOf(b) + 1 /\ HeightOf(b) \in Nat
         /\ branch[b][HeightOf(b) + 1] = b /\ DOMAIN branch[b] = 1..(HeightOf(b) + 1)
         /\ branch[b][1] = Genesis /\ (HeightOf(b) = 0 <=> b = Genesis)
<1>1. Chain(branch[b], b)
  BY BranchChain, Zenon
<1>2. branch[b] \in Seq(Blocks) /\ Len(branch[b]) \in Nat \ {0}
  BY <1>1 DEF Chain
<1>3. HeightOf(b) = 0 => b = Genesis
  BY <1>1, <1>2 DEF Chain, HeightOf
<1>4. b = Genesis => HeightOf(b) = 0
  <2>1. b = Genesis => branch[b] = <<b>>
    BY BranchDef, Zenon
  <2> QED
    BY <2>1 DEF HeightOf
<1> QED
  BY <1>1, <1>2, <1>3, <1>4 DEF Chain, HeightOf

(* A block of a branch: its own branch is the beginning of that one.        *)
LEMMA Ancestor ==
  ASSUME NEW t \in Blocks, NEW h \in 0..HeightOf(t)
  PROVE  /\ branch[t][h + 1] \in Blocks /\ HeightOf(branch[t][h + 1]) = h
         /\ \A i \in 1..(h + 1) : branch[branch[t][h + 1]][i] = branch[t][i]
         /\ h > 0 => branch[t][h + 1] # Genesis /\ Parent[branch[t][h + 1]] = branch[t][h]
<1> DEFINE b == branch[t][h + 1]
<1>1. /\ Chain(branch[t], t) /\ branch[t] \in Seq(Blocks) /\ HeightOf(t) \in Nat
      /\ Len(branch[t]) = HeightOf(t) + 1
  BY BranchChain, BranchType, Zenon
<1>2. h + 1 \in 1..Len(branch[t]) /\ h \in Nat
  BY <1>1
<1>3. Chain(SubSeq(branch[t], 1, h + 1), b) /\ Len(SubSeq(branch[t], 1, h + 1)) = h + 1 /\ b \in Blocks
  BY <1>1, <1>2, ChainPrefix, Zenon
<1>4. branch[b] = SubSeq(branch[t], 1, h + 1)
  BY <1>3, BranchChain, ChainUnique, Zenon
<1>5. HeightOf(b) = h
  BY <1>2, <1>3, <1>4 DEF HeightOf
<1>6. \A i \in 1..(h + 1) : branch[b][i] = branch[t][i]
  BY <1>1, <1>2, <1>4
<1>7. h > 0 => b # Genesis /\ Parent[b] = branch[t][h]
  <2>1. \A i \in 1..(Len(branch[t]) - 1) :
          branch[t][i + 1] # Genesis /\ Parent[branch[t][i + 1]] = branch[t][i]
    BY <1>1, Zenon DEF Chain
  <2>2. h > 0 => h \in 1..(Len(branch[t]) - 1)
    BY <1>1, <1>2
  <2> QED
    BY <2>1, <2>2, Zenon
<1> QED
  BY <1>3, <1>5, <1>6, <1>7, Zenon

-----------------------------------------------------------------------------
(* Sums over finite sets.                                                   *)

(* A set of finite sets has a minimal one.                                  *)
LEMMA MinimalSet ==
  ASSUME NEW S, S # {}, \A s \in S : IsFiniteSet(s)
  PROVE  \E s \in S : \A t \in S : t \subseteq s => t = s
<1> DEFINE C == {Cardinality(s) : s \in S}
<1>1. C \in SUBSET Nat /\ C # {}
  BY FS_CardinalityType, Zenon
<1>2. PICK n \in C : \A m \in C : n <= m
  BY <1>1, LeastNumber, Zenon
<1>3. PICK s \in S : n = Cardinality(s)
  BY <1>2, Zenon
<1>4. ASSUME NEW t \in S, t \subseteq s PROVE t = s
  <2>1. n <= Cardinality(t) /\ n \in Nat /\ Cardinality(t) \in Nat
    BY <1>1, <1>2, Zenon
  <2>2. Cardinality(t) <= Cardinality(s) /\ (Cardinality(s) = Cardinality(t) => s = t)
    BY <1>4, FS_Subset, Zenon
  <2> QED
    BY <1>3, <2>1, <2>2
<1> QED
  BY <1>4, Zenon

(* The image of a finite set.                                               *)
LEMMA FiniteImage ==
  ASSUME NEW S, IsFiniteSet(S), NEW f
  PROVE  IsFiniteSet({f[x] : x \in S})
<1> DEFINE T == {f[x] : x \in S}
           g == [x \in S |-> f[x]]
<1>1. g \in Surjection(S, T)
  BY Zenon DEF Surjection
<1> QED
  BY <1>1, FS_Surjection, Zenon

(* The element a sum starts with, and the equation of a table of sums of f  *)
(* over the subsets of D.                                                   *)
Pick(s) == CHOOSE x \in s : TRUE
SumStep(f, D, g) ==
  [s \in SUBSET D |-> IF s = {} THEN 0 ELSE f[Pick(s)] + g[s \ {Pick(s)}]]
Sums(f, D, g) == g \in [SUBSET D -> Nat] /\ g = SumStep(f, D, g)

(* The element picked from a set.                                           *)
LEMMA Picked == ASSUME NEW s, s # {} PROVE Pick(s) \in s
BY Zenon DEF Pick

(* There is a table of sums, by induction on the size of the subsets.       *)
LEMMA SumsExist ==
  ASSUME NEW D, IsFiniteSet(D), NEW f, \A x \in D : f[x] \in Nat
  PROVE  \E g : Sums(f, D, g)
<1> DEFINE Upto(n) == {s \in SUBSET D : Cardinality(s) <= n}
           P(n) == \E g \in [SUBSET D -> Nat] : \A s \in Upto(n) : g[s] = SumStep(f, D, g)[s]
           Bad == {n \in Nat : ~P(n)}
<1>1. \A s \in SUBSET D : /\ IsFiniteSet(s) /\ Cardinality(s) \in Nat
                          /\ Cardinality(s) <= Cardinality(D)
                          /\ (Cardinality(s) = 0 <=> s = {})
  BY FS_Subset, FS_CardinalityType, FS_EmptySet, Zenon
<1>2. \A s \in SUBSET D : s # {} => /\ s \ {Pick(s)} \in SUBSET D
                                    /\ Cardinality(s \ {Pick(s)}) = Cardinality(s) - 1
                                    /\ f[Pick(s)] \in Nat
  BY <1>1, Picked, FS_RemoveElement, Zenon
<1>3. P(0)
  <2> DEFINE g == [s \in SUBSET D |-> 0]
  <2>1. g \in [SUBSET D -> Nat]
    BY Zenon
  <2>2. \A s \in Upto(0) : s = {}
    BY <1>1
  <2>3. \A s \in Upto(0) : g[s] = SumStep(f, D, g)[s]
    BY <2>2, Zenon DEF SumStep
  <2> QED
    BY <2>1, <2>3, Zenon
<1>4. ASSUME NEW n \in Nat, P(n) PROVE P(n + 1)
  <2>1. PICK g \in [SUBSET D -> Nat] : \A s \in Upto(n) : g[s] = SumStep(f, D, g)[s]
    BY <1>4, Zenon
  <2> DEFINE h == SumStep(f, D, g)
  <2>2. h \in [SUBSET D -> Nat]
    <3>1. \A s \in SUBSET D : s # {} => f[Pick(s)] \in Nat /\ g[s \ {Pick(s)}] \in Nat
      BY <1>2, Zenon
    <3>2. \A i, j \in Nat : i + j \in Nat
      OBVIOUS
    <3>3. \A s \in SUBSET D : s # {} => f[Pick(s)] + g[s \ {Pick(s)}] \in Nat
      BY <3>1, <3>2, Zenon
    <3> QED
      BY <3>3, Zenon DEF SumStep
  <2>3. ASSUME NEW s \in Upto(n + 1) PROVE h[s] = SumStep(f, D, h)[s]
    <3>1. CASE s = {}
      BY <3>1, Zenon DEF SumStep
    <3>2. CASE s # {}
      <4> DEFINE r == s \ {Pick(s)}
      <4>1. r \in Upto(n)
        BY <1>1, <1>2, <2>3, <3>2
      <4>2. g[r] = h[r]
        BY <2>1, <4>1, Zenon
      <4>3. h[s] = f[Pick(s)] + g[r]
        BY <2>3, <3>2, Zenon DEF SumStep
      <4> HIDE DEF h
      <4>4. SumStep(f, D, h)[s] = f[Pick(s)] + h[r]
        BY <2>3, <3>2, Zenon DEF SumStep
      <4> QED
        BY <4>2, <4>3, <4>4, Zenon
    <3> QED
      BY <3>1, <3>2, Zenon
  <2> HIDE DEF h
  <2> QED
    BY <2>2, <2>3, Zenon
<1> HIDE DEF P
<1>5. Bad = {}
  <2> SUFFICES ASSUME Bad # {} PROVE FALSE
    BY Zenon
  <2>1. PICK n \in Bad : \A m \in Bad : n <= m
    BY LeastNumber, Zenon
  <2>2. n \in Nat /\ n # 0 /\ ~P(n)
    BY <1>3, <2>1, Zenon
  <2>3. n - 1 \in Nat /\ n - 1 \notin Bad /\ (n - 1) + 1 = n
    BY <2>1, <2>2
  <2>4. P(n - 1)
    BY <2>3, Zenon
  <2>5. P((n - 1) + 1)
    BY <1>4, <2>3, <2>4, Zenon
  <2> QED
    BY <2>2, <2>3, <2>5, Zenon
<1>6. P(Cardinality(D))
  BY <1>5, FS_CardinalityType, Zenon
<1>7. PICK g \in [SUBSET D -> Nat] : \A s \in Upto(Cardinality(D)) : g[s] = SumStep(f, D, g)[s]
  BY <1>6, Zenon DEF P
<1>8. \A s \in SUBSET D : g[s] = SumStep(f, D, g)[s]
  BY <1>1, <1>7, Zenon
<1>9. g = SumStep(f, D, g)
  BY <1>8, Zenon DEF SumStep
<1> QED
  BY <1>7, <1>9, Zenon DEF Sums

(* Two tables agree on the subsets they share.                              *)
LEMMA SumsAgree ==
  ASSUME NEW D, IsFiniteSet(D), NEW E \in SUBSET D, NEW f, NEW e, \A x \in E : f[x] = e[x],
         NEW g, g = SumStep(f, D, g), NEW h, h = SumStep(e, E, h)
  PROVE  \A s \in SUBSET E : g[s] = h[s]
<1> DEFINE Bad == {s \in SUBSET E : g[s] # h[s]}
<1> SUFFICES ASSUME Bad # {} PROVE FALSE
  BY Zenon
<1>1. \A s \in Bad : IsFiniteSet(s)
  BY FS_Subset, Zenon
<1>2. PICK s \in Bad : \A t \in Bad : t \subseteq s => t = s
  <2> HIDE DEF Bad
  <2> QED
    BY <1>1, MinimalSet
<1>3. s # {}
  BY <1>2, Zenon DEF SumStep
<1>4. Pick(s) \in s /\ s \ {Pick(s)} \notin Bad /\ f[Pick(s)] = e[Pick(s)]
  BY <1>2, <1>3, Picked, Zenon
<1>5. g[s \ {Pick(s)}] = h[s \ {Pick(s)}]
  BY <1>2, <1>4, Zenon
<1>6. g[s] = f[Pick(s)] + g[s \ {Pick(s)}]
  BY <1>2, <1>3, Zenon DEF SumStep
<1>7. h[s] = e[Pick(s)] + h[s \ {Pick(s)}]
  BY <1>2, <1>3, Zenon DEF SumStep
<1> QED
  BY <1>2, <1>4, <1>5, <1>6, <1>7, Zenon

(* Any element can be taken out of a sum first.                             *)
LEMMA SumsRemove ==
  ASSUME NEW D, IsFiniteSet(D), NEW f, \A x \in D : f[x] \in Nat, NEW g, Sums(f, D, g)
  PROVE  \A s \in SUBSET D : \A x \in s : g[s] = f[x] + g[s \ {x}]
<1> DEFINE Bad == {s \in SUBSET D : \E x \in s : g[s] # f[x] + g[s \ {x}]}
<1> SUFFICES ASSUME Bad # {} PROVE FALSE
  BY Zenon
<1>1. \A s \in Bad : IsFiniteSet(s)
  BY FS_Subset, Zenon
<1>2. PICK s \in Bad : \A t \in Bad : t \subseteq s => t = s
  <2> HIDE DEF Bad
  <2> QED
    BY <1>1, MinimalSet
<1>3. PICK x \in s : g[s] # f[x] + g[s \ {x}]
  BY <1>2, Zenon
<1> DEFINE y == Pick(s)
<1>4. y \in s
  BY <1>3, Picked, Zenon
<1>5. g[s] = f[y] + g[s \ {y}]
  BY <1>2, <1>3, Zenon DEF Sums, SumStep
<1> HIDE DEF y
<1>6. x # y
  BY <1>3, <1>5, Zenon
<1>7. g[s \ {y}] = f[x] + g[(s \ {y}) \ {x}]
  <2>1. s \ {y} \in SUBSET D /\ s \ {y} \notin Bad /\ x \in s \ {y}
    BY <1>2, <1>3, <1>4, <1>6, Zenon
  <2> QED
    BY <2>1, Zenon
<1>8. g[s \ {x}] = f[y] + g[(s \ {x}) \ {y}]
  <2>1. s \ {x} \in SUBSET D /\ s \ {x} \notin Bad /\ y \in s \ {x}
    BY <1>2, <1>3, <1>4, <1>6, Zenon
  <2> QED
    BY <2>1, Zenon
<1>9. (s \ {x}) \ {y} = (s \ {y}) \ {x}
  BY Zenon
<1>10. (s \ {x}) \ {y} \in SUBSET D
  BY <1>2, Zenon
<1>11. f[x] \in Nat /\ f[y] \in Nat /\ g[(s \ {x}) \ {y}] \in Nat
  BY <1>2, <1>3, <1>4, <1>10, Zenon DEF Sums
<1>12. \A i, j, k \in Nat : i + (j + k) = j + (i + k)
  OBVIOUS
<1>13. f[y] + (f[x] + g[(s \ {x}) \ {y}]) = f[x] + (f[y] + g[(s \ {x}) \ {y}])
  BY <1>11, <1>12, Zenon
<1> QED
  BY <1>3, <1>5, <1>7, <1>8, <1>9, <1>13, Zenon

(* Total(f) is the entry of a table of sums of f.                           *)
LEMMA TotalIsSum ==
  ASSUME NEW D, IsFiniteSet(D), NEW f \in [D -> Nat]
  PROVE  \E g : Sums(f, D, g) /\ Total(f) = g[D]
<1> DEFINE G == CHOOSE g : g = SumStep(f, D, g)
<1>1. DOMAIN f = D
  BY Zenon
<1>2. Total(f) = (CHOOSE g : g = SumStep(f, DOMAIN f, g))[DOMAIN f]
  BY Zenon DEF Total, MapThenSumSet, MapThenFoldSet, SumStep, Pick
<1>3. PICK h : Sums(f, D, h)
  BY SumsExist, Zenon
<1>4. G = SumStep(f, D, G)
  BY <1>3, Zenon DEF Sums
<1>5. Total(f) = G[D]
  BY <1>1, <1>2, Zenon
<1> HIDE DEF G
<1>6. DOMAIN G = SUBSET D /\ G = [s \in SUBSET D |-> G[s]]
  BY <1>4, Zenon DEF SumStep
<1>7. \A s \in SUBSET D : G[s] = h[s]
  BY <1>3, <1>4, SumsAgree DEF Sums
<1>8. G \in [SUBSET D -> Nat]
  BY <1>3, <1>6, <1>7, Zenon DEF Sums
<1> QED
  BY <1>4, <1>5, <1>8, Zenon DEF Sums

(* The sum of nothing.                                                      *)
LEMMA TotalEmpty == ASSUME NEW f \in [{} -> Nat] PROVE Total(f) = 0
<1>1. IsFiniteSet({})
  BY FS_EmptySet, Zenon
<1>2. PICK g : Sums(f, {}, g) /\ Total(f) = g[{}]
  BY <1>1, TotalIsSum, Zenon
<1> QED
  BY <1>2, Zenon DEF Sums, SumStep

(* A sum of naturals, and the sum without one element.                      *)
LEMMA TotalRemove ==
  ASSUME NEW D, IsFiniteSet(D), NEW f \in [D -> Nat]
  PROVE  /\ Total(f) \in Nat
         /\ \A x \in D : Total(f) = f[x] + Total([y \in D \ {x} |-> f[y]])
<1>1. PICK g : Sums(f, D, g) /\ Total(f) = g[D]
  BY TotalIsSum, Zenon
<1>2. Total(f) \in Nat
  BY <1>1, Zenon DEF Sums
<1>3. ASSUME NEW x \in D PROVE Total(f) = f[x] + Total([y \in D \ {x} |-> f[y]])
  <2> DEFINE E == D \ {x}
             e == [y \in E |-> f[y]]
  <2>1. IsFiniteSet(E) /\ e \in [E -> Nat] /\ E \in SUBSET D /\ \A y \in E : f[y] = e[y]
    BY FS_RemoveElement, Zenon
  <2> HIDE DEF e, E
  <2>2. PICK h : Sums(e, E, h) /\ Total(e) = h[E]
    BY <2>1, TotalIsSum, Zenon
  <2>3. g[E] = h[E]
    BY <1>1, <2>1, <2>2, SumsAgree DEF Sums
  <2>4. g[D] = f[x] + g[E]
    <3>1. \A y \in D : f[y] \in Nat
      BY Zenon
    <3>2. Sums(f, D, g) /\ D \in SUBSET D
      BY <1>1, Zenon
    <3>3. g[D] = f[x] + g[D \ {x}]
      BY <3>1, <3>2, SumsRemove
    <3> QED
      BY <3>3, Zenon DEF E
  <2> QED
    BY <1>1, <2>2, <2>3, <2>4, Zenon DEF e, E
<1> QED
  BY <1>2, <1>3, Zenon

(* Coins whose values are naturals.                                         *)
Purse(S) == IsFiniteSet(S) /\ \A c \in S : c.value \in Nat

(* The value of a purse.                                                    *)
LEMMA ValueNat == ASSUME NEW S, Purse(S) PROVE ValueOf(S) \in Nat
<1> DEFINE f == [c \in S |-> c.value]
<1>1. f \in [S -> Nat] /\ IsFiniteSet(S)
  BY Zenon DEF Purse
<1>2. Total(f) \in Nat
  BY <1>1, TotalRemove, Zenon
<1> QED
  BY <1>2, Zenon DEF ValueOf

(* The value of no coins.                                                   *)
LEMMA ValueEmpty == ValueOf({}) = 0
<1> DEFINE f == [c \in {} |-> c.value]
<1>1. f \in [{} -> Nat]
  BY Zenon
<1>2. Total(f) = 0
  BY <1>1, TotalEmpty, Zenon
<1> QED
  BY <1>2, Zenon DEF ValueOf

(* One coin taken out.                                                      *)
LEMMA ValueRemove ==
  ASSUME NEW S, Purse(S), NEW x \in S
  PROVE  Purse(S \ {x}) /\ ValueOf(S) = x.value + ValueOf(S \ {x})
<1> DEFINE f == [c \in S |-> c.value]
           e == [c \in S \ {x} |-> c.value]
           r == [c \in S \ {x} |-> f[c]]
<1>1. f \in [S -> Nat] /\ IsFiniteSet(S) /\ f[x] = x.value
  BY Zenon DEF Purse
<1>2. r = e
  BY Zenon
<1>3. Total(f) = f[x] + Total(r)
  <2> HIDE DEF f
  <2> QED
    BY <1>1, TotalRemove
<1>4. Purse(S \ {x})
  BY FS_RemoveElement, Zenon DEF Purse
<1>5. Total(f) = x.value + Total(e)
  <2> HIDE DEF f, r, e
  <2> QED
    BY <1>1, <1>2, <1>3, Zenon
<1> QED
  BY <1>4, <1>5, Zenon DEF ValueOf

(* The value of two disjoint purses.                                        *)
LEMMA ValueUnion ==
  ASSUME NEW S, Purse(S), NEW T, Purse(T), S \cap T = {}
  PROVE  Purse(S \cup T) /\ ValueOf(S \cup T) = ValueOf(S) + ValueOf(T)
<1> DEFINE Bad == {t \in SUBSET T : ValueOf(S \cup t) # ValueOf(S) + ValueOf(t)}
<1>1. \A t \in SUBSET T : Purse(t) /\ Purse(S \cup t)
  BY FS_Subset, FS_Union, Zenon DEF Purse
<1>2. Bad = {}
  <2> SUFFICES ASSUME Bad # {} PROVE FALSE
    BY Zenon
  <2>1. \A t \in Bad : IsFiniteSet(t)
    BY <1>1, Zenon DEF Purse
  <2>2. PICK t \in Bad : \A u \in Bad : u \subseteq t => u = t
    <3> HIDE DEF Bad
    <3> QED
      BY <2>1, MinimalSet
  <2>3. ValueOf(S) \in Nat
    BY ValueNat, Zenon
  <2>4. t # {}
    <3>1. S \cup {} = S
      BY Zenon
    <3>2. \A n \in Nat : n + 0 = n
      OBVIOUS
    <3> QED
      BY <2>2, <2>3, <3>1, <3>2, ValueEmpty, Zenon
  <2>5. PICK x \in t : TRUE
    BY <2>4, Zenon
  <2> DEFINE u == t \ {x}
  <2>6. u \in SUBSET T /\ u \notin Bad /\ t \in SUBSET T
    BY <2>2, <2>5, Zenon
  <2>7. ValueOf(S \cup u) = ValueOf(S) + ValueOf(u)
    BY <2>6, Zenon
  <2>8. (S \cup t) \ {x} = S \cup u /\ x \in S \cup t
    BY <2>2, <2>5, Zenon
  <2>9. ValueOf(S \cup t) = x.value + ValueOf(S \cup u)
    BY <1>1, <2>6, <2>8, ValueRemove
  <2>10. ValueOf(t) = x.value + ValueOf(u)
    BY <1>1, <2>5, <2>6, ValueRemove, Zenon
  <2>11. ValueOf(u) \in Nat /\ x.value \in Nat
    BY <1>1, <2>5, <2>6, ValueNat, Zenon DEF Purse
  <2>12. ValueOf(S \cup t) # ValueOf(S) + ValueOf(t)
    BY <2>2, Zenon
  <2>13. \A i, j, k \in Nat : i + (j + k) = j + (i + k)
    OBVIOUS
  <2> QED
    <3> HIDE DEF u
    <3>1. x.value + (ValueOf(S) + ValueOf(u)) = ValueOf(S) + (x.value + ValueOf(u))
      BY <2>3, <2>11, <2>13, Zenon
    <3> QED
      BY <2>7, <2>9, <2>10, <2>12, <3>1, Zenon
<1> QED
  BY <1>1, <1>2, Zenon

-----------------------------------------------------------------------------
(* What a set of mined transactions gives the treasury, and what one more   *)
(* transaction changes.                                                     *)

(* A mined transaction of the form the node reports, and a finite set.      *)
Sound(m) == /\ m.tx.coinbase \in BOOLEAN /\ IsFiniteSet(m.tx.outs)
            /\ \A o \in m.tx.outs : o.value \in Nat
SoundSet(M) == IsFiniteSet(M) /\ \A m \in M : Sound(m)

(* Consensus between a transaction and those before it.                     *)
Follow(M, m) ==
  /\ \A p \in m.tx.ins : p[1] # m.tx.txid
  /\ \A e \in M : /\ e.tx.txid # m.tx.txid /\ e.tx.ins \cap m.tx.ins = {}
                  /\ \A p \in e.tx.ins : p[1] # m.tx.txid

RewardsOf(M) == {c \in Received(M) : c.coinbase}
Indexed(h, b, M) == [height |-> h, hash |-> b, utxos |-> Unspent(M),
                     rewards |-> ValueOf(RewardsOf(M)), spent |-> Spending(M)]
Net(M, m) == MaxOf(0, ValueOf(SpentBy(M, m)) - ValueOf(Coins(m)))

(* The coins of a transaction.                                              *)
LEMMA CoinsPurse ==
  ASSUME NEW m, Sound(m)
  PROVE  Purse(Coins(m)) /\ \A c \in Coins(m) : c.point[1] = m.tx.txid /\ c.coinbase = m.tx.coinbase
<1> DEFINE f == [o \in m.tx.outs |-> [point |-> <<m.tx.txid, o.n>>, value |-> o.value, at |-> m.at,
                                      coinbase |-> m.tx.coinbase]]
<1>1. Coins(m) = {f[o] : o \in m.tx.outs}
  BY Zenon DEF Coins
<1>2. IsFiniteSet(Coins(m))
  <2> HIDE DEF f
  <2> QED
    BY <1>1, FiniteImage DEF Sound
<1>3. \A c \in Coins(m) : /\ c.value \in Nat /\ c.point[1] = m.tx.txid
                          /\ c.coinbase = m.tx.coinbase
  BY DEF Coins, Sound
<1> QED
  BY <1>2, <1>3, Zenon DEF Purse

(* The coins of a set of transactions.                                      *)
LEMMA ReceivedPurse ==
  ASSUME NEW M, SoundSet(M)
  PROVE  Purse(Received(M)) /\ \A S \in SUBSET Received(M) : Purse(S) /\ ValueOf(S) \in Nat
<1> DEFINE f == [m \in M |-> Coins(m)]
           U == {Coins(m) : m \in M}
<1>1. U = {f[m] : m \in M}
  BY Zenon
<1>2. IsFiniteSet(U)
  <2> HIDE DEF f, U
  <2> QED
    BY <1>1, FiniteImage, Zenon DEF SoundSet
<1>3. \A T \in U : IsFiniteSet(T) /\ \A c \in T : c.value \in Nat
  BY CoinsPurse, Zenon DEF SoundSet, Purse
<1>4. IsFiniteSet(UNION U)
  <2> HIDE DEF U
  <2> QED
    BY <1>2, <1>3, FS_UNION, Zenon
<1>5. Purse(UNION U)
  BY <1>3, <1>4, Zenon DEF Purse
<1>6. Purse(Received(M))
  BY <1>5, Zenon DEF Received
<1>7. ASSUME NEW S \in SUBSET Received(M) PROVE Purse(S) /\ ValueOf(S) \in Nat
  <2>1. Purse(S)
    BY <1>6, FS_Subset, Zenon DEF Purse
  <2> QED
    BY <2>1, ValueNat, Zenon
<1> QED
  BY <1>6, <1>7, Zenon

(* One more transaction.                                                    *)
LEMMA ReceivedAdd ==
  ASSUME NEW M, NEW m
  PROVE  Received(M \cup {m}) = Received(M) \cup Coins(m)
BY Zenon DEF Received

(* A coin of an earlier transaction comes from one of them.                 *)
LEMMA ReceivedFrom ==
  ASSUME NEW M, SoundSet(M), NEW c \in Received(M)
  PROVE  \E e \in M : c \in Coins(e) /\ c.point[1] = e.tx.txid /\ c.coinbase = e.tx.coinbase
<1>1. PICK e \in M : c \in Coins(e)
  BY Zenon DEF Received
<1> QED
  BY <1>1, CoinsPurse, Zenon DEF SoundSet

(* The coins of a transaction are not among the earlier ones, and neither   *)
(* it nor an earlier transaction spends them.                               *)
LEMMA CoinsNew ==
  ASSUME NEW M, SoundSet(M), NEW m, Sound(m), Follow(M, m)
  PROVE  /\ Received(M) \cap Coins(m) = {} /\ m \notin M /\ SoundSet(M \cup {m})
         /\ \A c \in Coins(m) : \A e \in M \cup {m} : c.point \notin e.tx.ins
<1>1. \A c \in Coins(m) : c.point[1] = m.tx.txid
  BY CoinsPurse, Zenon
<1>2. \A c \in Received(M) : c.point[1] # m.tx.txid
  BY ReceivedFrom DEF Follow
<1>3. m \notin M
  BY Zenon DEF Follow
<1>4. SoundSet(M \cup {m})
  BY FS_AddElement, Zenon DEF SoundSet
<1>5. \A c \in Coins(m) : \A e \in M \cup {m} : c.point \notin e.tx.ins
  BY <1>1, Zenon DEF Follow
<1> QED
  BY <1>1, <1>2, <1>3, <1>4, <1>5, Zenon

(* The unspent coins, the rewards and the coins each transaction spends     *)
(* after one more.                                                          *)
LEMMA AddOne ==
  ASSUME NEW M, SoundSet(M), NEW m, Sound(m), Follow(M, m)
  PROVE  LET spent == {c \in Unspent(M) : c.point \in m.tx.ins} IN
         /\ Unspent(M \cup {m}) = (Unspent(M) \ spent) \cup Coins(m)
         /\ RewardsOf(M \cup {m}) = IF m.tx.coinbase THEN RewardsOf(M) \cup Coins(m) ELSE RewardsOf(M)
         /\ SpentBy(M \cup {m}, m) = spent
         /\ \A e \in M : SpentBy(M \cup {m}, e) = SpentBy(M, e)
<1> DEFINE N == M \cup {m}
           spent == {c \in Unspent(M) : c.point \in m.tx.ins}
<1>1. Received(N) = Received(M) \cup Coins(m)
  BY ReceivedAdd, Zenon
<1>2. /\ Received(M) \cap Coins(m) = {}
      /\ \A c \in Coins(m) : \A e \in N : c.point \notin e.tx.ins
  BY CoinsNew, Zenon
<1>3. \A p \in m.tx.ins : \A e \in M : p \notin e.tx.ins
  BY Zenon DEF Follow
<1>4. Unspent(N) = (Unspent(M) \ spent) \cup Coins(m)
  BY <1>1, <1>2, Zenon DEF Unspent
<1>5. RewardsOf(N) = IF m.tx.coinbase THEN RewardsOf(M) \cup Coins(m) ELSE RewardsOf(M)
  <2>1. \A c \in Coins(m) : c.coinbase = m.tx.coinbase
    BY CoinsPurse, Zenon
  <2>2. m.tx.coinbase \in BOOLEAN
    BY Zenon DEF Sound
  <2>3. CASE m.tx.coinbase
    BY <1>1, <2>1, <2>3, Zenon DEF RewardsOf
  <2>4. CASE ~m.tx.coinbase
    BY <1>1, <2>1, <2>4, Zenon DEF RewardsOf
  <2> QED
    BY <2>3, <2>4, Zenon
<1>6. SpentBy(N, m) = spent
  <2>1. SpentBy(N, m) = {c \in Received(M) : c.point \in m.tx.ins}
    BY <1>1, <1>2, Zenon DEF SpentBy
  <2>2. \A c \in Received(M) : c.point \in m.tx.ins => c \in Unspent(M)
    BY <1>3, Zenon DEF Unspent
  <2>3. \A c \in Unspent(M) : c \in Received(M)
    BY Zenon DEF Unspent
  <2> QED
    BY <2>1, <2>2, <2>3, Zenon
<1>7. ASSUME NEW e \in M PROVE SpentBy(N, e) = SpentBy(M, e)
  BY <1>1, <1>2, Zenon DEF SpentBy
<1> QED
  BY <1>4, <1>5, <1>6, <1>7, Zenon

(* What the transactions take is a natural number each, and in all.         *)
LEMMA SpendingNat ==
  ASSUME NEW M, SoundSet(M)
  PROVE  Spending(M) \in Nat /\ \A e \in M : Net(M, e) \in Nat
<1> DEFINE f == [e \in M |-> Net(M, e)]
<1>1. ASSUME NEW e \in M PROVE Net(M, e) \in Nat
  <2>1. SpentBy(M, e) \in SUBSET Received(M)
    BY Zenon DEF SpentBy
  <2>2. ValueOf(SpentBy(M, e)) \in Nat
    BY <2>1, ReceivedPurse, Zenon
  <2>3. ValueOf(Coins(e)) \in Nat
    BY CoinsPurse, ValueNat, Zenon DEF SoundSet
  <2>4. \A i, j \in Nat : MaxOf(0, i - j) \in Nat
    BY DEF MaxOf
  <2> QED
    BY <2>2, <2>3, <2>4, Zenon DEF Net
<1>2. f \in [M -> Nat] /\ IsFiniteSet(M)
  BY <1>1, Zenon DEF SoundSet
<1>3. Spending(M) = Total(f)
  BY Zenon DEF Spending, Net
<1> HIDE DEF f
<1>4. Total(f) \in Nat
  BY <1>2, TotalRemove, Zenon
<1> QED
  BY <1>1, <1>3, <1>4, Zenon

(* What one transaction adds to the spending.                               *)
LEMMA SpendingAdd ==
  ASSUME NEW M, SoundSet(M), NEW m, Sound(m), Follow(M, m)
  PROVE  Spending(M \cup {m}) = Spending(M) + Net(M \cup {m}, m)
<1> DEFINE N == M \cup {m}
           fM == [e \in M |-> Net(M, e)]
           fN == [e \in N |-> Net(N, e)]
<1>1. SoundSet(N) /\ m \notin M /\ IsFiniteSet(M) /\ IsFiniteSet(N)
  BY CoinsNew, Zenon DEF SoundSet
<1>2. Spending(M) \in Nat /\ \A e \in N : Net(N, e) \in Nat
  BY <1>1, SpendingNat, Zenon
<1>3. fN \in [N -> Nat]
  BY <1>2, Zenon
<1>4. Total(fN) = fN[m] + Total([e \in N \ {m} |-> fN[e]])
  <2>1. m \in N
    BY Zenon
  <2> HIDE DEF fN, N
  <2> QED
    BY <1>1, <1>3, <2>1, TotalRemove
<1>5. [e \in N \ {m} |-> fN[e]] = fM
  <2>1. N \ {m} = M
    BY <1>1, Zenon
  <2>2. \A e \in M : SpentBy(N, e) = SpentBy(M, e)
    BY AddOne, Zenon
  <2>3. \A e \in M : Net(N, e) = Net(M, e)
    <3> HIDE DEF N
    <3> QED
      BY <2>2, Zenon DEF Net
  <2> QED
    BY <2>1, <2>3, Zenon
<1>6. fN[m] = Net(N, m) /\ Net(N, m) \in Nat
  BY <1>2, Zenon
<1>7. Spending(M) = Total(fM) /\ Spending(N) = Total(fN)
  BY Zenon DEF Spending, Net
<1> QED
  <2> HIDE DEF fM, fN
  <2>1. \A i, j \in Nat : i + j = j + i
    OBVIOUS
  <2>2. Net(N, m) + Spending(M) = Spending(M) + Net(N, m)
    BY <1>2, <1>6, <2>1, Zenon
  <2> QED
    BY <1>4, <1>5, <1>6, <1>7, <2>2, Zenon

(* ApplyTx turns the index of a set of transactions into that of the set    *)
(* with one more.                                                           *)
LEMMA ApplyTxAdds ==
  ASSUME NEW M, SoundSet(M), NEW m, Sound(m), Follow(M, m), NEW h, NEW b
  PROVE  ApplyTx(Indexed(h, b, M), m.tx, m.at) = Indexed(h, b, M \cup {m})
<1> DEFINE N == M \cup {m}
           spent == {c \in Unspent(M) : c.point \in m.tx.ins}
           R == ValueOf(RewardsOf(M))
<1>1. ApplyTx(Indexed(h, b, M), m.tx, m.at) =
        [height |-> h, hash |-> b, utxos |-> (Unspent(M) \ spent) \cup Coins(m),
         rewards |-> IF m.tx.coinbase THEN R + ValueOf(Coins(m)) ELSE R,
         spent |-> Spending(M) + MaxOf(0, ValueOf(spent) - ValueOf(Coins(m)))]
  <2> DEFINE I == Indexed(h, b, M)
             net == MaxOf(0, ValueOf(spent) - ValueOf(Coins(m)))
             C == Coins(m)
  <2>1. I = [height |-> h, hash |-> b, utxos |-> Unspent(M), rewards |-> R, spent |-> Spending(M)]
    BY Zenon DEF Indexed
  <2>2. I.utxos = Unspent(M)
    BY <2>1
  <2>3. ApplyTx(I, m.tx, m.at) =
          [I EXCEPT !.utxos = (@ \ spent) \cup C,
                    !.rewards = IF m.tx.coinbase THEN @ + ValueOf(C) ELSE @,
                    !.spent = @ + net]
    <3> HIDE DEF I
    <3> QED
      BY <2>2, Zenon DEF ApplyTx, Coins
  <2> HIDE DEF I, net, C, spent, R
  <2>4. ApplyTx(I, m.tx, m.at) =
          [height |-> h, hash |-> b, utxos |-> (Unspent(M) \ spent) \cup C,
           rewards |-> IF m.tx.coinbase THEN R + ValueOf(C) ELSE R, spent |-> Spending(M) + net]
    BY <2>1, <2>3, Zenon
  <2> QED
    BY <2>4, Zenon DEF I, net, C
<1>2. Unspent(N) = (Unspent(M) \ spent) \cup Coins(m) /\ SpentBy(N, m) = spent
  BY AddOne, Zenon
<1>3. Spending(N) = Spending(M) + MaxOf(0, ValueOf(spent) - ValueOf(Coins(m)))
  BY <1>2, SpendingAdd, Zenon DEF Net
<1>4. ValueOf(RewardsOf(N)) = IF m.tx.coinbase THEN R + ValueOf(Coins(m)) ELSE R
  <2>1. CASE m.tx.coinbase
    <3>1. RewardsOf(N) = RewardsOf(M) \cup Coins(m)
      BY <2>1, AddOne, Zenon
    <3>2. RewardsOf(M) \in SUBSET Received(M)
      BY Zenon DEF RewardsOf
    <3>3. Purse(RewardsOf(M)) /\ Purse(Coins(m))
      BY <3>2, ReceivedPurse, CoinsPurse, Zenon
    <3>4. RewardsOf(M) \cap Coins(m) = {}
      BY <3>2, CoinsNew, Zenon
    <3>5. ValueOf(RewardsOf(M) \cup Coins(m)) = ValueOf(RewardsOf(M)) + ValueOf(Coins(m))
      BY <3>3, <3>4, ValueUnion, Zenon
    <3> QED
      BY <2>1, <3>1, <3>5, Zenon
  <2>2. CASE ~m.tx.coinbase
    <3>1. RewardsOf(N) = RewardsOf(M)
      BY <2>2, AddOne, Zenon
    <3> QED
      BY <2>2, <3>1, Zenon
  <2> QED
    BY <2>1, <2>2, Zenon
<1> HIDE DEF N, spent, R
<1>5. Indexed(h, b, N) =
        [height |-> h, hash |-> b, utxos |-> (Unspent(M) \ spent) \cup Coins(m),
         rewards |-> IF m.tx.coinbase THEN R + ValueOf(Coins(m)) ELSE R,
         spent |-> Spending(M) + MaxOf(0, ValueOf(spent) - ValueOf(Coins(m)))]
  BY <1>2, <1>3, <1>4, Zenon DEF Indexed
<1> QED
  BY <1>1, <1>5 DEF N

(* The k-th transaction of a block in its branch.                           *)
Nth(b, k) == [at |-> HeightOf(b), tx |-> Txs[b][k]]

(* The transactions of a block, one by one.                                 *)
LEMMA FirstStep ==
  ASSUME NEW b \in Blocks, NEW k \in 0..Len(Txs[b])
  PROVE  /\ k \in Nat /\ FirstOf(b, 0) = {} /\ SoundSet(FirstOf(b, k))
         /\ k > 0 => FirstOf(b, k) = FirstOf(b, k - 1) \cup {Nth(b, k)}
<1>1. Len(Txs[b]) \in Nat /\ DOMAIN Txs[b] = 1..Len(Txs[b]) /\ k \in Nat
  BY TransactionsAssumption
<1>2. \A j \in 1..Len(Txs[b]) : Sound(Nth(b, j))
  BY <1>1, TransactionsAssumption, Zenon DEF Sound, Nth
<1>3. \A n \in Nat : FirstOf(b, n) = {Nth(b, j) : j \in 1..n}
  BY Zenon DEF FirstOf, Nth
<1>4. FirstOf(b, 0) = {}
  BY <1>3
<1>5. k > 0 => FirstOf(b, k) = FirstOf(b, k - 1) \cup {Nth(b, k)}
  <2>1. k > 0 => k - 1 \in Nat /\ 1..k = (1..(k - 1)) \cup {k}
    BY <1>1
  <2> QED
    BY <1>1, <1>3, <2>1
<1>6. IsFiniteSet(FirstOf(b, k))
  <2> DEFINE f == [j \in 1..k |-> Nth(b, j)]
  <2>1. FirstOf(b, k) = {f[j] : j \in 1..k}
    BY <1>1, <1>3, Zenon
  <2>2. IsFiniteSet(1..k)
    BY <1>1, FS_Interval
  <2> HIDE DEF f
  <2> QED
    BY <2>1, <2>2, FiniteImage
<1>7. \A m \in FirstOf(b, k) : Sound(m)
  BY <1>1, <1>2, <1>3
<1> QED
  BY <1>1, <1>4, <1>5, <1>6, <1>7, Zenon DEF SoundSet

(* The transactions of a branch, block by block.                            *)
LEMMA MinedStep ==
  /\ Mined(Genesis) = {}
  /\ \A b \in Blocks \ {Genesis} : Mined(b) = Mined(Parent[b]) \cup FirstOf(b, Len(Txs[b]))
<1> DEFINE Upto(b) == {branch[b][i] : i \in DOMAIN branch[b]}
<1>1. Genesis \in Blocks
  BY CollectorAssumption, Zenon
<1>2. Mined(Genesis) = {}
  <2>1. branch[Genesis] = <<Genesis>>
    BY <1>1, BranchDef, Zenon
  <2>2. Upto(Genesis) = {Genesis}
    BY <2>1
  <2>3. Len(Txs[Genesis]) = 0
    BY TransactionsAssumption
  <2>4. FirstOf(Genesis, Len(Txs[Genesis])) = {}
    BY <1>1, <2>3, FirstStep
  <2>5. Mined(Genesis) = UNION {FirstOf(a, Len(Txs[a])) : a \in Upto(Genesis)}
    BY Zenon DEF Mined
  <2> HIDE DEF Upto
  <2> QED
    BY <2>2, <2>4, <2>5, Zenon
<1>3. ASSUME NEW b \in Blocks \ {Genesis}
      PROVE  Mined(b) = Mined(Parent[b]) \cup FirstOf(b, Len(Txs[b]))
  <2> DEFINE p == Parent[b]
             n == HeightOf(p) + 1
  <2>1. p \in Blocks
    BY ParentWork, Zenon
  <2>2. /\ branch[b] = Append(branch[p], b) /\ branch[p] \in Seq(Blocks)
        /\ Len(branch[p]) = n /\ n \in Nat /\ DOMAIN branch[p] = 1..n
    <3>1. branch[b] = Append(branch[p], b)
      BY BranchDef, Zenon
    <3> HIDE DEF p
    <3> QED
      BY <2>1, <3>1, BranchType
  <2> HIDE DEF p, n
  <2>3. /\ \A i \in 1..n : branch[b][i] = branch[p][i]
        /\ branch[b][n + 1] = b /\ Len(branch[b]) = n + 1 /\ branch[b] \in Seq(Blocks)
    BY <2>2
  <2>4. DOMAIN branch[b] = (1..n) \cup {n + 1}
    BY <2>2, <2>3
  <2>5. Upto(b) = Upto(p) \cup {b}
    BY <2>2, <2>3, <2>4
  <2>6. /\ Mined(b) = UNION {FirstOf(a, Len(Txs[a])) : a \in Upto(b)}
        /\ Mined(p) = UNION {FirstOf(a, Len(Txs[a])) : a \in Upto(p)}
    BY Zenon DEF Mined
  <2> HIDE DEF Upto
  <2>7. Mined(b) = Mined(p) \cup FirstOf(b, Len(Txs[b]))
    BY <2>5, <2>6, Zenon
  <2> QED
    BY <2>7, Zenon DEF p
<1> QED
  BY <1>2, <1>3, Zenon

(* They are finitely many, of the form the node reports.                    *)
LEMMA MinedSound == \A b \in Blocks : SoundSet(Mined(b))
<1> DEFINE Bad == {b \in Blocks : ~SoundSet(Mined(b))}
<1> SUFFICES ASSUME Bad # {} PROVE FALSE
  BY Zenon
<1>1. PICK b \in Bad : \A c \in Bad : Work[b] <= Work[c]
  BY LeastWork, Zenon
<1>2. b \in Blocks /\ b # Genesis
  BY <1>1, MinedStep, FS_EmptySet, Zenon DEF SoundSet
<1>3. Parent[b] \in Blocks /\ Parent[b] \notin Bad
  BY <1>1, <1>2, ParentWork
<1>4. Len(Txs[b]) \in 0..Len(Txs[b])
  BY <1>2, TransactionsAssumption
<1>5. SoundSet(Mined(Parent[b])) /\ SoundSet(FirstOf(b, Len(Txs[b])))
  BY <1>2, <1>3, <1>4, FirstStep, Zenon
<1>6. SoundSet(Mined(Parent[b]) \cup FirstOf(b, Len(Txs[b])))
  BY <1>5, FS_Union, Zenon DEF SoundSet
<1> QED
  BY <1>1, <1>2, <1>6, MinedStep, Zenon

(* ApplyTxs takes the index of the parent's branch to that of the block's.  *)
LEMMA ApplyTxsMines ==
  ASSUME NEW b \in Blocks \ {Genesis}, NEW h, NEW c
  PROVE  ApplyTxs(Indexed(h, c, Mined(Parent[b])), Txs[b], HeightOf(b)) = Indexed(h, c, Mined(b))
<1> DEFINE n == Len(Txs[b])
           M(k) == Mined(Parent[b]) \cup FirstOf(b, k)
           I == Indexed(h, c, Mined(Parent[b]))
           Step(g) == [k \in 0..n |-> IF k = 0 THEN I ELSE ApplyTx(g[k - 1], Txs[b][k], HeightOf(b))]
           f == [k \in 0..n |-> Indexed(h, c, M(k))]
           G == CHOOSE g : g = Step(g)
<1>1. n \in Nat /\ DOMAIN Txs[b] = 1..n
  BY TransactionsAssumption, Zenon
<1>2. \A k \in 0..n : SoundSet(M(k))
  <2>1. \A k \in 0..n : SoundSet(FirstOf(b, k)) /\ SoundSet(Mined(Parent[b]))
    BY FirstStep, MinedSound, ParentWork, Zenon
  <2> QED
    BY <2>1, FS_Union, Zenon DEF SoundSet
<1>3. M(0) = Mined(Parent[b]) /\ M(n) = Mined(b)
  <2>1. FirstOf(b, 0) = {}
    BY <1>1, FirstStep
  <2> QED
    BY <2>1, MinedStep, Zenon
<1>4. ASSUME NEW k \in 1..n
      PROVE  /\ k \in 0..n /\ k - 1 \in 0..n /\ k # 0
             /\ ApplyTx(Indexed(h, c, M(k - 1)), Txs[b][k], HeightOf(b)) = Indexed(h, c, M(k))
  <2>1. k \in 0..n /\ k - 1 \in 0..n /\ k > 0 /\ k # 0
    BY <1>1
  <2>2. M(k) = M(k - 1) \cup {Nth(b, k)}
    BY <2>1, FirstStep
  <2>3. Sound(Nth(b, k))
    BY <1>1, TransactionsAssumption, Zenon DEF Sound, Nth
  <2>4. M(k - 1) = Before(b, k)
    BY Zenon DEF Before
  <2>5. Follow(M(k - 1), Nth(b, k))
    <3> HIDE DEF M
    <3>1. /\ \A p \in Txs[b][k].ins : p[1] # Txs[b][k].txid
          /\ \A m \in Before(b, k) :
               /\ m.tx.txid # Txs[b][k].txid /\ m.tx.ins \cap Txs[b][k].ins = {}
               /\ \A p \in m.tx.ins : p[1] # Txs[b][k].txid
      BY <1>1, TransactionsAssumption, Zenon
    <3>2. Nth(b, k).tx = Txs[b][k]
      BY Zenon DEF Nth
    <3> QED
      BY <2>4, <3>1, <3>2, Zenon DEF Follow
  <2>6. SoundSet(M(k - 1))
    BY <1>2, <2>1, Zenon
  <2>7. Nth(b, k).tx = Txs[b][k] /\ Nth(b, k).at = HeightOf(b)
    BY Zenon DEF Nth
  <2> HIDE DEF M
  <2>8. ApplyTx(Indexed(h, c, M(k - 1)), Nth(b, k).tx, Nth(b, k).at)
          = Indexed(h, c, M(k - 1) \cup {Nth(b, k)})
    BY <2>3, <2>5, <2>6, ApplyTxAdds, Zenon
  <2> QED
    BY <2>1, <2>2, <2>7, <2>8, Zenon
<1> HIDE DEF M
<1>5. \A k \in 0..n : k # 0 => k \in 1..n
  BY <1>1
<1>6. f = Step(f)
  <2>1. \A k \in 0..n : f[k] = IF k = 0 THEN I ELSE ApplyTx(f[k - 1], Txs[b][k], HeightOf(b))
    BY <1>1, <1>3, <1>4, <1>5, Zenon
  <2> QED
    BY <2>1, Zenon
<1>7. G = Step(G)
  <2> HIDE DEF f, Step
  <2> QED
    BY <1>6, Zenon
<1>8. ApplyTxs(I, Txs[b], HeightOf(b)) = G[n]
  BY Zenon DEF ApplyTxs
<1> HIDE DEF G
<1>9. \A k \in 0..n : G[k] = f[k]
  <2> DEFINE Bad == {k \in 0..n : G[k] # f[k]}
  <2> SUFFICES ASSUME Bad # {} PROVE FALSE
    BY Zenon
  <2>1. Bad \in SUBSET Nat
    BY <1>1
  <2>2. PICK k \in Bad : \A j \in Bad : k <= j
    <3> HIDE DEF Bad
    <3> QED
      BY <2>1, LeastNumber, Zenon
  <2>3. k \in 0..n /\ G[k] # f[k]
    BY <2>2, Zenon
  <2>4. k # 0
    BY <1>6, <1>7, <2>3, Zenon
  <2>5. k - 1 \in 0..n /\ k - 1 \notin Bad
    BY <1>1, <2>2, <2>3, <2>4
  <2>6. G[k - 1] = f[k - 1]
    BY <2>5, Zenon
  <2>7. G[k] = ApplyTx(G[k - 1], Txs[b][k], HeightOf(b))
    BY <1>7, <2>3, <2>4, Zenon
  <2>8. f[k] = ApplyTx(f[k - 1], Txs[b][k], HeightOf(b))
    <3> HIDE DEF f
    <3> QED
      BY <1>6, <2>3, <2>4, Zenon
  <2> QED
    BY <2>3, <2>6, <2>7, <2>8, Zenon
<1>10. n \in 0..n /\ f[n] = Indexed(h, c, Mined(b))
  BY <1>1, <1>3
<1> HIDE DEF f
<1>11. G[n] = Indexed(h, c, Mined(b))
  BY <1>9, <1>10, Zenon
<1> QED
  BY <1>8, <1>11, Zenon

(* The index of a branch, and the empty index.                              *)
LEMMA HoldingsForm ==
  /\ \A b \in Blocks : Holdings[b] = Indexed(HeightOf(b), b, Mined(b))
  /\ reset = Indexed(0, None, Mined(Genesis))
<1>1. ASSUME NEW b \in Blocks PROVE Holdings[b] = Indexed(HeightOf(b), b, Mined(b))
  BY Zenon DEF Holdings, HoldingsOf, Indexed, RewardsOf
<1>2. Received({}) = {}
  BY Zenon DEF Received
<1>3. Unspent({}) = {} /\ RewardsOf({}) = {}
  BY <1>2, Zenon DEF Unspent, RewardsOf
<1>4. Spending({}) = 0
  <2> DEFINE f == [m \in {} |-> Net({}, m)]
  <2>1. f \in [{} -> Nat]
    BY Zenon
  <2>2. Spending({}) = Total(f)
    BY Zenon DEF Spending, Net
  <2> HIDE DEF f
  <2> QED
    BY <2>1, <2>2, TotalEmpty, Zenon
<1>5. Mined(Genesis) = {}
  BY MinedStep, Zenon
<1> QED
  BY <1>1, <1>3, <1>4, <1>5, ValueEmpty, Zenon DEF reset, Indexed

(* The index of a branch is well typed.                                     *)
LEMMA IndexedType ==
  ASSUME NEW a \in Blocks, NEW h, NEW c
  PROVE  LET idx == Indexed(h, c, Mined(a)) IN
         /\ idx.height = h /\ idx.hash = c /\ idx.rewards \in Nat /\ idx.spent \in Nat
         /\ idx.utxos = Unspent(Mined(a))
         /\ \A S \in SUBSET idx.utxos : ValueOf(S) \in Nat
<1> DEFINE M == Mined(a)
           idx == Indexed(h, c, M)
<1>1. SoundSet(M)
  BY MinedSound, Zenon
<1> HIDE DEF M
<1>2. /\ idx.height = h /\ idx.hash = c /\ idx.utxos = Unspent(M)
      /\ idx.rewards = ValueOf(RewardsOf(M)) /\ idx.spent = Spending(M)
  BY Zenon DEF Indexed
<1>3. Spending(M) \in Nat
  BY <1>1, SpendingNat, Zenon
<1>4. RewardsOf(M) \in SUBSET Received(M) /\ Unspent(M) \in SUBSET Received(M)
  BY Zenon DEF RewardsOf, Unspent
<1>5. \A S \in SUBSET Received(M) : ValueOf(S) \in Nat
  BY <1>1, ReceivedPurse, Zenon
<1>6. ValueOf(RewardsOf(M)) \in Nat /\ \A S \in SUBSET Unspent(M) : ValueOf(S) \in Nat
  BY <1>4, <1>5, Zenon
<1> HIDE DEF idx
<1> QED
  BY <1>2, <1>3, <1>6, Zenon DEF M, idx

(* ApplyBlock on the index of the parent's branch gives that of the block.  *)
LEMMA IndexStep ==
  ASSUME NEW b \in Blocks \ {Genesis}, NEW h, NEW c
  PROVE  ApplyBlock(Indexed(h, c, Mined(Parent[b])), b, HeightOf(b)) = Holdings[b]
<1>1. ApplyTxs(Indexed(h, c, Mined(Parent[b])), Txs[b], HeightOf(b)) = Indexed(h, c, Mined(b))
  BY ApplyTxsMines, Zenon
<1>2. [Indexed(h, c, Mined(b)) EXCEPT !.height = HeightOf(b), !.hash = b]
        = Indexed(HeightOf(b), b, Mined(b))
  <2> DEFINE I == Indexed(h, c, Mined(b))
             J == Indexed(HeightOf(b), b, Mined(b))
             k == HeightOf(b)
             U == Unspent(Mined(b))
             R == ValueOf(RewardsOf(Mined(b)))
             S == Spending(Mined(b))
  <2>1. /\ I = [height |-> h, hash |-> c, utxos |-> U, rewards |-> R, spent |-> S]
        /\ J = [height |-> k, hash |-> b, utxos |-> U, rewards |-> R, spent |-> S]
    BY Zenon DEF Indexed
  <2> HIDE DEF I, J, k, U, R, S
  <2> DEFINE E == [I EXCEPT !.height = k, !.hash = b]
  <2>2. E = [I EXCEPT !.height = k, !.hash = b]
    BY Zenon
  <2> HIDE DEF E
  <2>3. E = [height |-> k, hash |-> b, utxos |-> U, rewards |-> R, spent |-> S]
    BY <2>1, <2>2, Zenon
  <2> QED
    BY <2>1, <2>3, Zenon DEF E, I, J, k
<1> QED
  BY <1>1, <1>2, HoldingsForm, Zenon DEF ApplyBlock

(* The figures of an index of a branch are those of its block.              *)
LEMMA FiguresTrue ==
  ASSUME NEW b \in Blocks, NEW h, NEW c
  PROVE  /\ Figures(Indexed(h, c, Mined(b)), HeightOf(b)) = TrueFigures[b]
         /\ TrueFigures[b] \in FiguresType
<1> DEFINE I == Indexed(h, c, Mined(b))
           H == Holdings[b]
           ripe == {x \in Unspent(Mined(b)) : x.coinbase => HeightOf(b) - x.at + 1 >= Maturity}
           open == {x \in Unspent(Mined(b)) : ~x.coinbase \/ HeightOf(b) - x.at + 1 >= Maturity}
<1>1. /\ I.rewards = H.rewards /\ I.spent = H.spent /\ I.utxos = Unspent(Mined(b))
      /\ H.utxos = Unspent(Mined(b))
  <2> DEFINE M == Mined(b)
  <2>1. H = Indexed(HeightOf(b), b, M)
    BY HoldingsForm, Zenon
  <2>2. I = Indexed(h, c, M)
    BY Zenon
  <2> HIDE DEF H, I, M
  <2>3. I.rewards = ValueOf(RewardsOf(M)) /\ I.spent = Spending(M) /\ I.utxos = Unspent(M)
    BY <2>2, Zenon DEF Indexed
  <2>4. H.rewards = ValueOf(RewardsOf(M)) /\ H.spent = Spending(M) /\ H.utxos = Unspent(M)
    BY <2>1, Zenon DEF Indexed
  <2> QED
    BY <2>3, <2>4, Zenon DEF M
<1>2. H.rewards \in Nat /\ H.spent \in Nat /\ \A S \in SUBSET Unspent(Mined(b)) : ValueOf(S) \in Nat
  BY HoldingsForm, IndexedType
<1>3. TrueFigures[b] = [rewards |-> H.rewards, current |-> ValueOf(Unspent(Mined(b))),
                        unlocked |-> ValueOf(ripe), spent |-> H.spent]
  <2> HIDE DEF I
  <2> QED
    BY <1>1, Zenon DEF TrueFigures, TrueFiguresOf
<1>4. open = ripe
  BY Zenon
<1> HIDE DEF I, H
<1>5. Figures(I, HeightOf(b)) = [rewards |-> I.rewards, current |-> ValueOf(Unspent(Mined(b))),
                                 unlocked |-> ValueOf(open), spent |-> I.spent]
  BY <1>1, Zenon DEF Figures
<1>6. Figures(I, HeightOf(b)) = TrueFigures[b]
  <2> HIDE DEF ripe, open
  <2> QED
    BY <1>1, <1>3, <1>4, <1>5, Zenon
<1>7. ripe \in SUBSET Unspent(Mined(b)) /\ Unspent(Mined(b)) \in SUBSET Unspent(Mined(b))
  BY Zenon
<1>8. TrueFigures[b] \in FiguresType
  <2> HIDE DEF ripe
  <2> QED
    BY <1>2, <1>3, <1>7 DEF FiguresType
<1> QED
  BY <1>6, <1>8, Zenon DEF I

-----------------------------------------------------------------------------
(* The active chain while the tip changes.                                  *)

(* The branch that ends in t holds b.                                       *)
On(t, b) == HeightOf(b) <= HeightOf(t) /\ branch[t][HeightOf(b) + 1] = b

(* A proper ancestor has less work.                                         *)
LEMMA AncestorWork ==
  \A b \in Blocks : \A h \in Nat : h < HeightOf(b) => Work[branch[b][h + 1]] < Work[b]
<1> DEFINE Bad == {b \in Blocks : \E h \in Nat : h < HeightOf(b) /\ ~(Work[branch[b][h + 1]] < Work[b])}
<1> SUFFICES ASSUME Bad # {} PROVE FALSE
  BY Zenon
<1>1. PICK b \in Bad : \A c \in Bad : Work[b] <= Work[c]
  BY LeastWork, Zenon
<1>2. PICK h \in Nat : h < HeightOf(b) /\ ~(Work[branch[b][h + 1]] < Work[b])
  BY <1>1, Zenon
<1> DEFINE n == HeightOf(b)
           p == Parent[b]
<1>3. b \in Blocks /\ n \in Nat /\ n > 0 /\ branch[b][n + 1] = b
  BY <1>1, <1>2, BranchType
<1> HIDE DEF Bad
<1>4. b # Genesis /\ p = branch[b][n]
  BY <1>3, Ancestor
<1>5. p \in Blocks /\ Work[p] < Work[b] /\ Work[b] \in Nat /\ Work[p] \in Nat
  BY <1>3, <1>4, ParentWork, Zenon
<1>6. n - 1 \in 0..HeightOf(b) /\ (n - 1) + 1 = n
  BY <1>3
<1>7. HeightOf(p) = n - 1 /\ \A i \in 1..n : branch[p][i] = branch[b][i]
  BY <1>3, <1>4, <1>6, Ancestor
<1>8. p \notin Bad
  BY <1>1, <1>5
<1> USE DEF Bad
<1>9. h + 1 \in 1..n /\ (h = n - 1 \/ h < n - 1)
  BY <1>2, <1>3
<1>10. CASE h = n - 1
  BY <1>2, <1>4, <1>5, <1>6, <1>10, Zenon
<1>11. CASE h < n - 1
  <2>1. Work[branch[p][h + 1]] < Work[p]
    BY <1>5, <1>7, <1>8, <1>11, Zenon
  <2>2. branch[p][h + 1] = branch[b][h + 1]
    BY <1>7, <1>9, Zenon
  <2>3. branch[b][h + 1] \in Blocks
    BY <1>2, <1>3, Ancestor
  <2>4. Work[branch[b][h + 1]] \in Nat
    BY <2>3, CollectorAssumption, Zenon
  <2> QED
    BY <1>2, <1>5, <2>1, <2>2, <2>4
<1> QED
  BY <1>9, <1>10, <1>11, Zenon

(* A block is on its own branch.                                            *)
LEMMA OnItself == \A b \in Blocks : On(b, b)
BY BranchType DEF On

(* An extension of the chain keeps its blocks, and holds no other block     *)
(* with as little work as its old tip.                                      *)
LEMMA Extends ==
  ASSUME NEW t \in Blocks, NEW u \in Blocks, NEW b \in Blocks,
         \E i \in DOMAIN branch[u] : branch[u][i] = t
  PROVE  /\ On(t, b) => On(u, b)
         /\ On(u, b) /\ Work[b] <= Work[t] => On(t, b)
<1> DEFINE n == HeightOf(t)
           h == HeightOf(b)
           m == HeightOf(u)
<1>1. PICK i \in DOMAIN branch[u] : branch[u][i] = t
  BY Zenon
<1>2. n \in Nat /\ h \in Nat /\ m \in Nat /\ i \in 1..(m + 1)
  BY <1>1, BranchType, Zenon
<1>3. i - 1 \in 0..m /\ (i - 1) + 1 = i
  BY <1>2
<1>4. n = i - 1 /\ \A j \in 1..i : branch[t][j] = branch[u][j]
  BY <1>1, <1>3, Ancestor
<1>5. n <= m /\ \A j \in 1..(n + 1) : branch[t][j] = branch[u][j]
  BY <1>2, <1>3, <1>4
<1>6. branch[u][n + 1] = t
  BY <1>1, <1>3, <1>4, Zenon
<1>7. CASE h <= n
  <2>1. h + 1 \in 1..(n + 1) /\ h <= m
    BY <1>2, <1>5, <1>7
  <2>2. branch[t][h + 1] = branch[u][h + 1]
    BY <1>5, <2>1, Zenon
  <2> QED
    BY <1>7, <2>1, <2>2, Zenon DEF On
<1>8. CASE ~(h <= n)
  <2>1. ~On(t, b)
    BY <1>8, Zenon DEF On
  <2>2. ASSUME On(u, b), Work[b] <= Work[t] PROVE FALSE
    <3>1. h \in 0..m /\ branch[u][h + 1] = b
      BY <1>2, <2>2 DEF On
    <3>2. \A j \in 1..(h + 1) : branch[b][j] = branch[u][j]
      BY <3>1, Ancestor
    <3>3. n + 1 \in 1..(h + 1) /\ n < h
      BY <1>2, <1>8
    <3>4. branch[b][n + 1] = t
      BY <1>6, <3>2, <3>3, Zenon
    <3>5. Work[t] < Work[b]
      BY <1>2, <3>3, <3>4, AncestorWork, Zenon
    <3>6. Work[t] \in Nat /\ Work[b] \in Nat
      BY CollectorAssumption, Zenon
    <3> QED
      BY <2>2, <3>5, <3>6
  <2> QED
    BY <2>1, <2>2, Zenon
<1> QED
  BY <1>7, <1>8, Zenon

(* What getblockhash answers.                                               *)
LEMMA Answers ==
  ASSUME tip \in Blocks, NEW h \in Nat, Known(h)
  PROVE  /\ getblockhash(h) \in Blocks /\ HeightOf(getblockhash(h)) = h
         /\ On(tip, getblockhash(h))
         /\ \A i \in 1..(h + 1) : branch[getblockhash(h)][i] = branch[tip][i]
         /\ h > 0 => /\ getblockhash(h) # Genesis
                     /\ Parent[getblockhash(h)] = branch[tip][h]
<1>1. h \in 0..HeightOf(tip)
  BY BranchType DEF Known
<1> QED
  BY <1>1, Ancestor, Zenon DEF getblockhash, On, Known

-----------------------------------------------------------------------------
(* The inductive invariant.                                                 *)

(* Blocks listed from b down.                                               *)
Follows(blocks, b) == \A i \in DOMAIN blocks : blocks[i] = branch[b][HeightOf(b) + 2 - i]

(* A block whose figures may stand beside b at the closing test: b itself,  *)
(* unless the chain has left b.  Then, until it changes once more, it holds *)
(* the other block.                                                         *)
Beside(b, c) == c = b \/ reorgs >= 2 \/ (reorgs = 1 /\ On(tip, c))

(* The index is empty or that of a branch.                                  *)
IndexInv == index = reset \/ (index.hash \in Blocks \ {Genesis} /\ index = Holdings[index.hash])

(* The status under construction names a block that was the tip, and its    *)
(* figures, when there are any, are those of a block of its height.         *)
StatusInv ==
  /\ pc \in {"resume", "scan", "verify", "publish"} =>
       /\ status.hash \in Blocks /\ status.height = HeightOf(status.hash)
       /\ On(tip, status.hash) \/ reorgs >= 1
  /\ pc \in {"resume", "scan", "verify"} => status.treasury = None
  /\ pc = "publish" /\ status.treasury # None =>
       \E c \in Blocks : /\ HeightOf(c) = status.height /\ status.treasury = TrueFigures[c]
                         /\ Beside(status.hash, c)

(* The listing under construction follows the block it names, unless the    *)
(* chain has left that block; a block that was left has no more work than   *)
(* the tip, so that the chain is back on it only after another change.      *)
ListInv ==
  /\ pc \in {"list", "show"} => listing.hash \in Blocks /\ listing.height = HeightOf(listing.hash)
  /\ pc = "list" =>
       /\ Work[listing.hash] <= Work[tip] /\ Len(listing.blocks) <= listing.height + 1
       /\ On(tip, listing.hash) \/ reorgs >= 1
       /\ Follows(listing.blocks, listing.hash) \/ reorgs >= 2 \/ ~On(tip, listing.hash)
  /\ pc = "show" => listing.hash = explorer.tip
  /\ reorgs <= 1 /\ explorer.tip # None => Follows(explorer.blocks, explorer.tip)

(* What the collector has built, and what it has published.                 *)
Published == FiguresOfOneBranch /\ FiguresOfTip /\ ListingIsChain
IInv == TypeOK /\ IndexInv /\ StatusInv /\ ListInv /\ Published

(* The index part of the types follows from IndexInv.                       *)
LEMMA IndexTypes ==
  ASSUME IndexInv
  PROVE  /\ index.height \in Nat /\ index.hash \in Blocks \cup {None}
         /\ index.rewards \in Nat /\ index.spent \in Nat
         /\ index = reset <=> index.hash = None
         /\ index.hash \in Blocks => index.hash # Genesis /\ index.height = HeightOf(index.hash)
         /\ index = reset => index.height = 0
         /\ index # reset => index.height > 0
<1>1. Genesis \in Blocks /\ None \notin Blocks
  BY CollectorAssumption, Zenon
<1>2. CASE index = reset
  BY <1>1, <1>2, Zenon DEF reset
<1>3. CASE index # reset
  <2>1. index.hash \in Blocks \ {Genesis} /\ index = Holdings[index.hash]
    BY <1>3, Zenon DEF IndexInv
  <2>2. PICK b \in Blocks \ {Genesis} : b = index.hash
    BY <2>1, Zenon
  <2>3. index = Indexed(HeightOf(b), b, Mined(b))
    BY <2>1, <2>2, HoldingsForm, Zenon
  <2>4. HeightOf(b) \in Nat /\ HeightOf(b) > 0
    BY BranchType
  <2>5. index.height = HeightOf(b) /\ index.rewards \in Nat /\ index.spent \in Nat
    BY <2>3, IndexedType
  <2> QED
    BY <1>1, <1>3, <2>2, <2>4, <2>5, Zenon
<1> QED
  BY <1>2, <1>3, Zenon

(* The collector starts with nothing built or published.                    *)
LEMMA InitHolds == Init => IInv
<1> SUFFICES ASSUME Init PROVE IInv
  BY Zenon
<1>1. Genesis \in Blocks /\ None \notin Blocks /\ MaxReorgs \in Nat /\ MaxFaults \in Nat
  BY CollectorAssumption, Zenon
<1>2. IndexInv
  BY Zenon DEF Init, IndexInv
<1>3. TypeOK
  BY <1>1 DEF Init, TypeOK, reset, NoStatus, NoListing, StatusType, ListingType
<1>4. StatusInv /\ ListInv
  BY Zenon DEF Init, StatusInv, ListInv
<1>5. Published
  BY Zenon DEF Init, Published, FiguresOfOneBranch, FiguresOfTip, ListingIsChain
<1> QED
  BY <1>2, <1>3, <1>4, <1>5, Zenon DEF IInv

(* A step of the collector that leaves the chain, and what it has published,*)
(* alone.                                                                   *)
LEMMA PublishedKept ==
  ASSUME Published, UNCHANGED <<reorgs, snapshots>>
  PROVE  Published'
BY Zenon DEF Published, FiguresOfOneBranch, FiguresOfTip, ListingIsChain

(* The node adopts another tip.                                             *)
LEMMA NewTipKeeps == ASSUME IInv, NewTip PROVE IInv'
<1>0. TypeOK /\ IndexInv /\ StatusInv /\ ListInv /\ Published
  BY Zenon DEF IInv
<1>1. UNCHANGED <<pc, index, last, status, listing, explorer, snapshots, left>>
  BY Zenon DEF NewTip
<1>2. /\ tip \in Blocks /\ tip' \in Blocks /\ Work[tip'] > Work[tip]
      /\ reorgs \in Nat /\ reorgs' \in 0..MaxReorgs
      /\ \/ reorgs' = reorgs /\ \E i \in DOMAIN branch[tip'] : branch[tip'][i] = tip
         \/ reorgs' = reorgs + 1
  BY <1>0, CollectorAssumption DEF NewTip, TypeOK
<1>3. reorgs <= reorgs' /\ reorgs' \in Nat
  BY <1>2, CollectorAssumption
<1>4. \A b \in Blocks : \/ /\ reorgs' = reorgs
                           /\ On(tip, b) => On(tip', b)
                           /\ On(tip', b) /\ Work[b] <= Work[tip] => On(tip, b)
                        \/ reorgs' = reorgs + 1
  BY <1>2, Extends, Zenon
<1>5. TypeOK'
  BY <1>0, <1>1, <1>2, Zenon DEF TypeOK
<1>6. IndexInv'
  BY <1>0, <1>1, Zenon DEF IndexInv
<1>7. StatusInv'
  <2>1. ASSUME pc \in {"resume", "scan", "verify", "publish"}
        PROVE  /\ status.hash \in Blocks /\ status.height = HeightOf(status.hash)
               /\ On(tip', status.hash) \/ reorgs' >= 1
    BY <1>0, <1>2, <1>4, <2>1 DEF StatusInv
  <2>2. ASSUME pc = "publish", status.treasury # None
        PROVE  \E c \in Blocks : /\ HeightOf(c) = status.height /\ status.treasury = TrueFigures[c]
                                 /\ c = status.hash \/ reorgs' >= 2 \/ (reorgs' = 1 /\ On(tip', c))
    <3>1. PICK c \in Blocks : /\ HeightOf(c) = status.height /\ status.treasury = TrueFigures[c]
                              /\ c = status.hash \/ reorgs >= 2 \/ (reorgs = 1 /\ On(tip, c))
      BY <1>0, <2>2, Zenon DEF StatusInv, Beside
    <3>2. c = status.hash \/ reorgs' >= 2 \/ (reorgs' = 1 /\ On(tip', c))
      BY <1>2, <1>3, <1>4, <3>1
    <3> QED
      BY <3>1, <3>2, Zenon
  <2>3. pc \in {"resume", "scan", "verify"} => status.treasury = None
    BY <1>0, Zenon DEF StatusInv
  <2> QED
    BY <1>1, <2>1, <2>2, <2>3, Zenon DEF StatusInv, Beside
<1>8. ListInv'
  <2>1. ASSUME pc = "list"
        PROVE  /\ Work[listing.hash] <= Work[tip'] /\ Len(listing.blocks) <= listing.height + 1
               /\ On(tip', listing.hash) \/ reorgs' >= 1
               /\ Follows(listing.blocks, listing.hash) \/ reorgs' >= 2 \/ ~On(tip', listing.hash)
    <3>1. /\ listing.hash \in Blocks
          /\ Work[listing.hash] <= Work[tip] /\ Len(listing.blocks) <= listing.height + 1
          /\ On(tip, listing.hash) \/ reorgs >= 1
          /\ Follows(listing.blocks, listing.hash) \/ reorgs >= 2 \/ ~On(tip, listing.hash)
      BY <1>0, <2>1, Zenon DEF ListInv
    <3>2. Work[listing.hash] \in Nat /\ Work[tip] \in Nat /\ Work[tip'] \in Nat
      BY <1>2, <3>1, CollectorAssumption, Zenon
    <3>3. Work[listing.hash] <= Work[tip']
      BY <1>2, <3>1, <3>2
    <3> QED
      BY <1>2, <1>3, <1>4, <3>1, <3>3
  <2>2. /\ pc \in {"list", "show"} => listing.hash \in Blocks /\ listing.height = HeightOf(listing.hash)
        /\ pc = "show" => listing.hash = explorer.tip
        /\ reorgs' <= 1 /\ explorer.tip # None => Follows(explorer.blocks, explorer.tip)
    BY <1>0, <1>2, <1>3 DEF ListInv
  <2> QED
    BY <1>1, <2>1, <2>2, Zenon DEF ListInv
<1>9. Published'
  BY <1>0, <1>1, <1>2, <1>3 DEF Published, FiguresOfOneBranch, FiguresOfTip, ListingIsChain
<1> QED
  BY <1>5, <1>6, <1>7, <1>8, <1>9, Zenon DEF IInv

(* A new status names the tip.                                              *)
LEMMA BuildStatusKeeps == ASSUME IInv, BuildStatus PROVE IInv'
<1>0. TypeOK /\ IndexInv /\ StatusInv /\ ListInv /\ Published /\ tip \in Blocks
  BY Zenon DEF IInv, TypeOK
<1>1. On(tip, tip) /\ HeightOf(tip) \in Nat
  BY <1>0, OnItself, BranchType, Zenon
<1>2. TypeOK'
  BY <1>0, <1>1, Zenon DEF TypeOK, BuildStatus, Node, StatusType
<1>3. IndexInv'
  BY <1>0, Zenon DEF IndexInv, BuildStatus
<1>4. StatusInv'
  BY <1>0, <1>1, Zenon DEF StatusInv, BuildStatus, Node
<1>5. ListInv'
  BY <1>0, Zenon DEF ListInv, BuildStatus, Node
<1>6. Published'
  BY <1>0, PublishedKept, Zenon DEF BuildStatus, Node
<1> QED
  BY <1>2, <1>3, <1>4, <1>5, <1>6, Zenon DEF IInv

(* The index is kept or emptied.                                            *)
LEMMA ResumeKeeps == ASSUME IInv, Resume PROVE IInv'
<1>0. TypeOK /\ IndexInv /\ StatusInv /\ ListInv /\ Published
  BY Zenon DEF IInv
<1>1. index' = reset \/ index' = index
  BY Zenon DEF Resume
<1>2. IndexInv'
  BY <1>0, <1>1, Zenon DEF IndexInv
<1>3. index'.height \in Nat /\ reset.height \in Nat
  BY <1>0, <1>1 DEF TypeOK, reset
<1>4. last' \in Nat
  <2>1. status.height \in Nat /\ Batch \in Nat
    BY <1>0, CollectorAssumption, Zenon DEF TypeOK, StatusType
  <2>2. last' = MinOf(status.height, index'.height + Batch)
    BY Zenon DEF Resume
  <2>3. \A i, j, k \in Nat : MinOf(i, j + k) \in Nat
    BY DEF MinOf
  <2> QED
    BY <1>3, <2>1, <2>2, <2>3, Zenon
<1>5. TypeOK'
  BY <1>0, <1>1, <1>4, Zenon DEF TypeOK, Resume, Node, reset
<1>6. StatusInv'
  BY <1>0, Zenon DEF StatusInv, Beside, Resume, Node
<1>7. ListInv'
  BY <1>0, Zenon DEF ListInv, Resume, Node
<1>8. Published'
  BY <1>0, PublishedKept, Zenon DEF Resume, Node
<1> QED
  BY <1>2, <1>5, <1>6, <1>7, <1>8, Zenon DEF IInv

(* A scanned block continues the indexed branch, or the index is emptied.   *)
LEMMA ScanKeeps == ASSUME IInv, Scan PROVE IInv'
<1>0. TypeOK /\ IndexInv /\ StatusInv /\ ListInv /\ Published /\ tip \in Blocks
  BY Zenon DEF IInv, TypeOK
<1> DEFINE h == index.height + 1
           b == getblockhash(h)
<1>1. /\ pc = "scan" /\ Known(h)
      /\ \/ index' = reset /\ pc' = "publish"
         \/ /\ ~(index.hash # None /\ Parent[b] # index.hash)
            /\ index' = ApplyBlock(index, b, h) /\ pc' \in {"scan", "verify"}
      /\ UNCHANGED <<tip, reorgs, last, status, listing, explorer, snapshots, left>>
  BY Zenon DEF Scan, Node
<1>2. h \in Nat /\ h > 0 /\ index.height \in Nat
  BY <1>0 DEF TypeOK
<1>3. b \in Blocks \ {Genesis} /\ HeightOf(b) = h /\ Parent[b] = branch[tip][h]
  BY <1>0, <1>1, <1>2, Answers, Zenon
<1> HIDE DEF b
<1>4. IndexInv'
  <2>1. CASE index' = reset
    BY <2>1, Zenon DEF IndexInv
  <2>2. CASE ~(index.hash # None /\ Parent[b] # index.hash) /\ index' = ApplyBlock(index, b, h)
    <3>1. index' = Holdings[b]
      <4>1. CASE index = reset
        <5>1. h = 1
          BY <1>2, <4>1 DEF reset
        <5>2. Parent[b] = Genesis
          BY <1>0, <1>3, <5>1, BranchType, Zenon
        <5>3. index = Indexed(0, None, Mined(Parent[b]))
          BY <4>1, <5>2, HoldingsForm, Zenon
        <5> QED
          BY <1>3, <2>2, <5>3, IndexStep, Zenon
      <4>2. CASE index # reset
        <5>1. index.hash \in Blocks /\ index = Holdings[index.hash] /\ index.hash # None
          BY <1>0, <4>2, CollectorAssumption, Zenon DEF IndexInv
        <5>2. Parent[b] = index.hash
          BY <2>2, <5>1, Zenon
        <5>3. index = Indexed(HeightOf(Parent[b]), Parent[b], Mined(Parent[b]))
          BY <5>1, <5>2, HoldingsForm, Zenon
        <5> QED
          BY <1>3, <2>2, <5>3, IndexStep, Zenon
      <4> QED
        BY <4>1, <4>2, Zenon
    <3>2. Holdings[b].hash = b
      BY <1>3, HoldingsForm, IndexedType
    <3> QED
      BY <1>3, <3>1, <3>2, Zenon DEF IndexInv
  <2> QED
    BY <1>1, <2>1, <2>2, Zenon
<1>5. /\ index'.height \in Nat /\ index'.hash \in Blocks \cup {None}
      /\ index'.rewards \in Nat /\ index'.spent \in Nat
  <2>1. index' = reset \/ (index'.hash \in Blocks \ {Genesis} /\ index' = Holdings[index'.hash])
    BY <1>4, Zenon DEF IndexInv
  <2>2. CASE index' = reset
    BY <2>2, Zenon DEF reset
  <2>3. CASE index'.hash \in Blocks \ {Genesis} /\ index' = Holdings[index'.hash]
    <3>1. PICK c \in Blocks : c = index'.hash
      BY <2>3, Zenon
    <3>2. index' = Indexed(HeightOf(c), c, Mined(c)) /\ HeightOf(c) \in Nat
      BY <2>3, <3>1, HoldingsForm, BranchType, Zenon
    <3> QED
      BY <3>1, <3>2, IndexedType
  <2> QED
    BY <2>1, <2>2, <2>3, Zenon
<1>6. TypeOK'
  BY <1>0, <1>1, <1>5, Zenon DEF TypeOK
<1>7. StatusInv'
  BY <1>0, <1>1, Zenon DEF StatusInv
<1>8. ListInv'
  BY <1>0, <1>1, Zenon DEF ListInv
<1>9. Published'
  BY <1>0, <1>1, PublishedKept, Zenon
<1> QED
  BY <1>4, <1>6, <1>7, <1>8, <1>9, Zenon DEF IInv

(* The end of the range.                                                    *)
LEMMA ScanDoneKeeps == ASSUME IInv, ScanDone PROVE IInv'
<1>0. TypeOK /\ IndexInv /\ StatusInv /\ ListInv /\ Published
  BY Zenon DEF IInv
<1>1. TypeOK'
  BY <1>0, Zenon DEF TypeOK, ScanDone, Node
<1>2. IndexInv'
  BY <1>0, Zenon DEF IndexInv, ScanDone
<1>3. StatusInv'
  BY <1>0, Zenon DEF StatusInv, ScanDone, Node
<1>4. ListInv'
  BY <1>0, Zenon DEF ListInv, ScanDone, Node
<1>5. Published'
  BY <1>0, PublishedKept, Zenon DEF ScanDone, Node
<1> QED
  BY <1>1, <1>2, <1>3, <1>4, <1>5, Zenon DEF IInv

(* The figures are those of the block that the chain holds at the status    *)
(* height, which is the status block unless the chain has left it.          *)
LEMMA VerifyKeeps == ASSUME IInv, Verify PROVE IInv'
<1>0. TypeOK /\ IndexInv /\ StatusInv /\ ListInv /\ Published /\ tip \in Blocks /\ reorgs \in Nat
  BY CollectorAssumption DEF IInv, TypeOK
<1> DEFINE n == status.height
           figures == Figures(index, n)
<1>1. /\ pc = "verify" /\ pc' = "publish"
      /\ UNCHANGED <<tip, reorgs, last, listing, explorer, snapshots, left>>
      /\ index' = reset \/ index' = index
      /\ \/ status' = status
         \/ /\ status' = [status EXCEPT !.treasury = figures] /\ index.height = n
            /\ n = 0 \/ (n > 0 /\ Known(n) /\ getblockhash(n) = index.hash)
  <2>1. status.height \in Nat
    BY <1>0, Zenon DEF TypeOK, StatusType
  <2>2. n = 0 \/ n > 0
    BY <2>1
  <2>3. /\ pc = "verify" /\ pc' = "publish"
        /\ UNCHANGED <<tip, reorgs, last, listing, explorer, snapshots, left>>
    BY Zenon DEF Verify, Node
  <2>4. index' = reset \/ index' = index
    BY Zenon DEF Verify
  <2>5. ASSUME status' # status
        PROVE  /\ status' = [status EXCEPT !.treasury = figures] /\ index.height = n
               /\ n = 0 \/ (n > 0 /\ Known(n) /\ getblockhash(n) = index.hash)
    <3>1. /\ index.height # n \/ n = 0 \/ Known(n)
          /\ index.height = n /\ ~(index.height = n /\ n > 0 /\ getblockhash(n) # index.hash)
          /\ status' = [status EXCEPT !.treasury = figures]
      BY <2>5, Zenon DEF Verify
    <3> HIDE DEF n, figures
    <3> QED
      BY <2>2, <3>1, Zenon
  <2> HIDE DEF figures
  <2> QED
    BY <2>3, <2>4, <2>5, Zenon
<1>2. /\ status.hash \in Blocks /\ n = HeightOf(status.hash) /\ n \in Nat
      /\ On(tip, status.hash) \/ reorgs >= 1
      /\ status.treasury = None /\ status \in StatusType
  BY <1>0, <1>1, BranchType, Zenon DEF StatusInv, TypeOK
<1>3. ASSUME status' = [status EXCEPT !.treasury = figures], index.height = n,
             n = 0 \/ (n > 0 /\ Known(n) /\ getblockhash(n) = index.hash)
      PROVE  \E c \in Blocks : /\ HeightOf(c) = n /\ figures = TrueFigures[c]
                               /\ Beside(status.hash, c) /\ figures \in FiguresType
  <2>1. CASE n = 0
    <3>1. index = reset
      BY <1>0, <1>3, <2>1, IndexTypes
    <3>2. index = Indexed(0, None, Mined(Genesis))
      BY <3>1, HoldingsForm, Zenon
    <3>3. Genesis \in Blocks /\ HeightOf(Genesis) = 0 /\ status.hash = Genesis
      BY <1>2, <2>1, BranchType, CollectorAssumption, Zenon
    <3>4. Figures(index, HeightOf(Genesis)) = TrueFigures[Genesis] /\ TrueFigures[Genesis] \in FiguresType
      BY <3>2, <3>3, FiguresTrue, Zenon
    <3> QED
      BY <2>1, <3>3, <3>4, Zenon DEF Beside
  <2>2. CASE n > 0 /\ Known(n) /\ getblockhash(n) = index.hash
    <3> DEFINE c == index.hash
    <3>1. c \in Blocks /\ HeightOf(c) = n /\ On(tip, c)
      BY <1>0, <1>2, <2>2, Answers, Zenon
    <3>2. index = Holdings[c]
      BY <1>0, <1>2, <1>3, <2>2, IndexTypes DEF IndexInv
    <3> HIDE DEF c
    <3>3. index = Indexed(HeightOf(c), c, Mined(c))
      BY <3>1, <3>2, HoldingsForm, Zenon
    <3>4. Figures(index, HeightOf(c)) = TrueFigures[c] /\ TrueFigures[c] \in FiguresType
      BY <3>1, <3>3, FiguresTrue, Zenon
    <3>5. On(tip, status.hash) => c = status.hash
      BY <1>2, <3>1, Zenon DEF On
    <3>6. Beside(status.hash, c)
      BY <1>0, <1>2, <3>1, <3>5 DEF Beside
    <3> QED
      BY <3>1, <3>4, <3>6, Zenon
  <2> QED
    BY <1>3, <2>1, <2>2, Zenon
<1> HIDE DEF figures
<1>4. status' \in StatusType /\ status'.hash = status.hash /\ status'.height = status.height
  <2>1. CASE status' = status
    BY <1>2, <2>1, Zenon
  <2>2. CASE status' # status
    <3>1. figures \in FiguresType /\ status' = [status EXCEPT !.treasury = figures]
      BY <1>1, <1>3, <2>2, Zenon
    <3> QED
      BY <1>2, <3>1, Zenon DEF StatusType
  <2> QED
    BY <2>1, <2>2, Zenon
<1>5. TypeOK'
  BY <1>0, <1>1, <1>4 DEF TypeOK, reset
<1>6. IndexInv'
  BY <1>0, <1>1, Zenon DEF IndexInv
<1>7. StatusInv'
  <2>1. ASSUME status'.treasury # None
        PROVE  \E c \in Blocks : /\ HeightOf(c) = n /\ status'.treasury = TrueFigures[c]
                                 /\ Beside(status.hash, c)
    <3>1. status' # status
      BY <1>2, <2>1, Zenon
    <3>2. status'.treasury = figures
      BY <1>1, <1>2, <3>1, Zenon DEF StatusType
    <3> QED
      BY <1>1, <1>3, <3>1, <3>2, Zenon
  <2>2. \A c : Beside(status.hash, c) => Beside(status.hash, c)'
    BY <1>1, <1>4, Zenon DEF Beside
  <2> QED
    BY <1>1, <1>2, <1>4, <2>1, <2>2, Zenon DEF StatusInv, Beside
<1>8. ListInv'
  BY <1>0, <1>1, Zenon DEF ListInv
<1>9. Published'
  BY <1>0, <1>1, PublishedKept, Zenon
<1> QED
  BY <1>5, <1>6, <1>7, <1>8, <1>9, Zenon DEF IInv

(* A published status passed the closing test.                              *)
LEMMA PublishKeeps == ASSUME IInv, Publish PROVE IInv'
<1>0. /\ TypeOK /\ IndexInv /\ StatusInv /\ ListInv /\ Published /\ reorgs \in Nat
      /\ FiguresOfOneBranch /\ FiguresOfTip /\ ListingIsChain
      /\ snapshots \in [status : StatusType \cup {None}, explorer : ListingType \cup {None}]
      /\ status \in StatusType
  BY CollectorAssumption DEF IInv, TypeOK, Published
<1>1. /\ pc = "publish" /\ pc' = "explorer" /\ Known(status.height)
      /\ \/ snapshots' = snapshots
         \/ /\ getblockhash(status.height) = status.hash
            /\ snapshots' = [snapshots EXCEPT !.status = status]
      /\ UNCHANGED <<tip, reorgs, index, last, status, listing, explorer, left>>
  BY Zenon DEF Publish, Node
<1>2. status.hash \in Blocks /\ status.height = HeightOf(status.hash)
  BY <1>0, <1>1, Zenon DEF StatusInv
<1>3. /\ snapshots' \in [status : StatusType \cup {None}, explorer : ListingType \cup {None}]
      /\ snapshots'.explorer = snapshots.explorer
      /\ snapshots' = snapshots \/ snapshots'.status = status
  BY <1>0, <1>1, Zenon
<1>4. TypeOK'
  BY <1>0, <1>1, <1>3, Zenon DEF TypeOK
<1>5. IndexInv' /\ StatusInv' /\ ListInv'
  BY <1>0, <1>1, Zenon DEF IndexInv, StatusInv, ListInv
<1>6. ListingIsChain'
  BY <1>0, <1>1, <1>3, Zenon DEF ListingIsChain
<1>7. FiguresOfOneBranch' /\ FiguresOfTip'
  <2>1. CASE snapshots' = snapshots
    BY <1>0, <1>1, <2>1, Zenon DEF FiguresOfOneBranch, FiguresOfTip
  <2>2. CASE snapshots' # snapshots
    <3>1. snapshots'.status = status /\ getblockhash(status.height) = status.hash
      BY <1>1, <1>3, <2>2, Zenon
    <3>2. CASE status.treasury = None
      BY <3>1, <3>2, Zenon DEF FiguresOfOneBranch, FiguresOfTip
    <3>3. CASE status.treasury # None
      <4>1. PICK c \in Blocks : /\ HeightOf(c) = status.height /\ status.treasury = TrueFigures[c]
                                /\ Beside(status.hash, c)
        BY <1>0, <1>1, <3>3, Zenon DEF StatusInv
      <4>2. On(tip, c) => c = status.hash
        BY <3>1, <4>1, Zenon DEF On, getblockhash
      <4>3. reorgs <= 1 => c = status.hash
        BY <1>0, <4>1, <4>2 DEF Beside
      <4>4. FiguresOfOneBranch'
        BY <3>1, <4>1, Zenon DEF FiguresOfOneBranch
      <4>5. FiguresOfTip'
        BY <1>1, <3>1, <4>1, <4>3, Zenon DEF FiguresOfTip
      <4> QED
        BY <4>4, <4>5, Zenon
    <3> QED
      BY <3>2, <3>3, Zenon
  <2> QED
    BY <2>1, <2>2, Zenon
<1> QED
  BY <1>4, <1>5, <1>6, <1>7, Zenon DEF IInv, Published

(* A new listing names the tip.                                             *)
LEMMA BuildExplorerKeeps == ASSUME IInv, BuildExplorer PROVE IInv'
<1>0. TypeOK /\ IndexInv /\ StatusInv /\ ListInv /\ Published /\ tip \in Blocks
  BY Zenon DEF IInv, TypeOK
<1>1. On(tip, tip) /\ HeightOf(tip) \in Nat /\ Work[tip] \in Nat
  BY <1>0, OnItself, BranchType, CollectorAssumption, Zenon
<1>2. TypeOK'
  BY <1>0, <1>1 DEF TypeOK, BuildExplorer, Node, ListingType
<1>3. IndexInv'
  BY <1>0, Zenon DEF IndexInv, BuildExplorer
<1>4. StatusInv'
  BY <1>0, Zenon DEF StatusInv, BuildExplorer, Node
<1>5. ListInv'
  <2>1. Follows(<<>>, tip)
    BY DEF Follows
  <2>2. /\ listing' = [height |-> HeightOf(tip), hash |-> tip, blocks |-> <<>>]
        /\ pc' = IF tip = explorer.tip THEN "show" ELSE "list"
        /\ UNCHANGED <<tip, reorgs, explorer>>
    BY Zenon DEF BuildExplorer, Node
  <2>3. /\ listing'.height = HeightOf(tip) /\ listing'.hash = tip /\ listing'.blocks = <<>>
        /\ Len(listing'.blocks) <= listing'.height + 1
    BY <1>1, <2>2
  <2>4. Work[tip] <= Work[tip]
    BY <1>1
  <2>5. reorgs <= 1 /\ explorer.tip # None => Follows(explorer.blocks, explorer.tip)
    BY <1>0, Zenon DEF ListInv
  <2> QED
    BY <1>0, <1>1, <2>1, <2>2, <2>3, <2>4, <2>5, Zenon DEF ListInv
<1>6. Published'
  BY <1>0, PublishedKept, Zenon DEF BuildExplorer, Node
<1> QED
  BY <1>2, <1>3, <1>4, <1>5, <1>6, Zenon DEF IInv

(* The next block listed is the next ancestor, while the chain holds the    *)
(* block the listing names.                                                 *)
LEMMA ListBlockKeeps == ASSUME IInv, ListBlock PROVE IInv'
<1>0. TypeOK /\ IndexInv /\ StatusInv /\ ListInv /\ Published /\ tip \in Blocks /\ reorgs \in Nat
  BY CollectorAssumption DEF IInv, TypeOK
<1> DEFINE n == Len(listing.blocks)
           h == listing.height - n
           b == getblockhash(h)
<1>1. /\ pc = "list" /\ n <= MinOf(Window, listing.height) /\ Known(h)
      /\ listing' = [listing EXCEPT !.blocks = Append(@, b)]
      /\ UNCHANGED <<tip, reorgs, pc, index, last, status, explorer, snapshots, left>>
  BY Zenon DEF ListBlock, Node
<1>2. /\ listing \in ListingType /\ listing.height \in Nat
      /\ listing.blocks \in Seq(Blocks) /\ n \in Nat
  BY <1>0 DEF TypeOK, ListingType
<1>3. n <= listing.height
  <2>1. \A i, j, k \in Nat : k <= MinOf(i, j) => k <= j
    BY DEF MinOf
  <2> QED
    BY <1>1, <1>2, <2>1, CollectorAssumption, Zenon
<1>4. h \in Nat /\ h <= listing.height
  BY <1>2, <1>3
<1>5. b \in Blocks /\ b = branch[tip][h + 1]
  BY <1>0, <1>1, <1>4, Answers, Zenon DEF getblockhash
<1> HIDE DEF b
<1>6. /\ listing' \in ListingType /\ listing'.hash = listing.hash
      /\ listing'.height = listing.height /\ listing'.blocks = Append(listing.blocks, b)
  <2> DEFINE s == Append(listing.blocks, b)
  <2>1. s \in Seq(Blocks)
    BY <1>2, <1>5
  <2>2. listing' = [listing EXCEPT !.blocks = s]
    BY <1>1, Zenon
  <2> HIDE DEF s
  <2>3. /\ listing' \in ListingType /\ listing'.hash = listing.hash
        /\ listing'.height = listing.height /\ listing'.blocks = s
    BY <1>2, <2>1, <2>2, Zenon DEF ListingType
  <2> QED
    BY <2>3, Zenon DEF s
<1>7. /\ Len(listing'.blocks) = n + 1 /\ DOMAIN listing'.blocks = 1..(n + 1)
      /\ listing'.blocks[n + 1] = b /\ \A i \in 1..n : listing'.blocks[i] = listing.blocks[i]
      /\ DOMAIN listing.blocks = 1..n
  BY <1>2, <1>5, <1>6
<1>8. /\ listing.hash \in Blocks /\ listing.height = HeightOf(listing.hash)
      /\ Work[listing.hash] <= Work[tip]
      /\ On(tip, listing.hash) \/ reorgs >= 1
      /\ Follows(listing.blocks, listing.hash) \/ reorgs >= 2 \/ ~On(tip, listing.hash)
  BY <1>0, <1>1, Zenon DEF ListInv
<1>9. Follows(listing'.blocks, listing.hash) \/ reorgs >= 2 \/ ~On(tip, listing.hash)
  <2> SUFFICES ASSUME On(tip, listing.hash), Follows(listing.blocks, listing.hash)
               PROVE  Follows(listing'.blocks, listing.hash)
    BY <1>8, Zenon
  <2>1. listing.height \in 0..HeightOf(tip) /\ branch[tip][listing.height + 1] = listing.hash
    BY <1>0, <1>2, <1>8, BranchType DEF On
  <2>2. \A i \in 1..(listing.height + 1) : branch[listing.hash][i] = branch[tip][i]
    BY <1>0, <2>1, Ancestor
  <2>3. h + 1 \in 1..(listing.height + 1) /\ listing.height + 2 - (n + 1) = h + 1
    BY <1>2, <1>4
  <2>4. listing'.blocks[n + 1] = branch[listing.hash][listing.height + 2 - (n + 1)]
    BY <1>5, <1>7, <2>2, <2>3, Zenon
  <2>5. \A i \in 1..n : listing'.blocks[i] = branch[listing.hash][listing.height + 2 - i]
    BY <1>7, <1>8, Zenon DEF Follows
  <2>6. \A i \in 1..(n + 1) : i \in 1..n \/ i = n + 1
    BY <1>2
  <2> QED
    BY <1>7, <1>8, <2>4, <2>5, <2>6, Zenon DEF Follows
<1>10. Len(listing'.blocks) <= listing.height + 1
  BY <1>2, <1>3, <1>7
<1>11. TypeOK'
  BY <1>0, <1>1, <1>6, Zenon DEF TypeOK
<1>12. IndexInv' /\ StatusInv'
  BY <1>0, <1>1, Zenon DEF IndexInv, StatusInv
<1>13. ListInv'
  <2>1. reorgs <= 1 /\ explorer.tip # None => Follows(explorer.blocks, explorer.tip)
    BY <1>0, Zenon DEF ListInv
  <2> QED
    BY <1>1, <1>6, <1>8, <1>9, <1>10, <2>1, Zenon DEF ListInv
<1>14. Published'
  BY <1>0, <1>1, PublishedKept, Zenon
<1> QED
  BY <1>11, <1>12, <1>13, <1>14, Zenon DEF IInv

(* A listing that is kept passed the closing test.                          *)
LEMMA ListedKeeps == ASSUME IInv, Listed PROVE IInv'
<1>0. TypeOK /\ IndexInv /\ StatusInv /\ ListInv /\ Published /\ reorgs \in Nat
  BY CollectorAssumption DEF IInv, TypeOK
<1>1. /\ pc = "list" /\ Known(listing.height)
      /\ \/ /\ getblockhash(listing.height) = listing.hash
            /\ explorer' = [tip |-> listing.hash, blocks |-> listing.blocks] /\ pc' = "show"
         \/ UNCHANGED explorer /\ pc' = "status"
      /\ UNCHANGED <<tip, reorgs, index, last, status, listing, snapshots, left>>
  BY Zenon DEF Listed, Node
<1>2. /\ listing.hash \in Blocks /\ listing.height = HeightOf(listing.hash)
      /\ Follows(listing.blocks, listing.hash) \/ reorgs >= 2 \/ ~On(tip, listing.hash)
      /\ reorgs <= 1 /\ explorer.tip # None => Follows(explorer.blocks, explorer.tip)
  BY <1>0, <1>1, Zenon DEF ListInv
<1>3. getblockhash(listing.height) = listing.hash => On(tip, listing.hash)
  BY <1>1, <1>2, Zenon DEF getblockhash, Known, On
<1>4. reorgs <= 1 /\ explorer'.tip # None => Follows(explorer'.blocks, explorer'.tip)
  BY <1>0, <1>1, <1>2, <1>3
<1>5. TypeOK'
  <2>1. /\ explorer \in [tip : Blocks \cup {None}, blocks : Seq(Blocks)]
        /\ listing.blocks \in Seq(Blocks)
    BY <1>0, Zenon DEF TypeOK, ListingType
  <2>2. explorer' \in [tip : Blocks \cup {None}, blocks : Seq(Blocks)]
    BY <1>1, <1>2, <2>1
  <2> QED
    BY <1>0, <1>1, <2>2, Zenon DEF TypeOK
<1>6. IndexInv' /\ StatusInv'
  BY <1>0, <1>1, Zenon DEF IndexInv, StatusInv
<1>7. ListInv'
  <2>1. pc' = "show" => listing.hash = explorer'.tip
    BY <1>1
  <2>2. pc' # "list" /\ pc' \in {"show", "status"}
    BY <1>1, Zenon
  <2> QED
    BY <1>1, <1>2, <1>4, <2>1, <2>2, Zenon DEF ListInv
<1>8. Published'
  BY <1>0, <1>1, PublishedKept, Zenon
<1> QED
  BY <1>5, <1>6, <1>7, <1>8, Zenon DEF IInv

(* The kept listing is published with the height and hash it was built for. *)
LEMMA ShowKeeps == ASSUME IInv, Show PROVE IInv'
<1>0. /\ TypeOK /\ IndexInv /\ StatusInv /\ ListInv /\ Published
      /\ FiguresOfOneBranch /\ FiguresOfTip
      /\ snapshots \in [status : StatusType \cup {None}, explorer : ListingType \cup {None}]
      /\ listing \in ListingType /\ explorer \in [tip : Blocks \cup {None}, blocks : Seq(Blocks)]
  BY Zenon DEF IInv, TypeOK, Published
<1> DEFINE x == [height |-> listing.height, hash |-> listing.hash, blocks |-> explorer.blocks]
<1>1. /\ pc = "show" /\ pc' = "status" /\ snapshots' = [snapshots EXCEPT !.explorer = x]
      /\ UNCHANGED <<tip, reorgs, index, last, status, listing, explorer, left>>
  BY Zenon DEF Show, Node
<1>2. x \in ListingType
  BY <1>0, Zenon DEF ListingType
<1>3. /\ x.height = listing.height /\ x.hash = listing.hash /\ x.blocks = explorer.blocks
  BY Zenon
<1> HIDE DEF x
<1>4. /\ snapshots' \in [status : StatusType \cup {None}, explorer : ListingType \cup {None}]
      /\ snapshots'.status = snapshots.status /\ snapshots'.explorer = x
  BY <1>0, <1>1, <1>2, Zenon
<1>5. /\ listing.hash \in Blocks /\ listing.height = HeightOf(listing.hash)
      /\ listing.hash = explorer.tip
      /\ reorgs <= 1 /\ explorer.tip # None => Follows(explorer.blocks, explorer.tip)
  BY <1>0, <1>1, Zenon DEF ListInv
<1>6. reorgs <= 1 => Follows(x.blocks, x.hash)
  BY <1>3, <1>5, CollectorAssumption, Zenon
<1>7. ListingIsChain'
  BY <1>1, <1>3, <1>4, <1>5, <1>6 DEF ListingIsChain, Follows
<1>8. FiguresOfOneBranch' /\ FiguresOfTip'
  BY <1>0, <1>1, <1>4, Zenon DEF FiguresOfOneBranch, FiguresOfTip
<1>9. TypeOK'
  BY <1>0, <1>1, <1>4, Zenon DEF TypeOK
<1>10. IndexInv' /\ StatusInv' /\ ListInv'
  BY <1>0, <1>1, Zenon DEF IndexInv, StatusInv, ListInv
<1> QED
  BY <1>7, <1>8, <1>9, <1>10, Zenon DEF IInv, Published

(* A failed call gives the payload up.                                      *)
LEMMA RaiseKeeps == ASSUME IInv, Raise PROVE IInv'
<1>0. TypeOK /\ IndexInv /\ StatusInv /\ ListInv /\ Published
  BY Zenon DEF IInv
<1>1. /\ pc' \in {"status", "explorer"}
      /\ index' = reset \/ index' = index
      /\ left' = left \/ (left > 0 /\ left' = left - 1)
      /\ UNCHANGED <<tip, reorgs, last, status, listing, explorer, snapshots>>
  BY Zenon DEF Raise, Node
<1>2. left' \in 0..MaxFaults
  BY <1>0, <1>1, CollectorAssumption DEF TypeOK
<1>3. TypeOK'
  BY <1>0, <1>1, <1>2 DEF TypeOK, reset
<1>4. IndexInv' /\ StatusInv' /\ ListInv'
  BY <1>0, <1>1, Zenon DEF IndexInv, StatusInv, ListInv
<1>5. Published'
  BY <1>0, <1>1, PublishedKept, Zenon
<1> QED
  BY <1>3, <1>4, <1>5, Zenon DEF IInv

(* A restart leaves nothing.                                                *)
LEMMA RestartKeeps == ASSUME IInv, Restart PROVE IInv'
<1>0. TypeOK
  BY Zenon DEF IInv
<1>1. /\ pc' = "status" /\ index' = reset /\ last' = 0
      /\ status' = NoStatus /\ listing' = NoListing
      /\ explorer' = [tip |-> None, blocks |-> <<>>]
      /\ snapshots' = [status |-> None, explorer |-> None]
      /\ UNCHANGED <<tip, reorgs>>
  BY Zenon DEF Restart, Node
<1>2. left' \in 0..MaxFaults
  BY <1>0, CollectorAssumption DEF TypeOK, Restart
<1>3. TypeOK'
  <2>1. status' \in StatusType /\ listing' \in ListingType
    BY <1>1 DEF NoStatus, NoListing, StatusType, ListingType
  <2>2. /\ explorer' \in [tip : Blocks \cup {None}, blocks : Seq(Blocks)]
        /\ snapshots' \in [status : StatusType \cup {None}, explorer : ListingType \cup {None}]
    BY <1>1
  <2>3. /\ index'.height \in Nat /\ index'.hash \in Blocks \cup {None}
        /\ index'.rewards \in Nat /\ index'.spent \in Nat /\ last' \in Nat
    BY <1>1, Zenon DEF reset
  <2> QED
    BY <1>0, <1>1, <1>2, <2>1, <2>2, <2>3, Zenon DEF TypeOK
<1>4. IndexInv' /\ StatusInv' /\ ListInv'
  BY <1>1, Zenon DEF IndexInv, StatusInv, ListInv
<1>5. Published'
  BY <1>1, Zenon DEF Published, FiguresOfOneBranch, FiguresOfTip, ListingIsChain
<1> QED
  BY <1>3, <1>4, <1>5, Zenon DEF IInv

-----------------------------------------------------------------------------
(* The invariant holds in every reachable state: the collector starts with  *)
(* nothing, and every step of the node, the collector and its failures      *)
(* keeps the index, the payloads under construction and the snapshots in    *)
(* line with the branches they name.                                        *)
THEOREM Invariant == Spec => []IInv
<1>1. IInv /\ [Next]_vars => IInv'
  <2> SUFFICES ASSUME IInv, [Next]_vars PROVE IInv'
    BY Zenon
  <2>1. CASE NewTip
    BY <2>1, NewTipKeeps, Zenon
  <2>2. CASE Collect
    BY <2>2, BuildStatusKeeps, ResumeKeeps, ScanKeeps, ScanDoneKeeps, VerifyKeeps, PublishKeeps,
       BuildExplorerKeeps, ListBlockKeeps, ListedKeeps, ShowKeeps, Zenon DEF Collect
  <2>3. CASE Raise
    BY <2>3, RaiseKeeps, Zenon
  <2>4. CASE Restart
    BY <2>4, RestartKeeps, Zenon
  <2>5. CASE UNCHANGED vars
    <3>1. UNCHANGED <<tip, reorgs, pc, index, last, status, listing, explorer, snapshots, left>>
      BY <2>5, Zenon DEF vars
    <3>2. TypeOK'
      BY <3>1, Zenon DEF IInv, TypeOK
    <3>3. IndexInv'
      BY <3>1, Zenon DEF IInv, IndexInv
    <3>4. StatusInv'
      BY <3>1, Zenon DEF IInv, StatusInv, Beside
    <3>5. ListInv'
      BY <3>1, Zenon DEF IInv, ListInv
    <3>6. Published'
      BY <3>1, PublishedKept, Zenon DEF IInv
    <3> QED
      BY <3>2, <3>3, <3>4, <3>5, <3>6, Zenon DEF IInv
  <2> QED
    BY <2>1, <2>2, <2>3, <2>4, <2>5, Zenon DEF Next
<1> QED
  BY <1>1, InitHolds, PTL DEF Spec

(* The variables keep their types; in particular every sum of values that   *)
(* advance_treasury_index computes and publishes is a natural number.       *)
THEOREM TypeCorrect == Spec => []TypeOK
<1>1. IInv => TypeOK
  BY Zenon DEF IInv
<1> QED
  BY <1>1, Invariant, PTL

(* advance_treasury_index: the index is empty or holds exactly what the     *)
(* branch of its last block gives the treasury, for every tree of blocks    *)
(* and transactions that consensus allows, every batch, and every order of  *)
(* reorganisations, time limits, failures and restarts.                     *)
THEOREM IndexIsOfOneBranch == Spec => []IndexMatchesBranch
<1>1. IInv => IndexMatchesBranch
  BY Zenon DEF IInv, IndexInv, IndexMatchesBranch
<1> QED
  BY <1>1, Invariant, PTL

(* "Refuse a mixed-chain snapshot": the published treasury figures are      *)
(* those of one branch at the published height, however often the node      *)
(* changes branch.                                                          *)
THEOREM FiguresAreOfOneBranch == Spec => []FiguresOfOneBranch
<1>1. IInv => FiguresOfOneBranch
  BY Zenon DEF IInv, Published
<1> QED
  BY <1>1, Invariant, PTL

(* build_status: the published figures are those of the published block     *)
(* until the node changes branch a second time; the closing test and the    *)
(* test of the index do not suffice for more.                               *)
THEOREM FiguresAreOfTip == Spec => []FiguresOfTip
<1>1. IInv => FiguresOfTip
  BY Zenon DEF IInv, Published
<1> QED
  BY <1>1, Invariant, PTL

(* build_explorer: the published list is the chain that ends in the         *)
(* published block, newest first, under the same condition.                 *)
THEOREM ListingsAreChains == Spec => []ListingIsChain
<1>1. IInv => ListingIsChain
  BY Zenon DEF IInv, Published
<1> QED
  BY <1>1, Invariant, PTL
=============================================================================

--------------------------- MODULE UTLBlockFacts ----------------------------
(***************************************************************************)
(* What the operators that the codecs are built from return, for every     *)
(* number of lanes and every step of the bitwidth: words, ranks in a set   *)
(* of positions, the selection of a width, the coding of a slice, and what *)
(* the readers find in the block that packBlock makes of it.               *)
(***************************************************************************)
EXTENDS UTLBlock, FiniteSetTheorems, FunctionTheorems, TLAPS

-----------------------------------------------------------------------------
(* Words. *)

(* Subtracting a base and adding it again is the identity modulo 2^w: the  *)
(* FOR round trip, and one step of the delta round trip.                   *)
LEMMA PlusMinus ==
  ASSUME NEW a \in Word, NEW b \in Word
  PROVE  Minus(a, b) \in Word /\ Plus(b, Minus(a, b)) = a /\ Plus(Minus(a, b), b) = a
<1>1. Modulus \in Nat \ {0}
  BY PowerAssumption, DimensionAssumption DEF Modulus, WordBits
<1> QED BY <1>1 DEF Word, Minus, Plus

(* Zigzag decoding inverts zigzag encoding on every word. *)
LEMMA ZigZagInverse ==
  ASSUME NEW v \in Word
  PROVE  zigzagEncode32(v) \in Word /\ zigzagDecode32(zigzagEncode32(v)) = v
<1>1. Modulus \in Nat \ {0}
  BY PowerAssumption, DimensionAssumption DEF Modulus, WordBits
<1> QED BY <1>1 DEF Word, zigzagEncode32, zigzagDecode32

(* The low bits and the high bits of a word give the word back. *)
LEMMA SplitWord ==
  ASSUME NEW v \in Nat, NEW p \in Nat \ {0}
  PROVE  /\ v % p \in 0 .. p - 1
         /\ v \div p \in Nat
         /\ (v % p) + (v \div p) * p = v
         /\ v < p => v % p = v
  OBVIOUS

-----------------------------------------------------------------------------
(* Ranks in a finite set of positions. *)

(* The high bits of an exception are found among the Cardinality(E) ones   *)
(* that the block holds.                                                   *)
LEMMA RankBound ==
  ASSUME NEW E \in SUBSET Nat, IsFiniteSet(E), NEW i \in E
  PROVE  Rank(E, i) \in 0 .. Cardinality(E) - 1
<1> DEFINE D == {j \in E : j < i}
<1>1. D \in SUBSET E /\ D # E
  OBVIOUS
<1>2. IsFiniteSet(D) /\ Cardinality(D) <= Cardinality(E) /\ Cardinality(D) # Cardinality(E)
  BY <1>1, FS_Subset
<1>3. Cardinality(D) \in Nat /\ Cardinality(E) \in Nat
  BY <1>2, FS_CardinalityType
<1> QED BY <1>2, <1>3 DEF Rank

(* Two exceptions have different ranks. *)
LEMMA RankMonotone ==
  ASSUME NEW E \in SUBSET Nat, IsFiniteSet(E), NEW i \in E, NEW j \in E, i < j
  PROVE  Rank(E, i) # Rank(E, j)
<1> DEFINE D == {k \in E : k < i}
<1> DEFINE F == {k \in E : k < j}
<1>0. i \in Nat /\ j \in Nat /\ \A k \in E : k \in Nat
  OBVIOUS
<1>1. D \in SUBSET F /\ i \in F /\ i \notin D
  <2>1. \A k \in E : k < i => k < j
    BY <1>0
  <2>2. D \in SUBSET F
    BY <2>1
  <2>3. i \in F /\ ~(i < i)
    BY <1>0
  <2> QED BY <2>2, <2>3
<1>2. IsFiniteSet(F)
  BY FS_Subset
<1>3. Cardinality(D) # Cardinality(F)
  BY <1>1, <1>2, FS_Subset
<1> QED BY <1>3 DEF Rank

(* Looking up by rank what was stored by rank finds the same position:     *)
(* collectAndWriteExceptions against findExceptionIndex.                   *)
LEMMA NthRank ==
  ASSUME NEW E \in SUBSET Nat, IsFiniteSet(E), NEW i \in E
  PROVE  Nth(E, Rank(E, i)) = i
<1>1. \A j \in E : Rank(E, j) = Rank(E, i) => j = i
  <2> SUFFICES ASSUME NEW j \in E, j # i PROVE Rank(E, j) # Rank(E, i)
    OBVIOUS
  <2>1. i < j \/ j < i
    OBVIOUS
  <2> QED BY <2>1, RankMonotone
<1> QED BY <1>1 DEF Nth

(* Every rank below Cardinality(E) has its position. *)
LEMMA NthInSet ==
  ASSUME NEW E \in SUBSET Nat, IsFiniteSet(E), NEW r \in 0 .. Cardinality(E) - 1
  PROVE  Nth(E, r) \in E /\ Rank(E, Nth(E, r)) = r
<1> DEFINE R == 0 .. Cardinality(E) - 1
<1> DEFINE f == [i \in E |-> Rank(E, i)]
<1>1. Cardinality(E) \in Nat
  BY FS_CardinalityType
<1>2. f \in [E -> R]
  BY RankBound
<1>3. \A i, j \in E : f[i] = f[j] => i = j
  BY NthRank
<1>4. f \in Injection(E, R)
  BY <1>2, <1>3 DEF Injection, IsInjective
<1>5. IsFiniteSet(R) /\ Cardinality(R) = Cardinality(E)
  BY <1>1, FS_Interval
<1>6. f \in Surjection(E, R)
  BY <1>4, <1>5, FS_Injection
<1>7. PICK i \in E : f[i] = r
  BY <1>6 DEF Surjection
<1>8. Rank(E, i) = r
  BY <1>7
<1> QED BY <1>8, NthRank

-----------------------------------------------------------------------------
(* Sets of naturals. *)

(* A set of naturals that is not empty has a least element: the one with   *)
(* rank 0.                                                                 *)
LEMMA LeastOf ==
  ASSUME NEW T \in SUBSET Nat, T # {}
  PROVE  \E x \in T : \A y \in T : x <= y
<1>1. PICK t \in T : t \in Nat
  OBVIOUS
<1> DEFINE E == {y \in T : y <= t}
<1>2. E \in SUBSET Nat /\ t \in E /\ IsFiniteSet(E)
  <2>1. t \in E /\ \A y \in E : y <= t /\ y \in Nat
    BY <1>1
  <2>2. E \in SUBSET Nat
    BY <2>1
  <2> HIDE DEF E
  <2> QED BY <1>1, <2>1, <2>2, FS_BoundedSetOfNaturals
<1>3. Cardinality(E) \in Nat /\ Cardinality(E) # 0
  BY <1>2, FS_CardinalityType, FS_EmptySet
<1> DEFINE x == Nth(E, 0)
<1>4. x \in E /\ Rank(E, x) = 0
  <2> HIDE DEF E
  <2> QED BY <1>2, <1>3, NthInSet
<1>5. {j \in E : j < x} = {}
  <2>1. IsFiniteSet({j \in E : j < x})
    <3>1. {j \in E : j < x} \in SUBSET E
      OBVIOUS
    <3> HIDE DEF E
    <3> QED BY <3>1, <1>2, FS_Subset
  <2> HIDE DEF E
  <2> QED BY <2>1, <1>4, FS_EmptySet DEF Rank
<1>6. x \in T /\ x <= t /\ x \in Nat
  BY <1>4, <1>1
<1>7. ASSUME NEW y \in T PROVE x <= y
  <2> HIDE DEF x
  <2>1. CASE y <= t
    <3>1. y \in E
      BY <2>1
    <3> QED BY <3>1, <1>5, <1>6
  <2>2. CASE ~(y <= t)
    BY <2>2, <1>1, <1>6
  <2> QED BY <2>1, <2>2
<1> QED BY <1>6, <1>7

(* One that is bounded has a greatest element. *)
LEMMA GreatestOf ==
  ASSUME NEW T \in SUBSET Nat, T # {}, NEW n \in Nat, \A y \in T : y <= n
  PROVE  \E x \in T : \A y \in T : y <= x
<1> DEFINE D == {n - y : y \in T}
<1>0. \A y \in T : n - y \in Nat
  OBVIOUS
<1>1. D \in SUBSET Nat /\ D # {}
  <2>1. \A d \in D : d \in Nat
    BY <1>0
  <2>2. PICK t \in T : n - t \in D
    OBVIOUS
  <2> HIDE DEF D
  <2> QED BY <2>1, <2>2
<1>2. PICK d \in D : \A e \in D : d <= e
  BY <1>1, LeastOf
<1>3. PICK x \in T : d = n - x
  OBVIOUS
<1>4. \A y \in T : n - y \in D
  OBVIOUS
<1>5. \A y \in T : n - x <= n - y
  BY <1>2, <1>3, <1>4
<1> QED BY <1>5, <1>3

-----------------------------------------------------------------------------
(* Dimensions, slices and exceptions. *)

(* The sizes are naturals and the powers of the step widths are positive.  *)
LEMMA Dimensions ==
  /\ LaneCount \in Nat \ {0} /\ StepBits \in Nat \ {0}
  /\ utlValuesPerLane = 8 /\ blockSize = 8 * LaneCount /\ blockSize \in Nat \ {0}
  /\ Modulus \in Nat \ {0}
  /\ \A bw \in StepWidths : bw \in Nat /\ 2 ^ bw \in Nat \ {0}
  /\ excBitmapThreshold \in Nat
<1>1. LaneCount \in Nat \ {0} /\ StepBits \in Nat \ {0}
  BY DimensionAssumption
<1>2. utlValuesPerLane = 8 /\ blockSize = 8 * LaneCount /\ blockSize \in Nat \ {0}
  BY <1>1 DEF blockSize, utlValuesPerLane
<1>3. Modulus \in Nat \ {0}
  BY <1>1, PowerAssumption DEF Modulus, WordBits
<1>4. ASSUME NEW si \in 0 .. 8 PROVE StepBits * si \in 0 .. WordBits
  BY <1>1 DEF WordBits
<1>5. \A bw \in StepWidths : bw \in Nat /\ 2 ^ bw \in Nat \ {0}
  BY <1>1, <1>4, PowerAssumption DEF StepWidths, WordBits
<1>6. excBitmapThreshold \in Nat
  BY <1>1, <1>2 DEF excBitmapThreshold, ByteBits
<1> QED BY <1>1, <1>2, <1>3, <1>5, <1>6

(* The length of a slice is the number that its domain stops at. *)
LEMMA SliceFacts ==
  ASSUME NEW n \in Nat, NEW s \in Slice(n)
  PROVE  /\ DOMAIN s = 0 .. n - 1 /\ IsFiniteSet(DOMAIN s) /\ SliceLen(s) = n
         /\ \A i \in DOMAIN s : s[i] \in Nat /\ s[i] < Modulus /\ s[i] \in Word
<1>1. DOMAIN s = 0 .. n - 1 /\ \A i \in DOMAIN s : s[i] \in Word
  BY DEF Slice
<1>2. IsFiniteSet(0 .. n - 1) /\ Cardinality(0 .. n - 1) = n
  BY FS_Interval
<1>3. \A v \in Word : v \in Nat /\ v < Modulus
  BY Dimensions DEF Word
<1> QED BY <1>1, <1>2, <1>3 DEF SliceLen

(* Exceptions are positions of the slice, as many as excCount says. *)
LEMMA ExceptionFacts ==
  ASSUME NEW n \in Nat, NEW s \in Slice(n), NEW bw
  PROVE  /\ Exceptions(s, bw) \in SUBSET (0 .. n - 1)
         /\ Exceptions(s, bw) \in SUBSET Nat
         /\ IsFiniteSet(Exceptions(s, bw))
         /\ excCount(s, bw) \in 0 .. n
         /\ excCount(s, bw) = Cardinality(Exceptions(s, bw))
<1>1. DOMAIN s = 0 .. n - 1 /\ IsFiniteSet(DOMAIN s) /\ Cardinality(DOMAIN s) = n
  BY SliceFacts DEF SliceLen
<1>2. Exceptions(s, bw) \in SUBSET (DOMAIN s)
  BY DEF Exceptions
<1>3. Exceptions(s, bw) \in SUBSET Nat
  BY <1>1, <1>2
<1>4. /\ IsFiniteSet(Exceptions(s, bw))
      /\ Cardinality(Exceptions(s, bw)) <= n
  BY <1>1, <1>2, FS_Subset
<1>5. Cardinality(Exceptions(s, bw)) \in Nat
  BY <1>4, FS_CardinalityType
<1> QED BY <1>1, <1>2, <1>3, <1>4, <1>5 DEF excCount

(* No word is an exception to the full width. *)
LEMMA FullWidth ==
  ASSUME NEW n \in Nat, NEW s \in Slice(n)
  PROVE  Exceptions(s, StepBits * 8) = {}
<1>1. StepBits * 8 = WordBits
  BY Dimensions DEF WordBits
<1>2. \A i \in DOMAIN s : s[i] < Modulus /\ s[i] \in Nat
  BY SliceFacts
<1>3. \A i \in DOMAIN s : ~(s[i] > Modulus - 1)
  BY <1>2, Dimensions
<1> QED BY <1>1, <1>3 DEF Exceptions, Modulus

(* The top step exists, fits every value, and is the least that does. *)
LEMMA MaxStep ==
  ASSUME NEW n \in Nat, NEW s \in Slice(n)
  PROVE  /\ maxStepIdx(s) \in 0 .. 8 /\ Exceptions(s, StepBits * maxStepIdx(s)) = {}
         /\ \A sj \in 0 .. maxStepIdx(s) - 1 : Exceptions(s, StepBits * sj) # {}
<1> DEFINE T == {si \in 0 .. 8 : Exceptions(s, StepBits * si) = {}}
<1>1. T \in SUBSET Nat /\ 8 \in T
  <2>1. \A si \in T : si \in Nat
    OBVIOUS
  <2>2. 8 \in T
    BY FullWidth
  <2> HIDE DEF T
  <2> QED BY <2>1, <2>2
<1>2. PICK m \in T : \A si \in T : m <= si
  <2> HIDE DEF T
  <2> QED BY <1>1, LeastOf
<1>3. m \in 0 .. 8 /\ Exceptions(s, StepBits * m) = {}
  OBVIOUS
<1>4. ASSUME NEW sj \in 0 .. m - 1 PROVE Exceptions(s, StepBits * sj) # {}
  <2>1. sj \in 0 .. 8 /\ ~(m <= sj)
    BY <1>3
  <2> QED BY <2>1, <1>2
<1> QED BY <1>3, <1>4 DEF maxStepIdx

(* Without patching the selected width is a step and has no exceptions. *)
LEMMA NoPatchWidth ==
  ASSUME NEW n \in Nat, NEW s \in Slice(n)
  PROVE  /\ selectBitWidthNoPatch(s) \in StepWidths
         /\ excCount(s, selectBitWidthNoPatch(s)) = 0
<1>1. maxStepIdx(s) \in 0 .. 8 /\ Exceptions(s, StepBits * maxStepIdx(s)) = {}
  BY MaxStep
<1> QED BY <1>1, FS_EmptySet DEF selectBitWidthNoPatch, StepWidths, excCount

(* The estimated cost of a step is a number of bytes. *)
LEMMA StepCostType ==
  ASSUME NEW n \in Nat, NEW s \in Slice(n), NEW top \in 0 .. 8, NEW si \in 0 .. top
  PROVE  StepCost(s, top, si) \in Nat
<1>1. excCount(s, StepBits * si) \in Nat
  BY ExceptionFacts
<1> DEFINE m == excCount(s, StepBits * si)
<1>2. excIndexSize(m) \in Nat /\ svbControlByteCount(m) \in Nat
  BY <1>1, Dimensions DEF excIndexSize, svbControlByteCount
<1>3. top - si + 1 \in 1 .. 9 /\ excCostBytesPerValue[top - si + 1] \in 1 .. 4
  BY DEF excCostBytesPerValue
<1>4. m * excCostBytesPerValue[top - si + 1] \in Nat
  BY <1>1, <1>3
<1>5. estimateExceptionCost(m, top - si) \in Nat
  BY <1>2, <1>4 DEF estimateExceptionCost, svbLenBytes
<1>6. headerBytes + si * utlSuperWordBytes \in Nat
  BY Dimensions DEF headerBytes, utlSuperWordBytes
<1> QED BY <1>5, <1>6 DEF StepCost

(* The cheapest step exists, is no wider than the top one, and is indeed   *)
(* the cheapest.                                                           *)
LEMMA BestStepType ==
  ASSUME NEW n \in Nat, NEW s \in Slice(n)
  PROVE  /\ BestStep(s) \in 0 .. maxStepIdx(s)
         /\ \A sj \in 0 .. maxStepIdx(s) :
              StepCost(s, maxStepIdx(s), BestStep(s)) <= StepCost(s, maxStepIdx(s), sj)
<1> DEFINE top == maxStepIdx(s)
<1> DEFINE cost == [si \in 0 .. top |-> StepCost(s, top, si)]
<1>1. top \in 0 .. 8
  BY MaxStep
<1>2. \A si \in 0 .. top : cost[si] \in Nat
  BY <1>1, StepCostType
<1> DEFINE costs == {cost[si] : si \in 0 .. top}
<1>3. PICK c \in costs : \A d \in costs : c <= d
  <2>1. \A d \in costs : d \in Nat
    BY <1>2
  <2>2. cost[0] \in costs
    BY <1>1
  <2> HIDE DEF costs
  <2> QED BY <2>1, <2>2, LeastOf
<1> DEFINE cheapest == {si \in 0 .. top : cost[si] = c}
<1>4. PICK b \in cheapest : \A sj \in cheapest : sj <= b
  <2>1. \A si \in cheapest : si \in Nat /\ si <= top
    BY <1>1
  <2>2. PICK si \in 0 .. top : c = cost[si]
    BY <1>3
  <2>3. si \in cheapest
    BY <2>2
  <2> HIDE DEF cheapest, top
  <2> QED BY <1>1, <2>1, <2>3, GreatestOf
<1>5. b \in 0 .. top /\ cost[b] = c
  BY <1>4
<1>6. ASSUME NEW sj \in 0 .. top
      PROVE  cost[b] < cost[sj] \/ (cost[b] = cost[sj] /\ sj <= b)
  <2>1. c <= cost[sj] /\ c \in Nat /\ cost[sj] \in Nat
    <3>1. cost[sj] \in costs
      OBVIOUS
    <3> HIDE DEF costs
    <3> QED BY <3>1, <1>2, <1>3, <1>5
  <2>2. CASE cost[sj] = c
    <3>1. sj \in cheapest
      BY <2>2
    <3> HIDE DEF cheapest
    <3> QED BY <3>1, <2>2, <1>4, <1>5
  <2>3. CASE cost[sj] # c
    BY <2>1, <2>3, <1>5
  <2> QED BY <2>2, <2>3
<1> HIDE DEF top
<1>7. \E si \in 0 .. top : \A sj \in 0 .. top :
        cost[si] < cost[sj] \/ (cost[si] = cost[sj] /\ sj <= si)
  BY <1>5, <1>6
<1> USE DEF top
<1>8. /\ BestStep(s) \in 0 .. top
      /\ \A sj \in 0 .. top : cost[BestStep(s)] < cost[sj]
                              \/ (cost[BestStep(s)] = cost[sj] /\ sj <= BestStep(s))
  BY <1>7 DEF BestStep
<1>9. ASSUME NEW sj \in 0 .. top PROVE cost[BestStep(s)] <= cost[sj]
  BY <1>2, <1>8
<1> QED BY <1>8, <1>9

(* The selected width is a step. *)
LEMMA PatchWidth ==
  ASSUME NEW n \in Nat, NEW s \in Slice(n)
  PROVE  selectBitWidth(s) \in StepWidths
<1>1. maxStepIdx(s) \in 0 .. 8 /\ BestStep(s) \in 0 .. maxStepIdx(s)
  BY MaxStep, BestStepType
<1>2. BestStep(s) \in 0 .. 8
  BY <1>1
<1> QED BY <1>2 DEF selectBitWidth, StepWidths

-----------------------------------------------------------------------------
(* Frame of reference. *)

(* The minimum is a word that no value is below. *)
LEMMA SliceMinFacts ==
  ASSUME NEW n \in Nat \ {0}, NEW s \in Slice(n)
  PROVE  SliceMin(s) \in Word /\ \A i \in DOMAIN s : SliceMin(s) <= s[i]
<1>1. DOMAIN s = 0 .. n - 1 /\ \A i \in DOMAIN s : s[i] \in Nat /\ s[i] \in Word
  BY SliceFacts
<1>2. \A v \in ValuesOf(s) : v \in Nat /\ v \in Word
  BY <1>1 DEF ValuesOf
<1>3. \A i \in DOMAIN s : s[i] \in ValuesOf(s)
  BY DEF ValuesOf
<1>4. 0 \in DOMAIN s
  BY <1>1
<1>5. \E m \in ValuesOf(s) : \A v \in ValuesOf(s) : m <= v
  <2>1. ValuesOf(s) \in SUBSET Nat /\ ValuesOf(s) # {}
    BY <1>2, <1>3, <1>4
  <2> QED BY <2>1, LeastOf
<1>6. SliceMin(s) \in ValuesOf(s) /\ \A v \in ValuesOf(s) : SliceMin(s) <= v
  BY <1>5 DEF SliceMin
<1> QED BY <1>2, <1>3, <1>6

(* Subtracting the base of a slice gives words, and adding it again gives  *)
(* the slice.                                                              *)
LEMMA ForRoundTrip ==
  ASSUME NEW n \in Nat, NEW s \in Slice(n), NEW b \in Word
  PROVE  /\ forSubtract(s, b) \in Slice(n)
         /\ forAdd(forSubtract(s, b), b) = s
         /\ b = 0 => forSubtract(s, b) = s
<1>1. s \in [0 .. n - 1 -> Word] /\ DOMAIN s = 0 .. n - 1
  BY DEF Slice
<1>2. \A i \in 0 .. n - 1 : Minus(s[i], b) \in Word /\ Plus(Minus(s[i], b), b) = s[i]
  BY <1>1, PlusMinus
<1>3. forSubtract(s, b) \in Slice(n)
  BY <1>1, <1>2 DEF forSubtract, Slice
<1>4. forAdd(forSubtract(s, b), b) = s
  BY <1>1, <1>2 DEF forSubtract, forAdd
<1>5. ASSUME b = 0 PROVE forSubtract(s, b) = s
  <2>1. \A i \in 0 .. n - 1 : Minus(s[i], 0) = s[i]
    BY <1>1, SliceFacts DEF Minus
  <2> QED BY <1>1, <1>5, <2>1 DEF forSubtract
<1> QED BY <1>3, <1>4, <1>5

(* The header has room for the base: its low bytes are all of it. *)
LEMMA BaseFits ==
  ASSUME NEW b \in Word
  PROVE  b % 2 ^ (ByteBits * forBaseBytes(selectFORWidth(b))) = b
<1>1. /\ WordBits \in Nat /\ ByteBits \in Nat /\ WordBits = ByteBits * 4
      /\ 2 * ByteBits = ByteBits * 2 /\ ByteBits * 1 = ByteBits /\ ByteBits * 0 = 0
      /\ ByteBits * 2 \in 0 .. WordBits /\ ByteBits \in 0 .. WordBits
      /\ 0 \in 0 .. WordBits /\ WordBits \in 0 .. WordBits
  BY Dimensions DEF WordBits, ByteBits
<1>2. b \in Nat /\ b < 2 ^ WordBits
  BY Dimensions DEF Word, Modulus
<1>3. /\ 2 ^ ByteBits \in Nat \ {0} /\ 2 ^ (ByteBits * 2) \in Nat \ {0}
      /\ 2 ^ WordBits \in Nat \ {0} /\ 2 ^ 0 \in Nat \ {0}
  BY <1>1, PowerAssumption
<1>4. CASE b = 0
  <2>1. selectFORWidth(b) = forWidthNone
    BY <1>4 DEF selectFORWidth
  <2>2. forBaseBytes(selectFORWidth(b)) = 0
    BY <2>1 DEF forBaseBytes, forWidthNone, forWidthU8, forWidthU16, forWidthU32
  <2>3. 0 % 2 ^ 0 = 0
    BY <1>3
  <2> QED BY <2>2, <2>3, <1>1, <1>4
<1>5. CASE b # 0 /\ b < 2 ^ ByteBits
  <2>1. selectFORWidth(b) = forWidthU8
    BY <1>5 DEF selectFORWidth
  <2>2. forBaseBytes(selectFORWidth(b)) = 1
    BY <2>1 DEF forBaseBytes, forWidthNone, forWidthU8, forWidthU16, forWidthU32
  <2> QED BY <2>2, <1>1, <1>2, <1>3, <1>5
<1>6. CASE b # 0 /\ ~(b < 2 ^ ByteBits) /\ b < 2 ^ (ByteBits * 2)
  <2>1. selectFORWidth(b) = forWidthU16
    BY <1>6, <1>1 DEF selectFORWidth
  <2>2. forBaseBytes(selectFORWidth(b)) = 2
    BY <2>1 DEF forBaseBytes, forWidthNone, forWidthU8, forWidthU16, forWidthU32
  <2> QED BY <2>2, <1>1, <1>2, <1>3, <1>6
<1>7. CASE b # 0 /\ ~(b < 2 ^ ByteBits) /\ ~(b < 2 ^ (ByteBits * 2))
  <2>1. selectFORWidth(b) = forWidthU32
    BY <1>7, <1>1 DEF selectFORWidth
  <2>2. forBaseBytes(selectFORWidth(b)) = 4
    BY <2>1 DEF forBaseBytes, forWidthNone, forWidthU8, forWidthU16, forWidthU32
  <2> QED BY <2>2, <1>1, <1>2, <1>3
<1> QED BY <1>4, <1>5, <1>6, <1>7

-----------------------------------------------------------------------------
(* Delta coding. *)

(* Rows are consecutive ranges of LaneCount positions. *)
LEMMA RowFacts ==
  ASSUME NEW r \in Nat
  PROVE  /\ r * LaneCount \in Nat /\ (r + 1) * LaneCount = r * LaneCount + LaneCount
         /\ r >= 1 => r * LaneCount >= LaneCount
         /\ r >= 8 => r * LaneCount >= blockSize
<1>1. LaneCount \in Nat \ {0} /\ blockSize = 8 * LaneCount
  BY Dimensions
<1>2. r * LaneCount \in Nat /\ (r + 1) * LaneCount = r * LaneCount + LaneCount
  BY <1>1
<1>3. ASSUME r >= 1 PROVE r * LaneCount >= LaneCount
  <2>1. r - 1 \in Nat /\ (r - 1) * LaneCount \in Nat
    BY <1>1, <1>3
  <2>2. r * LaneCount = (r - 1) * LaneCount + LaneCount
    BY <1>1
  <2> QED BY <2>1, <2>2, <1>1
<1>4. ASSUME r >= 8 PROVE r * LaneCount >= blockSize
  <2>1. r - 8 \in Nat /\ (r - 8) * LaneCount \in Nat
    BY <1>1, <1>4
  <2>2. r * LaneCount = (r - 8) * LaneCount + 8 * LaneCount
    BY <1>1
  <2> QED BY <2>1, <2>2, <1>1
<1> QED BY <1>2, <1>3, <1>4

(* Differences are words; beyond the last row there are none. *)
LEMMA DeltaFromFacts ==
  ASSUME NEW n \in 0 .. blockSize, NEW w \in Slice(n), NEW r \in Nat, r >= 1
  PROVE  /\ DeltaFrom(w, r) \in Slice(n)
         /\ r >= 8 => DeltaFrom(w, r) = w /\ AscendingFrom(w, r)
<1>1. w \in [0 .. n - 1 -> Word] /\ DOMAIN w = 0 .. n - 1 /\ n \in Nat
  BY Dimensions DEF Slice
<1>2. LaneCount \in Nat /\ r * LaneCount \in Nat /\ r * LaneCount >= LaneCount
  BY RowFacts, Dimensions
<1>3. \A i \in 0 .. n - 1 : i >= r * LaneCount =>
        i - LaneCount \in 0 .. n - 1 /\ Minus(w[i], w[i - LaneCount]) \in Word
  <2> SUFFICES ASSUME NEW i \in 0 .. n - 1, i >= r * LaneCount
               PROVE  /\ i - LaneCount \in 0 .. n - 1
                      /\ Minus(w[i], w[i - LaneCount]) \in Word
    OBVIOUS
  <2>1. i - LaneCount \in 0 .. n - 1
    BY <1>1, <1>2
  <2> QED BY <2>1, <1>1, PlusMinus
<1>4. DeltaFrom(w, r) \in Slice(n)
  BY <1>1, <1>3 DEF DeltaFrom, Slice
<1>5. ASSUME r >= 8 PROVE \A i \in 0 .. n - 1 : ~(i >= r * LaneCount)
  BY <1>1, <1>2, <1>5, RowFacts, Dimensions
<1>6. ASSUME r >= 8 PROVE DeltaFrom(w, r) = w /\ AscendingFrom(w, r)
  BY <1>1, <1>5, <1>6 DEF DeltaFrom, AscendingFrom
<1> QED BY <1>4, <1>6

(* A row of differences can be taken in place as long as the row above it  *)
(* still holds the values: the delta loop must run from the last row up.   *)
LEMMA DeltaFromStep ==
  ASSUME NEW n \in 0 .. blockSize, NEW w \in Slice(n), NEW r \in Nat, r >= 1
  PROVE  LET d == DeltaFrom(w, r + 1)
             InRow(i) == r * LaneCount <= i /\ i < (r + 1) * LaneCount
         IN  /\ \A i \in DOMAIN w : InRow(i) =>
                   /\ i - LaneCount \in DOMAIN w
                   /\ d[i] = w[i] /\ d[i - LaneCount] = w[i - LaneCount]
             /\ DeltaFrom(w, r) =
                   [i \in DOMAIN w |-> IF InRow(i) THEN Minus(d[i], d[i - LaneCount])
                                                   ELSE d[i]]
             /\ AscendingFrom(w, r + 1) =>
                   ((\A i \in DOMAIN w : InRow(i) => w[i - LaneCount] <= w[i])
                     => AscendingFrom(w, r))
<1> DEFINE d == DeltaFrom(w, r + 1)
<1> DEFINE InRow(i) == r * LaneCount <= i /\ i < (r + 1) * LaneCount
<1>1. w \in [0 .. n - 1 -> Word] /\ DOMAIN w = 0 .. n - 1 /\ n \in Nat
  BY Dimensions DEF Slice
<1>2. LaneCount \in Nat \ {0} /\ r * LaneCount \in Nat /\ r * LaneCount >= LaneCount
  BY RowFacts, Dimensions
<1>3. (r + 1) * LaneCount = r * LaneCount + LaneCount
  BY RowFacts
<1> DEFINE lo == r * LaneCount
<1> DEFINE hi == (r + 1) * LaneCount
<1>4. lo \in Nat /\ hi = lo + LaneCount /\ lo >= LaneCount
  BY <1>2, <1>3
<1>5. /\ d = [i \in DOMAIN w |-> IF i >= hi THEN Minus(w[i], w[i - LaneCount]) ELSE w[i]]
      /\ DeltaFrom(w, r) =
           [i \in DOMAIN w |-> IF i >= lo THEN Minus(w[i], w[i - LaneCount]) ELSE w[i]]
      /\ \A i : InRow(i) <=> (lo <= i /\ i < hi)
  BY DEF DeltaFrom
<1>6. AscendingFrom(w, r + 1) <=> \A i \in DOMAIN w : i >= hi => w[i - LaneCount] <= w[i]
  BY DEF AscendingFrom
<1>7. AscendingFrom(w, r) <=> \A i \in DOMAIN w : i >= lo => w[i - LaneCount] <= w[i]
  BY DEF AscendingFrom
<1> HIDE DEF lo, hi, d, InRow
<1>8. ASSUME NEW i \in DOMAIN w, InRow(i)
      PROVE  /\ i - LaneCount \in DOMAIN w
             /\ d[i] = w[i] /\ d[i - LaneCount] = w[i - LaneCount]
  <2>1. i \in Int /\ lo <= i /\ i < hi /\ i <= n - 1
    BY <1>1, <1>5, <1>8
  <2>2. i - LaneCount \in 0 .. n - 1 /\ ~(i >= hi) /\ ~(i - LaneCount >= hi)
    BY <1>1, <1>2, <1>4, <2>1
  <2> QED BY <1>1, <1>5, <2>2
<1>9. ASSUME NEW i \in DOMAIN w
      PROVE  (IF i >= lo THEN Minus(w[i], w[i - LaneCount]) ELSE w[i])
               = IF InRow(i) THEN Minus(d[i], d[i - LaneCount]) ELSE d[i]
  <2>1. CASE InRow(i)
    <3>1. i >= lo
      BY <1>1, <1>4, <1>5, <2>1
    <3> QED BY <2>1, <3>1, <1>8
  <2>2. CASE ~InRow(i)
    <3>1. (i >= lo) <=> (i >= hi)
      BY <1>1, <1>2, <1>4, <1>5, <2>2
    <3> QED BY <2>2, <3>1, <1>5
  <2> QED BY <2>1, <2>2
<1>10. DeltaFrom(w, r) =
         [i \in DOMAIN w |-> IF InRow(i) THEN Minus(d[i], d[i - LaneCount]) ELSE d[i]]
  BY <1>5, <1>9, Zenon
<1>11. ASSUME AscendingFrom(w, r + 1),
              \A i \in DOMAIN w : InRow(i) => w[i - LaneCount] <= w[i]
       PROVE  AscendingFrom(w, r)
  BY <1>1, <1>2, <1>4, <1>5, <1>6, <1>7, <1>11
<1> QED BY <1>8, <1>10, <1>11 DEF d, InRow

-----------------------------------------------------------------------------
(* The words of a block. *)

(* They are words, and the shifted values themselves without delta. *)
LEMMA EncodeType ==
  ASSUME NEW n \in 0 .. blockSize, NEW s \in Slice(n), NEW b \in Word,
         NEW d \in BOOLEAN, NEW zz \in BOOLEAN
  PROVE  Encode(s, b, d, zz) \in Slice(n)
<1>1. forSubtract(s, b) \in Slice(n) /\ n \in Nat
  BY ForRoundTrip, Dimensions
<1>2. DeltaFrom(forSubtract(s, b), 1) \in Slice(n)
  BY <1>1, DeltaFromFacts
<1>3. DOMAIN s = 0 .. n - 1 /\ \A i \in 0 .. n - 1 : DeltaFrom(forSubtract(s, b), 1)[i] \in Word
  BY <1>1, <1>2, SliceFacts
<1>4. \A i \in 0 .. n - 1 : zigzagEncode32(DeltaFrom(forSubtract(s, b), 1)[i]) \in Word
  BY <1>3, ZigZagInverse
<1>5. CASE ~d
  BY <1>1, <1>5 DEF Encode
<1>6. CASE d /\ zz
  BY <1>3, <1>4, <1>6 DEF Encode, Slice
<1>7. CASE d /\ ~zz
  BY <1>3, <1>7 DEF Encode, Slice
<1> QED BY <1>5, <1>6, <1>7

(* Undoing zigzag gives a value of the first row, and the difference that  *)
(* adds up to the value in a later row; without zigzag the sum is no less  *)
(* than the value above, the test by which the readers find an overflow.   *)
LEMMA DecodedWord ==
  ASSUME NEW n \in 0 .. blockSize, NEW s \in Slice(n), NEW b \in Word,
         NEW zz \in BOOLEAN, NEW i \in 0 .. n - 1,
         ~zz => AscendingFrom(forSubtract(s, b), 1)
  PROVE  LET w == forSubtract(s, b)
             e == Encode(s, b, TRUE, zz)
             decoded == IF zz THEN zigzagDecode32(e[i]) ELSE e[i]
         IN  /\ i < LaneCount => decoded = w[i]
             /\ i >= LaneCount =>
                  /\ i - LaneCount \in 0 .. n - 1
                  /\ Plus(w[i - LaneCount], decoded) = w[i]
                  /\ ~zz => w[i - LaneCount] <= w[i]
<1> DEFINE w == forSubtract(s, b)
<1> DEFINE f == DeltaFrom(w, 1)
<1> DEFINE e == Encode(s, b, TRUE, zz)
<1> DEFINE decoded == IF zz THEN zigzagDecode32(e[i]) ELSE e[i]
<1>1. n \in Nat /\ w \in Slice(n) /\ DOMAIN s = 0 .. n - 1 /\ DOMAIN w = 0 .. n - 1
  BY ForRoundTrip, SliceFacts, Dimensions
<1>2. f \in Slice(n)
  BY <1>1, DeltaFromFacts
<1>3. f[i] = (IF i >= LaneCount THEN Minus(w[i], w[i - LaneCount]) ELSE w[i])
  <2>1. 1 * LaneCount = LaneCount
    BY Dimensions
  <2> QED BY <1>1, <2>1 DEF DeltaFrom
<1>4. f[i] \in Word
  BY <1>2, SliceFacts
<1>5. e[i] = (IF zz THEN zigzagEncode32(f[i]) ELSE f[i])
  BY <1>1 DEF Encode
<1> HIDE DEF e, f, w
<1>6. decoded = f[i]
  BY <1>4, <1>5, ZigZagInverse
<1>7. ASSUME i < LaneCount PROVE decoded = w[i]
  BY <1>3, <1>6, <1>7, Dimensions
<1>8. ASSUME i >= LaneCount
      PROVE  /\ i - LaneCount \in 0 .. n - 1
             /\ Plus(w[i - LaneCount], decoded) = w[i]
             /\ ~zz => w[i - LaneCount] <= w[i]
  <2>1. i - LaneCount \in 0 .. n - 1
    BY <1>1, <1>8, Dimensions
  <2>2. w[i] \in Word /\ w[i - LaneCount] \in Word
    BY <1>1, <2>1, SliceFacts
  <2>3. Plus(w[i - LaneCount], decoded) = w[i]
    BY <1>3, <1>6, <1>8, <2>2, PlusMinus
  <2>4. ASSUME ~zz PROVE w[i - LaneCount] <= w[i]
    <3>1. 1 * LaneCount = LaneCount
      BY Dimensions
    <3> QED BY <1>1, <1>8, <2>4, <3>1 DEF AscendingFrom, w
  <2> QED BY <2>1, <2>3, <2>4
<1> QED BY <1>7, <1>8 DEF e, w

(* A position's word is its payload, plus its high bits if it is an        *)
(* exception: each exception has one rank, and that rank leads back to it. *)
LEMMA PatchWord ==
  ASSUME NEW n \in Nat, NEW e \in Slice(n), NEW bw \in StepWidths, NEW i \in 0 .. n - 1
  PROVE  LET E == Exceptions(e, bw)
             r == Rank(E, i)
         IN  IF i \in E
             THEN /\ r \in 0 .. excCount(e, bw) - 1
                  /\ ExcPositions(e, bw)[r] = i
                  /\ \A q \in 0 .. excCount(e, bw) - 1 :
                       ExcPositions(e, bw)[q] = i => q = r
                  /\ (e[i] % 2 ^ bw) + HighBits(e, bw)[r] * 2 ^ bw = e[i]
             ELSE /\ \A q \in 0 .. excCount(e, bw) - 1 : ExcPositions(e, bw)[q] # i
                  /\ e[i] % 2 ^ bw = e[i]
<1> DEFINE E == Exceptions(e, bw)
<1>1. E \in SUBSET Nat /\ IsFiniteSet(E) /\ excCount(e, bw) = Cardinality(E)
  BY ExceptionFacts
<1>2. e[i] \in Nat /\ 2 ^ bw \in Nat \ {0} /\ DOMAIN e = 0 .. n - 1
  BY SliceFacts, Dimensions
<1>3. i \in E <=> e[i] > 2 ^ bw - 1
  BY <1>2 DEF Exceptions
<1>4. \A q \in 0 .. excCount(e, bw) - 1 :
        ExcPositions(e, bw)[q] = Nth(E, q) /\ HighBits(e, bw)[q] = e[Nth(E, q)] \div 2 ^ bw
  BY DEF ExcPositions, HighBits
<1>5. \A q \in 0 .. excCount(e, bw) - 1 : Nth(E, q) \in E /\ Rank(E, Nth(E, q)) = q
  <2> HIDE DEF E
  <2> QED BY <1>1, NthInSet
<1>6. CASE i \in E
  <2>1. Rank(E, i) \in 0 .. excCount(e, bw) - 1 /\ Nth(E, Rank(E, i)) = i
    <3> HIDE DEF E
    <3> QED BY <1>1, <1>6, RankBound, NthRank
  <2>2. (e[i] % 2 ^ bw) + (e[i] \div 2 ^ bw) * 2 ^ bw = e[i]
    BY <1>2, SplitWord
  <2> QED BY <1>4, <1>5, <1>6, <2>1, <2>2
<1>7. CASE i \notin E
  <2>1. e[i] % 2 ^ bw = e[i]
    <3>1. e[i] < 2 ^ bw
      BY <1>2, <1>3, <1>7
    <3> QED BY <1>2, <3>1, SplitWord
  <2> QED BY <1>4, <1>5, <1>7, <2>1
<1> QED BY <1>6, <1>7

(* High bits are words. *)
LEMMA HighBitsType ==
  ASSUME NEW n \in Nat, NEW e \in Slice(n), NEW bw \in StepWidths,
         NEW r \in 0 .. excCount(e, bw) - 1
  PROVE  /\ HighBits(e, bw)[r] \in Word
         /\ HighBits(e, bw)[r] * 2 ^ bw \in Word
<1> DEFINE i == Nth(Exceptions(e, bw), r)
<1>1. /\ Exceptions(e, bw) \in SUBSET (0 .. n - 1) /\ Exceptions(e, bw) \in SUBSET Nat
      /\ IsFiniteSet(Exceptions(e, bw))
      /\ excCount(e, bw) = Cardinality(Exceptions(e, bw))
  BY ExceptionFacts
<1>2. i \in 0 .. n - 1
  BY <1>1, NthInSet
<1>3. e[i] \in Nat /\ e[i] < Modulus /\ 2 ^ bw \in Nat \ {0}
  BY <1>2, SliceFacts, Dimensions
<1>4. HighBits(e, bw)[r] = e[i] \div 2 ^ bw
  BY DEF HighBits
<1> DEFINE h == e[i] \div 2 ^ bw
<1>5. h \in Nat /\ h * 2 ^ bw \in Nat /\ h * 2 ^ bw <= e[i] /\ h <= h * 2 ^ bw
  <2>1. \A v \in Nat, p \in Nat \ {0} :
          v \div p \in Nat /\ (v \div p) * p \in Nat /\ (v \div p) * p <= v
    OBVIOUS
  <2>2. \A v \in Nat, p \in Nat \ {0} : v <= v * p
    OBVIOUS
  <2> QED BY <1>3, <2>1, <2>2
<1> QED BY <1>3, <1>4, <1>5, Dimensions DEF Word

-----------------------------------------------------------------------------
(* Memory, and the length of the high bits. *)

(* copy leaves what is outside its range and puts the slice inside it. *)
LEMMA StoreFacts ==
  ASSUME NEW m \in Nat, NEW mem \in Slice(m), NEW n \in Nat, NEW s \in Slice(n),
         NEW off \in Nat
  PROVE  /\ Store(mem, off, s) \in Slice(m)
         /\ \A i \in 0 .. m - 1 : i < off \/ i >= off + n => Store(mem, off, s)[i] = mem[i]
         /\ \A i \in 0 .. n - 1 : off + i < m => Store(mem, off, s)[off + i] = s[i]
         /\ off = 0 => \A i \in 0 .. n - 1 : i < m => Store(mem, off, s)[i] = s[i]
<1>1. DOMAIN mem = 0 .. m - 1 /\ DOMAIN s = 0 .. n - 1
  BY DEF Slice
<1>2. (\A i \in 0 .. m - 1 : mem[i] \in Word) /\ \A i \in 0 .. n - 1 : s[i] \in Word
  BY DEF Slice
<1>3. Store(mem, off, s) =
        [i \in 0 .. m - 1 |-> IF i - off \in 0 .. n - 1 THEN s[i - off] ELSE mem[i]]
  BY <1>1 DEF Store
<1>4. Store(mem, off, s) \in Slice(m)
  BY <1>2, <1>3 DEF Slice
<1>5. \A i \in 0 .. m - 1 : i < off \/ i >= off + n => Store(mem, off, s)[i] = mem[i]
  BY <1>3
<1>6. ASSUME NEW i \in 0 .. n - 1, off + i < m
      PROVE  Store(mem, off, s)[off + i] = s[i]
  <2>1. off + i \in 0 .. m - 1 /\ off + i - off = i
    BY <1>6
  <2> QED BY <1>3, <2>1
<1>7. ASSUME off = 0, NEW i \in 0 .. n - 1, i < m
      PROVE  Store(mem, off, s)[i] = s[i]
  <2>1. i \in 0 .. m - 1 /\ i - off = i
    BY <1>7
  <2> QED BY <1>3, <2>1
<1> QED BY <1>4, <1>5, <1>6, <1>7

(* The encoded high bits take at most the length that ensureLen asked for. *)
LEMMA SVBLength ==
  ASSUME NEW n \in Nat, NEW high, DOMAIN high = 0 .. n - 1
  PROVE  /\ svbControlByteCount(n) \in Nat /\ svbDataLen(high) \in Nat
         /\ svbControlByteCount(n) + svbDataLen(high) \in Nat
         /\ svbControlByteCount(n) + svbDataLen(high) <= maxSVBEncodedLen(n)
<1> DEFINE WithByte(k) == {r \in DOMAIN high : k = 1 \/ high[r] >= 2 ^ (ByteBits * (k - 1))}
<1>1. IsFiniteSet(0 .. n - 1) /\ Cardinality(0 .. n - 1) = n
  BY FS_Interval
<1>2. ASSUME NEW k PROVE Cardinality(WithByte(k)) \in Nat /\ Cardinality(WithByte(k)) <= n
  <2>1. WithByte(k) \in SUBSET (0 .. n - 1)
    OBVIOUS
  <2> HIDE DEF WithByte
  <2> QED BY <1>1, <2>1, FS_Subset, FS_CardinalityType
<1>3. svbDataLen(high) = Cardinality(WithByte(1)) + Cardinality(WithByte(2))
                           + Cardinality(WithByte(3)) + Cardinality(WithByte(4))
  BY DEF svbDataLen
<1>4. svbControlByteCount(n) \in Nat
  BY DEF svbControlByteCount
<1> HIDE DEF WithByte
<1>5. svbDataLen(high) \in Nat /\ svbDataLen(high) <= 4 * n
  BY <1>2, <1>3
<1> QED BY <1>4, <1>5 DEF maxSVBEncodedLen

-----------------------------------------------------------------------------
(* Sizes. *)

(* A quotient is determined by its remainder. *)
LEMMA Quotient ==
  ASSUME NEW S \in Nat \ {0}, NEW q \in Nat, NEW r \in 0 .. S - 1
  PROVE  (S * q + r) \div S = q
<1> DEFINE a == S * q + r
<1> DEFINE d == a \div S
<1>1. a \in Nat /\ S * q \in Nat
  BY Z3
<1>2. d \in Nat /\ S * d <= a /\ a < S * d + S
  <2> HIDE DEF a
  <2> QED BY <1>1
<1>3. \A x, y \in Nat : x < y => S * x + S <= S * y
  <2> SUFFICES ASSUME NEW x \in Nat, NEW y \in Nat, x < y PROVE S * x + S <= S * y
    OBVIOUS
  <2>1. y - x - 1 \in Nat /\ S * (y - x - 1) \in Nat
    OBVIOUS
  <2>2. S * y = S * x + S + S * (y - x - 1)
    OBVIOUS
  <2>3. S * x \in Nat
    OBVIOUS
  <2> QED BY <2>1, <2>2, <2>3
<1> HIDE DEF d
<1>4. ~(d < q) /\ ~(q < d)
  <2>1. S * d \in Nat
    BY <1>2
  <2> QED BY <1>1, <1>2, <1>3, <2>1 DEF a
<1> QED BY <1>2, <1>4 DEF d

(* A step of payload is one superword. *)
LEMMA PayloadBytes ==
  ASSUME NEW si \in 0 .. 8
  PROVE  utlPayloadBytes(StepBits * si) = si * (4 * LaneCount)
<1>1. StepBits \in Nat \ {0} /\ StepBits - 1 \in 0 .. StepBits - 1 /\ si \in Nat
  BY Dimensions
<1>2. (StepBits * si + (StepBits - 1)) \div StepBits = si
  BY <1>1, Quotient
<1>3. StepBits * si + StepBits - 1 = StepBits * si + (StepBits - 1)
  BY <1>1
<1> QED BY <1>2, <1>3 DEF utlPayloadBytes, utlSuperWordBytes

(* A base takes no bytes exactly if it is 0, and four at most. *)
LEMMA BaseBytes ==
  ASSUME NEW v \in Nat
  PROVE  /\ selectFORWidth(v) \in 0 .. 3
         /\ forBaseBytes(selectFORWidth(v)) \in 0 .. 4
         /\ v = 0 => forBaseBytes(selectFORWidth(v)) = 0
<1> USE DEF forWidthNone, forWidthU8, forWidthU16, forWidthU32
<1>1. selectFORWidth(v) \in 0 .. 3 /\ (v = 0 => selectFORWidth(v) = 0)
  BY DEF selectFORWidth
<1>2. \A fw \in 0 .. 3 : forBaseBytes(fw) \in 0 .. 4 /\ (fw = 0 => forBaseBytes(fw) = 0)
  BY DEF forBaseBytes
<1> QED BY <1>1, <1>2

(* Offset and size of a payload are numbers of bytes.                      *)
LEMMA PayloadType ==
  ASSUME NEW bw \in StepWidths, NEW v \in Nat, NEW x, NEW cb
  PROVE  /\ utlPayloadBytes(bw) \in Nat
         /\ payloadOffset(forBaseBytes(selectFORWidth(v)), x, cb) \in Nat
<1>1. PICK si \in 0 .. 8 : bw = StepBits * si
  BY DEF StepWidths
<1>2. utlPayloadBytes(bw) = si * (4 * LaneCount) /\ LaneCount \in Nat
  BY <1>1, PayloadBytes, Dimensions
<1> QED BY <1>2, BaseBytes DEF payloadOffset, headerBytes, svbLenBytes, block2LenBytes

(* The index takes at most a byte per exception, and at most the bitmap's. *)
LEMMA IndexBytes ==
  ASSUME NEW x \in Nat
  PROVE  excIndexSize(x) \in 0 .. excBitmapThreshold
BY Dimensions DEF excIndexSize

(* Words that do not fit leave the widest step out. *)
LEMMA PatchedWidth ==
  ASSUME NEW n \in Nat, NEW e \in Slice(n), NEW bw \in StepWidths, excCount(e, bw) > 0
  PROVE  \E si \in 0 .. 7 : bw = StepBits * si
<1>1. PICK si \in 0 .. 8 : bw = StepBits * si
  BY DEF StepWidths
<1>2. si # 8
  BY <1>1, FullWidth, FS_EmptySet DEF excCount
<1> QED BY <1>1, <1>2

(* MaxBlockLength32 bounds what packBlock asks for: a block that has        *)
(* exceptions is at least one step narrower than the words, which pays for  *)
(* neither their index nor their high bits, but the bound has room for both.*)
LEMMA BoundedRequest ==
  ASSUME NEW bw \in StepWidths, NEW x \in 0 .. blockSize, NEW fw \in 0 .. 3, NEW f,
         x > 0 => bw < WordBits, "NoFOR" \in f => fw = forWidthNone, "NoPatch" \in f => x = 0
  PROVE  payloadOffset(forBaseBytes(fw), x > 0, FALSE) + utlPayloadBytes(bw)
           + (IF x = 0 THEN 0 ELSE excIndexSize(x) + maxSVBEncodedLen(x))
           <= MaxBlockLength32(f)
<1> DEFINE bb == forBaseBytes(fw)
<1> DEFINE fb == IF "NoFOR" \in f THEN 0 ELSE 4
<1> DEFINE T == excBitmapThreshold
<1> DEFINE cx == svbControlByteCount(x)
<1> DEFINE cb == svbControlByteCount(blockSize)
<1>1. /\ LaneCount \in Nat \ {0} /\ blockSize = 8 * LaneCount /\ T \in Nat
      /\ x \in Nat /\ x <= blockSize
  BY Dimensions
<1>2. bb \in 0 .. 4 /\ bb <= fb /\ fb \in {0, 4}
  BY DEF forBaseBytes, forWidthNone, forWidthU8, forWidthU16, forWidthU32
<1>3. forBaseBytes(forWidthU32) = 4
  BY DEF forBaseBytes, forWidthNone, forWidthU8, forWidthU16, forWidthU32
<1>4. utlPayloadBytes(WordBits) = 32 * LaneCount
      /\ utlPayloadBytes(WordBits - StepBits) = 28 * LaneCount
  <2>1. WordBits = StepBits * 8 /\ WordBits - StepBits = StepBits * 7
    BY Dimensions DEF WordBits
  <2>2. 8 * (4 * LaneCount) = 32 * LaneCount /\ 7 * (4 * LaneCount) = 28 * LaneCount
    BY <1>1
  <2>3. utlPayloadBytes(StepBits * 8) = 8 * (4 * LaneCount)
        /\ utlPayloadBytes(StepBits * 7) = 7 * (4 * LaneCount)
    BY PayloadBytes
  <2> QED BY <2>1, <2>2, <2>3
<1>5. cb \in Nat /\ cx \in Nat /\ cx <= cb
  BY <1>1 DEF svbControlByteCount
<1>6. MaxBlockLength32(f) = IF "NoPatch" \in f THEN 4 + fb + 32 * LaneCount
                            ELSE 4 + 2 + fb + 28 * LaneCount + T + (cb + 4 * blockSize)
  BY <1>3, <1>4 DEF MaxBlockLength32, headerBytes, svbLenBytes, maxSVBEncodedLen
<1> DEFINE pb == utlPayloadBytes(bw)
<1>7. PICK si \in 0 .. 8 : bw = StepBits * si
  BY DEF StepWidths
<1>8. pb = 4 * (si * LaneCount) /\ si * LaneCount \in Nat /\ si * LaneCount <= 8 * LaneCount
  <2>1. pb = si * (4 * LaneCount)
    BY <1>7, PayloadBytes
  <2> QED BY <1>1, <2>1
<1> USE DEF headerBytes, svbLenBytes
<1>9. CASE x = 0
  <2>1. payloadOffset(bb, x > 0, FALSE) = 4 + bb
    <3> HIDE DEF bb
    <3> QED BY <1>9, <1>2 DEF payloadOffset
  <2>2. 4 + bb + pb + 0 <= MaxBlockLength32(f)
    <3> HIDE DEF bb, pb, fb, T, cx, cb
    <3> QED BY <1>1, <1>2, <1>5, <1>6, <1>8
  <2> HIDE DEF bb, pb
  <2>3. payloadOffset(bb, x > 0, FALSE) + pb
          + (IF x = 0 THEN 0 ELSE excIndexSize(x) + maxSVBEncodedLen(x)) = 4 + bb + pb + 0
    BY <1>9, <2>1
  <2> QED BY <2>2, <2>3 DEF bb, pb
<1>10. CASE x > 0
  <2>1. "NoPatch" \notin f
    BY <1>10
  <2>2. pb <= 28 * LaneCount
    <3>1. PICK sj \in 0 .. 7 : bw = StepBits * sj
      <4>1. si # 8
        BY <1>7, <1>10, Dimensions DEF WordBits
      <4> QED BY <1>7, <4>1
    <3>2. pb = sj * (4 * LaneCount)
      BY <3>1, PayloadBytes
    <3>3. sj * (4 * LaneCount) = 4 * (sj * LaneCount) /\ sj * LaneCount <= 7 * LaneCount
          /\ sj * LaneCount \in Nat
      BY <1>1
    <3> QED BY <1>1, <3>2, <3>3
  <2> DEFINE idx == excIndexSize(x)
  <2>3. idx \in 0 .. T
    BY <1>1, IndexBytes
  <2>4. maxSVBEncodedLen(x) = cx + 4 * x
    BY DEF maxSVBEncodedLen
  <2>5. payloadOffset(bb, x > 0, FALSE) = 6 + bb
    <3> HIDE DEF bb
    <3> QED BY <1>10, <1>2 DEF payloadOffset
  <2> HIDE DEF bb, pb, fb, T, cx, cb, idx
  <2>6. MaxBlockLength32(f) = 6 + fb + 28 * LaneCount + T + (cb + 4 * blockSize)
    BY <1>1, <1>2, <1>5, <1>6, <2>1
  <2>7. 6 + bb + pb + (idx + (cx + 4 * x)) <= MaxBlockLength32(f)
    <3>1. bb \in Nat /\ pb \in Nat /\ idx \in Nat /\ fb \in Nat /\ bb <= fb /\ idx <= T
      BY <1>1, <1>2, <1>8, <2>3
    <3> QED BY <3>1, <1>1, <1>5, <2>2, <2>6
  <2>8. payloadOffset(bb, x > 0, FALSE) + pb
          + (IF x = 0 THEN 0 ELSE idx + maxSVBEncodedLen(x))
          = 6 + bb + pb + (idx + (cx + 4 * x))
    <3>1. x # 0
      BY <1>1, <1>10
    <3>2. (IF x = 0 THEN 0 ELSE idx + maxSVBEncodedLen(x)) = idx + (cx + 4 * x)
      BY <2>4, <3>1
    <3> QED BY <2>5, <3>2, Zenon
  <2> QED BY <2>7, <2>8 DEF bb, pb, idx
<1>11. x = 0 \/ x > 0
  BY <1>1
<1> QED BY <1>9, <1>10, <1>11, Zenon

(* So it does for a slice's words. *)
LEMMA BoundedLength ==
  ASSUME NEW n \in 0 .. blockSize, NEW e \in Slice(n), NEW bw \in StepWidths,
         NEW x \in {0, excCount(e, bw)}, NEW v \in Word, NEW f,
         "NoFOR" \in f => v = 0, "NoPatch" \in f => x = 0
  PROVE  payloadOffset(forBaseBytes(selectFORWidth(v)), x > 0, FALSE) + utlPayloadBytes(bw)
           + (IF x = 0 THEN 0 ELSE excIndexSize(x) + maxSVBEncodedLen(x))
           <= MaxBlockLength32(f)
<1>1. n \in Nat /\ x \in 0 .. blockSize
  BY Dimensions, ExceptionFacts
<1>2. x > 0 => bw < WordBits
  <2> SUFFICES ASSUME x > 0 PROVE bw < WordBits
    OBVIOUS
  <2>1. PICK sj \in 0 .. 7 : bw = StepBits * sj
    BY <1>1, PatchedWidth
  <2> QED BY <2>1, Dimensions DEF WordBits
<1>3. selectFORWidth(v) \in 0 .. 3 /\ (v = 0 => selectFORWidth(v) = forWidthNone)
  BY DEF selectFORWidth, forWidthNone, forWidthU8, forWidthU16, forWidthU32, Word
<1> QED BY <1>1, <1>2, <1>3, BoundedRequest

(* The bound is a number of bytes. *)
LEMMA BoundType ==
  ASSUME NEW f
  PROVE  MaxBlockLength32(f) \in Nat
<1>1. /\ utlPayloadBytes(WordBits) \in Nat /\ utlPayloadBytes(WordBits - StepBits) \in Nat
  <2>1. WordBits = StepBits * 8 /\ WordBits - StepBits = StepBits * 7
    BY Dimensions DEF WordBits
  <2>2. utlPayloadBytes(StepBits * 8) = 8 * (4 * LaneCount)
    BY PayloadBytes
  <2>3. utlPayloadBytes(StepBits * 7) = 7 * (4 * LaneCount)
    BY PayloadBytes
  <2> QED BY <2>1, <2>2, <2>3, Dimensions
<1>2. maxSVBEncodedLen(blockSize) \in Nat /\ excBitmapThreshold \in Nat
  BY Dimensions DEF maxSVBEncodedLen, svbControlByteCount
<1>3. forBaseBytes(forWidthU32) = 4
  BY DEF forBaseBytes, forWidthNone, forWidthU8, forWidthU16, forWidthU32
<1> QED BY <1>1, <1>2, <1>3 DEF MaxBlockLength32, headerBytes, svbLenBytes

-----------------------------------------------------------------------------
(* Readers. *)

(* The block b holds the words e: their low bits, and the exceptions' high *)
(* bits behind either form of the index.                                   *)
Holds(b, e) ==
  /\ b.count = SliceLen(e) /\ b.bitWidth \in StepWidths
  /\ b.excCount = excCount(e, b.bitWidth)
  /\ b.payload = [i \in Pos |-> IF i \in DOMAIN e THEN e[i] % 2 ^ b.bitWidth ELSE 0]
  /\ b.excCount > 0 =>
       /\ b.svb = HighBits(e, b.bitWidth) /\ b.svbLen = svbNeeded(b)
       /\ IF b.excCount <= excBitmapThreshold
          THEN b.positions = ExcPositions(e, b.bitWidth)
          ELSE b.bitmap = Exceptions(e, b.bitWidth)

(* The value at a position, with its exception's high bits put back.       *)
LEMMA ValueAt ==
  ASSUME NEW n \in 0 .. blockSize, NEW e \in Slice(n), NEW b, Holds(b, e),
         NEW pos \in 0 .. n - 1
  PROVE  getValueDirect(b, pos) = e[pos]
<1> DEFINE bw == b.bitWidth
<1> DEFINE E == Exceptions(e, bw)
<1> DEFINE x == b.excCount
<1> DEFINE r == Rank(E, pos)
<1>1. /\ bw \in StepWidths /\ n \in Nat /\ n <= blockSize /\ blockSize \in Nat
      /\ x = excCount(e, bw) /\ x \in Nat /\ DOMAIN e = 0 .. n - 1
  <2>1. n \in Nat /\ blockSize \in Nat /\ n <= blockSize
    BY Dimensions
  <2> QED BY <2>1, ExceptionFacts, SliceFacts DEF Holds
<1>2. b.payload[pos] = e[pos] % 2 ^ bw
  <2>1. pos \in Pos /\ pos \in DOMAIN e
    BY <1>1 DEF Pos
  <2> QED BY <2>1 DEF Holds
<1>3. IF pos \in E
      THEN /\ r \in 0 .. x - 1
           /\ ExcPositions(e, bw)[r] = pos
           /\ \A q \in 0 .. x - 1 : ExcPositions(e, bw)[q] = pos => q = r
           /\ (e[pos] % 2 ^ bw) + HighBits(e, bw)[r] * 2 ^ bw = e[pos]
      ELSE /\ \A q \in 0 .. x - 1 : ExcPositions(e, bw)[q] # pos
           /\ e[pos] % 2 ^ bw = e[pos]
  BY <1>1, PatchWord
<1>4. e[pos] \in Nat
  BY <1>1, SliceFacts
<1>5. CASE pos \in E
  <2>1. x > 0
    BY <1>1, <1>3, <1>5
  <2>2. isException(b, pos) /\ findExceptionIndex(b, pos) = r
    <3>1. CASE x <= excBitmapThreshold
      <4>1. b.positions = ExcPositions(e, bw)
        BY <2>1, <3>1 DEF Holds
      <4> HIDE DEF r
      <4> QED BY <1>1, <1>3, <1>5, <3>1, <4>1 DEF isException, findExceptionIndex
    <3>2. CASE ~(x <= excBitmapThreshold)
      <4>1. b.bitmap = E
        BY <2>1, <3>2 DEF Holds
      <4> QED BY <1>1, <1>5, <3>2, <4>1 DEF isException, findExceptionIndex
    <3> QED BY <3>1, <3>2
  <2>3. b.svb = HighBits(e, bw)
    BY <2>1 DEF Holds
  <2> HIDE DEF r, E
  <2> QED BY <1>1, <1>2, <1>3, <1>5, <2>2, <2>3 DEF getValueDirect
<1>6. CASE pos \notin E
  <2>1. ~isException(b, pos)
    <3>1. CASE x = 0
      BY <1>1, <3>1, Dimensions DEF isException
    <3>2. CASE x > 0 /\ x <= excBitmapThreshold
      <4>1. b.positions = ExcPositions(e, bw)
        BY <3>2 DEF Holds
      <4> HIDE DEF r, E
      <4> QED BY <1>1, <1>3, <1>6, <3>2, <4>1 DEF isException
    <3>3. CASE x > 0 /\ ~(x <= excBitmapThreshold)
      <4>1. b.bitmap = E
        BY <3>3 DEF Holds
      <4> QED BY <1>1, <1>6, <3>3, <4>1 DEF isException
    <3> QED BY <1>1, <3>1, <3>2, <3>3
  <2> HIDE DEF r, E
  <2>2. getValueDirect(b, pos) = e[pos] + 0
    BY <1>2, <1>3, <1>6, <2>1 DEF getValueDirect
  <2> QED BY <1>4, <2>2
<1> QED BY <1>5, <1>6

(* The words that a reader puts together are those that the block holds.   *)
LEMMA PatchedWords ==
  ASSUME NEW n \in 0 .. blockSize, NEW e \in Slice(n), NEW b, Holds(b, e)
  PROVE  Patched(b) = e
<1>0. n \in Nat
  BY Dimensions
<1>1. b.count = n /\ e = [i \in 0 .. n - 1 |-> e[i]]
  <2>1. b.count = n
    BY <1>0, SliceFacts DEF Holds
  <2>2. e = [i \in 0 .. n - 1 |-> e[i]]
    BY DEF Slice
  <2> QED BY <2>1, <2>2
<1>2. \A i \in 0 .. n - 1 : getValueDirect(b, i) = e[i]
  BY ValueAt
<1> QED BY <1>1, <1>2 DEF Patched

(* The high bits' control bytes describe svbLen bytes.                     *)
LEMMA HighBitsFit ==
  ASSUME NEW n \in 0 .. blockSize, NEW e \in Slice(n), NEW b, Holds(b, e),
         b.excCount > 0
  PROVE  /\ b.svbLen \in Nat /\ b.svbLen <= maxSVBEncodedLen(b.excCount)
         /\ ~(svbNeeded(b) > b.svbLen)
         /\ ~(b.svbLen < svbControlByteCount(b.excCount))
<1> DEFINE x == b.excCount
<1>1. n \in Nat
  BY Dimensions
<1>2. x \in Nat /\ x = excCount(e, b.bitWidth)
  BY <1>1, ExceptionFacts DEF Holds
<1>3. DOMAIN b.svb = 0 .. x - 1 /\ b.svbLen = svbNeeded(b)
  BY <1>2 DEF Holds, HighBits
<1> DEFINE c == svbControlByteCount(x)
<1> DEFINE d == svbDataLen(b.svb)
<1>4. c \in Nat /\ d \in Nat /\ c + d <= maxSVBEncodedLen(x)
  BY <1>2, <1>3, SVBLength
<1>5. svbNeeded(b) = c + d
  BY DEF svbNeeded
<1> HIDE DEF c, d
<1>6. /\ b.svbLen \in Nat /\ b.svbLen <= maxSVBEncodedLen(x)
      /\ ~(svbNeeded(b) > b.svbLen) /\ ~(b.svbLen < c)
  BY <1>3, <1>4, <1>5
<1> QED BY <1>6 DEF c

(* No reader turns away a block whose length is where its regions end, and *)
(* Get tells the positions of the block from all others.                   *)
LEMMA Accepted ==
  ASSUME NEW n \in 0 .. blockSize, NEW e \in Slice(n), NEW b, Holds(b, e),
         NEW u \in BOOLEAN, supportedType(b, u), b.forWidth \in 0 .. 3,
         b.len = readEnd(b, u)
  PROVE  /\ headerError(b, u) = "none"
         /\ \A pos \in Int : getError(b, pos, u) =
              IF pos \in 0 .. n - 1 THEN "none" ELSE "ErrPositionOutOfRange"
         /\ b.len \in Nat /\ b.len >= headerBytes
<1> DEFINE x == b.excCount
<1>1. /\ n \in Nat /\ n <= blockSize /\ blockSize \in Nat
      /\ x \in 0 .. n /\ b.count = n /\ b.bitWidth \in StepWidths
  <2>1. n \in Nat /\ n <= blockSize /\ blockSize \in Nat
    BY Dimensions
  <2> QED BY <2>1, ExceptionFacts, SliceFacts DEF Holds
<1> DEFINE off == readOffset(b, u)
<1> DEFINE body == utlPayloadBytes(b.bitWidth)
<1> DEFINE tail == IF x > 0 THEN excIndexSize(x) + b.svbLen ELSE 0
<1>2. off \in Nat /\ off >= headerBytes
  <2>1. forBaseBytes(b.forWidth) \in Nat
    BY DEF forBaseBytes, forWidthNone, forWidthU8, forWidthU16, forWidthU32
  <2>2. for64BaseSize \in Nat
    BY DEF for64BaseSize
  <2> QED BY <2>1, <2>2 DEF readOffset, payloadOffset, headerBytes, svbLenBytes, block2LenBytes
<1>3. PICK si \in 0 .. 8 : b.bitWidth = StepBits * si
  BY <1>1 DEF StepWidths
<1>4. body \in Nat /\ ~(b.bitWidth > WordBits)
  <2>1. body = si * (4 * LaneCount)
    BY <1>3, PayloadBytes
  <2>2. StepBits \in Nat /\ LaneCount \in Nat
    BY Dimensions
  <2>3. si * (4 * LaneCount) \in Nat
    BY <2>2
  <2>4. ~(StepBits * si > 8 * StepBits)
    BY <2>2
  <2> QED BY <1>3, <2>1, <2>3, <2>4 DEF WordBits
<1>5. tail \in Nat
  <2>1. CASE x > 0
    <3>1. b.svbLen \in Nat /\ excIndexSize(x) \in Nat
      BY <1>1, <2>1, HighBitsFit, IndexBytes, Dimensions
    <3> QED BY <2>1, <3>1
  <2>2. CASE ~(x > 0)
    BY <2>2
  <2> QED BY <2>1, <2>2
<1>6. b.len = off + body + tail
  BY DEF readEnd
<1>7. b.len \in Nat /\ b.len >= headerBytes /\ ~(b.len < headerBytes)
  <2> HIDE DEF off, body, tail
  <2> QED BY <1>2, <1>4, <1>5, <1>6 DEF headerBytes
<1>8. ~(b.len < readEnd(b, u))
  <2> DEFINE end == readEnd(b, u)
  <2>1. b.len = end
    OBVIOUS
  <2> HIDE DEF end
  <2>2. ~(b.len < end)
    BY <1>7, <2>1
  <2> QED BY <2>2 DEF end
<1>9. ~(b.count > blockSize)
  BY <1>1
<1>10. headerError(b, u) = "none"
  BY <1>4, <1>7, <1>8, <1>9 DEF headerError
<1>11. ASSUME NEW pos \in Int
       PROVE  getError(b, pos, u) =
                IF pos \in 0 .. n - 1 THEN "none" ELSE "ErrPositionOutOfRange"
  <2>1. ~(x > b.count)
    BY <1>1
  <2>2. ~(x > 0 /\ b.svbLen < svbControlByteCount(x))
    BY HighBitsFit
  <2> QED BY <1>1, <1>4, <1>7, <1>8, <2>1, <2>2 DEF getError
<1> QED BY <1>7, <1>10, <1>11

(* Prefix sums are what its recursion says they are: words that satisfy it *)
(* are the only ones, lane by lane from the first row on.                  *)
LEMMA SumsAre ==
  ASSUME NEW n \in 0 .. blockSize, NEW e, DOMAIN e = 0 .. n - 1, NEW zz \in BOOLEAN,
         NEW w, DOMAIN w = 0 .. n - 1, w = [i \in DOMAIN w |-> w[i]],
         \A i \in 0 .. n - 1 :
           LET decoded == IF zz THEN zigzagDecode32(e[i]) ELSE e[i]
           IN  w[i] = IF i < LaneCount THEN decoded ELSE Plus(w[i - LaneCount], decoded)
  PROVE  PrefixSums(e, zz) = w
<1> DEFINE delta(i) == IF zz THEN zigzagDecode32(e[i]) ELSE e[i]
<1> DEFINE P(g) == g = [i \in DOMAIN e |-> IF i < LaneCount THEN delta(i)
                                           ELSE Plus(g[i - LaneCount], delta(i))]
<1>1. n \in Nat /\ LaneCount \in Nat \ {0}
  BY Dimensions
<1>2. PrefixSums(e, zz) = CHOOSE g : P(g)
  BY DEF PrefixSums
<1>3. P(w)
  BY Zenon
<1>4. P(PrefixSums(e, zz))
  <2> HIDE DEF P
  <2> QED BY <1>2, <1>3
<1> DEFINE g == PrefixSums(e, zz)
<1>5. /\ DOMAIN g = 0 .. n - 1 /\ g = [i \in 0 .. n - 1 |-> g[i]]
      /\ \A i \in 0 .. n - 1 : g[i] = IF i < LaneCount THEN delta(i)
                                      ELSE Plus(g[i - LaneCount], delta(i))
  <2> HIDE DEF g, delta
  <2>1. g = [i \in 0 .. n - 1 |-> IF i < LaneCount THEN delta(i)
                                  ELSE Plus(g[i - LaneCount], delta(i))]
    BY <1>4 DEF g
  <2> QED BY <2>1
<1> HIDE DEF g
<1> DEFINE T == {i \in 0 .. n - 1 : g[i] # w[i]}
<1>6. T = {}
  <2> SUFFICES ASSUME T # {} PROVE FALSE
    OBVIOUS
  <2>1. T \in SUBSET Nat
    OBVIOUS
  <2>2. PICK t \in T : \A k \in T : t <= k
    <3> HIDE DEF T
    <3> QED BY <2>1, LeastOf
  <2>3. t \in 0 .. n - 1 /\ g[t] # w[t]
    BY <2>2
  <2>4. w[t] = IF t < LaneCount THEN delta(t) ELSE Plus(w[t - LaneCount], delta(t))
    BY <2>3
  <2>5. g[t] = IF t < LaneCount THEN delta(t) ELSE Plus(g[t - LaneCount], delta(t))
    <3> HIDE DEF delta
    <3> QED BY <1>5, <2>3
  <2> HIDE DEF delta
  <2>6. ~(t < LaneCount)
    BY <2>3, <2>4, <2>5
  <2>7. t - LaneCount \in 0 .. n - 1 /\ ~(t <= t - LaneCount)
    BY <1>1, <2>3, <2>6
  <2>8. g[t - LaneCount] = w[t - LaneCount]
    BY <2>2, <2>7
  <2> QED BY <2>3, <2>4, <2>5, <2>6, <2>8
<1>7. \A i \in 0 .. n - 1 : g[i] = w[i]
  BY <1>6
<1>8. w = [i \in 0 .. n - 1 |-> w[i]]
  BY Zenon
<1>9. g = w
  BY <1>5, <1>7, <1>8
<1> QED BY <1>9 DEF g

(* Decoding undoes the coding of a slice, unless zigzag is off although a  *)
(* difference wraps.                                                       *)
LEMMA SumsOfEncoded ==
  ASSUME NEW n \in 0 .. blockSize, NEW s \in Slice(n), NEW v \in Word,
         NEW zz \in BOOLEAN, ~zz => AscendingFrom(forSubtract(s, v), 1)
  PROVE  PrefixSums(Encode(s, v, TRUE, zz), zz) = forSubtract(s, v)
<1> DEFINE w == forSubtract(s, v)
<1> DEFINE e == Encode(s, v, TRUE, zz)
<1>1. n \in Nat /\ w \in Slice(n) /\ e \in Slice(n) /\ LaneCount \in Nat
  <2>1. n \in Nat /\ LaneCount \in Nat
    BY Dimensions
  <2>2. e \in Slice(n)
    BY EncodeType
  <2> QED BY <2>1, <2>2, ForRoundTrip
<1>2. DOMAIN e = 0 .. n - 1 /\ DOMAIN w = 0 .. n - 1 /\ w = [i \in DOMAIN w |-> w[i]]
  <2> HIDE DEF w, e
  <2> QED BY <1>1, SliceFacts DEF Slice
<1>3. ASSUME NEW i \in 0 .. n - 1
      PROVE  LET decoded == IF zz THEN zigzagDecode32(e[i]) ELSE e[i]
             IN  w[i] = IF i < LaneCount THEN decoded ELSE Plus(w[i - LaneCount], decoded)
  <2> DEFINE decoded == IF zz THEN zigzagDecode32(e[i]) ELSE e[i]
  <2>1. /\ i < LaneCount => decoded = w[i]
        /\ i >= LaneCount => Plus(w[i - LaneCount], decoded) = w[i]
    BY DecodedWord
  <2> HIDE DEF decoded, w
  <2>2. w[i] = IF i < LaneCount THEN decoded ELSE Plus(w[i - LaneCount], decoded)
    BY <1>1, <2>1
  <2> QED BY <2>2 DEF decoded
<1> HIDE DEF w, e
<1>4. PrefixSums(e, zz) = w
  BY <1>2, <1>3, SumsAre
<1> QED BY <1>4 DEF w, e

(* A block that holds the coding of a slice stands for the slice, and a    *)
(* reader that adds a base of eight bytes itself is left with the slice's  *)
(* distance from it.                                                       *)
LEMMA DecodesTo ==
  ASSUME NEW n \in 0 .. blockSize, NEW s \in Slice(n), NEW v \in Word,
         NEW d \in BOOLEAN, NEW zz \in BOOLEAN,
         d /\ ~zz => AscendingFrom(forSubtract(s, v), 1),
         NEW b, Holds(b, Encode(s, v, d, zz)), b.delta = d, b.zigzag = zz
  PROVE  /\ ~Overflows(b)
         /\ isFor64SingleBlock(b) => DecodedWords(b) = forSubtract(s, v)
         /\ ~isFor64SingleBlock(b) /\ b.base = v => DecodedWords(b) = s
<1> DEFINE e == Encode(s, v, d, zz)
<1>1. n \in Nat /\ e \in Slice(n) /\ Patched(b) = e
  <2>1. n \in Nat /\ e \in Slice(n)
    BY EncodeType, Dimensions
  <2> QED BY <2>1, PatchedWords
<1> DEFINE sums == IF b.delta THEN PrefixSums(Patched(b), b.zigzag) ELSE Patched(b)
<1>2. sums = forSubtract(s, v)
  <2>1. CASE d
    <3>1. PrefixSums(Encode(s, v, TRUE, zz), zz) = forSubtract(s, v)
      BY <2>1, SumsOfEncoded
    <3>2. d = TRUE
      BY <2>1
    <3> QED BY <1>1, <3>1, <3>2
  <2>2. CASE ~d
    BY <1>1, <2>2 DEF Encode
  <2> QED BY <2>1, <2>2
<1>3. forAdd(forSubtract(s, v), v) = s
  BY <1>1, ForRoundTrip
<1>4. ~Overflows(b)
  <2> SUFFICES ASSUME d, ~zz PROVE AscendingFrom(PrefixSums(Patched(b), FALSE), 1)
    BY DEF Overflows
  <2>1. b.delta /\ b.zigzag = FALSE
    OBVIOUS
  <2>2. PrefixSums(Patched(b), FALSE) = forSubtract(s, v)
    BY <1>2, <2>1
  <2> QED BY <2>2
<1>5. DecodedWords(b) = IF isFor64SingleBlock(b) THEN sums ELSE forAdd(sums, b.base)
  BY DEF DecodedWords
<1> HIDE DEF sums
<1> QED BY <1>2, <1>3, <1>4, <1>5

-----------------------------------------------------------------------------
(* What a block costs. *)

(* Powers of two grow. *)
LEMMA Powers ==
  ASSUME NEW b \in 0 .. WordBits, NEW c \in 0 .. b
  PROVE  /\ 2 ^ c \in Nat \ {0} /\ 2 ^ b \in Nat \ {0} /\ 2 ^ (b - c) \in Nat \ {0}
         /\ 2 ^ b = 2 ^ c * 2 ^ (b - c) /\ 2 ^ c <= 2 ^ b
<1>1. WordBits \in Nat
  BY Dimensions DEF WordBits
<1>2. c \in 0 .. WordBits /\ b - c \in 0 .. WordBits
  BY <1>1
<1>3. /\ 2 ^ c \in Nat \ {0} /\ 2 ^ b \in Nat \ {0} /\ 2 ^ (b - c) \in Nat \ {0}
      /\ 2 ^ b = 2 ^ c * 2 ^ (b - c)
  BY <1>2, PowerAssumption
<1>4. \A p, q \in Nat \ {0} : p <= p * q
  OBVIOUS
<1> QED BY <1>3, <1>4

(* A quotient is below what the divisor is multiplied by. *)
LEMMA QuotientBelow ==
  ASSUME NEW a \in Nat, NEW p \in Nat \ {0}, NEW q \in Nat \ {0}, a < p * q
  PROVE  a \div p \in Nat /\ a \div p < q
<1> DEFINE d == a \div p
<1>1. d \in Nat /\ p * d <= a
  BY SplitWord
<1> HIDE DEF d
<1>2. d < q
  <2> SUFFICES ASSUME ~(d < q) PROVE FALSE
    OBVIOUS
  <2>1. d - q \in Nat
    BY <1>1
  <2>2. p * (d - q) \in Nat
    BY <2>1
  <2>3. p * d = p * q + p * (d - q)
    BY <1>1
  <2>4. p * q \in Nat /\ p * d \in Nat
    BY <1>1
  <2> QED BY <1>1, <2>2, <2>3, <2>4
<1> QED BY <1>1, <1>2 DEF d

(* High bits of delta steps take the bytes that excCostBytesPerValue says: *)
(* no value has a byte beyond them.                                        *)
LEMMA CheapData ==
  ASSUME NEW n \in Nat, NEW high, DOMAIN high = 0 .. n - 1, NEW delta \in 1 .. 8,
         \A r \in 0 .. n - 1 : high[r] \in Nat /\ high[r] < 2 ^ (StepBits * delta)
  PROVE  /\ svbDataLen(high) \in Nat
         /\ svbDataLen(high) <= n * excCostBytesPerValue[delta + 1]
<1> DEFINE WithByte(k) == {r \in DOMAIN high : k = 1 \/ high[r] >= 2 ^ (ByteBits * (k - 1))}
<1>1. IsFiniteSet(0 .. n - 1) /\ Cardinality(0 .. n - 1) = n
  BY FS_Interval
<1>2. ASSUME NEW k PROVE Cardinality(WithByte(k)) \in Nat /\ Cardinality(WithByte(k)) <= n
  <2>1. WithByte(k) \in SUBSET (0 .. n - 1)
    OBVIOUS
  <2> HIDE DEF WithByte
  <2> QED BY <1>1, <2>1, FS_Subset, FS_CardinalityType
<1>3. ASSUME NEW k \in 2 .. 4, delta <= 2 * (k - 1) PROVE Cardinality(WithByte(k)) = 0
  <2>1. ByteBits * (k - 1) = StepBits * (2 * (k - 1)) /\ StepBits \in Nat \ {0}
    BY Dimensions DEF ByteBits
  <2> DEFINE b == StepBits * (2 * (k - 1))
  <2> DEFINE c == StepBits * delta
  <2>2. b \in 0 .. WordBits /\ c \in 0 .. b
    <3>1. StepBits * (2 * (k - 1) - delta) \in Nat /\ StepBits * (8 - 2 * (k - 1)) \in Nat
          /\ StepBits * delta \in Nat /\ StepBits * (2 * (k - 1)) \in Nat
      BY <1>3, <2>1
    <3> QED BY <2>1, <3>1 DEF WordBits
  <2>3. 2 ^ b \in Nat /\ 2 ^ c \in Nat /\ 2 ^ c <= 2 ^ b
    <3> HIDE DEF b, c
    <3> QED BY <2>2, Powers
  <2>4. \A r \in 0 .. n - 1 : ~(high[r] >= 2 ^ (ByteBits * (k - 1)))
    <3> SUFFICES ASSUME NEW r \in 0 .. n - 1 PROVE ~(high[r] >= 2 ^ b)
      BY <2>1
    <3>1. high[r] \in Nat /\ high[r] < 2 ^ c
      OBVIOUS
    <3> HIDE DEF b, c
    <3> QED BY <2>3, <3>1
  <2>5. WithByte(k) = {}
    BY <2>4
  <2> QED BY <2>5, FS_EmptySet
<1>4. svbDataLen(high) = Cardinality(WithByte(1)) + Cardinality(WithByte(2))
                           + Cardinality(WithByte(3)) + Cardinality(WithByte(4))
  BY DEF svbDataLen
<1> DEFINE w(k) == Cardinality(WithByte(k))
<1>5. \A k \in 1 .. 4 : w(k) \in Nat /\ w(k) <= n
  BY <1>2
<1>6. \A k \in 2 .. 4 : delta <= 2 * (k - 1) => w(k) = 0
  BY <1>3
<1>7. svbDataLen(high) = w(1) + w(2) + w(3) + w(4)
  BY <1>4
<1> HIDE DEF w
<1>8. /\ w(1) \in Nat /\ w(2) \in Nat /\ w(3) \in Nat /\ w(4) \in Nat
      /\ w(1) <= n /\ w(2) <= n /\ w(3) <= n /\ w(4) <= n
      /\ (delta <= 2 => w(2) = 0) /\ (delta <= 4 => w(3) = 0) /\ (delta <= 6 => w(4) = 0)
  BY <1>5, <1>6
<1>9. delta \in {1, 2} \/ delta \in {3, 4} \/ delta \in {5, 6} \/ delta \in {7, 8}
  OBVIOUS
<1>10. CASE delta \in {1, 2}
  <2>1. excCostBytesPerValue[delta + 1] = 1
    BY <1>10 DEF excCostBytesPerValue
  <2> QED BY <1>7, <1>8, <1>10, <2>1
<1>11. CASE delta \in {3, 4}
  <2>1. excCostBytesPerValue[delta + 1] = 2
    BY <1>11 DEF excCostBytesPerValue
  <2> QED BY <1>7, <1>8, <1>11, <2>1
<1>12. CASE delta \in {5, 6}
  <2>1. excCostBytesPerValue[delta + 1] = 3
    BY <1>12 DEF excCostBytesPerValue
  <2> QED BY <1>7, <1>8, <1>12, <2>1
<1>13. CASE delta \in {7, 8}
  <2>1. excCostBytesPerValue[delta + 1] = 4
    BY <1>13 DEF excCostBytesPerValue
  <2> QED BY <1>7, <1>8, <2>1
<1> QED BY <1>9, <1>10, <1>11, <1>12, <1>13

(* A step below the top one leaves high bits of the steps in between.      *)
LEMMA HighBitsBelow ==
  ASSUME NEW n \in Nat, NEW e \in Slice(n), NEW si \in 0 .. maxStepIdx(e),
         NEW r \in 0 .. excCount(e, StepBits * si) - 1
  PROVE  /\ HighBits(e, StepBits * si)[r] \in Nat
         /\ HighBits(e, StepBits * si)[r] < 2 ^ (StepBits * (maxStepIdx(e) - si))
<1> DEFINE top == maxStepIdx(e)
<1> DEFINE b == StepBits * top
<1> DEFINE c == StepBits * si
<1> DEFINE i == Nth(Exceptions(e, c), r)
<1>1. top \in 0 .. 8 /\ si \in 0 .. top /\ Exceptions(e, b) = {} /\ StepBits \in Nat
  BY MaxStep, Dimensions
<1>2. /\ Exceptions(e, c) \in SUBSET (0 .. n - 1) /\ Exceptions(e, c) \in SUBSET Nat
      /\ IsFiniteSet(Exceptions(e, c)) /\ excCount(e, c) = Cardinality(Exceptions(e, c))
  BY ExceptionFacts
<1>3. i \in 0 .. n - 1
  BY <1>2, NthInSet
<1>4. DOMAIN e = 0 .. n - 1 /\ e[i] \in Nat
  BY <1>3, SliceFacts
<1>5. b \in 0 .. WordBits /\ c \in 0 .. b /\ b - c = StepBits * (top - si)
  <2> HIDE DEF top
  <2>1. /\ StepBits * top \in Nat /\ StepBits * si \in Nat
        /\ StepBits * (top - si) \in Nat /\ StepBits * (8 - top) \in Nat
    BY <1>1
  <2> QED BY <1>1, <2>1 DEF WordBits
<1> HIDE DEF b, c
<1>6. /\ 2 ^ c \in Nat \ {0} /\ 2 ^ b \in Nat \ {0} /\ 2 ^ (b - c) \in Nat \ {0}
      /\ 2 ^ b = 2 ^ c * 2 ^ (b - c)
  BY <1>5, Powers
<1>7. e[i] < 2 ^ c * 2 ^ (b - c)
  <2>1. ~(e[i] > 2 ^ b - 1)
    BY <1>1, <1>3, <1>4 DEF Exceptions
  <2> QED BY <1>4, <1>6, <2>1
<1>8. e[i] \div 2 ^ c \in Nat /\ e[i] \div 2 ^ c < 2 ^ (b - c)
  BY <1>4, <1>6, <1>7, QuotientBelow
<1>9. HighBits(e, c)[r] = e[i] \div 2 ^ c
  BY DEF HighBits, c
<1> QED BY <1>5, <1>8, <1>9 DEF c

(* Exceptions pay: what the estimate leaves out is nothing, and what it    *)
(* counts is at least what the block takes.                                *)
LEMMA PatchingPays ==
  ASSUME NEW n \in Nat, NEW e \in Slice(n), excCount(e, selectBitWidth(e)) > 0
  PROVE  LET x == excCount(e, selectBitWidth(e))
         IN  svbLenBytes + utlPayloadBytes(selectBitWidth(e))
               + (excIndexSize(x)
                   + (svbControlByteCount(x) + svbDataLen(HighBits(e, selectBitWidth(e)))))
               <= utlPayloadBytes(selectBitWidthNoPatch(e))
<1> DEFINE top == maxStepIdx(e)
<1> DEFINE best == BestStep(e)
<1> DEFINE x == excCount(e, StepBits * best)
<1> DEFINE data == svbDataLen(HighBits(e, StepBits * best))
<1> DEFINE per == excCostBytesPerValue[top - best + 1]
<1>1. top \in 0 .. 8 /\ best \in 0 .. top /\ StepCost(e, top, best) <= StepCost(e, top, top)
  <2>1. top \in 0 .. 8 /\ best \in 0 .. top
    BY MaxStep, BestStepType
  <2>2. top \in 0 .. top
    BY <2>1
  <2> QED BY <2>1, <2>2, BestStepType
<1>2. x \in Nat /\ x > 0 /\ selectBitWidth(e) = StepBits * best
  BY ExceptionFacts DEF selectBitWidth
<1>3. best # top /\ top - best \in 1 .. 8
  <2>1. best # top
    BY <1>2, MaxStep, FS_EmptySet DEF excCount
  <2> HIDE DEF best, top
  <2> QED BY <1>1, <2>1
<1>4. data \in Nat /\ data <= x * per
  <2>1. DOMAIN HighBits(e, StepBits * best) = 0 .. x - 1
    BY DEF HighBits
  <2>2. \A r \in 0 .. x - 1 :
          /\ HighBits(e, StepBits * best)[r] \in Nat
          /\ HighBits(e, StepBits * best)[r] < 2 ^ (StepBits * (top - best))
    BY <1>1, HighBitsBelow
  <2> HIDE DEF x, best, top
  <2> QED BY <1>2, <1>3, <2>1, <2>2, CheapData
<1> DEFINE sw == utlSuperWordBytes
<1> DEFINE idx == excIndexSize(x)
<1> DEFINE ctl == svbControlByteCount(x)
<1>5. StepCost(e, top, best) = 4 + best * sw + (2 + idx + ctl + x * per)
      /\ StepCost(e, top, top) = 4 + top * sw + 0
  <2> HIDE DEF best, top
  <2> QED BY <1>3 DEF StepCost, estimateExceptionCost, headerBytes, svbLenBytes
<1>6. utlPayloadBytes(StepBits * best) = best * sw /\ utlPayloadBytes(StepBits * top) = top * sw
  <2>1. best \in 0 .. 8
    BY <1>1
  <2>2. best \in 0 .. 8 /\ top \in 0 .. 8
    BY <1>1, <2>1
  <2> HIDE DEF best, top
  <2> QED BY <2>2, PayloadBytes DEF utlSuperWordBytes
<1>7. best * sw \in Nat /\ top * sw \in Nat /\ idx \in Nat /\ ctl \in Nat /\ x * per \in Nat
  <2>1. sw \in Nat /\ best \in Nat /\ top \in Nat /\ per \in Nat
    <3>1. top - best + 1 \in 2 .. 9
      BY <1>3
    <3> HIDE DEF top, best
    <3> QED BY <1>1, <3>1, Dimensions DEF utlSuperWordBytes, excCostBytesPerValue
  <2>2. idx \in Nat /\ ctl \in Nat
    BY <1>2, Dimensions DEF excIndexSize, svbControlByteCount
  <2> HIDE DEF sw, best, top, per, x, idx, ctl
  <2> QED BY <1>2, <2>1, <2>2
<1> DEFINE bs == best * sw
<1> DEFINE ts == top * sw
<1> DEFINE cost == x * per
<1>8. 4 + bs + (2 + idx + ctl + cost) <= 4 + ts + 0
  BY <1>1, <1>5
<1>9. 2 + bs + (idx + (ctl + data)) <= ts
  <2>1. /\ bs \in Nat /\ ts \in Nat /\ idx \in Nat /\ ctl \in Nat /\ cost \in Nat
        /\ data \in Nat /\ data <= cost
    BY <1>4, <1>7
  <2> HIDE DEF bs, ts, idx, ctl, cost, data
  <2> QED BY <1>8, <2>1
<1> QED BY <1>2, <1>6, <1>9 DEF selectBitWidthNoPatch, svbLenBytes

(* A block is no longer than the same words packed without exceptions.     *)
LEMMA UnpatchedLength ==
  ASSUME NEW n \in 0 .. blockSize, NEW e \in Slice(n), NEW b, Holds(b, e), NEW v \in Nat,
         b.forWidth = selectFORWidth(v), NEW cb, NEW noPatch \in BOOLEAN,
         b.pOff = payloadOffset(forBaseBytes(b.forWidth), b.excCount > 0, cb),
         b.len = b.pOff + utlPayloadBytes(b.bitWidth)
                   + IF b.excCount > 0 THEN excIndexSize(b.excCount) + b.svbLen ELSE 0,
         b.bitWidth = IF noPatch THEN selectBitWidthNoPatch(e) ELSE selectBitWidth(e)
  PROVE  b.len <= payloadOffset(forBaseBytes(b.forWidth), FALSE, cb)
                    + utlPayloadBytes(selectBitWidthNoPatch(e))
<1> DEFINE x == b.excCount
<1> DEFINE fb == forBaseBytes(b.forWidth)
<1> DEFINE wide == utlPayloadBytes(selectBitWidthNoPatch(e))
<1>1. n \in Nat /\ x = excCount(e, b.bitWidth) /\ x \in Nat
  BY Dimensions, ExceptionFacts DEF Holds
<1>2. /\ selectBitWidthNoPatch(e) \in StepWidths /\ selectBitWidth(e) \in StepWidths
      /\ excCount(e, selectBitWidthNoPatch(e)) = 0
  BY <1>1, NoPatchWidth, PatchWidth
<1>3. fb \in Nat /\ wide \in Nat /\ utlPayloadBytes(selectBitWidth(e)) \in Nat
  BY <1>2, BaseBytes, PayloadType
<1> DEFINE c2 == IF cb THEN block2LenBytes ELSE 0
<1> DEFINE off == payloadOffset(fb, FALSE, cb)
<1>4. off = 4 + 0 + fb + c2 /\ c2 \in Nat
  BY DEF payloadOffset, headerBytes, block2LenBytes
<1>n. off \in Nat
  <2> HIDE DEF off, fb, c2
  <2> QED BY <1>3, <1>4
<1>5. CASE x = 0
  <2>1. (x > 0) = FALSE
    BY <1>5
  <2>2. b.len = payloadOffset(fb, FALSE, cb) + utlPayloadBytes(b.bitWidth) + 0
    BY <2>1
  <2>3. utlPayloadBytes(b.bitWidth) \in Nat /\ utlPayloadBytes(b.bitWidth) <= wide
    <3>1. CASE b.bitWidth = selectBitWidthNoPatch(e)
      BY <1>3, <3>1
    <3>2. CASE b.bitWidth = selectBitWidth(e)
      <4> DEFINE top == maxStepIdx(e)
      <4> DEFINE best == BestStep(e)
      <4>1. top \in 0 .. 8 /\ best \in 0 .. top /\ best \in 0 .. 8
        <5>1. top \in 0 .. 8 /\ best \in 0 .. top
          BY <1>1, MaxStep, BestStepType
        <5> HIDE DEF top, best
        <5> QED BY <5>1
      <4>2. utlPayloadBytes(b.bitWidth) = best * (4 * LaneCount) /\ wide = top * (4 * LaneCount)
        BY <3>2, <4>1, PayloadBytes DEF selectBitWidth, selectBitWidthNoPatch
      <4>3. LaneCount \in Nat
        BY Dimensions
      <4>4. best * (4 * LaneCount) \in Nat /\ (top - best) * (4 * LaneCount) \in Nat
            /\ top * (4 * LaneCount) = best * (4 * LaneCount) + (top - best) * (4 * LaneCount)
        <5> HIDE DEF top, best
        <5> QED BY <4>1, <4>3
      <4> HIDE DEF top, best, wide
      <4> QED BY <1>3, <4>2, <4>4
    <3> QED BY <3>1, <3>2
  <2> DEFINE body == utlPayloadBytes(b.bitWidth)
  <2>4. b.len = off + body + 0 /\ body \in Nat /\ body <= wide
    BY <2>2, <2>3
  <2> HIDE DEF off, wide, body
  <2>5. b.len <= off + wide
    BY <1>3, <1>n, <2>4
  <2> QED BY <2>5 DEF off, wide
<1>6. CASE x > 0
  <2>1. b.bitWidth = selectBitWidth(e) /\ (x > 0) = TRUE
    BY <1>1, <1>2, <1>6
  <2> DEFINE body == utlPayloadBytes(selectBitWidth(e))
  <2> DEFINE idx == excIndexSize(x)
  <2> DEFINE svb == svbControlByteCount(x) + svbDataLen(HighBits(e, selectBitWidth(e)))
  <2>2. svbLenBytes + body + (idx + svb) <= wide
    BY <1>1, <1>6, <2>1, PatchingPays
  <2>3. b.svbLen = svb
    BY <1>6, <2>1 DEF Holds, svbNeeded
  <2>4. b.pOff = 4 + 2 + fb + c2
    BY <2>1 DEF payloadOffset, headerBytes, svbLenBytes
  <2>5. b.len = 4 + 2 + fb + c2 + body + (idx + svb)
    BY <1>6, <2>1, <2>3, <2>4
  <2>6. body \in Nat /\ idx \in Nat /\ svb \in Nat
    <3>1. svb \in Nat
      BY <1>1, <2>1, SVBLength DEF HighBits
    <3>2. idx \in Nat
      BY <1>1, Dimensions DEF excIndexSize
    <3> QED BY <1>3, <3>1, <3>2
  <2> HIDE DEF off, wide, body, idx, svb, fb, c2
  <2>8. b.len <= off + wide
    BY <1>3, <1>4, <2>2, <2>5, <2>6 DEF svbLenBytes
  <2> QED BY <2>8 DEF off, wide, fb
<1>7. x = 0 \/ x > 0
  BY <1>1
<1> QED BY <1>5, <1>6, <1>7, Zenon

(* The width of a word. *)
LEMMA StepOfFacts ==
  ASSUME NEW v \in Word
  PROVE  StepOf(v) \in StepWidths /\ v < 2 ^ StepOf(v)
<1> DEFINE T == {c \in StepWidths : v < 2 ^ c}
<1>1. WordBits \in T
  <2>1. WordBits = StepBits * 8
    BY Dimensions DEF WordBits
  <2>2. WordBits \in StepWidths
    BY <2>1 DEF StepWidths
  <2> QED BY <2>2, Dimensions DEF Word, Modulus
<1>2. T \in SUBSET Nat /\ T # {}
  BY <1>1, Dimensions
<1>3. PICK bw \in T : \A c \in T : bw <= c
  <2> HIDE DEF T
  <2> QED BY <1>2, LeastOf
<1>4. \E w \in StepWidths : v < 2 ^ w /\ \A c \in StepWidths : v < 2 ^ c => w <= c
  BY <1>3
<1> QED BY <1>4 DEF StepOf

(* FOR is used where the words are at least a step narrower without their  *)
(* minimum than the width that packBlock would select for them with it.    *)
LEMMA FORSavesStep ==
  ASSUME NEW n \in Nat \ {0}, NEW s \in Slice(n), UseFOR(s)
  PROVE  maxStepIdx(forSubtract(s, SliceMin(s))) < BestStep(s)
<1> DEFINE lo == SliceMin(s)
<1> DEFINE hi == SliceMax(s)
<1> DEFINE e == forSubtract(s, lo)
<1>1. lo \in Word /\ DOMAIN s = 0 .. n - 1
      /\ \A i \in DOMAIN s : lo <= s[i] /\ s[i] \in Nat /\ s[i] \in Word
  BY SliceMinFacts, SliceFacts
<1>2. hi \in Word /\ lo \in Nat /\ hi \in Nat /\ lo <= hi /\ \A i \in DOMAIN s : s[i] <= hi
  <2>1. ValuesOf(s) \in SUBSET Nat /\ 0 \in DOMAIN s /\ s[0] \in ValuesOf(s)
    BY <1>1 DEF ValuesOf
  <2>2. \A v \in ValuesOf(s) : v \in Word /\ v <= Modulus
    BY <1>1, Dimensions DEF ValuesOf, Word
  <2>3. \E m \in ValuesOf(s) : \A v \in ValuesOf(s) : v <= m
    BY <2>1, <2>2, GreatestOf, Dimensions
  <2>4. hi \in ValuesOf(s) /\ \A v \in ValuesOf(s) : v <= hi
    BY <2>3 DEF SliceMax
  <2>5. \A i \in DOMAIN s : s[i] <= hi
    BY <2>4 DEF ValuesOf
  <2>6. lo \in Nat /\ hi \in Nat
    BY <1>1, <2>1, <2>4, Dimensions DEF Word
  <2>7. lo <= hi
    BY <1>1, <2>1, <2>5, <2>6
  <2> QED BY <2>2, <2>4, <2>5, <2>6, <2>7
<1> DEFINE w == StepOf(hi - lo)
<1>3. w \in StepWidths /\ hi - lo < 2 ^ w
  <2>1. hi - lo \in Word
    <3> HIDE DEF hi, lo
    <3> QED BY <1>1, <1>2, Dimensions DEF Word
  <2> QED BY <2>1, StepOfFacts
<1>4. PICK k \in 0 .. 8 : w = StepBits * k
  BY <1>3 DEF StepWidths
<1>5. e \in Slice(n) /\ DOMAIN e = 0 .. n - 1
  <2>1. e \in Slice(n)
    BY <1>1, ForRoundTrip
  <2> QED BY <2>1 DEF Slice
<1>6. Exceptions(e, StepBits * k) = {}
  <2>1. ASSUME NEW i \in DOMAIN e PROVE ~(e[i] > 2 ^ w - 1)
    <3>1. e[i] = s[i] - lo
      BY <1>1, <1>5, <2>1 DEF forSubtract, Minus
    <3>2. s[i] \in Nat /\ s[i] <= hi /\ lo <= s[i]
      BY <1>1, <1>2, <1>5, <2>1
    <3>3. 2 ^ w \in Nat
      BY <1>3, Dimensions
    <3> HIDE DEF e, hi, lo, w
    <3> QED BY <1>2, <1>3, <3>1, <3>2, <3>3
  <2> QED BY <1>4, <2>1 DEF Exceptions
<1>7. maxStepIdx(e) <= k
  <2>1. /\ maxStepIdx(e) \in 0 .. 8
        /\ \A sj \in 0 .. maxStepIdx(e) - 1 : Exceptions(e, StepBits * sj) # {}
    <3> HIDE DEF e
    <3> QED BY <1>5, MaxStep
  <2> HIDE DEF e
  <2> QED BY <1>6, <2>1
<1>8. StepBits * k < StepBits * BestStep(s)
  BY <1>4 DEF UseFOR, selectBitWidth
<1>9. BestStep(s) \in Nat /\ maxStepIdx(e) \in Nat
  <2>1. BestStep(s) \in Nat
    BY MaxStep, BestStepType
  <2>2. maxStepIdx(e) \in Nat
    <3> HIDE DEF e
    <3> QED BY <1>5, MaxStep
  <2> QED BY <2>1, <2>2
<1>10. k < BestStep(s)
  <2> SUFFICES ASSUME ~(k < BestStep(s)) PROVE FALSE
    OBVIOUS
  <2> DEFINE d == BestStep(s)
  <2>1. d \in Nat /\ k - d \in Nat /\ StepBits \in Nat
    BY <1>9, Dimensions
  <2>2. StepBits * k = StepBits * d + StepBits * (k - d) /\ StepBits * (k - d) \in Nat
        /\ StepBits * d \in Nat
    <3> HIDE DEF d
    <3> QED BY <2>1
  <2>3. StepBits * k < StepBits * d
    BY <1>8
  <2> HIDE DEF d
  <2> QED BY <2>2, <2>3
<1> HIDE DEF e
<1>11. maxStepIdx(e) < BestStep(s)
  BY <1>7, <1>9, <1>10
<1> QED BY <1>11 DEF e

-----------------------------------------------------------------------------
(* The block that packBlock makes. *)

(* The base is a word no larger than any of the slice, and it is not used  *)
(* under NoFOR or when a value is 0.                                       *)
LEMMA BaseFacts ==
  ASSUME NEW n \in Nat \ {0}, NEW s \in Slice(n), NEW f
  PROVE  /\ FORBase(s, f) \in Word
         /\ "NoFOR" \in f => FORBase(s, f) = 0
         /\ FORBase(s, f) # 0 => FORBase(s, f) = SliceMin(s)
         /\ \A i \in DOMAIN s : FORBase(s, f) <= s[i]
<1>1. 0 \in Word /\ \A i \in DOMAIN s : 0 <= s[i]
  BY SliceFacts, Dimensions DEF Word
<1> QED BY <1>1, SliceMinFacts DEF FORBase

(* The fields of a block of n words that is packed under the flags f from  *)
(* the base v, and from the words e that delta coding (d, zz) makes.       *)
PackedFrom(b, n, f, it, cb, v, d, zz, e) ==
  /\ Holds(b, e)
  /\ b.count = n /\ b.intType = it /\ b.combine = cb
  /\ b.delta = d /\ b.zigzag = zz
  /\ b.base = v /\ b.forWidth = selectFORWidth(v)
  /\ b.pOff = payloadOffset(forBaseBytes(b.forWidth), b.excCount > 0, cb)
  /\ b.len = b.pOff + utlPayloadBytes(b.bitWidth)
               + IF b.excCount > 0 THEN excIndexSize(b.excCount) + b.svbLen ELSE 0
  /\ b.bitWidth = IF "NoPatch" \in f THEN selectBitWidthNoPatch(e) ELSE selectBitWidth(e)
  /\ "NoPatch" \in f => b.excCount = 0
  /\ b.special = ("Special" \in f)
  /\ b.excCount = 0 => b.svb = NoValues /\ b.svbLen = 0
  /\ ~(0 < b.excCount /\ b.excCount <= excBitmapThreshold) => b.positions = NoValues
  /\ b.excCount <= excBitmapThreshold => b.bitmap = {}
  /\ DOMAIN b = DOMAIN NoBlock /\ b = [k \in DOMAIN b |-> b[k]]

(* packBlock's block holds the coding of its slice, and header, offset and *)
(* length are what readers and the bound on the length suppose.            *)
LEMMA PackedFacts ==
  ASSUME NEW n \in 1 .. blockSize, NEW s \in Slice(n), NEW f, NEW it, NEW cb
  PROVE  LET v  == FORBase(s, f)
             d  == "Delta" \in f
             zz == d /\ ~AscendingFrom(forSubtract(s, v), 1)
         IN  PackedFrom(PackedBlock(s, f, it, cb), n, f, it, cb, v, d, zz, Encode(s, v, d, zz))
<1> DEFINE v == FORBase(s, f)
<1> DEFINE d == "Delta" \in f
<1> DEFINE zz == d /\ ~AscendingFrom(forSubtract(s, v), 1)
<1> DEFINE e == Encode(s, v, d, zz)
<1> DEFINE h == Framed(s, f, it, cb, v)
<1>1. n \in Nat \ {0} /\ n \in 0 .. blockSize /\ v \in Word /\ SliceLen(s) = n
  <2>1. n \in Nat \ {0} /\ n \in 0 .. blockSize
    BY Dimensions
  <2>2. v \in Word
    BY <2>1, BaseFacts
  <2>3. n \in Nat /\ SliceLen(s) = n
    BY <2>1, SliceFacts
  <2> QED BY <2>1, <2>2, <2>3
<1>2. e \in Slice(n) /\ SliceLen(e) = n /\ DOMAIN e = 0 .. n - 1
  <2>1. e \in Slice(n)
    <3>1. d \in BOOLEAN /\ zz \in BOOLEAN
      OBVIOUS
    <3> HIDE DEF d, zz, v
    <3> QED BY <1>1, <3>1, EncodeType
  <2> HIDE DEF e
  <2> QED BY <1>1, <2>1, SliceFacts
<1>3. /\ h.count = n /\ h.intType = it /\ h.combine = cb /\ h.delta = d /\ h.zigzag = zz
      /\ h.base = v /\ h.forWidth = selectFORWidth(v) /\ h.excCount = 0
      /\ h.svbLen = 0 /\ h.special = ("Special" \in f)
      /\ h.svb = NoValues /\ h.positions = NoValues /\ h.bitmap = {}
      /\ DOMAIN h = DOMAIN NoBlock
  BY <1>1 DEF Framed, NoBlock
<1>4. PackedBlock(s, f, it, cb) = PackedWords(h, e, "NoPatch" \in f)
  BY <1>3 DEF PackedBlock
<1> DEFINE bw == IF "NoPatch" \in f THEN selectBitWidthNoPatch(e) ELSE selectBitWidth(e)
<1> DEFINE x == excCount(e, bw)
<1>5. bw \in StepWidths /\ x \in Nat /\ ("NoPatch" \in f => x = 0)
  <2> HIDE DEF e
  <2> QED BY <1>1, <1>2, NoPatchWidth, PatchWidth, ExceptionFacts
<1> DEFINE off == payloadOffset(forBaseBytes(selectFORWidth(v)), x > 0, cb)
<1> DEFINE p == [i \in Pos |-> IF i \in DOMAIN e THEN e[i] % 2 ^ bw ELSE 0]
<1> DEFINE w == WithPayload(h, e, bw, x > 0)
<1>6. /\ w.count = n /\ w.intType = it /\ w.combine = cb /\ w.delta = d /\ w.zigzag = zz
      /\ w.base = v /\ w.forWidth = selectFORWidth(v) /\ w.excCount = 0 /\ w.svbLen = 0
      /\ w.bitWidth = bw /\ w.pOff = off /\ w.len = off + utlPayloadBytes(bw)
      /\ w.payload = p /\ w.special = ("Special" \in f)
      /\ w.svb = NoValues /\ w.positions = NoValues /\ w.bitmap = {}
      /\ DOMAIN w = DOMAIN NoBlock /\ w = [k \in DOMAIN w |-> w[k]]
  <2>1. {"bitWidth", "pOff", "len", "payload"} \subseteq DOMAIN h
    BY <1>3 DEF NoBlock
  <2> HIDE DEF e, bw, h, v, d, zz
  <2>2. w = [k \in DOMAIN w |-> w[k]]
    BY DEF WithPayload
  <2>3. w.bitWidth = bw /\ w.pOff = off /\ w.len = off + utlPayloadBytes(bw) /\ w.payload = p
    BY <1>3, <2>1 DEF WithPayload
  <2>4. /\ w.count = n /\ w.intType = it /\ w.combine = cb /\ w.delta = d /\ w.zigzag = zz
        /\ w.base = v /\ w.forWidth = selectFORWidth(v) /\ w.excCount = 0 /\ w.svbLen = 0
        /\ DOMAIN w = DOMAIN NoBlock
    BY <1>3, <2>1 DEF WithPayload
  <2>5. /\ w.special = ("Special" \in f)
        /\ w.svb = NoValues /\ w.positions = NoValues /\ w.bitmap = {}
    BY <1>3, <2>1 DEF WithPayload
  <2> QED BY <2>2, <2>3, <2>4, <2>5
<1> DEFINE b == PackedBlock(s, f, it, cb)
<1>7. CASE x = 0
  <2>1. b = w
    <3>1. (x > 0) = FALSE
      BY <1>7
    <3>2. w = WithPayload(h, e, bw, FALSE)
      BY <3>1
    <3> HIDE DEF h, e, w
    <3>3. CASE "NoPatch" \in f
      BY <1>4, <3>2, <3>3 DEF PackedWords
    <3>4. CASE "NoPatch" \notin f
      BY <1>4, <1>7, <3>2, <3>4 DEF PackedWords, Patch
    <3> QED BY <3>3, <3>4
  <2> HIDE DEF h, e, w, bw, p, v, d, zz, b
  <2>2. Holds(b, e)
    BY <1>2, <1>5, <1>6, <1>7, <2>1 DEF Holds, p
  <2>3. b.excCount = 0 /\ ~(b.excCount > 0) /\ (b.excCount > 0) = (x > 0)
    BY <1>6, <1>7, <2>1
  <2>4. b.len = b.pOff + utlPayloadBytes(b.bitWidth) + 0
    <3>1. b.len = off + utlPayloadBytes(bw) /\ b.pOff = off /\ b.bitWidth = bw
      BY <1>6, <2>1
    <3>2. off \in Nat /\ utlPayloadBytes(bw) \in Nat
      BY <1>1, <1>5, PayloadType DEF Word
    <3> HIDE DEF off
    <3> QED BY <3>1, <3>2
  <2>5. b.bitWidth = IF "NoPatch" \in f THEN selectBitWidthNoPatch(e) ELSE selectBitWidth(e)
    BY <1>6, <2>1 DEF bw
  <2>6. /\ b.svb = NoValues /\ b.svbLen = 0 /\ b.positions = NoValues /\ b.bitmap = {}
        /\ b.special = ("Special" \in f) /\ b = [k \in DOMAIN b |-> b[k]]
    BY <1>6, <2>1
  <2>7. /\ b.pOff = payloadOffset(forBaseBytes(b.forWidth), b.excCount > 0, cb)
        /\ b.len = b.pOff + utlPayloadBytes(b.bitWidth)
                     + IF b.excCount > 0 THEN excIndexSize(b.excCount) + b.svbLen ELSE 0
    BY <1>6, <2>1, <2>3, <2>4
  <2>8. PackedFrom(b, n, f, it, cb, v, d, zz, e)
    BY <1>6, <2>1, <2>2, <2>3, <2>5, <2>6, <2>7 DEF PackedFrom
  <2> QED BY <2>8 DEF e, v, d, zz, b
<1>8. CASE x > 0
  <2> DEFINE E == Exceptions(e, bw)
  <2> DEFINE high == HighBits(e, bw)
  <2> DEFINE len == svbControlByteCount(x) + svbDataLen(high)
  <2>1. b = WithExceptions(w, E, high) /\ Cardinality(E) = x /\ "NoPatch" \notin f
    <3>1. (x > 0) = TRUE /\ x # 0 /\ "NoPatch" \notin f
      BY <1>5, <1>8
    <3>2. w = WithPayload(h, e, bw, TRUE)
      BY <3>1
    <3>3. Cardinality(E) = x
      BY DEF excCount
    <3> HIDE DEF h, e, w, E, high
    <3> QED BY <1>4, <3>1, <3>2, <3>3 DEF PackedWords, Patch, E, high
  <2>2. [r \in 0 .. x - 1 |-> Nth(E, r)] = ExcPositions(e, bw)
    BY DEF ExcPositions
  <2> DEFINE idx == excIndexSize(x)
  <2> HIDE DEF h, e, w, bw, p, v, d, zz, b, E, high
  <2>3. /\ b.count = n /\ b.intType = it /\ b.combine = cb /\ b.delta = d /\ b.zigzag = zz
        /\ b.base = v /\ b.forWidth = selectFORWidth(v)
        /\ b.bitWidth = bw /\ b.pOff = off /\ b.payload = p /\ DOMAIN b = DOMAIN NoBlock
        /\ b.special = ("Special" \in f) /\ b = [k \in DOMAIN b |-> b[k]]
        /\ b.excCount = x /\ b.svb = high /\ b.svbLen = len
        /\ b.len = off + utlPayloadBytes(bw) + (idx + len)
        /\ IF x <= excBitmapThreshold THEN b.positions = ExcPositions(e, bw) ELSE b.bitmap = E
        /\ x <= excBitmapThreshold => b.bitmap = {}
        /\ ~(x <= excBitmapThreshold) => b.positions = NoValues
    <3>1. {"excCount", "svb", "svbLen", "positions", "bitmap", "len"} \subseteq DOMAIN w
      BY <1>6 DEF NoBlock
    <3> HIDE DEF x, len, off
    <3>2. CASE x <= excBitmapThreshold
      <4>1. b = [w EXCEPT !.excCount = x, !.svb = high, !.svbLen = len,
                          !.positions = ExcPositions(e, bw), !.len = @ + (x + len)]
        BY <2>1, <2>2, <3>2 DEF WithExceptions, len
      <4>2. idx = x
        BY <3>2 DEF excIndexSize
      <4>3. b = [k \in DOMAIN b |-> b[k]]
        BY <4>1
      <4>4. b.special = ("Special" \in f) /\ b.bitmap = {}
        BY <1>6, <3>1, <4>1
      <4>5. /\ b.count = n /\ b.intType = it /\ b.combine = cb /\ b.delta = d /\ b.zigzag = zz
            /\ b.base = v /\ b.forWidth = selectFORWidth(v)
            /\ b.bitWidth = bw /\ b.pOff = off /\ b.payload = p /\ DOMAIN b = DOMAIN NoBlock
            /\ b.excCount = x /\ b.svb = high /\ b.svbLen = len
            /\ b.len = off + utlPayloadBytes(bw) + (idx + len)
            /\ b.positions = ExcPositions(e, bw)
        BY <1>6, <3>1, <4>1, <4>2
      <4> QED BY <3>2, <4>3, <4>4, <4>5
    <3>3. CASE ~(x <= excBitmapThreshold)
      <4>1. b = [w EXCEPT !.excCount = x, !.svb = high, !.svbLen = len,
                          !.bitmap = E, !.len = @ + (excBitmapThreshold + len)]
        BY <2>1, <3>3 DEF WithExceptions, len
      <4>2. idx = excBitmapThreshold
        BY <3>3 DEF excIndexSize
      <4>3. b = [k \in DOMAIN b |-> b[k]]
        BY <4>1
      <4>4. b.special = ("Special" \in f) /\ b.positions = NoValues
        BY <1>6, <3>1, <4>1
      <4>5. /\ b.count = n /\ b.intType = it /\ b.combine = cb /\ b.delta = d /\ b.zigzag = zz
            /\ b.base = v /\ b.forWidth = selectFORWidth(v)
            /\ b.bitWidth = bw /\ b.pOff = off /\ b.payload = p /\ DOMAIN b = DOMAIN NoBlock
            /\ b.excCount = x /\ b.svb = high /\ b.svbLen = len
            /\ b.len = off + utlPayloadBytes(bw) + (idx + len)
            /\ b.bitmap = E
        BY <1>6, <3>1, <4>1, <4>2
      <4> QED BY <3>3, <4>3, <4>4, <4>5
    <3> QED BY <3>2, <3>3
  <2>4. Holds(b, e)
    <3>1. svbNeeded(b) = len
      BY <2>3 DEF svbNeeded
    <3> QED BY <1>2, <1>5, <2>3, <3>1 DEF Holds, p, E, high
  <2>5. (b.excCount > 0) = (x > 0) /\ b.excCount > 0
    BY <1>8, <2>3
  <2>6. b.len = b.pOff + utlPayloadBytes(b.bitWidth) + (excIndexSize(b.excCount) + b.svbLen)
    BY <2>3
  <2>7. /\ b.excCount = 0 => b.svb = NoValues /\ b.svbLen = 0
        /\ ~(0 < b.excCount /\ b.excCount <= excBitmapThreshold) => b.positions = NoValues
        /\ b.excCount <= excBitmapThreshold => b.bitmap = {}
    BY <1>8, <2>3, <2>5
  <2>8. /\ b.pOff = payloadOffset(forBaseBytes(b.forWidth), b.excCount > 0, cb)
        /\ b.len = b.pOff + utlPayloadBytes(b.bitWidth)
                     + IF b.excCount > 0 THEN excIndexSize(b.excCount) + b.svbLen ELSE 0
    BY <2>3, <2>5, <2>6
  <2>9. b.bitWidth = IF "NoPatch" \in f THEN selectBitWidthNoPatch(e) ELSE selectBitWidth(e)
    BY <2>3 DEF bw
  <2>10. PackedFrom(b, n, f, it, cb, v, d, zz, e)
    BY <2>1, <2>3, <2>4, <2>7, <2>8, <2>9 DEF PackedFrom
  <2> QED BY <2>10 DEF e, v, d, zz, b
<1>9. x = 0 \/ x > 0
  BY <1>5
<1> QED BY <1>7, <1>8, <1>9, Zenon

-----------------------------------------------------------------------------
(* What the readers make of the block that packBlock makes. *)

(* A reader accepts b and finds the n words s in it.                       *)
ReadAs(b, n, s, u) ==
  /\ b.count = n /\ b.excCount \in 0 .. n
  /\ b.pOff = readOffset(b, u) /\ b.len = readEnd(b, u) /\ b.len \in Nat
  /\ UnpackedBlock(b, u) = Ok(s) /\ DecodedWords(b) = s
  /\ \A pos \in Int : getError(b, pos, u) =
       IF pos \in 0 .. n - 1 THEN "none" ELSE "ErrPositionOutOfRange"

(* A block that packBlock makes is accepted, found to be as long as it is, *)
(* and stands for its slice, unless it would be taken for one with an      *)
(* 8-byte base.                                                            *)
LEMMA PackedReads ==
  ASSUME NEW n \in 1 .. blockSize, NEW s \in Slice(n), NEW f, NEW it, NEW cb \in BOOLEAN,
         NEW u \in BOOLEAN, NEW b, b = PackedBlock(s, f, it, cb),
         supportedType(b, u), cb => u, ~isFor64SingleBlock(b)
  PROVE  ReadAs(b, n, s, u) /\ b.intType = it /\ b.combine = cb
<1> DEFINE v == FORBase(s, f)
<1> DEFINE d == "Delta" \in f
<1> DEFINE zz == d /\ ~AscendingFrom(forSubtract(s, v), 1)
<1> DEFINE e == Encode(s, v, d, zz)
<1>1. PackedFrom(b, n, f, it, cb, v, d, zz, e)
  BY PackedFacts
<1>2. /\ n \in Nat \ {0} /\ n \in 0 .. blockSize /\ v \in Word
      /\ d \in BOOLEAN /\ zz \in BOOLEAN /\ (d /\ ~zz => AscendingFrom(forSubtract(s, v), 1))
  <2>1. n \in Nat \ {0} /\ n \in 0 .. blockSize
    BY Dimensions
  <2>2. v \in Word
    BY <2>1, BaseFacts
  <2> QED BY <2>1, <2>2
<1>3. e \in Slice(n)
  <2> HIDE DEF v, d, zz
  <2> QED BY <1>2, EncodeType
<1>4. /\ Holds(b, e) /\ b.delta = d /\ b.zigzag = zz /\ b.base = v
      /\ b.count = n /\ b.intType = it /\ b.combine = cb /\ b.forWidth = selectFORWidth(v)
      /\ b.pOff = payloadOffset(forBaseBytes(b.forWidth), b.excCount > 0, cb)
      /\ b.len = b.pOff + utlPayloadBytes(b.bitWidth)
                   + IF b.excCount > 0 THEN excIndexSize(b.excCount) + b.svbLen ELSE 0
  <2> HIDE DEF v, d, zz, e
  <2> QED BY <1>1 DEF PackedFrom
<1>5. ~Overflows(b) /\ DecodedWords(b) = s
  <2>1. Holds(b, Encode(s, v, d, zz))
    BY <1>4
  <2> HIDE DEF v, d, zz, e
  <2> QED BY <1>2, <1>4, <2>1, DecodesTo
<1>6. b.pOff = readOffset(b, u)
  <2>1. (u /\ isFor64SingleBlock(b)) = FALSE
    OBVIOUS
  <2>2. (u /\ b.combine) = cb
    BY <1>4
  <2>3. readOffset(b, u) = payloadOffset(forBaseBytes(b.forWidth), b.excCount > 0, cb)
    BY <2>1, <2>2, Zenon DEF readOffset
  <2> HIDE DEF v, d, zz, e
  <2> QED BY <1>4, <2>3, Zenon
<1>7. b.len = readEnd(b, u)
  <2> HIDE DEF v, d, zz, e
  <2> QED BY <1>4, <1>6 DEF readEnd
<1>8. b.forWidth \in 0 .. 3
  <2>1. v \in Nat
    BY <1>2, Dimensions DEF Word
  <2> HIDE DEF v, d, zz, e
  <2> QED BY <1>4, <2>1, BaseBytes
<1> HIDE DEF v, d, zz, e
<1>9. /\ headerError(b, u) = "none" /\ b.len \in Nat
      /\ \A pos \in Int : getError(b, pos, u) =
           IF pos \in 0 .. n - 1 THEN "none" ELSE "ErrPositionOutOfRange"
  BY <1>2, <1>3, <1>4, <1>7, <1>8, Accepted
<1>10. b.excCount \in 0 .. n
  BY <1>2, <1>3, <1>4, ExceptionFacts DEF Holds
<1>11. ~(b.excCount > b.count) /\ ~(b.excCount > 0 /\ svbNeeded(b) > b.svbLen)
  <2>1. ~(b.excCount > b.count)
    BY <1>2, <1>4, <1>10
  <2> QED BY <1>2, <1>3, <1>4, <2>1, HighBitsFit
<1>12. UnpackedBlock(b, u) = Ok(s)
  BY <1>5, <1>9, <1>11 DEF UnpackedBlock
<1> QED BY <1>4, <1>5, <1>6, <1>7, <1>9, <1>10, <1>12 DEF ReadAs

(* A header says how its block was packed. *)
HeaderSays(b, n, s, f, it, cb) ==
  /\ b.count = n /\ b.intType = it /\ b.combine = cb
  /\ b.forWidth = selectFORWidth(FORBase(s, f))
  /\ b = [k \in DOMAIN b |-> b[k]]

(* So does that of packBlock's block. *)
LEMMA PackedHeader ==
  ASSUME NEW n \in 1 .. blockSize, NEW s \in Slice(n), NEW f, NEW it, NEW cb,
         NEW b, b = PackedBlock(s, f, it, cb)
  PROVE  HeaderSays(b, n, s, f, it, cb)
<1> DEFINE v == FORBase(s, f)
<1> DEFINE d == "Delta" \in f
<1> DEFINE zz == d /\ ~AscendingFrom(forSubtract(s, v), 1)
<1> DEFINE e == Encode(s, v, d, zz)
<1>1. PackedFrom(b, n, f, it, cb, v, d, zz, e)
  BY PackedFacts
<1> HIDE DEF d, zz, e
<1>2. /\ b.count = n /\ b.intType = it /\ b.combine = cb
      /\ b.forWidth = selectFORWidth(v)
  BY <1>1 DEF PackedFrom
<1>3. b = [k \in DOMAIN b |-> b[k]]
  BY <1>1 DEF PackedFrom
<1> QED BY <1>2, <1>3 DEF HeaderSays

(* No block has more exceptions than words. *)
LEMMA PackedExceptions ==
  ASSUME NEW n \in 1 .. blockSize, NEW s \in Slice(n), NEW f, NEW it, NEW cb,
         NEW b, b = PackedBlock(s, f, it, cb)
  PROVE  b.excCount \in 0 .. n
<1> DEFINE v == FORBase(s, f)
<1> DEFINE d == "Delta" \in f
<1> DEFINE zz == d /\ ~AscendingFrom(forSubtract(s, v), 1)
<1> DEFINE e == Encode(s, v, d, zz)
<1>1. Holds(b, e)
  BY PackedFacts DEF PackedFrom
<1>2. n \in Nat \ {0} /\ n \in Nat
  BY Dimensions
<1>3. v \in Word /\ d \in BOOLEAN /\ zz \in BOOLEAN
  BY <1>2, BaseFacts
<1>4. e \in Slice(n)
  <2> HIDE DEF v, d, zz
  <2> QED BY <1>2, <1>3, EncodeType
<1> HIDE DEF e
<1> QED BY <1>1, <1>2, <1>4, ExceptionFacts DEF Holds

(* What packBlock asks ensureLen for is within the bound of its flags, but *)
(* for the two bytes in which a first block holds the second one's length, *)
(* and the block takes no more.                                            *)
LEMMA PackedLength ==
  ASSUME NEW n \in 1 .. blockSize, NEW s \in Slice(n), NEW f, NEW it, NEW cb \in BOOLEAN,
         NEW b, b = PackedBlock(s, f, it, cb)
  PROVE  LET room == b.pOff + utlPayloadBytes(b.bitWidth)
                       + IF b.excCount = 0 THEN 0
                         ELSE excIndexSize(b.excCount) + maxSVBEncodedLen(b.excCount)
         IN  /\ room \in Nat /\ b.len \in Nat /\ b.len <= room
             /\ room <= MaxBlockLength32(f) + IF cb THEN 2 ELSE 0
<1> DEFINE v == FORBase(s, f)
<1> DEFINE d == "Delta" \in f
<1> DEFINE zz == d /\ ~AscendingFrom(forSubtract(s, v), 1)
<1> DEFINE e == Encode(s, v, d, zz)
<1>1. PackedFrom(b, n, f, it, cb, v, d, zz, e)
  BY PackedFacts
<1>2. /\ n \in Nat \ {0} /\ n \in 0 .. blockSize /\ v \in Word
      /\ d \in BOOLEAN /\ zz \in BOOLEAN /\ ("NoFOR" \in f => v = 0)
  <2>1. n \in Nat \ {0} /\ n \in 0 .. blockSize
    BY Dimensions
  <2>2. v \in Word /\ ("NoFOR" \in f => v = 0)
    BY <2>1, BaseFacts
  <2> QED BY <2>1, <2>2
<1>3. e \in Slice(n)
  <2> HIDE DEF v, d, zz
  <2> QED BY <1>2, EncodeType
<1> HIDE DEF v, d, zz, e
<1> DEFINE x == b.excCount
<1> DEFINE bw == b.bitWidth
<1> DEFINE fb == forBaseBytes(selectFORWidth(v))
<1>4. /\ Holds(b, e) /\ b.forWidth = selectFORWidth(v)
      /\ b.pOff = payloadOffset(fb, x > 0, cb)
      /\ b.len = b.pOff + utlPayloadBytes(bw) + IF x > 0 THEN excIndexSize(x) + b.svbLen ELSE 0
      /\ ("NoPatch" \in f => x = 0)
  BY <1>1 DEF PackedFrom
<1>5. bw \in StepWidths /\ x = excCount(e, bw) /\ x \in 0 .. n /\ x \in Nat
  <2>1. bw \in StepWidths /\ x = excCount(e, bw)
    BY <1>4 DEF Holds
  <2>2. x \in 0 .. n
    BY <1>2, <1>3, <2>1, ExceptionFacts
  <2> QED BY <1>2, <2>1, <2>2
<1> DEFINE room == IF x = 0 THEN 0 ELSE excIndexSize(x) + maxSVBEncodedLen(x)
<1> DEFINE tail == IF x > 0 THEN excIndexSize(x) + b.svbLen ELSE 0
<1> DEFINE body == utlPayloadBytes(bw)
<1> DEFINE off == payloadOffset(fb, x > 0, FALSE)
<1> DEFINE extra == IF cb THEN 2 ELSE 0
<1> DEFINE bound == MaxBlockLength32(f)
<1>6. off + body + room <= bound
  <2>1. x \in {0, excCount(e, bw)}
    BY <1>5
  <2> HIDE DEF x, bw
  <2> QED BY <1>2, <1>3, <1>4, <1>5, <2>1, BoundedLength
<1>7. body \in Nat /\ off \in Nat /\ bound \in Nat
  <2>1. v \in Nat
    BY <1>2, Dimensions DEF Word
  <2> HIDE DEF x, bw
  <2> QED BY <1>5, <2>1, PayloadType, BoundType
<1>8. b.pOff = off + extra /\ extra \in Nat
  <2>1. fb \in Nat
    BY <1>2, BaseBytes, Dimensions DEF Word
  <2> HIDE DEF fb
  <2>2. CASE x > 0
    <3>1. (x > 0) = TRUE
      BY <2>2
    <3>2. CASE cb
      BY <1>4, <2>1, <3>1, <3>2 DEF payloadOffset, headerBytes, svbLenBytes, block2LenBytes
    <3>3. CASE ~cb
      BY <1>4, <2>1, <3>1, <3>3 DEF payloadOffset, headerBytes, svbLenBytes, block2LenBytes
    <3> QED BY <3>2, <3>3
  <2>3. CASE ~(x > 0)
    <3>1. (x > 0) = FALSE
      BY <2>3
    <3>2. CASE cb
      BY <1>4, <2>1, <3>1, <3>2 DEF payloadOffset, headerBytes, svbLenBytes, block2LenBytes
    <3>3. CASE ~cb
      BY <1>4, <2>1, <3>1, <3>3 DEF payloadOffset, headerBytes, svbLenBytes, block2LenBytes
    <3> QED BY <3>2, <3>3
  <2> QED BY <2>2, <2>3
<1>9. tail \in Nat /\ room \in Nat /\ tail <= room
  <2>1. CASE x > 0
    <3> DEFINE m == maxSVBEncodedLen(x)
    <3>1. b.svbLen \in Nat /\ b.svbLen <= m
      BY <1>2, <1>3, <1>4, <2>1, HighBitsFit
    <3>2. excIndexSize(x) \in Nat
      BY <1>5, IndexBytes, Dimensions
    <3>3. m \in Nat /\ x # 0
      BY <1>5, <2>1 DEF maxSVBEncodedLen, svbControlByteCount
    <3> HIDE DEF m
    <3>4. room = excIndexSize(x) + m /\ tail = excIndexSize(x) + b.svbLen
      BY <2>1, <3>3 DEF m
    <3> HIDE DEF room, tail
    <3> QED BY <3>1, <3>2, <3>3, <3>4
  <2>2. CASE x = 0
    <3>1. ~(x > 0)
      BY <2>2
    <3> QED BY <2>2, <3>1
  <2> QED BY <1>5, <2>1, <2>2
<1>10. b.len = off + extra + body + tail
  BY <1>4, <1>8
<1>11. /\ off + extra + body + room \in Nat /\ b.len \in Nat
       /\ b.len <= off + extra + body + room
       /\ off + extra + body + room <= bound + extra
  <2> HIDE DEF off, extra, body, tail, room, bound
  <2> QED BY <1>6, <1>7, <1>8, <1>9, <1>10
<1> QED BY <1>8, <1>11

(* The block of FOR64: packed without a base of four bytes, then moved by  *)
(* eight bytes to make room for one of eight, which its readers add.       *)
WithBase64(b, m) ==
  [b EXCEPT !.forWidth = forWidthU32, !.base = m,
            !.pOff = @ + for64BaseSize, !.len = @ + for64BaseSize]

(* Where the payload of a single block begins, after a base of 0, 4 or 8   *)
(* bytes.                                                                  *)
LEMMA OffsetsAre ==
  /\ payloadOffset(0, TRUE, FALSE) = 6 /\ payloadOffset(0, FALSE, FALSE) = 4
  /\ payloadOffset(4, TRUE, FALSE) = 10 /\ payloadOffset(4, FALSE, FALSE) = 8
  /\ payloadOffset(8, TRUE, FALSE) = 14 /\ payloadOffset(8, FALSE, FALSE) = 12
BY DEF payloadOffset, headerBytes, svbLenBytes

(* What moving a block does to its fields. *)
Moved(b, p, m) ==
  /\ b.count = p.count /\ b.bitWidth = p.bitWidth /\ b.excCount = p.excCount
  /\ b.payload = p.payload /\ b.svb = p.svb /\ b.svbLen = p.svbLen
  /\ b.positions = p.positions /\ b.bitmap = p.bitmap
  /\ b.delta = p.delta /\ b.zigzag = p.zigzag /\ b.intType = p.intType
  /\ b.combine = p.combine
  /\ b.forWidth = forWidthU32 /\ b.base = m
  /\ b.pOff = p.pOff + for64BaseSize /\ b.len = p.len + for64BaseSize

(* A block moved so has these fields.                                      *)
LEMMA WithBaseMoves ==
  ASSUME NEW p, NEW m, DOMAIN p = DOMAIN NoBlock
  PROVE  Moved(WithBase64(p, m), p, m)
<1>1. {"forWidth", "base", "pOff", "len"} \subseteq DOMAIN p
  BY DEF NoBlock
<1> QED BY <1>1 DEF Moved, WithBase64

(* A reader finds the words s over the base m of eight bytes.              *)
ReadAsFor64(b, n, s, m) ==
  ReadAs(b, n, s, TRUE) /\ isFor64SingleBlock(b) /\ b.combine = FALSE /\ b.base = m

(* Readers find the words of a moved block that was packed without a base. *)
LEMMA MovedReads ==
  ASSUME NEW n \in Nat \ {0}, n \in 0 .. blockSize, NEW s \in Slice(n), NEW f, NEW m,
         NEW b, NEW p, NEW v \in Word, v = 0, NEW d \in BOOLEAN, NEW zz \in BOOLEAN,
         (d /\ ~zz) => AscendingFrom(forSubtract(s, v), 1),
         NEW e \in Slice(n), e = Encode(s, v, d, zz),
         PackedFrom(p, n, f, IntTypeUint64, FALSE, v, d, zz, e), Moved(b, p, m)
  PROVE  ReadAsFor64(b, n, s, m)
<1>2. n \in Nat
  OBVIOUS
<1>5. /\ Holds(p, e) /\ p.delta = d /\ p.zigzag = zz /\ p.count = n
      /\ p.intType = IntTypeUint64 /\ p.combine = FALSE /\ p.forWidth = selectFORWidth(v)
      /\ p.pOff = payloadOffset(forBaseBytes(p.forWidth), p.excCount > 0, FALSE)
      /\ p.len = p.pOff + utlPayloadBytes(p.bitWidth)
                   + IF p.excCount > 0 THEN excIndexSize(p.excCount) + p.svbLen ELSE 0
      /\ DOMAIN p = DOMAIN NoBlock
  BY DEF PackedFrom
<1>6. /\ b.count = p.count /\ b.bitWidth = p.bitWidth /\ b.excCount = p.excCount
      /\ b.payload = p.payload /\ b.svb = p.svb /\ b.svbLen = p.svbLen
      /\ b.positions = p.positions /\ b.bitmap = p.bitmap
      /\ b.delta = p.delta /\ b.zigzag = p.zigzag /\ b.intType = p.intType
      /\ b.combine = p.combine
  BY DEF Moved
<1>7. /\ b.forWidth = forWidthU32 /\ b.base = m /\ b.pOff = p.pOff + 8 /\ b.len = p.len + 8
  BY DEF Moved, for64BaseSize
<1>8. Holds(b, e)
  <2>1. svbNeeded(b) = svbNeeded(p)
    BY <1>6 DEF svbNeeded
  <2> QED BY <1>5, <1>6, <2>1 DEF Holds
<1>9. isFor64SingleBlock(b)
  BY <1>5, <1>6, <1>7 DEF isFor64SingleBlock
<1>10. DecodedWords(b) = s /\ ~Overflows(b)
  <2>1. Holds(b, Encode(s, v, d, zz))
    BY <1>8
  <2>2. ~Overflows(b) /\ DecodedWords(b) = forSubtract(s, v)
    BY <1>2, <1>5, <1>6, <1>9, <2>1, DecodesTo
  <2> QED BY <1>2, <2>2, ForRoundTrip
<1> DEFINE x == b.excCount
<1>11. x \in 0 .. n /\ x \in Nat /\ b.bitWidth \in StepWidths
  BY <1>2, <1>8, ExceptionFacts DEF Holds
<1> DEFINE off == readOffset(b, TRUE)
<1>12. p.pOff \in Nat /\ off = p.pOff + 8
  <2>1. forBaseBytes(p.forWidth) = 0
    <3>1. v \in Nat
      BY Dimensions DEF Word
    <3> QED BY <1>5, <3>1, BaseBytes
  <2>2. CASE x > 0
    <3>1. (p.excCount > 0) = TRUE /\ (b.excCount > 0) = TRUE
      BY <1>6, <2>2
    <3>2. p.pOff = payloadOffset(0, TRUE, FALSE)
      BY <1>5, <2>1, <3>1
    <3>3. (TRUE /\ b.combine) = FALSE
      BY <1>5, <1>6
    <3>4. readOffset(b, TRUE) = payloadOffset(8, TRUE, FALSE)
      BY <1>9, <3>1, <3>3, Zenon DEF readOffset, for64BaseSize
    <3>5. p.pOff = 6 /\ off = 14
      BY <3>2, <3>4, OffsetsAre, Zenon DEF off
    <3> HIDE DEF off
    <3> QED BY <2>2, <3>5
  <2>3. CASE ~(x > 0)
    <3>1. (p.excCount > 0) = FALSE /\ (b.excCount > 0) = FALSE
      BY <1>6, <2>3
    <3>2. p.pOff = payloadOffset(0, FALSE, FALSE)
      BY <1>5, <2>1, <3>1
    <3>3. (TRUE /\ b.combine) = FALSE
      BY <1>5, <1>6
    <3>4. readOffset(b, TRUE) = payloadOffset(8, FALSE, FALSE)
      BY <1>9, <3>1, <3>3, Zenon DEF readOffset, for64BaseSize
    <3>5. p.pOff = 4 /\ off = 12
      BY <3>2, <3>4, OffsetsAre, Zenon DEF off
    <3> HIDE DEF off
    <3> QED BY <2>3, <3>5
  <2> QED BY <2>2, <2>3
<1>13. b.pOff = off
  <2> HIDE DEF off
  <2> QED BY <1>7, <1>12
<1> DEFINE body == utlPayloadBytes(b.bitWidth)
<1> DEFINE tail == IF x > 0 THEN excIndexSize(x) + b.svbLen ELSE 0
<1>14. body \in Nat /\ tail \in Nat
  <2>1. body \in Nat
    BY <1>11, PayloadType
  <2>2. CASE x > 0
    <3>1. b.svbLen \in Nat /\ excIndexSize(x) \in Nat
      BY <1>2, <1>8, <1>11, <2>2, HighBitsFit, IndexBytes, Dimensions
    <3> QED BY <2>1, <2>2, <3>1
  <2>3. CASE ~(x > 0)
    BY <2>1, <2>3
  <2> QED BY <2>2, <2>3
<1>15. b.len = readEnd(b, TRUE)
  <2>1. p.len = p.pOff + body + tail
    BY <1>5, <1>6
  <2>2. readEnd(b, TRUE) = readOffset(b, TRUE) + body + tail
    BY DEF readEnd
  <2> HIDE DEF body, tail, off
  <2>4. b.len = off + body + tail
    BY <1>7, <1>12, <1>14, <2>1
  <2> QED BY <2>2, <2>4 DEF off
<1>16. supportedType(b, TRUE) /\ b.forWidth \in 0 .. 3
  BY <1>5, <1>6, <1>7 DEF supportedType, forWidthU32
<1>17. /\ headerError(b, TRUE) = "none" /\ b.len \in Nat
       /\ \A pos \in Int : getError(b, pos, TRUE) =
            IF pos \in 0 .. n - 1 THEN "none" ELSE "ErrPositionOutOfRange"
  <2>1. TRUE \in BOOLEAN
    OBVIOUS
  <2> QED BY <1>2, <1>8, <1>15, <1>16, <2>1, Accepted
<1>18. ~(b.excCount > b.count) /\ ~(b.excCount > 0 /\ svbNeeded(b) > b.svbLen)
  <2>1. ~(b.excCount > b.count)
    BY <1>2, <1>5, <1>6, <1>11
  <2> QED BY <1>2, <1>8, <2>1, HighBitsFit
<1>19. UnpackedBlock(b, TRUE) = Ok(s)
  BY <1>10, <1>17, <1>18 DEF UnpackedBlock
<1> QED BY <1>5, <1>6, <1>7, <1>9, <1>10, <1>11, <1>13, <1>15, <1>17, <1>19 DEF ReadAs, ReadAsFor64

(* So they do in the block of FOR64.                                       *)
LEMMA WrappedReads ==
  ASSUME NEW n \in 1 .. blockSize, NEW s \in Slice(n), NEW f, "NoFOR" \in f, NEW m, NEW b,
         b = WithBase64(PackedBlock(s, f, IntTypeUint64, FALSE), m)
  PROVE  ReadAsFor64(b, n, s, m)
<1> DEFINE p == PackedBlock(s, f, IntTypeUint64, FALSE)
<1> DEFINE v == FORBase(s, f)
<1> DEFINE d == "Delta" \in f
<1> DEFINE zz == d /\ ~AscendingFrom(forSubtract(s, v), 1)
<1> DEFINE e == Encode(s, v, d, zz)
<1>1. PackedFrom(p, n, f, IntTypeUint64, FALSE, v, d, zz, e)
  BY PackedFacts
<1>2. Moved(b, p, m)
  <2>1. DOMAIN p = DOMAIN NoBlock
    BY <1>1 DEF PackedFrom
  <2> HIDE DEF p
  <2>2. b = WithBase64(p, m)
    BY DEF p
  <2> QED BY <2>1, <2>2, WithBaseMoves
<1>3. /\ n \in Nat \ {0} /\ n \in 0 .. blockSize /\ v \in Word /\ v = 0
      /\ d \in BOOLEAN /\ zz \in BOOLEAN /\ (d /\ ~zz => AscendingFrom(forSubtract(s, v), 1))
  <2>1. n \in Nat \ {0} /\ n \in 0 .. blockSize
    BY Dimensions
  <2>2. v \in Word /\ v = 0
    BY <2>1, BaseFacts
  <2> QED BY <2>1, <2>2
<1>4. e \in Slice(n)
  <2> HIDE DEF v, d, zz
  <2> QED BY <1>3, EncodeType
<1>5. e = Encode(s, v, d, zz)
  OBVIOUS
<1> HIDE DEF p, v, d, zz, e
<1>6. (d /\ ~zz) => AscendingFrom(forSubtract(s, v), 1)
  BY <1>3
<1> QED BY <1>1, <1>2, <1>3, <1>4, <1>5, <1>6, MovedReads, Zenon

(* A block of 64 bits with a base of four bytes is taken for one with      *)
(* eight: it seems to end four bytes after its end, and no reader goes on. *)
LEMMA MistakenBlock ==
  ASSUME NEW n \in 1 .. blockSize, NEW s \in Slice(n), NEW f, NEW b, b.len \in Nat,
         NEW v \in Word, NEW d \in BOOLEAN, NEW zz \in BOOLEAN, NEW e, e = Encode(s, v, d, zz),
         PackedFrom(b, n, f, IntTypeUint64, FALSE, v, d, zz, e), b.forWidth = forWidthU32
  PROVE  /\ headerError(b, TRUE) # "none"
         /\ \A pos : getError(b, pos, TRUE) # "none"
<1> DEFINE tail == IF b.excCount > 0 THEN excIndexSize(b.excCount) + b.svbLen ELSE 0
<1> DEFINE body == utlPayloadBytes(b.bitWidth)
<1>2. /\ b.intType = IntTypeUint64 /\ b.combine = FALSE
      /\ b.pOff = payloadOffset(forBaseBytes(b.forWidth), b.excCount > 0, FALSE)
      /\ b.len = b.pOff + body + tail
  BY DEF PackedFrom
<1>3. isFor64SingleBlock(b)
  BY <1>2 DEF isFor64SingleBlock
<1>4. forBaseBytes(b.forWidth) = 4
  BY DEF forBaseBytes, forWidthNone, forWidthU8, forWidthU16, forWidthU32
<1> DEFINE off == readOffset(b, TRUE)
<1>5. b.pOff \in Nat /\ off = b.pOff + 4
  <2>0. (TRUE /\ b.combine) = FALSE
    BY <1>2
  <2>1. CASE b.excCount > 0
    <3>1. (b.excCount > 0) = TRUE
      BY <2>1
    <3>2. b.pOff = payloadOffset(4, TRUE, FALSE)
      BY <1>2, <1>4, <3>1
    <3>3. readOffset(b, TRUE) = payloadOffset(8, TRUE, FALSE)
      BY <1>3, <2>0, <3>1, Zenon DEF readOffset, for64BaseSize
    <3>4. b.pOff = 10 /\ off = 14
      BY <3>2, <3>3, OffsetsAre, Zenon DEF off
    <3> HIDE DEF off
    <3> QED BY <3>4
  <2>2. CASE ~(b.excCount > 0)
    <3>1. (b.excCount > 0) = FALSE
      BY <2>2
    <3>2. b.pOff = payloadOffset(4, FALSE, FALSE)
      BY <1>2, <1>4, <3>1
    <3>3. readOffset(b, TRUE) = payloadOffset(8, FALSE, FALSE)
      BY <1>3, <2>0, <3>1, Zenon DEF readOffset, for64BaseSize
    <3>4. b.pOff = 8 /\ off = 12
      BY <3>2, <3>3, OffsetsAre, Zenon DEF off
    <3> HIDE DEF off
    <3> QED BY <3>4
  <2> QED BY <2>1, <2>2
<1>6. b.len \in Nat /\ body \in Nat /\ tail \in Nat
  <2>1. n \in Nat \ {0}
    BY Dimensions
  <2>2. n \in Nat /\ n \in 0 .. blockSize
    BY <2>1, Dimensions
  <2>3. e \in Slice(n) /\ Holds(b, e)
    BY <2>1, <2>2, EncodeType DEF PackedFrom
  <2>4. body \in Nat
    BY <2>3, PayloadType DEF Holds
  <2>5. tail \in Nat
    <3>1. CASE b.excCount > 0
      <4>1. b.svbLen \in Nat /\ b.excCount \in Nat
        BY <2>2, <2>3, <3>1, HighBitsFit, ExceptionFacts DEF Holds
      <4>2. excIndexSize(b.excCount) \in Nat
        BY <4>1, Dimensions DEF excIndexSize
      <4> QED BY <3>1, <4>1, <4>2
    <3>2. CASE ~(b.excCount > 0)
      BY <3>2
    <3> QED BY <3>1, <3>2
  <2> QED BY <2>4, <2>5
<1> DEFINE end == readEnd(b, TRUE)
<1>7. b.len < end
  <2>1. end = b.pOff + 4 + body + tail
    <3>1. end = off + body + tail
      BY DEF readEnd
    <3> HIDE DEF end, off, body, tail
    <3> QED BY <1>5, <1>6, <3>1
  <2>2. b.len = b.pOff + body + tail
    BY <1>2
  <2> HIDE DEF end, off, body, tail
  <2> QED BY <1>5, <1>6, <2>1, <2>2
<1> HIDE DEF end
<1>8. b.len < readEnd(b, TRUE)
  BY <1>7 DEF end
<1> QED BY <1>8 DEF headerError, getError

(* So is any that packUint64* make with such a base.                       *)
LEMMA MistakenBase ==
  ASSUME NEW n \in 1 .. blockSize, NEW s \in Slice(n), NEW f, NEW b,
         b = PackedBlock(s, f, IntTypeUint64, FALSE), b.forWidth = forWidthU32
  PROVE  /\ headerError(b, TRUE) # "none"
         /\ \A pos : getError(b, pos, TRUE) # "none"
<1> DEFINE v == FORBase(s, f)
<1> DEFINE d == "Delta" \in f
<1> DEFINE zz == d /\ ~AscendingFrom(forSubtract(s, v), 1)
<1> DEFINE e == Encode(s, v, d, zz)
<1>1. PackedFrom(b, n, f, IntTypeUint64, FALSE, v, d, zz, e)
  BY PackedFacts
<1>2. v \in Word /\ d \in BOOLEAN /\ zz \in BOOLEAN
  <2>1. n \in Nat \ {0}
    BY Dimensions
  <2> QED BY <2>1, BaseFacts
<1>3. b.len \in Nat
  <2>1. FALSE \in BOOLEAN
    OBVIOUS
  <2> QED BY <2>1, PackedLength
<1> HIDE DEF v, d, zz
<1> QED BY <1>1, <1>2, <1>3, MistakenBlock
=============================================================================

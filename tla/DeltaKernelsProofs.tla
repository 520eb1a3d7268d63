------------------------- MODULE DeltaKernelsProofs -------------------------
(***************************************************************************)
(* DeltaInv is an invariant of DeltaKernels: for all numbers of lanes that *)
(* fill vectors, all words and all levels, the kernels compute differences *)
(* and prefix sums, and find the same overflow.                            *)
(***************************************************************************)
EXTENDS DeltaKernelsInv, UTLBlockFacts

-----------------------------------------------------------------------------
(* Rows and columns. *)

(* A position is given by its row and its column.                          *)
LEMMA PlaceOf ==
  ASSUME NEW r \in Nat, NEW c \in 0 .. LaneCount - 1
  PROVE  /\ c + r * LaneCount \in Nat
         /\ RowOf(c + r * LaneCount) = r /\ ColOf(c + r * LaneCount) = c
<1>1. LaneCount \in Nat \ {0}
  BY Dimensions
<1>2. c + r * LaneCount \in Nat
  BY <1>1
<1>3. (c + r * LaneCount) \div LaneCount = r /\ (c + r * LaneCount) % LaneCount = c
  BY <1>1
<1> QED BY <1>2, <1>3 DEF RowOf, ColOf

(* Every position has a row and a column.                                  *)
LEMMA Places ==
  ASSUME NEW i \in Nat
  PROVE  /\ RowOf(i) \in Nat /\ ColOf(i) \in 0 .. LaneCount - 1
         /\ i = ColOf(i) + RowOf(i) * LaneCount
<1>1. LaneCount \in Nat \ {0}
  BY Dimensions
<1> QED BY <1>1 DEF RowOf, ColOf

(* Positions are ordered by their rows, and within a row by their columns. *)
LEMMA Order ==
  ASSUME NEW i \in Nat, NEW r \in Nat, NEW c \in 0 .. LaneCount
  PROVE  i < c + r * LaneCount <=> (RowOf(i) < r \/ (RowOf(i) = r /\ ColOf(i) < c))
<1> DEFINE k == RowOf(i)
<1> DEFINE m == ColOf(i)
<1>1. LaneCount \in Nat \ {0}
  BY Dimensions
<1>2. k \in Nat /\ m \in 0 .. LaneCount - 1 /\ i = m + k * LaneCount
  BY Places
<1> HIDE DEF k, m
<1>3. k * LaneCount \in Nat /\ r * LaneCount \in Nat
  BY <1>1, <1>2
<1>4. CASE k < r
  <2>1. (k + 1) * LaneCount <= r * LaneCount
    BY <1>1, <1>2, <1>4
  <2>2. (k + 1) * LaneCount = k * LaneCount + LaneCount
    BY <1>1, <1>2
  <2> QED BY <1>1, <1>2, <1>3, <1>4, <2>1, <2>2 DEF k, m
<1>5. CASE k = r
  BY <1>1, <1>2, <1>3, <1>5 DEF k, m
<1>6. CASE k > r
  <2>1. (r + 1) * LaneCount <= k * LaneCount
    BY <1>1, <1>2, <1>6
  <2>2. (r + 1) * LaneCount = r * LaneCount + LaneCount
    BY <1>1
  <2>3. ~(i < c + r * LaneCount)
    BY <1>1, <1>2, <1>3, <2>1, <2>2
  <2> QED BY <1>2, <1>6, <2>3 DEF k, m
<1> QED BY <1>2, <1>4, <1>5, <1>6

(* A block has eight rows; the word above one is in the row above, in the  *)
(* same column.                                                            *)
LEMMA Above ==
  ASSUME NEW i \in Nat
  PROVE  /\ i < blockSize => RowOf(i) \in Rows
         /\ i < LaneCount <=> RowOf(i) = 0
         /\ i >= LaneCount => /\ i - LaneCount \in Nat
                              /\ RowOf(i - LaneCount) = RowOf(i) - 1
                              /\ ColOf(i - LaneCount) = ColOf(i)
<1>1. LaneCount \in Nat \ {0} /\ blockSize = 8 * LaneCount /\ utlValuesPerLane = 8
  BY Dimensions
<1>2. RowOf(i) \in Nat /\ ColOf(i) \in 0 .. LaneCount - 1 /\ i = ColOf(i) + RowOf(i) * LaneCount
  BY Places
<1>3. i < 0 + 8 * LaneCount <=> (RowOf(i) < 8 \/ (RowOf(i) = 8 /\ ColOf(i) < 0))
  BY <1>1, Order
<1>4. i < 0 + 1 * LaneCount <=> (RowOf(i) < 1 \/ (RowOf(i) = 1 /\ ColOf(i) < 0))
  BY <1>1, Order
<1>5. ASSUME i >= LaneCount
      PROVE  /\ i - LaneCount \in Nat
             /\ RowOf(i - LaneCount) = RowOf(i) - 1 /\ ColOf(i - LaneCount) = ColOf(i)
  <2>1. RowOf(i) - 1 \in Nat
    BY <1>1, <1>2, <1>4, <1>5
  <2>2. i - LaneCount = ColOf(i) + (RowOf(i) - 1) * LaneCount
    <3> DEFINE k == RowOf(i)
    <3> DEFINE m == ColOf(i)
    <3>1. k \in Nat /\ m \in 0 .. LaneCount - 1 /\ i = m + k * LaneCount
      BY <1>2
    <3> HIDE DEF k, m
    <3>2. (k - 1) * LaneCount = k * LaneCount - LaneCount /\ k * LaneCount \in Nat
      BY <1>1, <3>1
    <3>3. i - LaneCount = m + (k - 1) * LaneCount
      BY <1>1, <3>1, <3>2
    <3> QED BY <3>3 DEF k, m
  <2>3. RowOf(ColOf(i) + (RowOf(i) - 1) * LaneCount) = RowOf(i) - 1
        /\ ColOf(ColOf(i) + (RowOf(i) - 1) * LaneCount) = ColOf(i)
    BY <1>2, <2>1, PlaceOf
  <2> QED BY <1>1, <1>5, <2>2, <2>3
<1>6. i < blockSize => RowOf(i) \in Rows
  <2>1. i < blockSize => RowOf(i) < 8
    BY <1>1, <1>2, <1>3
  <2> QED BY <1>1, <1>2, <2>1 DEF Rows
<1>7. i < LaneCount <=> RowOf(i) = 0
  BY <1>1, <1>2, <1>4
<1> QED BY <1>5, <1>6, <1>7

(* A lane of a row is a position, and the word above it is in the row      *)
(* above.                                                                  *)
LEMMA LaneOfRow ==
  ASSUME NEW r \in 1 .. 7, NEW l \in Lanes
  PROVE  /\ r * LaneCount + l \in Pos /\ r * LaneCount + l >= LaneCount
         /\ RowOf(r * LaneCount + l) = r /\ ColOf(r * LaneCount + l) = l
         /\ (r - 1) * LaneCount + l = r * LaneCount + l - LaneCount
<1> DEFINE b == r * LaneCount
<1> DEFINE i == l + b
<1>1. /\ LaneCount \in Nat \ {0} /\ blockSize = 8 * LaneCount /\ r \in Nat /\ 0 \in 0 .. LaneCount
      /\ l \in 0 .. LaneCount - 1
  BY Dimensions DEF Lanes
<1>2. b \in Nat /\ b >= LaneCount /\ (r - 1) * LaneCount = b - LaneCount
  BY <1>1, RowFacts
<1>3. i \in Nat /\ RowOf(i) = r /\ ColOf(i) = l
  BY <1>1, PlaceOf
<1> HIDE DEF b
<1>4. b + l = i
  BY <1>1, <1>2
<1>5. i < 0 + 8 * LaneCount
  BY <1>1, <1>3, Order, 8 \in Nat
<1> HIDE DEF i
<1>6. i \in Pos /\ i >= LaneCount
  BY <1>1, <1>2, <1>3, <1>4, <1>5 DEF Pos
<1>7. (r - 1) * LaneCount + l = b + l - LaneCount
  BY <1>1, <1>2
<1> QED BY <1>3, <1>4, <1>6, <1>7 DEF b

(* Every position of a row is one of its lanes.                            *)
LEMMA RowHasLane ==
  ASSUME NEW r \in 1 .. 7, NEW i \in Nat, RowOf(i) = r
  PROVE  /\ ColOf(i) \in Lanes /\ r * LaneCount + ColOf(i) = i
         /\ (r - 1) * LaneCount + ColOf(i) = i - LaneCount
<1> DEFINE l == ColOf(i)
<1>1. LaneCount \in Nat \ {0} /\ l \in 0 .. LaneCount - 1 /\ i = l + r * LaneCount
  BY Places, Dimensions
<1>2. l \in Lanes
  BY <1>1 DEF Lanes
<1> HIDE DEF l
<1>3. r * LaneCount \in Nat
  BY <1>1
<1>4. r * LaneCount + l = i
  BY <1>1, <1>3
<1>5. (r - 1) * LaneCount + l = i - LaneCount
  <2> DEFINE a == (r - 1) * LaneCount + l
  <2> DEFINE b == r * LaneCount + l
  <2>1. a = b - LaneCount
    BY <1>1
  <2>2. b = i
    BY <1>4
  <2> HIDE DEF a, b
  <2>3. a = i - LaneCount
    BY <2>1, <2>2
  <2> QED BY <2>3 DEF a
<1> QED BY <1>2, <1>4, <1>5 DEF l

-----------------------------------------------------------------------------
(* Words and sums. *)

(* Adding and undoing zigzag stay within a word.                           *)
LEMMA SumWord ==
  ASSUME NEW a \in Word, NEW b \in Word
  PROVE  Plus(a, b) \in Word /\ zigzagDecode32(a) \in Word
<1>1. Modulus \in Nat \ {0}
  BY Dimensions
<1>2. Plus(a, b) \in Word
  BY <1>1 DEF Word, Plus
<1>3. zigzagDecode32(a) \in Word
  BY <1>1 DEF Word, zigzagDecode32
<1> QED BY <1>2, <1>3

(* One round of additions: words of the row above, whatever they are.      *)
Added(d, g) ==
  [i \in DOMAIN d |-> IF i < LaneCount THEN d[i] ELSE Plus(g[i - LaneCount], d[i])]

(* A round makes words of words, and two rounds agree on one row more than *)
(* what they started from.                                                 *)
LEMMA AddedFacts ==
  ASSUME NEW n \in 0 .. blockSize, NEW d \in Slice(n), NEW g \in Slice(n), NEW h \in Slice(n),
         NEW r \in Nat, \A i \in 0 .. n - 1 : RowOf(i) < r => g[i] = h[i]
  PROVE  /\ Added(d, g) \in Slice(n) /\ Added(d, h) \in Slice(n)
         /\ \A i \in 0 .. n - 1 : RowOf(i) < r + 1 => Added(d, g)[i] = Added(d, h)[i]
<1>1. /\ n \in Nat /\ LaneCount \in Nat \ {0}
      /\ DOMAIN d = 0 .. n - 1 /\ \A i \in 0 .. n - 1 : d[i] \in Word
      /\ \A i \in 0 .. n - 1 : g[i] \in Word /\ h[i] \in Word
  BY Dimensions, SliceFacts
<1>2. ASSUME NEW i \in 0 .. n - 1, ~(i < LaneCount)
      PROVE  /\ i - LaneCount \in 0 .. n - 1
             /\ Plus(g[i - LaneCount], d[i]) \in Word /\ Plus(h[i - LaneCount], d[i]) \in Word
             /\ RowOf(i) < r + 1 => g[i - LaneCount] = h[i - LaneCount]
  <2>1. i - LaneCount \in 0 .. n - 1 /\ i \in Nat
    BY <1>1, <1>2
  <2>2. RowOf(i - LaneCount) = RowOf(i) - 1 /\ RowOf(i) \in Nat
    <3>1. i \in Nat /\ i >= LaneCount
      BY <1>1, <1>2, <2>1
    <3> QED BY <3>1, Above, Places
  <2>3. RowOf(i) < r + 1 => RowOf(i - LaneCount) < r
    BY <2>2
  <2> QED BY <1>1, <2>1, <2>3, SumWord
<1>3. \A i \in 0 .. n - 1 :
        /\ Added(d, g)[i] = IF i < LaneCount THEN d[i] ELSE Plus(g[i - LaneCount], d[i])
        /\ Added(d, h)[i] = IF i < LaneCount THEN d[i] ELSE Plus(h[i - LaneCount], d[i])
  BY <1>1 DEF Added
<1>4. Added(d, g) \in Slice(n)
  BY <1>1, <1>2 DEF Added, Slice
<1>5. Added(d, h) \in Slice(n)
  BY <1>1, <1>2 DEF Added, Slice
<1>6. \A i \in 0 .. n - 1 : RowOf(i) < r + 1 => Added(d, g)[i] = Added(d, h)[i]
  BY <1>2, <1>3
<1> QED BY <1>4, <1>5, <1>6

(* The words that PrefixSums adds up.                                      *)
Deltas(e, zz) == [i \in DOMAIN e |-> IF zz THEN zigzagDecode32(e[i]) ELSE e[i]]

(* Eight rounds settle the eight rows of a block: there are words that     *)
(* satisfy the recursion of PrefixSums, so these are its sums.             *)
LEMMA SumsFacts ==
  ASSUME NEW n \in 0 .. blockSize, NEW e \in Slice(n), NEW zz \in BOOLEAN
  PROVE  /\ PrefixSums(e, zz) \in Slice(n) /\ Deltas(e, zz) \in Slice(n)
         /\ \A i \in 0 .. n - 1 :
              PrefixSums(e, zz)[i] =
                IF i < LaneCount THEN Deltas(e, zz)[i]
                ELSE Plus(PrefixSums(e, zz)[i - LaneCount], Deltas(e, zz)[i])
<1> DEFINE d == Deltas(e, zz)
<1>1. n \in Nat /\ DOMAIN e = 0 .. n - 1 /\ \A i \in 0 .. n - 1 : e[i] \in Word
  BY Dimensions, SliceFacts
<1>2. \A i \in 0 .. n - 1 : (IF zz THEN zigzagDecode32(e[i]) ELSE e[i]) \in Word
  BY <1>1, SumWord
<1>3. d \in Slice(n)
  BY <1>1, <1>2 DEF Deltas, Slice
<1>4. DOMAIN d = 0 .. n - 1 /\ \A i \in 0 .. n - 1 : d[i] = IF zz THEN zigzagDecode32(e[i]) ELSE e[i]
  BY <1>1 DEF Deltas
<1> HIDE DEF d
<1> DEFINE s1 == Added(d, d)
<1> DEFINE s2 == Added(d, s1)
<1> DEFINE s3 == Added(d, s2)
<1> DEFINE s4 == Added(d, s3)
<1> DEFINE s5 == Added(d, s4)
<1> DEFINE s6 == Added(d, s5)
<1> DEFINE s7 == Added(d, s6)
<1> DEFINE s8 == Added(d, s7)
<1> DEFINE Agree(f, g, r) == f \in Slice(n) /\ g \in Slice(n) /\ \A i \in 0 .. n - 1 : RowOf(i) < r => f[i] = g[i]
<1>5. ASSUME NEW f, NEW g, NEW r \in Nat, Agree(f, g, r)
      PROVE  Agree(Added(d, f), Added(d, g), r + 1)
  BY <1>3, <1>5, AddedFacts
<1>6. Agree(d, s1, 1)
  <2>1. s1 \in Slice(n)
    <3>1. \A i \in 0 .. n - 1 : RowOf(i) < 0 => d[i] = d[i]
      OBVIOUS
    <3> QED BY <1>3, <3>1, AddedFacts, 0 \in Nat
  <2>2. ASSUME NEW i \in 0 .. n - 1, RowOf(i) < 1 PROVE d[i] = s1[i]
    <3>1. i \in Nat
      BY <1>1
    <3>2. RowOf(i) \in Nat /\ (i < LaneCount <=> RowOf(i) = 0)
      BY <3>1, Above, Places
    <3>3. i < LaneCount
      BY <2>2, <3>2
    <3> QED BY <1>4, <3>3 DEF Added
  <2> QED BY <1>3, <2>1, <2>2
<1> HIDE DEF Agree
<1>7. Agree(s1, s2, 2)
  <2>1. Agree(s1, s2, 1 + 1)
    BY <1>5, <1>6
  <2> QED BY <2>1
<1> HIDE DEF s1
<1>8. Agree(s2, s3, 3)
  <2>1. Agree(s2, s3, 2 + 1)
    BY <1>5, <1>7
  <2> QED BY <2>1
<1> HIDE DEF s2
<1>9. Agree(s3, s4, 4)
  <2>1. Agree(s3, s4, 3 + 1)
    BY <1>5, <1>8
  <2> QED BY <2>1
<1> HIDE DEF s3
<1>10. Agree(s4, s5, 5)
  <2>1. Agree(s4, s5, 4 + 1)
    BY <1>5, <1>9
  <2> QED BY <2>1
<1> HIDE DEF s4
<1>11. Agree(s5, s6, 6)
  <2>1. Agree(s5, s6, 5 + 1)
    BY <1>5, <1>10
  <2> QED BY <2>1
<1> HIDE DEF s5
<1>12. Agree(s6, s7, 7)
  <2>1. Agree(s6, s7, 6 + 1)
    BY <1>5, <1>11
  <2> QED BY <2>1
<1> HIDE DEF s6
<1>13. Agree(s7, s8, 8)
  <2>1. Agree(s7, s8, 7 + 1)
    BY <1>5, <1>12
  <2> QED BY <2>1
<1>14. s7 \in Slice(n) /\ \A i \in 0 .. n - 1 : s7[i] = s8[i]
  <2>1. ASSUME NEW i \in 0 .. n - 1 PROVE RowOf(i) < 8
    <3>1. i \in Nat /\ i < blockSize
      BY <1>1, Dimensions
    <3> QED BY <3>1, Above, Dimensions DEF Rows
  <2> QED BY <1>13, <2>1 DEF Agree
<1>15. \A i \in 0 .. n - 1 : s8[i] = IF i < LaneCount THEN d[i] ELSE Plus(s7[i - LaneCount], d[i])
  <2> HIDE DEF s7
  <2> QED BY <1>4 DEF Added
<1> HIDE DEF s7, s8
<1>16. DOMAIN s7 = 0 .. n - 1 /\ s7 = [i \in DOMAIN s7 |-> s7[i]]
  BY <1>14 DEF Slice
<1>17. \A i \in 0 .. n - 1 :
         LET decoded == IF zz THEN zigzagDecode32(e[i]) ELSE e[i]
         IN  s7[i] = IF i < LaneCount THEN decoded ELSE Plus(s7[i - LaneCount], decoded)
  BY <1>4, <1>14, <1>15
<1>18. PrefixSums(e, zz) = s7
  BY <1>1, <1>16, <1>17, SumsAre
<1> QED BY <1>3, <1>14, <1>15, <1>18 DEF d

-----------------------------------------------------------------------------
(* Slices. *)

(* The positions of a slice are words and places of a block.               *)
LEMMA Shape ==
  ASSUME NEW n \in 1 .. blockSize, NEW v \in Slice(n)
  PROVE  /\ n \in Nat /\ n \in 0 .. blockSize /\ n >= 1
         /\ DOMAIN v = 0 .. n - 1 /\ SliceLen(v) = n
         /\ \A i \in 0 .. n - 1 : v[i] \in Word
         /\ \A i \in 0 .. n - 1 : i \in Nat /\ i < n /\ i < blockSize
         /\ \A i \in 0 .. n - 1 : /\ RowOf(i) \in Nat /\ RowOf(i) < 8
                                  /\ ColOf(i) \in 0 .. LaneCount - 1
<1>1. n \in Nat /\ n \in 0 .. blockSize /\ n >= 1
  BY Dimensions
<1>2. DOMAIN v = 0 .. n - 1 /\ SliceLen(v) = n /\ \A i \in 0 .. n - 1 : v[i] \in Word
  BY <1>1, SliceFacts
<1>3. \A i \in 0 .. n - 1 : i \in Nat /\ i < n /\ i < blockSize
  BY <1>1, Dimensions
<1>4. ASSUME NEW i \in 0 .. n - 1
      PROVE  RowOf(i) \in Nat /\ RowOf(i) < 8 /\ ColOf(i) \in 0 .. LaneCount - 1
  <2>1. i \in Nat /\ i < blockSize
    BY <1>3
  <2>2. RowOf(i) \in Nat /\ ColOf(i) \in 0 .. LaneCount - 1 /\ RowOf(i) \in Rows
    BY <2>1, Places, Above
  <2> QED BY <2>2 DEF Rows, utlValuesPerLane
<1> QED BY <1>1, <1>2, <1>3, <1>4

(* The differences of a slice, word by word.                               *)
LEMMA Differences ==
  ASSUME NEW n \in 1 .. blockSize, NEW g \in Slice(n), NEW zz \in BOOLEAN
  PROVE  /\ \A i \in 0 .. n - 1 :
              Encode(g, 0, TRUE, zz)[i] =
                LET e == IF i >= LaneCount THEN Minus(g[i], g[i - LaneCount]) ELSE g[i]
                IN  IF zz THEN zigzagEncode32(e) ELSE e
         /\ Encode(g, 0, TRUE, zz) \in Slice(n)
         /\ AscendingFrom(g, 1) <=>
              \A i \in 0 .. n - 1 : i >= LaneCount => g[i - LaneCount] <= g[i]
<1>1. n \in Nat /\ n \in 0 .. blockSize /\ DOMAIN g = 0 .. n - 1
  BY Shape
<1>2. 0 \in Word
  BY Dimensions DEF Word
<1>3. forSubtract(g, 0) = g /\ 1 * LaneCount = LaneCount
  BY <1>1, <1>2, ForRoundTrip, Dimensions
<1>4. Encode(g, 0, TRUE, zz) \in Slice(n)
  BY <1>1, <1>2, EncodeType
<1>5. \A i \in 0 .. n - 1 :
        DeltaFrom(g, 1)[i] = IF i >= LaneCount THEN Minus(g[i], g[i - LaneCount]) ELSE g[i]
  BY <1>1, <1>3 DEF DeltaFrom
<1>6. Encode(g, 0, TRUE, zz) =
        [i \in 0 .. n - 1 |-> IF zz THEN zigzagEncode32(DeltaFrom(g, 1)[i]) ELSE DeltaFrom(g, 1)[i]]
  BY <1>1, <1>3 DEF Encode
<1>7. ASSUME NEW i \in 0 .. n - 1
      PROVE  Encode(g, 0, TRUE, zz)[i] =
               LET e == IF i >= LaneCount THEN Minus(g[i], g[i - LaneCount]) ELSE g[i]
               IN  IF zz THEN zigzagEncode32(e) ELSE e
  BY <1>5, <1>6
<1>8. AscendingFrom(g, 1) <=> \A i \in 0 .. n - 1 : i >= LaneCount => g[i - LaneCount] <= g[i]
  BY <1>1, <1>3 DEF AscendingFrom
<1> QED BY <1>4, <1>7, <1>8

-----------------------------------------------------------------------------
(* Encoding. *)

(* Both kinds of behaviour start with the words as given.                  *)
LEMMA InitInv == Init => DeltaInv
<1> SUFFICES ASSUME Init PROVE DeltaInv
  OBVIOUS
<1>1. PICK n \in 1 .. blockSize : given \in Slice(n)
  BY DeltaAssumption DEF Init
<1> DEFINE D == 0 .. n - 1
<1>2. /\ values = given /\ given \in Slice(n)
      /\ lane = 0 /\ masks = NoMasks /\ overflowPos = 0
      /\ level \in Levels /\ needZigZag \in BOOLEAN
      /\ \/ pc = "encode" /\ needZigZag = FALSE /\ row = 7
         \/ pc = "unzigzag" /\ row = 0
  <2>1. utlValuesPerLane - 1 = 7
    BY DEF utlValuesPerLane
  <2> QED BY <1>1, <2>1, Zenon DEF Init
<1>3. DOMAIN given = D /\ \A i \in D : /\ RowOf(i) \in Nat /\ RowOf(i) < 8
                                       /\ ColOf(i) \in 0 .. LaneCount - 1
  BY <1>1, Shape
<1>4. GivenInv
  BY <1>2 DEF GivenInv
<1>5. LoopInv
  <2>1. LaneCount \in Nat \ {0} /\ lane \in 0 .. LaneCount /\ lane # LaneCount
    BY <1>2, Dimensions
  <2> QED BY <1>2, <2>1 DEF LoopInv, utlValuesPerLane
<1>6. ASSUME NEW i \in D, pc = "encode" PROVE ~Encoded(i)
  BY <1>2, <1>3, <1>6 DEF Encoded
<1>7. EncodeInv
  BY <1>2, <1>3, <1>6 DEF EncodeInv
<1>8. OverflowInv
  <2>1. masks \in [Rows -> SUBSET Lanes] /\ \A v \in Rows : masks[v] = {}
    BY <1>2 DEF NoMasks
  <2>2. pc # "decode" /\ pc # "done"
    BY <1>2
  <2> QED BY <1>2, <2>1, <2>2 DEF OverflowInv
<1>9. DecodeInv /\ KernelsEncode /\ KernelsDecode /\ FirstOverflowReported
  BY <1>2 DEF DecodeInv, KernelsEncode, KernelsDecode, FirstOverflowReported
<1> QED BY <1>4, <1>5, <1>7, <1>8, <1>9 DEF DeltaInv

(* What an encoder's step has to establish: that the words behind its loop *)
(* are differences, and no other has changed.                              *)
LEMMA EncodeStep ==
  ASSUME DeltaInv, pc = "encode", pc' = "encode", UNCHANGED <<level, masks, overflowPos, given>>,
         NEW n \in 1 .. blockSize, given \in Slice(n), values' \in Slice(n),
         needZigZag' \in BOOLEAN, LoopInv',
         \A i \in 0 .. n - 1 :
           values'[i] = IF Encoded(i)' THEN Minus(given[i], given[i - LaneCount]) ELSE given[i],
         needZigZag' <=> \E i \in 0 .. n - 1 : Encoded(i)' /\ given[i] < given[i - LaneCount]
  PROVE  DeltaInv'
<1>1. DOMAIN given = 0 .. n - 1
  BY Shape
<1>2. GivenInv'
  BY DEF GivenInv, DeltaInv
<1>3. EncodeInv'
  BY <1>1, Zenon DEF EncodeInv
<1>4. OverflowInv'
  <2>1. /\ masks \in [Rows -> SUBSET Lanes] /\ \A v \in Rows : masks[v] = {}
        /\ overflowPos = 0
    BY DEF DeltaInv, OverflowInv
  <2> QED BY <2>1 DEF OverflowInv
<1>5. DecodeInv' /\ KernelsEncode' /\ KernelsDecode' /\ FirstOverflowReported'
  BY DEF DecodeInv, KernelsEncode, KernelsDecode, FirstOverflowReported
<1> QED BY <1>2, <1>3, <1>4, <1>5 DEF DeltaInv

(* The scalar encoder takes each lane from its last row up.                *)
LEMMA EncodeWordInv == ASSUME DeltaInv, EncodeWord PROVE DeltaInv'
<1>1. PICK n \in 1 .. blockSize : given \in Slice(n) /\ values \in Slice(n)
  BY DEF DeltaInv, GivenInv
<1> DEFINE D == 0 .. n - 1
<1> DEFINE cur == lane + row * LaneCount
<1>2. /\ n \in Nat /\ DOMAIN given = D /\ DOMAIN values = D /\ len = n
      /\ \A i \in D : given[i] \in Word /\ values[i] \in Word /\ i \in Nat
      /\ \A i \in D : RowOf(i) \in Nat /\ RowOf(i) < 8 /\ ColOf(i) \in 0 .. LaneCount - 1
  BY <1>1, Shape DEF len
<1>3. /\ pc = "encode" /\ ~UseVectors /\ pc' = "encode"
      /\ UNCHANGED <<level, masks, overflowPos, given>>
      /\ LaneCount \in Nat \ {0} /\ utlValuesPerLane = 8
      /\ lane \in 0 .. LaneCount - 1 /\ row \in 1 .. 7
      /\ needZigZag \in BOOLEAN
  BY Dimensions DEF EncodeWord, DeltaInv, LoopInv, GivenInv
<1>4. cur \in Nat /\ RowOf(cur) = row /\ ColOf(cur) = lane
  <2>1. row \in Nat /\ lane \in 0 .. LaneCount - 1
    BY <1>3
  <2> QED BY <2>1, PlaceOf
<1>5. /\ cur >= LaneCount /\ cur - LaneCount \in Nat
      /\ RowOf(cur - LaneCount) = row - 1 /\ ColOf(cur - LaneCount) = lane
  <2>1. cur >= LaneCount
    BY <1>3, <1>4, Above
  <2> QED BY <1>4, <2>1, Above
<1>6. /\ IF cur >= n THEN values' = values /\ needZigZag' = needZigZag
         ELSE /\ values' = [values EXCEPT ![cur] = Minus(values[cur], values[cur - LaneCount])]
              /\ needZigZag' = (needZigZag \/ values[cur] < values[cur - LaneCount])
      /\ IF row > 1 THEN row' = row - 1 /\ lane' = lane ELSE row' = 7 /\ lane' = lane + 1
  BY <1>2, <1>3 DEF EncodeWord
<1>7. ASSUME NEW i \in D, RowOf(i) = row, ColOf(i) = lane PROVE i = cur
  BY <1>2, <1>7, Places
<1> HIDE DEF cur
<1>8. values' \in Slice(n)
  <2>1. CASE cur >= n
    BY <1>1, <1>6, <2>1
  <2>2. CASE ~(cur >= n)
    <3>1. cur \in D /\ cur - LaneCount \in D
      BY <1>2, <1>3, <1>4, <1>5, <2>2
    <3>2. Minus(values[cur], values[cur - LaneCount]) \in Word
      BY <1>2, <3>1, PlusMinus
    <3> QED BY <1>1, <1>6, <2>2, <3>2 DEF Slice
  <2> QED BY <2>1, <2>2
<1>9. len' = n /\ ~UseVectors'
  <2>1. len' = n
    BY <1>8, Shape DEF len
  <2> QED BY <1>2, <1>3, <2>1 DEF UseVectors
<1>10. /\ \A i \in D : Encoded(i) <=>
            i >= LaneCount /\ (ColOf(i) < lane \/ (ColOf(i) = lane /\ RowOf(i) > row))
       /\ \A i \in D : Encoded(i)' <=>
            i >= LaneCount /\ (ColOf(i) < lane' \/ (ColOf(i) = lane' /\ RowOf(i) > row'))
  BY <1>3, <1>9 DEF Encoded, RowOf, ColOf
<1>11. ASSUME NEW i \in D PROVE Encoded(i)' <=> Encoded(i) \/ i = cur
  <2>1. /\ RowOf(i) \in Nat /\ RowOf(i) < 8 /\ ColOf(i) \in 0 .. LaneCount - 1
        /\ i >= LaneCount => RowOf(i) >= 1
    <3>1. i \in Nat
      BY <1>2
    <3>2. i < LaneCount <=> RowOf(i) = 0
      BY <3>1, Above
    <3> QED BY <1>2, <1>3, <3>1, <3>2
  <2>2. i = cur <=> RowOf(i) = row /\ ColOf(i) = lane
    BY <1>4, <1>7
  <2>3. i = cur => i >= LaneCount
    BY <1>5
  <2>4. CASE row > 1
    <3>1. row' = row - 1 /\ lane' = lane /\ row \in Nat
      BY <1>3, <1>6, <2>4
    <3>2. RowOf(i) > row' <=> RowOf(i) > row \/ RowOf(i) = row
      BY ONLY <2>1, <3>1
    <3> QED BY <1>10, <2>2, <2>3, <3>1, <3>2
  <2>5. CASE ~(row > 1)
    <3>1. row = 1 /\ row' = 7 /\ lane' = lane + 1
      BY <1>3, <1>6, <2>5
    <3>2. ColOf(i) < lane' <=> ColOf(i) < lane \/ ColOf(i) = lane
      BY <1>2, <1>3, <3>1
    <3>3. Encoded(i)' <=> i >= LaneCount /\ (ColOf(i) < lane \/ ColOf(i) = lane)
      BY <1>10, <2>1, <3>1, <3>2
    <3>4. i >= LaneCount => (RowOf(i) > row \/ RowOf(i) = row)
      BY <2>1, <3>1
    <3>5. i = cur <=> i >= LaneCount /\ RowOf(i) = row /\ ColOf(i) = lane
      BY <2>2, <2>3
    <3> QED BY <1>10, <3>3, <3>4, <3>5, Zenon
  <2> QED BY <2>4, <2>5
<1>12. /\ ~Encoded(cur) /\ ~Encoded(cur - LaneCount)
  BY <1>3, <1>4, <1>5 DEF Encoded
<1>13. /\ \A i \in D : values[i] = IF Encoded(i) THEN Minus(given[i], given[i - LaneCount])
                                                 ELSE given[i]
       /\ needZigZag <=> \E i \in D : Encoded(i) /\ given[i] < given[i - LaneCount]
  BY <1>2, <1>3 DEF DeltaInv, EncodeInv
<1>14. LoopInv'
  <2>1. lane' \in 0 .. LaneCount /\ row' \in 1 .. 7 /\ (lane' = LaneCount => row' = 7)
    BY <1>3, <1>6
  <2> QED BY <1>3, <1>9, <2>1 DEF LoopInv
<1>15. CASE cur >= n
  <2>1. \A i \in D : Encoded(i)' <=> Encoded(i)
    BY <1>2, <1>11, <1>15
  <2>2. values' = values /\ needZigZag' = needZigZag
    BY <1>6, <1>15
  <2>3. \A i \in D : values'[i] = IF Encoded(i)' THEN Minus(given[i], given[i - LaneCount])
                                                 ELSE given[i]
    BY <1>13, <2>1, <2>2
  <2>4. needZigZag' <=> \E i \in D : Encoded(i)' /\ given[i] < given[i - LaneCount]
    BY <1>13, <2>1, <2>2
  <2> QED BY <1>1, <1>3, <1>8, <1>14, <2>2, <2>3, <2>4, EncodeStep
<1>16. CASE ~(cur >= n)
  <2>1. cur \in D /\ cur - LaneCount \in D
    BY <1>2, <1>3, <1>4, <1>5, <1>16
  <2>2. values[cur] = given[cur] /\ values[cur - LaneCount] = given[cur - LaneCount]
    BY <1>12, <1>13, <2>1
  <2>3. /\ values' = [values EXCEPT ![cur] = Minus(given[cur], given[cur - LaneCount])]
        /\ needZigZag' = (needZigZag \/ given[cur] < given[cur - LaneCount])
    BY <1>6, <1>16, <2>2
  <2>4. ASSUME NEW i \in D
        PROVE  values'[i] = IF Encoded(i)' THEN Minus(given[i], given[i - LaneCount]) ELSE given[i]
    <3>1. CASE i = cur
      BY <1>2, <1>11, <2>1, <2>3, <3>1
    <3>2. CASE i # cur
      BY <1>2, <1>11, <1>13, <2>1, <2>3, <3>2
    <3> QED BY <3>1, <3>2
  <2>5. needZigZag' <=> \E i \in D : Encoded(i)' /\ given[i] < given[i - LaneCount]
    <3>1. (\E i \in D : Encoded(i)' /\ given[i] < given[i - LaneCount])
            <=> (\E i \in D : Encoded(i) /\ given[i] < given[i - LaneCount])
                  \/ given[cur] < given[cur - LaneCount]
      BY <1>11, <2>1, Zenon
    <3> QED BY <1>13, <2>3, <3>1, Zenon
  <2>6. needZigZag' \in BOOLEAN
    BY <2>3
  <2> QED BY <1>1, <1>3, <1>8, <1>14, <2>4, <2>5, <2>6, EncodeStep
<1> QED BY <1>15, <1>16

(* The vector encoders take whole rows from the last one up.               *)
LEMMA EncodeRowInv == ASSUME DeltaInv, EncodeRow PROVE DeltaInv'
<1>1. PICK n \in 1 .. blockSize : given \in Slice(n) /\ values \in Slice(n)
  BY DEF DeltaInv, GivenInv
<1> DEFINE D == 0 .. n - 1
<1>2. /\ n \in Nat /\ DOMAIN given = D /\ DOMAIN values = D /\ len = n
      /\ \A i \in D : given[i] \in Word /\ values[i] \in Word /\ i \in Nat
      /\ \A i \in D : RowOf(i) \in Nat /\ RowOf(i) < 8 /\ ColOf(i) \in 0 .. LaneCount - 1
  BY <1>1, Shape DEF len
<1>3. /\ pc = "encode" /\ UseVectors /\ pc' = "encode" /\ n = blockSize
      /\ UNCHANGED <<level, lane, masks, overflowPos, given>>
      /\ LaneCount \in Nat \ {0} /\ utlValuesPerLane = 8 /\ blockSize = 8 * LaneCount
      /\ lane = 0 /\ row \in 1 .. 7 /\ row' = row - 1
      /\ needZigZag \in BOOLEAN
  <2>1. row \in 0 .. 7 /\ row > 0
    BY DEF EncodeRow, DeltaInv, LoopInv, utlValuesPerLane
  <2>2. UseVectors /\ len = blockSize
    BY DEF EncodeRow, UseVectors
  <2>3. lane = 0
    BY <2>2 DEF DeltaInv, LoopInv
  <2> QED BY <1>2, <2>1, <2>2, <2>3, Dimensions DEF EncodeRow, DeltaInv, GivenInv
<1>4. Pos = D
  BY <1>3 DEF Pos
<1>5. ASSUME NEW i \in D, RowOf(i) = row PROVE i >= LaneCount /\ i - LaneCount \in D
  <2>1. i \in Nat /\ (i < LaneCount <=> RowOf(i) = 0)
    BY <1>2, Above
  <2>2. i >= LaneCount
    BY <1>3, <1>5, <2>1
  <2> QED BY <1>2, <1>3, <2>1, <2>2
<1>6. /\ \A i \in D : values[i] = IF Encoded(i) THEN Minus(given[i], given[i - LaneCount])
                                                ELSE given[i]
      /\ needZigZag <=> \E i \in D : Encoded(i) /\ given[i] < given[i - LaneCount]
  BY <1>2, <1>3 DEF DeltaInv, EncodeInv
<1>7. \A i \in D : Encoded(i) <=> i >= LaneCount /\ RowOf(i) > row
  BY <1>3 DEF Encoded
<1>8. ASSUME NEW i \in D, RowOf(i) = row
      PROVE  /\ values[i] = given[i] /\ values[i - LaneCount] = given[i - LaneCount]
             /\ Minus(given[i], given[i - LaneCount]) \in Word
  <2>1. i \in Nat /\ i >= LaneCount /\ i - LaneCount \in D
    BY <1>2, <1>5, <1>8
  <2>2. RowOf(i - LaneCount) = row - 1
    BY <1>8, <2>1, Above
  <2>3. ~(RowOf(i) > row) /\ ~(RowOf(i - LaneCount) > row)
    BY <1>3, <1>8, <2>2
  <2>4. values[i] = given[i] /\ values[i - LaneCount] = given[i - LaneCount]
    BY <1>6, <1>7, <2>1, <2>3
  <2>5. Minus(given[i], given[i - LaneCount]) \in Word
    BY <1>2, <2>1, PlusMinus
  <2> QED BY <2>4, <2>5
<1>9. values' = [i \in D |-> IF RowOf(i) = row THEN Minus(given[i], given[i - LaneCount])
                                              ELSE values[i]]
  BY <1>4, <1>8 DEF EncodeRow, RowOf
<1>10. values' \in Slice(n)
  <2>1. \A i \in D : (IF RowOf(i) = row THEN Minus(given[i], given[i - LaneCount])
                                        ELSE values[i]) \in Word
    BY <1>2, <1>8
  <2> QED BY <1>9, <2>1 DEF Slice
<1>11. len' = n /\ UseVectors'
  <2>1. len' = n
    BY <1>10, Shape DEF len
  <2> QED BY <1>2, <1>3, <2>1 DEF UseVectors
<1>12. ASSUME NEW i \in D PROVE Encoded(i)' <=> Encoded(i) \/ RowOf(i) = row
  <2>1. Encoded(i)' <=> i >= LaneCount /\ RowOf(i) > row'
    BY <1>11 DEF Encoded, RowOf, ColOf
  <2>2. RowOf(i) > row' <=> (RowOf(i) > row \/ RowOf(i) = row)
    <3>1. RowOf(i) \in Nat /\ row \in 1 .. 7 /\ row' = row - 1
      BY <1>2, <1>3
    <3> QED BY <3>1
  <2> QED BY <1>5, <1>7, <2>1, <2>2
<1>13. Borrows(row) <=> \E i \in D : RowOf(i) = row /\ given[i] < given[i - LaneCount]
  <2>1. ASSUME NEW l \in Lanes, values[(row - 1) * LaneCount + l] > values[row * LaneCount + l]
        PROVE  \E i \in D : RowOf(i) = row /\ given[i] < given[i - LaneCount]
    <3> DEFINE i == row * LaneCount + l
    <3> DEFINE j == (row - 1) * LaneCount + l
    <3>1. i \in D /\ RowOf(i) = row /\ j = i - LaneCount
      <4>1. i \in Pos
        BY <1>3, LaneOfRow
      <4>2. RowOf(i) = row
        BY <1>3, LaneOfRow
      <4>3. j = i - LaneCount
        <5>1. l \in Nat /\ row \in Nat /\ LaneCount \in Nat
          BY <1>3 DEF Lanes
        <5> QED BY <5>1
      <4> QED BY <1>4, <4>1, <4>2, <4>3
    <3>2. values[j] > values[i]
      BY <2>1
    <3> HIDE DEF i, j
    <3>3. given[i - LaneCount] > given[i] /\ i - LaneCount \in D
      BY <1>5, <1>8, <3>1, <3>2
    <3>4. given[i] < given[i - LaneCount]
      BY <1>2, <3>1, <3>3, Dimensions DEF Word
    <3> QED BY <3>1, <3>4
  <2>2. ASSUME NEW i \in D, RowOf(i) = row, given[i] < given[i - LaneCount]
        PROVE  \E l \in Lanes : values[(row - 1) * LaneCount + l] > values[row * LaneCount + l]
    <3> DEFINE l == ColOf(i)
    <3>1. l \in Lanes /\ row * LaneCount + l = i /\ (row - 1) * LaneCount + l = i - LaneCount
      BY <1>2, <1>3, <2>2, RowHasLane
    <3>2. values[i - LaneCount] = given[i - LaneCount] /\ values[i] = given[i] /\ i - LaneCount \in D
      BY <1>5, <1>8, <2>2
    <3>3. values[i - LaneCount] > values[i]
      BY <1>2, <2>2, <3>2, Dimensions DEF Word
    <3> HIDE DEF l
    <3>4. values[(row - 1) * LaneCount + l] > values[row * LaneCount + l]
      BY <3>1, <3>3
    <3> QED BY <3>1, <3>4
  <2> QED BY <2>1, <2>2 DEF Borrows
<1>14. needZigZag' = (needZigZag \/ Borrows(row))
  BY DEF EncodeRow
<1>15. \A i \in D : values'[i] = IF Encoded(i)' THEN Minus(given[i], given[i - LaneCount])
                                                ELSE given[i]
  BY <1>6, <1>9, <1>12
<1>16. needZigZag' <=> \E i \in D : Encoded(i)' /\ given[i] < given[i - LaneCount]
  BY <1>6, <1>12, <1>13, <1>14, Zenon
<1>17. needZigZag' \in BOOLEAN
  <2>1. Borrows(row) \in BOOLEAN
    BY DEF Borrows
  <2> QED BY <1>3, <1>14, <2>1, Zenon
<1>18. LoopInv'
  <2>1. row' \in 0 .. 7 /\ lane' = 0 /\ 0 \in 0 .. LaneCount
    BY <1>3
  <2> QED BY <1>3, <1>11, <2>1 DEF LoopInv
<1> QED BY <1>1, <1>3, <1>10, <1>15, <1>16, <1>17, <1>18, EncodeStep

(* When a loop ends, every word has its difference.                        *)
LEMMA EndEncodeInv == ASSUME DeltaInv, EndEncode PROVE DeltaInv'
<1>1. PICK n \in 1 .. blockSize : given \in Slice(n) /\ values \in Slice(n)
  BY DEF DeltaInv, GivenInv
<1> DEFINE D == 0 .. n - 1
<1>2. /\ n \in Nat /\ DOMAIN given = D /\ DOMAIN values = D
      /\ \A i \in D : given[i] \in Word /\ values[i] \in Word /\ i \in Nat
      /\ \A i \in D : RowOf(i) \in Nat /\ RowOf(i) < 8 /\ ColOf(i) \in 0 .. LaneCount - 1
  BY <1>1, Shape
<1>3. /\ pc = "encode" /\ pc' = "encoded" /\ lane' = 0 /\ row' = 0
      /\ UNCHANGED <<level, needZigZag, masks, overflowPos, given>>
      /\ values' = IF needZigZag THEN [i \in DOMAIN values |-> zigzagEncode32(values[i])] ELSE values
      /\ IF UseVectors THEN row = 0 ELSE lane = LaneCount
      /\ LaneCount \in Nat \ {0}
  BY Dimensions DEF EndEncode
<1>4. needZigZag \in BOOLEAN /\ level \in Levels
  BY DEF DeltaInv, GivenInv
<1>5. ASSUME NEW i \in D PROVE Encoded(i) <=> i >= LaneCount
  <2>1. i \in Nat /\ RowOf(i) \in Nat /\ (i < LaneCount <=> RowOf(i) = 0) /\ ColOf(i) < LaneCount
    BY <1>2, <1>3, Above
  <2>2. i >= LaneCount => RowOf(i) > 0
    BY <1>3, <2>1
  <2> QED BY <1>3, <2>1, <2>2 DEF Encoded
<1>6. /\ \A i \in D : values[i] = IF i >= LaneCount THEN Minus(given[i], given[i - LaneCount])
                                                    ELSE given[i]
      /\ needZigZag <=> \E i \in D : i >= LaneCount /\ given[i] < given[i - LaneCount]
  <2>1. /\ \A i \in D : values[i] = IF Encoded(i) THEN Minus(given[i], given[i - LaneCount])
                                                  ELSE given[i]
        /\ needZigZag <=> \E i \in D : Encoded(i) /\ given[i] < given[i - LaneCount]
    BY <1>2, <1>3 DEF DeltaInv, EncodeInv
  <2> QED BY <1>5, <2>1, Zenon
<1> DEFINE e == Encode(given, 0, TRUE, needZigZag)
<1>7. /\ e \in Slice(n)
      /\ \A i \in D : e[i] = IF needZigZag THEN zigzagEncode32(values[i]) ELSE values[i]
      /\ AscendingFrom(given, 1) <=> \A i \in D : i >= LaneCount => given[i - LaneCount] <= given[i]
  <2>1. /\ e \in Slice(n)
        /\ \A i \in D :
             e[i] = LET d == IF i >= LaneCount THEN Minus(given[i], given[i - LaneCount]) ELSE given[i]
                    IN  IF needZigZag THEN zigzagEncode32(d) ELSE d
        /\ AscendingFrom(given, 1) <=> \A i \in D : i >= LaneCount => given[i - LaneCount] <= given[i]
    BY <1>1, <1>4, Differences
  <2> QED BY <1>6, <2>1
<1> HIDE DEF e
<1>8. values' = e
  <2>1. values' = [i \in D |-> IF needZigZag THEN zigzagEncode32(values[i]) ELSE values[i]]
    <3>1. CASE needZigZag
      BY <1>2, <1>3, <3>1
    <3>2. CASE ~needZigZag
      BY <1>1, <1>2, <1>3, <3>2 DEF Slice
    <3> QED BY <3>1, <3>2
  <2> QED BY <1>7, <2>1 DEF Slice
<1>9. needZigZag <=> ~AscendingFrom(given, 1)
  <2>1. ASSUME NEW i \in D, i >= LaneCount
        PROVE  given[i] < given[i - LaneCount] <=> ~(given[i - LaneCount] <= given[i])
    <3>1. i - LaneCount \in D
      BY <1>2, <1>3, <2>1
    <3>2. given[i] \in Nat /\ given[i - LaneCount] \in Nat
      BY <1>2, <3>1, Dimensions DEF Word
    <3> QED BY <3>2
  <2> QED BY <1>6, <1>7, <2>1, Zenon
<1>10. GivenInv'
  BY <1>1, <1>3, <1>4, <1>7, <1>8 DEF GivenInv
<1>11. LoopInv'
  <2>1. 0 \in 0 .. LaneCount
    BY <1>3
  <2> QED BY <1>3, <2>1 DEF LoopInv
<1>12. KernelsEncode'
  BY <1>3, <1>8, <1>9, Zenon DEF KernelsEncode, e
<1>13. OverflowInv'
  <2>1. /\ masks \in [Rows -> SUBSET Lanes] /\ \A v \in Rows : masks[v] = {}
        /\ overflowPos = 0
    BY <1>3 DEF DeltaInv, OverflowInv
  <2> QED BY <1>3, <2>1 DEF OverflowInv
<1>14. EncodeInv' /\ DecodeInv' /\ KernelsDecode' /\ FirstOverflowReported'
  BY <1>3 DEF EncodeInv, DecodeInv, KernelsDecode, FirstOverflowReported
<1> QED BY <1>10, <1>11, <1>12, <1>13, <1>14 DEF DeltaInv

-----------------------------------------------------------------------------
(* Decoding. *)

(* A decoder starts from the words that it finds, at any level.            *)
LEMMA StartDecodeInv == ASSUME DeltaInv, StartDecode PROVE DeltaInv'
<1>1. /\ pc = "encoded" /\ pc' = "unzigzag" /\ level' \in Levels /\ given' = values
      /\ UNCHANGED <<values, lane, row, needZigZag, masks, overflowPos>>
  BY DEF StartDecode
<1>2. GivenInv'
  BY <1>1 DEF GivenInv, DeltaInv
<1>3. LoopInv'
  BY <1>1 DEF LoopInv, DeltaInv
<1>4. OverflowInv'
  <2>1. /\ masks \in [Rows -> SUBSET Lanes] /\ \A v \in Rows : masks[v] = {}
        /\ overflowPos = 0
    BY <1>1 DEF DeltaInv, OverflowInv
  <2> QED BY <1>1, <2>1 DEF OverflowInv
<1>5. EncodeInv' /\ DecodeInv' /\ KernelsEncode' /\ KernelsDecode' /\ FirstOverflowReported'
  BY <1>1 DEF EncodeInv, DecodeInv, KernelsEncode, KernelsDecode, FirstOverflowReported
<1> QED BY <1>2, <1>3, <1>4, <1>5 DEF DeltaInv

(* Before its loop, a vector decoder undoes the zigzag of all words; the   *)
(* words of the first row are then sums already.                           *)
LEMMA UnZigZagInv == ASSUME DeltaInv, UnZigZag PROVE DeltaInv'
<1>1. PICK n \in 1 .. blockSize : given \in Slice(n) /\ values \in Slice(n)
  BY DEF DeltaInv, GivenInv
<1> DEFINE D == 0 .. n - 1
<1>2. /\ n \in Nat /\ n \in 0 .. blockSize /\ DOMAIN given = D /\ len = n
      /\ \A i \in D : given[i] \in Word /\ i \in Nat
      /\ \A i \in D : RowOf(i) \in Nat /\ RowOf(i) < 8 /\ ColOf(i) \in 0 .. LaneCount - 1
  BY <1>1, Shape DEF len
<1>3. /\ pc = "unzigzag" /\ pc' = "decode"
      /\ values' = IF needZigZag /\ UseVectors THEN [i \in Pos |-> zigzagDecode32(values[i])]
                                               ELSE values
      /\ row' = IF needZigZag /\ ~UseVectors THEN 0 ELSE 1
      /\ UNCHANGED <<level, lane, needZigZag, masks, overflowPos, given>>
      /\ LaneCount \in Nat \ {0} /\ utlValuesPerLane = 8 /\ blockSize = 8 * LaneCount
  BY Dimensions DEF UnZigZag
<1>4. values = given /\ lane = 0 /\ needZigZag \in BOOLEAN /\ level \in Levels
  BY <1>3 DEF DeltaInv, EncodeInv, GivenInv, LoopInv
<1>5. values' \in Slice(n) /\ \A i \in D : values'[i] = Pending(i)
  <2>1. CASE needZigZag /\ UseVectors
    <3>1. Pos = D
      BY <1>2, <1>3, <2>1 DEF UseVectors, Pos
    <3>2. values' = [i \in D |-> zigzagDecode32(given[i])]
      BY <1>3, <1>4, <2>1, <3>1
    <3>3. \A i \in D : zigzagDecode32(given[i]) \in Word
      BY <1>2, SumWord
    <3>4. values' \in Slice(n)
      BY <3>2, <3>3 DEF Slice
    <3> QED BY <2>1, <3>2, <3>4 DEF Pending
  <2>2. CASE ~(needZigZag /\ UseVectors)
    BY <1>1, <1>3, <1>4, <2>2 DEF Pending
  <2> QED BY <2>1, <2>2
<1>6. UseVectors' = UseVectors
  <2>1. len' = n
    BY <1>5, Shape DEF len
  <2> QED BY <1>2, <1>3, <2>1 DEF UseVectors
<1>7. ASSUME NEW i \in D PROVE Pending(i)' = Pending(i)
  BY <1>3, <1>6 DEF Pending
<1>8. Sums' = Sums
  BY <1>3 DEF Sums
<1>9. ASSUME NEW i \in D, Decoded(i)' PROVE Pending(i) = Sums[i]
  <2>0. /\ RowOf(i) \in Nat /\ ColOf(i) \in 0 .. LaneCount - 1 /\ lane' = 0
        /\ IF UseVectors THEN RowOf(i) < row'
           ELSE IF needZigZag THEN ColOf(i) < lane' \/ (ColOf(i) = lane' /\ RowOf(i) < row')
           ELSE RowOf(i) < row' \/ (RowOf(i) = row' /\ ColOf(i) < lane')
    BY <1>2, <1>3, <1>4, <1>6, <1>9 DEF Decoded, RowOf, ColOf
  <2>1. ~(needZigZag /\ ~UseVectors)
    BY <1>3, <2>0
  <2>2. RowOf(i) = 0
    BY <1>3, <2>0, <2>1
  <2>3. i < LaneCount
    BY <1>2, <2>2, Above
  <2>4. Sums[i] = Deltas(given, needZigZag)[i]
    BY <1>1, <1>2, <1>4, <2>3, SumsFacts DEF Sums
  <2>5. Deltas(given, needZigZag)[i] = Pending(i)
    BY <1>2, <2>1 DEF Deltas, Pending
  <2> QED BY <2>4, <2>5
<1>10. DecodeInv'
  <2>1. \A i \in D : values'[i] = IF Decoded(i)' THEN Sums'[i] ELSE Pending(i)'
    BY <1>5, <1>7, <1>8, <1>9
  <2> QED BY <1>2, <1>3, <2>1 DEF DecodeInv
<1>11. GivenInv'
  BY <1>1, <1>3, <1>4, <1>5 DEF GivenInv
<1>12. LoopInv'
  <2>1. lane' = 0 /\ 0 \in 0 .. LaneCount
    BY <1>3, <1>4
  <2> QED BY <1>3, <1>6, <2>1 DEF LoopInv
<1>13. OverflowInv'
  <2>1. /\ masks' \in [Rows -> SUBSET Lanes] /\ \A v \in Rows : masks'[v] = {}
        /\ overflowPos' = 0
    BY <1>3 DEF DeltaInv, OverflowInv
  <2>2. ASSUME UseVectors' PROVE \A v \in Rows : v \notin 1 .. row' - 1
    BY <1>3, <1>6, <2>2 DEF Rows
  <2>3. ASSUME ~UseVectors', ~needZigZag', NEW i \in Wraps' PROVE ~Decoded(i)'
    <3>1. i \in D /\ i >= LaneCount
      BY <1>2, <1>3 DEF Wraps
    <3>2. i \in Nat /\ RowOf(i) \in Nat /\ RowOf(i) # 0 /\ ColOf(i) \in 0 .. LaneCount - 1
      <4>1. i \in Nat /\ ~(i < LaneCount)
        BY <1>2, <1>3, <3>1
      <4> QED BY <1>2, <3>1, <4>1, Above
    <3>3. row' = 1 /\ lane' = 0
      BY <1>3, <1>4, <2>3
    <3>4. ~(RowOf(i) < row' \/ (RowOf(i) = row' /\ ColOf(i) < lane'))
      BY <3>2, <3>3
    <3> QED BY <2>3, <3>4 DEF Decoded, RowOf, ColOf
  <2> QED BY <1>3, <2>1, <2>2, <2>3 DEF OverflowInv
<1>14. EncodeInv' /\ KernelsEncode' /\ KernelsDecode' /\ FirstOverflowReported'
  BY <1>3 DEF EncodeInv, KernelsEncode, KernelsDecode, FirstOverflowReported
<1> QED BY <1>10, <1>11, <1>12, <1>13, <1>14 DEF DeltaInv

(* The sums, word by word, and the additions that wrap.                    *)
LEMMA SumAt ==
  ASSUME NEW n \in 1 .. blockSize, given \in Slice(n), needZigZag \in BOOLEAN
  PROVE  /\ Sums \in Slice(n)
         /\ \A i \in 0 .. n - 1 :
              LET d == IF needZigZag THEN zigzagDecode32(given[i]) ELSE given[i]
              IN  Sums[i] = IF i < LaneCount THEN d ELSE Plus(Sums[i - LaneCount], d)
         /\ ~needZigZag =>
              Wraps = {i \in 0 .. n - 1 : i >= LaneCount /\ Sums[i] < Sums[i - LaneCount]}
<1>1. n \in 0 .. blockSize /\ DOMAIN given = 0 .. n - 1
  BY Shape
<1>2. /\ Sums \in Slice(n)
      /\ \A i \in 0 .. n - 1 :
           Sums[i] = IF i < LaneCount THEN Deltas(given, needZigZag)[i]
                     ELSE Plus(Sums[i - LaneCount], Deltas(given, needZigZag)[i])
  BY <1>1, SumsFacts DEF Sums
<1>3. \A i \in 0 .. n - 1 :
        Deltas(given, needZigZag)[i] = IF needZigZag THEN zigzagDecode32(given[i]) ELSE given[i]
  BY <1>1 DEF Deltas
<1>4. ASSUME ~needZigZag
      PROVE  Wraps = {i \in 0 .. n - 1 : i >= LaneCount /\ Sums[i] < Sums[i - LaneCount]}
  <2>1. needZigZag = FALSE
    BY <1>4
  <2>2. Sums = PrefixSums(given, FALSE)
    BY <2>1 DEF Sums
  <2> QED BY <1>1, <2>2 DEF Wraps
<1> QED BY <1>2, <1>3, <1>4

(* What a decoder's step has to establish: that the words behind its loop  *)
(* are sums, and no other has changed.                                     *)
LEMMA DecodeStep ==
  ASSUME DeltaInv, pc = "decode", pc' = "decode", UNCHANGED <<level, needZigZag, given>>,
         NEW n \in 1 .. blockSize, given \in Slice(n), values' \in Slice(n),
         UseVectors' = UseVectors, LoopInv', OverflowInv',
         \A i \in 0 .. n - 1 : values'[i] = IF Decoded(i)' THEN Sums[i] ELSE Pending(i)
  PROVE  DeltaInv'
<1>1. DOMAIN given = 0 .. n - 1
  BY Shape
<1>2. GivenInv'
  BY DEF GivenInv, DeltaInv
<1>3. DecodeInv'
  <2>1. \A i \in 0 .. n - 1 : Pending(i)' = Pending(i)
    BY DEF Pending
  <2>2. Sums' = Sums
    BY DEF Sums
  <2> QED BY <1>1, <2>1, <2>2 DEF DecodeInv
<1>4. EncodeInv' /\ KernelsEncode' /\ KernelsDecode' /\ FirstOverflowReported'
  BY DEF EncodeInv, KernelsEncode, KernelsDecode, FirstOverflowReported
<1> QED BY <1>2, <1>3, <1>4 DEF DeltaInv

(* The scalar decoder of zigzag codes takes each lane from its first row.  *)
LEMMA DecodeZigZagWordInv == ASSUME DeltaInv, DecodeZigZagWord PROVE DeltaInv'
<1>1. PICK n \in 1 .. blockSize : given \in Slice(n) /\ values \in Slice(n)
  BY DEF DeltaInv, GivenInv
<1> DEFINE D == 0 .. n - 1
<1> DEFINE cur == lane + row * LaneCount
<1>2. /\ n \in Nat /\ DOMAIN given = D /\ DOMAIN values = D /\ len = n
      /\ \A i \in D : given[i] \in Word /\ values[i] \in Word /\ i \in Nat
      /\ \A i \in D : RowOf(i) \in Nat /\ RowOf(i) < 8 /\ ColOf(i) \in 0 .. LaneCount - 1
  BY <1>1, Shape DEF len
<1>3. /\ pc = "decode" /\ ~UseVectors /\ pc' = "decode" /\ needZigZag
      /\ UNCHANGED <<level, needZigZag, masks, overflowPos, given>>
      /\ LaneCount \in Nat \ {0} /\ utlValuesPerLane = 8
      /\ lane \in 0 .. LaneCount - 1 /\ row \in 0 .. 8
      /\ needZigZag \in BOOLEAN
  BY Dimensions DEF DecodeZigZagWord, DeltaInv, LoopInv, GivenInv
<1>4. cur \in Nat /\ RowOf(cur) = row /\ ColOf(cur) = lane
  <2>1. row \in Nat /\ lane \in 0 .. LaneCount - 1
    BY <1>3
  <2> QED BY <2>1, PlaceOf
<1>5. IF row < 8 /\ cur < n
      THEN values' = [values EXCEPT ![cur] = Summed(cur)] /\ row' = row + 1 /\ lane' = lane
      ELSE lane' = lane + 1 /\ row' = 0 /\ values' = values
  BY <1>2, <1>3 DEF DecodeZigZagWord
<1>6. ASSUME NEW i \in D, RowOf(i) = row, ColOf(i) = lane PROVE i = cur
  BY <1>2, <1>6, Places
<1>7. ASSUME NEW i \in D, i < cur PROVE RowOf(i) < row \/ ColOf(i) < lane
  <2>1. i \in Nat /\ row \in Nat /\ lane \in 0 .. LaneCount
    BY <1>2, <1>3
  <2> QED BY <1>7, <2>1, Order
<1> HIDE DEF cur
<1>8. \A i \in D : values[i] = IF Decoded(i) THEN Sums[i] ELSE Pending(i)
  BY <1>2, <1>3 DEF DeltaInv, DecodeInv
<1>9. \A i \in D : Decoded(i) <=> ColOf(i) < lane \/ (ColOf(i) = lane /\ RowOf(i) < row)
  BY <1>3 DEF Decoded
<1>10. \A i \in D : Pending(i) = given[i]
  BY <1>3 DEF Pending
<1>11. /\ Sums \in Slice(n)
       /\ \A i \in D : Sums[i] = IF i < LaneCount THEN zigzagDecode32(given[i])
                                 ELSE Plus(Sums[i - LaneCount], zigzagDecode32(given[i]))
  BY <1>1, <1>3, SumAt
<1>12. ASSUME row < 8, cur < n PROVE cur \in D /\ Summed(cur) = Sums[cur]
  <2>1. cur \in D
    BY <1>2, <1>4, <1>12
  <2>2. values[cur] = given[cur]
    BY <1>3, <1>4, <1>8, <1>9, <1>10, <2>1
  <2>3. CASE row = 0
    <3>1. cur < LaneCount
      BY <1>4, <2>3, Above
    <3> QED BY <1>11, <2>1, <2>2, <2>3, <3>1 DEF Summed
  <2>4. CASE row # 0
    <3>1. ~(cur < LaneCount)
      BY <1>4, <2>4, Above
    <3>2. cur - LaneCount \in D /\ cur >= LaneCount
      BY <1>2, <1>3, <1>4, <2>1, <3>1
    <3>3. RowOf(cur - LaneCount) = row - 1 /\ ColOf(cur - LaneCount) = lane
      BY <1>4, <3>2, Above
    <3>4. Decoded(cur - LaneCount)
      BY <1>3, <1>9, <3>2, <3>3
    <3>5. values[cur - LaneCount] = Sums[cur - LaneCount]
      BY <1>8, <3>2, <3>4
    <3> QED BY <1>11, <2>1, <2>2, <2>4, <3>1, <3>5 DEF Summed
  <2> QED BY <2>1, <2>3, <2>4
<1>13. values' \in Slice(n)
  <2>1. CASE row < 8 /\ cur < n
    <3>1. cur \in D /\ Sums[cur] \in Word
      BY <1>1, <1>11, <1>12, <2>1, Shape
    <3> QED BY <1>1, <1>5, <1>12, <2>1, <3>1 DEF Slice
  <2>2. CASE ~(row < 8 /\ cur < n)
    BY <1>1, <1>5, <2>2
  <2> QED BY <2>1, <2>2
<1>14. UseVectors' = UseVectors
  <2>1. len' = n
    BY <1>13, Shape DEF len
  <2> QED BY <1>2, <1>3, <2>1 DEF UseVectors
<1>15. \A i \in D : Decoded(i)' <=> ColOf(i) < lane' \/ (ColOf(i) = lane' /\ RowOf(i) < row')
  BY <1>3, <1>14 DEF Decoded, RowOf, ColOf
<1>16. ASSUME NEW i \in D
       PROVE  values'[i] = IF Decoded(i)' THEN Sums[i] ELSE Pending(i)
  <2>1. RowOf(i) \in Nat /\ RowOf(i) < 8 /\ ColOf(i) \in 0 .. LaneCount - 1
    BY <1>2
  <2>2. CASE row < 8 /\ cur < n
    <3>1. i = cur <=> RowOf(i) = row /\ ColOf(i) = lane
      BY <1>4, <1>6
    <3>2. RowOf(i) < row + 1 <=> (RowOf(i) < row \/ RowOf(i) = row)
      BY <1>3, <2>1
    <3>3. Decoded(i)' <=> Decoded(i) \/ i = cur
      BY <1>5, <1>9, <1>15, <2>2, <3>1, <3>2
    <3>4. values'[i] = IF i = cur THEN Sums[i] ELSE values[i]
      BY <1>2, <1>5, <1>12, <2>2
    <3> QED BY <1>8, <3>3, <3>4
  <2>3. CASE ~(row < 8 /\ cur < n)
    <3>1. lane' = lane + 1 /\ row' = 0 /\ values' = values
      BY <1>5, <2>3
    <3>2. ColOf(i) = lane => RowOf(i) < row
      <4>1. CASE row = 8
        BY <2>1, <4>1
      <4>2. CASE row # 8
        <5>1. i < cur
          BY <1>2, <1>3, <1>4, <2>3, <4>2
        <5>2. RowOf(i) < row \/ ColOf(i) < lane
          BY <1>7, <5>1
        <5> QED BY <1>3, <2>1, <5>2
      <4> QED BY <4>1, <4>2
    <3>3. ColOf(i) < lane + 1 <=> (ColOf(i) < lane \/ ColOf(i) = lane)
      BY <1>3, <2>1
    <3>4. ~(RowOf(i) < 0)
      BY <2>1
    <3>5. Decoded(i)' <=> Decoded(i)
      BY <1>9, <1>15, <3>1, <3>2, <3>3, <3>4
    <3> QED BY <1>8, <3>1, <3>5
  <2> QED BY <2>2, <2>3
<1>17. LoopInv'
  <2>1. lane' \in 0 .. LaneCount /\ row' \in 0 .. 8
    BY <1>3, <1>5
  <2> QED BY <1>3, <1>14, <2>1 DEF LoopInv
<1>18. OverflowInv'
  <2>1. /\ masks \in [Rows -> SUBSET Lanes] /\ \A v \in Rows : masks[v] = {}
        /\ overflowPos = 0
    BY <1>3 DEF DeltaInv, OverflowInv
  <2> QED BY <1>3, <1>14, <2>1 DEF OverflowInv
<1> QED BY <1>1, <1>3, <1>13, <1>14, <1>16, <1>17, <1>18, DecodeStep

(* The scalar decoder that reports an overflow takes row after row.        *)
LEMMA DecodeWordInv == ASSUME DeltaInv, DecodeWord PROVE DeltaInv'
<1>1. PICK n \in 1 .. blockSize : given \in Slice(n) /\ values \in Slice(n)
  BY DEF DeltaInv, GivenInv
<1> DEFINE D == 0 .. n - 1
<1> DEFINE cur == lane + row * LaneCount
<1>2. /\ n \in Nat /\ DOMAIN given = D /\ DOMAIN values = D /\ len = n
      /\ \A i \in D : given[i] \in Word /\ values[i] \in Word /\ i \in Nat
      /\ \A i \in D : RowOf(i) \in Nat /\ RowOf(i) < 8 /\ ColOf(i) \in 0 .. LaneCount - 1
  BY <1>1, Shape DEF len
<1>3. /\ pc = "decode" /\ ~UseVectors /\ pc' = "decode" /\ ~needZigZag
      /\ UNCHANGED <<level, needZigZag, masks, given>>
      /\ LaneCount \in Nat \ {0} /\ utlValuesPerLane = 8
      /\ lane \in 0 .. LaneCount /\ row \in 1 .. 7
      /\ needZigZag \in BOOLEAN
  BY Dimensions DEF DecodeWord, DeltaInv, LoopInv, GivenInv
<1>4. IF lane < LaneCount /\ cur < n
      THEN /\ overflowPos' = FirstWrap(overflowPos, cur)
           /\ values' = [values EXCEPT ![cur] = Plus(values[cur - LaneCount], values[cur])]
           /\ lane' = lane + 1 /\ row' = row
      ELSE row' = row + 1 /\ lane' = 0 /\ values' = values /\ overflowPos' = overflowPos
  BY <1>2, <1>3 DEF DecodeWord
<1>5. ASSUME lane < LaneCount
      PROVE  cur \in Nat /\ RowOf(cur) = row /\ ColOf(cur) = lane
  <2>1. row \in Nat /\ lane \in 0 .. LaneCount - 1
    BY <1>3, <1>5
  <2> QED BY <2>1, PlaceOf
<1>6. ASSUME NEW i \in D, RowOf(i) = row, ColOf(i) = lane PROVE i = cur
  BY <1>2, <1>6, Places
<1>7. \A i \in D : i < cur <=> (RowOf(i) < row \/ (RowOf(i) = row /\ ColOf(i) < lane))
  <2>1. row \in Nat /\ lane \in 0 .. LaneCount
    BY <1>3
  <2> QED BY <1>2, <2>1, Order
<1>8. cur \in Nat
  BY <1>3
<1> HIDE DEF cur
<1>9. \A i \in D : values[i] = IF Decoded(i) THEN Sums[i] ELSE given[i]
  BY <1>2, <1>3 DEF DeltaInv, DecodeInv, Pending
<1>10. \A i \in D : Decoded(i) <=> i < cur
  BY <1>3, <1>7 DEF Decoded
<1>11. /\ Sums \in Slice(n) /\ \A i \in D : Sums[i] \in Word
       /\ \A i \in D : Sums[i] = IF i < LaneCount THEN given[i]
                                 ELSE Plus(Sums[i - LaneCount], given[i])
       /\ Wraps = {i \in D : i >= LaneCount /\ Sums[i] < Sums[i - LaneCount]}
  <2>1. /\ Sums \in Slice(n)
        /\ \A i \in D : Sums[i] = IF i < LaneCount THEN given[i]
                                  ELSE Plus(Sums[i - LaneCount], given[i])
        /\ Wraps = {i \in D : i >= LaneCount /\ Sums[i] < Sums[i - LaneCount]}
    BY <1>1, <1>3, SumAt
  <2> QED BY <2>1, Shape
<1>12. ASSUME lane < LaneCount, cur < n
       PROVE  /\ cur \in D /\ cur >= LaneCount /\ cur - LaneCount \in D
              /\ values[cur - LaneCount] = Sums[cur - LaneCount]
              /\ Plus(values[cur - LaneCount], values[cur]) = Sums[cur]
  <2>1. cur \in D /\ cur >= LaneCount
    <3>1. ~(cur < LaneCount)
      BY <1>3, <1>5, <1>12, Above
    <3> QED BY <1>2, <1>3, <1>8, <1>12, <3>1
  <2>2. cur - LaneCount \in D /\ cur - LaneCount < cur /\ ~(cur < cur)
    BY <1>2, <1>3, <1>8, <1>12, <2>1
  <2>3. values[cur] = given[cur] /\ values[cur - LaneCount] = Sums[cur - LaneCount]
    BY <1>9, <1>10, <2>1, <2>2
  <2>4. ~(cur < LaneCount)
    BY <1>3, <1>8, <2>1
  <2> QED BY <1>11, <2>1, <2>2, <2>3, <2>4
<1>13. values' \in Slice(n)
  <2>1. CASE lane < LaneCount /\ cur < n
    <3>1. values' = [values EXCEPT ![cur] = Sums[cur]] /\ cur \in D /\ Sums[cur] \in Word
      BY <1>4, <1>11, <1>12, <2>1
    <3> QED BY <1>1, <3>1 DEF Slice
  <2>2. CASE ~(lane < LaneCount /\ cur < n)
    BY <1>1, <1>4, <2>2
  <2> QED BY <2>1, <2>2
<1>14. UseVectors' = UseVectors
  <2>1. len' = n
    BY <1>13, Shape DEF len
  <2> QED BY <1>2, <1>3, <2>1 DEF UseVectors
<1>15. \A i \in D : Decoded(i)' <=> RowOf(i) < row' \/ (RowOf(i) = row' /\ ColOf(i) < lane')
  BY <1>3, <1>14 DEF Decoded, RowOf, ColOf
<1>16. ASSUME NEW i \in D
       PROVE  Decoded(i)' <=> Decoded(i) \/ (lane < LaneCount /\ cur < n /\ i = cur)
  <2>1. RowOf(i) \in Nat /\ RowOf(i) < 8 /\ ColOf(i) \in 0 .. LaneCount - 1
    BY <1>2
  <2>2. CASE lane < LaneCount /\ cur < n
    <3>1. i = cur <=> RowOf(i) = row /\ ColOf(i) = lane
      BY <1>5, <1>6, <2>2
    <3>2. ColOf(i) < lane + 1 <=> (ColOf(i) < lane \/ ColOf(i) = lane)
      BY <1>3, <2>1
    <3>3. lane' = lane + 1 /\ row' = row
      BY <1>4, <2>2
    <3> QED BY <1>7, <1>10, <1>15, <2>2, <3>1, <3>2, <3>3
  <2>3. CASE ~(lane < LaneCount /\ cur < n)
    <3>1. row' = row + 1 /\ lane' = 0
      BY <1>4, <2>3
    <3>2. RowOf(i) = row => ColOf(i) < lane
      <4>1. CASE lane = LaneCount
        BY <1>3, <2>1, <4>1
      <4>2. CASE lane # LaneCount
        <5>1. i < cur
          BY <1>2, <1>3, <1>8, <2>3, <4>2
        <5> QED BY <1>3, <1>7, <2>1, <5>1
      <4> QED BY <4>1, <4>2
    <3>3. RowOf(i) < row + 1 <=> (RowOf(i) < row \/ RowOf(i) = row)
      BY <1>3, <2>1
    <3>4. ~(ColOf(i) < 0)
      BY <2>1
    <3> QED BY <1>7, <1>10, <1>15, <2>3, <3>1, <3>2, <3>3, <3>4
  <2> QED BY <2>2, <2>3
<1>17. ASSUME NEW i \in D
       PROVE  values'[i] = IF Decoded(i)' THEN Sums[i] ELSE given[i]
  <2>1. CASE lane < LaneCount /\ cur < n
    <3>1. values'[i] = IF i = cur THEN Sums[i] ELSE values[i]
      BY <1>2, <1>4, <1>12, <2>1
    <3> QED BY <1>9, <1>16, <2>1, <3>1
  <2>2. CASE ~(lane < LaneCount /\ cur < n)
    BY <1>4, <1>9, <1>16, <2>2
  <2> QED BY <2>1, <2>2
<1>18. LoopInv'
  <2>1. lane' \in 0 .. LaneCount /\ row' \in 1 .. 8
    BY <1>3, <1>4
  <2> QED BY <1>3, <1>14, <2>1 DEF LoopInv
<1>19. /\ overflowPos = 0 \/ (overflowPos \in Wraps /\ Decoded(overflowPos))
       /\ \A i \in Wraps : Decoded(i) => overflowPos # 0 /\ overflowPos <= i
  BY <1>3 DEF DeltaInv, OverflowInv
<1>20. /\ overflowPos' = 0 \/ (overflowPos' \in Wraps /\ Decoded(overflowPos'))
          \/ (overflowPos' \in Wraps /\ overflowPos' = cur /\ lane < LaneCount /\ cur < n)
       /\ \A i \in Wraps : Decoded(i) \/ (lane < LaneCount /\ cur < n /\ i = cur)
                             => overflowPos' # 0 /\ overflowPos' <= i
  <2>1. CASE lane < LaneCount /\ cur < n
    <3>1. overflowPos' = IF overflowPos = 0 /\ Sums[cur] < Sums[cur - LaneCount]
                         THEN cur ELSE overflowPos
      BY <1>4, <1>12, <2>1 DEF FirstWrap
    <3>2. cur \in Wraps <=> Sums[cur] < Sums[cur - LaneCount]
      BY <1>11, <1>12, <2>1
    <3>3. cur # 0 /\ cur <= cur
      BY <1>3, <1>8, <1>12, <2>1
    <3>4. overflowPos \in Wraps /\ Decoded(overflowPos) => overflowPos <= cur
      BY <1>2, <1>8, <1>10, <1>11
    <3>5. CASE overflowPos = 0 /\ cur \in Wraps
      <4>1. overflowPos' = cur
        BY <3>1, <3>2, <3>5
      <4>2. \A i \in Wraps : ~Decoded(i)
        BY <1>19, <3>5
      <4> QED BY <2>1, <3>3, <3>5, <4>1, <4>2
    <3>6. CASE overflowPos # 0
      BY <1>19, <3>1, <3>4, <3>6
    <3>7. CASE overflowPos = 0 /\ cur \notin Wraps
      BY <1>19, <3>1, <3>2, <3>7
    <3> QED BY <3>5, <3>6, <3>7
  <2>2. CASE ~(lane < LaneCount /\ cur < n)
    BY <1>4, <1>19, <2>2
  <2> QED BY <2>1, <2>2
<1>21. OverflowInv'
  <2>1. masks \in [Rows -> SUBSET Lanes] /\ \A v \in Rows : masks[v] = {}
    BY <1>3 DEF DeltaInv, OverflowInv
  <2>2. Wraps' = Wraps /\ \A i \in Wraps : i \in D
    BY <1>3, <1>11 DEF Wraps
  <2>3. /\ overflowPos' = 0 \/ (overflowPos' \in Wraps /\ (overflowPos' \in D /\ Decoded(overflowPos)'))
        /\ \A i \in Wraps : Decoded(i)' => overflowPos' # 0 /\ overflowPos' <= i
    <3>1. \A i \in Wraps : Decoded(i)' => overflowPos' # 0 /\ overflowPos' <= i
      BY <1>16, <1>20, <2>2
    <3>2. ASSUME overflowPos' # 0 PROVE overflowPos' \in Wraps /\ Decoded(overflowPos)'
      <4>1. overflowPos' \in Wraps /\ overflowPos' \in D
        BY <1>20, <2>2, <3>2
      <4>2. RowOf(overflowPos') < row' \/ (RowOf(overflowPos') = row' /\ ColOf(overflowPos') < lane')
        BY <1>15, <1>16, <1>20, <3>2, <4>1
      <4>3. Decoded(overflowPos)'
        BY <1>3, <1>14, <4>2 DEF Decoded, RowOf, ColOf
      <4> QED BY <4>1, <4>3
    <3> QED BY <2>2, <3>1, <3>2
  <2> QED BY <1>3, <1>14, <2>1, <2>2, <2>3 DEF OverflowInv
<1>22. \A i \in D : Pending(i) = given[i]
  BY <1>3 DEF Pending
<1> QED BY <1>1, <1>3, <1>13, <1>14, <1>17, <1>18, <1>21, <1>22, DecodeStep

-----------------------------------------------------------------------------
(* Masks. *)

(* The addition in lane l of the current row wraps.                        *)
WrapsIn(l) ==
  Plus(values[(row - 1) * LaneCount + l], values[row * LaneCount + l])
    < values[(row - 1) * LaneCount + l]

(* The bits of a vector's comparison, shifted to where its lanes are.      *)
LEMMA VectorBits ==
  ASSUME NEW l \in Nat, NEW n \in Nat, row \in Nat
  PROVE  /\ Shifted(WrapBits(l, n), l) = {j \in l .. l + n - 1 : WrapsIn(j)}
         /\ l = 0 => WrapBits(l, n) = {j \in 0 .. n - 1 : WrapsIn(j)}
<1>1. LaneCount \in Nat
  BY Dimensions
<1> DEFINE a == (row - 1) * LaneCount
<1> DEFINE b == row * LaneCount
<1>2. a \in Int /\ b \in Int
  BY <1>1
<1>3. \A j : WrapsIn(j) <=> Plus(values[a + j], values[b + j]) < values[a + j]
  BY DEF WrapsIn
<1>4. WrapBits(l, n) =
        {k \in 0 .. n - 1 : Plus(values[a + l + k], values[b + l + k]) < values[a + l + k]}
  BY DEF WrapBits
<1> HIDE DEF a, b
<1>5. \A k \in 0 .. n - 1 : k \in WrapBits(l, n) <=> WrapsIn(l + k)
  <2> SUFFICES ASSUME NEW k \in 0 .. n - 1 PROVE k \in WrapBits(l, n) <=> WrapsIn(l + k)
    OBVIOUS
  <2>1. a + l + k = a + (l + k) /\ b + l + k = b + (l + k)
    BY <1>2
  <2> QED BY <1>3, <1>4, <2>1
<1>6. ASSUME NEW x PROVE x \in Shifted(WrapBits(l, n), l) <=> x \in {j \in l .. l + n - 1 : WrapsIn(j)}
  <2>1. ASSUME x \in Shifted(WrapBits(l, n), l) PROVE x \in l .. l + n - 1 /\ WrapsIn(x)
    <3>1. PICK k \in WrapBits(l, n) : x = k + l
      BY <2>1 DEF Shifted
    <3>2. k \in 0 .. n - 1 /\ x = l + k
      BY <1>4, <3>1
    <3> QED BY <1>5, <3>1, <3>2
  <2>2. ASSUME x \in l .. l + n - 1, WrapsIn(x) PROVE x \in Shifted(WrapBits(l, n), l)
    <3> DEFINE k == x - l
    <3>1. k \in 0 .. n - 1 /\ l + k = x /\ k + l = x
      BY <2>2
    <3> HIDE DEF k
    <3>2. k \in WrapBits(l, n)
      BY <1>5, <2>2, <3>1
    <3> QED BY <3>1, <3>2 DEF Shifted
  <2> QED BY <2>1, <2>2
<1>7. ASSUME l = 0 PROVE WrapBits(l, n) = {j \in 0 .. n - 1 : WrapsIn(j)}
  <2>1. \A k \in 0 .. n - 1 : l + k = k
    BY <1>7
  <2> QED BY <1>4, <1>5, <2>1
<1> QED BY <1>6, <1>7

(* Four vectors or two, put together at the right places, give one bit per *)
(* lane that wraps.                                                        *)
LEMMA MaskIs ==
  ASSUME row \in Nat
  PROVE  /\ maskSSE2 = {l \in Lanes : WrapsIn(l)}
         /\ maskAVX2 = {l \in Lanes : WrapsIn(l)}
<1> DEFINE q == LaneCount \div 4
<1> DEFINE h == LaneCount \div 2
<1>1. q \in Nat /\ LaneCount = 4 * q /\ h = 2 * q
  BY DeltaAssumption, Dimensions
<1> DEFINE From(l, n) == Shifted(WrapBits(l, n), l)
<1>2. maskSSE2 = UNION {From(g * 2 * q, q) \cup From(g * 2 * q + q, q) : g \in {0, 1}}
  BY DEF maskSSE2
<1>3. maskAVX2 = WrapBits(0, h) \cup From(h, h)
  BY DEF maskAVX2
<1>4. Lanes = 0 .. LaneCount - 1
  BY DEF Lanes
<1> HIDE DEF q, h
<1>5. ASSUME NEW l \in Nat, NEW n \in Nat PROVE From(l, n) = {j \in l .. l + n - 1 : WrapsIn(j)}
  BY VectorBits
<1>6. maskSSE2 = {l \in Lanes : WrapsIn(l)}
  <2>1. 0 * 2 * q = 0 /\ 1 * 2 * q = 2 * q /\ 0 + q = q /\ 2 * q \in Nat /\ 2 * q + q \in Nat
    BY <1>1
  <2>2. maskSSE2 = (From(0, q) \cup From(q, q)) \cup (From(2 * q, q) \cup From(2 * q + q, q))
    <3> HIDE DEF From
    <3>1. maskSSE2 = (From(0 * 2 * q, q) \cup From(0 * 2 * q + q, q))
                       \cup (From(1 * 2 * q, q) \cup From(1 * 2 * q + q, q))
      BY <1>2
    <3> QED BY <2>1, <3>1
  <2> HIDE DEF From
  <2>3. /\ From(0, q) = {j \in 0 .. 0 + q - 1 : WrapsIn(j)}
        /\ From(q, q) = {j \in q .. q + q - 1 : WrapsIn(j)}
    BY <1>1, <1>5
  <2>4. /\ From(2 * q, q) = {j \in 2 * q .. 2 * q + q - 1 : WrapsIn(j)}
        /\ From(2 * q + q, q) = {j \in 2 * q + q .. 2 * q + q + q - 1 : WrapsIn(j)}
    BY <1>1, <1>5, <2>1
  <2>5. \A j : j \in Lanes <=> \/ j \in 0 .. 0 + q - 1 \/ j \in q .. q + q - 1
                               \/ j \in 2 * q .. 2 * q + q - 1
                               \/ j \in 2 * q + q .. 2 * q + q + q - 1
    BY <1>1, <1>4
  <2> QED BY <2>2, <2>3, <2>4, <2>5
<1>7. maskAVX2 = {l \in Lanes : WrapsIn(l)}
  <2>1. h \in Nat /\ LaneCount = h + h
    BY <1>1
  <2>2. WrapBits(0, h) = {j \in 0 .. h - 1 : WrapsIn(j)}
    BY <2>1, VectorBits
  <2>3. From(h, h) = {j \in h .. h + h - 1 : WrapsIn(j)}
    BY <1>5, <2>1
  <2> HIDE DEF From
  <2>4. \A j : j \in Lanes <=> (j \in 0 .. h - 1 \/ j \in h .. h + h - 1)
    BY <1>4, <2>1
  <2> QED BY <1>3, <2>2, <2>3, <2>4
<1> QED BY <1>6, <1>7

(* The vector decoders take row after row, and keep a mask for each.       *)
LEMMA DecodeRowInv == ASSUME DeltaInv, DecodeRow PROVE DeltaInv'
<1>1. PICK n \in 1 .. blockSize : given \in Slice(n) /\ values \in Slice(n)
  BY DEF DeltaInv, GivenInv
<1> DEFINE D == 0 .. n - 1
<1>2. /\ n \in Nat /\ DOMAIN given = D /\ DOMAIN values = D /\ len = n
      /\ \A i \in D : given[i] \in Word /\ values[i] \in Word /\ i \in Nat
      /\ \A i \in D : RowOf(i) \in Nat /\ RowOf(i) < 8 /\ ColOf(i) \in 0 .. LaneCount - 1
  BY <1>1, Shape DEF len
<1>3. /\ pc = "decode" /\ UseVectors /\ pc' = "decode" /\ n = blockSize
      /\ UNCHANGED <<level, lane, needZigZag, overflowPos, given>>
      /\ LaneCount \in Nat \ {0} /\ utlValuesPerLane = 8 /\ blockSize = 8 * LaneCount
      /\ lane = 0 /\ row \in 1 .. 7 /\ row' = row + 1
      /\ needZigZag \in BOOLEAN
  <2>1. row \in 1 .. 8 /\ row < 8
    BY DEF DecodeRow, DeltaInv, LoopInv, utlValuesPerLane
  <2>2. UseVectors /\ len = blockSize
    BY DEF DecodeRow, UseVectors
  <2>3. lane = 0
    BY <2>2 DEF DeltaInv, LoopInv
  <2> QED BY <1>2, <2>1, <2>2, <2>3, Dimensions DEF DecodeRow, DeltaInv, GivenInv
<1>4. Pos = D
  BY <1>3 DEF Pos
<1>5. ASSUME NEW i \in D, RowOf(i) = row PROVE i >= LaneCount /\ ~(i < LaneCount) /\ i - LaneCount \in D
  <2>1. i \in Nat /\ (i < LaneCount <=> RowOf(i) = 0)
    BY <1>2, Above
  <2>2. i >= LaneCount
    BY <1>3, <1>5, <2>1
  <2>3. i <= n - 1 /\ n \in Nat /\ LaneCount \in Nat \ {0}
    BY <1>2, <1>3
  <2>4. i - LaneCount \in 0 .. n - 1
    BY ONLY <2>1, <2>2, <2>3
  <2> QED BY <1>3, <2>1, <2>2, <2>4
<1>6. \A i \in D : values[i] = IF RowOf(i) < row THEN Sums[i] ELSE Pending(i)
  <2>1. \A i \in D : Decoded(i) <=> RowOf(i) < row
    BY <1>3 DEF Decoded
  <2>2. \A i \in D : values[i] = IF Decoded(i) THEN Sums[i] ELSE Pending(i)
    BY <1>2, <1>3 DEF DeltaInv, DecodeInv
  <2> QED BY <2>1, <2>2
<1>7. /\ Sums \in Slice(n) /\ \A i \in D : Sums[i] \in Word
      /\ \A i \in D : Sums[i] = IF i < LaneCount THEN Pending(i)
                                ELSE Plus(Sums[i - LaneCount], Pending(i))
      /\ ~needZigZag => Wraps = {i \in D : i >= LaneCount /\ Sums[i] < Sums[i - LaneCount]}
  <2>1. /\ Sums \in Slice(n)
        /\ \A i \in D : LET d == IF needZigZag THEN zigzagDecode32(given[i]) ELSE given[i]
                        IN  Sums[i] = IF i < LaneCount THEN d ELSE Plus(Sums[i - LaneCount], d)
        /\ ~needZigZag => Wraps = {i \in D : i >= LaneCount /\ Sums[i] < Sums[i - LaneCount]}
    BY <1>1, <1>3, SumAt
  <2>2. \A i \in D : Pending(i) = IF needZigZag THEN zigzagDecode32(given[i]) ELSE given[i]
    BY <1>3 DEF Pending
  <2> QED BY <2>1, <2>2, Shape
<1>8. ASSUME NEW i \in D, RowOf(i) = row
      PROVE  /\ values[i - LaneCount] = Sums[i - LaneCount]
             /\ Plus(values[i - LaneCount], values[i]) = Sums[i]
  <2>1. i \in Nat /\ i >= LaneCount /\ ~(i < LaneCount) /\ i - LaneCount \in D
    BY <1>2, <1>5, <1>8
  <2>2. RowOf(i - LaneCount) = row - 1
    BY <1>8, <2>1, Above
  <2>3. ~(RowOf(i) < row) /\ RowOf(i - LaneCount) < row
    BY <1>3, <1>8, <2>2
  <2> QED BY <1>6, <1>7, <2>1, <2>3
<1>9. values' = [i \in D |-> IF RowOf(i) = row THEN Sums[i] ELSE values[i]]
  <2>1. values' = [i \in D |-> IF RowOf(i) = row THEN Plus(values[i - LaneCount], values[i])
                                                ELSE values[i]]
    BY <1>4 DEF DecodeRow, RowOf
  <2> QED BY <1>8, <2>1
<1>10. values' \in Slice(n)
  BY <1>2, <1>7, <1>9 DEF Slice
<1>11. len' = n /\ UseVectors' = UseVectors
  <2>1. len' = n
    BY <1>10, Shape DEF len
  <2> QED BY <1>2, <1>3, <2>1 DEF UseVectors
<1>12. ASSUME NEW i \in D PROVE Decoded(i)' <=> RowOf(i) < row \/ RowOf(i) = row
  <2>1. Decoded(i)' <=> RowOf(i) < row'
    BY <1>3, <1>11 DEF Decoded, RowOf, ColOf
  <2>2. RowOf(i) \in Nat /\ row \in 1 .. 7 /\ row' = row + 1
    BY <1>2, <1>3
  <2>3. RowOf(i) < row' <=> (RowOf(i) < row \/ RowOf(i) = row)
    BY <2>2
  <2> QED BY <2>1, <2>3
<1>13. \A i \in D : values'[i] = IF Decoded(i)' THEN Sums[i] ELSE Pending(i)
  BY <1>6, <1>9, <1>12
<1>14. LoopInv'
  <2>1. row' \in 1 .. 8 /\ lane' = 0 /\ 0 \in 0 .. LaneCount
    BY <1>3
  <2> QED BY <1>3, <1>11, <2>1 DEF LoopInv
<1>15. ASSUME ~needZigZag, NEW l \in Lanes
       PROVE  WrapsIn(l) <=> row * LaneCount + l \in Wraps
  <2> DEFINE i == row * LaneCount + l
  <2> DEFINE j == (row - 1) * LaneCount + l
  <2>1. i \in D /\ RowOf(i) = row
    <3>1. i \in Pos
      BY <1>3, LaneOfRow
    <3>2. RowOf(i) = row
      BY <1>3, LaneOfRow
    <3> QED BY <1>4, <3>1, <3>2
  <2>2. j = i - LaneCount
    <3>1. l \in Nat /\ row \in Nat /\ LaneCount \in Nat
      BY <1>3 DEF Lanes
    <3> QED BY <3>1
  <2>3. WrapsIn(l) <=> Plus(values[j], values[i]) < values[j]
    BY DEF WrapsIn
  <2> HIDE DEF i, j
  <2>4. WrapsIn(l) <=> Sums[i] < Sums[i - LaneCount]
    BY <1>8, <2>1, <2>2, <2>3
  <2>5. i \in Wraps <=> Sums[i] < Sums[i - LaneCount]
    BY <1>5, <1>7, <1>15, <2>1
  <2> QED BY <2>4, <2>5 DEF i
<1>16. OverflowInv'
  <2>1. /\ masks \in [Rows -> SUBSET Lanes] /\ overflowPos = 0
        /\ \A v \in Rows : masks[v] = IF ~needZigZag /\ v \in 1 .. row - 1
                                      THEN {l \in Lanes : v * LaneCount + l \in Wraps} ELSE {}
    BY <1>3 DEF DeltaInv, OverflowInv
  <2>2. Wraps' = Wraps
    BY <1>3 DEF Wraps
  <2>3. row \in Rows /\ row \in Nat
    BY <1>3 DEF Rows
  <2>4. ASSUME ~needZigZag
        PROVE  masks' = [masks EXCEPT ![row] = {l \in Lanes : row * LaneCount + l \in Wraps}]
    <3>1. {l \in Lanes : WrapsIn(l)} = {l \in Lanes : row * LaneCount + l \in Wraps}
      BY <1>15, <2>4
    <3>2. masks' = [masks EXCEPT ![row] = IF level = "sse2" THEN maskSSE2 ELSE maskAVX2]
      BY <2>4 DEF DecodeRow
    <3> QED BY <2>3, <3>1, <3>2, MaskIs
  <2>5. /\ masks' \in [Rows -> SUBSET Lanes]
        /\ \A v \in Rows : masks'[v] = IF ~needZigZag /\ v \in 1 .. row' - 1
                                       THEN {l \in Lanes : v * LaneCount + l \in Wraps} ELSE {}
    <3>1. CASE needZigZag
      <4>1. masks' = masks
        BY <3>1 DEF DecodeRow
      <4> QED BY <2>1, <3>1, <4>1
    <3>2. CASE ~needZigZag
      <4>1. \A v \in Rows : v \in 1 .. row' - 1 <=> (v \in 1 .. row - 1 \/ v = row)
        BY <1>3 DEF Rows
      <4>2. \A v \in Rows : v = row => v \notin 1 .. row - 1
        BY <1>3
      <4> DEFINE hit(v) == {l \in Lanes : v * LaneCount + l \in Wraps}
      <4>3. hit(row) \in SUBSET Lanes
        OBVIOUS
      <4>4. masks' = [masks EXCEPT ![row] = hit(row)]
        BY <2>4, <3>2
      <4>5. \A v \in Rows : masks[v] = IF v \in 1 .. row - 1 THEN hit(v) ELSE {}
        BY <2>1, <3>2
      <4> HIDE DEF hit
      <4>6. masks' \in [Rows -> SUBSET Lanes]
        BY <2>1, <2>3, <4>3, <4>4
      <4>7. ASSUME NEW v \in Rows PROVE masks'[v] = IF v \in 1 .. row' - 1 THEN hit(v) ELSE {}
        <5>1. CASE v = row
          BY <2>1, <2>3, <4>1, <4>4, <5>1
        <5>2. CASE v # row
          BY <2>1, <2>3, <4>1, <4>4, <4>5, <5>2
        <5> QED BY <5>1, <5>2
      <4> QED BY <3>2, <4>6, <4>7 DEF hit
    <3> QED BY <3>1, <3>2
  <2>6. overflowPos' = 0
    BY <1>3, <2>1
  <2> QED BY <1>3, <1>11, <2>2, <2>5, <2>6 DEF OverflowInv
<1> QED BY <1>1, <1>3, <1>10, <1>11, <1>13, <1>14, <1>16, DecodeStep

-----------------------------------------------------------------------------
(* Reporting. *)

(* A least element is the one that Least chooses.                          *)
LEMMA LeastIs ==
  ASSUME NEW T \in SUBSET Nat, NEW x \in T, \A y \in T : x <= y
  PROVE  Least(T) = x
<1>1. \A z \in T : (\A y \in T : z <= y) => z = x
  OBVIOUS
<1>2. /\ Least(T) \in T /\ \A y \in T : Least(T) <= y
  <2> DEFINE P(z) == z \in T /\ \A y \in T : z <= y
  <2>1. P(x)
    OBVIOUS
  <2>2. Least(T) = CHOOSE z : P(z)
    BY DEF Least
  <2> HIDE DEF P
  <2>3. P(Least(T))
    BY <2>1, <2>2
  <2> QED BY <2>3 DEF P
<1> QED BY <1>1, <1>2

(* The first row with a mask and the lowest bit in it are the first        *)
(* position of all: rows come before lanes.                                *)
LEMMA ResolvedIs ==
  ASSUME NEW W \in SUBSET Nat,
         \A i \in W : RowOf(i) \in 1 .. 7,
         masks \in [Rows -> SUBSET Lanes],
         \A v \in Rows : masks[v] = IF v \in 1 .. 7 THEN {l \in Lanes : v * LaneCount + l \in W} ELSE {}
  PROVE  resolved = IF W = {} THEN 0 ELSE Least(W)
<1> DEFINE hit == {v \in Rows : masks[v] # {}}
<1>1. Rows = 0 .. 7 /\ Lanes = 0 .. LaneCount - 1 /\ LaneCount \in Nat \ {0}
  BY Dimensions DEF Rows, Lanes
<1>2. ASSUME NEW i \in W
      PROVE  RowOf(i) \in hit /\ ColOf(i) \in masks[RowOf(i)]
  <2>1. RowOf(i) \in 1 .. 7 /\ i \in Nat
    OBVIOUS
  <2>2. ColOf(i) \in Lanes /\ RowOf(i) * LaneCount + ColOf(i) = i
    BY <2>1, RowHasLane
  <2>3. RowOf(i) \in Rows
    BY <1>1, <2>1
  <2>4. ColOf(i) \in {l \in Lanes : RowOf(i) * LaneCount + l \in W}
    BY <2>2
  <2>5. ColOf(i) \in masks[RowOf(i)]
    BY <2>1, <2>3, <2>4
  <2> QED BY <2>3, <2>5
<1>3. ASSUME NEW v \in hit, NEW l \in masks[v]
      PROVE  /\ v \in 1 .. 7 /\ l \in Lanes /\ v * LaneCount + l \in W
             /\ RowOf(v * LaneCount + l) = v /\ ColOf(v * LaneCount + l) = l
  <2>1. v \in 1 .. 7 /\ l \in Lanes /\ v * LaneCount + l \in W
    BY <1>1
  <2> QED BY <2>1, LaneOfRow
<1>4. CASE W = {}
  <2>1. hit = {}
    BY <1>3, <1>4
  <2> QED BY <1>4, <2>1 DEF resolved
<1>5. CASE W # {}
  <2>1. hit # {} /\ hit \in SUBSET Nat
    <3>1. PICK i \in W : TRUE
      BY <1>5
    <3>2. RowOf(i) \in hit
      BY <1>2
    <3>3. \A v \in hit : v \in 0 .. 7
      BY <1>1
    <3> HIDE DEF hit
    <3> QED BY <3>2, <3>3
  <2> HIDE DEF hit
  <2>2. PICK v \in hit : \A y \in hit : v <= y
    BY <2>1, LeastOf
  <2>3. masks[v] # {} /\ masks[v] \in SUBSET Nat /\ v \in Nat
    BY <1>1, <2>1, <2>2 DEF hit
  <2>4. PICK l \in masks[v] : \A y \in masks[v] : l <= y
    BY <2>3, LeastOf
  <2>5. Least(hit) = v /\ Least(masks[v]) = l
    BY <2>1, <2>2, <2>3, <2>4, LeastIs
  <2>6. resolved = v * LaneCount + l
    BY <2>1, <2>5 DEF resolved, hit
  <2>7. v * LaneCount + l \in W /\ v \in 1 .. 7 /\ l \in Lanes
    BY <1>3
  <2>8. ASSUME NEW i \in W PROVE v * LaneCount + l <= i
    <3>1. i \in Nat /\ RowOf(i) \in hit /\ ColOf(i) \in masks[RowOf(i)]
      BY <1>2
    <3>2. v <= RowOf(i) /\ (RowOf(i) = v => l <= ColOf(i)) /\ RowOf(i) \in Nat
      BY <2>1, <2>2, <2>4, <3>1
    <3>3. ColOf(i) \in 0 .. LaneCount - 1 /\ l \in 0 .. LaneCount
      BY <1>1, <2>7, <3>1, Places
    <3>4. ~(RowOf(i) < v \/ (RowOf(i) = v /\ ColOf(i) < l))
      BY <2>3, <3>2, <3>3
    <3>5. ~(i < l + v * LaneCount)
      BY <2>3, <3>1, <3>3, <3>4, Order
    <3>6. v * LaneCount \in Nat
      BY <1>1, <2>3
    <3> QED BY <3>1, <3>3, <3>5, <3>6
  <2> DEFINE x == v * LaneCount + l
  <2>9. x \in W /\ \A i \in W : x <= i
    BY <2>7, <2>8
  <2> HIDE DEF x
  <2>10. Least(W) = x
    BY <2>9, LeastIs
  <2> QED BY <1>5, <2>6, <2>10 DEF x
<1> QED BY <1>4, <1>5

(* When a loop ends, every word is its sum, and what the loops have found  *)
(* is the first addition that wraps.                                       *)
LEMMA EndDecodeInv == ASSUME DeltaInv, EndDecode PROVE DeltaInv'
<1>1. PICK n \in 1 .. blockSize : given \in Slice(n) /\ values \in Slice(n)
  BY DEF DeltaInv, GivenInv
<1> DEFINE D == 0 .. n - 1
<1>2. /\ n \in Nat /\ DOMAIN given = D /\ len = n
      /\ \A i \in D : i \in Nat
      /\ \A i \in D : RowOf(i) \in Nat /\ RowOf(i) < 8 /\ ColOf(i) \in 0 .. LaneCount - 1
  BY <1>1, Shape DEF len
<1>3. /\ pc = "decode" /\ pc' = "done"
      /\ IF UseVectors \/ ~needZigZag THEN row = 8 ELSE lane >= LaneCount \/ lane >= n
      /\ overflowPos' = IF UseVectors THEN resolved ELSE overflowPos
      /\ UNCHANGED <<level, values, lane, row, needZigZag, masks, given>>
      /\ LaneCount \in Nat \ {0} /\ utlValuesPerLane = 8
  BY <1>2, Dimensions DEF EndDecode, utlValuesPerLane
<1>4. needZigZag \in BOOLEAN /\ lane \in 0 .. LaneCount
  BY DEF DeltaInv, GivenInv, LoopInv
<1>5. ASSUME NEW i \in D PROVE Decoded(i)
  <2>1. i \in Nat /\ RowOf(i) \in Nat /\ RowOf(i) < 8 /\ ColOf(i) \in 0 .. LaneCount - 1
    BY <1>2
  <2>2. CASE UseVectors \/ ~needZigZag
    BY <1>3, <2>1, <2>2 DEF Decoded
  <2>3. CASE ~(UseVectors \/ ~needZigZag)
    <3>1. ColOf(i) < lane
      <4>1. CASE lane >= LaneCount
        BY <1>3, <1>4, <2>1, <4>1
      <4>2. CASE lane >= n
        <5>1. ColOf(i) <= i
          <6>1. i = ColOf(i) + RowOf(i) * LaneCount
            BY <2>1, Places
          <6>2. RowOf(i) * LaneCount \in Nat
            BY <1>3, <2>1
          <6> QED BY <2>1, <6>1, <6>2
        <5> QED BY <1>2, <1>4, <2>1, <4>2, <5>1
      <4> QED BY <1>3, <2>3, <4>1, <4>2
    <3> QED BY <2>3, <3>1 DEF Decoded
  <2> QED BY <2>2, <2>3
<1>6. /\ Sums \in Slice(n)
      /\ ~needZigZag => Wraps = {i \in D : i >= LaneCount /\ Sums[i] < Sums[i - LaneCount]}
  BY <1>1, <1>4, SumAt
<1>7. values = Sums
  <2>1. \A i \in D : values[i] = Sums[i]
    BY <1>2, <1>3, <1>5 DEF DeltaInv, DecodeInv
  <2> QED BY <1>1, <1>6, <2>1 DEF Slice
<1>8. KernelsDecode'
  BY <1>3, <1>7 DEF KernelsDecode, Sums
<1>9. Wraps' = Wraps
  BY <1>3 DEF Wraps
<1>10. Wraps \in SUBSET Nat /\ Wraps \in SUBSET D /\ \A i \in Wraps : RowOf(i) \in 1 .. 7
  <2>1. Wraps \in SUBSET D /\ \A i \in Wraps : i >= LaneCount
    BY <1>2 DEF Wraps
  <2>2. ASSUME NEW i \in Wraps PROVE i \in Nat /\ RowOf(i) \in 1 .. 7
    <3>1. i \in Nat /\ RowOf(i) \in Nat /\ RowOf(i) < 8
      BY <1>2, <2>1
    <3>2. ~(i < LaneCount)
      BY <1>3, <2>1, <3>1
    <3>3. RowOf(i) # 0
      BY <3>1, <3>2, Above
    <3> QED BY <3>1, <3>3
  <2> QED BY <2>1, <2>2
<1>11. overflowPos' = IF needZigZag \/ Wraps = {} THEN 0 ELSE Least(Wraps)
  <2>1. CASE UseVectors /\ ~needZigZag
    <3>1. /\ masks \in [Rows -> SUBSET Lanes]
          /\ \A v \in Rows : masks[v] = IF v \in 1 .. 7 THEN {l \in Lanes : v * LaneCount + l \in Wraps}
                                                       ELSE {}
      <4>1. row - 1 = 7
        BY <1>3, <2>1
      <4> QED BY <1>3, <2>1, <4>1 DEF DeltaInv, OverflowInv
    <3>2. resolved = IF Wraps = {} THEN 0 ELSE Least(Wraps)
      BY <1>10, <3>1, ResolvedIs
    <3> QED BY <1>3, <2>1, <3>2
  <2>2. CASE UseVectors /\ needZigZag
    <3>1. \A v \in Rows : masks[v] = {}
      BY <1>3, <2>2 DEF DeltaInv, OverflowInv
    <3>2. {v \in Rows : masks[v] # {}} = {}
      BY <3>1
    <3> QED BY <1>3, <2>2, <3>2 DEF resolved
  <2>3. CASE ~UseVectors /\ needZigZag
    <3>1. overflowPos = 0
      BY <1>3, <2>3 DEF DeltaInv, OverflowInv
    <3> QED BY <1>3, <2>3, <3>1
  <2>4. CASE ~UseVectors /\ ~needZigZag
    <3>1. /\ overflowPos = 0 \/ overflowPos \in Wraps
          /\ \A i \in Wraps : Decoded(i) => overflowPos # 0 /\ overflowPos <= i
      BY <1>3, <2>4 DEF DeltaInv, OverflowInv
    <3>2. \A i \in Wraps : overflowPos # 0 /\ overflowPos <= i
      BY <1>5, <1>10, <3>1
    <3>3. CASE Wraps = {}
      BY <1>3, <2>4, <3>1, <3>3
    <3>4. CASE Wraps # {}
      <4>1. overflowPos \in Wraps
        BY <3>1, <3>2, <3>4
      <4>2. Least(Wraps) = overflowPos
        BY <1>10, <3>2, <4>1, LeastIs
      <4> QED BY <1>3, <2>4, <3>4, <4>2
    <3> QED BY <3>3, <3>4
  <2> QED BY <1>4, <2>1, <2>2, <2>3, <2>4
<1>12. FirstOverflowReported'
  BY <1>3, <1>9, <1>11 DEF FirstOverflowReported
<1>13. GivenInv'
  BY <1>3 DEF DeltaInv, GivenInv
<1>14. LoopInv'
  <2>1. UseVectors' = UseVectors
    BY <1>3 DEF UseVectors, len
  <2>2. UseVectors => lane = 0
    BY DEF DeltaInv, LoopInv
  <2> QED BY <1>3, <1>4, <2>1, <2>2 DEF LoopInv
<1>15. OverflowInv'
  BY <1>3 DEF DeltaInv, OverflowInv
<1>16. EncodeInv' /\ DecodeInv' /\ KernelsEncode'
  BY <1>3 DEF EncodeInv, DecodeInv, KernelsEncode
<1> QED BY <1>8, <1>12, <1>13, <1>14, <1>15, <1>16 DEF DeltaInv

-----------------------------------------------------------------------------
(* Theorems. *)

(* Every step of every kernel, scalar or vector, keeps the invariant: what *)
(* is behind its loop is the result, what is ahead of it the input.        *)
THEOREM KernelsInvariance == Spec => []DeltaInv
<1>1. ASSUME DeltaInv, [Next]_vars PROVE DeltaInv'
  <2>1. CASE EncodeWord
    BY <1>1, <2>1, EncodeWordInv
  <2>2. CASE EncodeRow
    BY <1>1, <2>2, EncodeRowInv
  <2>3. CASE EndEncode
    BY <1>1, <2>3, EndEncodeInv
  <2>4. CASE StartDecode
    BY <1>1, <2>4, StartDecodeInv
  <2>5. CASE UnZigZag
    BY <1>1, <2>5, UnZigZagInv
  <2>6. CASE DecodeZigZagWord
    BY <1>1, <2>6, DecodeZigZagWordInv
  <2>7. CASE DecodeWord
    BY <1>1, <2>7, DecodeWordInv
  <2>8. CASE DecodeRow
    BY <1>1, <2>8, DecodeRowInv
  <2>9. CASE EndDecode
    BY <1>1, <2>9, EndDecodeInv
  <2>10. CASE UNCHANGED vars
    BY <1>1, <2>10 DEF vars, DeltaInv, GivenInv, LoopInv, EncodeInv, DecodeInv, OverflowInv,
      KernelsEncode, KernelsDecode, FirstOverflowReported, UseVectors, len, Encoded, Decoded,
      Pending, Sums, Wraps, RowOf, ColOf
  <2> QED BY <1>1, <2>1, <2>2, <2>3, <2>4, <2>5, <2>6, <2>7, <2>8, <2>9, <2>10 DEF Next
<1> QED BY InitInv, <1>1, PTL DEF Spec

(* In place and in its own order, every encoder leaves the same            *)
(* differences, in zigzag exactly if one of them is negative.              *)
THEOREM EncodersAgree == Spec => []KernelsEncode
<1>1. DeltaInv => KernelsEncode
  BY DEF DeltaInv
<1> QED BY <1>1, KernelsInvariance, PTL

(* Every decoder leaves the same sums of the same words, in lanes, rows or *)
(* vectors.                                                                *)
THEOREM DecodersAgree == Spec => []KernelsDecode
<1>1. DeltaInv => KernelsDecode
  BY DEF DeltaInv
<1> QED BY <1>1, KernelsInvariance, PTL

(* Masks per row and a test per word report the same addition: the first   *)
(* that wraps, and one if there is one.                                    *)
THEOREM SameOverflow == Spec => []FirstOverflowReported
<1>1. DeltaInv => FirstOverflowReported
  BY DEF DeltaInv
<1> QED BY <1>1, KernelsInvariance, PTL
=============================================================================

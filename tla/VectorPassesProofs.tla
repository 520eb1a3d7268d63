------------------------- MODULE VectorPassesProofs -------------------------
(***************************************************************************)
(* PassInv is an inductive invariant of VectorPasses: for slices of any    *)
(* length, at every SIMD level, no pass misses an element or takes one     *)
(* twice, and what the lanes hold at the end is the result for the slice.  *)
(***************************************************************************)
EXTENDS VectorPassesInv, UTLBlockFacts

-----------------------------------------------------------------------------
(* Chunks. *)

ChunkSizes == {1, 2, 4, 8, 16, 32}

(* Whatever the function and the level, a chunk is a power of two that     *)
(* fits into the slice.                                                    *)
LEMMA ChunkFits ==
  ASSUME Called, level \in Levels
  PROVE  /\ n \in Nat /\ n > 0 /\ DOMAIN values = 0 .. n - 1
         /\ chunk \in ChunkSizes /\ chunk \in Nat /\ 0 < chunk /\ chunk <= n
<1>1. n \in 1 .. blockSize /\ blockSize \in Nat /\ DOMAIN values = 0 .. n - 1
  BY Dimensions DEF Called, Slice
<1>2. n \in Nat /\ n > 0 /\ DOMAIN values = 0 .. n - 1
  BY <1>1
<1>3. level \in {"scalar", "sse2", "avx2", "avx512"}
  BY PassAssumption
<1> HIDE DEF n
<1> DEFINE Fits(c) == c \in ChunkSizes /\ c <= n
<1>4. \A size \in ChunkSizes : Fits(ChunkOf(size)) /\ (n >= size => Fits(size))
  BY <1>2 DEF ChunkSizes, ChunkOf
<1>5. 1 \in ChunkSizes /\ 2 \in ChunkSizes /\ 4 \in ChunkSizes /\ 8 \in ChunkSizes
      /\ 16 \in ChunkSizes /\ 32 \in ChunkSizes /\ Fits(1)
  BY <1>2 DEF ChunkSizes
<1> HIDE DEF Fits
<1>6. Fits(chunkMinMax(level)) /\ Fits(chunk32(level)) /\ Fits(chunkAnalyze(level))
      /\ Fits(chunkFit32(level)) /\ Fits(chunkZigzag(level))
  BY <1>3, <1>4, <1>5 DEF chunkMinMax, chunk32, chunkAnalyze, chunkFit32, chunkZigzag
<1>7. \A sse2 \in ChunkSizes : Fits(chunk64(level, sse2))
  BY <1>3, <1>4, <1>5 DEF chunk64
<1>8. pass \in Reductions32 \cup Reductions64 \cup Maps
  BY DEF Called, Maps
<1>9. Fits(chunk)
  BY <1>5, <1>6, <1>7, <1>8 DEF chunk, Reductions32, Reductions64, Maps, Maps32, Maps64
<1>10. chunk \in ChunkSizes /\ chunk <= n
  BY <1>9 DEF Fits
<1> HIDE DEF chunk
<1> QED BY <1>2, <1>10 DEF ChunkSizes

(* Where whole chunks end is a multiple of the chunk, no more than the     *)
(* length, and the only one with less than a chunk behind it.              *)
LEMMA WholeChunks ==
  ASSUME NEW c \in ChunkSizes, NEW len \in Nat, NEW o \in Nat, o % c = 0,
         o <= len, o + c > len
  PROVE  (len \div c) * c = o
BY DEF ChunkSizes

LEMMA NextChunk ==
  ASSUME NEW c \in ChunkSizes, NEW o \in Nat, o % c = 0
  PROVE  (o + c) % c = 0 /\ (o < c => o = 0)
BY DEF ChunkSizes

LEMMA FirstChunk ==
  ASSUME NEW c \in ChunkSizes
  PROVE  c % c = 0 /\ 0 % c = 0
BY DEF ChunkSizes

-----------------------------------------------------------------------------
(* The elements of a lane: those below m congruent to l modulo w. *)

Below(m, w, l) == {j \in 0 .. m - 1 : j % w = l}

(* A chunk gives each lane one more element. *)
LEMMA LaneGrows ==
  ASSUME NEW c \in ChunkSizes, NEW m \in Nat, m % c = 0, NEW l \in 0 .. c - 1
  PROVE  Below(m + c, c, l) = Below(m, c, l) \cup {m + l}
<1>1. m + l \in Nat /\ (m + l) % c = l
  BY DEF ChunkSizes
<1>2. ASSUME NEW j \in m .. m + c - 1, j % c = l PROVE j = m + l
  BY <1>2 DEF ChunkSizes
<1>3. c \in Nat /\ c > 0 /\ l \in Nat /\ l < c
  BY DEF ChunkSizes
<1>4. ASSUME NEW j \in Below(m + c, c, l) PROVE j \in Below(m, c, l) \cup {m + l}
  BY <1>2, <1>3 DEF Below
<1>5. ASSUME NEW j \in Below(m, c, l) \cup {m + l} PROVE j \in Below(m + c, c, l)
  BY <1>1, <1>3 DEF Below
<1> QED BY <1>4, <1>5

(* The seed gives each lane its first element. *)
LEMMA LaneSeeded ==
  ASSUME NEW c \in ChunkSizes, NEW l \in 0 .. c - 1
  PROVE  Below(c, c, l) = {l} /\ Below(0, c, l) = {}
<1>1. Below(0, c, l) = {}
  BY DEF Below
<1>2. c \in Nat /\ 0 % c = 0 /\ l \in Nat
  BY DEF ChunkSizes
<1>3. Below(0 + c, c, l) = Below(0, c, l) \cup {0 + l}
  BY <1>2, LaneGrows
<1> QED BY <1>1, <1>2, <1>3

(* Lane l of half as many stands for lanes l and l + h. *)
Halves == {1, 2, 4, 8, 16}

LEMMA LaneHalved ==
  ASSUME NEW h \in Halves, NEW m \in Nat, NEW l \in 0 .. h - 1
  PROVE  Below(m, h, l) = Below(m, 2 * h, l) \cup Below(m, 2 * h, l + h)
<1>1. ASSUME NEW j \in Nat
      PROVE  j % h = l <=> (j % (2 * h) = l \/ j % (2 * h) = l + h)
  <2>1. CASE h = 1
    BY <2>1
  <2>2. CASE h = 2
    BY <2>2
  <2>3. CASE h = 4
    BY <2>3
  <2>4. CASE h = 8
    BY <2>4
  <2>5. CASE h = 16
    BY <2>5
  <2> QED BY <2>1, <2>2, <2>3, <2>4, <2>5 DEF Halves
<1>2. Below(m, h, l) = {j \in 0 .. m - 1 : j % (2 * h) = l \/ j % (2 * h) = l + h}
  <2> DEFINE a(j) == j % (2 * h)
             b(j) == j % h
  <2>1. \A j \in 0 .. m - 1 : b(j) = l <=> (a(j) = l \/ a(j) = l + h)
    <3>1. \A j \in 0 .. m - 1 : j \in Nat
      OBVIOUS
    <3> QED BY <1>1, <3>1, Zenon
  <2>2. {j \in 0 .. m - 1 : b(j) = l} = {j \in 0 .. m - 1 : a(j) = l \/ a(j) = l + h}
    <3> HIDE DEF a, b
    <3> QED BY <2>1, Zenon
  <2> QED BY <2>2, Zenon DEF Below
<1>3. {j \in 0 .. m - 1 : j % (2 * h) = l \/ j % (2 * h) = l + h}
        = Below(m, 2 * h, l) \cup Below(m, 2 * h, l + h)
  <2> DEFINE a(j) == j % (2 * h)
  <2>1. {j \in 0 .. m - 1 : a(j) = l \/ a(j) = l + h}
          = {j \in 0 .. m - 1 : a(j) = l} \cup {j \in 0 .. m - 1 : a(j) = l + h}
    <3> HIDE DEF a
    <3> QED BY Zenon
  <2> QED BY <2>1, Zenon DEF Below
<1> QED BY <1>2, <1>3

(* One lane stands for all. *)
LEMMA OneLane ==
  ASSUME NEW m \in Nat
  PROVE  Below(m, 1, 0) = 0 .. m - 1
BY DEF Below

-----------------------------------------------------------------------------
(* Bit lengths. *)

LEMMA DoublePowers ==
  /\ 2 * WordBits \in Nat /\ WordBits \in Nat /\ WordBits <= 2 * WordBits
  /\ 2 ^ 0 = 1 /\ Modulus \in Nat /\ Modulus > 0 /\ 2 ^ WordBits = Modulus
  /\ 2 ^ (2 * WordBits) = Modulus * Modulus
  /\ \A b \in 0 .. 2 * WordBits : 2 ^ b \in Nat /\ 2 ^ b > 0
  /\ \A b \in 0 .. 2 * WordBits : \A c \in 0 .. b : 2 ^ c <= 2 ^ b
<1>1. 2 * WordBits \in Nat /\ WordBits \in Nat /\ WordBits <= 2 * WordBits
  BY Dimensions DEF WordBits
<1> HIDE DEF WordBits
<1>2. 0 \in 0 .. 2 * WordBits /\ WordBits \in 0 .. 2 * WordBits
      /\ 2 * WordBits \in 0 .. 2 * WordBits /\ WordBits \in 0 .. 2 * WordBits
      /\ 2 * WordBits - WordBits = WordBits /\ 0 \in 0 .. 0 /\ 0 - 0 = 0
  BY <1>1
<1> DEFINE P(b) == 2 ^ b
<1>3. \A b \in 0 .. 2 * WordBits : P(b) \in Nat \ {0}
  BY DoublePowerAssumption
<1>4. \A b \in 0 .. 2 * WordBits : \A c \in 0 .. b : P(b) = P(c) * P(b - c)
  BY DoublePowerAssumption
<1>5. P(WordBits) = Modulus
  BY DEF Modulus
<1> HIDE DEF P
<1>6. P(0) = 1
  <2> DEFINE x == P(0)
  <2>1. x = x * x /\ x \in Nat \ {0}
    BY <1>2, <1>3, <1>4
  <2>2. x = x * x /\ x \in Nat \ {0} => x = 1
    <3> HIDE DEF x
    <3> QED OBVIOUS
  <2> QED BY <2>1, <2>2
<1>7. P(2 * WordBits) = Modulus * Modulus
  <2>1. P(2 * WordBits) = P(WordBits) * P(2 * WordBits - WordBits)
    BY <1>2, <1>4
  <2> QED BY <2>1, <1>2, <1>5
<1>8. ASSUME NEW b \in 0 .. 2 * WordBits, NEW c \in 0 .. b PROVE P(c) <= P(b)
  <2>1. c \in 0 .. 2 * WordBits /\ b - c \in 0 .. 2 * WordBits
    BY <1>1
  <2>2. P(b) = P(c) * P(b - c) /\ P(c) \in Nat \ {0} /\ P(b - c) \in Nat \ {0}
    BY <2>1, <1>3, <1>4
  <2> DEFINE x == P(c) y == P(b - c)
  <2>3. x \in Nat \ {0} /\ y \in Nat \ {0} => x <= x * y
    <3> HIDE DEF x, y
    <3> QED OBVIOUS
  <2> QED BY <2>2, <2>3
<1>9. Modulus \in Nat /\ Modulus > 0
  <2>1. P(WordBits) \in Nat \ {0}
    BY <1>2, <1>3
  <2> QED BY <2>1, <1>5
<1>10. \A b \in 0 .. 2 * WordBits : P(b) \in Nat /\ P(b) > 0
  BY <1>3
<1> QED BY <1>1, <1>5, <1>6, <1>7, <1>8, <1>9, <1>10 DEF P

(* bitsLen(v) is the least number of bits that holds v. *)
LEMMA BitsLen ==
  ASSUME NEW v \in DoubleWord
  PROVE  /\ bitsLen(v) \in 0 .. 2 * WordBits /\ v < 2 ^ bitsLen(v)
         /\ \A b \in 0 .. 2 * WordBits : v < 2 ^ b => bitsLen(v) <= b
<1> DEFINE P(b) == 2 ^ b
           W == 2 * WordBits
           T == {b \in 0 .. W : v < P(b)}
           Q(b) == v < P(b) /\ (b = 0 \/ v >= P(b - 1))
<1>1. W \in Nat /\ P(W) = Modulus * Modulus /\ v \in Nat /\ v < P(W)
  BY DoublePowers DEF DoubleWord
<1>2. \A b \in 0 .. W : P(b) \in Nat /\ \A c \in 0 .. b : P(c) <= P(b)
  BY DoublePowers
<1>3. bitsLen(v) = CHOOSE b \in 0 .. W : Q(b)
  BY DEF bitsLen
<1> HIDE DEF P, W
<1>4. T \in SUBSET Nat /\ T # {}
  <2>1. W \in T
    BY <1>1
  <2> QED BY <2>1
<1>5. PICK b \in T : \A c \in T : b <= c
  BY <1>4, LeastOf
<1>6. b \in 0 .. W /\ Q(b)
  <2>1. b \in 0 .. W /\ v < P(b)
    BY <1>5
  <2>2. CASE b # 0
    <3>1. b - 1 \in 0 .. W /\ ~(b <= b - 1)
      BY <2>1, <2>2, <1>1
    <3>2. b - 1 \notin T
      BY <3>1, <1>5
    <3> QED BY <2>1, <3>1, <3>2, <1>1, <1>2
  <2> QED BY <2>1, <2>2
<1> DEFINE bl == bitsLen(v)
<1>7. bl \in 0 .. W /\ Q(bl)
  <2> HIDE DEF Q
  <2> QED BY <1>3, <1>6
<1>8. ASSUME NEW c \in 0 .. W, v < P(c) PROVE bl <= c
  <2> HIDE DEF bl
  <2> SUFFICES ASSUME ~(bl <= c) PROVE FALSE
    OBVIOUS
  <2>1. bl # 0 /\ bl - 1 \in 0 .. W /\ c \in 0 .. bl - 1
    BY <1>1, <1>7
  <2>2. P(c) <= P(bl - 1) /\ P(c) \in Nat /\ P(bl - 1) \in Nat
    BY <2>1, <1>2
  <2> QED BY <2>1, <2>2, <1>1, <1>7, <1>8
<1> QED BY <1>7, <1>8 DEF W, P

LEMMA BitsLenMonotone ==
  ASSUME NEW u \in DoubleWord, NEW v \in DoubleWord, u <= v
  PROVE  bitsLen(u) <= bitsLen(v)
<1> DEFINE b == bitsLen(v)
<1>1. b \in 0 .. 2 * WordBits /\ v < 2 ^ b /\ 2 ^ b \in Nat
  BY BitsLen, DoublePowers
<1>2. u \in Nat /\ v \in Nat
  BY DEF DoubleWord
<1> DEFINE p == 2 ^ b
<1>3. u < p
  <2> HIDE DEF p
  <2> QED BY <1>1, <1>2 DEF p
<1> HIDE DEF b
<1>4. u < 2 ^ b => bitsLen(u) <= b
  BY <1>1, BitsLen
<1> QED BY <1>3, <1>4 DEF b

LEMMA BitsLenZero ==
  bitsLen(0) = 0 /\ 0 \in DoubleWord /\ \A v \in DoubleWord : v \in Nat
<1>1. 0 \in DoubleWord /\ \A v \in DoubleWord : v \in Nat
  <2> DEFINE m == Modulus * Modulus
  <2>1. m \in Nat /\ m > 0
    BY DoublePowers
  <2>2. DoubleWord = 0 .. m - 1
    BY DEF DoubleWord
  <2> HIDE DEF m
  <2> QED BY <2>1, <2>2
<1>2. 0 \in 0 .. 2 * WordBits /\ 0 < 2 ^ 0
  BY DoublePowers
<1>3. bitsLen(0) <= 0 /\ bitsLen(0) \in 0 .. 2 * WordBits
  BY <1>1, <1>2, BitsLen
<1> QED BY <1>1, <1>3, DoublePowers

-----------------------------------------------------------------------------
(* Accumulators. *)

LEMMA ValuesFit ==
  ASSUME Called
  PROVE  /\ \A i \in 0 .. n - 1 : values[i] \in DoubleWord /\ values[i] \in Nat
         /\ pass \in Reductions32 \cup Maps32 => values \in Slice(n)
<1>1. Word \subseteq DoubleWord
  <2> DEFINE m == Modulus
  <2>1. m \in Nat /\ m > 0
    BY DoublePowers
  <2>2. Word = 0 .. m - 1 /\ DoubleWord = 0 .. m * m - 1
    BY DEF Word, DoubleWord
  <2>3. m <= m * m /\ m * m \in Nat
    <3> HIDE DEF m
    <3> QED BY <2>1
  <2> HIDE DEF m
  <2> QED BY <2>1, <2>2, <2>3
<1>2. values \in Slice(n) \/ values \in [0 .. n - 1 -> DoubleWord]
  BY DEF Called
<1>3. \A i \in 0 .. n - 1 : values[i] \in DoubleWord
  <2> HIDE DEF n, DoubleWord, Word
  <2> QED BY <1>1, <1>2 DEF Slice
<1>4. pass \in Reductions32 \cup Maps32 => values \in Slice(n)
  BY DEF Called, Reductions32, Reductions64, Maps32, Maps64
<1> QED BY <1>3, <1>4, BitsLenZero

Registers == [min : DoubleWord, max : DoubleWord, bits : 0 .. 2 * WordBits]

LEMMA LowerHigher ==
  ASSUME NEW a \in Nat, NEW b \in Nat
  PROVE  /\ Lower(a, b) \in {a, b} /\ Lower(a, b) <= a /\ Lower(a, b) <= b
         /\ Higher(a, b) \in {a, b} /\ a <= Higher(a, b) /\ b <= Higher(a, b)
BY DEF Lower, Higher

LEMMA BothRegisters ==
  ASSUME NEW r \in Registers, NEW s \in Registers,
         r.bits = bitsLen(r.max), s.bits = bitsLen(s.max)
  PROVE  /\ Both(r, s) \in Registers /\ Both(r, s).bits = bitsLen(Both(r, s).max)
         /\ Both(r, s).min = Lower(r.min, s.min) /\ Both(r, s).max = Higher(r.max, s.max)
<1>1. /\ r.min \in DoubleWord /\ r.max \in DoubleWord /\ r.bits \in 0 .. 2 * WordBits
      /\ s.min \in DoubleWord /\ s.max \in DoubleWord /\ s.bits \in 0 .. 2 * WordBits
  BY DEF Registers
<1>2. /\ Both(r, s).min = Lower(r.min, s.min) /\ Both(r, s).max = Higher(r.max, s.max)
      /\ Both(r, s).bits = Higher(r.bits, s.bits)
      /\ Both(r, s) = [min |-> Lower(r.min, s.min), max |-> Higher(r.max, s.max),
                       bits |-> Higher(r.bits, s.bits)]
  BY DEF Both
<1>3. r.min \in Nat /\ r.max \in Nat /\ s.min \in Nat /\ s.max \in Nat
      /\ r.bits \in Nat /\ s.bits \in Nat
  BY <1>1, BitsLenZero, DoublePowers
<1>4. Lower(r.min, s.min) \in DoubleWord /\ Higher(r.max, s.max) \in DoubleWord
      /\ Higher(r.bits, s.bits) \in 0 .. 2 * WordBits
  <2> HIDE DEF DoubleWord, WordBits
  <2> QED BY <1>1, <1>3, LowerHigher
<1>5. Higher(r.bits, s.bits) = bitsLen(Higher(r.max, s.max))
  <2>1. CASE r.max >= s.max
    <3>1. Higher(r.max, s.max) = r.max /\ s.bits <= r.bits
      BY <2>1, <1>1, <1>3, BitsLenMonotone DEF Higher
    <3> QED BY <3>1, <1>3 DEF Higher
  <2>2. CASE ~(r.max >= s.max)
    <3>1. Higher(r.max, s.max) = s.max /\ r.bits <= s.bits
      <4>1. r.max <= s.max
        BY <2>2, <1>3
      <4> QED BY <4>1, <2>2, <1>1, BitsLenMonotone DEF Higher
    <3> QED BY <3>1, <1>3 DEF Higher
  <2> QED BY <2>1, <2>2
<1>6. Both(r, s) \in Registers
  BY <1>2, <1>4 DEF Registers
<1> QED BY <1>2, <1>5, <1>6

LEMMA OfCovers ==
  ASSUME Called, NEW i \in 0 .. n - 1
  PROVE  Covers(Of(values[i]), {i})
<1> DEFINE v == values[i]
<1>1. v \in DoubleWord /\ v \in Nat /\ bitsLen(v) \in 0 .. 2 * WordBits
  BY ValuesFit, BitsLen
<1>2. Of(v) = [min |-> v, max |-> v, bits |-> bitsLen(v)]
  BY DEF Of
<1>3. Of(v).min = v /\ Of(v).max = v /\ Of(v).bits = bitsLen(v)
      /\ Of(v) \in [min : DoubleWord, max : DoubleWord, bits : 0 .. 2 * WordBits]
  BY <1>1, <1>2
<1>4. v <= v
  BY <1>1
<1> QED BY <1>3, <1>4 DEF Covers

LEMMA ZeroCovers ==
  ASSUME ~Seeded
  PROVE  Covers(Zero, {})
<1>1. 0 \in 0 .. 2 * WordBits
  BY DoublePowers
<1> QED BY <1>1, BitsLenZero DEF Covers, Zero

(* The minimum, the maximum and the OR of two sets of elements. *)
LEMMA BothCovers ==
  ASSUME Called, NEW I \in SUBSET (0 .. n - 1), NEW J \in SUBSET (0 .. n - 1),
         NEW r, NEW s, Covers(r, I), Covers(s, J)
  PROVE  Covers(Both(r, s), I \cup J)
<1> DEFINE b == Both(r, s)
<1>1. r \in Registers /\ s \in Registers /\ r.bits = bitsLen(r.max) /\ s.bits = bitsLen(s.max)
  BY DEF Covers, Registers
<1>2. /\ b \in Registers /\ b.bits = bitsLen(b.max)
      /\ b.min = Lower(r.min, s.min) /\ b.max = Higher(r.max, s.max)
  BY <1>1, BothRegisters
<1>3. r.min \in Nat /\ r.max \in Nat /\ s.min \in Nat /\ s.max \in Nat
  BY <1>1, BitsLenZero DEF Registers
<1>4. \A i \in I \cup J : values[i] \in Nat
  BY ValuesFit
<1>5. /\ b.min \in {r.min, s.min} /\ b.min <= r.min /\ b.min <= s.min
      /\ b.max \in {r.max, s.max} /\ r.max <= b.max /\ s.max <= b.max
  BY <1>2, <1>3, LowerHigher
<1>6. b.min \in Nat /\ b.max \in Nat
  BY <1>3, <1>5
<1>7. I = {} => r.max = 0 /\ ~Seeded
  BY DEF Covers
<1>8. J = {} => s.max = 0 /\ ~Seeded
  BY DEF Covers
<1>9. I # {} => /\ \E i \in I : r.max = values[i]
                /\ \A i \in I : values[i] <= r.max
                /\ Seeded => (\E i \in I : r.min = values[i]) /\ \A i \in I : r.min <= values[i]
  BY DEF Covers
<1>10. J # {} => /\ \E i \in J : s.max = values[i]
                 /\ \A i \in J : values[i] <= s.max
                 /\ Seeded => (\E i \in J : s.min = values[i]) /\ \A i \in J : s.min <= values[i]
  BY DEF Covers
<1> HIDE DEF b
<1>11. CASE I = {} /\ J = {}
  <2>1. b.max = 0 /\ ~Seeded
    BY <1>5, <1>7, <1>8, <1>11
  <2> QED BY <2>1, <1>2, <1>11 DEF Covers, Registers, b
<1>12. CASE I # {} \/ J # {}
  <2>1. I \cup J # {}
    BY <1>12
  <2>2. \A i \in I \cup J : values[i] <= b.max
    <3>1. ASSUME NEW i \in I PROVE values[i] <= b.max
      BY <1>3, <1>4, <1>5, <1>6, <1>9
    <3>2. ASSUME NEW i \in J PROVE values[i] <= b.max
      BY <1>3, <1>4, <1>5, <1>6, <1>10
    <3> QED BY <3>1, <3>2
  <2>3. \E i \in I \cup J : b.max = values[i]
    <3>1. CASE I # {} /\ J # {}
      BY <3>1, <1>5, <1>9, <1>10
    <3>2. CASE I = {}
      <4>1. b.max = s.max
        BY <3>2, <1>3, <1>5, <1>7
      <4> QED BY <4>1, <3>2, <1>10, <1>12
    <3>3. CASE J = {}
      <4>1. b.max = r.max
        BY <3>3, <1>3, <1>5, <1>8
      <4> QED BY <4>1, <3>3, <1>9, <1>12
    <3> QED BY <3>1, <3>2, <3>3
  <2>4. ASSUME Seeded
        PROVE  (\E i \in I \cup J : b.min = values[i]) /\ \A i \in I \cup J : b.min <= values[i]
    <3>1. I # {} /\ J # {}
      BY <2>4, <1>7, <1>8
    <3>2. \E i \in I \cup J : b.min = values[i]
      BY <2>4, <3>1, <1>5, <1>9, <1>10
    <3>3. ASSUME NEW i \in I PROVE b.min <= values[i]
      BY <2>4, <3>1, <1>3, <1>4, <1>5, <1>6, <1>9
    <3>4. ASSUME NEW i \in J PROVE b.min <= values[i]
      BY <2>4, <3>1, <1>3, <1>4, <1>5, <1>6, <1>10
    <3> QED BY <3>2, <3>3, <3>4
  <2> QED BY <2>1, <2>2, <2>3, <2>4, <1>2 DEF Covers, Registers, b
<1> QED BY <1>11, <1>12

-----------------------------------------------------------------------------
(* Counts. *)

CountedIn(I, si) == {i \in I : CountIn(values[i], si) = 1}

LEMMA CountsGrow ==
  ASSUME NEW a \in Nat, NEW b \in Nat, NEW si
  PROVE  /\ Cardinality(CountedIn(0 .. a - 1, si)) \in 0 .. a
         /\ Cardinality(CountedIn(0 .. a + b - 1, si))
              = Cardinality(CountedIn(0 .. a - 1, si)) + Cardinality(CountedIn(a .. a + b - 1, si))
<1> DEFINE A == 0 .. a - 1  B == a .. a + b - 1  C == 0 .. a + b - 1
           c(i) == CountIn(values[i], si) = 1
           X == {i \in A : c(i)}  Y == {i \in B : c(i)}  Z == {i \in C : c(i)}
<1>1. IsFiniteSet(A) /\ IsFiniteSet(B) /\ Cardinality(A) = a
  BY FS_Interval
<1>2. C = A \cup B /\ A \cap B = {}
  OBVIOUS
<1> HIDE DEF A, B, C, c
<1>3. X \in SUBSET A /\ Y \in SUBSET B
  OBVIOUS
<1>4. Z = X \cup Y /\ X \cap Y = {}
  BY <1>2
<1> HIDE DEF X, Y, Z
<1>5. IsFiniteSet(X) /\ IsFiniteSet(Y) /\ Cardinality(X) <= a
  BY <1>1, <1>3, FS_Subset
<1>6. Cardinality(X) \in Nat /\ Cardinality(Y) \in Nat
  BY <1>5, FS_CardinalityType
<1>7. Cardinality(X \cup Y) = Cardinality(X) + Cardinality(Y) - Cardinality(X \cap Y)
  BY <1>5, FS_Union
<1>8. Cardinality(Z) = Cardinality(X) + Cardinality(Y) /\ Cardinality(X) \in 0 .. a
  BY <1>4, <1>5, <1>6, <1>7, FS_EmptySet
<1> QED BY <1>8, Zenon DEF CountedIn, A, B, C, X, Y, Z, c

LEMMA CountsBelowIs ==
  ASSUME NEW m
  PROVE  /\ CountsBelow(m) = [si \in 0 .. 8 |-> Cardinality(CountedIn(0 .. m - 1, si))]
         /\ \A I : Counted(I) = [si \in 0 .. 8 |-> counts[si] + Cardinality(CountedIn(I, si))]
BY Zenon DEF CountsBelow, CountedIn, Counted

LEMMA NothingCounted ==
  CountsBelow(0) = NoCounts
<1>1. 0 .. 0 - 1 = {}
  OBVIOUS
<1>2. \A si : CountedIn({}, si) = {}
  BY DEF CountedIn
<1>3. \A si : Cardinality(CountedIn(0 .. 0 - 1, si)) = 0
  BY <1>1, <1>2, FS_EmptySet
<1> QED BY <1>3, CountsBelowIs DEF NoCounts

(* Counting the elements from off on gives the counts below the new off.   *)
LEMMA CountsStep ==
  ASSUME CountsInv, Counting, off \in Nat, NEW b \in Nat
  PROVE  Counted(off .. off + b - 1) = CountsBelow(off + b)
<1>1. counts = [si \in 0 .. 8 |-> Cardinality(CountedIn(0 .. off - 1, si))]
  BY CountsBelowIs DEF CountsInv
<1>2. \A si \in 0 .. 8 : counts[si] = Cardinality(CountedIn(0 .. off - 1, si))
  BY <1>1
<1>3. \A si : Cardinality(CountedIn(0 .. off + b - 1, si))
                = Cardinality(CountedIn(0 .. off - 1, si)) + Cardinality(CountedIn(off .. off + b - 1, si))
  BY CountsGrow
<1>4. \A si \in 0 .. 8 : counts[si] + Cardinality(CountedIn(off .. off + b - 1, si))
                           = Cardinality(CountedIn(0 .. off + b - 1, si))
  BY <1>2, <1>3, Zenon
<1>5. CountsBelow(off + b) = [si \in 0 .. 8 |-> Cardinality(CountedIn(0 .. off + b - 1, si))]
  BY CountsBelowIs
<1>6. Counted(off .. off + b - 1)
        = [si \in 0 .. 8 |-> counts[si] + Cardinality(CountedIn(off .. off + b - 1, si))]
  BY CountsBelowIs
<1> QED BY <1>4, <1>5, <1>6, Zenon

-----------------------------------------------------------------------------
(* What no step changes. *)

LEMMA Same ==
  ASSUME UNCHANGED <<pass, level, values>>
  PROVE  /\ n' = n /\ chunk' = chunk /\ Seeded' = Seeded /\ Counting' = Counting
         /\ Called' = Called /\ MapInput' = MapInput
         /\ CountsBelow(off)' = CountsBelow(off')
         /\ \A v : Mapped(v)' = Mapped(v)
<1>1. n' = n /\ Seeded' = Seeded /\ Counting' = Counting /\ MapInput' = MapInput
  BY DEF n, Seeded, Counting, MapInput
<1>2. chunk' = chunk
  BY DEF n, chunk, chunkMinMax, chunk32, chunkAnalyze, chunkFit32, chunkZigzag, chunk64, ChunkOf
<1>3. Called' = Called
  BY DEF n, Called
<1>4. CountsBelow(off)' = CountsBelow(off')
  BY DEF CountsBelow, CountIn, UseHist
<1>5. \A v : Mapped(v)' = Mapped(v)
  BY DEF Mapped
<1> QED BY <1>1, <1>2, <1>3, <1>4, <1>5

(* What a step has to show of the lanes that it leaves.                    *)
LEMMA LanesNext ==
  ASSUME UNCHANGED <<pass, level, values>>, NEW w,
         DOMAIN regs' = 0 .. w - 1,
         \A l \in 0 .. w - 1 : Covers(regs'[l], Below(Seen', w, l))
  PROVE  LanesOf(w)'
<1>1. \A l : Covers(regs[l], Lane(w, l))' <=> Covers(regs'[l], Lane(w, l)')
  BY DEF Covers, Seeded
<1>2. \A l : Lane(w, l)' = Below(Seen', w, l)
  BY Zenon DEF Lane, Below
<1> QED BY <1>1, <1>2 DEF LanesOf

LEMMA LanesNow ==
  ASSUME NEW w, LanesOf(w)
  PROVE  DOMAIN regs = 0 .. w - 1 /\ \A l \in 0 .. w - 1 : Covers(regs[l], Below(Seen, w, l))
<1>1. \A l : Lane(w, l) = Below(Seen, w, l)
  BY Zenon DEF Lane, Below
<1> QED BY <1>1 DEF LanesOf

-----------------------------------------------------------------------------
(* StepInv is inductive: one lemma for each action. *)

LEMMA InitStep == Init => StepInv
<1> SUFFICES ASSUME Init PROVE StepInv
  OBVIOUS
<1>1. Called /\ n \in Nat /\ n > 0
  <2>1. blockSize \in Nat
    BY Dimensions
  <2>2. ASSUME NEW m \in 1 .. blockSize, NEW R, values \in [0 .. m - 1 -> R]
        PROVE  n = m
    <3>1. DOMAIN values = 0 .. m - 1 /\ m \in Nat /\ m > 0
      BY <2>1, <2>2
    <3>2. Cardinality(0 .. m - 1) = m
      BY <3>1, FS_Interval
    <3> QED BY <3>1, <3>2 DEF n, SliceLen
  <2>3. CASE pass \in Reductions32 \cup Maps32 /\ values \in Slices32
             /\ (pass = "selectBitWidthWithFOR" => level = "avx512")
    <3>1. PICK m \in 1 .. blockSize : values \in Slice(m)
      BY <2>3, PassAssumption
    <3>2. n = m
      BY <3>1, <2>2 DEF Slice
    <3> HIDE DEF n
    <3> QED BY <2>1, <2>3, <3>1, <3>2 DEF Called
  <2>4. CASE pass \in Reductions64 \cup Maps64 /\ values \in Slices64
    <3>1. PICK m \in 1 .. blockSize : values \in [0 .. m - 1 -> DoubleWord]
      BY <2>4, PassAssumption
    <3>2. n = m
      BY <3>1, <2>2
    <3> HIDE DEF n
    <3> QED BY <2>1, <2>4, <3>1, <3>2 DEF Called
  <2> QED BY <2>3, <2>4 DEF Init
<1>2. off = 0 /\ pc = "start" /\ level \in Levels /\ regs = <<>> /\ out = <<>> /\ counts = NoCounts
  BY DEF Init
<1>3. chunk \in ChunkSizes
  BY <1>1, <1>2, ChunkFits
<1>4. off % chunk = 0
  BY <1>2, <1>3, FirstChunk
<1>5. CountsInv
  BY <1>2, NothingCounted DEF CountsInv
<1> QED BY <1>1, <1>2, <1>4, <1>5 DEF StepInv, Progress, LanesInv, ElementsOnce

LEMMA StepFacts ==
  ASSUME StepInv
  PROVE  /\ n \in Nat /\ n > 0 /\ DOMAIN values = 0 .. n - 1
         /\ chunk \in ChunkSizes /\ chunk \in Nat /\ 0 < chunk /\ chunk <= n
         /\ off \in Nat /\ off <= n /\ Called /\ level \in Levels
BY ChunkFits DEF StepInv

LEMMA StartStep ==
  ASSUME StepInv, Start
  PROVE  StepInv'
<1>1. /\ n \in Nat /\ n > 0 /\ DOMAIN values = 0 .. n - 1
      /\ chunk \in ChunkSizes /\ chunk \in Nat /\ 0 < chunk /\ chunk <= n
      /\ off = 0 /\ Called /\ level \in Levels
  BY StepFacts DEF StepInv, Progress, Start
<1>2. /\ pc' = "chunks" /\ level' = level /\ pass' = pass /\ values' = values /\ counts' = counts
      /\ off' = IF pass \in Maps THEN 0 ELSE FirstOff
      /\ regs' = IF pass \in Maps THEN <<>>
                 ELSE [l \in 0 .. chunk - 1 |-> IF Seeded THEN Of(values[l]) ELSE Zero]
      /\ out' = IF pass \in Maps THEN MapInput ELSE <<>>
  BY DEF Start
<1>3. /\ n' = n /\ chunk' = chunk /\ Seeded' = Seeded /\ Counting' = Counting
      /\ Called' = Called /\ MapInput' = MapInput
      /\ CountsBelow(off)' = CountsBelow(off')
  BY <1>2, Same
<1>4. off' \in {0, chunk} /\ (pass \in Maps => off' = 0) /\ (Counting => off' = 0)
      /\ (off' = chunk => Seeded)
  BY <1>1, <1>2 DEF FirstOff, Seeded, Counting, Maps, Maps32, Maps64
<1>5. off' % chunk = 0 /\ off' \in 0 .. n
  <2>1. CASE off' = 0
    BY <2>1, <1>1, FirstChunk
  <2>2. CASE off' = chunk
    BY <2>2, <1>1, FirstChunk
  <2> QED BY <2>1, <2>2, <1>4
<1>6. Progress'
  BY <1>2, <1>3, <1>5 DEF Progress
<1>7. LanesInv'
  <2>1. CASE pass \in Maps
    BY <2>1, <1>2 DEF LanesInv
  <2>2. CASE pass \notin Maps
    <3>1. DOMAIN regs' = 0 .. chunk - 1
      BY <1>2, <2>2
    <3>2. Seen' = IF Seeded THEN chunk ELSE 0
      <4>1. CASE Seeded
        BY <4>1, <1>1, <1>3, <1>4 DEF Seen
      <4>2. CASE ~Seeded
        BY <4>2, <1>1, <1>3, <1>4 DEF Seen
      <4> QED BY <4>1, <4>2
    <3>3. ASSUME NEW l \in 0 .. chunk - 1
          PROVE  Covers(regs'[l], Below(Seen', chunk, l))
      <4>1. regs'[l] = IF Seeded THEN Of(values[l]) ELSE Zero
        BY <1>2, <2>2
      <4>2. Below(chunk, chunk, l) = {l} /\ Below(0, chunk, l) = {} /\ l \in 0 .. n - 1
        BY <1>1, LaneSeeded
      <4>3. CASE Seeded
        BY <4>1, <4>2, <4>3, <3>2, <1>1, OfCovers
      <4>4. CASE ~Seeded
        BY <4>1, <4>2, <4>4, <3>2, ZeroCovers
      <4> QED BY <4>3, <4>4
    <3>4. PICK w \in ChunkSizes : w = chunk
      BY <1>1
    <3>5. LanesOf(w)'
      BY <3>1, <3>3, <3>4, <1>2, LanesNext
    <3> QED BY <3>4, <3>5, <1>1, <1>2, <1>3 DEF LanesInv, ChunkSizes
  <2> QED BY <2>1, <2>2
<1>8. CountsInv'
  <2>1. counts = NoCounts
    BY <1>1, NothingCounted DEF StepInv, CountsInv
  <2>2. Counting => CountsBelow(off)' = NoCounts
    BY <1>3, <1>4, NothingCounted
  <2> QED BY <2>1, <2>2, <1>2, <1>3 DEF CountsInv
<1>9. ElementsOnce'
  <2>1. ASSUME pass \in Maps PROVE out' = [i \in 0 .. n - 1 |-> MapInput[i]]
    BY <1>1, <1>2, <2>1 DEF MapInput
  <2>2. ASSUME pass \in Maps, NEW i \in 0 .. n - 1 PROVE ~(i < off')
    BY <1>4, <2>2
  <2> QED BY <2>1, <2>2, <1>1, <1>2, <1>3 DEF ElementsOnce
<1> QED BY <1>1, <1>2, <1>3, <1>5, <1>6, <1>7, <1>8, <1>9 DEF StepInv

LEMMA ReduceChunkStep ==
  ASSUME StepInv, ReduceChunk
  PROVE  StepInv'
<1>1. /\ n \in Nat /\ n > 0 /\ DOMAIN values = 0 .. n - 1
      /\ chunk \in ChunkSizes /\ chunk \in Nat /\ 0 < chunk /\ chunk <= n
      /\ off \in Nat /\ off <= n /\ Called /\ level \in Levels
  BY StepFacts
<1>2. /\ pc = "chunks" /\ pass \notin Maps /\ off + chunk <= n
      /\ regs' = [l \in DOMAIN regs |-> Both(regs[l], Of(values[off + l]))]
      /\ counts' = IF Counting THEN Counted(off .. off + chunk - 1) ELSE counts
      /\ off' = off + chunk /\ pc' = pc /\ out' = out
      /\ level' = level /\ pass' = pass /\ values' = values
  BY DEF ReduceChunk
<1>3. /\ n' = n /\ chunk' = chunk /\ Seeded' = Seeded /\ Counting' = Counting
      /\ Called' = Called /\ CountsBelow(off)' = CountsBelow(off')
  BY <1>2, Same
<1>4. off % chunk = 0 /\ out = <<>> /\ CountsInv
  BY <1>2 DEF StepInv, Progress
<1>5. off' % chunk = 0 /\ off' \in 0 .. n /\ (off < chunk => off = 0)
  BY <1>1, <1>2, <1>4, NextChunk
<1>6. PICK w \in ChunkSizes : w = chunk /\ LanesOf(w)
  BY <1>2 DEF StepInv, LanesInv, ChunkSizes
<1>7. DOMAIN regs = 0 .. w - 1 /\ \A l \in 0 .. w - 1 : Covers(regs[l], Below(Seen, w, l))
  BY <1>6, LanesNow
<1>8. Seen' = off + chunk
  BY <1>1, <1>2, <1>3 DEF Seen
<1>9. ASSUME NEW l \in 0 .. w - 1
      PROVE  Covers(regs'[l], Below(Seen', w, l))
  <2>1. off + l \in 0 .. n - 1 /\ l \in 0 .. n - 1 /\ w \in Nat
    BY <1>1, <1>2, <1>6
  <2>2. Covers(Of(values[off + l]), {off + l})
    BY <2>1, <1>1, OfCovers
  <2>3. Below(off + w, w, l) = Below(off, w, l) \cup {off + l}
    <3>1. PICK m \in Nat : m = off /\ m % w = 0
      BY <1>1, <1>4, <1>6
    <3>2. Below(m + w, w, l) = Below(m, w, l) \cup {m + l}
      BY <3>1, LaneGrows
    <3> QED BY <3>1, <3>2
  <2>4. Below(Seen, w, l) \cup {off + l} = Below(off + w, w, l)
    <3>1. CASE Seeded /\ off < chunk
      <4>1. off = 0 /\ Seen = w
        BY <3>1, <1>5, <1>6 DEF Seen
      <4>2. Below(w, w, l) = {l} /\ Below(0, w, l) = {}
        BY LaneSeeded
      <4> QED BY <4>1, <4>2, <2>3
    <3>2. CASE ~(Seeded /\ off < chunk)
      <4>1. Seen = off
        BY <3>2 DEF Seen
      <4> QED BY <4>1, <2>3
    <3> QED BY <3>1, <3>2
  <2>5. Below(Seen, w, l) \in SUBSET (0 .. n - 1)
    <3>1. Seen \in Nat /\ Seen <= n
      BY <1>1 DEF Seen
    <3> QED BY <3>1, <1>1 DEF Below
  <2>6. Covers(regs[l], Below(Seen, w, l)) /\ regs'[l] = Both(regs[l], Of(values[off + l]))
    BY <1>2, <1>7
  <2>7. Covers(Both(regs[l], Of(values[off + l])), Below(Seen, w, l) \cup {off + l})
    <3>1. {off + l} \in SUBSET (0 .. n - 1)
      BY <2>1
    <3> QED BY <3>1, <2>2, <2>5, <2>6, <1>1, BothCovers
  <2> QED BY <2>4, <2>6, <2>7, <1>6, <1>8
<1>10. LanesInv'
  <2>1. DOMAIN regs' = 0 .. w - 1
    BY <1>2, <1>7
  <2>2. LanesOf(w)'
    BY <2>1, <1>2, <1>9, LanesNext
  <2> QED BY <2>2, <1>1, <1>2, <1>3, <1>6 DEF LanesInv, ChunkSizes
<1>11. CountsInv'
  <2>1. Counting => Counted(off .. off + chunk - 1) = CountsBelow(off + chunk)
    BY <1>1, <1>4, CountsStep
  <2>2. CountsBelow(off)' = CountsBelow(off + chunk)
    BY <1>2, <1>3
  <2>3. ~Counting => counts' = NoCounts
    BY <1>2, <1>4 DEF CountsInv
  <2> QED BY <2>1, <2>2, <2>3, <1>2, <1>3 DEF CountsInv
<1> QED BY <1>1, <1>2, <1>3, <1>4, <1>5, <1>10, <1>11 DEF StepInv, Progress, ElementsOnce

(* The elements below a have been mapped, the others not.                  *)
MappedBelow(a) == [i \in DOMAIN values |-> IF i < a THEN Mapped(MapInput[i]) ELSE MapInput[i]]

LEMMA MapStep ==
  ASSUME NEW a \in Nat, NEW b \in Nat, out = MappedBelow(a), DOMAIN values \in SUBSET Nat
  PROVE  MappedAt(a .. a + b - 1) = MappedBelow(a + b)
<1> DEFINE M(i) == Mapped(MapInput[i])
           I == a .. a + b - 1
<1>1. DOMAIN out = DOMAIN values
      /\ \A i \in DOMAIN values : out[i] = IF i < a THEN M(i) ELSE MapInput[i]
  BY DEF MappedBelow
<1>2. MappedAt(I) = [i \in DOMAIN values |-> IF i \in I THEN Mapped(out[i]) ELSE out[i]]
  BY <1>1, Zenon DEF MappedAt
<1>3. \A i \in DOMAIN values : i \in I <=> ~(i < a) /\ i < a + b
  OBVIOUS
<1>4. \A i \in DOMAIN values : i < a => i < a + b
  OBVIOUS
<1>5. ASSUME NEW i \in DOMAIN values
      PROVE  (IF i \in I THEN Mapped(out[i]) ELSE out[i])
               = IF i < a + b THEN M(i) ELSE MapInput[i]
  <2>1. CASE i < a
    <3>1. i \notin I /\ i < a + b /\ out[i] = M(i)
      BY <2>1, <1>1, <1>3, <1>4
    <3> QED BY <3>1, Zenon
  <2>2. CASE ~(i < a) /\ i < a + b
    <3>1. i \in I /\ out[i] = MapInput[i]
      BY <2>2, <1>1, <1>3
    <3> QED BY <3>1, <2>2, Zenon
  <2>3. CASE ~(i < a) /\ ~(i < a + b)
    <3>1. i \notin I /\ out[i] = MapInput[i]
      BY <2>3, <1>1, <1>3
    <3> QED BY <3>1, <2>3, Zenon
  <2> QED BY <2>1, <2>2, <2>3
<1>6. MappedBelow(a + b) = [i \in DOMAIN values |-> IF i < a + b THEN M(i) ELSE MapInput[i]]
  BY Zenon DEF MappedBelow
<1> QED BY <1>2, <1>5, <1>6, Zenon

LEMMA ElementsNext ==
  ASSUME UNCHANGED <<pass, level, values>>, out' = MappedBelow(off')
  PROVE  ElementsOnce'
<1>1. MapInput' = MapInput /\ \A v : Mapped(v)' = Mapped(v)
  BY Same
<1>2. out' = [i \in DOMAIN values |-> IF i < off' THEN Mapped(MapInput[i]) ELSE MapInput[i]]
  BY DEF MappedBelow
<1>3. ASSUME NEW i \in DOMAIN values
      PROVE  Mapped(MapInput[i])' = Mapped(MapInput[i])
  BY <1>1 DEF Mapped
<1> QED BY <1>1, <1>2, <1>3 DEF ElementsOnce

LEMMA MapChunkStep ==
  ASSUME StepInv, MapChunk
  PROVE  StepInv'
<1>1. /\ n \in Nat /\ n > 0 /\ DOMAIN values = 0 .. n - 1
      /\ chunk \in ChunkSizes /\ chunk \in Nat /\ 0 < chunk /\ chunk <= n
      /\ off \in Nat /\ off <= n /\ Called /\ level \in Levels
  BY StepFacts
<1>2. /\ pc = "chunks" /\ pass \in Maps /\ off + chunk <= n
      /\ out' = MappedAt(off .. off + chunk - 1)
      /\ off' = off + chunk /\ pc' = pc /\ regs' = regs /\ counts' = counts
      /\ level' = level /\ pass' = pass /\ values' = values
  BY DEF MapChunk
<1>3. n' = n /\ chunk' = chunk /\ Counting' = Counting /\ Called' = Called
  BY <1>2, Same
<1>4. off % chunk = 0 /\ regs = <<>> /\ ~Counting /\ counts = NoCounts
  BY <1>2 DEF StepInv, Progress, CountsInv, Counting, Maps, Maps32, Maps64
<1>5. off' % chunk = 0 /\ off' \in 0 .. n
  BY <1>1, <1>2, <1>4, NextChunk
<1>6. out = MappedBelow(off)
  BY <1>2 DEF StepInv, ElementsOnce, MappedBelow
<1>7. out' = MappedBelow(off')
  BY <1>1, <1>2, <1>6, MapStep
<1>8. ElementsOnce'
  BY <1>2, <1>7, ElementsNext
<1> QED BY <1>1, <1>2, <1>3, <1>4, <1>5, <1>8 DEF StepInv, Progress, LanesInv, CountsInv

LEMMA EndChunksStep ==
  ASSUME StepInv, EndChunks
  PROVE  StepInv'
<1>1. /\ n \in Nat /\ n > 0 /\ DOMAIN values = 0 .. n - 1
      /\ chunk \in ChunkSizes /\ chunk \in Nat /\ 0 < chunk /\ chunk <= n
      /\ off \in Nat /\ off <= n /\ Called /\ level \in Levels
  BY StepFacts
<1>2. /\ pc = "chunks" /\ off + chunk > n
      /\ pc' = IF pass \in Maps THEN "tail" ELSE "fold"
      /\ off' = TailStart /\ regs' = regs /\ counts' = counts /\ out' = out
      /\ level' = level /\ pass' = pass /\ values' = values
  BY DEF EndChunks
<1>3. /\ n' = n /\ chunk' = chunk /\ Seeded' = Seeded /\ Counting' = Counting
      /\ Called' = Called /\ CountsBelow(off)' = CountsBelow(off')
  BY <1>2, Same
<1>4. off % chunk = 0
  BY <1>2 DEF StepInv, Progress
<1>5. off' = off /\ off >= chunk
  <2>1. TailStart = off
    BY <1>1, <1>2, <1>4, WholeChunks DEF TailStart
  <2>2. off < chunk => off = 0
    BY <1>1, <1>4, NextChunk
  <2> QED BY <2>1, <2>2, <1>1, <1>2
<1>6. Seen' = Seen
  BY <1>3, <1>5 DEF Seen
<1>7. LanesInv'
  <2>1. CASE pass \in Maps
    BY <2>1, <1>2 DEF LanesInv
  <2>2. CASE pass \notin Maps
    <3>1. PICK w \in ChunkSizes : w = chunk /\ LanesOf(w)
      BY <1>2, <2>2 DEF StepInv, LanesInv, ChunkSizes
    <3>2. DOMAIN regs = 0 .. w - 1 /\ \A l \in 0 .. w - 1 : Covers(regs[l], Below(Seen, w, l))
      BY <3>1, LanesNow
    <3>3. LanesOf(w)'
      BY <3>2, <1>2, <1>6, LanesNext
    <3> QED BY <3>1, <3>3, <2>2, <1>1, <1>2, <1>3 DEF LanesInv, ChunkSizes
  <2> QED BY <2>1, <2>2
<1>8. CountsInv'
  BY <1>2, <1>3, <1>5 DEF StepInv, CountsInv
<1>9. ElementsOnce'
  <2>1. CASE pass \notin Maps
    BY <2>1, <1>2 DEF ElementsOnce
  <2>2. CASE pass \in Maps
    <3>1. out' = MappedBelow(off')
      BY <1>2, <1>5, <2>2 DEF StepInv, ElementsOnce, MappedBelow
    <3> QED BY <3>1, <1>2, ElementsNext
  <2> QED BY <2>1, <2>2
<1> QED BY <1>1, <1>2, <1>3, <1>5, <1>7, <1>8, <1>9 DEF StepInv, Progress

LEMMA FoldStep ==
  ASSUME StepInv, Fold
  PROVE  StepInv'
<1>1. /\ n \in Nat /\ n > 0 /\ DOMAIN values = 0 .. n - 1
      /\ chunk \in ChunkSizes /\ chunk \in Nat /\ 0 < chunk /\ chunk <= n
      /\ off \in Nat /\ off <= n /\ Called /\ level \in Levels
  BY StepFacts
<1>2. /\ pc = "fold" /\ pass \notin Maps
      /\ IF Cardinality(DOMAIN regs) > 1 THEN regs' = Folded /\ pc' = pc
         ELSE regs' = regs /\ pc' = "tail"
      /\ off' = off /\ counts' = counts /\ out' = out
      /\ level' = level /\ pass' = pass /\ values' = values
  BY DEF Fold, StepInv, Progress
<1>3. /\ n' = n /\ chunk' = chunk /\ Seeded' = Seeded /\ Counting' = Counting
      /\ Called' = Called /\ CountsBelow(off)' = CountsBelow(off')
  BY <1>2, Same
<1>4. off >= chunk /\ out = <<>> /\ Seen' = Seen /\ Seen = off
  BY <1>1, <1>2, <1>3 DEF StepInv, Progress, Seen
<1>5. PICK w \in ChunkSizes : LanesOf(w) /\ w <= chunk
  BY <1>2 DEF StepInv, LanesInv, ChunkSizes
<1>6. DOMAIN regs = 0 .. w - 1 /\ \A l \in 0 .. w - 1 : Covers(regs[l], Below(Seen, w, l))
  BY <1>5, LanesNow
<1>7. Cardinality(DOMAIN regs) = w
  <2>1. w \in Nat /\ w > 0
    BY DEF ChunkSizes
  <2> QED BY <2>1, <1>6, FS_Interval
<1>8. LanesInv'
  <2>1. CASE w = 1
    <3>1. regs' = regs /\ pc' = "tail"
      BY <2>1, <1>2, <1>7
    <3>2. LanesOf(w)'
      BY <3>1, <1>2, <1>4, <1>6, LanesNext
    <3> QED BY <3>1, <3>2, <2>1, <1>2, <1>3, <1>5 DEF LanesInv
  <2>2. CASE w # 1
    <3>1. PICK h \in Halves : w = 2 * h /\ w \div 2 = h /\ w > 1
      BY <2>2 DEF ChunkSizes, Halves
    <3>2. regs' = [l \in 0 .. h - 1 |-> Both(regs[l], regs[l + h])] /\ pc' = "fold"
      BY <3>1, <1>2, <1>7 DEF Folded
    <3>3. ASSUME NEW l \in 0 .. h - 1
          PROVE  Covers(regs'[l], Below(Seen', h, l))
      <4>1. l \in 0 .. w - 1 /\ l + h \in 0 .. w - 1
        BY <3>1 DEF Halves
      <4>2. Below(Seen, h, l) = Below(Seen, w, l) \cup Below(Seen, w, l + h)
        <5>1. PICK m \in Nat : m = Seen
          BY <1>1, <1>4
        <5>2. Below(m, h, l) = Below(m, 2 * h, l) \cup Below(m, 2 * h, l + h)
          BY LaneHalved
        <5> QED BY <5>1, <5>2, <3>1
      <4>3. \A k : Below(Seen, w, k) \in SUBSET (0 .. n - 1)
        BY <1>1, <1>4 DEF Below
      <4>4. Covers(regs[l], Below(Seen, w, l)) /\ Covers(regs[l + h], Below(Seen, w, l + h))
        BY <4>1, <1>6
      <4>5. Covers(Both(regs[l], regs[l + h]), Below(Seen, w, l) \cup Below(Seen, w, l + h))
        BY <4>3, <4>4, <1>1, BothCovers
      <4> QED BY <3>2, <4>2, <4>5, <1>4
    <3>4. LanesOf(h)'
      <4>1. DOMAIN regs' = 0 .. h - 1
        BY <3>2
      <4> QED BY <4>1, <3>3, <1>2, LanesNext
    <3>5. h \in {1, 2, 4, 8, 16, 32} /\ h <= chunk /\ pc' = "fold"
      BY <3>1, <3>2, <1>1, <1>5 DEF ChunkSizes, Halves
    <3> QED BY <3>4, <3>5, <1>3 DEF LanesInv
  <2> QED BY <2>1, <2>2
<1>9. CountsInv'
  BY <1>2, <1>3 DEF StepInv, CountsInv
<1>10. pc' \in {"fold", "tail"}
  BY <1>2
<1>11. Progress'
  BY <1>2, <1>3, <1>4, <1>10 DEF Progress
<1> QED BY <1>1, <1>2, <1>3, <1>4, <1>8, <1>9, <1>10, <1>11 DEF StepInv, ElementsOnce

LEMMA TailStep ==
  ASSUME StepInv, Tail
  PROVE  StepInv'
<1>1. /\ n \in Nat /\ n > 0 /\ DOMAIN values = 0 .. n - 1
      /\ chunk \in ChunkSizes /\ chunk \in Nat /\ 0 < chunk /\ chunk <= n
      /\ off \in Nat /\ off <= n /\ Called /\ level \in Levels
  BY StepFacts
<1>2. /\ pc = "tail" /\ off < n /\ pc' = pc /\ off' = off + 1
      /\ level' = level /\ pass' = pass /\ values' = values
      /\ pass \in Maps => out' = MappedAt({off}) /\ regs' = regs /\ counts' = counts
      /\ pass \notin Maps =>
           /\ regs' = [l \in {0} |-> Both(regs[0], Of(values[off]))]
           /\ counts' = IF Counting THEN Counted({off}) ELSE counts
           /\ out' = out
  BY DEF Tail
<1>3. /\ n' = n /\ chunk' = chunk /\ Seeded' = Seeded /\ Counting' = Counting
      /\ Called' = Called /\ CountsBelow(off)' = CountsBelow(off')
  BY <1>2, Same
<1>4. off >= chunk /\ Seen = off /\ Seen' = off + 1 /\ off' \in 0 .. n /\ off' >= chunk
  BY <1>1, <1>2, <1>3 DEF StepInv, Progress, Seen
<1>5. {off} = off .. off + 1 - 1
  BY <1>1
<1>6. LanesInv'
  <2>1. CASE pass \in Maps
    BY <2>1, <1>2 DEF LanesInv
  <2>2. CASE pass \notin Maps
    <3>1. LanesOf(1)
      BY <1>2, <2>2 DEF StepInv, LanesInv
    <3>2. Covers(regs[0], Below(off, 1, 0))
      <4>1. 0 \in 0 .. 1 - 1
        OBVIOUS
      <4> QED BY <4>1, <3>1, <1>4, LanesNow
    <3>3. Below(off, 1, 0) = 0 .. off - 1 /\ Below(off + 1, 1, 0) = 0 .. off + 1 - 1
      BY <1>1, OneLane
    <3>4. /\ Below(off, 1, 0) \cup {off} = Below(off + 1, 1, 0)
          /\ Below(off, 1, 0) \in SUBSET (0 .. n - 1) /\ {off} \in SUBSET (0 .. n - 1)
          /\ off \in 0 .. n - 1
      BY <3>3, <1>1, <1>2
    <3>5. Covers(Of(values[off]), {off})
      BY <3>4, <1>1, OfCovers
    <3>6. Covers(Both(regs[0], Of(values[off])), Below(off, 1, 0) \cup {off})
      BY <3>2, <3>4, <3>5, <1>1, BothCovers
    <3>7. \A l \in 0 .. 1 - 1 : Covers(regs'[l], Below(Seen', 1, l))
      <4>1. \A l \in 0 .. 1 - 1 : l = 0
        OBVIOUS
      <4>2. regs'[0] = Both(regs[0], Of(values[off]))
        BY <1>2, <2>2
      <4> QED BY <4>1, <4>2, <3>4, <3>6, <1>4
    <3>8. DOMAIN regs' = 0 .. 1 - 1
      BY <1>2, <2>2
    <3>9. LanesOf(1)'
      BY <3>7, <3>8, <1>2, LanesNext
    <3> QED BY <3>9, <1>1, <1>2, <1>3 DEF LanesInv
  <2> QED BY <2>1, <2>2
<1>7. CountsInv'
  <2>1. Counting => pass \notin Maps
    BY DEF Counting, Maps, Maps32, Maps64
  <2>2. Counting => Counted({off}) = CountsBelow(off + 1)
    BY <1>1, <1>5, CountsStep DEF StepInv
  <2>3. ~Counting => counts' = counts /\ counts = NoCounts
    BY <1>2 DEF StepInv, CountsInv
  <2> QED BY <2>1, <2>2, <2>3, <1>2, <1>3 DEF CountsInv
<1>8. ElementsOnce'
  <2>1. CASE pass \notin Maps
    BY <2>1, <1>2 DEF ElementsOnce
  <2>2. CASE pass \in Maps
    <3>1. out = MappedBelow(off)
      BY <1>2, <2>2 DEF StepInv, ElementsOnce, MappedBelow
    <3>2. MappedAt(off .. off + 1 - 1) = MappedBelow(off + 1)
      <4>1. DOMAIN values \in SUBSET Nat /\ off \in Nat /\ 1 \in Nat
        BY <1>1
      <4> QED BY <3>1, <4>1, MapStep, Zenon
    <3>3. out' = MappedBelow(off')
      BY <3>2, <1>2, <1>5, <2>2
    <3> QED BY <3>3, <1>2, ElementsNext
  <2> QED BY <2>1, <2>2
<1>9. Progress'
  BY <1>2, <1>3, <1>4 DEF Progress
<1>10. (pass \in Maps => regs' = <<>>) /\ (pass \notin Maps => out' = <<>>)
  BY <1>2 DEF StepInv
<1> QED BY <1>1, <1>2, <1>3, <1>4, <1>6, <1>7, <1>8, <1>9, <1>10 DEF StepInv

LEMMA FinishStep ==
  ASSUME StepInv, Finish
  PROVE  StepInv'
<1>1. /\ n \in Nat /\ off \in Nat /\ off <= n /\ Called /\ level \in Levels
  BY StepFacts
<1>2. /\ pc = "tail" /\ off >= n /\ pc' = "done"
      /\ off' = off /\ regs' = regs /\ counts' = counts /\ out' = out
      /\ level' = level /\ pass' = pass /\ values' = values
  BY DEF Finish
<1>3. /\ n' = n /\ chunk' = chunk /\ Seeded' = Seeded /\ Counting' = Counting
      /\ Called' = Called /\ CountsBelow(off)' = CountsBelow(off')
  BY <1>2, Same
<1>4. off = n /\ off >= chunk /\ Seen' = Seen
  BY <1>1, <1>2, <1>3 DEF StepInv, Progress, Seen
<1>5. LanesInv'
  <2>1. CASE pass \in Maps
    BY <2>1, <1>2 DEF LanesInv
  <2>2. CASE pass \notin Maps
    <3>1. LanesOf(1) /\ 1 <= chunk
      BY <1>2, <2>2 DEF StepInv, LanesInv
    <3>2. LanesOf(1)'
      BY <3>1, <1>2, <1>4, LanesNow, LanesNext
    <3> QED BY <3>1, <3>2, <1>2, <1>3 DEF LanesInv
  <2> QED BY <2>1, <2>2
<1>6. CountsInv'
  BY <1>2, <1>3 DEF StepInv, CountsInv
<1>7. ElementsOnce'
  <2>1. CASE pass \notin Maps
    BY <2>1, <1>2 DEF ElementsOnce
  <2>2. CASE pass \in Maps
    <3>1. out' = MappedBelow(off')
      BY <1>2, <2>2 DEF StepInv, ElementsOnce, MappedBelow
    <3> QED BY <3>1, <1>2, ElementsNext
  <2> QED BY <2>1, <2>2
<1>8. Progress'
  BY <1>2, <1>3, <1>4 DEF Progress
<1> QED BY <1>1, <1>2, <1>3, <1>5, <1>6, <1>7, <1>8 DEF StepInv

-----------------------------------------------------------------------------
(* The results. *)

LEMMA NextStep == StepInv /\ [Next]_vars => StepInv'
<1> SUFFICES ASSUME StepInv, [Next]_vars PROVE StepInv'
  OBVIOUS
<1>1. CASE UNCHANGED vars
  <2>1. pc' = pc /\ off' = off /\ regs' = regs /\ counts' = counts /\ out' = out
        /\ level' = level /\ pass' = pass /\ values' = values
    BY <1>1 DEF vars
  <2>2. /\ n' = n /\ chunk' = chunk /\ Seeded' = Seeded /\ Counting' = Counting
        /\ Called' = Called /\ CountsBelow(off)' = CountsBelow(off')
    BY <2>1, Same
  <2>3. Seen' = Seen
    BY <2>1, <2>2 DEF Seen
  <2>4. LanesInv'
    <3>1. CASE pass \in Maps \/ pc = "start"
      BY <3>1, <2>1 DEF LanesInv
    <3>2. CASE pass \notin Maps /\ pc # "start"
      <4>1. PICK w \in {1, 2, 4, 8, 16, 32} :
              /\ LanesOf(w) /\ w <= chunk
              /\ pc = "chunks" => w = chunk
              /\ pc \in {"tail", "done"} => w = 1
        BY <3>2 DEF StepInv, LanesInv
      <4>2. LanesOf(w)'
        BY <4>1, <2>1, <2>3, LanesNow, LanesNext
      <4> QED BY <4>1, <4>2, <2>1, <2>2 DEF LanesInv
    <3> QED BY <3>1, <3>2
  <2>5. CountsInv'
    BY <2>1, <2>2 DEF StepInv, CountsInv
  <2>6. ElementsOnce'
    <3>1. CASE pass \notin Maps \/ pc \notin {"chunks", "tail", "done"}
      BY <3>1, <2>1 DEF ElementsOnce
    <3>2. CASE pass \in Maps /\ pc \in {"chunks", "tail", "done"}
      <4>1. out' = MappedBelow(off')
        BY <2>1, <3>2 DEF StepInv, ElementsOnce, MappedBelow
      <4> QED BY <4>1, <2>1, ElementsNext
    <3> QED BY <3>1, <3>2
  <2>7. Progress'
    BY <2>1, <2>2 DEF StepInv, Progress
  <2> QED BY <2>1, <2>2, <2>4, <2>5, <2>6, <2>7 DEF StepInv
<1> QED BY <1>1, StartStep, ReduceChunkStep, MapChunkStep, EndChunksStep, FoldStep, TailStep,
           FinishStep DEF Next

LEMMA Types == StepInv => TypeOK
<1> SUFFICES ASSUME StepInv PROVE TypeOK
  OBVIOUS
<1>1. /\ n \in Nat /\ DOMAIN values = 0 .. n - 1 /\ chunk \in Nat
      /\ off \in Nat /\ off <= n /\ Called /\ level \in Levels
  BY StepFacts
<1>2. pass \in Reductions32 \cup Reductions64 \cup Maps
  BY <1>1 DEF Called, Maps
<1>3. \A l \in DOMAIN regs : /\ l \in 0 .. chunk - 1
                             /\ regs[l].min \in DoubleWord /\ regs[l].max \in DoubleWord
                             /\ regs[l].bits \in 0 .. 2 * WordBits
  <2>1. CASE pass \in Maps \/ pc = "start"
    <3>1. regs = <<>>
      BY <2>1 DEF StepInv
    <3> QED BY <3>1
  <2>2. CASE pass \notin Maps /\ pc # "start"
    <3>1. PICK w \in ChunkSizes : LanesOf(w) /\ w <= chunk
      BY <2>2 DEF StepInv, LanesInv, ChunkSizes
    <3>2. DOMAIN regs = 0 .. w - 1 /\ \A l \in 0 .. w - 1 : Covers(regs[l], Lane(w, l))
      BY <3>1 DEF LanesOf
    <3>3. ASSUME NEW l \in DOMAIN regs
          PROVE  regs[l] \in [min : DoubleWord, max : DoubleWord, bits : 0 .. 2 * WordBits]
      BY <3>2 DEF Covers
    <3>4. \A l \in DOMAIN regs : l \in 0 .. chunk - 1
      BY <3>1, <3>2, <1>1 DEF ChunkSizes
    <3> QED BY <3>3, <3>4
  <2> QED BY <2>1, <2>2
<1>4. \A si \in 0 .. 8 : counts[si] \in 0 .. n
  <2>1. CASE ~Counting
    <3>1. counts = NoCounts
      BY <2>1 DEF StepInv, CountsInv
    <3> QED BY <3>1, <1>1 DEF NoCounts
  <2>2. CASE Counting
    <3>1. counts = [si \in 0 .. 8 |-> Cardinality(CountedIn(0 .. off - 1, si))]
      BY <2>2, CountsBelowIs DEF StepInv, CountsInv
    <3>2. PICK m \in Nat : m = off
      BY <1>1
    <3>3. \A si : Cardinality(CountedIn(0 .. m - 1, si)) \in 0 .. m
      BY CountsGrow
    <3> QED BY <3>1, <3>2, <3>3, <1>1
  <2> QED BY <2>1, <2>2
<1>5. DOMAIN out \in {{}, DOMAIN values}
  <2>1. CASE pass \notin Maps \/ pc = "start"
    <3>1. out = <<>>
      BY <2>1 DEF StepInv
    <3> QED BY <3>1
  <2>2. CASE pass \in Maps /\ pc # "start"
    <3>1. out = MappedBelow(off)
      BY <2>2 DEF StepInv, Progress, ElementsOnce, MappedBelow
    <3> QED BY <3>1 DEF MappedBelow
  <2> QED BY <2>1, <2>2
<1> QED BY <1>1, <1>2, <1>3, <1>4, <1>5 DEF TypeOK, StepInv

(* For slices of any length, at every level: what each accumulator stands  *)
(* for while chunks are taken and lanes are halved; no load or store is    *)
(* behind the end of the slice (simd_avx512_amd64.go:215-388).             *)
THEOREM PassInvariance == Spec => []PassInv
<1>1. StepInv => PassInv
  BY Types DEF PassInv
<1> QED BY <1>1, InitStep, NextStep, PTL DEF Spec

(* A map in place changes every element once, at any level and length: no  *)
(* element is left to the next chunk or taken again by the tail            *)
(* (for.go:127-140, simd_avx2_amd64.go:906-997).                           *)
THEOREM EveryElementOnce == Spec => []ElementsOnce
<1>1. PassInv => ElementsOnce
  BY DEF PassInv, StepInv
<1> QED BY <1>1, PassInvariance, PTL

(* The least and the greatest value of a set are unique.                   *)
LEMMA Extremes ==
  ASSUME NEW S \in SUBSET Nat, NEW x \in S
  PROVE  /\ (\A y \in S : x <= y) => LeastIn(S) = x
         /\ (\A y \in S : y <= x) => GreatestIn(S) = x
<1>1. ASSUME \A y \in S : x <= y PROVE LeastIn(S) = x
  <2>1. LeastIn(S) \in S /\ \A y \in S : LeastIn(S) <= y
    BY <1>1 DEF LeastIn
  <2>2. LeastIn(S) <= x /\ x <= LeastIn(S) /\ LeastIn(S) \in Nat /\ x \in Nat
    BY <2>1, <1>1
  <2> QED BY <2>2
<1>2. ASSUME \A y \in S : y <= x PROVE GreatestIn(S) = x
  <2>1. \A y \in S : x >= y
    BY <1>2
  <2>2. GreatestIn(S) \in S /\ \A y \in S : GreatestIn(S) >= y
    BY <2>1 DEF GreatestIn
  <2>3. GreatestIn(S) >= x /\ x >= GreatestIn(S) /\ GreatestIn(S) \in Nat /\ x \in Nat
    BY <2>1, <2>2
  <2> QED BY <2>3
<1> QED BY <1>1, <1>2

(* What an accumulator is for the values of its elements.                  *)
LEMMA CoversExtremes ==
  ASSUME Called, NEW I \in SUBSET (0 .. n - 1), I # {}, NEW r, Covers(r, I)
  PROVE  /\ r.max = GreatestIn({values[i] : i \in I})
         /\ r.bits = bitsLen(GreatestIn({values[i] : i \in I}))
         /\ Seeded => r.min = LeastIn({values[i] : i \in I})
<1> DEFINE S == {values[i] : i \in I}
<1>1. S \in SUBSET Nat
  BY ValuesFit
<1>2. r.bits = bitsLen(r.max) /\ r.max \in S /\ \A y \in S : y <= r.max
  BY DEF Covers
<1>3. Seeded => r.min \in S /\ \A y \in S : r.min <= y
  BY DEF Covers
<1> HIDE DEF S
<1>4. r.max = GreatestIn(S)
  BY <1>1, <1>2, Extremes
<1>5. Seeded => r.min = LeastIn(S)
  BY <1>1, <1>3, Extremes
<1> QED BY <1>2, <1>4, <1>5 DEF S

(* At every point of a reduction each accumulator holds the result for the *)
(* elements that its lane has seen, whatever the chunk, the seed and the   *)
(* halving, and the counts are those of the elements before off            *)
(* (simd_avx512_amd64.go:215-388, simd_avx2_amd64.go:405-453, 537-612).    *)
THEOREM LanesAlwaysCover == Spec => []LanesCover
<1>1. PassInv => LanesCover
  <2> SUFFICES ASSUME StepInv, pass \notin Maps, pc # "start"
               PROVE  LanesCover
    BY DEF PassInv, LanesCover
  <2>1. /\ n \in Nat /\ off \in Nat /\ off <= n /\ Called /\ chunk <= n /\ chunk \in Nat
    BY StepFacts
  <2>2. PICK w \in ChunkSizes : LanesOf(w)
    BY DEF StepInv, LanesInv, ChunkSizes
  <2>3. DOMAIN regs = 0 .. w - 1 /\ \A l \in 0 .. w - 1 : Covers(regs[l], Below(Seen, w, l))
    BY <2>2, LanesNow
  <2>4. Cardinality(DOMAIN regs) = w
    <3>1. w \in Nat /\ w > 0
      BY DEF ChunkSizes
    <3> QED BY <3>1, <2>3, FS_Interval
  <2>5. ASSUME NEW l \in DOMAIN regs, {values[i] : i \in Below(Seen, w, l)} # {}
        PROVE  /\ Seeded => regs[l].min = LeastIn({values[i] : i \in Below(Seen, w, l)})
               /\ regs[l].max = GreatestIn({values[i] : i \in Below(Seen, w, l)})
               /\ regs[l].bits = bitsLen(GreatestIn({values[i] : i \in Below(Seen, w, l)}))
    <3>1. Seen \in Nat /\ Seen <= n
      BY <2>1 DEF Seen
    <3>2. Below(Seen, w, l) \in SUBSET (0 .. n - 1) /\ Below(Seen, w, l) # {}
      BY <3>1, <2>1, <2>5 DEF Below
    <3> QED BY <3>2, <2>1, <2>3, CoversExtremes
  <2>6. Counting => \A si \in 0 .. 8 :
          counts[si] = Cardinality({i \in 0 .. off - 1 : CountIn(values[i], si) = 1})
    BY DEF StepInv, CountsInv, CountsBelow
  <2> QED BY <2>4, <2>5, <2>6, Zenon DEF LanesCover, Seen, Below
<1> QED BY <1>1, PassInvariance, PTL

-----------------------------------------------------------------------------
(* The choice of a bitwidth: from the top step down, a cheaper candidate   *)
(* replaces the best.                                                      *)

(* Of the steps from k to top, a is the cheapest, and the widest of        *)
(* several that cost the same.                                             *)
Wins(c, top, k, a) ==
  /\ a \in k .. top
  /\ \A sj \in k .. top : c[a] < c[sj] \/ (c[a] = c[sj] /\ sj <= a)

LEMMA WinsOnce ==
  ASSUME NEW top \in Nat, NEW k \in 0 .. top, NEW c, \A si \in 0 .. top : c[si] \in Nat,
         NEW a, NEW b, Wins(c, top, k, a), Wins(c, top, k, b)
  PROVE  a = b
<1>1. a \in k .. top /\ b \in k .. top /\ c[a] \in Nat /\ c[b] \in Nat
  BY DEF Wins
<1>2. c[a] < c[b] \/ (c[a] = c[b] /\ b <= a)
  BY <1>1 DEF Wins
<1>3. c[b] < c[a] \/ (c[b] = c[a] /\ a <= b)
  BY <1>1 DEF Wins
<1>4. a \in Nat /\ b \in Nat
  BY <1>1
<1> QED BY <1>1, <1>2, <1>3, <1>4

LEMMA WinsNext ==
  ASSUME NEW top \in Nat, NEW k \in 0 .. top, k # top, NEW c, \A si \in 0 .. top : c[si] \in Nat,
         NEW a, Wins(c, top, k + 1, a)
  PROVE  Wins(c, top, k, IF c[k] < c[a] THEN k ELSE a)
<1>1. k \in Nat /\ k + 1 \in 0 .. top /\ a \in k + 1 .. top /\ c[k] \in Nat /\ c[a] \in Nat
  BY DEF Wins
<1>2. \A sj \in k + 1 .. top : c[sj] \in Nat /\ (c[a] < c[sj] \/ (c[a] = c[sj] /\ sj <= a))
  BY <1>1 DEF Wins
<1>3. \A sj \in k .. top : sj = k \/ sj \in k + 1 .. top
  BY <1>1
<1>4. CASE c[k] < c[a]
  <2>1. \A sj \in k .. top : c[k] < c[sj] \/ (c[k] = c[sj] /\ sj <= k)
    BY <1>1, <1>2, <1>3, <1>4
  <2> QED BY <2>1, <1>1, <1>4 DEF Wins
<1>5. CASE ~(c[k] < c[a])
  <2>1. \A sj \in k .. top : c[a] < c[sj] \/ (c[a] = c[sj] /\ sj <= a)
    BY <1>1, <1>2, <1>3, <1>5
  <2>2. a \in k .. top
    BY <1>1
  <2> QED BY <2>1, <2>2, <1>5 DEF Wins
<1> QED BY <1>4, <1>5

LEMMA WinsTop ==
  ASSUME NEW top \in Nat, NEW c
  PROVE  Wins(c, top, top, top)
<1>1. \A sj \in top .. top : sj = top
  OBVIOUS
<1>2. top \in top .. top /\ top <= top
  OBVIOUS
<1> QED BY <1>1, <1>2 DEF Wins

(* For every k there is one: otherwise, take the greatest k for which      *)
(* there is none.                                                          *)
LEMMA WinnerExists ==
  ASSUME NEW top \in Nat, NEW c, \A si \in 0 .. top : c[si] \in Nat, NEW k \in 0 .. top
  PROVE  \E a \in 0 .. top : Wins(c, top, k, a)
<1> DEFINE T == {j \in 0 .. top : ~\E a \in 0 .. top : Wins(c, top, j, a)}
<1>1. T = {}
  <2> SUFFICES ASSUME T # {} PROVE FALSE
    OBVIOUS
  <2>1. T \in SUBSET Nat /\ \A t \in T : t <= top
    OBVIOUS
  <2>2. PICK t \in T : \A j \in T : j <= t
    <3> HIDE DEF T
    <3> QED BY <2>1, GreatestOf
  <2>3. t \in 0 .. top /\ ~\E a \in 0 .. top : Wins(c, top, t, a)
    BY <2>2
  <2>4. t # top
    <3>1. top \in 0 .. top
      OBVIOUS
    <3> QED BY <2>3, <3>1, WinsTop
  <2>5. t + 1 \in 0 .. top /\ ~(t + 1 <= t)
    BY <2>3, <2>4
  <2>6. PICK a \in 0 .. top : Wins(c, top, t + 1, a)
    BY <2>2, <2>5
  <2>7. Wins(c, top, t, IF c[t] < c[a] THEN t ELSE a)
    BY <2>3, <2>4, <2>6, WinsNext
  <2>8. (IF c[t] < c[a] THEN t ELSE a) \in 0 .. top
    BY <2>3, <2>6
  <2> QED BY <2>3, <2>7, <2>8
<1> QED BY <1>1

(* The loop's result is the winner of all steps.                           *)
LEMMA CheapestWins ==
  ASSUME NEW top \in 0 .. 8, NEW exc, NEW c, \A si \in 0 .. top : c[si] \in Nat,
         \A si \in 0 .. top :
           c[si] = headerBytes + si * utlSuperWordBytes
                     + IF si = top THEN 0 ELSE estimateExceptionCost(exc[si], top - si)
  PROVE  Wins(c, top, 0, Cheapest(top, exc))
<1> DEFINE cost(si) == headerBytes + si * utlSuperWordBytes
                         + IF si = top THEN 0 ELSE estimateExceptionCost(exc[si], top - si)
           step(g, si) == IF si = top THEN top
                          ELSE IF cost(si) < cost(g[si + 1]) THEN si ELSE g[si + 1]
           P(g) == g = [si \in 0 .. top |-> step(g, si)]
           best == CHOOSE g : P(g)
           w == [k \in 0 .. top |-> CHOOSE a \in 0 .. top : Wins(c, top, k, a)]
<1>1. Cheapest(top, exc) = best[0]
  BY DEF Cheapest
<1>2. top \in Nat /\ 0 \in 0 .. top
  OBVIOUS
<1>3. \A si \in 0 .. top : cost(si) = c[si]
  OBVIOUS
<1> HIDE DEF cost
<1>4. \A k \in 0 .. top : w[k] \in 0 .. top /\ Wins(c, top, k, w[k])
  <2>1. \A k \in 0 .. top : \E a \in 0 .. top : Wins(c, top, k, a)
    BY <1>2, WinnerExists
  <2> QED BY <2>1
<1>5. w = [k \in 0 .. top |-> w[k]]
  OBVIOUS
<1> HIDE DEF w
(* The function of the winners satisfies the recursion. *)
<1>6. ASSUME NEW k \in 0 .. top PROVE w[k] = step(w, k)
  <2>1. CASE k = top
    <3>1. Wins(c, top, top, top) /\ Wins(c, top, top, w[top])
      BY <2>1, <1>2, <1>4, WinsTop
    <3>2. w[top] = top
      BY <2>1, <3>1, <1>2, WinsOnce
    <3> QED BY <2>1, <3>2
  <2>2. CASE k # top
    <3>1. k + 1 \in 0 .. top
      BY <2>2
    <3>2. Wins(c, top, k + 1, w[k + 1]) /\ w[k + 1] \in 0 .. top
      BY <3>1, <1>4
    <3>3. Wins(c, top, k, IF c[k] < c[w[k + 1]] THEN k ELSE w[k + 1])
      BY <2>2, <3>2, <1>2, WinsNext
    <3>4. w[k] = IF c[k] < c[w[k + 1]] THEN k ELSE w[k + 1]
      BY <3>3, <1>2, <1>4, WinsOnce
    <3>5. cost(k) = c[k] /\ cost(w[k + 1]) = c[w[k + 1]]
      BY <3>2, <1>3
    <3> QED BY <2>2, <3>4, <3>5
  <2> QED BY <2>1, <2>2
<1>7. P(w)
  <2> HIDE DEF step
  <2> QED BY <1>5, <1>6
<1>8. P(best)
  <2> HIDE DEF P
  <2> QED BY <1>7
<1> HIDE DEF best
<1>9. \A k \in 0 .. top : best[k] = step(best, k)
  <2> HIDE DEF step
  <2> QED BY <1>8
(* The function that the loop computes is that of the winners. *)
<1> DEFINE T == {k \in 0 .. top : best[k] # w[k]}
<1>10. T = {}
  <2> SUFFICES ASSUME T # {} PROVE FALSE
    OBVIOUS
  <2>1. T \in SUBSET Nat /\ \A t \in T : t <= top
    OBVIOUS
  <2>2. PICK t \in T : \A j \in T : j <= t
    <3> HIDE DEF T
    <3> QED BY <1>2, <2>1, GreatestOf
  <2>3. t \in 0 .. top /\ best[t] # w[t]
    BY <2>2
  <2>4. best[t] = step(best, t) /\ w[t] = step(w, t)
    BY <2>3, <1>6, <1>9
  <2>5. t # top
    BY <2>3, <2>4
  <2>6. t + 1 \in 0 .. top /\ ~(t + 1 <= t)
    BY <2>3, <2>5
  <2>7. best[t + 1] = w[t + 1]
    BY <2>2, <2>6
  <2> QED BY <2>3, <2>4, <2>7
<1>11. best[0] = w[0]
  BY <1>2, <1>10
<1> QED BY <1>1, <1>2, <1>4, <1>11

(* With the exceptions of a slice, it is selectBitWidth's step.            *)
LEMMA CheapestIsBest ==
  ASSUME NEW m \in Nat, NEW s \in Slice(m), NEW exc,
         \A si \in 0 .. maxStepIdx(s) : exc[si] = excCount(s, StepBits * si)
  PROVE  Cheapest(maxStepIdx(s), exc) = BestStep(s)
<1> DEFINE top == maxStepIdx(s)
           c == [si \in 0 .. top |-> StepCost(s, top, si)]
<1>1. top \in 0 .. 8 /\ top \in Nat
  BY MaxStep
<1>2. \A si \in 0 .. top : c[si] \in Nat
  BY <1>1, StepCostType
<1>3. \A si \in 0 .. top :
        c[si] = headerBytes + si * utlSuperWordBytes
                  + IF si = top THEN 0 ELSE estimateExceptionCost(exc[si], top - si)
  BY Zenon DEF StepCost
<1> DEFINE Best(a) == \A sj \in 0 .. top : c[a] < c[sj] \/ (c[a] = c[sj] /\ sj <= a)
<1>4. BestStep(s) = CHOOSE a \in 0 .. top : Best(a)
  BY Zenon DEF BestStep
<1> HIDE DEF c, top
<1>5. Wins(c, top, 0, Cheapest(top, exc))
  BY <1>1, <1>2, <1>3, CheapestWins
<1>6. \A a : Wins(c, top, 0, a) <=> a \in 0 .. top /\ Best(a)
  BY DEF Wins
<1>7. Wins(c, top, 0, BestStep(s))
  <2> HIDE DEF Best
  <2> QED BY <1>4, <1>5, <1>6
<1>8. Cheapest(top, exc) = BestStep(s)
  <2>1. 0 \in 0 .. top
    BY <1>1
  <2> QED BY <2>1, <1>1, <1>2, <1>5, <1>7, WinsOnce
<1> QED BY <1>8 DEF top

LEMMA StepOrder ==
  ASSUME NEW j \in Nat, NEW k \in Nat
  PROVE  StepBits * j <= StepBits * k <=> j <= k
<1>1. \A S \in Nat \ {0} : \A x, y \in Nat : x <= y <=> S * x <= S * y
  <2> SUFFICES ASSUME NEW S \in Nat \ {0}, NEW x \in Nat, NEW y \in Nat
               PROVE  x <= y <=> S * x <= S * y
    OBVIOUS
  <2>1. CASE x <= y
    <3>1. y - x \in Nat /\ S * (y - x) \in Nat /\ S * x \in Nat
      BY <2>1
    <3>2. S * y = S * x + S * (y - x)
      BY <2>1
    <3> QED BY <2>1, <3>1, <3>2
  <2>2. CASE ~(x <= y)
    <3>1. x - y - 1 \in Nat /\ S * (x - y - 1) \in Nat /\ S * y \in Nat
      BY <2>2
    <3>2. S * x = S * y + S + S * (x - y - 1)
      BY <2>2
    <3> QED BY <2>2, <3>1, <3>2
  <2> QED BY <2>1, <2>2
<1> QED BY <1>1, Dimensions

(* A step is enough for a word exactly if the word's own step is no wider. *)
LEMMA StepEnough ==
  ASSUME NEW v \in Word, NEW k \in 0 .. 8
  PROVE  /\ StepOf(v) <= StepBits * k <=> v < 2 ^ (StepBits * k)
         /\ v > 2 ^ (StepBits * k) - 1 <=> ~(v < 2 ^ (StepBits * k))
         /\ StepBits * k \in 0 .. WordBits
<1> DEFINE Q(bw) == v < 2 ^ bw /\ \A c \in StepWidths : v < 2 ^ c => bw <= c
           p == 2 ^ (StepBits * k)
<1>1. v \in Nat /\ StepBits * k \in 0 .. WordBits /\ StepBits * k \in StepWidths
  BY Dimensions DEF Word, WordBits, StepWidths
<1>2. StepOf(v) \in StepWidths /\ v < 2 ^ StepOf(v)
  BY StepOfFacts
<1>3. \A c \in StepWidths : v < 2 ^ c => StepOf(v) <= c
  <2> DEFINE T == {c \in StepWidths : v < 2 ^ c}
  <2>1. T \in SUBSET Nat /\ StepOf(v) \in T
    BY <1>2, Dimensions
  <2>2. PICK bw \in T : \A c \in T : bw <= c
    <3> HIDE DEF T
    <3> QED BY <2>1, LeastOf
  <2>3. bw \in StepWidths /\ Q(bw)
    BY <2>2
  <2>4. Q(StepOf(v))
    <3>1. StepOf(v) = CHOOSE c \in StepWidths : Q(c)
      BY Zenon DEF StepOf
    <3> HIDE DEF Q
    <3> QED BY <2>3, <3>1
  <2> QED BY <2>4
<1>4. p \in Nat /\ StepOf(v) \in Nat
  BY <1>1, <1>2, Dimensions
<1>5. ASSUME StepOf(v) <= StepBits * k PROVE v < p
  <2>1. StepOf(v) \in 0 .. StepBits * k
    BY <1>1, <1>4, <1>5
  <2>2. 2 ^ StepOf(v) <= p /\ 2 ^ StepOf(v) \in Nat
    BY <2>1, <1>1, Powers
  <2> HIDE DEF p
  <2> DEFINE q == 2 ^ StepOf(v)
  <2>3. v < q /\ q <= p /\ q \in Nat
    BY <1>2, <2>2
  <2> HIDE DEF q
  <2> QED BY <2>3, <1>1, <1>4
<1>6. v < p => StepOf(v) <= StepBits * k
  BY <1>1, <1>3
<1> HIDE DEF p
<1>7. v > p - 1 <=> ~(v < p)
  BY <1>1, <1>4
<1> QED BY <1>1, <1>5, <1>6, <1>7 DEF p

(* The words of bin k + 1 are what the exceptions to step k have more than *)
(* those to step k + 1.                                                    *)
BinOf(s, k) == {i \in DOMAIN s : StepOf(s[i]) = StepBits * k}

LEMMA BinWords ==
  ASSUME NEW v \in Word, NEW k \in 0 .. 7
  PROVE  StepOf(v) = StepBits * (k + 1) <=> v < 2 ^ (StepBits * (k + 1)) /\ ~(v < 2 ^ (StepBits * k))
<1>1. k \in 0 .. 8 /\ k + 1 \in 0 .. 8
  OBVIOUS
<1>2. PICK j \in 0 .. 8 : StepOf(v) = StepBits * j
  BY StepOfFacts DEF StepWidths
<1>3. StepOf(v) <= StepBits * (k + 1) <=> v < 2 ^ (StepBits * (k + 1))
  BY <1>1, StepEnough
<1>4. StepOf(v) <= StepBits * k <=> v < 2 ^ (StepBits * k)
  BY <1>1, StepEnough
<1>5. StepOf(v) <= StepBits * (k + 1) <=> j <= k + 1
  BY <1>1, <1>2, StepOrder
<1>6. StepOf(v) <= StepBits * k <=> j <= k
  BY <1>1, <1>2, StepOrder
<1>7. StepOf(v) = StepBits * (k + 1) <=> j = k + 1
  <2>1. j = k + 1 => StepOf(v) = StepBits * (k + 1)
    BY <1>2
  <2>2. StepOf(v) = StepBits * (k + 1) => StepBits * (k + 1) <= StepBits * j
                                          /\ StepBits * j <= StepBits * (k + 1)
    <3>1. StepBits * j \in Nat
      BY Dimensions
    <3> QED BY <3>1, <1>2
  <2>3. StepOf(v) = StepBits * (k + 1) => k + 1 <= j /\ j <= k + 1
    BY <2>2, <1>1, StepOrder
  <2> QED BY <2>1, <2>3
<1> QED BY <1>3, <1>4, <1>5, <1>6, <1>7

LEMMA BinsAdd ==
  ASSUME NEW m \in Nat, NEW s \in Slice(m), NEW k \in 0 .. 7
  PROVE  excCount(s, StepBits * k)
           = excCount(s, StepBits * (k + 1)) + Cardinality(BinOf(s, k + 1))
<1> DEFINE A == Exceptions(s, StepBits * k)  B == Exceptions(s, StepBits * (k + 1))
           H == BinOf(s, k + 1)
           lt(i) == s[i] < 2 ^ (StepBits * k)
           lu(i) == s[i] < 2 ^ (StepBits * (k + 1))
<1>1. k \in 0 .. 8 /\ k + 1 \in 0 .. 8
  OBVIOUS
<1>2. ASSUME NEW i \in DOMAIN s
      PROVE  /\ s[i] > 2 ^ (StepBits * k) - 1 <=> ~lt(i)
             /\ s[i] > 2 ^ (StepBits * (k + 1)) - 1 <=> ~lu(i)
             /\ StepOf(s[i]) = StepBits * (k + 1) <=> lu(i) /\ ~lt(i)
             /\ lt(i) => lu(i)
  <2>1. s[i] \in Word
    BY SliceFacts
  <2>2. s[i] > 2 ^ (StepBits * k) - 1 <=> ~lt(i)
    BY <1>1, <2>1, StepEnough
  <2>3. s[i] > 2 ^ (StepBits * (k + 1)) - 1 <=> ~lu(i)
    BY <1>1, <2>1, StepEnough
  <2>4. StepOf(s[i]) = StepBits * (k + 1) <=> lu(i) /\ ~lt(i)
    BY <2>1, BinWords
  <2>5. lt(i) => lu(i)
    <3>1. StepBits * k <= StepBits * (k + 1)
      BY <1>1, StepOrder
    <3>2. lt(i) => StepOf(s[i]) <= StepBits * k
      BY <1>1, <2>1, StepEnough
    <3>3. StepOf(s[i]) \in Nat /\ StepBits * k \in Nat /\ StepBits * (k + 1) \in Nat
      BY <1>1, <2>1, StepOfFacts, Dimensions
    <3>4. StepOf(s[i]) <= StepBits * (k + 1) => lu(i)
      BY <1>1, <2>1, StepEnough
    <3> HIDE DEF lt, lu
    <3> QED BY <3>1, <3>2, <3>3, <3>4
  <2> QED BY <2>2, <2>3, <2>4, <2>5
<1>3. A = {i \in DOMAIN s : s[i] > 2 ^ (StepBits * k) - 1}
      /\ B = {i \in DOMAIN s : s[i] > 2 ^ (StepBits * (k + 1)) - 1}
      /\ H = {i \in DOMAIN s : StepOf(s[i]) = StepBits * (k + 1)}
  BY Zenon DEF Exceptions, BinOf
<1> HIDE DEF lt, lu, A, B, H
<1>4. A = {i \in DOMAIN s : ~lt(i)} /\ B = {i \in DOMAIN s : ~lu(i)}
      /\ H = {i \in DOMAIN s : lu(i) /\ ~lt(i)}
  BY <1>2, <1>3
<1>5. A = B \cup H /\ B \cap H = {} /\ H \in SUBSET (DOMAIN s) /\ B \in SUBSET (DOMAIN s)
  BY <1>2, <1>4
<1>6. IsFiniteSet(DOMAIN s)
  BY SliceFacts
<1>7. IsFiniteSet(B) /\ IsFiniteSet(H)
  BY <1>5, <1>6, FS_Subset
<1>8. Cardinality(B) \in Nat /\ Cardinality(H) \in Nat
  BY <1>7, FS_CardinalityType
<1>9. Cardinality(A) = Cardinality(B) + Cardinality(H) - Cardinality({})
  BY <1>5, <1>7, FS_Union
<1>10. Cardinality(A) = Cardinality(B) + Cardinality(H)
  BY <1>8, <1>9, FS_EmptySet
<1> QED BY <1>10, Zenon DEF excCount, A, B, H

(* From the top step on there are no exceptions.                           *)
LEMMA NoneFromTop ==
  ASSUME NEW m \in Nat, NEW s \in Slice(m), NEW k \in 0 .. 8
  PROVE  /\ Exceptions(s, StepBits * k) = {} <=> maxStepIdx(s) <= k
         /\ excCount(s, StepBits * k) = 0 <=> maxStepIdx(s) <= k
<1> DEFINE top == maxStepIdx(s)
<1>1. /\ top \in 0 .. 8 /\ Exceptions(s, StepBits * top) = {}
      /\ \A sj \in 0 .. top - 1 : Exceptions(s, StepBits * sj) # {}
  BY MaxStep
<1> HIDE DEF top
<1>2. ASSUME ~(top <= k) PROVE Exceptions(s, StepBits * k) # {}
  BY <1>1, <1>2
<1>3. ASSUME top <= k PROVE Exceptions(s, StepBits * k) = {}
  <2>1. StepBits * top <= StepBits * k
    BY <1>1, <1>3, StepOrder
  <2>2. ASSUME NEW i \in DOMAIN s PROVE ~(s[i] > 2 ^ (StepBits * k) - 1)
    <3>1. s[i] \in Word
      BY SliceFacts
    <3>2. ~(s[i] > 2 ^ (StepBits * top) - 1)
      BY <1>1 DEF Exceptions
    <3>3. StepOf(s[i]) <= StepBits * top
      BY <3>1, <3>2, <1>1, StepEnough
    <3>4. StepOf(s[i]) \in Nat /\ StepBits * k \in Nat /\ StepBits * top \in Nat
      BY <1>1, <3>1, StepOfFacts, Dimensions
    <3>5. StepOf(s[i]) <= StepBits * k
      BY <2>1, <3>3, <3>4
    <3> QED BY <3>1, <3>5, StepEnough
  <2> QED BY <2>2 DEF Exceptions
<1>4. excCount(s, StepBits * k) = 0 <=> Exceptions(s, StepBits * k) = {}
  BY ExceptionFacts, FS_EmptySet DEF excCount
<1> QED BY <1>2, <1>3, <1>4 DEF top

(* The running sums of the bins are the numbers of exceptions.             *)
LEMMA ChosenFromHist ==
  ASSUME NEW m \in Nat, NEW s \in Slice(m), NEW hist,
         \A si \in 0 .. 8 : hist[si] = Cardinality(BinOf(s, si))
  PROVE  chooseBestFromHist(hist, maxStepIdx(s))
           = [width |-> selectBitWidth(s), exc |-> excCount(s, selectBitWidth(s))]
<1> DEFINE top == maxStepIdx(s)
           x(k) == excCount(s, StepBits * k)
           step(g, si) == IF si >= top THEN 0 ELSE g[si + 1] + hist[si + 1]
           P(g) == g = [si \in 0 .. 8 |-> step(g, si)]
           above == CHOOSE g : P(g)
           e == [k \in 0 .. 8 |-> x(k)]
<1>1. top \in 0 .. 8 /\ 8 \in Nat
  BY MaxStep
<1>2. \A k \in 0 .. 8 : x(k) = 0 <=> top <= k
  BY NoneFromTop
<1>3. ASSUME NEW k \in 0 .. 8, ~(k >= top) PROVE x(k) = x(k + 1) + hist[k + 1] /\ k + 1 \in 0 .. 8
  <2>1. k \in 0 .. 7 /\ k + 1 \in 0 .. 8
    BY <1>1, <1>3
  <2> QED BY <2>1, BinsAdd
<1>4. chooseBestFromHist(hist, top) = [width |-> StepBits * Cheapest(top, above),
                                       exc |-> above[Cheapest(top, above)]]
  BY DEF chooseBestFromHist
<1> HIDE DEF x, top
<1>5. \A k \in 0 .. 8 : e[k] = x(k)
  OBVIOUS
<1>6. ASSUME NEW k \in 0 .. 8 PROVE e[k] = step(e, k)
  <2>1. CASE k >= top
    BY <2>1, <1>1, <1>2, <1>5
  <2>2. CASE ~(k >= top)
    BY <2>2, <1>3, <1>5
  <2> QED BY <2>1, <2>2
<1>7. e = [k \in 0 .. 8 |-> e[k]]
  OBVIOUS
<1> HIDE DEF e
<1>8. P(e)
  <2> HIDE DEF step
  <2> QED BY <1>6, <1>7
<1>9. P(above)
  <2> HIDE DEF P
  <2> QED BY <1>8
<1> HIDE DEF above
<1>10. \A k \in 0 .. 8 : above[k] = step(above, k)
  <2> HIDE DEF step
  <2> QED BY <1>9
<1> DEFINE T == {k \in 0 .. 8 : above[k] # e[k]}
<1>11. T = {}
  <2> SUFFICES ASSUME T # {} PROVE FALSE
    OBVIOUS
  <2>1. T \in SUBSET Nat /\ \A t \in T : t <= 8
    OBVIOUS
  <2>2. PICK t \in T : \A j \in T : j <= t
    <3> HIDE DEF T
    <3> QED BY <1>1, <2>1, GreatestOf
  <2>3. t \in 0 .. 8 /\ above[t] # e[t]
    BY <2>2
  <2>4. above[t] = step(above, t) /\ e[t] = step(e, t)
    BY <2>3, <1>6, <1>10
  <2>5. ~(t >= top)
    BY <2>3, <2>4
  <2>6. t + 1 \in 0 .. 8 /\ ~(t + 1 <= t)
    BY <2>3, <2>5, <1>3
  <2>7. above[t + 1] = e[t + 1]
    BY <2>2, <2>6
  <2> QED BY <2>3, <2>4, <2>5, <2>7
<1>12. \A k \in 0 .. 8 : above[k] = x(k)
  BY <1>5, <1>11
<1>13. Cheapest(top, above) = BestStep(s)
  <2>1. \A si \in 0 .. top : above[si] = x(si)
    BY <1>1, <1>12
  <2> QED BY <2>1, CheapestIsBest, Zenon DEF top, x
<1>14. above[BestStep(s)] = excCount(s, StepBits * BestStep(s))
  <2>1. BestStep(s) \in 0 .. 8
    BY <1>1, BestStepType DEF top
  <2> QED BY <2>1, <1>12, Zenon DEF x
<1> QED BY <1>4, <1>13, <1>14, Zenon DEF selectBitWidth, top

(* So are the threshold counts, whose first zero is at the top step.       *)
LEMMA ChosenFromCounts ==
  ASSUME NEW m \in Nat, NEW s \in Slice(m), NEW exc,
         \A si \in 0 .. 8 : exc[si] = excCount(s, StepBits * si)
  PROVE  chooseBestFromExcCounts(exc)
           = [width |-> selectBitWidth(s), exc |-> excCount(s, selectBitWidth(s))]
<1> DEFINE Q(si) == (exc[si] = 0 \/ si = 8) /\ \A sj \in 0 .. si - 1 : exc[sj] # 0
           first == CHOOSE si \in 0 .. 8 : Q(si)
           top == maxStepIdx(s)
<1>1. top \in 0 .. 8
  BY MaxStep
<1>2. \A k \in 0 .. 8 : exc[k] = 0 <=> top <= k
  BY NoneFromTop
<1> HIDE DEF top
<1>3. Q(top)
  <2>1. exc[top] = 0
    BY <1>1, <1>2
  <2>2. \A sj \in 0 .. top - 1 : exc[sj] # 0
    BY <1>1, <1>2
  <2> QED BY <2>1, <2>2
<1>4. first \in 0 .. 8 /\ Q(first)
  <2> HIDE DEF Q
  <2> QED BY <1>1, <1>3
<1>5. first = top
  <2> HIDE DEF first
  <2>1. ~(first < top)
    <3>1. first < top => first # 8 /\ exc[first] = 0
      BY <1>1, <1>4
    <3>2. exc[first] = 0 => top <= first
      BY <1>2, <1>4
    <3> QED BY <3>1, <3>2, <1>1, <1>4
  <2>2. ~(top < first)
    <3>1. top < first => top \in 0 .. first - 1
      BY <1>1, <1>4
    <3>2. exc[top] = 0
      BY <1>1, <1>2
    <3> QED BY <3>1, <3>2, <1>4
  <2> QED BY <2>1, <2>2, <1>1, <1>4
<1>6. chooseBestFromExcCounts(exc) = [width |-> StepBits * Cheapest(first, exc),
                                      exc |-> exc[Cheapest(first, exc)]]
  BY DEF chooseBestFromExcCounts
<1> HIDE DEF first
<1>7. Cheapest(top, exc) = BestStep(s)
  <2>1. \A si \in 0 .. top : exc[si] = excCount(s, StepBits * si)
    BY <1>1
  <2> QED BY <2>1, CheapestIsBest DEF top
<1>8. exc[BestStep(s)] = excCount(s, StepBits * BestStep(s))
  <2>1. BestStep(s) \in 0 .. 8
    BY <1>1, BestStepType DEF top
  <2> QED BY <2>1
<1> QED BY <1>5, <1>6, <1>7, <1>8, Zenon DEF selectBitWidth

-----------------------------------------------------------------------------
(* What a finished reduction has found. *)

(* At the end one accumulator stands for the whole slice.                  *)
LEMMA Finished ==
  ASSUME StepInv, pc = "done", pass \notin Maps
  PROVE  /\ n \in Nat /\ n > 0 /\ DOMAIN values = 0 .. n - 1 /\ Called
         /\ Covers(regs[0], 0 .. n - 1) /\ CountsInv /\ off = n
<1>1. n \in Nat /\ n > 0 /\ DOMAIN values = 0 .. n - 1 /\ Called /\ off = n /\ CountsInv
      /\ chunk <= n /\ chunk \in Nat
  BY StepFacts DEF StepInv, Progress
<1>2. LanesOf(1)
  BY DEF StepInv, LanesInv
<1>3. Seen = n
  BY <1>1 DEF Seen
<1>4. Covers(regs[0], Below(Seen, 1, 0))
  <2>1. 0 \in 0 .. 1 - 1
    OBVIOUS
  <2> QED BY <2>1, <1>2, LanesNow
<1>5. Below(n, 1, 0) = 0 .. n - 1
  BY <1>1, OneLane
<1> QED BY <1>1, <1>3, <1>4, <1>5

(* The OR of the values needs the step that their greatest needs.          *)
LEMMA TopStepIs ==
  ASSUME Called, values \in Slice(n), n > 0, Covers(regs[0], 0 .. n - 1)
  PROVE  topStep = maxStepIdx(values)
<1> DEFINE top == maxStepIdx(values)
           b == regs[0].bits
           M == regs[0].max
<1>1. n \in Nat /\ DOMAIN values = 0 .. n - 1 /\ 0 \in 0 .. n - 1
  <2>1. n \in Nat
    BY Dimensions DEF Called
  <2> HIDE DEF n
  <2> QED BY <2>1 DEF Slice
<1>2. /\ M \in DoubleWord /\ b = bitsLen(M) /\ b \in Nat
      /\ \A i \in 0 .. n - 1 : values[i] <= M
  <2>1. 0 .. n - 1 # {}
    BY <1>1
  <2> QED BY <2>1, DoublePowers DEF Covers
<1>3. PICK i \in 0 .. n - 1 : M = values[i]
  <2>1. 0 .. n - 1 # {}
    BY <1>1
  <2> QED BY <2>1 DEF Covers
<1>4. M \in Word /\ M \in Nat
  BY <1>1, <1>3, SliceFacts
<1> HIDE DEF M, b
<1>5. ASSUME NEW k \in 0 .. 8
      PROVE  b <= StepBits * k <=> top <= k
  <2> DEFINE w == StepBits * k
             p == 2 ^ w
  <2>1. w \in 0 .. WordBits /\ w \in 0 .. 2 * WordBits /\ p \in Nat /\ w \in Nat
    <3>1. w \in 0 .. WordBits
      BY <1>4, StepEnough
    <3>2. w \in 0 .. 2 * WordBits
      <4> HIDE DEF w
      <4> QED BY <3>1, DoublePowers
    <3> QED BY <3>1, <3>2, DoublePowers
  <2>2. M < p => b <= w
    BY <1>2, <2>1, BitsLen
  <2>3. b <= w => M < p
    <3> SUFFICES ASSUME b <= w PROVE M < p
      OBVIOUS
    <3> HIDE DEF w, p
    <3>1. b \in 0 .. w
      BY <1>2, <2>1
    <3>2. 2 ^ b <= 2 ^ w /\ M < 2 ^ b
      BY <3>1, <2>1, <1>2, DoublePowers, BitsLen
    <3>3. 2 ^ b \in Nat /\ 2 ^ w \in Nat
      BY <3>1, <2>1, <1>2, DoublePowers, BitsLen
    <3> DEFINE q == 2 ^ b
    <3>4. q \in Nat /\ p \in Nat /\ q <= p /\ M < q
      BY <3>2, <3>3 DEF p
    <3> HIDE DEF q
    <3> QED BY <3>4, <1>4
  <2>4. M < p <=> Exceptions(values, w) = {}
    <3>1. ASSUME NEW j \in 0 .. n - 1 PROVE values[j] > p - 1 <=> ~(values[j] < p)
      <4>1. values[j] \in Word
        BY <1>1, SliceFacts
      <4> QED BY <4>1, StepEnough
    <3>2. \A j \in 0 .. n - 1 : values[j] \in Nat /\ values[j] <= M
      BY <1>1, <1>2, SliceFacts
    <3>3. Exceptions(values, w) = {j \in 0 .. n - 1 : values[j] > p - 1}
      BY <1>1, Zenon DEF Exceptions
    <3> HIDE DEF p, w
    <3>4. ASSUME M < p PROVE \A j \in 0 .. n - 1 : ~(values[j] > p - 1)
      BY <3>1, <3>2, <3>4, <1>4, <2>1
    <3>5. ASSUME ~(M < p) PROVE values[i] > p - 1
      BY <3>1, <3>5, <1>3
    <3> QED BY <3>3, <3>4, <3>5
  <2>5. Exceptions(values, w) = {} <=> top <= k
    BY <1>1, NoneFromTop
  <2> QED BY <2>2, <2>3, <2>4, <2>5
<1>6. top \in 0 .. 8
  BY <1>1, MaxStep
<1> HIDE DEF top
<1>7. StepBits \in Nat \ {0}
  BY Dimensions
<1>8. (b + StepBits - 1) \div StepBits = top
  <2>1. b <= StepBits * top
    BY <1>5, <1>6
  <2>2. CASE top = 0
    <3>1. b = 0 /\ b + StepBits - 1 = StepBits * 0 + (StepBits - 1) /\ StepBits - 1 \in 0 .. StepBits - 1
      BY <2>1, <2>2, <1>2, <1>7
    <3> QED BY <3>1, <2>2, <1>7, Quotient
  <2>3. CASE top # 0
    <3>1. top - 1 \in 0 .. 8 /\ top - 1 \in Nat /\ ~(top <= top - 1)
      BY <2>3, <1>6
    <3>2. ~(b <= StepBits * (top - 1))
      BY <3>1, <1>5
    <3>3. StepBits * (top - 1) = StepBits * top - StepBits /\ StepBits * top \in Nat
      BY <1>6, <1>7
    <3> DEFINE x == StepBits * top
               r == b + StepBits - 1 - x
    <3>4. r \in 0 .. StepBits - 1 /\ b + StepBits - 1 = x + r
      <4> HIDE DEF x
      <4>1. x \in Nat /\ b <= x /\ ~(b <= x - StepBits)
        BY <2>1, <3>2, <3>3 DEF x
      <4> QED BY <4>1, <1>2, <1>7
    <3> HIDE DEF r
    <3>5. (StepBits * top + r) \div StepBits = top
      BY <3>4, <1>6, <1>7, Quotient
    <3> QED BY <3>4, <3>5
  <2> QED BY <2>2, <2>3
<1> QED BY <1>8 DEF topStep, top, b

LEMMA SliceExtremes ==
  ASSUME values \in Slice(n), n \in Nat, n > 0
  PROVE  /\ SliceMin(values) = LeastIn(ValuesOf(values))
         /\ SliceMax(values) = GreatestIn(ValuesOf(values))
<1> DEFINE V == ValuesOf(values)
<1>1. V \in SUBSET Nat /\ V # {} /\ \A v \in V : v <= Modulus
  <2>1. DOMAIN values = 0 .. n - 1 /\ \A i \in DOMAIN values : values[i] \in Nat /\ values[i] < Modulus
    BY SliceFacts
  <2>2. 0 \in 0 .. n - 1 /\ Modulus \in Nat
    BY Dimensions
  <2> QED BY <2>1, <2>2 DEF ValuesOf
<1>2. SliceMin(values) = CHOOSE m \in V : \A v \in V : m <= v
  BY DEF SliceMin
<1>3. SliceMax(values) = CHOOSE m \in V : \A v \in V : v <= m
  BY DEF SliceMax
<1> HIDE DEF V
<1>4. SliceMin(values) = LeastIn(V)
  BY <1>2 DEF LeastIn
<1>5. PICK x \in V : \A v \in V : v <= x
  <2>1. Modulus \in Nat
    BY Dimensions
  <2> QED BY <1>1, <2>1, GreatestOf
<1>6. SliceMax(values) \in V /\ \A v \in V : v <= SliceMax(values)
  BY <1>3, <1>5
<1>7. GreatestIn(V) = SliceMax(values)
  BY <1>1, <1>6, Extremes
<1> QED BY <1>4, <1>7 DEF V

(* What is counted at the end are the bins, or the exceptions.             *)
LEMMA CountsAre ==
  ASSUME CountsInv, Counting, off = n, values \in Slice(n), n \in Nat,
         topStep = maxStepIdx(values)
  PROVE  Chosen = [width |-> selectBitWidth(values), exc |-> excCount(values, selectBitWidth(values))]
<1>1. DOMAIN values = 0 .. n - 1
  BY SliceFacts
<1>2. \A si \in 0 .. 8 :
        counts[si] = Cardinality({i \in 0 .. n - 1 : CountIn(values[i], si) = 1})
  BY DEF CountsInv, CountsBelow
<1>3. CASE UseHist
  <2>1. \A i, si : CountIn(values[i], si) = 1 <=> StepOf(values[i]) = StepBits * si
    BY <1>3 DEF CountIn
  <2>2. \A si : {i \in 0 .. n - 1 : CountIn(values[i], si) = 1} = BinOf(values, si)
    BY <1>1, <2>1 DEF BinOf
  <2>3. \A si \in 0 .. 8 : counts[si] = Cardinality(BinOf(values, si))
    BY <1>2, <2>2
  <2>4. chooseBestFromHist(counts, maxStepIdx(values))
          = [width |-> selectBitWidth(values), exc |-> excCount(values, selectBitWidth(values))]
    BY <2>3, ChosenFromHist
  <2> QED BY <1>3, <2>4, Zenon DEF Chosen
<1>4. CASE ~UseHist
  <2>1. \A i, si : CountIn(values[i], si) = 1 <=> values[i] > 2 ^ (StepBits * si) - 1
    BY <1>4 DEF CountIn, gtCountU32
  <2>2. \A si : {i \in 0 .. n - 1 : CountIn(values[i], si) = 1} = Exceptions(values, StepBits * si)
    BY <1>1, <2>1 DEF Exceptions
  <2>3. \A si \in 0 .. 8 : counts[si] = excCount(values, StepBits * si)
    BY <1>2, <2>2 DEF excCount
  <2>4. chooseBestFromExcCounts(counts)
          = [width |-> selectBitWidth(values), exc |-> excCount(values, selectBitWidth(values))]
    BY <2>3, ChosenFromCounts
  <2> QED BY <1>4, <2>4, Zenon DEF Chosen
<1> QED BY <1>3, <1>4

(* Whether all values of a uint64 slice are words shows in the OR.         *)
LEMMA WordsShow ==
  ASSUME Called, n \in Nat, n > 0, DOMAIN values = 0 .. n - 1, Covers(regs[0], 0 .. n - 1)
  PROVE  regs[0].bits <= WordBits <=> \A i \in DOMAIN values : values[i] \in Word
<1> DEFINE M == regs[0].max
           b == regs[0].bits
<1>1. /\ M \in DoubleWord /\ M \in Nat /\ b = bitsLen(M) /\ b \in 0 .. 2 * WordBits
      /\ \A i \in 0 .. n - 1 : values[i] <= M /\ values[i] \in Nat
      /\ \E i \in 0 .. n - 1 : M = values[i]
  <2>1. 0 .. n - 1 # {}
    OBVIOUS
  <2> QED BY <2>1, ValuesFit, BitsLenZero DEF Covers
<1> HIDE DEF M, b
<1>2. Modulus \in Nat /\ WordBits \in Nat /\ WordBits \in 0 .. 2 * WordBits /\ 2 ^ WordBits = Modulus
  BY DoublePowers
<1>3. M < Modulus => b <= WordBits
  BY <1>1, <1>2, BitsLen
<1>4. b <= WordBits => M < Modulus
  <2> SUFFICES ASSUME b <= WordBits PROVE M < Modulus
    OBVIOUS
  <2>1. b \in 0 .. WordBits
    BY <1>1, <1>2
  <2> DEFINE q == 2 ^ b
  <2>2. q <= Modulus /\ q \in Nat /\ M < q
    <3>1. 2 ^ b <= 2 ^ WordBits
      BY <2>1, <1>2, DoublePowers
    <3> QED BY <3>1, <1>1, <1>2, DoublePowers, BitsLen
  <2> HIDE DEF q
  <2> QED BY <2>2, <1>1, <1>2
<1>5. M < Modulus <=> \A i \in 0 .. n - 1 : values[i] \in Word
  BY <1>1, <1>2 DEF Word
<1> QED BY <1>3, <1>4, <1>5 DEF b

(* Whatever the level, the packers take the same decisions from a slice of *)
(* any length: the frame of reference, the bitwidth with its number of     *)
(* exceptions from a histogram or from threshold counts, the width without *)
(* patching, and the path of a uint64 slice (select_bitwidth.go:37-110,    *)
(* simd_sse2_amd64.go:355-446, 497-575).                                   *)
THEOREM AllLevelsAgree == Spec => []LevelsAgree
<1>1. PassInv => LevelsAgree
  <2> SUFFICES ASSUME StepInv, pc = "done" PROVE LevelsAgree
    BY DEF PassInv, LevelsAgree
  <2>1. CASE pass \in Maps
    BY <2>1 DEF LevelsAgree, Maps, Maps32, Maps64
  <2>2. CASE pass \notin Maps
    <3>1. /\ n \in Nat /\ n > 0 /\ DOMAIN values = 0 .. n - 1 /\ Called
          /\ Covers(regs[0], 0 .. n - 1) /\ CountsInv /\ off = n
      BY <2>2, Finished
    <3>2. /\ regs[0].max = GreatestIn(ValuesOf(values))
          /\ Seeded => regs[0].min = LeastIn(ValuesOf(values))
      <4>1. ValuesOf(values) = {values[i] : i \in 0 .. n - 1}
        BY <3>1 DEF ValuesOf
      <4>2. 0 .. n - 1 # {} /\ 0 .. n - 1 \in SUBSET (0 .. n - 1)
        BY <3>1
      <4> QED BY <4>1, <4>2, <3>1, CoversExtremes
    <3>3. ASSUME pass \in Reductions32
          PROVE  /\ values \in Slice(n)
                 /\ regs[0].max = SliceMax(values)
                 /\ Seeded => regs[0].min = SliceMin(values)
                 /\ topStep = maxStepIdx(values)
      <4>1. values \in Slice(n)
        BY <3>1, <3>3, ValuesFit
      <4> QED BY <4>1, <3>1, <3>2, SliceExtremes, TopStepIs
    <3>4. ASSUME Counting
          PROVE  Chosen = [width |-> selectBitWidth(values),
                           exc |-> excCount(values, selectBitWidth(values))]
      <4>1. pass \in Reductions32
        BY <3>4 DEF Counting, Reductions32
      <4> QED BY <4>1, <3>1, <3>3, <3>4, CountsAre
    <3>5. regs[0].bits <= WordBits <=> \A i \in DOMAIN values : values[i] \in Word
      BY <3>1, WordsShow
    <3>6. pass = "findMinMax" => regs[0].min = SliceMin(values) /\ regs[0].max = SliceMax(values)
      BY <3>3 DEF Reductions32, Seeded
    <3>7. pass = "selectBitWidthNoPatch" => topStep * StepBits = selectBitWidthNoPatch(values)
      <4> SUFFICES ASSUME pass = "selectBitWidthNoPatch"
                   PROVE  topStep * StepBits = selectBitWidthNoPatch(values)
        OBVIOUS
      <4>1. topStep = maxStepIdx(values) /\ values \in Slice(n)
        BY <3>3 DEF Reductions32
      <4>2. maxStepIdx(values) \in 0 .. 8 /\ StepBits \in Nat
        BY <4>1, <3>1, MaxStep, Dimensions
      <4>3. maxStepIdx(values) * StepBits = StepBits * maxStepIdx(values)
        BY <4>2
      <4> QED BY <4>1, <4>3 DEF selectBitWidthNoPatch
    <3>8. pass = "selectBitWidth" =>
            Chosen = [width |-> selectBitWidth(values), exc |-> excCount(values, selectBitWidth(values))]
      BY <3>4 DEF Counting
    <3>9. pass = "selectBitWidthWithFOR" => (ChosenFOR <=> UseFOR(values))
      <4> SUFFICES ASSUME pass = "selectBitWidthWithFOR" PROVE ChosenFOR <=> UseFOR(values)
        OBVIOUS
      <4>1. regs[0].min = SliceMin(values) /\ regs[0].max = SliceMax(values)
        BY <3>3 DEF Reductions32, Seeded
      <4>2. Chosen.width = selectBitWidth(values)
        BY <3>4 DEF Counting
      <4> QED BY <4>1, <4>2, Zenon DEF ChosenFOR, UseFOR
    <3>10. pass = "analyzeUint64" => regs[0].min = LeastIn(ValuesOf(values))
      BY <3>2 DEF Seeded
    <3> QED BY <3>2, <3>5, <3>6, <3>7, <3>8, <3>9, <3>10, <2>2 DEF LevelsAgree
  <2> QED BY <2>1, <2>2
<1> QED BY <1>1, PassInvariance, PTL
=============================================================================

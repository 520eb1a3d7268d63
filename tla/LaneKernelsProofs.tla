------------------------- MODULE LaneKernelsProofs --------------------------
(***************************************************************************)
(* KernelInv is an invariant of LaneKernels: for every number of lanes     *)
(* that fill vectors, every step, width and slice, the kernels of all      *)
(* levels pack the lanes' bit streams, store nothing else, and read any    *)
(* kernel's payload back.                                                  *)
(***************************************************************************)
EXTENDS LaneKernelsInv, TLAPS

-----------------------------------------------------------------------------
(* Dimensions and quotients. *)

LEMMA Sizes ==
  /\ LaneCount \in Nat \ {0} /\ LaneCount % 4 = 0
  /\ StepBits \in Nat \ {0}
  /\ WordBits = 8 * StepBits /\ WordBits \in Nat \ {0}
  /\ utlValuesPerLane = 8 /\ blockSize = 8 * LaneCount
  /\ Rows = 0 .. 7 /\ LaneWords = 0 .. 8
  /\ Lanes = 0 .. LaneCount - 1 /\ Pos = 0 .. 8 * LaneCount - 1 /\ Bits = 0 .. WordBits - 1
<1>1. LaneCount \in Nat \ {0} /\ LaneCount % 4 = 0 /\ StepBits \in Nat \ {0}
  BY DimensionAssumption, KernelAssumption
<1>2. utlValuesPerLane = 8 /\ WordBits = 8 * StepBits
  BY DEF utlValuesPerLane, WordBits
<1>3. blockSize = 8 * LaneCount
  BY <1>1, <1>2 DEF blockSize
<1> QED BY <1>1, <1>2, <1>3 DEF Rows, LaneWords, Lanes, Pos, Bits

(* Multiples of m are m apart.                                             *)
LEMMA Multiples ==
  ASSUME NEW a \in Nat, NEW b \in Nat, NEW m \in Nat
  PROVE  /\ a * m \in Nat /\ b * m \in Nat /\ (a + 1) * m = a * m + m
         /\ a < b => a * m + m <= b * m
         /\ a <= b => a * m <= b * m
<1>1. a * m \in Nat /\ b * m \in Nat /\ (a + 1) * m = a * m + m
  OBVIOUS
<1>2. ASSUME a < b PROVE a * m + m <= b * m
  <2>1. PICK d \in Nat : b = a + 1 + d
    <3>1. b - (a + 1) \in Nat /\ b = a + 1 + (b - (a + 1))
      BY <1>2
    <3> QED BY <3>1
  <2>2. b * m = a * m + m + d * m /\ d * m \in Nat
    BY <2>1
  <2> QED BY <1>1, <2>2
<1> QED BY <1>1, <1>2

(* Quotient and remainder, given and found.                                *)
LEMMA Quotient ==
  ASSUME NEW a \in Nat, NEW m \in Nat \ {0}
  PROVE  /\ a \div m \in Nat /\ a % m \in 0 .. m - 1
         /\ a = (a \div m) * m + (a % m)
         /\ \A q \in Nat, r \in 0 .. m - 1 : a = q * m + r => a \div m = q /\ a % m = r
<1>1. /\ a \div m \in Nat /\ a % m \in 0 .. m - 1
      /\ a = (a \div m) * m + (a % m)
  OBVIOUS
<1>2. ASSUME NEW q \in Nat, NEW r \in 0 .. m - 1, a = q * m + r
      PROVE  a \div m = q /\ a % m = r
  <2> DEFINE d == a \div m
  <2> DEFINE e == a % m
  <2>1. d \in Nat /\ e \in 0 .. m - 1 /\ a = d * m + e
    BY <1>1
  <2> HIDE DEF d, e
  <2>2. q * m \in Nat /\ d * m \in Nat /\ m \in Nat /\ r \in Nat /\ e \in Nat
    BY <2>1
  <2>3. ~(q < d)
    <3>1. q < d => q * m + m <= d * m
      BY <2>1, Multiples
    <3> QED BY <1>2, <2>1, <2>2, <3>1
  <2>4. ~(d < q)
    <3>1. d < q => d * m + m <= q * m
      BY <2>1, Multiples
    <3> QED BY <1>2, <2>1, <2>2, <3>1
  <2>5. q = d
    BY <2>1, <2>3, <2>4
  <2>6. r = e
    BY <1>2, <2>1, <2>2, <2>5
  <2> QED BY <2>5, <2>6 DEF d, e
<1> QED BY <1>1, <1>2

(* A position is in a row and a lane.                                      *)
LEMMA PlaceOfPosition ==
  ASSUME NEW i \in Pos
  PROVE  i \div LaneCount \in Rows /\ i % LaneCount \in Lanes
         /\ i = (i \div LaneCount) * LaneCount + (i % LaneCount)
<1> DEFINE v == i \div LaneCount
<1>1. LaneCount \in Nat \ {0} /\ i \in Nat /\ i < 8 * LaneCount
  BY Sizes
<1>2. v \in Nat /\ i % LaneCount \in 0 .. LaneCount - 1 /\ i = v * LaneCount + (i % LaneCount)
  BY <1>1, Quotient
<1> HIDE DEF v
<1>3. 7 < v => 7 * LaneCount + LaneCount <= v * LaneCount
  BY <1>1, <1>2, Multiples
<1>4. v * LaneCount \in Nat
  BY <1>1, <1>2, Multiples
<1>5. v <= 7
  BY <1>1, <1>2, <1>3, <1>4
<1> QED BY <1>2, <1>5, Sizes DEF v

-----------------------------------------------------------------------------
(* The payload. *)

LEMMA Widths ==
  ASSUME TypeOK
  PROVE  /\ bitWidth \in 0 .. WordBits /\ bitWidth \in Nat
         /\ input.vals \in [Pos -> SUBSET Bits] /\ input.count \in 1 .. blockSize
BY Sizes, KernelAssumption DEF TypeOK

(* A lane's bits fill its words but for the last, of which they need some. *)
LEMMA PayloadSize ==
  ASSUME bitWidth \in 0 .. WordBits
  PROVE  /\ PayloadWords \in 0 .. 8
         /\ \A k \in 0 .. 8 : bitWidth = k * StepBits => PayloadWords = k
         /\ \A w \in Nat : w < PayloadWords <=> w * WordBits < 8 * bitWidth
<1> DEFINE k == (bitWidth + StepBits - 1) \div StepBits
<1> DEFINE e == (bitWidth + StepBits - 1) % StepBits
<1>1. StepBits \in Nat \ {0} /\ bitWidth \in Nat /\ bitWidth + StepBits - 1 \in Nat
  BY Sizes
<1>2. k \in Nat /\ e \in 0 .. StepBits - 1 /\ bitWidth + StepBits - 1 = k * StepBits + e
  BY <1>1, Quotient
<1>3. PayloadWords = k
  <2>1. utlSuperWordBytes \in Nat \ {0}
    BY Sizes DEF utlSuperWordBytes
  <2>2. utlPayloadBytes(bitWidth) = k * utlSuperWordBytes + 0
    BY <1>2, <2>1 DEF utlPayloadBytes
  <2> HIDE DEF k
  <2>3. k * utlSuperWordBytes + 0 \in Nat /\ 0 \in 0 .. utlSuperWordBytes - 1
    BY <1>2, <2>1
  <2>4. (k * utlSuperWordBytes + 0) \div utlSuperWordBytes = k
    BY <1>2, <2>1, <2>3, Quotient
  <2> QED BY <2>2, <2>4 DEF PayloadWords
<1> HIDE DEF k, e
<1>4. k * StepBits \in Nat /\ bitWidth <= k * StepBits /\ k * StepBits < bitWidth + StepBits
  BY <1>1, <1>2, Multiples
<1>5. k <= 8
  <2>1. 8 < k => 8 * StepBits + StepBits <= k * StepBits
    BY <1>1, <1>2, Multiples
  <2> QED BY <1>1, <1>2, <1>4, <2>1, Sizes
<1>6. ASSUME NEW j \in 0 .. 8, bitWidth = j * StepBits PROVE k = j
  <2>1. j < k => j * StepBits + StepBits <= k * StepBits
    BY <1>1, <1>2, Multiples
  <2>2. k < j => k * StepBits + StepBits <= j * StepBits
    BY <1>1, <1>2, Multiples
  <2> QED BY <1>1, <1>2, <1>4, <1>6, <2>1, <2>2
<1>7. ASSUME NEW w \in Nat PROVE w < k <=> w * WordBits < 8 * bitWidth
  <2>1. w * WordBits = 8 * (w * StepBits) /\ w * StepBits \in Nat
    BY <1>1, Sizes
  <2>2. w < k => w * StepBits + StepBits <= k * StepBits
    BY <1>1, <1>2, Multiples
  <2>3. k <= w => k * StepBits <= w * StepBits
    BY <1>1, <1>2, Multiples
  <2> QED BY <1>1, <1>2, <1>4, <2>1, <2>2, <2>3
<1> QED BY <1>2, <1>3, <1>5, <1>6, <1>7

(* Where the row v begins: q words, then s bits.                           *)
Begins(y, v) ==
  /\ y.word \in 0 .. 7 /\ y.shift \in 0 .. WordBits - 1
  /\ y.word * WordBits + y.shift = v * bitWidth
  /\ y.spans <=> y.shift + bitWidth > WordBits

LEMMA GenericLayout ==
  ASSUME bitWidth \in 1 .. WordBits, NEW v \in Rows
  PROVE  Begins(computeLayout(v), v)
<1> DEFINE a == v * bitWidth
<1> DEFINE q == a \div WordBits
<1>1. WordBits \in Nat \ {0} /\ bitWidth \in Nat /\ v \in 0 .. 7
  BY Sizes
<1>2. a \in Nat /\ a <= 7 * bitWidth
  BY <1>1, Multiples
<1>3. q \in Nat /\ a % WordBits \in 0 .. WordBits - 1 /\ a = q * WordBits + (a % WordBits)
  BY <1>1, <1>2, Quotient
<1>4. q <= 7
  <2>1. 7 < q => 7 * WordBits + WordBits <= q * WordBits
    BY <1>1, <1>3, Multiples
  <2> HIDE DEF q
  <2>2. q * WordBits \in Nat
    BY <1>1, <1>3, Multiples
  <2> QED BY <1>1, <1>2, <1>3, <2>1, <2>2
<1> DEFINE e == a % WordBits
<1>5. /\ computeLayout(v).word = q /\ computeLayout(v).shift = e
      /\ computeLayout(v).spans <=> e + bitWidth > WordBits
  BY Zenon DEF computeLayout
<1>6. q * WordBits + e = v * bitWidth
  BY <1>3
<1>7. q \in 0 .. 7 /\ e \in 0 .. WordBits - 1
  BY <1>3, <1>4
<1> HIDE DEF q, e
<1> QED BY <1>5, <1>6, <1>7, Zenon DEF Begins

(* The tables of the unrolled kernels, as they were emitted.               *)
LEMMA KernelTable ==
  ASSUME NEW k \in 1 .. 8, NEW v \in Rows
  PROVE  LET kn == kernelsSSE2[k]
             e  == kn.at[v + 1]
         IN  /\ e[1] \in 0 .. 7 /\ e[2] \in 0 .. 7 /\ 8 * e[1] + e[2] = v * k
             /\ v \in kn.two <=> e[2] + k > 8
<1>1. v \in 0 .. 7
  BY Sizes
<1>2. CASE k = 1
  BY <1>1, <1>2 DEF kernelsSSE2, BW4, Kernel
<1>3. CASE k = 2
  BY <1>1, <1>3 DEF kernelsSSE2, BW8, Kernel
<1>4. CASE k = 3
  BY <1>1, <1>4 DEF kernelsSSE2, BW12, Kernel
<1>5. CASE k = 4
  BY <1>1, <1>5 DEF kernelsSSE2, BW16, Kernel
<1>6. CASE k = 5
  BY <1>1, <1>6 DEF kernelsSSE2, BW20, Kernel
<1>7. CASE k = 6
  BY <1>1, <1>7 DEF kernelsSSE2, BW24, Kernel
<1>8. CASE k = 7
  BY <1>1, <1>8 DEF kernelsSSE2, BW28, Kernel
<1>9. CASE k = 8
  BY <1>1, <1>9 DEF kernelsSSE2, BW32, Kernel
<1> QED BY <1>2, <1>3, <1>4, <1>5, <1>6, <1>7, <1>8, <1>9

(* The width of an unrolled kernel, in steps, and its table.               *)
LEMMA UnrolledWidth ==
  ASSUME TypeOK, Unrolled
  PROVE  /\ PayloadWords \in 1 .. 8 /\ bitWidth = PayloadWords * StepBits
         /\ kernel = kernelsSSE2[PayloadWords]
         /\ bitWidth \in 1 .. WordBits
<1>1. StepBits \in Nat \ {0} /\ WordBits = 8 * StepBits /\ bitWidth \in 0 .. WordBits
  BY Sizes, Widths
<1>2. PICK k \in 0 .. 8 : bitWidth = StepBits * k
  BY DEF Unrolled, StepWidths
<1>3. k # 0
  <2>1. k = 0 => bitWidth = 0
    BY <1>1, <1>2
  <2> QED BY <2>1 DEF Unrolled
<1>4. bitWidth = k * StepBits /\ bitWidth = k * StepBits + 0 /\ 0 \in 0 .. StepBits - 1 /\ bitWidth \in Nat
  BY <1>1, <1>2
<1>5. PayloadWords = k
  BY <1>1, <1>4, PayloadSize
<1>6. bitWidth \div StepBits = k
  BY <1>1, <1>4, Quotient
<1>7. level \in {"sse2", "avx2", "avx512"}
  BY KernelAssumption DEF TypeOK, Unrolled
<1>8. kernel = kernelsSSE2[k]
  BY <1>6, <1>7 DEF kernel, kernelsSSE2, kernelsAVX2, kernelsAVX512
<1>9. bitWidth >= 1
  BY <1>1, <1>3, <1>4, Multiples
<1> QED BY <1>1, <1>3, <1>4, <1>5, <1>8, <1>9

LEMMA UnrolledLayout ==
  ASSUME TypeOK, Unrolled, NEW v \in Rows
  PROVE  Begins(Layout(v), v)
<1> DEFINE e == kernel.at[v + 1]
<1>1. StepBits \in Nat \ {0} /\ WordBits = 8 * StepBits /\ v \in 0 .. 7
  BY Sizes
<1>2. PICK k \in 1 .. 8 : k = PayloadWords /\ bitWidth = k * StepBits /\ kernel = kernelsSSE2[k]
  BY UnrolledWidth
<1>3. e[1] \in 0 .. 7 /\ e[2] \in 0 .. 7 /\ 8 * e[1] + e[2] = v * k /\ (v \in kernel.two <=> e[2] + k > 8)
  BY <1>2, KernelTable
<1>4. Layout(v) = [word |-> e[1], shift |-> StepBits * e[2], spans |-> v \in kernel.two]
  BY DEF Layout
<1> HIDE DEF e
<1>5. PICK w \in 0 .. 7, s \in 0 .. 7 : w = e[1] /\ s = e[2]
  BY <1>3
<1>6. 8 * w + s = v * k
  BY <1>3, <1>5
<1>7. w * WordBits + StepBits * s = v * bitWidth
  <2>1. (8 * w + s) * StepBits = w * (8 * StepBits) + StepBits * s
    BY <1>1
  <2>2. (v * k) * StepBits = v * (k * StepBits)
    BY <1>1
  <2> QED BY <1>1, <1>2, <1>6, <2>1, <2>2
<1>8. StepBits * s \in 0 .. WordBits - 1
  <2>1. s * StepBits + StepBits <= 8 * StepBits /\ s * StepBits \in Nat
    BY <1>1, Multiples
  <2>2. StepBits * s = s * StepBits
    BY <1>1
  <2> QED BY <1>1, <2>1, <2>2
<1>9. s + k > 8 <=> StepBits * s + bitWidth > WordBits
  <2>1. StepBits * s + bitWidth = (s + k) * StepBits /\ s + k \in Nat
    BY <1>1, <1>2
  <2>2. 8 < s + k => 8 * StepBits + StepBits <= (s + k) * StepBits
    BY <1>1, <2>1, Multiples
  <2>3. s + k <= 8 => (s + k) * StepBits <= 8 * StepBits
    BY <1>1, <2>1, Multiples
  <2> QED BY <1>1, <2>1, <2>2, <2>3
<1>10. Layout(v).word = w /\ Layout(v).shift = StepBits * s
  BY <1>4, <1>5
<1>11. Layout(v).spans <=> StepBits * s + bitWidth > WordBits
  <2>1. Layout(v).spans <=> v \in kernel.two
    BY Zenon DEF Layout
  <2> QED BY <1>3, <1>5, <1>9, <2>1
<1> QED BY <1>7, <1>8, <1>10, <1>11, Zenon DEF Begins

(* A row begins and ends inside the payload.                               *)
LEMMA BeginsInside ==
  ASSUME bitWidth \in 1 .. WordBits, NEW v \in Rows, NEW y, Begins(y, v)
  PROVE  /\ y.word < PayloadWords
         /\ y.shift + bitWidth > WordBits => y.word + 1 < PayloadWords
<1>1. bitWidth \in 1 .. WordBits /\ bitWidth \in 0 .. WordBits /\ WordBits \in Nat \ {0} /\ v \in 0 .. 7
  BY Sizes
<1>2. PICK w \in 0 .. 7, s \in 0 .. WordBits - 1 :
        w = y.word /\ s = y.shift /\ w * WordBits + s = v * bitWidth
  BY DEF Begins
<1>3. v * bitWidth + bitWidth <= 8 * bitWidth /\ v * bitWidth \in Nat
  BY <1>1, Multiples
<1>4. w * WordBits \in Nat /\ (w + 1) * WordBits = w * WordBits + WordBits
  BY <1>1, Multiples
<1>5. w * WordBits < 8 * bitWidth
  BY <1>1, <1>2, <1>3, <1>4
<1>6. s + bitWidth > WordBits => (w + 1) * WordBits < 8 * bitWidth
  BY <1>1, <1>2, <1>3, <1>4
<1> QED BY <1>1, <1>2, <1>5, <1>6, PayloadSize

(* Every kernel looks for a row where it begins, and neither its word nor  *)
(* the one it spans to is past the payload.                                *)
LEMMA LayoutFacts ==
  ASSUME TypeOK, bitWidth > 0, NEW v \in Rows
  PROVE  /\ Begins(Layout(v), v)
         /\ Layout(v).word < PayloadWords
         /\ Layout(v).spans => Layout(v).word + 1 < PayloadWords
<1>1. bitWidth \in 1 .. WordBits
  BY Widths, Sizes
<1>2. Begins(Layout(v), v)
  <2>1. CASE Unrolled
    BY <2>1, UnrolledLayout
  <2>2. CASE ~Unrolled
    BY <1>1, <2>2, GenericLayout DEF Layout
  <2> QED BY <2>1, <2>2
<1>3. Layout(v).spans => Layout(v).shift + bitWidth > WordBits
  BY <1>2 DEF Begins
<1> QED BY <1>1, <1>2, <1>3, BeginsInside

-----------------------------------------------------------------------------
(* Streams. *)

(* Bit q of lane l is one.                                                 *)
On(l, q) == q < 8 * bitWidth /\ q % bitWidth \in Val(q \div bitWidth, l)

LEMMA InStream ==
  ASSUME NEW l, NEW p \in Nat, NEW n \in Nat, NEW b
  PROVE  b \in Stream(l, p, n) <=> b \in 0 .. n - 1 /\ On(l, p + b)
BY Sizes DEF Stream, On

LEMMA ValBits ==
  ASSUME TypeOK, NEW v, NEW l
  PROVE  /\ Val(v, l) \subseteq 0 .. bitWidth - 1 /\ Val(v, l) \subseteq Nat
         /\ Val(v, l) \subseteq Bits
<1>1. bitWidth \in 0 .. WordBits /\ Bits = 0 .. WordBits - 1 /\ WordBits \in Nat
  BY Widths, Sizes
<1>2. Val(v, l) \subseteq 0 .. bitWidth - 1
  BY DEF Val, Mask
<1> QED BY <1>1, <1>2

(* The bits of a row begin at its multiple of bitWidth.                    *)
LEMMA BitOfRow ==
  ASSUME TypeOK, bitWidth > 0, NEW l, NEW v \in Rows, NEW c \in 0 .. bitWidth - 1
  PROVE  v * bitWidth + c \in Nat /\ (On(l, v * bitWidth + c) <=> c \in Val(v, l))
<1>1. bitWidth \in Nat \ {0} /\ v \in 0 .. 7
  BY Widths, Sizes
<1>2. v * bitWidth \in Nat /\ v * bitWidth + bitWidth <= 8 * bitWidth
  BY <1>1, Multiples
<1>3. v * bitWidth + c \in Nat /\ v * bitWidth + c < 8 * bitWidth
  BY <1>1, <1>2
<1>4. (v * bitWidth + c) \div bitWidth = v /\ (v * bitWidth + c) % bitWidth = c
  <2> DEFINE a == v * bitWidth + c
  <2>1. a \in Nat /\ a = v * bitWidth + c
    BY <1>3
  <2> HIDE DEF a
  <2>2. \A q \in Nat, r \in 0 .. bitWidth - 1 :
          a = q * bitWidth + r => a \div bitWidth = q /\ a % bitWidth = r
    BY <1>1, <2>1, Quotient
  <2>3. v \in Nat
    BY <1>1
  <2>4. a \div bitWidth = v /\ a % bitWidth = c
    BY <2>1, <2>2, <2>3, Zenon
  <2> QED BY <2>1, <2>4
<1> QED BY <1>3, <1>4 DEF On

LEMMA RowOfBit ==
  ASSUME TypeOK, bitWidth > 0, NEW l, NEW q \in Nat, On(l, q)
  PROVE  \E v \in Rows : \E c \in Val(v, l) : c \in 0 .. bitWidth - 1 /\ q = v * bitWidth + c
<1> DEFINE v == q \div bitWidth
<1> DEFINE c == q % bitWidth
<1>1. bitWidth \in Nat \ {0}
  BY Widths
<1>2. v \in Nat /\ c \in 0 .. bitWidth - 1 /\ q = v * bitWidth + c
  BY <1>1, Quotient
<1>3. c \in Val(v, l) /\ q < 8 * bitWidth
  BY DEF On
<1> HIDE DEF v, c
<1>4. 7 < v => 7 * bitWidth + bitWidth <= v * bitWidth
  BY <1>1, <1>2, Multiples
<1>5. v \in Rows
  <2>1. v * bitWidth \in Nat
    BY <1>1, <1>2, Multiples
  <2> QED BY <1>1, <1>2, <1>3, <1>4, <2>1, Sizes
<1> QED BY <1>2, <1>3, <1>5

(* The first bits of a stream, and those after them.                       *)
LEMMA StreamCut ==
  ASSUME NEW l, NEW p \in Nat, NEW n \in Nat, NEW m \in 0 .. n
  PROVE  /\ Stream(l, p, n) \cap (0 .. m - 1) = Stream(l, p, m)
         /\ ShiftRight(Stream(l, p, n), m) = Stream(l, p + m, n - m)
<1>1. Stream(l, p, n) \cap (0 .. m - 1) = Stream(l, p, m)
  BY InStream
<1>2. ASSUME NEW b \in ShiftRight(Stream(l, p, n), m) PROVE b \in Stream(l, p + m, n - m)
  <2>1. PICK c \in Stream(l, p, n) : c >= m /\ b = c - m
    BY <1>2 DEF ShiftRight
  <2>2. c \in 0 .. n - 1 /\ On(l, p + c)
    BY InStream
  <2>3. b \in 0 .. (n - m) - 1 /\ p + c = (p + m) + b
    BY <2>1, <2>2
  <2> QED BY <2>2, <2>3, InStream
<1>3. ASSUME NEW b \in Stream(l, p + m, n - m) PROVE b \in ShiftRight(Stream(l, p, n), m)
  <2>1. b \in 0 .. (n - m) - 1 /\ On(l, (p + m) + b)
    BY InStream
  <2>2. b + m \in 0 .. n - 1 /\ (p + m) + b = p + (b + m) /\ b + m >= m /\ b = (b + m) - m
    BY <2>1
  <2>3. b + m \in Stream(l, p, n)
    BY <2>1, <2>2, InStream
  <2> QED BY <2>2, <2>3 DEF ShiftRight
<1> QED BY <1>1, <1>2, <1>3

(* One stream behind the other.                                            *)
LEMMA StreamJoin ==
  ASSUME NEW l, NEW p \in Nat, NEW n \in Nat, NEW m \in Nat
  PROVE  Stream(l, p, n) \cup ShiftLeft(Stream(l, p + n, m), n) = Stream(l, p, n + m)
<1>1. ASSUME NEW b \in ShiftLeft(Stream(l, p + n, m), n) PROVE b \in Stream(l, p, n + m)
  <2>1. PICK c \in Stream(l, p + n, m) : b = c + n
    BY <1>1 DEF ShiftLeft
  <2>2. c \in 0 .. m - 1 /\ On(l, (p + n) + c)
    BY InStream
  <2>3. b \in 0 .. (n + m) - 1 /\ (p + n) + c = p + b
    BY <2>1, <2>2
  <2> QED BY <2>2, <2>3, InStream
<1>2. ASSUME NEW b \in Stream(l, p, n) PROVE b \in Stream(l, p, n + m)
  BY InStream
<1>3. ASSUME NEW b \in Stream(l, p, n + m), b \notin Stream(l, p, n)
      PROVE  b \in ShiftLeft(Stream(l, p + n, m), n)
  <2>1. b \in 0 .. (n + m) - 1 /\ On(l, p + b) /\ b >= n
    BY <1>3, InStream
  <2>2. b - n \in 0 .. m - 1 /\ (p + n) + (b - n) = p + b /\ b = (b - n) + n
    BY <2>1
  <2>3. b - n \in Stream(l, p + n, m)
    BY <2>1, <2>2, InStream
  <2> QED BY <2>2, <2>3 DEF ShiftLeft
<1> QED BY <1>1, <1>2, <1>3

(* A row is the stream from its first bit on.                              *)
LEMMA StreamOfRow ==
  ASSUME TypeOK, bitWidth > 0, NEW l, NEW v \in Rows
  PROVE  v * bitWidth \in Nat /\ Stream(l, v * bitWidth, bitWidth) = Val(v, l)
<1>1. bitWidth \in Nat \ {0} /\ v \in Nat
  BY Widths, Sizes
<1>2. v * bitWidth \in Nat
  BY <1>1, Multiples
<1>3. \A c \in 0 .. bitWidth - 1 : On(l, v * bitWidth + c) <=> c \in Val(v, l)
  BY BitOfRow
<1> QED BY <1>1, <1>2, <1>3, InStream, ValBits

(* Behind the last row there is nothing.                                   *)
LEMMA StreamEnd ==
  ASSUME bitWidth \in Nat, NEW l, NEW p \in Nat, NEW n \in Nat, NEW m \in Nat,
         n <= m, p + n >= 8 * bitWidth
  PROVE  Stream(l, p, m) = Stream(l, p, n)
BY InStream DEF On

LEMMA StreamBits ==
  ASSUME NEW l, NEW p \in Nat, NEW n \in Nat
  PROVE  Stream(l, p, n) \subseteq 0 .. n - 1 /\ Stream(l, p, 0) = {}
BY InStream

-----------------------------------------------------------------------------
(* What the vector kernels compute. *)

(* A row whose low bits are in word w, or its high bits.                   *)
LEMMA RowInWord ==
  ASSUME TypeOK, bitWidth > 0, NEW v \in Rows, NEW w \in Nat, NEW l,
         NEW c \in Val(v, l)
  PROVE  LET y == Layout(v)
             q == v * bitWidth + c
         IN  /\ q \in Nat /\ On(l, q) /\ c \in 0 .. bitWidth - 1
             /\ y.word = w => q = w * WordBits + (c + y.shift)
             /\ y.word = w - 1 => q = w * WordBits + (c - (WordBits - y.shift))
<1>1. bitWidth \in 1 .. WordBits /\ WordBits \in Nat \ {0} /\ c \in 0 .. bitWidth - 1
  BY Widths, Sizes, ValBits
<1>2. PICK u \in 0 .. 7, s \in 0 .. WordBits - 1 :
        u = Layout(v).word /\ s = Layout(v).shift /\ u * WordBits + s = v * bitWidth
  BY LayoutFacts DEF Begins
<1>3. v * bitWidth + c \in Nat /\ On(l, v * bitWidth + c)
  BY <1>1, BitOfRow
<1>4. u = w => u * WordBits = w * WordBits
  OBVIOUS
<1>5. u = w - 1 => u * WordBits = w * WordBits - WordBits
  <2>1. (u + 1) * WordBits = u * WordBits + WordBits /\ u * WordBits \in Nat
    BY <1>1, Multiples
  <2>2. u = w - 1 => w = u + 1
    OBVIOUS
  <2> QED BY <1>1, <2>1, <2>2
<1>6. u * WordBits \in Nat /\ w * WordBits \in Nat /\ v * bitWidth \in Nat
  BY <1>1, Multiples, Sizes
<1> QED BY <1>1, <1>2, <1>3, <1>4, <1>5, <1>6

(* A bit of row v is in the word where the row begins, or in the next.     *)
LEMMA PlaceInWord ==
  ASSUME TypeOK, bitWidth > 0, NEW v \in Rows, NEW c \in 0 .. bitWidth - 1,
         NEW w \in Nat, NEW b \in Bits, w * WordBits + b = v * bitWidth + c
  PROVE  \/ Layout(v).word = w /\ b = c + Layout(v).shift
         \/ /\ Layout(v).word = w - 1 /\ Layout(v).spans
            /\ c >= WordBits - Layout(v).shift /\ b = c - (WordBits - Layout(v).shift)
<1>1. /\ bitWidth \in 1 .. WordBits /\ WordBits \in Nat \ {0} /\ b \in 0 .. WordBits - 1
      /\ w * WordBits \in Nat
  <2>1. WordBits \in Nat \ {0} /\ b \in 0 .. WordBits - 1 /\ bitWidth \in 1 .. WordBits
    BY Widths, Sizes
  <2>2. w * WordBits \in Nat
    BY <2>1, Multiples
  <2> QED BY <2>1, <2>2
<1>2. PICK u \in 0 .. 7, s \in 0 .. WordBits - 1 :
        /\ u = Layout(v).word /\ s = Layout(v).shift /\ u * WordBits + s = v * bitWidth
        /\ Layout(v).spans <=> s + bitWidth > WordBits
  BY LayoutFacts DEF Begins
<1>3. u * WordBits + s + c = w * WordBits + b /\ u * WordBits \in Nat
  <2>1. u * WordBits \in Nat
    BY <1>1, Multiples
  <2>2. (u * WordBits + s) + c = w * WordBits + b
    BY <1>2
  <2> QED BY <2>1, <2>2
<1>4. u <= w
  <2>1. w < u => w * WordBits + WordBits <= u * WordBits
    BY <1>1, Multiples
  <2> QED BY <1>1, <1>3, <2>1
<1>5. CASE u = w
  <2>1. b = c + s
    BY <1>1, <1>3, <1>5
  <2> QED BY <1>2, <1>5, <2>1
<1>6. CASE u < w
  <2>1. u + 1 \in Nat /\ (u + 1) * WordBits = u * WordBits + WordBits
    BY <1>1, Multiples
  <2>2. u + 1 = w
    <3>1. u + 1 < w => (u + 1) * WordBits + WordBits <= w * WordBits
      BY <1>1, <2>1, Multiples
    <3> QED BY <1>1, <1>3, <1>6, <2>1, <3>1
  <2>3. w * WordBits = u * WordBits + WordBits
    BY <2>1, <2>2
  <2>4. b = c - (WordBits - s) /\ c >= WordBits - s /\ s + bitWidth > WordBits
    BY <1>1, <1>3, <2>3
  <2>5. u = w - 1 /\ Layout(v).spans
    BY <1>2, <2>2, <2>4
  <2> QED BY <1>2, <2>4, <2>5
<1> QED BY <1>4, <1>5, <1>6

LEMMA WordOfBit ==
  ASSUME TypeOK, bitWidth > 0, NEW l, NEW w \in Nat, NEW b \in Bits,
         On(l, w * WordBits + b)
  PROVE  \E v \in Rows : \E c \in Val(v, l) :
           \/ Layout(v).word = w /\ b = c + Layout(v).shift
           \/ /\ Layout(v).word = w - 1 /\ Layout(v).spans
              /\ c >= WordBits - Layout(v).shift /\ b = c - (WordBits - Layout(v).shift)
<1>1. w * WordBits + b \in Nat
  <2>1. WordBits \in Nat \ {0} /\ b \in 0 .. WordBits - 1
    BY Sizes
  <2>2. w * WordBits \in Nat
    BY <2>1, Multiples
  <2> QED BY <2>1, <2>2
<1>2. PICK v \in Rows : \E c \in Val(v, l) :
        c \in 0 .. bitWidth - 1 /\ w * WordBits + b = v * bitWidth + c
  BY <1>1, RowOfBit
<1>3. PICK c \in Val(v, l) : c \in 0 .. bitWidth - 1 /\ w * WordBits + b = v * bitWidth + c
  BY <1>2
<1> QED BY <1>3, PlaceInWord

(* The bits of word w that row v sets.                                     *)
LEMMA RowBits ==
  ASSUME TypeOK, bitWidth > 0, NEW l, NEW v \in Rows, NEW w \in Nat, NEW b \in Bits
  PROVE  /\ On(l, w * WordBits + b)
         /\ v * bitWidth <= w * WordBits + b /\ w * WordBits + b < (v + 1) * bitWidth
         <=>
         \E c \in Val(v, l) :
           \/ Layout(v).word = w /\ b = c + Layout(v).shift
           \/ /\ Layout(v).word = w - 1 /\ Layout(v).spans
              /\ c >= WordBits - Layout(v).shift /\ b = c - (WordBits - Layout(v).shift)
<1> DEFINE q == w * WordBits + b
<1> DEFINE p == v * bitWidth
<1>1. bitWidth \in Nat \ {0} /\ WordBits \in Nat \ {0} /\ b \in Nat /\ v \in Nat
  BY Widths, Sizes
<1>2. q \in Nat /\ p \in Nat /\ (v + 1) * bitWidth = p + bitWidth
  <2>1. w * WordBits \in Nat
    BY <1>1, Multiples
  <2>2. v * bitWidth \in Nat /\ (v + 1) * bitWidth = v * bitWidth + bitWidth
    BY <1>1, Multiples
  <2> QED BY <1>1, <2>1, <2>2
<1>3. ASSUME On(l, q), p <= q, q < p + bitWidth
      PROVE  \E c \in Val(v, l) :
               \/ Layout(v).word = w /\ b = c + Layout(v).shift
               \/ /\ Layout(v).word = w - 1 /\ Layout(v).spans
                  /\ c >= WordBits - Layout(v).shift /\ b = c - (WordBits - Layout(v).shift)
  <2> HIDE DEF q, p
  <2>1. PICK c \in 0 .. bitWidth - 1 : q = p + c
    <3>1. q - p \in 0 .. bitWidth - 1 /\ q = p + (q - p)
      BY <1>1, <1>2, <1>3
    <3> QED BY <3>1
  <2>2. c \in Val(v, l)
    BY <1>3, <2>1, BitOfRow DEF p
  <2>3. w * WordBits + b = v * bitWidth + c
    BY <2>1 DEF p, q
  <2> QED BY <2>2, <2>3, PlaceInWord
<1>4. ASSUME NEW c \in Val(v, l),
             \/ Layout(v).word = w /\ b = c + Layout(v).shift
             \/ /\ Layout(v).word = w - 1 /\ Layout(v).spans
                /\ c >= WordBits - Layout(v).shift /\ b = c - (WordBits - Layout(v).shift)
      PROVE  On(l, q) /\ p <= q /\ q < p + bitWidth
  <2>1. q = p + c /\ On(l, p + c) /\ c \in 0 .. bitWidth - 1
    BY <1>4, RowInWord
  <2> HIDE DEF q, p
  <2> QED BY <1>1, <1>2, <2>1
<1> QED BY <1>2, <1>3, <1>4

(* The register that is stored as word w is that word of the stream.       *)
LEMMA AccumulatedWord ==
  ASSUME TypeOK, bitWidth > 0, NEW l, NEW w \in Nat
  PROVE  Accumulated(w, l) = Stream(l, w * WordBits, WordBits)
<1>1. /\ bitWidth \in 1 .. WordBits /\ WordBits \in Nat \ {0} /\ Bits = 0 .. WordBits - 1
      /\ w * WordBits \in Nat
  BY Widths, Sizes, Multiples
<1>2. ASSUME NEW v \in valuesOf(w), NEW b \in ShiftAllLeft(Val(v, l), Layout(v).shift)
      PROVE  b \in Stream(l, w * WordBits, WordBits)
  <2>1. v \in Rows /\ Layout(v).word = w
    BY DEF valuesOf
  <2>2. PICK c \in Val(v, l) : b = c + Layout(v).shift /\ b \in Bits
    BY DEF ShiftAllLeft, LowWord, ShiftLeft
  <2>3. On(l, w * WordBits + b)
    BY <2>1, <2>2, RowInWord
  <2> QED BY <1>1, <2>2, <2>3, InStream
<1>3. ASSUME NEW v \in spanningIn(w - 1), NEW b \in ShiftRight(Val(v, l), WordBits - Layout(v).shift)
      PROVE  b \in Stream(l, w * WordBits, WordBits)
  <2>1. v \in Rows /\ Layout(v).word = w - 1
    BY DEF spanningIn, valuesOf
  <2>2. PICK c \in Val(v, l) : c >= WordBits - Layout(v).shift /\ b = c - (WordBits - Layout(v).shift)
    BY DEF ShiftRight
  <2>3. On(l, w * WordBits + b) /\ c \in 0 .. bitWidth - 1
    BY <2>1, <2>2, RowInWord
  <2>4. Layout(v).shift \in 0 .. WordBits - 1
    BY <2>1, LayoutFacts DEF Begins
  <2>5. b \in 0 .. WordBits - 1
    BY <1>1, <2>2, <2>3, <2>4
  <2> QED BY <1>1, <2>3, <2>5, InStream
<1>4. ASSUME NEW b \in Stream(l, w * WordBits, WordBits) PROVE b \in Accumulated(w, l)
  <2>1. b \in Bits /\ On(l, w * WordBits + b)
    BY <1>1, InStream
  <2>2. PICK v \in Rows : \E c \in Val(v, l) :
          \/ Layout(v).word = w /\ b = c + Layout(v).shift
          \/ /\ Layout(v).word = w - 1 /\ Layout(v).spans
             /\ c >= WordBits - Layout(v).shift /\ b = c - (WordBits - Layout(v).shift)
    BY <2>1, WordOfBit
  <2>3. CASE v \in valuesOf(w) /\ b \in ShiftAllLeft(Val(v, l), Layout(v).shift)
    BY <2>3 DEF Accumulated
  <2>4. CASE v \in spanningIn(w - 1) /\ b \in ShiftRight(Val(v, l), WordBits - Layout(v).shift)
    BY <2>4 DEF Accumulated
  <2>5. ASSUME NEW c \in Val(v, l), Layout(v).word = w, b = c + Layout(v).shift
        PROVE  v \in valuesOf(w) /\ b \in ShiftAllLeft(Val(v, l), Layout(v).shift)
    BY <2>1, <2>5 DEF valuesOf, ShiftAllLeft, LowWord, ShiftLeft
  <2>6. ASSUME NEW c \in Val(v, l), Layout(v).word = w - 1, Layout(v).spans,
               c >= WordBits - Layout(v).shift, b = c - (WordBits - Layout(v).shift)
        PROVE  v \in spanningIn(w - 1) /\ b \in ShiftRight(Val(v, l), WordBits - Layout(v).shift)
    BY <2>6 DEF spanningIn, valuesOf, ShiftRight
  <2> QED BY <2>2, <2>3, <2>4, <2>5, <2>6
<1>5. ASSUME NEW b \in Accumulated(w, l) PROVE b \in Stream(l, w * WordBits, WordBits)
  BY <1>2, <1>3, <1>5 DEF Accumulated
<1> QED BY <1>4, <1>5

(* The payload holds the streams. *)
Canonical ==
  \A w \in 0 .. PayloadWords - 1, l \in Lanes : payload[w][l] = Stream(l, w * WordBits, WordBits)

(* A bit of the payload, seen from the beginning of row v.                 *)
LEMMA BitInPayload ==
  ASSUME TypeOK, bitWidth > 0, Canonical, NEW l \in Lanes, NEW v \in Rows,
         NEW u \in Nat, NEW s \in 0 .. WordBits - 1, u * WordBits + s = v * bitWidth,
         NEW b \in 0 .. bitWidth - 1
  PROVE  /\ u < PayloadWords /\ s + b < WordBits => (b + s \in payload[u][l] <=> b \in Val(v, l))
         /\ u + 1 < PayloadWords /\ s + b >= WordBits =>
              (b + s - WordBits \in payload[u + 1][l] <=> b \in Val(v, l))
<1>1. bitWidth \in 1 .. WordBits /\ WordBits \in Nat \ {0} /\ PayloadWords \in 0 .. 8
  BY Widths, Sizes, PayloadSize
<1>2. On(l, v * bitWidth + b) <=> b \in Val(v, l)
  BY BitOfRow
<1>3. u * WordBits \in Nat /\ (u + 1) * WordBits = u * WordBits + WordBits /\ (u + 1) * WordBits \in Nat
  BY <1>1, Multiples
<1>4. ASSUME u < PayloadWords, s + b < WordBits PROVE b + s \in payload[u][l] <=> b \in Val(v, l)
  <2>1. payload[u][l] = Stream(l, u * WordBits, WordBits)
    BY <1>1, <1>4 DEF Canonical
  <2>2. b + s \in 0 .. WordBits - 1 /\ u * WordBits + (b + s) = v * bitWidth + b
    BY <1>1, <1>3, <1>4
  <2> QED BY <1>1, <1>2, <1>3, <2>1, <2>2, InStream
<1>5. ASSUME u + 1 < PayloadWords, s + b >= WordBits
      PROVE  b + s - WordBits \in payload[u + 1][l] <=> b \in Val(v, l)
  <2>1. payload[u + 1][l] = Stream(l, (u + 1) * WordBits, WordBits)
    BY <1>1, <1>5 DEF Canonical
  <2>2. b + s - WordBits \in 0 .. WordBits - 1 /\ (u + 1) * WordBits + (b + s - WordBits) = v * bitWidth + b
    BY <1>1, <1>3, <1>5
  <2> QED BY <1>1, <1>2, <1>3, <2>1, <2>2, InStream
<1> QED BY <1>4, <1>5

(* Every row is extracted from the word, or the two words, where it is.    *)
LEMMA ExtractedRow ==
  ASSUME TypeOK, bitWidth > 0, Canonical, NEW l \in Lanes, NEW v \in Rows
  PROVE  Extracted(v, l) = Val(v, l)
<1>1. bitWidth \in 1 .. WordBits /\ WordBits \in Nat \ {0} /\ Bits = 0 .. WordBits - 1 /\ PayloadWords \in 0 .. 8
  BY Widths, Sizes, PayloadSize
<1>2. PICK u \in 0 .. 7, s \in 0 .. WordBits - 1 :
        /\ u = Layout(v).word /\ s = Layout(v).shift /\ u * WordBits + s = v * bitWidth
        /\ Layout(v).spans <=> s + bitWidth > WordBits
  BY LayoutFacts DEF Begins
<1>3. u < PayloadWords /\ (Layout(v).spans => u + 1 < PayloadWords)
  BY <1>2, LayoutFacts
<1> DEFINE here == ShiftRight(payload[u][l], s) \cap Mask(bitWidth)
<1> DEFINE next == ShiftAllLeft(payload[u + 1][l], WordBits - s) \cap Mask(bitWidth)
<1>4. Extracted(v, l) = IF Layout(v).spans THEN here \cup next ELSE here
  BY <1>2 DEF Extracted
<1>5. payload[u][l] \subseteq 0 .. WordBits - 1 /\ (u + 1 < PayloadWords => payload[u + 1][l] \subseteq 0 .. WordBits - 1)
  <2>1. \A w \in LaneWords : payload[w][l] \subseteq Bits
    BY DEF TypeOK
  <2>2. u \in LaneWords /\ (u + 1 < PayloadWords => u + 1 \in LaneWords)
    BY <1>1, Sizes
  <2> QED BY <1>1, <2>1, <2>2
<1>6. ASSUME NEW b PROVE b \in here <=> b \in 0 .. bitWidth - 1 /\ s + b < WordBits /\ b \in Val(v, l)
  <2>1. b \in here <=> b \in 0 .. bitWidth - 1 /\ b + s \in payload[u][l]
    <3>1. b \in here => b \in 0 .. bitWidth - 1 /\ b + s \in payload[u][l]
      <4>1. ASSUME NEW c \in payload[u][l], c >= s, b = c - s PROVE b + s = c
        BY <1>5, <4>1
      <4> QED BY <4>1 DEF ShiftRight, Mask
    <3>2. ASSUME b \in 0 .. bitWidth - 1, b + s \in payload[u][l] PROVE b \in here
      <4>1. b + s >= s /\ b = (b + s) - s
        BY <1>1, <3>2
      <4> QED BY <3>2, <4>1 DEF ShiftRight, Mask
    <3> QED BY <3>1, <3>2
  <2>2. b \in 0 .. bitWidth - 1 /\ s + b < WordBits => (b + s \in payload[u][l] <=> b \in Val(v, l))
    BY <1>2, <1>3, BitInPayload
  <2>3. b \in 0 .. bitWidth - 1 /\ b + s \in payload[u][l] => s + b < WordBits
    BY <1>1, <1>5
  <2> QED BY <2>1, <2>2, <2>3
<1>7. ASSUME NEW b, Layout(v).spans
      PROVE  b \in next <=> b \in 0 .. bitWidth - 1 /\ s + b >= WordBits /\ b \in Val(v, l)
  <2>1. b \in next <=> b \in 0 .. bitWidth - 1 /\ b + s - WordBits \in payload[u + 1][l]
    <3>1. ASSUME b \in next PROVE b \in 0 .. bitWidth - 1 /\ b + s - WordBits \in payload[u + 1][l]
      <4>1. b \in 0 .. bitWidth - 1
        BY <3>1 DEF Mask
      <4>2. PICK c \in payload[u + 1][l] : b = c + (WordBits - s)
        BY <3>1 DEF ShiftAllLeft, LowWord, ShiftLeft
      <4>3. b + s - WordBits = c
        BY <1>1, <1>3, <1>5, <1>7, <4>2
      <4> QED BY <4>1, <4>3
    <3>2. ASSUME b \in 0 .. bitWidth - 1, b + s - WordBits \in payload[u + 1][l] PROVE b \in next
      <4>1. b = (b + s - WordBits) + (WordBits - s) /\ b \in Bits
        BY <1>1, <3>2
      <4> QED BY <3>2, <4>1 DEF ShiftAllLeft, LowWord, ShiftLeft, Mask
    <3> QED BY <3>1, <3>2
  <2>2. b \in 0 .. bitWidth - 1 /\ s + b >= WordBits =>
          (b + s - WordBits \in payload[u + 1][l] <=> b \in Val(v, l))
    BY <1>2, <1>3, <1>7, BitInPayload
  <2>3. b \in 0 .. bitWidth - 1 /\ b + s - WordBits \in payload[u + 1][l] => s + b >= WordBits
    BY <1>1, <1>3, <1>5, <1>7
  <2> QED BY <2>1, <2>2, <2>3
<1> HIDE DEF here, next
<1>8. Val(v, l) \subseteq 0 .. bitWidth - 1
  BY ValBits
<1>9. CASE Layout(v).spans
  <2>1. \A b \in 0 .. bitWidth - 1 : s + b < WordBits \/ s + b >= WordBits
    BY <1>1
  <2>2. \A b : b \in here \cup next <=> b \in Val(v, l)
    BY <1>6, <1>7, <1>8, <1>9, <2>1
  <2> QED BY <1>4, <1>9, <2>2
<1>10. CASE ~Layout(v).spans
  <2>1. \A b \in 0 .. bitWidth - 1 : s + b < WordBits
    BY <1>1, <1>2, <1>10
  <2>2. \A b : b \in here <=> b \in Val(v, l)
    BY <1>6, <1>8, <2>1
  <2> QED BY <1>4, <1>10, <2>2
<1> QED BY <1>9, <1>10

(* A single value is found in the same bits, from any position.            *)
LEMMA ExtractedValue ==
  ASSUME TypeOK, Canonical, NEW pos \in Pos
  PROVE  extractPackedValueUTL(pos) = Val(pos \div LaneCount, pos % LaneCount)
<1> DEFINE v == pos \div LaneCount
<1> DEFINE l == pos % LaneCount
<1>1. v \in Rows /\ l \in Lanes
  BY PlaceOfPosition
<1> HIDE DEF v, l
<1>2. CASE bitWidth = 0
  <2>1. Mask(bitWidth) = {}
    BY <1>2 DEF Mask
  <2>2. extractPackedValueUTL(pos) = {}
    BY <2>1 DEF extractPackedValueUTL
  <2>3. Val(v, l) = {}
    BY <2>1 DEF Val
  <2> QED BY <2>2, <2>3 DEF v, l
<1>3. CASE bitWidth > 0
  <2>1. bitWidth \in 1 .. WordBits /\ WordBits \in Nat \ {0} /\ PayloadWords \in 0 .. 8 /\ v \in 0 .. 7
    BY <1>1, <1>3, Widths, Sizes, PayloadSize
  <2> DEFINE y == computeLayout(v)
  <2>2. Begins(y, v)
    BY <1>1, <2>1, GenericLayout
  <2>3. y.word < PayloadWords /\ (y.shift + bitWidth > WordBits => y.word + 1 < PayloadWords)
    BY <1>1, <2>1, <2>2, BeginsInside
  <2>4. y.word = (v * bitWidth) \div WordBits /\ y.shift = (v * bitWidth) % WordBits
    BY DEF computeLayout
  <2> HIDE DEF y
  <2>5. PICK u \in 0 .. 7, s \in 0 .. WordBits - 1 :
          u = y.word /\ s = y.shift /\ u * WordBits + s = v * bitWidth
    BY <2>2 DEF Begins
  <2> DEFINE both == payload[u][l] \cup IF bitWidth > WordBits - s
                                        THEN ShiftLeft(payload[u + 1][l], WordBits) ELSE {}
  <2>6. u < PayloadWords /\ (bitWidth > WordBits - s => u + 1 < PayloadWords)
    BY <2>1, <2>3, <2>5
  <2>7. extractPackedValueUTL(pos) = ShiftRight(both, s) \cap Mask(bitWidth)
    BY <2>4, <2>5, <2>6 DEF extractPackedValueUTL, v, l
  <2>8. payload[u][l] \subseteq 0 .. WordBits - 1
        /\ (u + 1 < PayloadWords => payload[u + 1][l] \subseteq 0 .. WordBits - 1)
    <3>1. \A w \in LaneWords : payload[w][l] \subseteq Bits
      BY <1>1 DEF TypeOK
    <3>2. u \in LaneWords /\ (u + 1 < PayloadWords => u + 1 \in LaneWords)
      BY <2>1, Sizes
    <3> QED BY <2>6, <3>1, <3>2, Sizes
  <2>9. \A c \in both : c \in Nat
    <3>1. bitWidth > WordBits - s => ShiftLeft(payload[u + 1][l], WordBits) \subseteq Nat
      BY <2>1, <2>6, <2>8 DEF ShiftLeft
    <3> QED BY <2>1, <2>8, <3>1
  <2>10. ASSUME NEW b \in 0 .. bitWidth - 1
         PROVE  /\ b + s \in payload[u][l] <=> s + b < WordBits /\ b \in Val(v, l)
                /\ bitWidth > WordBits - s =>
                     (b + s \in ShiftLeft(payload[u + 1][l], WordBits) <=> s + b >= WordBits /\ b \in Val(v, l))
    <3>1. b + s \in payload[u][l] <=> s + b < WordBits /\ b \in Val(v, l)
      <4>1. s + b < WordBits => (b + s \in payload[u][l] <=> b \in Val(v, l))
        BY <1>1, <1>3, <2>5, <2>6, BitInPayload
      <4> QED BY <2>1, <2>8, <4>1
    <3>2. ASSUME bitWidth > WordBits - s
          PROVE  b + s \in ShiftLeft(payload[u + 1][l], WordBits) <=> s + b >= WordBits /\ b \in Val(v, l)
      <4>1. s + b >= WordBits => (b + s - WordBits \in payload[u + 1][l] <=> b \in Val(v, l))
        BY <1>1, <1>3, <2>5, <2>6, <3>2, BitInPayload
      <4>2. b + s \in ShiftLeft(payload[u + 1][l], WordBits) <=> b + s - WordBits \in payload[u + 1][l]
        <5>1. ASSUME NEW c \in payload[u + 1][l] PROVE b + s = c + WordBits <=> b + s - WordBits = c
          BY <2>1, <2>6, <2>8, <3>2
        <5> QED BY <5>1 DEF ShiftLeft
      <4>3. b + s - WordBits \in payload[u + 1][l] => s + b >= WordBits
        BY <2>1, <2>6, <2>8, <3>2
      <4> QED BY <4>1, <4>2, <4>3
    <3> QED BY <3>1, <3>2
  <2>11. ASSUME NEW b \in 0 .. bitWidth - 1 PROVE b + s \in both <=> b \in Val(v, l)
    <3>1. bitWidth > WordBits - s \/ s + b < WordBits
      BY <2>1
    <3>2. s + b < WordBits \/ s + b >= WordBits
      BY <2>1
    <3> QED BY <2>10, <3>1, <3>2
  <2>12. ASSUME NEW b PROVE b \in ShiftRight(both, s) \cap Mask(bitWidth) <=> b \in 0 .. bitWidth - 1 /\ b + s \in both
    <3> HIDE DEF both
    <3>1. ASSUME NEW c \in both, c >= s, b = c - s PROVE b + s = c
      BY <2>9, <3>1
    <3>2. b \in 0 .. bitWidth - 1 => b + s >= s /\ b = (b + s) - s
      BY <2>1
    <3> QED BY <3>1, <3>2 DEF ShiftRight, Mask
  <2> HIDE DEF both
  <2>13. Val(v, l) \subseteq 0 .. bitWidth - 1
    BY ValBits
  <2>14. ShiftRight(both, s) \cap Mask(bitWidth) = Val(v, l)
    BY <2>11, <2>12, <2>13
  <2> QED BY <2>7, <2>14 DEF v, l
<1> QED BY <1>2, <1>3, Widths, Sizes

-----------------------------------------------------------------------------
(* Words, and groups of lanes. *)

(* In every word of an unrolled kernel's payload a row begins, and none    *)
(* spans out of the last: the kernel loads and stores exactly these.       *)
LEMMA StepWords ==
  ASSUME TypeOK, Unrolled
  PROVE  wordGroups = 0 .. PayloadWords - 1 /\ storedWords = 0 .. PayloadWords - 1
<1>1. PICK k \in 1 .. 8 : k = PayloadWords /\ bitWidth = k * StepBits
  BY UnrolledWidth
<1>2. StepBits \in Nat \ {0} /\ WordBits = 8 * StepBits /\ Rows = 0 .. 7 /\ bitWidth > 0
  BY <1>1, UnrolledWidth, Sizes
<1>3. ASSUME NEW v \in Rows
      PROVE  /\ Layout(v).word \in 0 .. k - 1
             /\ Layout(v).spans => Layout(v).word + 1 \in 0 .. k - 1
  <2>1. Begins(Layout(v), v) /\ Layout(v).word < k /\ (Layout(v).spans => Layout(v).word + 1 < k)
    BY <1>1, <1>2, LayoutFacts
  <2>2. Layout(v).word \in 0 .. 7
    BY <2>1 DEF Begins
  <2> QED BY <2>1, <2>2
<1>4. ASSUME NEW w \in 0 .. k - 1 PROVE \E v \in Rows : Layout(v).word = w
  <2>1. PICK v \in 0 .. 7 : 8 * w <= v * k /\ v * k < 8 * w + 8
    <3> DEFINE u == (8 * w + k - 1) \div k
    <3> DEFINE e == (8 * w + k - 1) % k
    <3>1. u \in Nat /\ e \in 0 .. k - 1 /\ 8 * w + k - 1 = u * k + e
      <4>1. 8 * w + k - 1 \in Nat /\ k \in Nat \ {0}
        OBVIOUS
      <4> QED BY <4>1, Quotient
    <3> HIDE DEF u, e
    <3>2. u * k \in Nat /\ 8 * w <= u * k /\ u * k < 8 * w + k
      BY <3>1
    <3>3. 7 < u => 7 * k + k <= u * k
      BY <3>1, Multiples
    <3>4. u <= 7
      BY <3>1, <3>2, <3>3
    <3> QED BY <3>1, <3>2, <3>4
  <2>2. PICK u \in 0 .. 7, s \in 0 .. WordBits - 1 :
          u = Layout(v).word /\ s = Layout(v).shift /\ u * WordBits + s = v * bitWidth
    BY <1>2, LayoutFacts DEF Begins
  <2>3. v * bitWidth = (v * k) * StepBits /\ w * WordBits = (8 * w) * StepBits
    BY <1>1, <1>2
  <2>4. (8 * w) * StepBits <= (v * k) * StepBits
    BY <1>2, <2>1, Multiples
  <2>5. (v * k) * StepBits + StepBits <= (8 * w + 8) * StepBits
    BY <1>2, <2>1, Multiples
  <2>6. (8 * w + 8) * StepBits = w * WordBits + WordBits
    BY <1>2
  <2>7. w * WordBits <= u * WordBits + s /\ u * WordBits + s < w * WordBits + WordBits
    <3> DEFINE a == v * bitWidth
    <3> DEFINE b == w * WordBits
    <3>1. b <= a /\ a + StepBits <= b + WordBits /\ u * WordBits + s = a
      BY <2>2, <2>3, <2>4, <2>5, <2>6
    <3>2. a \in Nat /\ b \in Nat
      BY <1>2, <2>3, <1>1, Multiples
    <3> HIDE DEF a, b
    <3> QED BY <1>2, <3>1, <3>2 DEF a, b
  <2>8. u < w => u * WordBits + WordBits <= w * WordBits
    BY <1>2, Multiples
  <2>9. w < u => w * WordBits + WordBits <= u * WordBits
    BY <1>2, Multiples
  <2>10. u * WordBits \in Nat /\ w * WordBits \in Nat
    BY <1>2, Multiples
  <2>11. u = w
    BY <1>2, <2>7, <2>8, <2>9, <2>10
  <2> QED BY <1>2, <2>2, <2>11
<1>5. wordGroups = 0 .. k - 1
  BY <1>3, <1>4 DEF wordGroups
<1>6. ASSUME NEW u \in wordGroups, spanningIn(u) # {} PROVE u + 1 \in 0 .. k - 1
  <2>1. PICK v \in Rows : Layout(v).word = u /\ Layout(v).spans
    BY <1>6 DEF spanningIn, valuesOf
  <2> QED BY <1>3, <2>1
<1>7. storedWords = 0 .. k - 1
  BY <1>5, <1>6 DEF storedWords
<1> QED BY <1>1, <1>5, <1>7

(* The pairs, or the vectors, share out the lanes.                         *)
LEMMA LaneGroups ==
  ASSUME TypeOK
  PROVE  /\ Groups \in 1 .. LaneCount
         /\ \A g \in 0 .. Groups - 1 : LanesOf(g) \subseteq Lanes
         /\ \A l \in Lanes : \E g \in 0 .. Groups - 1 : l \in LanesOf(g)
         /\ \A g \in Nat, h \in Nat, l \in Lanes : l \in LanesOf(g) /\ l \in LanesOf(h) => g = h
<1>1. LaneCount \in Nat \ {0} /\ LaneCount % 4 = 0 /\ Lanes = 0 .. LaneCount - 1
  BY Sizes
<1>2. PICK n \in Nat \ {0} : /\ Groups \in 1 .. LaneCount /\ Groups * n = LaneCount
                             /\ \A g \in Nat : LanesOf(g) = g * n .. g * n + n - 1
  <2>1. CASE Scalar
    <3>1. Groups = LaneCount \div 2 /\ \A g \in Nat : LanesOf(g) = {2 * g, 2 * g + 1}
      BY <2>1 DEF Groups, LanesOf, Pair
    <3>2. Groups \in 1 .. LaneCount /\ Groups * 2 = LaneCount
      BY <1>1, <3>1
    <3>3. \A g \in Nat : LanesOf(g) = g * 2 .. g * 2 + 2 - 1
      <4>1. \A g \in Nat : {2 * g, 2 * g + 1} = g * 2 .. g * 2 + 2 - 1
        OBVIOUS
      <4> QED BY <3>1, <4>1, Zenon
    <3>4. 2 \in Nat \ {0}
      OBVIOUS
    <3> QED BY <3>2, <3>3, <3>4, Zenon
  <2>2. CASE ~Scalar
    <3>1. level \in {"sse2", "avx2", "avx512"}
      BY <2>2, KernelAssumption DEF TypeOK, Scalar
    <3>2. Groups = Vectors(level) /\ Groups \in {1, 2, 4}
      BY <2>2, <3>1 DEF Groups, Vectors
    <3>3. \A g \in Nat : LanesOf(g) = g * (LaneCount \div Groups) .. g * (LaneCount \div Groups) + (LaneCount \div Groups) - 1
      BY <2>2, <3>2 DEF LanesOf, VectorLanes
    <3>4. LaneCount \div Groups \in Nat \ {0} /\ Groups * (LaneCount \div Groups) = LaneCount /\ Groups <= LaneCount
      <4>1. CASE Groups = 1
        BY <1>1, <4>1
      <4>2. CASE Groups = 2
        BY <1>1, <4>2
      <4>3. CASE Groups = 4
        BY <1>1, <4>3
      <4> QED BY <3>2, <4>1, <4>2, <4>3
    <3> HIDE DEF Groups
    <3>5. Groups \in 1 .. LaneCount
      BY <1>1, <3>2, <3>4
    <3> QED BY <3>3, <3>4, <3>5, Zenon
  <2> QED BY <2>1, <2>2
<1>3. ASSUME NEW g \in 0 .. Groups - 1 PROVE LanesOf(g) \subseteq Lanes
  <2>1. g * n + n <= Groups * n /\ g * n \in Nat
    BY <1>2, Multiples
  <2>2. LanesOf(g) = g * n .. g * n + n - 1 /\ Groups * n = LaneCount
    BY <1>2
  <2>3. g * n + n - 1 <= LaneCount - 1
    BY <1>1, <2>1, <2>2
  <2> QED BY <1>1, <2>1, <2>2, <2>3
<1>4. ASSUME NEW l \in Lanes PROVE \E g \in 0 .. Groups - 1 : l \in LanesOf(g)
  <2> DEFINE g == l \div n
  <2>1. l \in Nat
    BY <1>1
  <2>2. g \in Nat /\ l % n \in 0 .. n - 1 /\ l = g * n + (l % n)
    BY <2>1, Quotient
  <2> HIDE DEF g
  <2>3. g * n \in Nat
    BY <2>2, Multiples
  <2>4. Groups <= g => Groups * n <= g * n
    BY <1>2, <2>2, Multiples
  <2>5. Groups * n = LaneCount /\ Groups \in Nat
    BY <1>2
  <2>6. g < Groups
    BY <1>1, <2>2, <2>3, <2>4, <2>5
  <2>7. l \in g * n .. g * n + n - 1
    BY <2>1, <2>2, <2>3
  <2>8. l \in LanesOf(g)
    BY <1>2, <2>2, <2>7, Zenon
  <2>9. g \in 0 .. Groups - 1
    BY <2>2, <2>5, <2>6
  <2> QED BY <2>8, <2>9
<1>5. ASSUME NEW g \in Nat, NEW h \in Nat, NEW l \in Lanes, l \in LanesOf(g), l \in LanesOf(h)
      PROVE  g = h
  <2>1. g < h => g * n + n <= h * n
    BY <1>2, Multiples
  <2>2. h < g => h * n + n <= g * n
    BY <1>2, Multiples
  <2>3. l \in g * n .. g * n + n - 1 /\ l \in h * n .. h * n + n - 1
    BY <1>2, <1>5
  <2>4. g * n \in Nat /\ h * n \in Nat
    BY <1>2, Multiples
  <2> QED BY <1>1, <2>1, <2>2, <2>3, <2>4
<1> QED BY <1>2, <1>3, <1>4, <1>5

(* Which lanes are finished: none of the next group, all after the last.   *)
LEMMA FinishedLanes ==
  ASSUME TypeOK, group \in 0 .. Groups
  PROVE  /\ \A l \in Lanes : Finished(l) => l \notin LanesOf(group)
         /\ \A l \in Lanes : (\E g \in 0 .. group : l \in LanesOf(g)) <=> Finished(l) \/ l \in LanesOf(group)
         /\ group = Groups => \A l \in Lanes : Finished(l)
         /\ group = 0 => \A l : ~Finished(l)
<1>1. Groups \in Nat /\ group \in Nat
  BY LaneGroups
<1>2. \A l \in Lanes : Finished(l) => l \notin LanesOf(group)
  <2> SUFFICES ASSUME NEW l \in Lanes, NEW g \in 0 .. group - 1, l \in LanesOf(g), l \in LanesOf(group)
               PROVE  FALSE
    BY DEF Finished
  <2>1. g \in Nat /\ g # group
    BY <1>1
  <2> QED BY <1>1, <2>1, LaneGroups
<1>3. 0 .. group = (0 .. group - 1) \cup {group}
  BY <1>1
<1>4. \A l \in Lanes : (\E g \in 0 .. group : l \in LanesOf(g)) <=> Finished(l) \/ l \in LanesOf(group)
  BY <1>3 DEF Finished
<1>5. group = Groups => \A l \in Lanes : Finished(l)
  BY LaneGroups DEF Finished
<1>6. group = 0 => \A l : ~Finished(l)
  BY DEF Finished
<1> QED BY <1>2, <1>4, <1>5, <1>6

(* What depends on the slice and its width only, and on the level.         *)
LEMMA SameSlice ==
  ASSUME UNCHANGED <<bitWidth, input>>
  PROVE  /\ \A v, l : Val(v, l)' = Val(v, l)
         /\ \A l, p, n : Stream(l, p, n)' = Stream(l, p, n)
         /\ PayloadWords' = PayloadWords
         /\ \A v : computeLayout(v)' = computeLayout(v)
<1>1. \A v, l : Val(v, l)' = Val(v, l)
  BY DEF Val, Mask
<1>2. \A l, p, n : Stream(l, p, n)' = Stream(l, p, n)
  BY <1>1 DEF Stream
<1>3. PayloadWords' = PayloadWords /\ \A v : computeLayout(v)' = computeLayout(v)
  BY DEF PayloadWords, computeLayout
<1> QED BY <1>1, <1>2, <1>3

LEMMA SameKernel ==
  ASSUME UNCHANGED <<level, bitWidth, input>>
  PROVE  /\ (Unrolled' <=> Unrolled) /\ (Scalar' <=> Scalar) /\ (Generic' <=> Generic)
         /\ Groups' = Groups
         /\ \A g : LanesOf(g)' = LanesOf(g)
         /\ \A v : Layout(v)' = Layout(v)
<1>1. (Unrolled' <=> Unrolled) /\ (Scalar' <=> Scalar)
  BY DEF Unrolled, Scalar
<1>2. Generic' <=> Generic
  BY <1>1 DEF Generic
<1>3. Groups' = Groups /\ \A g : LanesOf(g)' = LanesOf(g)
  BY <1>1 DEF Groups, LanesOf
<1>4. \A v : Layout(v)' = Layout(v)
  BY <1>1, SameSlice DEF Layout, kernel
<1> QED BY <1>1, <1>2, <1>3, <1>4

-----------------------------------------------------------------------------
(* The initial states, and the steps. *)

Memory == [LaneWords -> [Lanes -> SUBSET Bits]]

(* A store of some lanes of a superword.                                   *)
LEMMA WithLanes ==
  ASSUME NEW mem \in Memory, NEW w \in LaneWords, NEW vec, DOMAIN vec \subseteq Lanes,
         \A l \in DOMAIN vec : vec[l] \subseteq Bits
  PROVE  /\ With(mem, w, vec) \in Memory
         /\ \A u \in LaneWords, l \in Lanes :
              With(mem, w, vec)[u][l] = IF u = w /\ l \in DOMAIN vec THEN vec[l] ELSE mem[u][l]
BY DEF With, Memory

LEMMA WithSuperword ==
  ASSUME NEW mem \in Memory, NEW w \in LaneWords, NEW vec \in [Lanes -> SUBSET Bits]
  PROVE  /\ With(mem, w, vec) \in Memory
         /\ \A u \in LaneWords, l \in Lanes :
              With(mem, w, vec)[u][l] = IF u = w THEN vec[l] ELSE mem[u][l]
<1>1. DOMAIN vec \subseteq Lanes /\ \A l \in DOMAIN vec : vec[l] \subseteq Bits
  OBVIOUS
<1> QED BY <1>1, WithLanes

LEMMA KernelInit == Init => KernelInv
<1> SUFFICES ASSUME Init PROVE KernelInv
  OBVIOUS
<1>1. pc = "start" /\ group = 0 /\ row = 0 /\ acc = NoBits /\ bitsInAcc = 0 /\ wordIdx = 0
  BY DEF Init
<1>2. TypeOK
  <2>1. PICK old \in Stale : /\ payload = [w \in LaneWords |-> [l \in Lanes |-> old]]
                             /\ dst = [i \in Pos |-> old]
    BY DEF Init
  <2>2. old \subseteq Bits
    BY KernelAssumption
  <2>3. payload \in [LaneWords -> [Lanes -> SUBSET Bits]] /\ dst \in [Pos -> SUBSET Bits]
    BY <2>1, <2>2
  <2>4. level \in Levels /\ bitWidth \in BitWidths /\ input \in Inputs
    BY DEF Init
  <2>5. /\ group \in 0 .. LaneCount /\ row \in 0 .. utlValuesPerLane
        /\ bitsInAcc \in 0 .. WordBits /\ wordIdx \in LaneWords
    BY <1>1, Sizes
  <2>6. \A l \in Lanes : acc[l] \subseteq 0 .. 2 * WordBits - 1
    BY <1>1 DEF NoBits
  <2> QED BY <1>1, <2>3, <2>4, <2>5, <2>6 DEF TypeOK
<1>3. LoopInv
  BY <1>1, <1>2, LaneGroups DEF LoopInv
<1>4. PackInv /\ PayloadCanonical /\ AccumulatorHoldsStream /\ UnpackInv
  BY <1>1 DEF PackInv, PayloadCanonical, AccumulatorHoldsStream, UnpackInv
<1> QED BY <1>2, <1>3, <1>4 DEF KernelInv

LEMMA PackNothingStep ==
  ASSUME KernelInv, PackNothing
  PROVE  KernelInv'
<1>1. /\ pc = "start" /\ bitWidth = 0 /\ pc' = "packed"
      /\ UNCHANGED <<level, bitWidth, input, payload, dst, group, row, acc, bitsInAcc, wordIdx>>
  BY DEF PackNothing, memory, loop
<1>2. TypeOK'
  BY <1>1 DEF KernelInv, TypeOK
<1>3. LoopInv'
  BY <1>1, <1>2, LaneGroups, SameKernel DEF KernelInv, LoopInv, NoBits
<1>4. PayloadWords' = 0
  <2>1. bitWidth \in 0 .. WordBits /\ 0 \in 0 .. 8 /\ bitWidth = 0 * StepBits
    BY <1>1, Sizes
  <2>2. PayloadWords = 0
    BY <2>1, PayloadSize
  <2> QED BY <1>1, <2>2, SameSlice
<1>5. PackInv' /\ PayloadCanonical' /\ AccumulatorHoldsStream' /\ UnpackInv'
  BY <1>1, <1>4 DEF KernelInv, LoopInv, PackInv, PayloadCanonical, AccumulatorHoldsStream, UnpackInv
<1> QED BY <1>2, <1>3, <1>5 DEF KernelInv

LEMMA StartPackStep ==
  ASSUME KernelInv, StartPack
  PROVE  KernelInv'
<1>1. /\ pc = "start" /\ bitWidth > 0 /\ pc' = "pack"
      /\ payload' = IF level = "scalar" \/ Unrolled THEN payload ELSE Cleared
      /\ UNCHANGED <<level, bitWidth, input, dst, group, row, acc, bitsInAcc, wordIdx>>
  BY DEF StartPack, loop
<1>2. TypeOK /\ group = 0 /\ row = 0 /\ wordIdx = 0
  BY <1>1 DEF KernelInv, LoopInv
<1>3. TypeOK'
  <2>1. Cleared \in [LaneWords -> [Lanes -> SUBSET Bits]]
    BY <1>2 DEF Cleared, TypeOK, NoBits
  <2>2. payload' \in [LaneWords -> [Lanes -> SUBSET Bits]]
    BY <1>1, <1>2, <2>1 DEF TypeOK
  <2> QED BY <1>1, <1>2, <2>2 DEF TypeOK
<1>4. LoopInv'
  <2>1. Unrolled => 0 < PayloadWords
    BY <1>2, UnrolledWidth
  <2> QED BY <1>1, <1>2, <2>1, SameKernel, SameSlice DEF KernelInv, LoopInv, NoBits
<1>5. PackInv'
  <2> SUFFICES ASSUME NEW w \in 0 .. PayloadWords - 1, NEW l \in Lanes
               PROVE  IF Generic
                      THEN payload'[w][l] = {b \in Stream(l, w * WordBits, WordBits) :
                                               w * WordBits + b < row * bitWidth}
                      ELSE Stored(w, l)' => payload'[w][l] = Stream(l, w * WordBits, WordBits)
    BY <1>1, SameSlice, SameKernel DEF PackInv
  <2>1. CASE Generic
    <3>1. payload' = Cleared /\ w \in LaneWords /\ w < PayloadWords
      <4>1. payload' = Cleared
        BY <1>1, <2>1 DEF Generic, Scalar
      <4>2. PayloadWords \in 0 .. 8
        BY <1>2, Widths, PayloadSize
      <4> QED BY <4>1, <4>2, Sizes
    <3>2. payload'[w][l] = {}
      <4>1. Cleared[w] = NoBits
        BY <3>1 DEF Cleared
      <4> QED BY <3>1, <4>1 DEF NoBits
    <3>3. \A b \in Stream(l, w * WordBits, WordBits) : ~(w * WordBits + b < row * bitWidth)
      <4>1. bitWidth \in Nat /\ WordBits \in Nat /\ w \in Nat
        BY <1>2, Widths, Sizes, PayloadSize
      <4>2. w * WordBits \in Nat /\ row * bitWidth = 0
        BY <1>2, <4>1, Multiples
      <4>3. \A b \in Stream(l, w * WordBits, WordBits) : b \in Nat
        <5>1. Stream(l, w * WordBits, WordBits) \subseteq 0 .. WordBits - 1
          BY <4>1, <4>2, StreamBits
        <5> QED BY <4>1, <5>1
      <4> QED BY <4>2, <4>3
    <3> QED BY <2>1, <3>2, <3>3
  <2>2. CASE ~Generic
    <3>1. ~Stored(w, l)'
      <4>1. group' = 0 /\ row' = 0 /\ wordIdx' = 0 /\ ~(w < 0)
        BY <1>1, <1>2, Widths, PayloadSize
      <4>2. ~Finished(l)'
        BY <4>1 DEF Finished
      <4> QED BY <4>1, <4>2 DEF Stored
    <3> QED BY <2>2, <3>1
  <2> QED BY <2>1, <2>2
<1>6. PayloadCanonical' /\ AccumulatorHoldsStream' /\ UnpackInv'
  BY <1>1, <1>2 DEF PayloadCanonical, AccumulatorHoldsStream, UnpackInv
<1> QED BY <1>3, <1>4, <1>5, <1>6 DEF KernelInv

(* The finished lanes after a step.                                        *)
LEMMA FinishedNext ==
  ASSUME TypeOK, group \in 0 .. Groups, UNCHANGED <<level, bitWidth, input>>
  PROVE  /\ group' = group => \A l : Finished(l)' <=> Finished(l)
         /\ group' = group + 1 =>
              \A l \in Lanes : Finished(l)' <=> Finished(l) \/ l \in LanesOf(group)
<1>1. group' = group => \A l : Finished(l)' <=> Finished(l)
  BY SameKernel DEF Finished
<1>2. ASSUME group' = group + 1, NEW l \in Lanes
      PROVE  Finished(l)' <=> Finished(l) \/ l \in LanesOf(group)
  <2>1. (group + 1) - 1 = group
    BY LaneGroups
  <2>2. Finished(l)' <=> \E g \in 0 .. (group + 1) - 1 : l \in LanesOf(g)
    BY <1>2, SameKernel DEF Finished
  <2> QED BY <2>1, <2>2, FinishedLanes
<1> QED BY <1>1, <1>2

LEMMA PackWordStep ==
  ASSUME KernelInv, PackWord
  PROVE  KernelInv'
<1>1. /\ pc = "pack" /\ Unrolled /\ group < Vectors(level)
      /\ payload' = With(payload, row, [l \in VectorLanes(level, group) |-> Accumulated(row, l)])
      /\ IF row + 1 \in storedWords
         THEN row' = row + 1 /\ group' = group
         ELSE row' = 0 /\ group' = group + 1
      /\ UNCHANGED <<pc, level, bitWidth, input, dst, acc, bitsInAcc, wordIdx>>
  BY DEF PackWord
<1>2. /\ TypeOK /\ bitWidth > 0 /\ ~Scalar /\ ~Generic /\ Groups = Vectors(level)
      /\ LanesOf(group) = VectorLanes(level, group)
      /\ group \in 0 .. Groups - 1 /\ row \in 0 .. PayloadWords - 1
      /\ acc = NoBits /\ bitsInAcc = 0 /\ wordIdx = 0
  <2>1. TypeOK /\ LoopInv
    BY DEF KernelInv
  <2>2. ~Scalar /\ ~Generic
    BY <1>1 DEF Unrolled, Scalar, Generic
  <2>3. Groups = Vectors(level) /\ LanesOf(group) = VectorLanes(level, group)
    BY <2>2 DEF Groups, LanesOf
  <2>4. Groups \in Nat /\ PayloadWords \in Nat
    BY <2>1, LaneGroups, Widths, PayloadSize
  <2>5. /\ bitWidth > 0 /\ group \in 0 .. Groups /\ row < PayloadWords
        /\ acc = NoBits /\ bitsInAcc = 0 /\ wordIdx = 0
    BY <1>1, <2>1, <2>2 DEF LoopInv
  <2>6. row \in 0 .. 8
    BY <2>1, Sizes DEF TypeOK
  <2>7. group \in 0 .. Groups - 1 /\ row \in 0 .. PayloadWords - 1
    BY <1>1, <2>3, <2>4, <2>5, <2>6
  <2> QED BY <2>1, <2>2, <2>3, <2>5, <2>7
<1>3. WordBits \in Nat /\ row \in Nat /\ row \in LaneWords /\ PayloadWords \in 0 .. 8
      /\ row * WordBits \in Nat
  <2>1. PayloadWords \in 0 .. 8 /\ WordBits \in Nat
    BY <1>2, Widths, PayloadSize, Sizes
  <2>2. row \in Nat /\ row \in LaneWords
    BY <1>2, <2>1, Sizes
  <2> QED BY <2>1, <2>2, Multiples
<1>4. \A l : Accumulated(row, l) = Stream(l, row * WordBits, WordBits)
  BY <1>2, <1>3, AccumulatedWord
<1>5. /\ payload' \in Memory
      /\ \A u \in LaneWords, l \in Lanes :
           payload'[u][l] = IF u = row /\ l \in LanesOf(group)
                            THEN Stream(l, row * WordBits, WordBits) ELSE payload[u][l]
  <2> DEFINE vec == [l \in VectorLanes(level, group) |-> Accumulated(row, l)]
  <2>1. DOMAIN vec = LanesOf(group) /\ \A l \in LanesOf(group) : vec[l] = Stream(l, row * WordBits, WordBits)
    BY <1>2, <1>4
  <2>2. LanesOf(group) \subseteq Lanes /\ payload \in Memory
    BY <1>2, LaneGroups DEF TypeOK, Memory
  <2>3. \A l \in LanesOf(group) : vec[l] \subseteq Bits
    <3>1. \A l : Stream(l, row * WordBits, WordBits) \subseteq Bits
      BY <1>3, StreamBits, Sizes
    <3> QED BY <2>1, <3>1
  <2>4. payload' = With(payload, row, vec)
    BY <1>1
  <2> HIDE DEF vec
  <2> QED BY <1>3, <2>1, <2>2, <2>3, <2>4, WithLanes
<1>6. \/ row + 1 \in 0 .. PayloadWords - 1 /\ row' = row + 1 /\ group' = group
      \/ row = PayloadWords - 1 /\ row' = 0 /\ group' = group + 1
  <2>1. storedWords = 0 .. PayloadWords - 1
    BY <1>1, <1>2, StepWords
  <2> QED BY <1>1, <1>2, <1>3, <2>1
<1>7. group' \in 0 .. Groups /\ Groups \in 1 .. LaneCount /\ row' \in 0 .. PayloadWords - 1
      /\ (group' = Groups => row' = 0)
  BY <1>2, <1>3, <1>6, LaneGroups
<1>8. TypeOK'
  <2>1. group' \in 0 .. LaneCount /\ row' \in 0 .. utlValuesPerLane
    BY <1>3, <1>7, Sizes
  <2> QED BY <1>1, <1>2, <1>5, <2>1 DEF TypeOK, Memory
<1>9. LoopInv'
  BY <1>1, <1>2, <1>3, <1>7, SameKernel, SameSlice DEF LoopInv, NoBits
<1>10. group \in 0 .. Groups
  BY <1>2, <1>7
<1>11. PackInv'
  <2> SUFFICES ASSUME NEW w \in 0 .. PayloadWords - 1, NEW l \in Lanes, Stored(w, l)'
               PROVE  payload'[w][l] = Stream(l, w * WordBits, WordBits)
    BY <1>1, <1>2, SameSlice, SameKernel DEF PackInv
  <2>1. w \in LaneWords
    BY <1>3, Sizes
  <2>2. Stored(w, l) => payload[w][l] = Stream(l, w * WordBits, WordBits)
    BY <1>1, <1>2 DEF KernelInv, PackInv
  <2>3. (l \in LanesOf(group) /\ w = row) \/ Stored(w, l)
    <3>1. Finished(l)' \/ (l \in LanesOf(group') /\ w < row')
      BY <1>1, SameKernel DEF Stored
    <3>2. Stored(w, l) <=> Finished(l) \/ (l \in LanesOf(group) /\ w < row)
      BY <1>1 DEF Stored
    <3>3. CASE row' = row + 1 /\ group' = group
      <4>1. Finished(l)' <=> Finished(l)
        BY <1>1, <1>2, <1>10, <3>3, FinishedNext
      <4> QED BY <1>3, <3>1, <3>2, <3>3, <4>1
    <3>4. CASE row = PayloadWords - 1 /\ row' = 0 /\ group' = group + 1
      <4>1. Finished(l)' <=> Finished(l) \/ l \in LanesOf(group)
        BY <1>1, <1>2, <1>10, <3>4, FinishedNext
      <4> QED BY <1>3, <3>1, <3>2, <3>4, <4>1
    <3> QED BY <1>6, <3>3, <3>4
  <2> QED BY <1>5, <2>1, <2>2, <2>3
<1>12. PayloadCanonical' /\ AccumulatorHoldsStream' /\ UnpackInv'
  BY <1>1, <1>2 DEF PayloadCanonical, AccumulatorHoldsStream, UnpackInv, Scalar
<1> QED BY <1>8, <1>9, <1>11, <1>12 DEF KernelInv

(* What row v puts into word w.                                            *)
RowPart(w, v, l) ==
  IF w = Layout(v).word THEN ShiftAllLeft(Val(v, l), Layout(v).shift)
  ELSE IF Layout(v).spans /\ w = Layout(v).word + 1
  THEN ShiftRight(Val(v, l), WordBits - Layout(v).shift) ELSE {}

LEMMA RowAdded ==
  ASSUME TypeOK, bitWidth > 0, NEW l, NEW v \in Rows, NEW w \in Nat
  PROVE  /\ {b \in Stream(l, w * WordBits, WordBits) : w * WordBits + b < v * bitWidth} \cup RowPart(w, v, l)
              = {b \in Stream(l, w * WordBits, WordBits) : w * WordBits + b < (v + 1) * bitWidth}
         /\ RowPart(w, v, l) \subseteq Bits
<1> DEFINE new == RowPart(w, v, l)
<1>0. new = IF w = Layout(v).word THEN ShiftAllLeft(Val(v, l), Layout(v).shift)
            ELSE IF Layout(v).spans /\ w = Layout(v).word + 1
            THEN ShiftRight(Val(v, l), WordBits - Layout(v).shift) ELSE {}
  BY DEF RowPart
<1> HIDE DEF new
<1>1. /\ WordBits \in Nat \ {0} /\ bitWidth \in 1 .. WordBits /\ v \in Nat /\ w \in Nat
      /\ Bits = 0 .. WordBits - 1 /\ w * WordBits \in Nat
  <2>1. /\ WordBits \in Nat \ {0} /\ bitWidth \in 1 .. WordBits /\ v \in Nat
        /\ Bits = 0 .. WordBits - 1
    BY Widths, Sizes
  <2>2. w * WordBits \in Nat
    BY <2>1, Multiples
  <2> QED BY <2>1, <2>2
<1>2. PICK u \in 0 .. 7, s \in 0 .. WordBits - 1 : u = Layout(v).word /\ s = Layout(v).shift
  BY LayoutFacts DEF Begins
<1>3. Val(v, l) \subseteq Nat /\ Val(v, l) \subseteq Bits
  BY ValBits
<1> DEFINE SetBy(b) == \E c \in Val(v, l) :
                         \/ Layout(v).word = w /\ b = c + Layout(v).shift
                         \/ /\ Layout(v).word = w - 1 /\ Layout(v).spans
                            /\ c >= WordBits - Layout(v).shift /\ b = c - (WordBits - Layout(v).shift)
<1>4. ASSUME NEW b PROVE b \in new <=> b \in Bits /\ SetBy(b)
  <2>1. CASE w = u
    <3>1. b \in new <=> b \in Bits /\ \E c \in Val(v, l) : b = c + s
      BY <1>0, <1>2, <2>1 DEF ShiftAllLeft, LowWord, ShiftLeft
    <3>2. u # w - 1
      BY <2>1
    <3> QED BY <1>2, <2>1, <3>1, <3>2
  <2>2. CASE w = u + 1 /\ Layout(v).spans
    <3>1. b \in new <=> \E c \in Val(v, l) : c >= WordBits - s /\ b = c - (WordBits - s)
      BY <1>0, <1>2, <2>2 DEF ShiftRight
    <3>2. \A c \in Val(v, l) : c >= WordBits - s => c - (WordBits - s) \in Bits
      BY <1>1, <1>3
    <3>3. u = w - 1 /\ u # w
      BY <2>2
    <3> QED BY <1>2, <2>2, <3>1, <3>2, <3>3
  <2>3. CASE w # u /\ ~(w = u + 1 /\ Layout(v).spans)
    <3>1. new = {}
      BY <1>0, <1>2, <2>3
    <3>2. u = w - 1 => w = u + 1
      BY <1>1
    <3> QED BY <1>2, <2>3, <3>1, <3>2
  <2> QED BY <2>1, <2>2, <2>3
<1>5. ASSUME NEW b \in Bits
      PROVE  b \in new <=> /\ On(l, w * WordBits + b)
                           /\ v * bitWidth <= w * WordBits + b /\ w * WordBits + b < (v + 1) * bitWidth
  BY <1>4, RowBits
<1> HIDE DEF SetBy
<1>6. new \subseteq Bits
  BY <1>4
<1>7. v * bitWidth \in Nat /\ v * bitWidth <= (v + 1) * bitWidth /\ (v + 1) * bitWidth \in Nat
  <2>1. (v + 1) * bitWidth = v * bitWidth + bitWidth /\ v * bitWidth \in Nat
    BY <1>1, Multiples
  <2> QED BY <1>1, <2>1
<1> DEFINE p == w * WordBits
<1> DEFINE q == v * bitWidth
<1> DEFINE r == (v + 1) * bitWidth
<1>8. ASSUME NEW b
      PROVE  (b \in Stream(l, p, WordBits) /\ p + b < q) \/ b \in new
               <=> b \in Stream(l, p, WordBits) /\ p + b < r
  <2>1. p \in Nat /\ q \in Nat /\ r \in Nat /\ q <= r
    BY <1>1, <1>7
  <2>2. b \in Stream(l, p, WordBits) <=> b \in Bits /\ On(l, p + b)
    BY <1>1, InStream
  <2>3. b \in new <=> b \in Bits /\ On(l, p + b) /\ q <= p + b /\ p + b < r
    BY <1>5, <1>6
  <2> HIDE DEF p, q, r
  <2>4. b \in Bits => /\ p + b < q => p + b < r
                      /\ p + b < q \/ q <= p + b
    BY <1>1, <2>1
  <2> QED BY <2>2, <2>3, <2>4, Zenon
<1> HIDE DEF p, q, r
<1>9. {b \in Stream(l, p, WordBits) : p + b < q} \cup new = {b \in Stream(l, p, WordBits) : p + b < r}
  BY <1>8
<1> QED BY <1>6, <1>9 DEF p, q, r, new

LEMMA PackRowStep ==
  ASSUME KernelInv, PackRow
  PROVE  KernelInv'
<1> DEFINE at   == computeLayout(row)
<1> DEFINE low  == With(payload, at.word,
                        [l \in Lanes |-> payload[at.word][l] \cup ShiftAllLeft(Val(row, l), at.shift)])
<1> DEFINE high == With(low, at.word + 1,
                        [l \in Lanes |-> low[at.word + 1][l]
                                           \cup ShiftRight(Val(row, l), WordBits - at.shift)])
<1>1. /\ pc = "pack" /\ level # "scalar" /\ ~Unrolled /\ row < 8
      /\ payload' = IF at.spans THEN high ELSE low
      /\ row' = row + 1
      /\ UNCHANGED <<pc, level, bitWidth, input, dst, group, acc, bitsInAcc, wordIdx>>
  BY Sizes DEF PackRow
<1>2. /\ TypeOK /\ bitWidth > 0 /\ Generic /\ ~Scalar /\ group = 0
      /\ acc = NoBits /\ bitsInAcc = 0 /\ wordIdx = 0 /\ 0 # Groups
  <2>1. TypeOK /\ LoopInv /\ Generic /\ ~Scalar
    BY <1>1 DEF KernelInv, Generic, Scalar
  <2>2. Groups \in 1 .. LaneCount
    BY <2>1, LaneGroups
  <2> QED BY <1>1, <2>1, <2>2 DEF LoopInv
<1>3. row \in 0 .. 7 /\ row \in Rows /\ PayloadWords \in 0 .. 8 /\ LaneWords = 0 .. 8
  BY <1>1, <1>2, Sizes, Widths, PayloadSize DEF TypeOK
<1>4. Layout(row) = at
  BY <1>1 DEF Layout
<1> HIDE DEF at
<1>5. PICK u \in 0 .. 7, s \in 0 .. WordBits - 1 : u = at.word /\ s = at.shift
  BY <1>2, <1>3, <1>4, LayoutFacts DEF Begins
<1>6. u < PayloadWords /\ (at.spans => u + 1 < PayloadWords)
  BY <1>2, <1>3, <1>4, <1>5, LayoutFacts
<1>7. u \in LaneWords /\ u + 1 \in LaneWords
  BY <1>3
<1> DEFINE new(w, l) == RowPart(w, row, l)
<1>8. \A w \in Nat : \A l : new(w, l) \subseteq Bits
  BY <1>2, <1>3, RowAdded
<1>9. /\ payload' \in Memory
      /\ \A w \in LaneWords, l \in Lanes : payload'[w][l] = payload[w][l] \cup new(w, l)
  <2>1. payload \in Memory
    BY <1>2 DEF TypeOK, Memory
  <2>2. \A l : ShiftAllLeft(Val(row, l), s) = new(u, l)
    BY <1>4, <1>5 DEF RowPart
  <2>3. at.spans => \A l : ShiftRight(Val(row, l), WordBits - s) = new(u + 1, l)
    <3>1. u + 1 # u
      OBVIOUS
    <3> QED BY <1>4, <1>5, <3>1 DEF RowPart
  <2>4. \A w \in LaneWords : \A l : w # u /\ ~(at.spans /\ w = u + 1) => new(w, l) = {}
    BY <1>4, <1>5 DEF RowPart
  <2> HIDE DEF new
  <2> DEFINE vec == [l \in Lanes |-> payload[u][l] \cup ShiftAllLeft(Val(row, l), s)]
  <2>5. /\ vec \in [Lanes -> SUBSET Bits]
        /\ \A l \in Lanes : vec[l] = payload[u][l] \cup new(u, l)
    <3>1. \A l \in Lanes : payload[u][l] \subseteq Bits
      BY <1>7, <2>1 DEF Memory
    <3> QED BY <1>8, <2>2, <3>1
  <2>6. low = With(payload, u, vec)
    BY <1>5
  <2> HIDE DEF vec, low
  <2>7. /\ low \in Memory
        /\ \A w \in LaneWords, l \in Lanes :
             low[w][l] = IF w = u THEN payload[u][l] \cup new(u, l) ELSE payload[w][l]
    <3>1. /\ With(payload, u, vec) \in Memory
          /\ \A w \in LaneWords, l \in Lanes :
               With(payload, u, vec)[w][l] = IF w = u THEN vec[l] ELSE payload[w][l]
      BY <1>7, <2>1, <2>5, WithSuperword, Zenon
    <3> QED BY <2>5, <2>6, <3>1
  <2>8. CASE ~at.spans
    <3>1. payload' = low
      BY <1>1, <2>8
    <3> QED BY <2>4, <2>7, <2>8, <3>1
  <2>9. CASE at.spans
    <3> DEFINE vec2 == [l \in Lanes |-> low[u + 1][l] \cup ShiftRight(Val(row, l), WordBits - s)]
    <3>1. /\ vec2 \in [Lanes -> SUBSET Bits]
          /\ \A l \in Lanes : vec2[l] = payload[u + 1][l] \cup new(u + 1, l)
      <4>1. \A l \in Lanes : payload[u + 1][l] \subseteq Bits
        BY <1>7, <2>1 DEF Memory
      <4>2. \A l \in Lanes : low[u + 1][l] = payload[u + 1][l]
        <5>1. u + 1 # u
          OBVIOUS
        <5> QED BY <1>7, <2>7, <5>1
      <4>3. \A l \in Lanes : new(u + 1, l) \subseteq Bits
        BY <1>8
      <4> QED BY <2>3, <2>9, <4>1, <4>2, <4>3
    <3>2. payload' = With(low, u + 1, vec2)
      BY <1>1, <1>5, <2>9
    <3> HIDE DEF vec2
    <3>3. /\ payload' \in Memory
          /\ \A w \in LaneWords, l \in Lanes :
               payload'[w][l] = IF w = u + 1 THEN payload[u + 1][l] \cup new(u + 1, l) ELSE low[w][l]
      <4>1. /\ With(low, u + 1, vec2) \in Memory
            /\ \A w \in LaneWords, l \in Lanes :
                 With(low, u + 1, vec2)[w][l] = IF w = u + 1 THEN vec2[l] ELSE low[w][l]
        BY <1>7, <2>7, <3>1, WithSuperword, Zenon
      <4> QED BY <3>1, <3>2, <4>1
    <3>4. ASSUME NEW w \in LaneWords, NEW l \in Lanes PROVE payload'[w][l] = payload[w][l] \cup new(w, l)
      <4>1. CASE w = u + 1
        BY <3>3, <4>1
      <4>2. CASE w = u
        BY <2>7, <3>3, <4>2
      <4>3. CASE w # u /\ w # u + 1
        BY <2>4, <2>7, <3>3, <4>3
      <4> QED BY <4>1, <4>2, <4>3
    <3> QED BY <3>3, <3>4
  <2> QED BY <2>8, <2>9
<1>10. TypeOK'
  <2>1. row' \in 0 .. utlValuesPerLane
    BY <1>1, <1>3, Sizes
  <2> QED BY <1>1, <1>2, <1>9, <2>1 DEF TypeOK, Memory
<1>11. LoopInv'
  <2>1. LoopInv
    BY DEF KernelInv
  <2> QED BY <1>1, <1>2, <2>1, SameKernel, SameSlice DEF LoopInv, NoBits
<1>12. PackInv'
  <2> SUFFICES ASSUME NEW w \in 0 .. PayloadWords - 1, NEW l \in Lanes
               PROVE  payload'[w][l] = {b \in Stream(l, w * WordBits, WordBits) :
                                          w * WordBits + b < (row + 1) * bitWidth}
    <3>1. Generic' /\ PayloadWords' = PayloadWords /\ row' = row + 1 /\ bitWidth' = bitWidth
      BY <1>1, <1>2, SameSlice, SameKernel
    <3>2. \A w, l : {b \in Stream(l, w * WordBits, WordBits) : w * WordBits + b < (row + 1) * bitWidth}
                     = {b \in Stream(l, w * WordBits, WordBits)' : w * WordBits + b < row' * bitWidth'}
      BY <1>1, <3>1, SameSlice
    <3> QED BY <3>1, <3>2, Zenon DEF PackInv
  <2>1. w \in LaneWords /\ w \in Nat
    BY <1>3
  <2>2. payload[w][l] = {b \in Stream(l, w * WordBits, WordBits) : w * WordBits + b < row * bitWidth}
    BY <1>1, <1>2 DEF KernelInv, PackInv
  <2>3. payload'[w][l] = payload[w][l] \cup new(w, l)
    BY <1>9, <2>1
  <2>4. {b \in Stream(l, w * WordBits, WordBits) : w * WordBits + b < row * bitWidth} \cup new(w, l)
          = {b \in Stream(l, w * WordBits, WordBits) : w * WordBits + b < (row + 1) * bitWidth}
    BY <1>2, <1>3, <2>1, RowAdded
  <2> HIDE DEF new
  <2> QED BY <2>2, <2>3, <2>4
<1>13. PayloadCanonical' /\ AccumulatorHoldsStream' /\ UnpackInv'
  BY <1>1 DEF PayloadCanonical, AccumulatorHoldsStream, UnpackInv
<1> QED BY <1>10, <1>11, <1>12, <1>13 DEF KernelInv

(* What waits in the scalar packer's accumulators.                         *)
LEMMA PackedSoFar ==
  ASSUME KernelInv, pc = "pack", Scalar, group < Groups
  PROVE  /\ wordIdx \in 0 .. 8 /\ bitsInAcc \in 0 .. WordBits - 1
         /\ wordIdx * WordBits + bitsInAcc = row * bitWidth
         /\ \A l \in Pair(group) : acc[l] = Stream(l, wordIdx * WordBits, bitsInAcc)
<1>1. TypeOK /\ LoopInv /\ AccumulatorHoldsStream
  BY DEF KernelInv
<1>2. wordIdx \in 0 .. 8 /\ bitsInAcc \in 0 .. WordBits /\ WordBits \in Nat \ {0} /\ bitWidth \in Nat
  BY <1>1, Sizes, Widths DEF TypeOK
<1>3. CASE row > 0
  BY <1>1, <1>2, <1>3 DEF AccumulatorHoldsStream, Scalar
<1>4. CASE row = 0
  <2>1. acc = NoBits /\ bitsInAcc = 0 /\ wordIdx = 0
    BY <1>1, <1>4 DEF LoopInv
  <2>2. Pair(group) \subseteq Lanes
    <3>1. group \in 0 .. Groups - 1
      BY <1>1, LaneGroups DEF LoopInv
    <3>2. LanesOf(group) = Pair(group)
      BY DEF LanesOf
    <3> QED BY <1>1, <3>1, <3>2, LaneGroups
  <2>3. wordIdx * WordBits = 0 /\ row * bitWidth = 0
    BY <1>2, <1>4, <2>1
  <2>4. \A l : Stream(l, 0, 0) = {}
    BY StreamBits
  <2> QED BY <1>2, <2>1, <2>2, <2>3, <2>4 DEF NoBits
<1> QED BY <1>1, <1>3, <1>4, Sizes DEF TypeOK

LEMMA LoopSizes ==
  ASSUME TypeOK, bitWidth > 0
  PROVE  /\ bitWidth \in 1 .. WordBits /\ bitWidth \in 0 .. WordBits /\ WordBits \in Nat \ {0}
         /\ PayloadWords \in 0 .. 8 /\ LaneWords = 0 .. 8 /\ Bits = 0 .. WordBits - 1
         /\ Rows = 0 .. 7 /\ row \in 0 .. 8 /\ wordIdx \in 0 .. 8 /\ bitsInAcc \in 0 .. WordBits
<1>1. /\ bitWidth \in 1 .. WordBits /\ bitWidth \in 0 .. WordBits /\ WordBits \in Nat \ {0}
      /\ LaneWords = 0 .. 8 /\ Bits = 0 .. WordBits - 1 /\ Rows = 0 .. 7
  BY Widths, Sizes
<1>2. row \in 0 .. 8 /\ wordIdx \in 0 .. 8 /\ bitsInAcc \in 0 .. WordBits
  BY Sizes DEF TypeOK
<1>3. PayloadWords \in 0 .. 8
  BY <1>1, PayloadSize
<1> QED BY <1>1, <1>2, <1>3

(* The two lanes of a pair that is being packed or unpacked.               *)
LEMMA PairLanes ==
  ASSUME TypeOK, Scalar, group \in 0 .. Groups - 1
  PROVE  /\ Pair(group) \subseteq Lanes /\ LanesOf(group) = Pair(group)
         /\ Groups = LaneCount \div 2 /\ Groups \in 1 .. LaneCount
         /\ ~Unrolled /\ ~Generic
<1>1. LanesOf(group) = Pair(group) /\ Groups = LaneCount \div 2
  BY DEF LanesOf, Groups
<1>2. ~Unrolled /\ ~Generic
  BY DEF Unrolled, Generic, Scalar
<1> QED BY <1>1, <1>2, LaneGroups

LEMMA PackPairRowStep ==
  ASSUME KernelInv, PackPairRow
  PROVE  KernelInv'
<1>1. /\ pc = "pack" /\ Scalar /\ group < LaneCount \div 2 /\ row < 8 /\ row' = row + 1
      /\ UNCHANGED <<pc, level, bitWidth, input, dst, group>>
  BY Sizes DEF PackPairRow, Scalar
<1>2. TypeOK /\ LoopInv /\ bitWidth > 0
  BY <1>1 DEF KernelInv, LoopInv
<1>3. group \in 0 .. Groups - 1 /\ Groups \in 1 .. LaneCount
  <2>1. Groups = LaneCount \div 2
    BY <1>1 DEF Groups
  <2>2. Groups \in 1 .. LaneCount
    BY <1>2, LaneGroups
  <2> QED BY <1>1, <1>2, <2>1, <2>2 DEF LoopInv
<1>4. /\ Pair(group) \subseteq Lanes /\ LanesOf(group) = Pair(group) /\ ~Unrolled /\ ~Generic
  BY <1>1, <1>2, <1>3, PairLanes
<1>5. /\ bitWidth \in 1 .. WordBits /\ WordBits \in Nat \ {0} /\ row \in 0 .. 7 /\ row \in Rows
      /\ PayloadWords \in 0 .. 8 /\ LaneWords = 0 .. 8 /\ Bits = 0 .. WordBits - 1
  BY <1>1, <1>2, LoopSizes
<1> DEFINE p == wordIdx * WordBits
<1> DEFINE q == row * bitWidth
<1>6. /\ wordIdx \in 0 .. 8 /\ bitsInAcc \in 0 .. WordBits - 1 /\ p + bitsInAcc = q
      /\ \A l \in Pair(group) : acc[l] = Stream(l, p, bitsInAcc)
  BY <1>1, <1>2, <1>3, PackedSoFar
<1>7. /\ p \in Nat /\ q \in Nat /\ (row + 1) * bitWidth = q + bitWidth /\ q + bitWidth <= 8 * bitWidth
      /\ (wordIdx + 1) * WordBits = p + WordBits
  <2>1. p \in Nat /\ (wordIdx + 1) * WordBits = p + WordBits
    BY <1>5, <1>6, Multiples
  <2>2. q \in Nat /\ (row + 1) * bitWidth = q + bitWidth /\ q + bitWidth <= 8 * bitWidth
    BY <1>5, Multiples
  <2> QED BY <2>1, <2>2
<1>8. wordIdx < PayloadWords
  <2>1. p < 8 * bitWidth
    <3> HIDE DEF p, q
    <3> QED BY <1>5, <1>6, <1>7
  <2>2. wordIdx \in Nat /\ bitWidth \in 0 .. WordBits
    BY <1>5, <1>6
  <2> QED BY <2>1, <2>2, PayloadSize
<1> DEFINE n == bitsInAcc + bitWidth
<1>9. PICK a \in {[l \in Pair(group) |-> acc[l] \cup ShiftLeft(Val(row, l), bitsInAcc)]} :
       IF bitsInAcc + bitWidth >= WordBits
       THEN /\ payload' = With(payload, wordIdx, [l \in Pair(group) |-> LowWord(a[l])])
            /\ wordIdx' = wordIdx + 1
            /\ acc' = [l \in Lanes |-> IF l \in Pair(group) THEN ShiftRight(a[l], WordBits) ELSE {}]
            /\ bitsInAcc' = bitsInAcc + bitWidth - WordBits
       ELSE /\ acc' = [l \in Lanes |-> IF l \in Pair(group) THEN a[l] ELSE {}]
            /\ bitsInAcc' = bitsInAcc + bitWidth
            /\ UNCHANGED <<payload, wordIdx>>
  BY DEF PackPairRow
<1>10. \A l \in Pair(group) : a[l] = Stream(l, p, n)
  <2> SUFFICES ASSUME NEW l \in Pair(group) PROVE a[l] = Stream(l, p, n)
    OBVIOUS
  <2>1. a[l] = acc[l] \cup ShiftLeft(Val(row, l), bitsInAcc)
    BY <1>9
  <2>2. Val(row, l) = Stream(l, q, bitWidth)
    BY <1>2, <1>5, StreamOfRow
  <2>3. a[l] = Stream(l, p, bitsInAcc) \cup ShiftLeft(Stream(l, p + bitsInAcc, bitWidth), bitsInAcc)
    BY <1>6, <2>1, <2>2
  <2>4. p \in Nat /\ bitsInAcc \in Nat /\ bitWidth \in Nat
    BY <1>5, <1>6, <1>7
  <2> HIDE DEF p, q
  <2> QED BY <2>3, <2>4, StreamJoin
<1>11. n \in Nat /\ n <= 2 * WordBits - 1 /\ p + n = q + bitWidth
  <2> HIDE DEF p, q
  <2> QED BY <1>5, <1>6, <1>7
<1>12. CASE n >= WordBits
  <2>1. /\ payload' = With(payload, wordIdx, [l \in Pair(group) |-> LowWord(a[l])])
        /\ wordIdx' = wordIdx + 1
        /\ acc' = [l \in Lanes |-> IF l \in Pair(group) THEN ShiftRight(a[l], WordBits) ELSE {}]
        /\ bitsInAcc' = n - WordBits
    <3> HIDE DEF p, q
    <3>1. bitsInAcc + bitWidth >= WordBits
      BY <1>12
    <3>2. /\ payload' = With(payload, wordIdx, [l \in Pair(group) |-> LowWord(a[l])])
          /\ wordIdx' = wordIdx + 1
          /\ acc' = [l \in Lanes |-> IF l \in Pair(group) THEN ShiftRight(a[l], WordBits) ELSE {}]
          /\ bitsInAcc' = bitsInAcc + bitWidth - WordBits
      BY <1>9, <3>1
    <3> QED BY <1>5, <1>6, <3>2
  <2> HIDE DEF p, q, n
  <2>2. ASSUME NEW l \in Pair(group)
        PROVE  LowWord(a[l]) = Stream(l, p, WordBits) /\ ShiftRight(a[l], WordBits) = Stream(l, p + WordBits, n - WordBits)
    <3>1. WordBits \in 0 .. n
      BY <1>5, <1>11, <1>12
    <3>2. /\ Stream(l, p, n) \cap (0 .. WordBits - 1) = Stream(l, p, WordBits)
          /\ ShiftRight(Stream(l, p, n), WordBits) = Stream(l, p + WordBits, n - WordBits)
      <4>1. p \in Nat /\ n \in Nat
        BY <1>7, <1>11
      <4>2. \A y \in Nat, z \in Nat : \A m \in 0 .. z :
              /\ Stream(l, y, z) \cap (0 .. m - 1) = Stream(l, y, m)
              /\ ShiftRight(Stream(l, y, z), m) = Stream(l, y + m, z - m)
        BY StreamCut
      <4>3. \A z \in Nat : \A m \in 0 .. z :
              /\ Stream(l, p, z) \cap (0 .. m - 1) = Stream(l, p, m)
              /\ ShiftRight(Stream(l, p, z), m) = Stream(l, p + m, z - m)
        BY <4>1, <4>2
      <4>4. \A m \in 0 .. n :
              /\ Stream(l, p, n) \cap (0 .. m - 1) = Stream(l, p, m)
              /\ ShiftRight(Stream(l, p, n), m) = Stream(l, p + m, n - m)
        BY <4>1, <4>3
      <4> QED BY <3>1, <4>4
    <3> QED BY <1>5, <1>10, <3>2 DEF LowWord
  <2>3. /\ payload' \in Memory
        /\ \A u \in LaneWords, l \in Lanes :
             payload'[u][l] = IF u = wordIdx /\ l \in Pair(group) THEN Stream(l, p, WordBits) ELSE payload[u][l]
    <3> DEFINE vec == [l \in Pair(group) |-> LowWord(a[l])]
    <3>1. DOMAIN vec = Pair(group) /\ \A l \in Pair(group) : vec[l] = Stream(l, p, WordBits) /\ vec[l] \subseteq Bits
      BY <2>2 DEF LowWord
    <3>2. payload \in Memory /\ wordIdx \in LaneWords
      BY <1>2, <1>5, <1>6 DEF TypeOK, Memory
    <3>3. payload' = With(payload, wordIdx, vec)
      BY <2>1
    <3> HIDE DEF vec
    <3>4. DOMAIN vec \subseteq Lanes /\ \A l \in DOMAIN vec : vec[l] \subseteq Bits
      BY <1>4, <3>1
    <3>5. /\ With(payload, wordIdx, vec) \in Memory
          /\ \A u \in LaneWords, l \in Lanes :
               With(payload, wordIdx, vec)[u][l] = IF u = wordIdx /\ l \in DOMAIN vec THEN vec[l] ELSE payload[u][l]
      BY <3>2, <3>4, WithLanes
    <3> QED BY <3>1, <3>3, <3>5
  <2>4. \A l \in Pair(group) : acc'[l] = Stream(l, (wordIdx + 1) * WordBits, n - WordBits)
    BY <1>4, <1>7, <2>1, <2>2
  <2>5. n - WordBits \in 0 .. WordBits - 1 /\ wordIdx + 1 \in 0 .. 8
        /\ (wordIdx + 1) * WordBits + (n - WordBits) = (row + 1) * bitWidth
    <3>1. n - WordBits \in 0 .. WordBits - 1 /\ p + WordBits + (n - WordBits) = q + bitWidth
      BY <1>5, <1>7, <1>11, <1>12
    <3>2. wordIdx + 1 \in 0 .. 8
      BY <1>5, <1>6, <1>8
    <3>3. (wordIdx + 1) * WordBits = p + WordBits /\ (row + 1) * bitWidth = q + bitWidth
      BY <1>7
    <3> QED BY <3>1, <3>2, <3>3
  <2>6. TypeOK'
    <3>1. \A l \in Lanes : acc'[l] \subseteq 0 .. 2 * WordBits - 1
      <4>1. \A l : Stream(l, (wordIdx + 1) * WordBits, n - WordBits) \subseteq 0 .. (n - WordBits) - 1
        <5>1. (wordIdx + 1) * WordBits \in Nat /\ n - WordBits \in Nat
          BY <1>5, <1>7, <2>5
        <5> QED BY <5>1, StreamBits
      <4>2. 0 .. (n - WordBits) - 1 \subseteq 0 .. 2 * WordBits - 1
        BY <1>5, <2>5
      <4>3. \A l \in Lanes : l \notin Pair(group) => acc'[l] = {}
        BY <2>1
      <4> QED BY <2>4, <4>1, <4>2, <4>3
    <3>2. row' \in 0 .. utlValuesPerLane /\ bitsInAcc' \in 0 .. WordBits /\ wordIdx' \in LaneWords
      <4>1. row' \in 0 .. 8 /\ utlValuesPerLane = 8
        BY <1>1, <1>5, Sizes
      <4>2. n - WordBits \in 0 .. WordBits
        BY <1>5, <2>5
      <4> QED BY <1>5, <2>1, <2>5, <4>1, <4>2
    <3> QED BY <1>1, <1>2, <2>3, <3>1, <3>2 DEF TypeOK, Memory
  <2>7. LoopInv'
    <3>1. row' # 0 /\ group # Groups
      BY <1>1, <1>3, <1>5
    <3> QED BY <1>1, <1>2, <1>3, <1>4, <3>1, SameKernel DEF LoopInv
  <2>8. PackInv'
    <3> SUFFICES ASSUME NEW w \in 0 .. PayloadWords - 1, NEW l \in Lanes, Stored(w, l)'
                 PROVE  payload'[w][l] = Stream(l, w * WordBits, WordBits)
      BY <1>1, <1>4, SameSlice, SameKernel DEF PackInv
    <3>1. w \in LaneWords
      BY <1>5
    <3>2. Stored(w, l) => payload[w][l] = Stream(l, w * WordBits, WordBits)
      BY <1>1, <1>4 DEF KernelInv, PackInv
    <3>3. group \in 0 .. Groups
      BY <1>3
    <3>4. Finished(l) \/ (l \in Pair(group) /\ w < wordIdx + 1)
      <4>1. Finished(l)' \/ (l \in LanesOf(group) /\ w < wordIdx')
        BY <1>1, <1>4, SameKernel DEF Stored
      <4>2. Finished(l)' <=> Finished(l)
        BY <1>1, <1>2, <3>3, FinishedNext
      <4> QED BY <1>4, <2>1, <4>1, <4>2
    <3>5. CASE w = wordIdx /\ l \in Pair(group)
      BY <2>3, <3>1, <3>5 DEF p
    <3>6. CASE ~(w = wordIdx /\ l \in Pair(group))
      <4>1. Stored(w, l)
        BY <1>4, <1>5, <1>6, <3>4, <3>6 DEF Stored
      <4> QED BY <2>3, <3>1, <3>2, <3>6, <4>1
    <3> QED BY <3>5, <3>6
  <2>9. AccumulatorHoldsStream'
    <3>1. wordIdx' * WordBits + bitsInAcc' = row' * bitWidth' /\ bitsInAcc' < WordBits
      <4>1. n - WordBits < WordBits
        BY <1>5, <2>5
      <4> QED BY <1>1, <2>1, <2>5, <4>1
    <3>2. \A l \in Pair(group) : acc'[l] = Stream(l, wordIdx * WordBits, bitsInAcc)'
      BY <1>1, <2>1, <2>4, SameSlice
    <3>3. Pair(group)' = Pair(group) /\ pc' = "pack"
      BY <1>1 DEF Pair
    <3> QED BY <3>1, <3>2, <3>3, Zenon DEF AccumulatorHoldsStream
  <2>10. PayloadCanonical' /\ UnpackInv'
    BY <1>1 DEF PayloadCanonical, UnpackInv
  <2> QED BY <2>6, <2>7, <2>8, <2>9, <2>10 DEF KernelInv
<1>13. CASE n < WordBits
  <2>1. /\ acc' = [l \in Lanes |-> IF l \in Pair(group) THEN a[l] ELSE {}]
        /\ bitsInAcc' = n /\ payload' = payload /\ wordIdx' = wordIdx
    <3>1. ~(bitsInAcc + bitWidth >= WordBits)
      BY <1>5, <1>11, <1>13
    <3> QED BY <1>9, <3>1
  <2>2. p + n = (row + 1) * bitWidth
    BY <1>7, <1>11
  <2>3. \A l \in Pair(group) : acc'[l] = Stream(l, p, n)
    BY <1>4, <1>10, <2>1
  <2> HIDE DEF n
  <2>4. TypeOK'
    <3>1. \A l \in Lanes : acc'[l] \subseteq 0 .. 2 * WordBits - 1
      <4>1. \A l : Stream(l, p, n) \subseteq 0 .. n - 1
        BY <1>7, <1>11, StreamBits
      <4>2. 0 .. n - 1 \subseteq 0 .. 2 * WordBits - 1
        BY <1>5, <1>11
      <4>3. \A l \in Lanes : l \notin Pair(group) => acc'[l] = {}
        BY <2>1
      <4> QED BY <2>3, <4>1, <4>2, <4>3
    <3>2. row' \in 0 .. utlValuesPerLane /\ bitsInAcc' \in 0 .. WordBits /\ wordIdx' \in LaneWords
      BY <1>1, <1>5, <1>6, <1>11, <1>13, <2>1, Sizes
    <3> QED BY <1>1, <1>2, <2>1, <3>1, <3>2 DEF TypeOK
  <2>5. LoopInv'
    <3>1. row' # 0 /\ group # Groups
      BY <1>1, <1>3, <1>5
    <3> QED BY <1>1, <1>2, <1>3, <1>4, <3>1, SameKernel DEF LoopInv
  <2>6. PackInv'
    <3> SUFFICES ASSUME NEW w \in 0 .. PayloadWords - 1, NEW l \in Lanes, Stored(w, l)'
                 PROVE  payload'[w][l] = Stream(l, w * WordBits, WordBits)
      BY <1>1, <1>4, SameSlice, SameKernel DEF PackInv
    <3>1. Stored(w, l) => payload[w][l] = Stream(l, w * WordBits, WordBits)
      BY <1>1, <1>4 DEF KernelInv, PackInv
    <3>2. group \in 0 .. Groups
      BY <1>3
    <3>3. Stored(w, l)
      <4>1. Finished(l)' \/ (l \in LanesOf(group) /\ w < wordIdx')
        BY <1>1, <1>4, SameKernel DEF Stored
      <4>2. Finished(l)' <=> Finished(l)
        BY <1>1, <1>2, <3>2, FinishedNext
      <4> QED BY <1>4, <2>1, <4>1, <4>2 DEF Stored
    <3> QED BY <2>1, <3>1, <3>3
  <2>7. AccumulatorHoldsStream'
    BY <1>1, <1>13, <2>1, <2>2, <2>3, SameSlice DEF AccumulatorHoldsStream, Pair
  <2>8. PayloadCanonical' /\ UnpackInv'
    BY <1>1 DEF PayloadCanonical, UnpackInv
  <2> QED BY <2>4, <2>5, <2>6, <2>7, <2>8 DEF KernelInv
<1> QED BY <1>5, <1>11, <1>12, <1>13

(* The last word of a pair, of which only some bits may be left.           *)
LEMMA LastOfPair ==
  ASSUME KernelInv, pc = "pack", Scalar, group < Groups, row = 8
  PROVE  /\ LastWord \in Memory
         /\ \A w \in LaneWords, l \in Lanes :
              LastWord[w][l] = IF l \in Pair(group) /\ w = wordIdx /\ bitsInAcc > 0
                               THEN Stream(l, w * WordBits, WordBits) ELSE payload[w][l]
         /\ \A w \in 0 .. PayloadWords - 1 : w < wordIdx \/ (w = wordIdx /\ bitsInAcc > 0)
         /\ bitsInAcc > 0 => wordIdx < PayloadWords
<1>1. TypeOK /\ LoopInv /\ bitWidth > 0 /\ group \in 0 .. Groups - 1
  <2>1. TypeOK /\ LoopInv
    BY DEF KernelInv
  <2> QED BY <2>1, LaneGroups DEF LoopInv
<1>2. /\ bitWidth \in 1 .. WordBits /\ bitWidth \in 0 .. WordBits /\ WordBits \in Nat \ {0}
      /\ PayloadWords \in 0 .. 8 /\ LaneWords = 0 .. 8 /\ Bits = 0 .. WordBits - 1
  BY <1>1, LoopSizes
<1> DEFINE p == wordIdx * WordBits
<1>3. /\ wordIdx \in 0 .. 8 /\ bitsInAcc \in 0 .. WordBits - 1 /\ p + bitsInAcc = 8 * bitWidth
      /\ \A l \in Pair(group) : acc[l] = Stream(l, p, bitsInAcc)
  BY PackedSoFar
<1>4. p \in Nat
  BY <1>2, <1>3, Multiples
<1>5. ASSUME NEW l \in Pair(group) PROVE LowWord(acc[l]) = Stream(l, p, WordBits)
  <2>1. acc[l] = Stream(l, p, bitsInAcc) /\ p \in Nat /\ bitsInAcc \in Nat /\ bitsInAcc <= WordBits
    BY <1>2, <1>3, <1>4
  <2>2. p + bitsInAcc >= 8 * bitWidth /\ bitWidth \in Nat /\ WordBits \in Nat
    BY <1>2, <1>3
  <2> HIDE DEF p
  <2>3. Stream(l, p, WordBits) = Stream(l, p, bitsInAcc)
    BY <2>1, <2>2, StreamEnd
  <2>4. Stream(l, p, WordBits) \subseteq Bits
    BY <1>2, <2>1, <2>2, StreamBits
  <2> QED BY <2>1, <2>3, <2>4 DEF LowWord
<1>6. payload \in Memory /\ wordIdx \in LaneWords
  BY <1>1, <1>2, <1>3 DEF TypeOK, Memory
<1>7. Pair(group) \subseteq Lanes
  BY <1>1, PairLanes
<1>8. CASE bitsInAcc > 0
  <2> DEFINE vec == [l \in Pair(group) |-> LowWord(acc[l])]
  <2>1. DOMAIN vec = Pair(group) /\ \A l \in Pair(group) : vec[l] = Stream(l, p, WordBits) /\ vec[l] \subseteq Bits
    BY <1>5 DEF LowWord
  <2>2. LastWord = With(payload, wordIdx, vec)
    BY <1>8 DEF LastWord
  <2> HIDE DEF vec
  <2>3. DOMAIN vec \subseteq Lanes /\ \A l \in DOMAIN vec : vec[l] \subseteq Bits
    BY <1>7, <2>1
  <2>4. /\ With(payload, wordIdx, vec) \in Memory
        /\ \A u \in LaneWords, l \in Lanes :
             With(payload, wordIdx, vec)[u][l] = IF u = wordIdx /\ l \in DOMAIN vec THEN vec[l] ELSE payload[u][l]
    BY <1>6, <2>3, WithLanes
  <2>5. wordIdx < PayloadWords
    <3>1. p < 8 * bitWidth
      BY <1>3, <1>4, <1>8
    <3>2. wordIdx \in Nat
      BY <1>3
    <3> QED BY <1>2, <3>1, <3>2, PayloadSize
  <2>6. \A w \in LaneWords, l \in Lanes :
          LastWord[w][l] = IF l \in Pair(group) /\ w = wordIdx /\ bitsInAcc > 0
                           THEN Stream(l, w * WordBits, WordBits) ELSE payload[w][l]
    BY <1>8, <2>1, <2>2, <2>4
  <2>7. ASSUME NEW w \in 0 .. PayloadWords - 1 PROVE w <= wordIdx
    <3>1. w * WordBits < 8 * bitWidth /\ w \in Nat /\ w * WordBits \in Nat
      BY <1>2, PayloadSize, Multiples
    <3>2. wordIdx < w => p + WordBits <= w * WordBits
      BY <1>2, <1>3, Multiples
    <3> QED BY <1>2, <1>3, <1>4, <3>1, <3>2
  <2>8. LastWord \in Memory
    BY <2>2, <2>4
  <2>9. \A w \in 0 .. PayloadWords - 1 : w < wordIdx \/ (w = wordIdx /\ bitsInAcc > 0)
    BY <1>3, <1>8, <2>7
  <2> QED BY <2>5, <2>6, <2>8, <2>9
<1>9. CASE bitsInAcc = 0
  <2>1. LastWord = payload
    BY <1>9 DEF LastWord
  <2>2. ASSUME NEW w \in 0 .. PayloadWords - 1 PROVE w < wordIdx
    <3>1. w * WordBits < 8 * bitWidth /\ w \in Nat /\ w * WordBits \in Nat
      BY <1>2, PayloadSize, Multiples
    <3>2. wordIdx <= w => p <= w * WordBits
      BY <1>2, <1>3, Multiples
    <3> QED BY <1>3, <1>4, <1>9, <3>1, <3>2
  <2> QED BY <1>6, <1>9, <2>1, <2>2
<1> QED BY <1>3, <1>8, <1>9

LEMMA PackPairEndStep ==
  ASSUME KernelInv, PackPairEnd
  PROVE  KernelInv'
<1>1. /\ pc = "pack" /\ Scalar /\ group < LaneCount \div 2 /\ row = 8
      /\ payload' = LastWord /\ group' = group + 1
      /\ row' = 0 /\ acc' = NoBits /\ bitsInAcc' = 0 /\ wordIdx' = 0
      /\ UNCHANGED <<pc, level, bitWidth, input, dst>>
  BY Sizes DEF PackPairEnd, Scalar
<1>2. TypeOK /\ LoopInv /\ bitWidth > 0
  BY <1>1 DEF KernelInv, LoopInv
<1>3. group \in 0 .. Groups - 1 /\ group \in 0 .. Groups /\ Groups \in 1 .. LaneCount
  <2>1. Groups = LaneCount \div 2
    BY <1>1 DEF Groups
  <2>2. Groups \in 1 .. LaneCount
    BY <1>2, LaneGroups
  <2> QED BY <1>1, <1>2, <2>1, <2>2 DEF LoopInv
<1>4. LanesOf(group) = Pair(group) /\ ~Unrolled /\ ~Generic
  BY <1>1, <1>2, <1>3, PairLanes
<1>5. PayloadWords \in 0 .. 8 /\ LaneWords = 0 .. 8 /\ WordBits \in Nat
  BY <1>2, LoopSizes
<1>6. /\ payload' \in Memory
      /\ \A w \in LaneWords, l \in Lanes :
           payload'[w][l] = IF l \in Pair(group) /\ w = wordIdx /\ bitsInAcc > 0
                            THEN Stream(l, w * WordBits, WordBits) ELSE payload[w][l]
      /\ \A w \in 0 .. PayloadWords - 1 : w < wordIdx \/ (w = wordIdx /\ bitsInAcc > 0)
  BY <1>1, <1>3, LastOfPair
<1>7. TypeOK'
  <2>1. group' \in 0 .. LaneCount /\ row' \in 0 .. utlValuesPerLane /\ bitsInAcc' \in 0 .. WordBits /\ wordIdx' \in LaneWords
    BY <1>1, <1>3, <1>5, Sizes
  <2>2. \A l \in Lanes : acc'[l] \subseteq 0 .. 2 * WordBits - 1
    BY <1>1 DEF NoBits
  <2> QED BY <1>1, <1>2, <1>6, <2>1, <2>2 DEF TypeOK, Memory
<1>8. LoopInv'
  <2>1. group + 1 \in 0 .. Groups
    BY <1>3
  <2> QED BY <1>1, <1>2, <1>4, <2>1, SameKernel DEF LoopInv, NoBits
<1>9. PackInv'
  <2> SUFFICES ASSUME NEW w \in 0 .. PayloadWords - 1, NEW l \in Lanes, Stored(w, l)'
               PROVE  payload'[w][l] = Stream(l, w * WordBits, WordBits)
    BY <1>1, <1>4, SameSlice, SameKernel DEF PackInv
  <2>1. w \in LaneWords /\ ~(w < 0)
    BY <1>5
  <2>2. Stored(w, l) => payload[w][l] = Stream(l, w * WordBits, WordBits)
    BY <1>1, <1>4 DEF KernelInv, PackInv
  <2>3. Finished(l) \/ l \in Pair(group)
    <3>1. Finished(l)' \/ w < wordIdx'
      BY <1>1, <1>4, SameKernel DEF Stored
    <3>2. Finished(l)' <=> Finished(l) \/ l \in LanesOf(group)
      BY <1>1, <1>2, <1>3, FinishedNext
    <3> QED BY <1>1, <1>4, <2>1, <3>1, <3>2
  <2>4. w < wordIdx \/ (w = wordIdx /\ bitsInAcc > 0)
    BY <1>6
  <2>5. CASE l \in Pair(group) /\ w = wordIdx /\ bitsInAcc > 0
    BY <1>6, <2>1, <2>5
  <2>6. CASE ~(l \in Pair(group) /\ w = wordIdx /\ bitsInAcc > 0)
    <3>1. Stored(w, l)
      BY <1>4, <2>3, <2>4, <2>6 DEF Stored
    <3> QED BY <1>6, <2>1, <2>2, <2>6, <3>1
  <2> QED BY <2>5, <2>6
<1>10. PayloadCanonical' /\ AccumulatorHoldsStream' /\ UnpackInv'
  BY <1>1 DEF PayloadCanonical, AccumulatorHoldsStream, UnpackInv
<1> QED BY <1>7, <1>8, <1>9, <1>10 DEF KernelInv

(* At the end of a loop every group is done, or every row.                 *)
LEMMA EndOfLoop ==
  ASSUME KernelInv, LoopEnded
  PROVE  (Generic /\ row = 8) \/ (~Generic /\ \A l \in Lanes : Finished(l))
<1>1. TypeOK /\ LoopInv
  BY DEF KernelInv
<1>2. CASE level # "scalar" /\ ~Unrolled /\ row = utlValuesPerLane
  BY <1>2, Sizes DEF Generic, Scalar
<1>3. CASE Unrolled /\ group = Vectors(level)
  <2>1. ~Generic /\ ~Scalar
    BY <1>3 DEF Generic, Scalar, Unrolled
  <2>2. group = Groups
    BY <1>3, <2>1 DEF Groups
  <2> QED BY <1>1, <2>1, <2>2, FinishedLanes DEF LoopInv
<1>4. CASE level = "scalar" /\ group = LaneCount \div 2
  <2>1. ~Generic /\ Scalar
    BY <1>4 DEF Generic, Scalar
  <2>2. group = Groups
    BY <1>4, <2>1 DEF Groups
  <2> QED BY <1>1, <2>1, <2>2, FinishedLanes DEF LoopInv
<1> QED BY <1>2, <1>3, <1>4 DEF LoopEnded

LEMMA RestartFacts ==
  ASSUME KernelInv, Restart, UNCHANGED <<level, bitWidth, input, payload, dst>>,
         pc' \in {"packed", "done"}
  PROVE  TypeOK' /\ LoopInv' /\ PackInv' /\ AccumulatorHoldsStream'
<1>1. /\ TypeOK /\ pc' \notin {"pack", "unpack"}
      /\ group' = 0 /\ row' = 0 /\ acc' = NoBits /\ bitsInAcc' = 0 /\ wordIdx' = 0
  BY DEF Restart, KernelInv
<1>2. TypeOK'
  <2>1. /\ group' \in 0 .. LaneCount /\ row' \in 0 .. utlValuesPerLane
        /\ bitsInAcc' \in 0 .. WordBits /\ wordIdx' \in LaneWords
    BY <1>1, Sizes
  <2>2. \A l \in Lanes : acc'[l] \subseteq 0 .. 2 * WordBits - 1
    BY <1>1 DEF NoBits
  <2> QED BY <1>1, <2>1, <2>2 DEF TypeOK
<1>3. LoopInv'
  <2>1. Groups \in 1 .. LaneCount /\ Groups' = Groups
    BY <1>1, LaneGroups, SameKernel
  <2> QED BY <1>1, <2>1 DEF LoopInv, NoBits
<1>4. PackInv' /\ AccumulatorHoldsStream'
  BY <1>1 DEF PackInv, AccumulatorHoldsStream
<1> QED BY <1>2, <1>3, <1>4

LEMMA EndPackStep ==
  ASSUME KernelInv, EndPack
  PROVE  KernelInv'
<1>1. /\ pc = "pack" /\ LoopEnded /\ pc' = "packed" /\ Restart
      /\ UNCHANGED <<level, bitWidth, input, payload, dst>>
  BY DEF EndPack, memory
<1>2. TypeOK' /\ LoopInv' /\ PackInv' /\ AccumulatorHoldsStream'
  BY <1>1, RestartFacts
<1>3. TypeOK /\ bitWidth > 0 /\ PackInv
  BY <1>1 DEF KernelInv, LoopInv
<1>4. WordBits \in Nat \ {0} /\ PayloadWords \in 0 .. 8
  BY <1>3, LoopSizes
<1>5. PayloadCanonical'
  <2> SUFFICES ASSUME NEW w \in 0 .. PayloadWords - 1, NEW l \in Lanes
               PROVE  payload[w][l] = Stream(l, w * WordBits, WordBits)
    BY <1>1, SameSlice DEF PayloadCanonical
  <2>1. CASE Generic /\ row = 8
    <3>1. payload[w][l] = {b \in Stream(l, w * WordBits, WordBits) : w * WordBits + b < 8 * bitWidth}
      BY <1>1, <1>3, <2>1 DEF PackInv
    <3>2. ASSUME NEW b \in Stream(l, w * WordBits, WordBits) PROVE w * WordBits + b < 8 * bitWidth
      <4>1. w \in Nat /\ WordBits \in Nat
        BY <1>4
      <4>2. w * WordBits \in Nat
        BY <4>1, Multiples
      <4>3. On(l, w * WordBits + b)
        BY <4>1, <4>2, InStream
      <4> QED BY <4>3 DEF On
    <3> QED BY <3>1, <3>2
  <2>2. CASE ~Generic /\ \A k \in Lanes : Finished(k)
    <3>1. Stored(w, l)
      BY <2>2 DEF Stored
    <3> QED BY <1>1, <1>3, <2>2, <3>1 DEF PackInv
  <2> QED BY <1>1, <2>1, <2>2, EndOfLoop
<1>6. UnpackInv'
  BY <1>1 DEF UnpackInv
<1> QED BY <1>2, <1>5, <1>6 DEF KernelInv

(* What holds of the level that the payload travels to.                    *)
LEMMA AnyLevel ==
  TypeOK => /\ Groups \in 1 .. LaneCount
            /\ Unrolled => PayloadWords \in 1 .. 8
            /\ bitWidth > 0 => \A v \in Rows : Layout(v).word \in 0 .. 7
<1> SUFFICES ASSUME TypeOK
             PROVE  /\ Groups \in 1 .. LaneCount
                    /\ Unrolled => PayloadWords \in 1 .. 8
                    /\ bitWidth > 0 => \A v \in Rows : Layout(v).word \in 0 .. 7
  OBVIOUS
<1>1. bitWidth > 0 => \A v \in Rows : Layout(v).word \in 0 .. 7
  BY LayoutFacts DEF Begins
<1> QED BY <1>1, LaneGroups, UnrolledWidth

LEMMA StartUnpackStep ==
  ASSUME KernelInv, StartUnpack
  PROVE  KernelInv'
<1>1. /\ pc = "packed" /\ bitWidth > 0 /\ pc' = "unpack" /\ level' \in Levels
      /\ UNCHANGED <<bitWidth, input, payload, dst, group, row, acc, bitsInAcc, wordIdx>>
  BY DEF StartUnpack, memory, loop
<1>2. TypeOK /\ LoopInv /\ group = 0 /\ row = 0
  BY <1>1 DEF KernelInv, LoopInv
<1>3. TypeOK'
  BY <1>1, <1>2 DEF TypeOK
<1>4. /\ Groups' \in 1 .. LaneCount
      /\ Unrolled' => PayloadWords' \in 1 .. 8
      /\ bitWidth' > 0 => \A v \in Rows : Layout(v)'.word \in 0 .. 7
  <2>1. (/\ Groups \in 1 .. LaneCount
         /\ Unrolled => PayloadWords \in 1 .. 8
         /\ bitWidth > 0 => \A v \in Rows : Layout(v).word \in 0 .. 7)'
    BY <1>3, AnyLevel, PTL
  <2> QED BY <2>1
<1>5. LoopInv'
  BY <1>1, <1>2, <1>4 DEF LoopInv, NoBits
<1>6. PayloadCanonical'
  BY <1>1, SameSlice DEF KernelInv, PayloadCanonical
<1>7. UnpackInv'
  <2> SUFFICES ASSUME NEW i \in Pos PROVE ~ValueRead(i \div LaneCount, i % LaneCount)'
    BY <1>1 DEF UnpackInv
  <2>1. /\ i \div LaneCount \in Rows /\ ~(i \div LaneCount < 0)
        /\ \A u \in 0 .. 7 : ~(0 > u)
    <3> DEFINE v == i \div LaneCount
    <3>1. v \in Rows
      BY PlaceOfPosition
    <3> HIDE DEF v
    <3>2. v \in Rows /\ ~(v < 0) /\ \A u \in 0 .. 7 : ~(0 > u)
      BY <3>1, Sizes
    <3> QED BY <3>2 DEF v
  <2>2. ~Finished(i % LaneCount)'
    BY <1>1, <1>2 DEF Finished
  <2>3. row' = 0 /\ ~(0 > Layout(i \div LaneCount)'.word)
    BY <1>1, <1>2, <1>4, <2>1
  <2> QED BY <2>1, <2>2, <2>3 DEF ValueRead
<1>8. PackInv' /\ AccumulatorHoldsStream'
  BY <1>1, <1>2 DEF PackInv, AccumulatorHoldsStream
<1> QED BY <1>3, <1>5, <1>6, <1>7, <1>8 DEF KernelInv

LEMMA UnpackNothingStep ==
  ASSUME KernelInv, UnpackNothing
  PROVE  KernelInv'
<1>1. /\ pc = "packed" /\ bitWidth = 0 /\ pc' = "done"
      /\ dst' = [i \in Pos |-> {}]
      /\ UNCHANGED <<level, bitWidth, input, payload, group, row, acc, bitsInAcc, wordIdx>>
  BY DEF UnpackNothing, loop
<1>2. TypeOK /\ LoopInv /\ group = 0 /\ row = 0
  BY <1>1 DEF KernelInv, LoopInv
<1>3. TypeOK'
  <2>1. dst' \in [Pos -> SUBSET Bits]
    BY <1>1, <1>2 DEF TypeOK
  <2> QED BY <1>1, <1>2, <2>1 DEF TypeOK
<1>4. LoopInv'
  BY <1>1, <1>2, SameKernel DEF LoopInv, NoBits
<1>5. PayloadCanonical'
  BY <1>1, SameSlice DEF KernelInv, PayloadCanonical
<1>6. UnpackInv'
  <2> SUFFICES ASSUME NEW i \in Pos
               PROVE  dst'[i] = Val(i \div LaneCount, i % LaneCount)
    BY <1>1, SameSlice DEF UnpackInv
  <2>1. Mask(bitWidth) = {}
    BY <1>1 DEF Mask
  <2>2. Val(i \div LaneCount, i % LaneCount) = {}
    BY <2>1 DEF Val
  <2> QED BY <1>1, <2>2
<1>7. PackInv' /\ AccumulatorHoldsStream'
  BY <1>1, <1>2 DEF PackInv, AccumulatorHoldsStream
<1> QED BY <1>3, <1>4, <1>5, <1>6, <1>7 DEF KernelInv

LEMMA ReadWhileUnpacking ==
  ASSUME KernelInv, pc = "unpack"
  PROVE  TypeOK /\ LoopInv /\ bitWidth > 0 /\ Canonical /\ UnpackInv
BY DEF KernelInv, LoopInv, PayloadCanonical, Canonical

LEMMA UnpackWordStep ==
  ASSUME KernelInv, UnpackWord
  PROVE  KernelInv'
<1>1. /\ pc = "unpack" /\ Unrolled /\ group < Vectors(level)
      /\ dst' = [i \in Pos |-> IF /\ i \div LaneCount \in valuesOf(row)
                                 /\ i % LaneCount \in VectorLanes(level, group)
                              THEN Extracted(i \div LaneCount, i % LaneCount) ELSE dst[i]]
      /\ IF row + 1 \in wordGroups
         THEN row' = row + 1 /\ group' = group
         ELSE row' = 0 /\ group' = group + 1
      /\ UNCHANGED <<pc, level, bitWidth, input, payload, acc, bitsInAcc, wordIdx>>
  BY DEF UnpackWord
<1>2. /\ TypeOK /\ bitWidth > 0 /\ ~Scalar /\ ~Generic /\ Groups = Vectors(level)
      /\ LanesOf(group) = VectorLanes(level, group)
      /\ group \in 0 .. Groups - 1 /\ row \in 0 .. PayloadWords - 1
      /\ acc = NoBits /\ bitsInAcc = 0 /\ wordIdx = 0 /\ Canonical
  <2>1. TypeOK /\ LoopInv /\ Canonical
    BY <1>1, ReadWhileUnpacking
  <2>2. ~Scalar /\ ~Generic
    BY <1>1 DEF Unrolled, Scalar, Generic
  <2>3. Groups = Vectors(level) /\ LanesOf(group) = VectorLanes(level, group)
    BY <2>2 DEF Groups, LanesOf
  <2>4. bitWidth > 0 /\ group \in 0 .. Groups /\ row < PayloadWords
        /\ acc = NoBits /\ bitsInAcc = 0 /\ wordIdx = 0
    BY <1>1, <2>1, <2>2 DEF LoopInv
  <2>5. row \in 0 .. 8 /\ PayloadWords \in 0 .. 8 /\ Groups \in Nat
    BY <2>1, <2>4, LaneGroups, LoopSizes
  <2>6. group \in 0 .. Groups - 1 /\ row \in 0 .. PayloadWords - 1
    BY <1>1, <2>3, <2>4, <2>5
  <2> QED BY <2>1, <2>2, <2>3, <2>4, <2>6
<1>3. PayloadWords \in 0 .. 8 /\ row \in Nat /\ row \in LaneWords
  <2>1. PayloadWords \in 0 .. 8 /\ LaneWords = 0 .. 8
    BY <1>2, LoopSizes
  <2> QED BY <1>2, <2>1
<1>4. \/ row + 1 \in 0 .. PayloadWords - 1 /\ row' = row + 1 /\ group' = group
      \/ row = PayloadWords - 1 /\ row' = 0 /\ group' = group + 1
  <2>1. wordGroups = 0 .. PayloadWords - 1
    BY <1>1, <1>2, StepWords
  <2> QED BY <1>1, <1>2, <1>3, <2>1
<1>5. group' \in 0 .. Groups /\ Groups \in 1 .. LaneCount /\ row' \in 0 .. PayloadWords - 1
      /\ (group' = Groups => row' = 0) /\ group \in 0 .. Groups
  BY <1>2, <1>3, <1>4, LaneGroups
<1>6. ASSUME NEW i \in Pos
      PROVE  LET v == i \div LaneCount
                 l == i % LaneCount
             IN  dst'[i] = IF Layout(v).word = row /\ l \in LanesOf(group) THEN Val(v, l) ELSE dst[i]
  <2> DEFINE v == i \div LaneCount
  <2> DEFINE l == i % LaneCount
  <2>1. v \in Rows /\ l \in Lanes
    BY PlaceOfPosition
  <2>2. dst'[i] = IF v \in valuesOf(row) /\ l \in LanesOf(group) THEN Extracted(v, l) ELSE dst[i]
    BY <1>1, <1>2
  <2> HIDE DEF v, l
  <2>3. v \in valuesOf(row) <=> Layout(v).word = row
    BY <2>1 DEF valuesOf
  <2>4. Extracted(v, l) = Val(v, l)
    BY <1>2, <2>1, ExtractedRow
  <2>5. dst'[i] = IF Layout(v).word = row /\ l \in LanesOf(group) THEN Val(v, l) ELSE dst[i]
    BY <2>2, <2>3, <2>4
  <2> QED BY <2>5 DEF v, l
<1>7. TypeOK'
  <2>1. group' \in 0 .. LaneCount /\ row' \in 0 .. utlValuesPerLane
    BY <1>3, <1>5, Sizes
  <2>2. dst' \in [Pos -> SUBSET Bits]
    <3>1. DOMAIN dst' = Pos /\ dst' = [i \in Pos |-> dst'[i]]
      BY <1>1
    <3>2. \A i \in Pos : dst'[i] \subseteq Bits
      <4>1. \A v, l : Val(v, l) \subseteq Bits
        BY <1>2, ValBits
      <4>2. \A i \in Pos : dst[i] \subseteq Bits
        BY <1>2 DEF TypeOK
      <4> QED BY <1>6, <4>1, <4>2
    <3> QED BY <3>1, <3>2
  <2> QED BY <1>1, <1>2, <2>1, <2>2 DEF TypeOK
<1>8. LoopInv'
  BY <1>1, <1>2, <1>3, <1>5, SameKernel, SameSlice DEF LoopInv, NoBits
<1>9. UnpackInv'
  <2> SUFFICES ASSUME NEW i \in Pos, ValueRead(i \div LaneCount, i % LaneCount)'
               PROVE  dst'[i] = Val(i \div LaneCount, i % LaneCount)
    BY <1>1, <1>2, SameSlice, SameKernel DEF UnpackInv
  <2> DEFINE v == i \div LaneCount
  <2> DEFINE l == i % LaneCount
  <2>1. v \in Rows /\ l \in Lanes
    BY PlaceOfPosition
  <2>2. dst'[i] = IF Layout(v).word = row /\ l \in LanesOf(group) THEN Val(v, l) ELSE dst[i]
    BY <1>6
  <2>3. ValueRead(v, l) => dst[i] = Val(v, l)
    BY <1>1, <1>2, ReadWhileUnpacking DEF UnpackInv
  <2>4. ValueRead(v, l)'
    OBVIOUS
  <2> HIDE DEF v, l
  <2>5. Finished(l)' \/ (l \in LanesOf(group') /\ row' > Layout(v).word)
    BY <1>1, <1>2, <2>4, SameKernel DEF ValueRead
  <2>6. ValueRead(v, l) <=> Finished(l) \/ (l \in LanesOf(group) /\ row > Layout(v).word)
    BY <1>1, <1>2 DEF ValueRead
  <2>7. Layout(v).word \in 0 .. PayloadWords - 1
    <3>1. Begins(Layout(v), v) /\ Layout(v).word < PayloadWords
      BY <1>2, <2>1, LayoutFacts
    <3> QED BY <1>3, <3>1 DEF Begins
  <2>8. CASE row' = row + 1 /\ group' = group
    <3>1. Finished(l)' <=> Finished(l)
      BY <1>1, <1>2, <1>5, <2>8, FinishedNext
    <3>2. row + 1 > Layout(v).word => Layout(v).word = row \/ row > Layout(v).word
      BY <1>3, <2>7
    <3> QED BY <2>2, <2>3, <2>5, <2>6, <2>8, <3>1, <3>2 DEF v, l
  <2>9. CASE row = PayloadWords - 1 /\ row' = 0 /\ group' = group + 1
    <3>1. Finished(l)' <=> Finished(l) \/ l \in LanesOf(group)
      BY <1>1, <1>2, <1>5, <2>1, <2>9, FinishedNext
    <3>2. ~(0 > Layout(v).word) /\ (Layout(v).word = row \/ row > Layout(v).word)
      BY <1>3, <2>7, <2>9
    <3> QED BY <2>2, <2>3, <2>5, <2>6, <2>9, <3>1, <3>2 DEF v, l
  <2> QED BY <1>4, <2>8, <2>9
<1>10. PayloadCanonical'
  BY <1>1, SameSlice DEF KernelInv, PayloadCanonical
<1>11. PackInv' /\ AccumulatorHoldsStream'
  BY <1>1, <1>2 DEF PackInv, AccumulatorHoldsStream, Scalar
<1> QED BY <1>7, <1>8, <1>9, <1>10, <1>11 DEF KernelInv

LEMMA UnpackRowStep ==
  ASSUME KernelInv, UnpackRow
  PROVE  KernelInv'
<1>1. /\ pc = "unpack" /\ level # "scalar" /\ ~Unrolled /\ row < 8
      /\ dst' = WithRow(row, [l \in Lanes |-> Extracted(row, l)])
      /\ row' = row + 1
      /\ UNCHANGED <<pc, level, bitWidth, input, payload, group, acc, bitsInAcc, wordIdx>>
  BY Sizes DEF UnpackRow
<1>2. /\ TypeOK /\ bitWidth > 0 /\ Generic /\ ~Scalar /\ group = 0 /\ Canonical
      /\ acc = NoBits /\ bitsInAcc = 0 /\ wordIdx = 0 /\ 0 # Groups /\ LoopInv
  <2>1. TypeOK /\ LoopInv /\ Generic /\ ~Scalar /\ Canonical /\ bitWidth > 0
    BY <1>1, ReadWhileUnpacking DEF Generic, Scalar
  <2>2. Groups \in 1 .. LaneCount
    BY <2>1, LaneGroups
  <2> QED BY <1>1, <2>1, <2>2 DEF LoopInv
<1>3. row \in 0 .. 7 /\ row \in Rows
  BY <1>1, <1>2, LoopSizes
<1>4. ASSUME NEW i \in Pos
      PROVE  LET v == i \div LaneCount
                 l == i % LaneCount
             IN  dst'[i] = IF v = row THEN Val(v, l) ELSE dst[i]
  <2> DEFINE v == i \div LaneCount
  <2> DEFINE l == i % LaneCount
  <2>1. v \in Rows /\ l \in Lanes
    BY PlaceOfPosition
  <2>2. dst'[i] = IF v = row THEN Extracted(row, l) ELSE dst[i]
    BY <1>1, <2>1 DEF WithRow
  <2> HIDE DEF v, l
  <2>3. v = row => Extracted(row, l) = Val(v, l)
    BY <1>2, <2>1, ExtractedRow
  <2>4. dst'[i] = IF v = row THEN Val(v, l) ELSE dst[i]
    BY <2>2, <2>3
  <2> QED BY <2>4 DEF v, l
<1>5. TypeOK'
  <2>1. row' \in 0 .. utlValuesPerLane
    BY <1>1, <1>3, Sizes
  <2>2. dst' \in [Pos -> SUBSET Bits]
    <3>1. DOMAIN dst' = Pos /\ dst' = [i \in Pos |-> dst'[i]]
      BY <1>1 DEF WithRow
    <3>2. \A i \in Pos : dst'[i] \subseteq Bits
      <4>1. \A v, l : Val(v, l) \subseteq Bits
        BY <1>2, ValBits
      <4>2. \A i \in Pos : dst[i] \subseteq Bits
        BY <1>2 DEF TypeOK
      <4> QED BY <1>4, <4>1, <4>2
    <3> QED BY <3>1, <3>2
  <2> QED BY <1>1, <1>2, <2>1, <2>2 DEF TypeOK
<1>6. LoopInv'
  BY <1>1, <1>2, SameKernel, SameSlice DEF LoopInv, NoBits
<1>7. UnpackInv'
  <2> SUFFICES ASSUME NEW i \in Pos, ValueRead(i \div LaneCount, i % LaneCount)'
               PROVE  dst'[i] = Val(i \div LaneCount, i % LaneCount)
    BY <1>1, <1>2, SameSlice, SameKernel DEF UnpackInv
  <2> DEFINE v == i \div LaneCount
  <2> DEFINE l == i % LaneCount
  <2>1. v \in Rows /\ l \in Lanes
    BY PlaceOfPosition
  <2>2. dst'[i] = IF v = row THEN Val(v, l) ELSE dst[i]
    BY <1>4
  <2>3. v < row => dst[i] = Val(v, l)
    <3>1. v < row => ValueRead(v, l)
      BY <1>2, Zenon DEF ValueRead
    <3> QED BY <1>1, <1>2, <3>1, ReadWhileUnpacking DEF UnpackInv
  <2>4. ValueRead(v, l)'
    OBVIOUS
  <2> HIDE DEF v, l
  <2>5. v < row + 1
    BY <1>1, <1>2, <2>4, SameKernel DEF ValueRead
  <2>6. v = row \/ v < row
    BY <1>3, <2>1, <2>5, Sizes
  <2>7. dst'[i] = Val(v, l)
    BY <2>2, <2>3, <2>6
  <2> QED BY <2>7 DEF v, l
<1>8. PayloadCanonical'
  BY <1>1, SameSlice DEF KernelInv, PayloadCanonical
<1>9. PackInv' /\ AccumulatorHoldsStream'
  BY <1>1, <1>2 DEF PackInv, AccumulatorHoldsStream, Scalar
<1> QED BY <1>5, <1>6, <1>7, <1>8, <1>9 DEF KernelInv

(* What the scalar reader's accumulators hold.                             *)
LEMMA ReadSoFar ==
  ASSUME KernelInv, pc = "unpack", Scalar, group < Groups
  PROVE  /\ wordIdx \in 0 .. 8 /\ bitsInAcc \in 0 .. WordBits - 1
         /\ wordIdx * WordBits = row * bitWidth + bitsInAcc
         /\ \A l \in Pair(group) : acc[l] = Stream(l, row * bitWidth, bitsInAcc)
<1>1. TypeOK /\ LoopInv /\ AccumulatorHoldsStream /\ bitWidth > 0
  BY DEF KernelInv, LoopInv
<1>2. wordIdx \in 0 .. 8 /\ bitsInAcc \in 0 .. WordBits /\ WordBits \in Nat \ {0} /\ bitWidth \in Nat /\ row \in 0 .. 8
  BY <1>1, LoopSizes
<1>3. wordIdx * WordBits \in Nat /\ row * bitWidth \in Nat
  BY <1>2, Multiples
<1>4. CASE row > 0
  <2>1. /\ wordIdx * WordBits - bitsInAcc = row * bitWidth /\ bitsInAcc < WordBits
        /\ \A l \in Pair(group) : acc[l] = Stream(l, row * bitWidth, bitsInAcc)
    BY <1>1, <1>4 DEF AccumulatorHoldsStream, Scalar
  <2> QED BY <1>2, <1>3, <2>1
<1>5. CASE row = 0
  <2>1. acc = NoBits /\ bitsInAcc = 0 /\ wordIdx = 0
    BY <1>1, <1>5 DEF LoopInv
  <2>2. Pair(group) \subseteq Lanes
    <3>1. group \in 0 .. Groups - 1
      BY <1>1, LaneGroups DEF LoopInv
    <3> QED BY <1>1, <3>1, PairLanes
  <2>3. wordIdx * WordBits = 0 /\ row * bitWidth = 0
    BY <1>2, <1>5, <2>1
  <2>4. \A l : Stream(l, 0, 0) = {}
    BY StreamBits
  <2> QED BY <1>2, <2>1, <2>2, <2>3, <2>4 DEF NoBits
<1> QED BY <1>2, <1>4, <1>5

(* A refilled accumulator holds the next row.  The loop never comes to the *)
(* end of the payload with too few bits.                                   *)
LEMMA RefilledFacts ==
  ASSUME KernelInv, pc = "unpack", Scalar, group < Groups, row < 8
  PROVE  /\ Refilled.bits \in bitWidth .. WordBits + bitWidth - 1
         /\ Refilled.word \in 0 .. 8
         /\ Refilled.word * WordBits = row * bitWidth + Refilled.bits
         /\ \A l \in Pair(group) : Refilled.acc[l] = Stream(l, row * bitWidth, Refilled.bits)
<1>1. TypeOK /\ bitWidth > 0 /\ Canonical /\ group \in 0 .. Groups - 1
  <2>1. TypeOK /\ LoopInv /\ bitWidth > 0 /\ Canonical
    BY ReadWhileUnpacking
  <2> QED BY <2>1, LaneGroups DEF LoopInv
<1>2. /\ bitWidth \in 1 .. WordBits /\ bitWidth \in 0 .. WordBits /\ WordBits \in Nat \ {0}
      /\ PayloadWords \in 0 .. 8 /\ row \in 0 .. 7
  BY <1>1, LoopSizes
<1> DEFINE q == row * bitWidth
<1>3. /\ wordIdx \in 0 .. 8 /\ bitsInAcc \in 0 .. WordBits - 1
      /\ wordIdx * WordBits = q + bitsInAcc
      /\ \A l \in Pair(group) : acc[l] = Stream(l, q, bitsInAcc)
  BY ReadSoFar
<1>4. q \in Nat /\ q + bitWidth <= 8 * bitWidth /\ (wordIdx + 1) * WordBits = wordIdx * WordBits + WordBits
  <2>1. q \in Nat /\ q + bitWidth <= 8 * bitWidth
    BY <1>2, Multiples
  <2>2. (wordIdx + 1) * WordBits = wordIdx * WordBits + WordBits
    BY <1>2, <1>3, Multiples
  <2> QED BY <2>1, <2>2
<1>5. Pair(group) \subseteq Lanes
  BY <1>1, PairLanes
<1> HIDE DEF q
<1>6. CASE bitsInAcc >= bitWidth
  <2>1. Refilled.acc = acc /\ Refilled.bits = bitsInAcc /\ Refilled.word = wordIdx
    BY <1>6 DEF Refilled
  <2>2. bitsInAcc \in bitWidth .. WordBits + bitWidth - 1
    BY <1>2, <1>3, <1>6
  <2> QED BY <1>3, <2>1, <2>2 DEF q
<1>7. CASE bitsInAcc < bitWidth
  <2>1. wordIdx < PayloadWords
    <3>1. wordIdx * WordBits < 8 * bitWidth
      BY <1>2, <1>3, <1>4, <1>7
    <3>2. wordIdx \in Nat
      BY <1>3
    <3> QED BY <1>2, <3>1, <3>2, PayloadSize
  <2>2. ~(bitsInAcc >= bitWidth)
    BY <1>2, <1>3, <1>7
  <2>3. /\ Refilled.acc = [l \in Pair(group) |-> acc[l] \cup ShiftLeft(payload[wordIdx][l], bitsInAcc)]
        /\ Refilled.bits = bitsInAcc + WordBits /\ Refilled.word = wordIdx + 1
    BY <2>1, <2>2 DEF Refilled
  <2>4. ASSUME NEW l \in Pair(group) PROVE Refilled.acc[l] = Stream(l, q, bitsInAcc + WordBits)
    <3>1. wordIdx \in 0 .. PayloadWords - 1 /\ l \in Lanes
      BY <1>2, <1>3, <1>5, <2>1
    <3>2. payload[wordIdx][l] = Stream(l, wordIdx * WordBits, WordBits)
      BY <1>1, <3>1 DEF Canonical
    <3>3. Refilled.acc[l] = Stream(l, q, bitsInAcc) \cup ShiftLeft(Stream(l, q + bitsInAcc, WordBits), bitsInAcc)
      BY <1>3, <2>3, <3>2
    <3>4. q \in Nat /\ bitsInAcc \in Nat /\ WordBits \in Nat
      BY <1>2, <1>3, <1>4
    <3>5. Stream(l, q, bitsInAcc) \cup ShiftLeft(Stream(l, q + bitsInAcc, WordBits), bitsInAcc)
            = Stream(l, q, bitsInAcc + WordBits)
      <4>1. \A y \in Nat, z \in Nat, m \in Nat :
              Stream(l, y, z) \cup ShiftLeft(Stream(l, y + z, m), z) = Stream(l, y, z + m)
        BY StreamJoin
      <4> QED BY <3>4, <4>1
    <3> QED BY <3>3, <3>5
  <2>5. /\ bitsInAcc + WordBits \in bitWidth .. WordBits + bitWidth - 1
        /\ wordIdx + 1 \in 0 .. 8
        /\ (wordIdx + 1) * WordBits = q + (bitsInAcc + WordBits)
    BY <1>2, <1>3, <1>4, <1>7, <2>1
  <2> QED BY <2>3, <2>4, <2>5 DEF q
<1> QED BY <1>2, <1>3, <1>6, <1>7

LEMMA UnpackPairRowStep ==
  ASSUME KernelInv, UnpackPairRow
  PROVE  KernelInv'
<1>1. /\ pc = "unpack" /\ Scalar /\ group < LaneCount \div 2 /\ row < 8 /\ row' = row + 1
      /\ UNCHANGED <<pc, level, bitWidth, input, payload, group>>
  BY Sizes DEF UnpackPairRow, Scalar
<1>2. TypeOK /\ LoopInv /\ bitWidth > 0
  BY <1>1, ReadWhileUnpacking
<1>3. group \in 0 .. Groups - 1 /\ Groups \in 1 .. LaneCount /\ group \in 0 .. Groups
  <2>1. Groups = LaneCount \div 2
    BY <1>1 DEF Groups
  <2>2. Groups \in 1 .. LaneCount
    BY <1>2, LaneGroups
  <2> QED BY <1>1, <1>2, <2>1, <2>2 DEF LoopInv
<1>4. /\ Pair(group) \subseteq Lanes /\ LanesOf(group) = Pair(group) /\ ~Unrolled /\ ~Generic
  BY <1>1, <1>2, <1>3, PairLanes
<1>5. /\ bitWidth \in 1 .. WordBits /\ WordBits \in Nat \ {0} /\ row \in 0 .. 7 /\ row \in Rows
      /\ LaneWords = 0 .. 8
  BY <1>1, <1>2, LoopSizes
<1> DEFINE q == row * bitWidth
<1>6. PICK n \in Nat, u \in 0 .. 8 :
        /\ n = Refilled.bits /\ u = Refilled.word /\ n \in bitWidth .. WordBits + bitWidth - 1
        /\ u * WordBits = q + n
        /\ \A l \in Pair(group) : Refilled.acc[l] = Stream(l, q, n)
  <2>1. /\ Refilled.bits \in bitWidth .. WordBits + bitWidth - 1
        /\ Refilled.word \in 0 .. 8
        /\ Refilled.word * WordBits = row * bitWidth + Refilled.bits
        /\ \A l \in Pair(group) : Refilled.acc[l] = Stream(l, row * bitWidth, Refilled.bits)
    BY <1>1, <1>3, RefilledFacts
  <2>2. Refilled.bits \in Nat
    BY <1>5, <2>1
  <2> QED BY <2>1, <2>2
<1>7. /\ dst' = WithRow(row, [l \in Pair(group) |-> Refilled.acc[l] \cap Mask(bitWidth)])
      /\ acc' = [l \in Lanes |-> IF l \in Pair(group) THEN ShiftRight(Refilled.acc[l], bitWidth) ELSE {}]
      /\ bitsInAcc' = n - bitWidth
      /\ wordIdx' = u
  BY <1>6 DEF UnpackPairRow
<1>8. q \in Nat /\ (row + 1) * bitWidth = q + bitWidth
  BY <1>5, Multiples
<1>9. ASSUME NEW l \in Pair(group)
      PROVE  /\ Refilled.acc[l] \cap Mask(bitWidth) = Val(row, l)
             /\ ShiftRight(Refilled.acc[l], bitWidth) = Stream(l, q + bitWidth, n - bitWidth)
  <2>1. Refilled.acc[l] = Stream(l, q, n) /\ bitWidth \in 0 .. n
    BY <1>5, <1>6
  <2>2. Stream(l, q, bitWidth) = Val(row, l)
    BY <1>2, <1>5, StreamOfRow
  <2> HIDE DEF q
  <2>3. \A m \in 0 .. n : /\ Stream(l, q, n) \cap (0 .. m - 1) = Stream(l, q, m)
                          /\ ShiftRight(Stream(l, q, n), m) = Stream(l, q + m, n - m)
    <3>1. \A y \in Nat, z \in Nat : \A m \in 0 .. z :
            /\ Stream(l, y, z) \cap (0 .. m - 1) = Stream(l, y, m)
            /\ ShiftRight(Stream(l, y, z), m) = Stream(l, y + m, z - m)
      BY StreamCut
    <3>2. q \in Nat
      BY <1>8
    <3> QED BY <3>1, <3>2
  <2>4. Stream(l, q, n) \cap (0 .. bitWidth - 1) = Stream(l, q, bitWidth)
        /\ ShiftRight(Stream(l, q, n), bitWidth) = Stream(l, q + bitWidth, n - bitWidth)
    BY <2>1, <2>3
  <2> QED BY <2>1, <2>2, <2>4 DEF Mask
<1>10. n - bitWidth \in 0 .. WordBits - 1 /\ u * WordBits - (n - bitWidth) = (row + 1) * bitWidth
  <2> HIDE DEF q
  <2> QED BY <1>5, <1>6, <1>8
<1>11. \A l \in Pair(group) : acc'[l] = Stream(l, (row + 1) * bitWidth, n - bitWidth)
  BY <1>4, <1>7, <1>8, <1>9
<1>12. ASSUME NEW i \in Pos
       PROVE  LET v == i \div LaneCount
                  l == i % LaneCount
              IN  dst'[i] = IF v = row /\ l \in Pair(group) THEN Val(v, l) ELSE dst[i]
  BY <1>7, <1>9 DEF WithRow
<1>13. TypeOK'
  <2>1. dst' \in [Pos -> SUBSET Bits]
    <3>1. DOMAIN dst' = Pos /\ dst' = [i \in Pos |-> dst'[i]]
      BY <1>7 DEF WithRow
    <3>2. \A i \in Pos : dst'[i] \subseteq Bits
      <4>1. \A v, l : Val(v, l) \subseteq Bits
        BY <1>2, ValBits
      <4>2. \A i \in Pos : dst[i] \subseteq Bits
        BY <1>2 DEF TypeOK
      <4> QED BY <1>12, <4>1, <4>2
    <3> QED BY <3>1, <3>2
  <2>2. \A l \in Lanes : acc'[l] \subseteq 0 .. 2 * WordBits - 1
    <3>1. \A l : Stream(l, (row + 1) * bitWidth, n - bitWidth) \subseteq 0 .. (n - bitWidth) - 1
      <4>1. (row + 1) * bitWidth \in Nat /\ n - bitWidth \in Nat
        BY <1>5, <1>8, <1>10
      <4> QED BY <4>1, StreamBits
    <3>2. 0 .. (n - bitWidth) - 1 \subseteq 0 .. 2 * WordBits - 1
      BY <1>5, <1>10
    <3>3. \A l \in Lanes : l \notin Pair(group) => acc'[l] = {}
      BY <1>7
    <3> QED BY <1>11, <3>1, <3>2, <3>3
  <2>3. row' \in 0 .. utlValuesPerLane /\ bitsInAcc' \in 0 .. WordBits /\ wordIdx' \in LaneWords
    <3>1. row' \in 0 .. 8 /\ utlValuesPerLane = 8
      BY <1>1, <1>5, Sizes
    <3>2. n - bitWidth \in 0 .. WordBits
      BY <1>5, <1>10
    <3> QED BY <1>5, <1>6, <1>7, <3>1, <3>2
  <2> QED BY <1>1, <1>2, <2>1, <2>2, <2>3 DEF TypeOK
<1>14. LoopInv'
  <2>1. row' # 0 /\ group # Groups
    BY <1>1, <1>3, <1>5
  <2> QED BY <1>1, <1>2, <1>3, <1>4, <2>1, SameKernel DEF LoopInv
<1>15. AccumulatorHoldsStream'
  <2>1. wordIdx' * WordBits - bitsInAcc' = row' * bitWidth' /\ bitsInAcc' < WordBits
    <3>1. n - bitWidth < WordBits
      BY <1>5, <1>10
    <3> QED BY <1>1, <1>7, <1>10, <3>1
  <2>2. \A l \in Pair(group) : acc'[l] = Stream(l, row * bitWidth, bitsInAcc)'
    BY <1>1, <1>7, <1>11, SameSlice
  <2>3. Pair(group)' = Pair(group) /\ pc' # "pack"
    BY <1>1 DEF Pair
  <2> QED BY <2>1, <2>2, <2>3, Zenon DEF AccumulatorHoldsStream
<1>16. UnpackInv'
  <2> SUFFICES ASSUME NEW i \in Pos, ValueRead(i \div LaneCount, i % LaneCount)'
               PROVE  dst'[i] = Val(i \div LaneCount, i % LaneCount)
    BY <1>1, SameSlice, SameKernel DEF UnpackInv
  <2> DEFINE v == i \div LaneCount
  <2> DEFINE l == i % LaneCount
  <2>1. v \in Rows /\ l \in Lanes
    BY PlaceOfPosition
  <2>2. dst'[i] = IF v = row /\ l \in Pair(group) THEN Val(v, l) ELSE dst[i]
    BY <1>12
  <2>3. ValueRead(v, l) => dst[i] = Val(v, l)
    BY <1>1, ReadWhileUnpacking DEF UnpackInv
  <2>4. ValueRead(v, l)'
    OBVIOUS
  <2> HIDE DEF v, l
  <2>5. Finished(l)' \/ (l \in Pair(group) /\ row + 1 > v)
    BY <1>1, <1>4, <2>4, SameKernel DEF ValueRead
  <2>6. ValueRead(v, l) <=> Finished(l) \/ (l \in Pair(group) /\ row > v)
    BY <1>1, <1>4 DEF ValueRead
  <2>7. Finished(l)' <=> Finished(l)
    BY <1>1, <1>2, <1>3, FinishedNext
  <2>8. row + 1 > v => v = row \/ row > v
    BY <1>5, <2>1, Sizes
  <2>9. dst'[i] = Val(v, l)
    BY <2>2, <2>3, <2>5, <2>6, <2>7, <2>8
  <2> QED BY <2>9 DEF v, l
<1>17. PackInv' /\ PayloadCanonical'
  BY <1>1, SameSlice DEF KernelInv, PackInv, PayloadCanonical
<1> QED BY <1>13, <1>14, <1>15, <1>16, <1>17 DEF KernelInv

LEMMA UnpackPairEndStep ==
  ASSUME KernelInv, UnpackPairEnd
  PROVE  KernelInv'
<1>1. /\ pc = "unpack" /\ Scalar /\ group < LaneCount \div 2 /\ row = 8
      /\ group' = group + 1
      /\ row' = 0 /\ acc' = NoBits /\ bitsInAcc' = 0 /\ wordIdx' = 0
      /\ UNCHANGED <<pc, level, bitWidth, input, payload, dst>>
  BY Sizes DEF UnpackPairEnd, Scalar, memory
<1>2. TypeOK /\ LoopInv /\ bitWidth > 0
  BY <1>1, ReadWhileUnpacking
<1>3. group \in 0 .. Groups - 1 /\ group \in 0 .. Groups /\ Groups \in 1 .. LaneCount
  <2>1. Groups = LaneCount \div 2
    BY <1>1 DEF Groups
  <2>2. Groups \in 1 .. LaneCount
    BY <1>2, LaneGroups
  <2> QED BY <1>1, <1>2, <2>1, <2>2 DEF LoopInv
<1>4. LanesOf(group) = Pair(group) /\ ~Unrolled /\ ~Generic
  BY <1>1, <1>2, <1>3, PairLanes
<1>5. LaneWords = 0 .. 8 /\ WordBits \in Nat
  BY <1>2, LoopSizes
<1>6. TypeOK'
  <2>1. group' \in 0 .. LaneCount /\ row' \in 0 .. utlValuesPerLane /\ bitsInAcc' \in 0 .. WordBits /\ wordIdx' \in LaneWords
    BY <1>1, <1>3, <1>5, Sizes
  <2>2. \A l \in Lanes : acc'[l] \subseteq 0 .. 2 * WordBits - 1
    BY <1>1 DEF NoBits
  <2> QED BY <1>1, <1>2, <2>1, <2>2 DEF TypeOK
<1>7. LoopInv'
  <2>1. group + 1 \in 0 .. Groups
    BY <1>3
  <2> QED BY <1>1, <1>2, <1>4, <2>1, SameKernel DEF LoopInv, NoBits
<1>8. UnpackInv'
  <2> SUFFICES ASSUME NEW i \in Pos, ValueRead(i \div LaneCount, i % LaneCount)'
               PROVE  dst[i] = Val(i \div LaneCount, i % LaneCount)
    BY <1>1, SameSlice, SameKernel DEF UnpackInv
  <2> DEFINE v == i \div LaneCount
  <2> DEFINE l == i % LaneCount
  <2>1. v \in Rows /\ l \in Lanes
    BY PlaceOfPosition
  <2>2. ValueRead(v, l) => dst[i] = Val(v, l)
    BY <1>1, ReadWhileUnpacking DEF UnpackInv
  <2>3. ValueRead(v, l)'
    OBVIOUS
  <2> HIDE DEF v, l
  <2>4. Finished(l)' \/ 0 > v
    BY <1>1, <1>4, <2>3, SameKernel DEF ValueRead
  <2>5. ValueRead(v, l) <=> Finished(l) \/ (l \in Pair(group) /\ row > v)
    BY <1>1, <1>4 DEF ValueRead
  <2>6. Finished(l)' <=> Finished(l) \/ l \in Pair(group)
    BY <1>1, <1>2, <1>3, <1>4, <2>1, FinishedNext
  <2>7. ~(0 > v) /\ row > v
    BY <1>1, <2>1, Sizes
  <2>8. dst[i] = Val(v, l)
    BY <2>2, <2>4, <2>5, <2>6, <2>7
  <2> QED BY <2>8 DEF v, l
<1>9. PackInv' /\ PayloadCanonical' /\ AccumulatorHoldsStream'
  BY <1>1, SameSlice DEF KernelInv, PackInv, PayloadCanonical, AccumulatorHoldsStream
<1> QED BY <1>6, <1>7, <1>8, <1>9 DEF KernelInv

LEMMA EndUnpackStep ==
  ASSUME KernelInv, EndUnpack
  PROVE  KernelInv'
<1>1. /\ pc = "unpack" /\ LoopEnded /\ pc' = "done" /\ Restart
      /\ UNCHANGED <<level, bitWidth, input, payload, dst>>
  BY DEF EndUnpack, memory
<1>2. TypeOK' /\ LoopInv' /\ PackInv' /\ AccumulatorHoldsStream'
  BY <1>1, RestartFacts
<1>3. UnpackInv'
  <2> SUFFICES ASSUME NEW i \in Pos
               PROVE  dst[i] = Val(i \div LaneCount, i % LaneCount)
    BY <1>1, SameSlice DEF UnpackInv
  <2> DEFINE v == i \div LaneCount
  <2> DEFINE l == i % LaneCount
  <2>1. v \in Rows /\ l \in Lanes
    BY PlaceOfPosition
  <2>2. ValueRead(v, l) => dst[i] = Val(v, l)
    BY <1>1, ReadWhileUnpacking DEF UnpackInv
  <2> HIDE DEF v, l
  <2>3. CASE Generic /\ row = 8
    <3>1. v < 8
      BY <2>1, Sizes
    <3>2. ValueRead(v, l)
      BY <2>3, <3>1 DEF ValueRead
    <3> QED BY <2>2, <3>2 DEF v, l
  <2>4. CASE ~Generic /\ \A k \in Lanes : Finished(k)
    <3>1. ValueRead(v, l)
      BY <2>1, <2>4 DEF ValueRead
    <3> QED BY <2>2, <3>1 DEF v, l
  <2> QED BY <1>1, <2>3, <2>4, EndOfLoop
<1>4. PayloadCanonical'
  BY <1>1, SameSlice DEF KernelInv, PayloadCanonical
<1> QED BY <1>2, <1>3, <1>4 DEF KernelInv

LEMMA KernelStutter ==
  ASSUME KernelInv, UNCHANGED vars
  PROVE  KernelInv'
<1>1. UNCHANGED <<pc, level, bitWidth, input, payload, dst, group, row, acc, bitsInAcc, wordIdx>>
  BY DEF vars
<1>2. TypeOK'
  BY <1>1 DEF KernelInv, TypeOK
<1>3. LoopInv'
  BY <1>1, SameKernel, SameSlice DEF KernelInv, LoopInv, NoBits
<1>4. TypeOK /\ group \in 0 .. Groups
  BY DEF KernelInv, LoopInv
<1>5. \A l : Finished(l)' <=> Finished(l)
  BY <1>1, <1>4, FinishedNext
<1>6. PackInv'
  <2>1. PackInv
    BY DEF KernelInv
  <2>2. \A w, l : Stored(w, l)' <=> Stored(w, l)
    BY <1>1, <1>5, SameKernel DEF Stored
  <2>3. \A w, l : {b \in Stream(l, w * WordBits, WordBits)' : w * WordBits + b < row' * bitWidth'}
                  = {b \in Stream(l, w * WordBits, WordBits) : w * WordBits + b < row * bitWidth}
    BY <1>1, SameSlice
  <2>4. \A w, l : Stream(l, w * WordBits, WordBits)' = Stream(l, w * WordBits, WordBits)
    BY <1>1, SameSlice
  <2>5. (Generic' <=> Generic) /\ PayloadWords' = PayloadWords
    BY <1>1, SameSlice, SameKernel
  <2> SUFFICES ASSUME pc = "pack", NEW w \in 0 .. PayloadWords - 1, NEW l \in Lanes
               PROVE  IF Generic'
                      THEN payload'[w][l] = {b \in Stream(l, w * WordBits, WordBits)' :
                                               w * WordBits + b < row' * bitWidth'}
                      ELSE Stored(w, l)' => payload'[w][l] = Stream(l, w * WordBits, WordBits)'
    BY <1>1, <2>5, Zenon DEF PackInv
  <2> QED BY <1>1, <2>1, <2>2, <2>3, <2>4, <2>5 DEF PackInv
<1>7. PayloadCanonical'
  BY <1>1, SameSlice DEF KernelInv, PayloadCanonical
<1>8. AccumulatorHoldsStream'
  BY <1>1, SameSlice DEF KernelInv, AccumulatorHoldsStream, Pair
<1>9. UnpackInv'
  <2>1. \A v, l : ValueRead(v, l)' <=> ValueRead(v, l)
    BY <1>1, <1>5, SameKernel DEF ValueRead
  <2>2. UnpackInv /\ (Scalar' <=> Scalar) /\ \A v, l : Val(v, l)' = Val(v, l)
    BY <1>1, SameKernel, SameSlice DEF KernelInv
  <2> QED BY <1>1, <2>1, <2>2 DEF UnpackInv
<1> QED BY <1>2, <1>3, <1>6, <1>7, <1>8, <1>9 DEF KernelInv

-----------------------------------------------------------------------------
(* The theorems. *)

LEMMA KernelStep == KernelInv /\ [Next]_vars => KernelInv'
<1> SUFFICES ASSUME KernelInv, [Next]_vars PROVE KernelInv'
  OBVIOUS
<1>1. CASE Pack
  BY <1>1, PackNothingStep, StartPackStep, PackWordStep, PackRowStep, PackPairRowStep,
     PackPairEndStep, EndPackStep DEF Pack
<1>2. CASE Unpack
  BY <1>2, StartUnpackStep, UnpackNothingStep, UnpackWordStep, UnpackRowStep, UnpackPairRowStep,
     UnpackPairEndStep, EndUnpackStep DEF Unpack
<1>3. CASE UNCHANGED vars
  BY <1>3, KernelStutter
<1> QED BY <1>1, <1>2, <1>3 DEF Next

(* At every turn of every loop the words that a kernel has stored are the  *)
(* lanes' streams, whatever the buffer held, and the values that a kernel  *)
(* has read are those that were packed (scalar.go:20-115,                  *)
(* simd_spec_amd64.go:16-1862, simd_sse2_amd64.go:13-113).                 *)
THEOREM KernelsInvariance == Spec => []KernelInv
<1> QED BY KernelInit, KernelStep, PTL DEF Spec

(* Every kernel of every level packs the same payload, which the format    *)
(* alone determines; no stale bit survives (simd_sse2_amd64.go:82-88,      *)
(* scalar.go:20-59).                                                       *)
THEOREM PayloadIsCanonical == Spec => []PayloadCanonical
<1>1. KernelInv => PayloadCanonical
  BY DEF KernelInv
<1> QED BY <1>1, KernelsInvariance, PTL

(* The scalar loops' accumulators hold the stream's next bits, less than a *)
(* word of them (scalar.go:34-58, 90-115).                                 *)
THEOREM AccumulatorsHoldStream == Spec => []AccumulatorHoldsStream
<1>1. KernelInv => AccumulatorHoldsStream
  BY DEF KernelInv
<1> QED BY <1>1, KernelsInvariance, PTL

(* Every reader of every level, and the reader of a single value, returns  *)
(* what the kernel of any level packed, and zero past the slice            *)
(* (get.go:38-72, simd_sse2_amd64.go:13-73, scalar.go:276).                *)
THEOREM AllReadersAgree == Spec => []ReadersAgree
<1>1. KernelInv => ReadersAgree
  <2> SUFFICES ASSUME KernelInv PROVE ReadersAgree
    OBVIOUS
  <2>1. TypeOK /\ UnpackInv /\ PayloadCanonical
    BY DEF KernelInv
  <2>2. ASSUME pc = "done", NEW i \in Pos
        PROVE  dst[i] = Val(i \div LaneCount, i % LaneCount)
    BY <2>1, <2>2 DEF UnpackInv
  <2>3. ASSUME pc = "packed", NEW i \in Pos
        PROVE  extractPackedValueUTL(i) = Val(i \div LaneCount, i % LaneCount)
    <3>1. Canonical
      BY <2>1, <2>3 DEF PayloadCanonical, Canonical
    <3> QED BY <2>1, <3>1, ExtractedValue
  <2> QED BY <2>2, <2>3 DEF ReadersAgree
<1> QED BY <1>1, KernelsInvariance, PTL

(* What a step may store: words of the payload. *)
Inside == \A w \in LaneWords : w >= PayloadWords => payload'[w] = payload[w]

LEMMA StepInside == KernelInv /\ [Next]_vars => Inside
<1> SUFFICES ASSUME KernelInv, [Next]_vars PROVE Inside
  OBVIOUS
<1>1. TypeOK /\ LoopInv /\ PayloadWords \in 0 .. 8 /\ LaneWords = 0 .. 8
  <2>1. TypeOK /\ LoopInv
    BY DEF KernelInv
  <2> QED BY <2>1, Widths, PayloadSize, Sizes
<1>2. payload \in Memory
  BY <1>1 DEF TypeOK, Memory
<1>3. CASE UNCHANGED payload
  BY <1>3 DEF Inside
<1>4. CASE StartPack
  BY <1>1, <1>4 DEF StartPack, Cleared, Inside
<1>5. CASE PackWord
  <2>1. row < PayloadWords /\ row \in 0 .. 8
        /\ payload' = With(payload, row, [l \in VectorLanes(level, group) |-> Accumulated(row, l)])
    BY <1>1, <1>5, Sizes DEF PackWord, LoopInv, TypeOK
  <2>2. \A w \in LaneWords : w # row => payload'[w] = payload[w]
    BY <1>2, <2>1 DEF With, Memory
  <2> QED BY <1>1, <2>1, <2>2 DEF Inside
<1>6. CASE PackRow
  <2>1. /\ pc = "pack" /\ ~Unrolled /\ row < 8
    BY <1>6, Sizes DEF PackRow
  <2>2. bitWidth > 0 /\ row \in Rows /\ Layout(row) = computeLayout(row)
    BY <1>1, <2>1, LoopSizes DEF LoopInv, Layout
  <2>3. PICK u \in 0 .. 7 : u = computeLayout(row).word
    BY <1>1, <2>2, LayoutFacts DEF Begins
  <2>4. u < PayloadWords /\ (computeLayout(row).spans => u + 1 < PayloadWords)
    BY <1>1, <2>2, <2>3, LayoutFacts
  <2> DEFINE low  == With(payload, u,
                          [l \in Lanes |-> payload[u][l] \cup ShiftAllLeft(Val(row, l), computeLayout(row).shift)])
  <2> DEFINE high == With(low, u + 1,
                          [l \in Lanes |-> low[u + 1][l]
                                             \cup ShiftRight(Val(row, l), WordBits - computeLayout(row).shift)])
  <2>5. payload' = IF computeLayout(row).spans THEN high ELSE low
    BY <1>6, <2>3 DEF PackRow
  <2>6. DOMAIN low = LaneWords /\ \A w \in LaneWords : w # u => low[w] = payload[w]
    BY <1>2 DEF With, Memory
  <2>7. \A w \in LaneWords : w # u + 1 => high[w] = low[w]
    <3> HIDE DEF low
    <3> QED BY <2>6 DEF With
  <2> HIDE DEF low, high
  <2>8. ASSUME NEW w \in LaneWords, w >= PayloadWords PROVE payload'[w] = payload[w]
    <3>1. w # u
      BY <1>1, <2>4, <2>8
    <3>2. computeLayout(row).spans => w # u + 1
      BY <1>1, <2>4, <2>8
    <3> QED BY <2>5, <2>6, <2>7, <3>1, <3>2
  <2> QED BY <2>1, <2>8 DEF Inside
<1>7. CASE PackPairRow
  <2>1. /\ pc = "pack" /\ Scalar /\ group < LaneCount \div 2 /\ row < 8
        /\ payload' = payload \/ \E vec : payload' = With(payload, wordIdx, vec)
    BY <1>7, Sizes DEF PackPairRow, Scalar
  <2>2. wordIdx < PayloadWords /\ wordIdx \in 0 .. 8
    <3>1. Groups = LaneCount \div 2 /\ bitWidth > 0
      BY <1>1, <2>1 DEF Groups, LoopInv
    <3>2. wordIdx \in 0 .. 8 /\ bitsInAcc \in Nat /\ wordIdx * WordBits + bitsInAcc = row * bitWidth
      BY <2>1, <3>1, PackedSoFar, Sizes
    <3>3. row \in 0 .. 7 /\ bitWidth \in 1 .. WordBits /\ bitWidth \in 0 .. WordBits /\ WordBits \in Nat
      BY <1>1, <2>1, <3>1, LoopSizes
    <3>4. row * bitWidth + bitWidth <= 8 * bitWidth /\ row * bitWidth \in Nat /\ wordIdx * WordBits \in Nat
      BY <3>2, <3>3, Multiples
    <3>5. wordIdx * WordBits < 8 * bitWidth /\ wordIdx \in Nat
      BY <3>2, <3>3, <3>4
    <3> QED BY <3>2, <3>3, <3>5, PayloadSize
  <2>3. \A w \in LaneWords : w # wordIdx => payload'[w] = payload[w]
    BY <1>2, <2>1 DEF With, Memory
  <2> QED BY <1>1, <2>1, <2>2, <2>3 DEF Inside
<1>8. CASE PackPairEnd
  <2>1. /\ pc = "pack" /\ Scalar /\ group < LaneCount \div 2 /\ row = 8
        /\ payload' = LastWord
    BY <1>8, Sizes DEF PackPairEnd, Scalar
  <2>2. bitsInAcc > 0 => wordIdx < PayloadWords
    <3>1. Groups = LaneCount \div 2
      BY <2>1 DEF Groups
    <3> QED BY <2>1, <3>1, LastOfPair
  <2>3. wordIdx \in 0 .. 8
    BY <1>1 DEF TypeOK
  <2>4. \A w \in LaneWords : w # wordIdx \/ ~(bitsInAcc > 0) => payload'[w] = payload[w]
    BY <1>2, <2>1 DEF LastWord, With, Memory
  <2> QED BY <1>1, <2>1, <2>2, <2>3, <2>4 DEF Inside
<1>9. CASE Unpack
  <2>1. UNCHANGED payload
    BY <1>9 DEF Unpack, StartUnpack, UnpackNothing, UnpackWord, UnpackRow, UnpackPairRow,
                UnpackPairEnd, EndUnpack, memory
  <2> QED BY <1>3, <2>1
<1>10. CASE PackNothing \/ EndPack \/ UNCHANGED vars
  BY <1>3, <1>10 DEF PackNothing, EndPack, vars, memory
<1> QED BY <1>4, <1>5, <1>6, <1>7, <1>8, <1>9, <1>10 DEF Next, Pack

(* No kernel of any level or width stores past the payload of its          *)
(* bitwidth (simd_spec_amd64.go:16-1862).                                  *)
THEOREM StoresStayInside == Spec => StoresInside
<1>1. KernelInv /\ [Next]_vars => [Inside]_vars
  BY StepInside
<1> QED BY <1>1, KernelsInvariance, PTL DEF Spec, StoresInside, Inside
=============================================================================

--------------------------- MODULE ReadersProofs ----------------------------
(***************************************************************************)
(* ReadersInv is an invariant of Readers, for all dimensions, all buffers, *)
(* positions and thresholds; and what follows from it.                     *)
(***************************************************************************)
EXTENDS ReadersInv, FiniteSetTheorems, TLAPS

-----------------------------------------------------------------------------
(* Sizes. *)

(* The dimensions are positive, and what depends on them is a natural.     *)
LEMMA Dims ==
  /\ LaneCount \in Nat \ {0} /\ StepBits \in Nat \ {0}
  /\ utlValuesPerLane = 8 /\ blockSize = 8 * LaneCount /\ blockSize \in Nat \ {0}
  /\ WordBits = 8 * StepBits /\ utlSuperWordBytes = 4 * LaneCount
  /\ excBitmapThreshold \in Nat
<1>1. LaneCount \in Nat \ {0} /\ StepBits \in Nat \ {0}
  BY DimensionAssumption
<1>2. utlValuesPerLane = 8 /\ blockSize = 8 * LaneCount /\ blockSize \in Nat \ {0}
  BY <1>1 DEF blockSize, utlValuesPerLane
<1>3. ByteBits \in Nat \ {0}
  BY <1>1 DEF ByteBits
<1>4. excBitmapThreshold \in Nat
  BY <1>2, <1>3 DEF excBitmapThreshold
<1> QED BY <1>1, <1>2, <1>4 DEF WordBits, utlSuperWordBytes

(* A payload has four bytes per lane and step. *)
LEMMA PayloadBytes ==
  ASSUME NEW si \in 0 .. 31
  PROVE  /\ StepBits * si \in Nat
         /\ utlPayloadBytes(StepBits * si) = si * (4 * LaneCount)
         /\ utlPayloadBytes(StepBits * si) \in Nat
<1>1. StepBits \in Nat \ {0} /\ LaneCount \in Nat \ {0} /\ si \in Nat
  BY Dims
<1>2. StepBits * si \in Nat
  BY <1>1
<1>3. (StepBits * si + StepBits - 1) \div StepBits = si
  <2>1. StepBits * si + StepBits - 1 = StepBits * si + (StepBits - 1)
    BY <1>1, <1>2
  <2>2. \A q \in Nat, r \in 0 .. StepBits - 1 : (StepBits * q + r) \div StepBits = q
    BY <1>1
  <2>3. StepBits - 1 \in 0 .. StepBits - 1
    BY <1>1
  <2> QED BY <2>1, <2>2, <2>3, <1>1
<1>4. si * (4 * LaneCount) \in Nat
  BY <1>1
<1> QED BY <1>2, <1>3, <1>4 DEF utlPayloadBytes, utlSuperWordBytes

(* The fields of a block have their types. *)
LEMMA BlockFields ==
  ASSUME NEW x, IsBlock(x)
  PROVE  /\ x.count \in Nat /\ x.excCount \in Nat /\ x.svbLen \in Nat
         /\ x.bitWidth \in Nat /\ utlPayloadBytes(x.bitWidth) \in Nat
         /\ forBaseBytes(x.forWidth) \in Nat /\ excIndexSize(x.excCount) \in Nat
         /\ svbControlByteCount(x.excCount) \in Nat
         /\ x.delta \in BOOLEAN /\ x.combine \in BOOLEAN
         /\ x.positions \in [0 .. x.excCount - 1 -> Nat]
         /\ x.bitmap \in SUBSET Nat /\ x.codes \in [0 .. x.excCount - 1 -> 1 .. 4]
<1>1. x.count \in Nat /\ x.excCount \in Nat /\ x.svbLen \in Nat
  BY Dims DEF IsBlock, MaxCount
<1>2. x.bitWidth \in Nat /\ utlPayloadBytes(x.bitWidth) \in Nat
  <2>1. PICK si \in 0 .. 31 : x.bitWidth = StepBits * si
    BY DEF IsBlock
  <2> QED BY <2>1, PayloadBytes
<1>3. forBaseBytes(x.forWidth) \in Nat
  <2>1. x.forWidth = 0 \/ x.forWidth = 1 \/ x.forWidth = 2 \/ x.forWidth = 3
    BY DEF IsBlock
  <2> QED BY <2>1 DEF forBaseBytes, forWidthNone, forWidthU8, forWidthU16, forWidthU32
<1>4. excIndexSize(x.excCount) \in Nat /\ svbControlByteCount(x.excCount) \in Nat
  BY <1>1, Dims DEF excIndexSize, svbControlByteCount
<1>5. x.delta \in BOOLEAN /\ x.combine \in BOOLEAN
  BY DEF IsBlock
<1>6. x.positions \in [0 .. x.excCount - 1 -> Nat]
  BY Dims DEF IsBlock, MaxCount
<1>7. x.bitmap \in SUBSET Nat
  BY Dims DEF IsBlock, Pos
<1>8. x.codes \in [0 .. x.excCount - 1 -> 1 .. 4]
  BY DEF IsBlock
<1> QED BY <1>1, <1>2, <1>3, <1>4, <1>5, <1>6, <1>7, <1>8

(* The ends of the regions are naturals, in the order of the regions.      *)
LEMMA Ends ==
  ASSUME NEW x, IsBlock(x), NEW a64 \in BOOLEAN
  PROVE  /\ PayloadEndOf(x, a64) \in Nat /\ BlockEndOf(x, a64) \in Nat
         /\ headerBytes <= PayloadEndOf(x, a64)
         /\ PayloadEndOf(x, a64) <= BlockEndOf(x, a64)
         /\ headerBytes \in Nat
<1>1. BaseBytesOf(x, a64) \in Nat
  BY BlockFields DEF BaseBytesOf, for64BaseSize
<1> DEFINE pre == payloadOffset(BaseBytesOf(x, a64), x.excCount > 0, a64 /\ x.combine)
<1>2. pre \in Nat /\ headerBytes <= pre /\ headerBytes \in Nat
  <2> DEFINE n == BaseBytesOf(x, a64)
  <2> HIDE DEF n
  <2>1. n \in Nat
    BY <1>1 DEF n
  <2>2. payloadOffset(n, x.excCount > 0, a64 /\ x.combine) \in Nat
        /\ headerBytes <= payloadOffset(n, x.excCount > 0, a64 /\ x.combine)
    BY <2>1 DEF payloadOffset, headerBytes, svbLenBytes, block2LenBytes
  <2> QED BY <2>2 DEF n, headerBytes
<1> HIDE DEF pre
<1>3. PayloadEndOf(x, a64) = pre + utlPayloadBytes(x.bitWidth)
  BY DEF PayloadEndOf, pre
<1>4. PayloadEndOf(x, a64) \in Nat /\ headerBytes <= PayloadEndOf(x, a64)
  BY <1>2, <1>3, BlockFields
<1>5. BlockEndOf(x, a64) \in Nat /\ PayloadEndOf(x, a64) <= BlockEndOf(x, a64)
  BY <1>4, BlockFields DEF BlockEndOf
<1> QED BY <1>2, <1>4, <1>5

-----------------------------------------------------------------------------
(* The checks of the readers, in terms of the block and the slice.         *)

(* The block that is read is one of the two in the buffer.                 *)
LEMMA Current ==
  ASSUME CallInv, api64 \in BOOLEAN
  PROVE  /\ IsBlock(b)
         /\ payloadEnd = PayloadEndOf(b, api64) /\ blockEnd = BlockEndOf(b, api64)
         /\ svbStart = PayloadEndOf(b, api64) + excIndexSize(b.excCount)
         /\ controlBytes = svbControlByteCount(b.excCount)
<1>1. IsBlock(b)
  BY DEF CallInv, b
<1>2. payloadEnd = PayloadEndOf(b, api64)
  BY DEF payloadEnd, pOff, baseBytes, hasCombine, PayloadEndOf, BaseBytesOf
<1>3. svbStart = PayloadEndOf(b, api64) + excIndexSize(b.excCount)
  BY <1>2 DEF svbStart
<1>4. blockEnd = BlockEndOf(b, api64)
  BY <1>2, <1>3 DEF blockEnd, BlockEndOf
<1> QED BY <1>1, <1>2, <1>3, <1>4 DEF controlBytes

(* The prologue of Unpack lets exactly the headers pass that HeaderPasses  *)
(* describes, and empty blocks.                                            *)
LEMMA HeaderAgrees ==
  ASSUME CallInv, api64 \in BOOLEAN, window \in Nat
  PROVE  /\ headerError = "none" /\ b.count # 0 => HeaderPasses(b, window, api64)
         /\ headerError = "none" => headerBytes <= window /\ b.count <= blockSize
         /\ HeaderPasses(b, window, api64) => headerError = "none" /\ b.count # 0
<1>1. IsBlock(b) /\ blockEnd = BlockEndOf(b, api64)
  BY Current
<1>2. b.count \in Nat /\ b.bitWidth \in Nat /\ BlockEndOf(b, api64) \in Nat /\ headerBytes \in Nat
      /\ blockSize \in Nat /\ WordBits \in Nat
  BY <1>1, BlockFields, Ends, Dims
<1> DEFINE e == blockEnd
<1> HIDE DEF e
<1>3. e = BlockEndOf(b, api64) /\ e \in Nat
  BY <1>1, <1>2 DEF e
<1>4. headerError = IF window < headerBytes THEN "ErrInvalidBuffer"
        ELSE IF ~supportedType THEN "ErrUnsupportedType"
        ELSE IF b.count > blockSize THEN "ErrInvalidBlockLength"
        ELSE IF b.count # 0 /\ (b.bitWidth > WordBits \/ window < e) THEN "ErrInvalidBuffer"
        ELSE "none"
  BY DEF headerError, e
<1>5. supportedType <=> b.intType \in IF api64 THEN {IntTypeUint64} ELSE {IntTypeUint32, IntTypeUint16}
  BY DEF supportedType
<1>6. HeaderPasses(b, window, api64) <=>
        headerBytes <= window /\ e <= window /\ supportedType
          /\ b.count \in 1 .. blockSize /\ b.bitWidth <= WordBits
  BY <1>3, <1>5 DEF HeaderPasses
<1> QED BY <1>2, <1>3, <1>4, <1>6

(* What Get has checked when it goes on to read a value.                   *)
LEMMA GetChecked ==
  ASSUME CallInv, api64 \in BOOLEAN, window \in Nat, getError = "none"
  PROVE  /\ pos \in 0 .. b.count - 1 /\ b.bitWidth <= WordBits
         /\ PayloadEndOf(b, api64) <= window /\ BlockEndOf(b, api64) <= window
<1>1. IsBlock(b) /\ blockEnd = BlockEndOf(b, api64) /\ payloadEnd = PayloadEndOf(b, api64)
  BY Current
<1>2. b.count \in Nat /\ b.bitWidth \in Nat /\ BlockEndOf(b, api64) \in Nat
      /\ PayloadEndOf(b, api64) \in Nat /\ WordBits \in Nat /\ b.excCount \in Nat
  BY <1>1, BlockFields, Ends, Dims
<1>3. pos \in 0 .. b.count - 1
  BY DEF getError
<1>4. ~(b.bitWidth > WordBits \/ window < payloadEnd
        \/ (b.excCount > 0 /\ window < blockEnd))
  BY DEF getError
<1>5. b.excCount = 0 => BlockEndOf(b, api64) = PayloadEndOf(b, api64)
  BY DEF BlockEndOf
<1> QED BY <1>1, <1>2, <1>3, <1>4, <1>5

(* Decoding the high bits fails on no stream that holds what it says, and  *)
(* on every other.                                                         *)
LEMMA StreamAgrees ==
  ASSUME CallInv, b.excCount > 0
  PROVE  (svbError <=> ~StreamPasses(b)) /\ DataBefore(b.excCount) \in Nat
<1>1. IsBlock(b)
  BY DEF CallInv, b
<1>2. DOMAIN b.codes = 0 .. b.excCount - 1
  BY <1>1, BlockFields
<1> DEFINE W(k) == Cardinality({i \in 0 .. b.excCount - 1 : b.codes[i] >= k})
<1>3. \A k : IsFiniteSet({i \in 0 .. b.excCount - 1 : b.codes[i] >= k})
  <2> TAKE k
  <2>1. 0 \in Int /\ b.excCount - 1 \in Int
    BY <1>1, BlockFields
  <2>2. IsFiniteSet(0 .. b.excCount - 1)
    BY <2>1, FS_Interval
  <2> QED BY <2>2, FS_Subset
<1>4. \A k : W(k) \in Nat
  BY <1>3, FS_CardinalityType
<1>5. DataBefore(b.excCount) = W(1) + W(2) + W(3) + W(4)
  BY DEF DataBefore
<1>6. WellFormedStream(b) <=>
        svbControlByteCount(b.excCount) + W(1) + W(2) + W(3) + W(4) <= b.svbLen
  BY <1>2 DEF WellFormedStream
<1> HIDE DEF W
<1>7. W(1) \in Nat /\ W(2) \in Nat /\ W(3) \in Nat /\ W(4) \in Nat
  BY <1>4
<1>8. svbControlByteCount(b.excCount) \in Nat /\ b.svbLen \in Nat
      /\ b.excCount \in Nat /\ b.count \in Nat
  BY <1>1, BlockFields
<1>9. svbError <=> \/ b.excCount > b.count \/ svbControlByteCount(b.excCount) > b.svbLen
                   \/ svbControlByteCount(b.excCount) + DataBefore(b.excCount) > b.svbLen
  BY DEF svbError, controlBytes
<1> QED BY <1>5, <1>6, <1>7, <1>8, <1>9 DEF StreamPasses

(* What Unpack has checked is enough for Get.                              *)
LEMMA GetAccepts ==
  ASSUME CallInv, api64 \in BOOLEAN, window \in Nat,
         HeaderPasses(b, window, api64), StreamPasses(b), pos \in 0 .. b.count - 1
  PROVE  getError = "none"
<1>1. IsBlock(b) /\ blockEnd = BlockEndOf(b, api64) /\ payloadEnd = PayloadEndOf(b, api64)
      /\ controlBytes = svbControlByteCount(b.excCount)
  BY Current
<1>2. b.count \in Nat /\ b.bitWidth \in Nat /\ BlockEndOf(b, api64) \in Nat
      /\ PayloadEndOf(b, api64) \in Nat /\ WordBits \in Nat /\ b.excCount \in Nat
      /\ headerBytes \in Nat /\ PayloadEndOf(b, api64) <= BlockEndOf(b, api64)
  BY <1>1, BlockFields, Ends, Dims
<1>3. headerBytes <= window /\ b.bitWidth <= WordBits /\ BlockEndOf(b, api64) <= window
  BY DEF HeaderPasses
<1>4. supportedType
  BY DEF HeaderPasses, supportedType
<1>5. b.excCount > 0 => b.excCount <= b.count /\ ~(b.svbLen < controlBytes)
  <2> SUFFICES ASSUME b.excCount > 0
               PROVE  b.excCount <= b.count /\ ~(b.svbLen < controlBytes)
    OBVIOUS
  <2>1. ~svbError
    BY StreamAgrees
  <2>2. ~(controlBytes > b.svbLen)
    BY <2>1 DEF svbError
  <2>3. b.svbLen \in Nat /\ controlBytes \in Nat
    BY <1>1, BlockFields
  <2> QED BY <2>2, <2>3 DEF StreamPasses
<1>6. ~(window < headerBytes) /\ ~(b.bitWidth > WordBits) /\ ~(window < payloadEnd)
      /\ ~(window < blockEnd) /\ (b.excCount > 0 => ~(b.excCount > b.count))
  BY <1>1, <1>2, <1>3, <1>5
<1> QED BY <1>4, <1>5, <1>6 DEF getError

-----------------------------------------------------------------------------
(* Indexes. *)

(* A position of the block lies in one of the lane's eight rows.           *)
LEMMA RowOf ==
  ASSUME NEW p \in Nat, p < blockSize
  PROVE  /\ p \div LaneCount \in 0 .. 7 /\ p % LaneCount \in 0 .. LaneCount - 1
         /\ p = (p \div LaneCount) * LaneCount + (p % LaneCount)
<1>1. LaneCount \in Nat \ {0} /\ blockSize = 8 * LaneCount
  BY Dims
<1>2. p \div LaneCount \in Nat /\ p % LaneCount \in 0 .. LaneCount - 1
      /\ p = (p \div LaneCount) * LaneCount + (p % LaneCount)
  BY <1>1
<1> DEFINE q == p \div LaneCount
<1> HIDE DEF q
<1>3. q \in Nat /\ p = q * LaneCount + (p % LaneCount) /\ p % LaneCount \in Nat
  BY <1>2, <1>1 DEF q
<1>4. ~(q >= 8)
  <2> SUFFICES ASSUME q >= 8 PROVE FALSE
    OBVIOUS
  <2>1. q * LaneCount >= 8 * LaneCount
    BY <1>1, <1>3
  <2> QED BY <2>1, <1>1, <1>3
<1>5. q \in 0 .. 7
  BY <1>3, <1>4
<1> QED BY <1>2, <1>5 DEF q

(* No row of a lane is packed past the payload, whichever word its bits    *)
(* begin in and whether or not they go on in the next one.                 *)
LEMMA PackedInside ==
  ASSUME CallInv, NEW p \in Nat, p < blockSize, b.bitWidth <= WordBits
  PROVE  ~(packedEnd(p) > utlPayloadBytes(b.bitWidth))
<1>1. IsBlock(b)
  BY DEF CallInv, b
<1>2. PICK si \in 0 .. 31 : b.bitWidth = StepBits * si
  BY <1>1 DEF IsBlock
<1>3. LaneCount \in Nat \ {0} /\ StepBits \in Nat \ {0} /\ WordBits = 8 * StepBits /\ si \in Nat
  BY Dims
<1>4. si <= 8
  <2>1. StepBits * si <= StepBits * 8
    BY <1>2, <1>3
  <2>2. ASSUME si >= 9 PROVE FALSE
    <3>1. StepBits * si >= StepBits * 9
      BY <2>2, <1>3
    <3> QED BY <3>1, <2>1, <1>3
  <2> QED BY <2>2, <1>3
<1> DEFINE v == p \div LaneCount
           l == p % LaneCount
           m == v * si
           q == m \div 8
           r == m % 8
<1>5. v \in 0 .. 7 /\ l \in 0 .. LaneCount - 1
  BY RowOf
<1> HIDE DEF v, l
<1>6. m \in Nat /\ m <= 7 * si
  <2>1. v = 0 \/ v = 1 \/ v = 2 \/ v = 3 \/ v = 4 \/ v = 5 \/ v = 6 \/ v = 7
    BY <1>5
  <2> QED BY <2>1, <1>3
<1>7. (p \div LaneCount) * b.bitWidth = StepBits * m
  <2>1. v * (StepBits * si) = StepBits * (v * si)
    BY <1>3, <1>5
  <2> QED BY <2>1, <1>2 DEF v
<1> HIDE DEF m
<1>8. q \in Nat /\ r \in 0 .. 7 /\ m = 8 * q + r
  BY <1>6
<1> HIDE DEF q, r
<1>9. (StepBits * m) \div WordBits = q /\ (StepBits * m) % WordBits = StepBits * r
  <2>1. StepBits * m = WordBits * q + StepBits * r
    BY <1>3, <1>8
  <2>2. StepBits * r \in 0 .. WordBits - 1
    <3>1. StepBits * r <= StepBits * 7 /\ StepBits * r \in Nat
      BY <1>3, <1>8
    <3> QED BY <3>1, <1>3
  <2> DEFINE t == StepBits * r
  <2> HIDE DEF t
  <2>3. WordBits \in Nat \ {0} /\ t \in 0 .. WordBits - 1
    BY <1>3, <2>2 DEF t
  <2>4. (WordBits * q + t) \div WordBits = q /\ (WordBits * q + t) % WordBits = t
    BY <2>3, <1>8
  <2> QED BY <2>1, <2>4 DEF t
<1> DEFINE w == 4 * LaneCount
<1>10. w \in Nat /\ 4 * l + 4 <= w /\ 4 * l + 4 \in Nat
  BY <1>3, <1>5
<1>11. b.bitWidth = 0 <=> si = 0
  BY <1>2, <1>3
<1>12. b.bitWidth > WordBits - StepBits * r <=> si + r > 8
  <2>1. WordBits - StepBits * r = StepBits * (8 - r)
    BY <1>3, <1>8
  <2>2. 8 - r \in Nat
    BY <1>8
  <2>3. \A x, y \in Nat : StepBits * x > StepBits * y <=> x > y
    BY <1>3
  <2>4. StepBits * si > StepBits * (8 - r) <=> si > 8 - r
    BY <2>2, <2>3, <1>3
  <2> QED BY <2>1, <2>4, <1>2, <1>3, <1>8
<1>13. packedEnd(p) = IF si = 0 THEN 0
                      ELSE IF si + r > 8 THEN q * w + 4 * l + 4 + w ELSE q * w + 4 * l + 4
  BY <1>7, <1>9, <1>11, <1>12 DEF packedEnd, utlSuperWordBytes, l
<1>14. utlPayloadBytes(b.bitWidth) = si * w
  BY <1>2, PayloadBytes
<1> HIDE DEF w
<1>15. CASE si = 0
  BY <1>13, <1>14, <1>15, <1>10
<1>16. CASE si > 0 /\ si + r > 8
  <2>1. q + 2 <= si
    BY <1>16, <1>6, <1>8, <1>3
  <2>2. (q + 2) * w <= si * w
    BY <2>1, <1>3, <1>8, <1>10
  <2>3. (q + 2) * w = q * w + w + w /\ q * w \in Nat
    BY <1>8, <1>10
  <2>4. si * w \in Nat
    BY <1>3, <1>10
  <2>5. packedEnd(p) = q * w + 4 * l + 4 + w
    BY <1>13, <1>16, <1>3
  <2> DEFINE a == q * w
             c == si * w
  <2>6. a \in Nat /\ c \in Nat /\ a + w + w <= c
    BY <2>2, <2>3, <2>4
  <2>7. packedEnd(p) = a + 4 * l + 4 + w /\ utlPayloadBytes(b.bitWidth) = c
    BY <2>5, <1>14
  <2> HIDE DEF a, c
  <2> QED BY <2>6, <2>7, <1>10, <1>5, <1>3
<1>17. CASE si > 0 /\ ~(si + r > 8)
  <2>1. q + 1 <= si
    BY <1>17, <1>6, <1>8, <1>3
  <2>2. (q + 1) * w <= si * w
    BY <2>1, <1>3, <1>8, <1>10
  <2>3. (q + 1) * w = q * w + w /\ q * w \in Nat
    BY <1>8, <1>10
  <2>4. si * w \in Nat
    BY <1>3, <1>10
  <2>5. packedEnd(p) = q * w + 4 * l + 4
    BY <1>13, <1>17, <1>3
  <2> DEFINE a == q * w
             c == si * w
  <2>6. a \in Nat /\ c \in Nat /\ a + w <= c
    BY <2>2, <2>3, <2>4
  <2>7. packedEnd(p) = a + 4 * l + 4 /\ utlPayloadBytes(b.bitWidth) = c
    BY <2>5, <1>14
  <2> HIDE DEF a, c
  <2> QED BY <2>6, <2>7, <1>10, <1>5, <1>3
<1> QED BY <1>3, <1>15, <1>16, <1>17

(* The codes of the exceptions up to r are among those of the block.       *)
LEMMA CountStep ==
  ASSUME NEW f, NEW n \in Nat, NEW r \in 0 .. n - 1, NEW k
  PROVE  LET A == {i \in 0 .. r - 1 : f[i] >= k}
             B == {i \in 0 .. n - 1 : f[i] >= k}
         IN  /\ Cardinality(A) \in Nat /\ Cardinality(B) \in Nat
             /\ Cardinality(A) <= Cardinality(B)
             /\ f[r] >= k => Cardinality(A) + 1 <= Cardinality(B)
<1> DEFINE A == {i \in 0 .. r - 1 : f[i] >= k}
           B == {i \in 0 .. n - 1 : f[i] >= k}
<1>1. IsFiniteSet(B) /\ IsFiniteSet(A)
  <2>1. 0 \in Int /\ n - 1 \in Int /\ r - 1 \in Int
    OBVIOUS
  <2>2. IsFiniteSet(0 .. n - 1) /\ IsFiniteSet(0 .. r - 1)
    BY <2>1, FS_Interval
  <2> QED BY <2>2, FS_Subset
<1>2. A \in SUBSET B
  OBVIOUS
<1>3. r \notin A /\ (f[r] >= k => A \cup {r} \in SUBSET B)
  OBVIOUS
<1> HIDE DEF A, B
<1>4. Cardinality(A) \in Nat /\ Cardinality(B) \in Nat /\ Cardinality(A) <= Cardinality(B)
  BY <1>1, <1>2, FS_CardinalityType, FS_Subset
<1>5. ASSUME f[r] >= k PROVE Cardinality(A) + 1 <= Cardinality(B)
  <2>1. Cardinality(A \cup {r}) = Cardinality(A) + 1
    BY <1>1, <1>3, FS_AddElement
  <2>2. Cardinality(A \cup {r}) <= Cardinality(B)
    BY <1>1, <1>3, <1>5, FS_Subset
  <2> QED BY <2>1, <2>2
<1> QED BY <1>4, <1>5 DEF A, B

(* In a stream as long as its control codes say, no exception's data are   *)
(* cut off.                                                                *)
LEMMA DataFits ==
  ASSUME CallInv, WellFormedStream(b), NEW r \in 0 .. b.excCount - 1
  PROVE  ~CutsOff(r)
<1>1. IsBlock(b)
  BY DEF CallInv, b
<1>2. b.excCount \in Nat /\ b.svbLen \in Nat /\ svbControlByteCount(b.excCount) \in Nat
      /\ b.codes \in [0 .. b.excCount - 1 -> 1 .. 4]
  BY <1>1, BlockFields
<1>3. b.codes[r] \in 1 .. 4
  BY <1>2
<1> DEFINE U(k) == Cardinality({i \in 0 .. r - 1 : b.codes[i] >= k})
           V(k) == Cardinality({i \in 0 .. b.excCount - 1 : b.codes[i] >= k})
<1>4. \A k : /\ U(k) \in Nat /\ V(k) \in Nat /\ U(k) <= V(k)
             /\ b.codes[r] >= k => U(k) + 1 <= V(k)
  BY <1>2, CountStep
<1>5. DataBefore(r) = U(1) + U(2) + U(3) + U(4)
  BY DEF DataBefore
<1>6. svbControlByteCount(b.excCount) + V(1) + V(2) + V(3) + V(4) <= b.svbLen
  BY <1>2 DEF WellFormedStream
<1> HIDE DEF U, V
<1>7. U(1) \in Nat /\ U(2) \in Nat /\ U(3) \in Nat /\ U(4) \in Nat
      /\ V(1) \in Nat /\ V(2) \in Nat /\ V(3) \in Nat /\ V(4) \in Nat
  BY <1>4
<1>8. U(1) + U(2) + U(3) + U(4) + b.codes[r] <= V(1) + V(2) + V(3) + V(4)
  <2>1. /\ U(1) + (IF b.codes[r] >= 1 THEN 1 ELSE 0) <= V(1)
        /\ U(2) + (IF b.codes[r] >= 2 THEN 1 ELSE 0) <= V(2)
        /\ U(3) + (IF b.codes[r] >= 3 THEN 1 ELSE 0) <= V(3)
        /\ U(4) + (IF b.codes[r] >= 4 THEN 1 ELSE 0) <= V(4)
    BY <1>4, <1>7
  <2> QED BY <2>1, <1>3, <1>7
<1>9. CutsOff(r) => svbControlByteCount(b.excCount) + DataBefore(r) + b.codes[r] > b.svbLen
  BY DEF CutsOff, dataOff, controlBytes
<1> DEFINE u == DataBefore(r)
           c == b.codes[r]
           s == svbControlByteCount(b.excCount)
           n == b.svbLen
<1>10. u \in Nat /\ c \in 1 .. 4 /\ s \in Nat /\ n \in Nat
  <2>1. u \in Nat
    BY <1>5, <1>7
  <2> QED BY <1>2, <1>3, <2>1
<1>11. u + c <= V(1) + V(2) + V(3) + V(4)
  BY <1>5, <1>8
<1>12. CutsOff(r) => s + u + c > n
  BY <1>9
<1>13. s + V(1) + V(2) + V(3) + V(4) <= n
  BY <1>6
<1> HIDE DEF u, c, s, n
<1> QED BY <1>7, <1>10, <1>11, <1>12, <1>13

(* A bit of the bitmap has its rank among the high bits.                   *)
LEMMA RankBelow ==
  ASSUME NEW B \in SUBSET Nat, IsFiniteSet(B), NEW p \in B
  PROVE  Rank(B, p) \in 0 .. Cardinality(B) - 1
<1> DEFINE D == {q \in B : q < p}
<1>1. D \in SUBSET B /\ p \notin D
  OBVIOUS
<1>2. IsFiniteSet(D) /\ Cardinality(D) <= Cardinality(B) /\ Cardinality(D) # Cardinality(B)
  BY <1>1, FS_Subset
<1>3. Cardinality(D) \in Nat /\ Cardinality(B) \in Nat
  BY <1>2, FS_CardinalityType
<1> QED BY <1>2, <1>3 DEF Rank

(* What Unpack patches with a list that a packer could have written: at    *)
(* each place the entry for it.                                            *)
LEMMA ListPatches ==
  ASSUME NEW x, IsBlock(x), x.count <= blockSize, WellFormedIndex(x),
         x.excCount <= excBitmapThreshold, NEW L, NEW p \in L
  PROVE  UnpackPatch(x, L)[p] = {r \in DOMAIN x.positions : x.positions[r] = p}
<1>1. /\ DOMAIN x.positions = 0 .. x.excCount - 1 /\ x.excCount \in Nat /\ x.count \in Nat
      /\ \A r \in 0 .. x.excCount - 1 : x.positions[r] \in Nat
  BY BlockFields
<1>2. \A r \in 0 .. x.excCount - 1 : x.positions[r] < x.count
  BY <1>1 DEF WellFormedIndex
<1>3. ASSUME NEW r \in 0 .. x.excCount - 1
      PROVE  TargetIn(x, x.positions[r]) = x.positions[r]
  <2>1. x.positions[r] \in Nat /\ x.positions[r] < x.count
    BY <1>1, <1>2
  <2>2. x.positions[r] < blockSize => x.positions[r] % blockSize = x.positions[r]
    BY <2>1, Dims
  <2> QED BY <2>1, <2>2, <1>1 DEF TargetIn
<1>4. CASE x.excCount = 0
  <2>1. UnpackPatch(x, L)[p] = {}
    BY <1>4 DEF UnpackPatch
  <2> QED BY <2>1, <1>1, <1>4
<1>5. CASE x.excCount # 0
  <2>1. UnpackPatch(x, L) = ListPatch(x, L)
    BY <1>5 DEF UnpackPatch
  <2>2. ListPatch(x, L)[p] = {r \in 0 .. x.excCount - 1 : TargetIn(x, x.positions[r]) = p}
    BY DEF ListPatch
  <2> QED BY <2>1, <2>2, <1>1, <1>3
<1> QED BY <1>4, <1>5

(* And with a bitmap: at each bit the exception of its rank.               *)
LEMMA BitmapPatches ==
  ASSUME NEW x, IsBlock(x), x.count <= blockSize, WellFormedIndex(x),
         x.excCount > excBitmapThreshold, NEW L, NEW p \in L
  PROVE  /\ UnpackPatch(x, L)[p] = IF p \in x.bitmap THEN {Rank(x.bitmap, p)} ELSE {}
         /\ p \in x.bitmap => Rank(x.bitmap, p) \in 0 .. x.excCount - 1
<1>1. x.excCount \in Nat /\ x.count \in Nat /\ x.bitmap \in SUBSET Nat
      /\ excBitmapThreshold \in Nat
  BY BlockFields, Dims
<1>2. Cardinality(x.bitmap) = x.excCount /\ \A q \in x.bitmap : q < x.count
  BY <1>1 DEF WellFormedIndex
<1>3. BitsOf(x) = x.bitmap
  BY <1>2 DEF BitsOf
<1>4. x.excCount # 0 /\ ~(x.excCount <= excBitmapThreshold)
  BY <1>1
<1>5. UnpackPatch(x, L) = BitmapPatch(x, L)
  BY <1>4 DEF UnpackPatch
<1>6. BitmapPatch(x, L)[p] = IF p \in x.bitmap THEN {Rank(x.bitmap, p)} ELSE {}
  BY <1>1, <1>2, <1>3 DEF BitmapPatch
<1>7. IsFiniteSet(x.bitmap)
  <2>1. x.bitmap \in SUBSET (0 .. blockSize - 1)
    BY DEF IsBlock, Pos
  <2>2. 0 \in Int /\ blockSize - 1 \in Int
    BY Dims
  <2> QED BY <2>1, <2>2, FS_Interval, FS_Subset
<1>8. p \in x.bitmap => Rank(x.bitmap, p) \in 0 .. x.excCount - 1
  BY <1>1, <1>2, <1>7, RankBelow
<1> QED BY <1>5, <1>6, <1>8

-----------------------------------------------------------------------------
(* What steps leave alone, and what answers have to say.                   *)

(* The buffer and the arguments never change, nor does what depends on     *)
(* them alone.                                                             *)
LEMMA SameInput ==
  ASSUME UNCHANGED input
  PROVE  /\ src' = src /\ api64' = api64 /\ pos' = pos /\ wide' = wide
         /\ NoPatch' = NoPatch /\ IsPair' = IsPair /\ StreamsHold' = StreamsHold
         /\ part' = part => b' = b /\ Whole' = Whole
<1>1. src' = src /\ api64' = api64 /\ pos' = pos /\ wide' = wide
  BY DEF input
<1>2. NoPatch' = NoPatch
  BY <1>1 DEF NoPatch, LaneUpTo, lane
<1>3. IsPair' = IsPair /\ StreamsHold' = StreamsHold
  BY <1>1 DEF IsPair, StreamsHold
<1>4. part' = part => b' = b /\ Whole' = Whole
  BY <1>1 DEF b, Whole
<1> QED BY <1>1, <1>2, <1>3, <1>4

(* A step within a call keeps the answers, and what they say.              *)
LEMMA AnswersKept ==
  ASSUME AnswersInv, SkipsWholeBlock, UNCHANGED input, UNCHANGED <<call, answers>>
  PROVE  AnswersInv' /\ SkipsWholeBlock' /\ Gettable' = Gettable
<1>1. src' = src /\ api64' = api64 /\ pos' = pos /\ NoPatch' = NoPatch /\ IsPair' = IsPair
      /\ StreamsHold' = StreamsHold /\ call' = call /\ answers' = answers
  BY SameInput
<1>2. Gettable' = Gettable
  BY <1>1 DEF Gettable
<1>3. UnpackAnswer(answers[1])' = UnpackAnswer(answers[1])
  BY <1>1 DEF UnpackAnswer, PairAnswer, SingleAnswer, PatchOf
<1>4. GetAnswer(answers[2])' = GetAnswer(answers[2])
  BY <1>1, <1>2 DEF GetAnswer, SamePatch, Relevant, PatchOf
<1>5. AnswersInv'
  BY <1>1, <1>3, <1>4 DEF AnswersInv
<1>6. SkipsWholeBlock'
  BY <1>1 DEF SkipsWholeBlock, AllDone
<1> QED BY <1>2, <1>5, <1>6

(* What BlockLength has to answer. *)
LengthAnswer(a) ==
  answers[1].err = "none" /\ src.first.count > 0 =>
    /\ a.err \in {"none", "ErrInvalidFlags"}
    /\ a.err = "none" => a.len = answers[1].len

(* A call that returns what it should keeps the invariant of the answers.  *)
LEMMA Answers ==
  ASSUME AnswersInv, SkipsWholeBlock, CallInv, UNCHANGED input, call \in 1 .. 3,
         \A c \in 1 .. 3 : answers[c].len \in Nat /\ answers[c].start2 \in 0 .. src.len,
         NEW a, Return(a), a.len \in Nat, a.start2 \in 0 .. src.len,
         call = 1 => UnpackAnswer(a),
         call = 2 => GetAnswer(a) /\ (StreamsHold => a.exact),
         call = 3 => LengthAnswer(a)
  PROVE  /\ AnswersInv' /\ SkipsWholeBlock'
         /\ call' \in 1 .. 4 /\ pc' = "call" /\ (DOMAIN answers = 1 .. 3)'
         /\ (\A c \in 1 .. 3 : answers[c].len \in Nat /\ answers[c].start2 \in 0 .. src.len)'
<1>1. src' = src /\ api64' = api64 /\ pos' = pos /\ NoPatch' = NoPatch /\ IsPair' = IsPair
      /\ StreamsHold' = StreamsHold
  BY SameInput
<1>2. call' = call + 1 /\ pc' = "call" /\ answers' = [answers EXCEPT ![call] = a]
  BY DEF Return
<1>3. DOMAIN answers = 1 .. 3
  BY DEF CallInv
<1>4. DOMAIN answers' = 1 .. 3 /\ \A c \in 1 .. 3 : answers'[c] = IF c = call THEN a ELSE answers[c]
  BY <1>2, <1>3
<1>5. \A c \in 1 .. 3 : answers'[c].len \in Nat /\ answers'[c].start2 \in 0 .. src'.len
  BY <1>1, <1>4
<1>6. ASSUME call = 1 PROVE AnswersInv' /\ SkipsWholeBlock'
  <2>1. answers'[1] = a /\ call' = 2
    BY <1>2, <1>4, <1>6
  <2>2. UnpackAnswer(answers[1])' = UnpackAnswer(a)
    BY <1>1, <2>1 DEF UnpackAnswer, PairAnswer, SingleAnswer, PatchOf
  <2> QED BY <1>6, <2>1, <2>2 DEF AnswersInv, SkipsWholeBlock, AllDone
<1>7. ASSUME call = 2 PROVE AnswersInv' /\ SkipsWholeBlock'
  <2>1. answers'[1] = answers[1] /\ answers'[2] = a /\ call' = 3
    BY <1>2, <1>4, <1>7
  <2>2. UnpackAnswer(answers[1])' = UnpackAnswer(answers[1])
    BY <1>1, <2>1 DEF UnpackAnswer, PairAnswer, SingleAnswer, PatchOf
  <2>3. Gettable' = Gettable
    BY <1>1, <2>1, <1>7 DEF Gettable
  <2>4. GetAnswer(answers[2])' = GetAnswer(a)
    BY <1>1, <2>1, <2>3 DEF GetAnswer, SamePatch, Relevant, PatchOf
  <2>5. UnpackAnswer(answers[1])
    BY <1>7 DEF AnswersInv
  <2>6. AnswersInv'
    BY <1>1, <1>7, <2>1, <2>2, <2>4, <2>5 DEF AnswersInv
  <2> QED BY <2>1, <2>6 DEF SkipsWholeBlock, AllDone
<1>8. ASSUME call = 3 PROVE AnswersInv' /\ SkipsWholeBlock'
  <2>1. answers'[1] = answers[1] /\ answers'[2] = answers[2] /\ answers'[3] = a /\ call' = 4
    BY <1>2, <1>4, <1>8
  <2>2. UnpackAnswer(answers[1])' = UnpackAnswer(answers[1])
    BY <1>1, <2>1 DEF UnpackAnswer, PairAnswer, SingleAnswer, PatchOf
  <2>3. Gettable' = Gettable
    BY <1>1, <2>1, <1>8 DEF Gettable
  <2>4. GetAnswer(answers[2])' = GetAnswer(answers[2])
    BY <1>1, <2>1, <2>3 DEF GetAnswer, SamePatch, Relevant, PatchOf
  <2>5. UnpackAnswer(answers[1]) /\ GetAnswer(answers[2]) /\ (StreamsHold => answers[2].exact)
    BY <1>8 DEF AnswersInv
  <2>6. AnswersInv'
    BY <1>1, <2>1, <2>2, <2>4, <2>5 DEF AnswersInv
  <2>7. SkipsWholeBlock'
    BY <1>1, <1>8, <2>1 DEF SkipsWholeBlock, LengthAnswer
  <2> QED BY <2>6, <2>7
<1>9. call = 1 \/ call = 2 \/ call = 3
  OBVIOUS
<1>10. AnswersInv' /\ SkipsWholeBlock'
  BY <1>6, <1>7, <1>8, <1>9
<1> QED BY <1>2, <1>4, <1>5, <1>10

-----------------------------------------------------------------------------
(* Steps that end a call, and steps that go on with it.                    *)

(* At rest, nothing but the answers and the types is claimed.              *)
LEMMA Rests ==
  ASSUME pc' = "call"
  PROVE  ValidatedInv' /\ UnpackInv' /\ GetInv' /\ NotCutOff'
<1>1. ValidatedInv'
  BY DEF ValidatedInv, InUnpack, InGet
<1>2. UnpackInv'
  BY DEF UnpackInv, InUnpack
<1>3. GetInv' /\ NotCutOff'
  BY DEF GetInv, NotCutOff
<1> QED BY <1>1, <1>2, <1>3

(* A call that returns what it should leaves the invariant true.           *)
LEMMA Returns ==
  ASSUME ReadersInv, UNCHANGED input, call \in 1 .. 3,
         UNCHANGED <<part, window, limit, touched, clamped, patch, start2>>,
         NEW a, Return(a), a.len \in Nat, a.start2 \in 0 .. src.len,
         call = 1 => UnpackAnswer(a),
         call = 2 => GetAnswer(a) /\ (StreamsHold => a.exact),
         call = 3 => LengthAnswer(a)
  PROVE  ReadersInv'
<1>1. AnswersInv /\ SkipsWholeBlock /\ CallInv /\ TypeOK /\ ReadsValidated
  BY DEF ReadersInv
<1>2. \A c \in 1 .. 3 : answers[c].len \in Nat /\ answers[c].start2 \in 0 .. src.len
  BY <1>1 DEF TypeOK
<1>3. /\ AnswersInv' /\ SkipsWholeBlock'
      /\ call' \in 1 .. 4 /\ pc' = "call" /\ (DOMAIN answers = 1 .. 3)'
      /\ (\A c \in 1 .. 3 : answers[c].len \in Nat /\ answers[c].start2 \in 0 .. src.len)'
  BY <1>1, <1>2, Answers
<1>4. src' = src /\ api64' = api64 /\ pos' = pos /\ wide' = wide /\ b' = b
  BY SameInput
<1>5. TypeOK'
  BY <1>1, <1>3, <1>4 DEF TypeOK
<1>6. ReadsValidated'
  BY <1>1, <1>4 DEF ReadsValidated
<1>7. CallInv'
  BY <1>1, <1>3, <1>4 DEF CallInv, Untouched, InGet
<1>8. ValidatedInv' /\ UnpackInv' /\ GetInv' /\ NotCutOff'
  BY <1>3, Rests
<1> QED BY <1>3, <1>5, <1>6, <1>7, <1>8 DEF ReadersInv

(* So does one that fails, unless Get had to find a value.                 *)
LEMMA Fails ==
  ASSUME ReadersInv, UNCHANGED input, call \in 1 .. 2,
         UNCHANGED <<part, window, limit, touched, clamped, patch, start2>>,
         NEW e, Fail(e), e # "none", call = 2 => ~Gettable
  PROVE  ReadersInv'
<1> DEFINE a == [NoAnswer EXCEPT !.err = e]
<1>1. a.err = e /\ a.len = 0 /\ a.start2 = 0 /\ a.exact = TRUE
  BY DEF NoAnswer
<1>2. Return(a)
  BY DEF Fail
<1> HIDE DEF a
<1>3. UnpackAnswer(a)
  BY <1>1 DEF UnpackAnswer
<1>4. call = 2 => GetAnswer(a) /\ (StreamsHold => a.exact)
  BY <1>1 DEF GetAnswer
<1>5. a.len \in Nat /\ a.start2 \in 0 .. src.len
  BY <1>1 DEF ReadersInv, CallInv
<1>6. call \in 1 .. 3 /\ ~(call = 3)
  OBVIOUS
<1> QED BY <1>2, <1>3, <1>4, <1>5, <1>6, Returns

(* A step within a call has the types, the indexes, and what the next      *)
(* phase relies on to establish.                                           *)
LEMMA Continues ==
  ASSUME ReadersInv, UNCHANGED <<input, call, answers>>,
         call \in {1, 2},
         part' \in {1, 2}, clamped' \in BOOLEAN, start2' \in 0 .. src.len,
         window' \in 0 .. src.len - start2', limit' \in 0 .. window',
         ReadsValidated', ValidatedInv', UnpackInv', GetInv', NotCutOff',
         pc' \in {"Unpack", "Get"} \cup InUnpack \cup InGet,
         pc' \in {"Get"} \cup InGet => call = 2,
         DOMAIN touched' = DOMAIN Untouched,
         touched'.src \in Int, touched'.high \in Int, touched'.lane \in Int
  PROVE  ReadersInv'
<1>1. AnswersInv /\ SkipsWholeBlock /\ CallInv /\ TypeOK
  BY DEF ReadersInv
<1>2. AnswersInv' /\ SkipsWholeBlock'
  <2>1. UNCHANGED input /\ UNCHANGED <<call, answers>>
    OBVIOUS
  <2> QED BY <1>1, <2>1, AnswersKept
<1>3. src' = src /\ api64' = api64 /\ pos' = pos /\ wide' = wide
      /\ call' = call /\ answers' = answers
  BY DEF input
<1>4. TypeOK'
  BY <1>1, <1>3 DEF TypeOK
<1>5. CallInv'
  BY <1>1, <1>3 DEF CallInv, Untouched
<1> QED BY <1>2, <1>4, <1>5 DEF ReadersInv

-----------------------------------------------------------------------------
(* The actions: how a call begins.                                         *)

(* A call begins with nothing used, on the whole buffer; an Unpack that    *)
(* cannot read the base of FOR64 fails at once.                            *)
LEMMA StartKeeps ==
  ASSUME ReadersInv, Start
  PROVE  ReadersInv'
<1>1. AnswersInv /\ SkipsWholeBlock /\ CallInv /\ TypeOK
  BY DEF ReadersInv
<1>2. UNCHANGED input /\ pc = "call" /\ (call = 1 \/ call = 2)
  <2>1. call \in 1 .. 4 /\ Calls[call] \in {"Unpack", "Get"}
    BY <1>1 DEF TypeOK, Start
  <2>2. call = 1 \/ call = 2 \/ call = 3 \/ call = 4
    BY <2>1
  <2> QED BY <2>1, <2>2 DEF Calls, Start
<1>3. src' = src /\ api64' = api64 /\ pos' = pos /\ wide' = wide /\ NoPatch' = NoPatch
  BY <1>2, SameInput
<1>4. part' = 1 /\ window' = src.len /\ limit' = src.len /\ touched' = Untouched
      /\ clamped' = FALSE /\ patch' = NoPatch /\ start2' = 0
  BY DEF Start
<1>5. b' = src.first /\ Whole' = src.len
  BY <1>3, <1>4 DEF b, Whole
<1>6. src.len \in Nat /\ IsBlock(src.first)
  BY <1>1 DEF CallInv
<1>7. touched'.src = -1 /\ touched'.dst = {} /\ touched'.high = -1 /\ touched'.lane = -1
      /\ DOMAIN touched' = DOMAIN Untouched
  BY <1>4 DEF Untouched
<1>8. ReadsValidated'
  <2>1. src.first.count \in Nat /\ src.first.excCount \in Nat /\ blockSize \in Nat
    BY <1>6, BlockFields, Dims
  <2> QED BY <2>1, <1>4, <1>5, <1>6, <1>7 DEF ReadsValidated, Lower, utlValuesPerLane
<1>9. /\ part' \in {1, 2} /\ clamped' \in BOOLEAN /\ start2' \in 0 .. src.len
       /\ window' \in 0 .. src.len - start2' /\ limit' \in 0 .. window'
  <2> DEFINE n == src.len
  <2>1. n \in Nat /\ n - 0 = n /\ 0 \in 0 .. n /\ n \in 0 .. n
    BY <1>6
  <2>2. window' = n /\ limit' = n /\ start2' = 0
    BY <1>4
  <2> HIDE DEF n
  <2>3. window' \in 0 .. n - start2' /\ limit' \in 0 .. window' /\ start2' \in 0 .. n
    BY <2>1, <2>2
  <2> QED BY <2>3, <1>4 DEF n
<1>10. CASE ~UNCHANGED <<call, answers>>
  <2>1. Fail("ErrInvalidBuffer") /\ call = 1
    <3>1. ~(Continue(Calls[call]))
      BY <1>10 DEF Continue
    <3>2. Fail("ErrInvalidBuffer") /\ Calls[call] = "Unpack"
      BY <3>1 DEF Start
    <3> QED BY <3>2, <1>2 DEF Calls
  <2> DEFINE a == [NoAnswer EXCEPT !.err = "ErrInvalidBuffer"]
  <2>2. a.err = "ErrInvalidBuffer" /\ a.len = 0 /\ a.start2 = 0
    BY DEF NoAnswer
  <2>3. Return(a)
    BY <2>1 DEF Fail
  <2> HIDE DEF a
  <2>4. UnpackAnswer(a)
    BY <2>2 DEF UnpackAnswer
  <2>5. a.len \in Nat /\ a.start2 \in 0 .. src.len /\ call \in 1 .. 3 /\ ~(call = 2) /\ ~(call = 3)
    BY <2>1, <2>2, <1>6
  <2>6. \A c \in 1 .. 3 : answers[c].len \in Nat /\ answers[c].start2 \in 0 .. src.len
    BY <1>1 DEF TypeOK
  <2>7. /\ AnswersInv' /\ SkipsWholeBlock'
        /\ call' \in 1 .. 4 /\ pc' = "call" /\ (DOMAIN answers = 1 .. 3)'
        /\ (\A c \in 1 .. 3 : answers[c].len \in Nat /\ answers[c].start2 \in 0 .. src.len)'
    BY <1>1, <1>2, <2>3, <2>4, <2>5, <2>6, Answers
  <2>8. TypeOK'
    BY <1>1, <1>3, <1>9, <2>7 DEF TypeOK
  <2>9. CallInv'
    BY <1>1, <1>3, <1>7, <2>7 DEF CallInv, InGet
  <2>10. ValidatedInv' /\ UnpackInv' /\ GetInv' /\ NotCutOff'
    BY <2>7, Rests
  <2> QED BY <1>8, <2>7, <2>8, <2>9, <2>10 DEF ReadersInv
<1>11. CASE UNCHANGED <<call, answers>>
  <2>1. pc' = Calls[call] /\ call' = call /\ answers' = answers
    <3>1. call' # call + 1
      BY <1>2, <1>11
    <3>2. ~Fail("ErrInvalidBuffer")
      BY <3>1 DEF Fail, Return
    <3>3. Continue(Calls[call])
      BY <3>2 DEF Start
    <3> QED BY <3>3, <1>11 DEF Continue
  <2>2. (call = 1 /\ pc' = "Unpack") \/ (call = 2 /\ pc' = "Get")
    BY <2>1, <1>2 DEF Calls
  <2>3. ValidatedInv'
    BY <2>1, <2>2, <1>7 DEF ValidatedInv, InUnpack, InGet
  <2>4. UnpackInv'
    BY <2>2, <1>3, <1>4, <1>5 DEF UnpackInv, InUnpack
  <2>5. GetInv' /\ NotCutOff'
    BY <2>1, <2>2, <1>4, <1>5 DEF GetInv, NotCutOff
  <2>6. UNCHANGED <<input, call, answers>> /\ call \in {1, 2}
    BY <1>2, <1>11
  <2>8. /\ pc' \in {"Unpack", "Get"} \cup InUnpack \cup InGet
        /\ pc' \in {"Get"} \cup InGet => call = 2
    BY <2>2 DEF InGet
  <2>9. touched'.src \in Int /\ touched'.high \in Int /\ touched'.lane \in Int
    BY <1>7
  <2> QED BY <1>7, <1>8, <1>9, <2>3, <2>4, <2>5, <2>6, <2>8, <2>9, Continues
<1> QED BY <1>10, <1>11

(* BlockLength checks less than Unpack and adds up the same regions.       *)
LEMMA LengthAgrees ==
  ASSUME CallInv, TypeOK, Accepted(src.first, src.len, api64)
  PROVE  /\ lengthError \in {"none", "ErrInvalidFlags"}
         /\ lengthOff + utlPayloadBytes(src.first.bitWidth)
              + (IF src.first.excCount > 0
                 THEN lengthIndexSize(src.first.excCount) + src.first.svbLen ELSE 0)
              + (IF isTwo THEN src.block2Len ELSE 0)
            = BlockEndOf(src.first, api64) + (IF IsPair THEN src.block2Len ELSE 0)
<1> DEFINE x == src.first
           n == src.len
           m == src.block2Len
           pay == utlPayloadBytes(x.bitWidth)
           idx == excIndexSize(x.excCount)
<1>1. IsBlock(x) /\ api64 \in BOOLEAN /\ n \in Nat /\ m \in Nat
  BY DEF CallInv, TypeOK
<1>2. HeaderPasses(x, n, api64)
  BY DEF Accepted
<1>3. x.intType = IntTypeUint64 <=> api64
  BY <1>1, <1>2 DEF HeaderPasses, IntTypeUint64, IntTypeUint32, IntTypeUint16
<1>4. is64 <=> api64
  BY <1>3 DEF is64
<1>5. isTwo <=> IsPair
  BY <1>4 DEF isTwo, IsPair
<1>6. IsPair <=> (api64 /\ x.combine)
  BY DEF IsPair
<1>7. (IF isFor64SingleBlock(x) THEN for64BaseSize ELSE forBaseBytes(x.forWidth))
         = BaseBytesOf(x, api64)
  BY <1>3 DEF BaseBytesOf, isFor64SingleBlock
<1>8. lengthOff = payloadOffset(BaseBytesOf(x, api64), x.excCount > 0, api64 /\ x.combine)
  BY <1>5, <1>6, <1>7 DEF lengthOff
<1>9. PayloadEndOf(x, api64) = lengthOff + pay
  BY <1>8 DEF PayloadEndOf
<1>10. x.count \in Nat /\ x.excCount \in Nat /\ x.svbLen \in Nat /\ pay \in Nat /\ idx \in Nat
       /\ x.bitWidth \in Nat /\ PayloadEndOf(x, api64) \in Nat /\ BlockEndOf(x, api64) \in Nat
       /\ PayloadEndOf(x, api64) <= BlockEndOf(x, api64) /\ blockSize \in Nat /\ WordBits \in Nat
  <2>1. /\ x.count \in Nat /\ x.excCount \in Nat /\ x.svbLen \in Nat /\ pay \in Nat /\ idx \in Nat
        /\ x.bitWidth \in Nat
    BY <1>1, BlockFields
  <2>2. /\ PayloadEndOf(x, api64) \in Nat /\ BlockEndOf(x, api64) \in Nat
        /\ PayloadEndOf(x, api64) <= BlockEndOf(x, api64)
    BY <1>1, Ends
  <2>3. blockSize \in Nat /\ WordBits \in Nat
    BY Dims
  <2> QED BY <2>1, <2>2, <2>3
<1>11. BaseBytesOf(x, api64) \in Nat
  BY <1>1, BlockFields DEF BaseBytesOf, for64BaseSize
<1>12. lengthOff \in Nat /\ (x.excCount > 0 => headerBytes + svbLenBytes <= lengthOff)
  <2> DEFINE k == BaseBytesOf(x, api64)
  <2> HIDE DEF k
  <2>1. k \in Nat
    BY <1>11 DEF k
  <2>2. lengthOff = payloadOffset(k, x.excCount > 0, api64 /\ x.combine)
    BY <1>8 DEF k
  <2> HIDE DEF x
  <2> QED BY <2>1, <2>2 DEF payloadOffset, headerBytes, svbLenBytes, block2LenBytes
<1>13. lengthIndexSize(x.excCount) = idx
  BY <1>10, Dims DEF lengthIndexSize, excIndexSize
<1>14. BlockEndOf(x, api64) = IF x.excCount > 0 THEN lengthOff + pay + idx + x.svbLen
                              ELSE lengthOff + pay
  BY <1>9 DEF BlockEndOf
<1>15. headerBytes <= n /\ BlockEndOf(x, api64) <= n /\ x.count <= blockSize /\ x.bitWidth <= WordBits
  BY <1>2, <1>10 DEF HeaderPasses
<1>16. lengthError \in {"none", "ErrInvalidFlags"}
  <2>1. ~(n < headerBytes) /\ ~(x.count > blockSize) /\ ~(x.bitWidth > WordBits)
    BY <1>1, <1>10, <1>15 DEF headerBytes
  <2>2. ~(n < lengthOff) /\ (x.excCount > 0 => ~(n < headerBytes + svbLenBytes))
    BY <1>1, <1>9, <1>10, <1>12, <1>15 DEF headerBytes, svbLenBytes
  <2>3. lengthError = IF flagError THEN "ErrInvalidFlags" ELSE "none"
    BY <2>1, <2>2 DEF lengthError
  <2> QED BY <2>3
<1> DEFINE off == lengthOff
           s == x.svbLen
<1>17. off \in Nat /\ s \in Nat /\ x.excCount \in Nat
       /\ BlockEndOf(x, api64) = IF x.excCount > 0 THEN off + pay + idx + s ELSE off + pay
  BY <1>10, <1>12, <1>14
<1> HIDE DEF off, s, pay, idx, x, m
<1>18. off + pay + (IF x.excCount > 0 THEN lengthIndexSize(x.excCount) + s ELSE 0)
         + (IF isTwo THEN m ELSE 0)
         = BlockEndOf(x, api64) + (IF IsPair THEN m ELSE 0)
  <2>1. m \in Nat /\ pay \in Nat /\ idx \in Nat
    BY <1>1, <1>10
  <2> QED BY <2>1, <1>5, <1>13, <1>17
<1> QED BY <1>16, <1>18 DEF off, s, pay, x, m

(* BlockLength returns what the answer of Unpack says.                     *)
LEMMA BlockLengthKeeps ==
  ASSUME ReadersInv, BlockLength
  PROVE  ReadersInv'
<1>1. AnswersInv /\ CallInv /\ TypeOK
  BY DEF ReadersInv
<1>2. call = 3
  <2>1. call \in 1 .. 4 /\ Calls[call] = "BlockLength"
    BY <1>1 DEF TypeOK, BlockLength
  <2>2. call = 1 \/ call = 2 \/ call = 3 \/ call = 4
    BY <2>1
  <2> QED BY <2>1, <2>2 DEF Calls
<1>3. UNCHANGED input /\ UNCHANGED <<part, window, limit, touched, clamped, patch, start2>>
      /\ call \in 1 .. 3 /\ ~(call = 1) /\ ~(call = 2)
  BY <1>2 DEF BlockLength
<1> DEFINE L == lengthOff + utlPayloadBytes(src.first.bitWidth)
                  + (IF src.first.excCount > 0
                     THEN lengthIndexSize(src.first.excCount) + src.first.svbLen ELSE 0)
                  + (IF isTwo THEN src.block2Len ELSE 0)
           good == [NoAnswer EXCEPT !.len = L]
           bad == [NoAnswer EXCEPT !.err = lengthError]
<1>4. good.err = "none" /\ good.len = L /\ good.start2 = 0
  BY DEF NoAnswer
<1>5. bad.err = lengthError /\ bad.len = 0 /\ bad.start2 = 0
  BY DEF NoAnswer
<1>6. src.len \in Nat
  BY <1>1 DEF CallInv
<1>7. UnpackAnswer(answers[1])
  BY <1>1, <1>2 DEF AnswersInv
<1>8. ASSUME answers[1].err = "none", src.first.count > 0
      PROVE  lengthError \in {"none", "ErrInvalidFlags"} /\ L = answers[1].len
  <2>1. Accepted(src.first, src.len, api64)
    BY <1>7, <1>8 DEF UnpackAnswer
  <2>2. lengthError \in {"none", "ErrInvalidFlags"}
        /\ L = BlockEndOf(src.first, api64) + (IF IsPair THEN src.block2Len ELSE 0)
    BY <1>1, <2>1, LengthAgrees
  <2>3. BlockEndOf(src.first, api64) \in Nat
    BY <1>1, Ends DEF CallInv, TypeOK
  <2>4. IF IsPair THEN answers[1].len = BlockEndOf(src.first, api64) + src.block2Len
                  ELSE answers[1].len = BlockEndOf(src.first, api64)
    BY <1>7, <1>8 DEF UnpackAnswer, PairAnswer, SingleAnswer
  <2> HIDE DEF L
  <2> QED BY <2>2, <2>3, <2>4
<1>9. L \in Nat
  <2> DEFINE off == lengthOff
             pay == utlPayloadBytes(src.first.bitWidth)
             idx == lengthIndexSize(src.first.excCount)
  <2>1. /\ src.first.excCount \in Nat /\ src.first.svbLen \in Nat /\ pay \in Nat
        /\ src.block2Len \in Nat /\ forBaseBytes(src.first.forWidth) \in Nat
    BY <1>1, BlockFields DEF CallInv
  <2>2. idx \in Nat
    BY <2>1, Dims DEF lengthIndexSize
  <2>3. off \in Nat
    BY <2>1 DEF lengthOff, payloadOffset, headerBytes, svbLenBytes, block2LenBytes, for64BaseSize
  <2> HIDE DEF off, pay, idx
  <2>4. off + pay + (IF src.first.excCount > 0 THEN idx + src.first.svbLen ELSE 0)
          + (IF isTwo THEN src.block2Len ELSE 0) \in Nat
    BY <2>1, <2>2, <2>3
  <2> QED BY <2>4 DEF off, pay, idx
<1> HIDE DEF L
<1>10. CASE lengthError # "none"
  <2>1. Return(bad)
    BY <1>10 DEF BlockLength, Fail
  <2> HIDE DEF bad
  <2>2. LengthAnswer(bad)
    BY <1>5, <1>8, <1>10 DEF LengthAnswer
  <2>3. bad.len \in Nat /\ bad.start2 \in 0 .. src.len
    BY <1>5, <1>6
  <2> QED BY <1>3, <2>1, <2>2, <2>3, Returns
<1>11. CASE lengthError = "none"
  <2>1. Return(good)
    BY <1>11 DEF BlockLength, L
  <2> HIDE DEF good
  <2>2. LengthAnswer(good)
    BY <1>4, <1>8 DEF LengthAnswer
  <2>3. good.len \in Nat /\ good.start2 \in 0 .. src.len
    BY <1>4, <1>6, <1>9
  <2> QED BY <1>3, <2>1, <2>2, <2>3, Returns
<1> QED BY <1>10, <1>11

-----------------------------------------------------------------------------
(* The actions of Unpack.                                                  *)

(* A block that Unpack has accepted passes its checks again, in the slice  *)
(* that Get has cut it to as well.                                         *)
LEMMA ReadAgain ==
  ASSUME ReadersInv, Gettable, call = 2, pc # "call"
  PROVE  /\ HeaderPasses(b, window, api64) /\ StreamPasses(b) /\ SumsPass(b)
         /\ pos \in 0 .. b.count - 1 /\ b.count \in 1 .. blockSize
         /\ part = 1 \/ part = 2
<1>1. CallInv /\ TypeOK /\ UnpackInv /\ GetInv /\ UnpackAnswer(answers[1])
  BY DEF ReadersInv, AnswersInv
<1>2. src.first.count \in Nat /\ answers[1].err = "none" /\ pos \in 0 .. src.first.count - 1
  BY <1>1, BlockFields DEF Gettable, CallInv
<1>3. src.first.count > 0
  BY <1>2
<1>4. Accepted(src.first, src.len, api64) /\ (IsPair => PairAnswer(answers[1]))
  BY <1>1, <1>2, <1>3 DEF UnpackAnswer
<1>5. part = 1 \/ part = 2
  BY <1>1 DEF TypeOK
<1>6. Accepted(b, Whole, api64) /\ b.count = src.first.count
  <2>1. CASE part = 1
    BY <1>4, <2>1 DEF b, Whole
  <2>2. CASE part = 2
    <3>1. IsPair
      BY <1>1, <2>2 DEF UnpackInv
    <3>2. b = src.second /\ Whole = src.block2Len
      BY <2>2 DEF b, Whole
    <3> QED BY <1>4, <3>1, <3>2 DEF PairAnswer
  <2> QED BY <1>5, <2>1, <2>2
<1>7. HeaderPasses(b, Whole, api64) /\ StreamPasses(b) /\ SumsPass(b)
  BY <1>6 DEF Accepted
<1>8. window = Whole \/ window = BlockEndOf(b, api64)
  BY <1>1 DEF GetInv
<1>9. BlockEndOf(b, api64) \in Nat /\ headerBytes <= BlockEndOf(b, api64)
  <2>1. IsBlock(b) /\ api64 \in BOOLEAN
    BY <1>1, Current DEF TypeOK
  <2> QED BY <2>1, Ends
<1>10. HeaderPasses(b, window, api64)
  BY <1>7, <1>8, <1>9 DEF HeaderPasses
<1>11. b.count \in 1 .. blockSize
  BY <1>7 DEF HeaderPasses
<1> QED BY <1>2, <1>5, <1>6, <1>7, <1>10, <1>11

(* The phases that Get shares with Unpack keep what Get knows.             *)
LEMMA GetKept ==
  ASSUME GetInv, NotCutOff, UNCHANGED input, Gettable' = Gettable, call' = call,
         UNCHANGED <<part, window, clamped, start2>>,
         pc # "call", pc' \in {"Unpack"} \cup InUnpack
  PROVE  GetInv' /\ NotCutOff'
<1>1. src' = src /\ api64' = api64 /\ IsPair' = IsPair /\ StreamsHold' = StreamsHold
      /\ b' = b /\ Whole' = Whole
  BY SameInput
<1>2. pc' \notin {"call", "Get", "full", "lane", "laneExceptions", "direct", "got", "panic"}
  BY DEF InUnpack
<1>3. Gettable /\ call = 2 =>
        /\ ~clamped /\ (part = 2 => start2 = BlockEndOf(src.first, api64))
        /\ window = Whole \/ window = BlockEndOf(b, api64)
  BY DEF GetInv
<1>4. GetInv'
  BY <1>1, <1>2, <1>3 DEF GetInv
<1>5. NotCutOff'
  BY <1>1 DEF NotCutOff
<1> QED BY <1>4, <1>5

(* What every phase of a call starts from.                                 *)
LEMMA InCall ==
  ASSUME ReadersInv, UNCHANGED input, pc # "call"
  PROVE  /\ TypeOK /\ ReadsValidated /\ CallInv /\ ValidatedInv /\ UnpackInv /\ GetInv
         /\ NotCutOff /\ AnswersInv /\ SkipsWholeBlock
         /\ IsBlock(b) /\ api64 \in BOOLEAN /\ src.len \in Nat
         /\ window \in Nat /\ start2 \in Nat /\ limit \in Nat
         /\ call \in {1, 2} /\ call \in 1 .. 2
         /\ src' = src /\ api64' = api64 /\ pos' = pos /\ wide' = wide
         /\ NoPatch' = NoPatch /\ IsPair' = IsPair /\ StreamsHold' = StreamsHold
         /\ part' = part => b' = b /\ Whole' = Whole
         /\ b.count \in Nat /\ b.excCount \in Nat /\ blockSize \in Nat
<1>1. /\ TypeOK /\ ReadsValidated /\ CallInv /\ ValidatedInv /\ UnpackInv /\ GetInv
      /\ NotCutOff /\ AnswersInv /\ SkipsWholeBlock
  BY DEF ReadersInv
<1>2. src.len \in Nat /\ call \in {1, 2}
  BY <1>1 DEF CallInv
<1>3. api64 \in BOOLEAN
  BY <1>1 DEF TypeOK
<1>4. window \in Nat /\ start2 \in Nat /\ limit \in Nat
  BY <1>1, <1>2 DEF TypeOK
<1>5. IsBlock(b)
  BY <1>1, <1>3, Current
<1>6. b.count \in Nat /\ b.excCount \in Nat /\ blockSize \in Nat
  BY <1>5, BlockFields, Dims
<1>7. call \in 1 .. 2
  BY <1>2
<1> QED BY <1>1, <1>2, <1>3, <1>4, <1>5, <1>6, <1>7, SameInput

(* The prologue of unpackBlock.                                            *)
LEMMA UnpackHeaderKeeps ==
  ASSUME ReadersInv, UnpackHeader
  PROVE  ReadersInv'
<1>1. UNCHANGED input /\ pc = "Unpack" /\ UNCHANGED <<part, window, clamped, patch, start2>>
  BY DEF UnpackHeader
<1>2. /\ TypeOK /\ ReadsValidated /\ CallInv /\ ValidatedInv /\ UnpackInv /\ GetInv
      /\ NotCutOff /\ AnswersInv /\ SkipsWholeBlock
      /\ IsBlock(b) /\ api64 \in BOOLEAN /\ src.len \in Nat
      /\ window \in Nat /\ start2 \in Nat /\ limit \in Nat
      /\ call \in {1, 2} /\ call \in 1 .. 2
      /\ src' = src /\ api64' = api64 /\ pos' = pos /\ NoPatch' = NoPatch /\ IsPair' = IsPair
      /\ b' = b /\ Whole' = Whole
      /\ b.count \in Nat /\ b.excCount \in Nat /\ blockSize \in Nat
  BY <1>1, InCall
<1>3. CASE headerError # "none"
  <2>1. Fail(headerError) /\ UNCHANGED <<limit, touched>>
    BY <1>3 DEF UnpackHeader
  <2>2. call = 2 => ~Gettable
    <3> SUFFICES ASSUME call = 2, Gettable PROVE FALSE
      OBVIOUS
    <3>1. HeaderPasses(b, window, api64)
      BY <1>1, ReadAgain
    <3>2. headerError = "none"
      BY <1>2, <3>1, HeaderAgrees
    <3> QED BY <3>2, <1>3
  <2>3. UNCHANGED <<part, window, limit, touched, clamped, patch, start2>>
    BY <1>1, <2>1
  <2> QED BY <1>1, <1>2, <1>3, <2>1, <2>2, <2>3, Fails
<1>4. CASE headerError = "none"
  <2>1. headerBytes <= window /\ b.count <= blockSize /\ headerBytes \in Nat
    BY <1>2, <1>4, HeaderAgrees DEF headerBytes
  <2>2. /\ UNCHANGED <<call, answers>>
        /\ IF b.count = 0 THEN pc' = "unpacked" /\ limit' = headerBytes /\ touched' = touched
           ELSE /\ pc' = IF b.excCount > 0 THEN "decodeSVB" ELSE "sums"
                /\ limit' = blockEnd /\ touched' = [touched EXCEPT !.src = payloadEnd - 1]
    BY <1>4 DEF UnpackHeader, Continue, Checked
  <2>3. /\ payloadEnd \in Nat /\ blockEnd \in Nat /\ payloadEnd <= blockEnd
        /\ blockEnd = BlockEndOf(b, api64)
    BY <1>2, Current, Ends
  <2>4. b.count # 0 => HeaderPasses(b, window, api64) /\ blockEnd <= window
    <3> SUFFICES ASSUME b.count # 0 PROVE HeaderPasses(b, window, api64) /\ blockEnd <= window
      OBVIOUS
    <3>1. HeaderPasses(b, window, api64)
      BY <1>2, <1>4, HeaderAgrees
    <3> QED BY <3>1, <2>3 DEF HeaderPasses
  <2>5. pc' \in InUnpack /\ pc' # "patch" /\ (pc' = "decodeSVB" => b.excCount > 0 /\ b.count # 0)
        /\ (pc' = "sums" => b.excCount = 0 /\ b.count # 0) /\ (pc' = "unpacked" => b.count = 0)
    BY <2>2, <1>2 DEF InUnpack
  <2>6. /\ DOMAIN touched' = DOMAIN Untouched
        /\ touched'.src \in Int /\ touched'.high = touched.high /\ touched'.lane = touched.lane
        /\ touched'.dst = touched.dst /\ touched'.src < limit' /\ limit' \in 0 .. window
    <3>1. DOMAIN touched = {"src", "dst", "high", "lane"} /\ touched.src \in Int
      BY <1>2 DEF CallInv, Untouched
    <3>2. DOMAIN Untouched = {"src", "dst", "high", "lane"}
      BY DEF Untouched
    <3>3. CASE b.count = 0
      <4>1. touched.src = -1
        BY <1>1, <1>2, <3>3 DEF ValidatedInv
      <4> QED BY <2>1, <2>2, <3>1, <3>2, <3>3, <4>1, <1>2
    <3>4. CASE b.count # 0
      <4>1. touched' = [touched EXCEPT !.src = payloadEnd - 1] /\ limit' = blockEnd
        BY <2>2, <3>4
      <4>2. DOMAIN touched' = DOMAIN touched /\ touched'.src = payloadEnd - 1
            /\ touched'.high = touched.high /\ touched'.lane = touched.lane
            /\ touched'.dst = touched.dst
        BY <3>1, <4>1
      <4> QED BY <2>3, <2>4, <3>1, <3>2, <3>4, <4>1, <4>2, <1>2
    <3> QED BY <3>3, <3>4
  <2>7. ReadsValidated'
    BY <1>2, <2>6 DEF ReadsValidated
  <2>8. ValidatedInv'
    <3>1. call' = 2 => pos' \in 0 .. b'.count - 1
      BY <1>1, <1>2, <2>2 DEF ValidatedInv
    <3>2. pc' = "decodeSVB" => limit' = BlockEndOf(b', api64')
      BY <1>2, <2>2, <2>3, <2>5
    <3>3. pc' \notin InGet /\ pc' # "Unpack"
      BY <2>5 DEF InUnpack, InGet
    <3> QED BY <1>2, <2>1, <2>5, <3>1, <3>2, <3>3 DEF ValidatedInv
  <2>9. UnpackInv'
    <3>1. patch' = NoPatch
      BY <1>1, <1>2 DEF UnpackInv
    <3>2. pc' = "sums" => StreamPasses(b) /\ patch' = PatchOf(b)'
      <4>1. b.excCount = 0 => PatchOf(b)' = [p \in DOMAIN NoPatch |-> {}]
        BY <1>2 DEF PatchOf, UnpackPatch
      <4>2. NoPatch = [p \in DOMAIN NoPatch |-> {}]
        BY DEF NoPatch
      <4> QED BY <2>5, <3>1, <4>1, <4>2 DEF StreamPasses
    <3>3. b.count > 0 => HeaderPasses(b, window, api64)
      BY <2>4, <1>2
    <3>4. call' = call /\ window' = window /\ part' = part /\ start2' = start2
          /\ src' = src /\ Whole' = Whole /\ pc # "call"
      BY <1>1, <1>2, <2>2
    <3> QED BY <1>1, <1>2, <2>5, <3>1, <3>2, <3>3, <3>4 DEF UnpackInv, InUnpack
  <2>10. GetInv' /\ NotCutOff'
    <3>1. Gettable' = Gettable
      BY <1>1, <1>2, <2>2, AnswersKept
    <3> QED BY <1>1, <1>2, <2>2, <2>5, <3>1, GetKept
  <2>11. UNCHANGED <<input, call, answers>>
    BY <1>1, <2>2
  <2>12. /\ part' \in {1, 2} /\ clamped' \in BOOLEAN /\ start2' \in 0 .. src.len
         /\ window' \in 0 .. src.len - start2' /\ limit' \in 0 .. window'
    BY <1>1, <1>2, <2>6 DEF TypeOK
  <2>13. /\ pc' \in {"Unpack", "Get"} \cup InUnpack \cup InGet
         /\ pc' \in {"Get"} \cup InGet => call = 2
    BY <2>5 DEF InUnpack, InGet
  <2>14. touched'.src \in Int /\ touched'.high \in Int /\ touched'.lane \in Int
    BY <1>2, <2>6 DEF CallInv
  <2> QED BY <1>2, <2>6, <2>7, <2>8, <2>9, <2>10, <2>11, <2>12, <2>13, <2>14, Continues
<1> QED BY <1>3, <1>4

(* A step of an Unpack after its prologue, which only patches.             *)
LEMMA Patching ==
  ASSUME ReadersInv, UNCHANGED <<input, call, answers>>,
         UNCHANGED <<part, window, limit, clamped, start2>>,
         pc \in InUnpack, pc' \in InUnpack \ {"decodeSVB"},
         b.count > 0 => /\ StreamPasses(b)
                        /\ pc' \in {"sums", "unpacked"} => patch' = PatchOf(b)
                        /\ pc' = "unpacked" => SumsPass(b),
         pc' = "patch" => pc = "decodeSVB" /\ b.excCount <= b.count /\ patch' = NoPatch,
         DOMAIN touched' = DOMAIN Untouched, touched'.src < limit,
         touched'.src \in Int, touched'.high \in Int, touched'.lane = touched.lane,
         touched'.dst \subseteq 0 .. Lower(b.count, blockSize) - 1,
         touched'.high < Lower(b.excCount, blockSize)
  PROVE  ReadersInv'
<1>1. UNCHANGED input /\ pc # "call" /\ UNCHANGED <<call, answers>>
  BY DEF InUnpack
<1>2. /\ TypeOK /\ ReadsValidated /\ CallInv /\ ValidatedInv /\ UnpackInv /\ GetInv
      /\ NotCutOff /\ AnswersInv /\ SkipsWholeBlock
      /\ call \in {1, 2} /\ call \in 1 .. 2
      /\ src' = src /\ api64' = api64 /\ pos' = pos /\ NoPatch' = NoPatch /\ IsPair' = IsPair
      /\ b' = b /\ Whole' = Whole
  BY <1>1, InCall
<1>3. ReadsValidated'
  BY <1>2 DEF ReadsValidated
<1>4. ValidatedInv'
  <2>1. call' = 2 => pos' \in 0 .. b'.count - 1
    BY <1>1, <1>2 DEF ValidatedInv
  <2>2. pc' = "patch" => limit' = BlockEndOf(b', api64') /\ b'.excCount > 0
    BY <1>2 DEF ValidatedInv
  <2>3. pc' \notin InGet /\ pc' # "Unpack" /\ pc' # "decodeSVB"
    BY DEF InUnpack, InGet
  <2>4. b'.count <= blockSize
    BY <1>2 DEF ValidatedInv
  <2> QED BY <1>2, <2>1, <2>2, <2>3, <2>4 DEF ValidatedInv
<1>5. UnpackInv'
  <2>1. PatchOf(b)' = PatchOf(b)
    BY <1>2 DEF PatchOf
  <2>2. b.count > 0 => HeaderPasses(b, window, api64)
    BY <1>2 DEF UnpackInv
  <2>3. /\ call = 1 => window = Whole
        /\ part = 1 => start2 = 0
        /\ part = 2 => IsPair /\ start2 + src.block2Len <= src.len
        /\ call = 1 /\ part = 2 /\ src.first.count > 0 =>
             Accepted(src.first, src.len, api64) /\ start2 = BlockEndOf(src.first, api64)
    BY <1>1, <1>2 DEF UnpackInv
  <2>4. pc' \notin {"Unpack", "Get", "decodeSVB", "direct", "lane", "laneExceptions", "full"}
    BY DEF InUnpack
  <2>5. pc' = "patch" => patch' = NoPatch'
    BY <1>2
  <2> QED BY <1>2, <2>1, <2>2, <2>3, <2>4, <2>5 DEF UnpackInv, InUnpack
<1>6. GetInv' /\ NotCutOff'
  <2>1. Gettable' = Gettable
    BY <1>1, <1>2, AnswersKept
  <2>2. pc' \in {"Unpack"} \cup InUnpack
    OBVIOUS
  <2> QED BY <1>1, <1>2, <2>1, <2>2, GetKept
<1>7. /\ part' \in {1, 2} /\ clamped' \in BOOLEAN /\ start2' \in 0 .. src.len
      /\ window' \in 0 .. src.len - start2' /\ limit' \in 0 .. window'
  BY <1>2 DEF TypeOK
<1>8. /\ pc' \in {"Unpack", "Get"} \cup InUnpack \cup InGet
      /\ pc' \in {"Get"} \cup InGet => call = 2
  BY DEF InUnpack, InGet
<1>9. touched'.lane \in Int
  BY <1>2 DEF CallInv
<1> QED BY <1>1, <1>2, <1>3, <1>4, <1>5, <1>6, <1>7, <1>8, <1>9, Continues

(* Decoding the high bits.                                                 *)
LEMMA DecodeSVBKeeps ==
  ASSUME ReadersInv, DecodeSVB
  PROVE  ReadersInv'
<1>1. UNCHANGED input /\ pc = "decodeSVB" /\ pc # "call" /\ pc \in InUnpack
      /\ UNCHANGED <<part, window, limit, clamped, patch, start2>>
  BY DEF DecodeSVB, InUnpack
<1>2. /\ TypeOK /\ ReadsValidated /\ CallInv /\ ValidatedInv /\ UnpackInv /\ GetInv
      /\ IsBlock(b) /\ api64 \in BOOLEAN /\ call \in {1, 2} /\ call \in 1 .. 2
      /\ src' = src /\ api64' = api64 /\ b' = b
      /\ b.count \in Nat /\ b.excCount \in Nat /\ blockSize \in Nat /\ limit \in Nat
  BY <1>1, InCall
<1>3. limit = BlockEndOf(b, api64) /\ b.excCount > 0 /\ b.count <= blockSize
  BY <1>1, <1>2 DEF ValidatedInv
<1>4. (svbError <=> ~StreamPasses(b)) /\ DataBefore(b.excCount) \in Nat
  BY <1>2, <1>3, StreamAgrees
<1>5. CASE svbError
  <2>1. Fail("ErrInvalidBuffer") /\ UNCHANGED <<part, window, limit, touched, clamped, patch, start2>>
    BY <1>1, <1>5 DEF DecodeSVB
  <2>2. call = 2 => ~Gettable
    BY <1>1, <1>4, <1>5, ReadAgain
  <2> QED BY <1>1, <1>2, <2>1, <2>2, Fails
<1>6. CASE ~svbError
  <2>1. StreamPasses(b) /\ b.excCount <= b.count
    BY <1>3, <1>4, <1>6 DEF StreamPasses
  <2> DEFINE t == svbStart + controlBytes + DataBefore(b.excCount) - 1
  <2>2. pc' = "patch" /\ UNCHANGED <<call, answers>> /\ touched' = [touched EXCEPT !.src = t]
    BY <1>6 DEF DecodeSVB, Continue
  <2>3. t \in Int /\ t < limit
    <3>1. /\ svbStart = PayloadEndOf(b, api64) + excIndexSize(b.excCount)
          /\ controlBytes = svbControlByteCount(b.excCount)
      BY <1>2, Current
    <3>2. PayloadEndOf(b, api64) \in Nat /\ excIndexSize(b.excCount) \in Nat
          /\ svbControlByteCount(b.excCount) \in Nat /\ b.svbLen \in Nat
      BY <1>2, Ends, BlockFields
    <3>3. controlBytes + DataBefore(b.excCount) <= b.svbLen
      BY <1>4, <1>6, <3>1, <3>2 DEF svbError
    <3>4. limit = PayloadEndOf(b, api64) + excIndexSize(b.excCount) + b.svbLen
      BY <1>3 DEF BlockEndOf
    <3> DEFINE d == DataBefore(b.excCount)
               u == PayloadEndOf(b, api64) + excIndexSize(b.excCount)
               v == controlBytes
    <3>5. t = u + v + d - 1 /\ v + d <= b.svbLen /\ limit = u + b.svbLen
      BY <3>1, <3>3, <3>4
    <3>6. u \in Nat /\ v \in Nat /\ d \in Nat
      BY <1>4, <3>1, <3>2
    <3> HIDE DEF d, u, v, t
    <3> QED BY <3>2, <3>5, <3>6
  <2> HIDE DEF t
  <2>4. DOMAIN touched = {"src", "dst", "high", "lane"} /\ DOMAIN touched = DOMAIN Untouched
    BY <1>2 DEF CallInv, Untouched
  <2>5. DOMAIN touched' = DOMAIN touched /\ touched'.src = t /\ touched'.high = touched.high
        /\ touched'.lane = touched.lane /\ touched'.dst = touched.dst
    BY <2>2, <2>4
  <2>6. /\ touched'.dst \subseteq 0 .. Lower(b.count, blockSize) - 1
        /\ touched'.high < Lower(b.excCount, blockSize) /\ touched'.high \in Int
    BY <1>2, <2>5 DEF ReadsValidated, CallInv
  <2>7. patch' = NoPatch
    BY <1>1, <1>2 DEF UnpackInv
  <2>8. pc' \in InUnpack \ {"decodeSVB"} /\ pc' \notin {"sums", "unpacked"}
    BY <2>2 DEF InUnpack
  <2>9. UNCHANGED <<input, call, answers>> /\ UNCHANGED <<part, window, limit, clamped, start2>>
    BY <1>1, <2>2
  <2> QED BY <1>1, <2>1, <2>3, <2>4, <2>5, <2>6, <2>7, <2>8, <2>9, Patching
<1> QED BY <1>5, <1>6

(* Patching with a list of positions.                                      *)
LEMMA PatchListKeeps ==
  ASSUME ReadersInv, PatchList
  PROVE  ReadersInv'
<1>1. UNCHANGED input /\ pc = "patch" /\ pc # "call" /\ pc \in InUnpack /\ pc' = "sums"
      /\ UNCHANGED <<part, window, limit, clamped, start2>> /\ UNCHANGED <<call, answers>>
  BY DEF PatchList, Continue, InUnpack
<1>2. /\ TypeOK /\ ReadsValidated /\ CallInv /\ ValidatedInv /\ UnpackInv
      /\ IsBlock(b) /\ b.count \in Nat /\ b.excCount \in Nat /\ blockSize \in Nat
  BY <1>1, InCall
<1>3. b.excCount > 0 /\ b.excCount <= b.count /\ b.count <= blockSize
  BY <1>1, <1>2 DEF ValidatedInv, InUnpack
<1>4. StreamPasses(b) /\ patch = NoPatch
  BY <1>1, <1>2, <1>3 DEF UnpackInv, InUnpack
<1>5. b.positions \in [0 .. b.excCount - 1 -> Nat]
  BY <1>2, BlockFields
<1> DEFINE target == [r \in 0 .. b.excCount - 1 |-> patchTarget(b.positions[r])]
           D == {target[r] : r \in DOMAIN target} \ {-1}
<1>6. /\ b.excCount <= excBitmapThreshold
      /\ patch' = [p \in DOMAIN patch |-> {r \in DOMAIN target : target[r] = p}]
      /\ touched' = [touched EXCEPT !.dst = D, !.high = b.excCount - 1]
  BY DEF PatchList
<1>7. \A r \in 0 .. b.excCount - 1 : target[r] = TargetIn(b, b.positions[r])
  BY DEF patchTarget, TargetIn
<1>8. patch' = PatchOf(b)
  <2>1. PatchOf(b) = ListPatch(b, DOMAIN NoPatch)
    BY <1>2, <1>3, <1>6 DEF PatchOf, UnpackPatch
  <2>2. ListPatch(b, DOMAIN NoPatch) =
          [p \in DOMAIN NoPatch |-> {r \in 0 .. b.excCount - 1 : target[r] = p}]
    BY <1>7 DEF ListPatch
  <2> QED BY <1>4, <1>6, <2>1, <2>2
<1>9. D \subseteq 0 .. Lower(b.count, blockSize) - 1
  <2> SUFFICES ASSUME NEW r \in 0 .. b.excCount - 1, target[r] # -1
               PROVE  target[r] \in 0 .. Lower(b.count, blockSize) - 1
    OBVIOUS
  <2> DEFINE p == b.positions[r]
  <2>1. p \in Nat
    BY <1>5
  <2> HIDE DEF p
  <2>2. target[r] = IF b.count = blockSize THEN p % blockSize ELSE IF p < b.count THEN p ELSE -1
    BY <1>7 DEF TargetIn, p
  <2>3. p % blockSize \in 0 .. blockSize - 1
    BY <2>1, Dims
  <2>4. Lower(b.count, blockSize) = b.count
    BY <1>3 DEF Lower
  <2> HIDE DEF target
  <2> QED BY <1>2, <2>1, <2>2, <2>3, <2>4
<1> HIDE DEF D, target
<1>10. DOMAIN touched = {"src", "dst", "high", "lane"} /\ DOMAIN touched = DOMAIN Untouched
  BY <1>2 DEF CallInv, Untouched
<1>11. DOMAIN touched' = DOMAIN touched /\ touched'.src = touched.src
       /\ touched'.high = b.excCount - 1 /\ touched'.lane = touched.lane /\ touched'.dst = D
  BY <1>6, <1>10
<1>12. touched'.high \in Int /\ touched'.high < Lower(b.excCount, blockSize)
  BY <1>2, <1>3, <1>11 DEF Lower
<1>13. touched'.src \in Int /\ touched'.src < limit
  BY <1>2, <1>11 DEF ReadsValidated, CallInv
<1>14. UNCHANGED <<input, call, answers>> /\ pc' \in InUnpack \ {"decodeSVB"}
       /\ pc' # "unpacked" /\ pc' # "patch"
  BY <1>1 DEF InUnpack
<1> QED BY <1>1, <1>4, <1>8, <1>9, <1>10, <1>11, <1>12, <1>13, <1>14, Patching

(* Patching with a bitmap.                                                 *)
LEMMA PatchBitmapKeeps ==
  ASSUME ReadersInv, PatchBitmap
  PROVE  ReadersInv'
<1>1. UNCHANGED input /\ pc = "patch" /\ pc # "call" /\ pc \in InUnpack /\ pc' = "sums"
      /\ UNCHANGED <<part, window, limit, clamped, start2>> /\ UNCHANGED <<call, answers>>
  BY DEF PatchBitmap, Continue, InUnpack
<1>2. /\ TypeOK /\ ReadsValidated /\ CallInv /\ ValidatedInv /\ UnpackInv
      /\ IsBlock(b) /\ b.count \in Nat /\ b.excCount \in Nat /\ blockSize \in Nat
  BY <1>1, InCall
<1>3. b.excCount > 0 /\ b.excCount <= b.count /\ b.count <= blockSize
  BY <1>1, <1>2 DEF ValidatedInv, InUnpack
<1>4. StreamPasses(b) /\ patch = NoPatch
  BY <1>1, <1>2, <1>3 DEF UnpackInv, InUnpack
<1>5. b.excCount > excBitmapThreshold /\ excBitmapThreshold \in Nat
  BY Dims DEF PatchBitmap
<1>6. bitmapBits = BitsOf(b)
  BY DEF bitmapBits, BitsOf
<1> DEFINE B == BitsOf(b)
<1>7. B \in SUBSET (0 .. b.count - 1) /\ B \in SUBSET Nat
  <2>1. b.bitmap \in SUBSET Nat
    BY <1>2, BlockFields
  <2> QED BY <2>1, <1>2 DEF BitsOf
<1>8. IsFiniteSet(B) /\ Cardinality(B) \in Nat
  <2>1. 0 \in Int /\ b.count - 1 \in Int
    BY <1>2
  <2>2. IsFiniteSet(B)
    BY <2>1, <1>7, FS_Interval, FS_Subset
  <2> QED BY <2>2, FS_CardinalityType
<1> HIDE DEF B
<1>9. IF Cardinality(B) > b.excCount THEN patch' = patch /\ touched' = touched
      ELSE /\ patch' = [p \in DOMAIN patch |-> IF p \in B THEN {Rank(B, p)} ELSE {}]
           /\ touched' = [touched EXCEPT !.dst = B, !.high = Cardinality(B) - 1]
  BY <1>6 DEF PatchBitmap, B
<1>10. patch' = PatchOf(b)
  <2>1. PatchOf(b) = BitmapPatch(b, DOMAIN NoPatch)
    <3>1. ~(b.excCount <= excBitmapThreshold) /\ b.excCount # 0
      BY <1>2, <1>3, <1>5
    <3> QED BY <3>1 DEF PatchOf, UnpackPatch
  <2>2. BitmapPatch(b, DOMAIN NoPatch) =
          [p \in DOMAIN NoPatch |-> IF Cardinality(B) <= b.excCount /\ p \in B
                                    THEN {Rank(B, p)} ELSE {}]
    BY DEF BitmapPatch, B
  <2>3. NoPatch = [p \in DOMAIN NoPatch |-> {}]
    BY DEF NoPatch
  <2>4. Cardinality(B) > b.excCount <=> ~(Cardinality(B) <= b.excCount)
    BY <1>2, <1>8
  <2>5. CASE Cardinality(B) > b.excCount
    BY <1>4, <1>9, <2>1, <2>2, <2>3, <2>4, <2>5
  <2>6. CASE ~(Cardinality(B) > b.excCount)
    BY <1>4, <1>9, <2>1, <2>2, <2>4, <2>6
  <2> QED BY <2>5, <2>6
<1>11. DOMAIN touched = {"src", "dst", "high", "lane"} /\ DOMAIN touched = DOMAIN Untouched
  BY <1>2 DEF CallInv, Untouched
<1>12. /\ DOMAIN touched' = DOMAIN touched /\ touched'.src = touched.src
       /\ touched'.lane = touched.lane
       /\ \/ touched'.dst = touched.dst /\ touched'.high = touched.high
          \/ touched'.dst = B /\ touched'.high = Cardinality(B) - 1 /\ Cardinality(B) <= b.excCount
  <2>1. CASE Cardinality(B) > b.excCount
    BY <1>9, <2>1
  <2>2. CASE ~(Cardinality(B) > b.excCount)
    <3>1. Cardinality(B) <= b.excCount
      BY <1>2, <1>8, <2>2
    <3> QED BY <1>9, <1>11, <2>2, <3>1
  <2> QED BY <2>1, <2>2
<1>13. Lower(b.count, blockSize) = b.count /\ Lower(b.excCount, blockSize) = b.excCount
  BY <1>2, <1>3 DEF Lower
<1>14. touched'.dst \subseteq 0 .. Lower(b.count, blockSize) - 1
  BY <1>2, <1>7, <1>12, <1>13 DEF ReadsValidated
<1>15. touched'.high \in Int /\ touched'.high < Lower(b.excCount, blockSize)
  BY <1>2, <1>8, <1>12, <1>13 DEF ReadsValidated, CallInv
<1>16. touched'.src \in Int /\ touched'.src < limit
  BY <1>2, <1>12 DEF ReadsValidated, CallInv
<1>17. UNCHANGED <<input, call, answers>> /\ pc' \in InUnpack \ {"decodeSVB"}
       /\ pc' # "unpacked" /\ pc' # "patch"
  BY <1>1 DEF InUnpack
<1> QED BY <1>1, <1>4, <1>10, <1>11, <1>12, <1>14, <1>15, <1>16, <1>17, Patching

(* Delta decoding.                                                         *)
LEMMA UnpackSumsKeeps ==
  ASSUME ReadersInv, UnpackSums
  PROVE  ReadersInv'
<1>1. UNCHANGED input /\ pc = "sums" /\ pc # "call" /\ pc \in InUnpack
      /\ UNCHANGED <<part, window, limit, touched, clamped, patch, start2>>
  BY DEF UnpackSums, InUnpack
<1>2. /\ TypeOK /\ ReadsValidated /\ CallInv /\ ValidatedInv /\ UnpackInv
      /\ call \in {1, 2} /\ call \in 1 .. 2
  BY <1>1, InCall
<1>3. CASE ~SumsPass(b)
  <2>1. Fail("ErrOverflow")
    BY <1>3 DEF UnpackSums, SumsPass
  <2>2. call = 2 => ~Gettable
    BY <1>1, <1>3, ReadAgain
  <2> QED BY <1>1, <1>2, <2>1, <2>2, Fails
<1>4. CASE SumsPass(b)
  <2>1. pc' = "unpacked" /\ UNCHANGED <<call, answers>>
    BY <1>4 DEF UnpackSums, SumsPass, Continue
  <2>2. b.count > 0 => StreamPasses(b) /\ patch' = PatchOf(b)
    BY <1>1, <1>2 DEF UnpackInv, InUnpack
  <2>3. pc' \in InUnpack \ {"decodeSVB"} /\ pc' # "patch"
    BY <2>1 DEF InUnpack
  <2>4. DOMAIN touched' = DOMAIN Untouched /\ touched'.src < limit
        /\ touched'.src \in Int /\ touched'.high \in Int /\ touched'.lane = touched.lane
        /\ touched'.dst \subseteq 0 .. Lower(b.count, blockSize) - 1
        /\ touched'.high < Lower(b.excCount, blockSize)
    BY <1>1, <1>2 DEF ReadsValidated, CallInv
  <2>5. UNCHANGED <<input, call, answers>> /\ UNCHANGED <<part, window, limit, clamped, start2>>
    BY <1>1, <2>1
  <2> QED BY <1>1, <1>4, <2>2, <2>3, <2>4, <2>5, Patching
<1> QED BY <1>3, <1>4

(* What lies before block 2 fits into the block, so that a pair which      *)
(* Unpack has accepted is not cut off before its second block.             *)
LEMMA SecondFound ==
  ASSUME CallInv, api64 \in BOOLEAN, part = 1, hasCombine, src.len \in Nat,
         UnpackAnswer(answers[1]), answers[1].err = "none", src.first.count > 0
  PROVE  ~missesSecond(BlockEndOf(src.first, api64))
<1> DEFINE x == src.first
<1>1. IsPair /\ IsBlock(x) /\ b = x /\ src.block2Len \in Nat
  BY DEF hasCombine, IsPair, b, CallInv
<1>2. Accepted(x, src.len, api64) /\ PairAnswer(answers[1])
  BY <1>1 DEF UnpackAnswer
<1>3. BlockEndOf(x, api64) + src.block2Len <= src.len
  BY <1>2 DEF PairAnswer
<1>4. BlockEndOf(x, api64) <= src.len
  BY <1>2 DEF Accepted, HeaderPasses
<1>5. BaseBytesOf(x, api64) = forBaseBytes(x.forWidth)
  BY <1>1 DEF BaseBytesOf, isFor64SingleBlock, hasCombine
<1>6. PayloadEndOf(x, api64) = metaOff + utlPayloadBytes(x.bitWidth)
  BY <1>1, <1>5 DEF PayloadEndOf, metaOff, hasCombine
<1>7. /\ BlockEndOf(x, api64) \in Nat /\ PayloadEndOf(x, api64) \in Nat
      /\ PayloadEndOf(x, api64) <= BlockEndOf(x, api64)
      /\ utlPayloadBytes(x.bitWidth) \in Nat /\ forBaseBytes(x.forWidth) \in Nat
  BY <1>1, Ends, BlockFields
<1>8. metaOff \in Nat
  BY <1>1, <1>7 DEF metaOff, payloadOffset, headerBytes, svbLenBytes, block2LenBytes
<1>9. metaOff <= src.len
  BY <1>4, <1>6, <1>7, <1>8
<1> HIDE DEF x
<1>10. ~(src.len < metaOff) /\ ~(BlockEndOf(x, api64) + src.block2Len > src.len)
  BY <1>1, <1>3, <1>7, <1>8, <1>9
<1> QED BY <1>10 DEF missesSecond, x

(* Going on with block 2.                                                  *)
LEMMA SecondKeeps ==
  ASSUME ReadersInv, UNCHANGED <<input, clamped>>, pc # "call", part = 1, hasCombine,
         NEW start \in Nat, Second(start),
         call = 1 /\ src.first.count > 0 =>
           Accepted(src.first, src.len, api64) /\ start = BlockEndOf(src.first, api64),
         call = 2 /\ Gettable => start = BlockEndOf(src.first, api64)
  PROVE  ReadersInv'
<1>1. UNCHANGED input /\ clamped' = clamped
  OBVIOUS
<1>2. /\ TypeOK /\ ReadsValidated /\ CallInv /\ ValidatedInv /\ UnpackInv /\ GetInv
      /\ NotCutOff /\ AnswersInv /\ SkipsWholeBlock
      /\ api64 \in BOOLEAN /\ src.len \in Nat
      /\ call \in {1, 2} /\ call \in 1 .. 2
      /\ src' = src /\ api64' = api64 /\ pos' = pos /\ NoPatch' = NoPatch /\ IsPair' = IsPair
      /\ StreamsHold' = StreamsHold
  BY <1>1, InCall
<1>3. IsPair /\ src.block2Len \in Nat /\ IsBlock(src.second) /\ src.first.count \in Nat
  BY <1>2, BlockFields DEF hasCombine, IsPair, b, CallInv
<1>4. CASE missesSecond(start)
  <2>1. Fail("ErrInvalidBuffer") /\ UNCHANGED <<part, window, limit, touched, clamped, patch, start2>>
    BY <1>4 DEF Second
  <2>2. call = 2 => ~Gettable
    <3> SUFFICES ASSUME call = 2, Gettable PROVE FALSE
      OBVIOUS
    <3>1. answers[1].err = "none" /\ pos \in 0 .. src.first.count - 1
      BY DEF Gettable
    <3>2. UnpackAnswer(answers[1]) /\ src.first.count > 0
      BY <1>2, <1>3, <3>1 DEF AnswersInv
    <3>3. ~missesSecond(BlockEndOf(src.first, api64))
      BY <1>2, <3>1, <3>2, SecondFound
    <3>4. start = BlockEndOf(src.first, api64)
      OBVIOUS
    <3> QED BY <3>3, <3>4, <1>4
  <2> QED BY <1>1, <1>2, <2>1, <2>2, Fails
<1>5. CASE ~missesSecond(start)
  <2>1. /\ part' = 2 /\ window' = src.block2Len /\ limit' = src.block2Len
        /\ start2' = start /\ touched' = Untouched /\ patch' = NoPatch
        /\ pc' = Calls[call] /\ UNCHANGED <<call, answers>>
    BY <1>5 DEF Second, Continue
  <2>2. b' = src.second /\ Whole' = src.block2Len
    BY <1>2, <2>1 DEF b, Whole
  <2>3. (call = 1 /\ pc' = "Unpack") \/ (call = 2 /\ pc' = "Get")
    BY <1>2, <2>1 DEF Calls
  <2>4. start + src.block2Len <= src.len
    BY <1>2, <1>3, <1>5 DEF missesSecond
  <2>5. touched'.src = -1 /\ touched'.dst = {} /\ touched'.high = -1 /\ touched'.lane = -1
        /\ DOMAIN touched' = DOMAIN Untouched
    BY <2>1 DEF Untouched
  <2>6. ReadsValidated'
    <3>1. src.second.count \in Nat /\ src.second.excCount \in Nat /\ blockSize \in Nat
      BY <1>3, BlockFields, Dims
    <3> QED BY <1>3, <2>1, <2>2, <2>5, <3>1 DEF ReadsValidated, Lower, utlValuesPerLane
  <2>7. ValidatedInv'
    BY <2>1, <2>3, <2>5 DEF ValidatedInv, InUnpack, InGet
  <2>8. UnpackInv'
    <3>1. call = 1 /\ src.first.count > 0 =>
            Accepted(src.first, src.len, api64) /\ start2' = BlockEndOf(src.first, api64)
      BY <2>1
    <3> QED BY <1>2, <1>3, <2>1, <2>2, <2>3, <2>4, <3>1 DEF UnpackInv, InUnpack
  <2>9. Gettable' = Gettable
    BY <1>1, <1>2, <2>1, AnswersKept
  <2>10. GetInv'
    <3>1. Gettable /\ call = 2 => ~clamped /\ start2' = BlockEndOf(src.first, api64)
      BY <1>2, <2>1 DEF GetInv
    <3> QED BY <1>1, <1>2, <2>1, <2>2, <2>3, <2>9, <3>1 DEF GetInv
  <2>11. NotCutOff'
    BY <1>1, <1>2, <2>1, <2>3 DEF NotCutOff
  <2>12. UNCHANGED <<input, call, answers>>
    BY <1>1, <2>1
  <2>13. /\ part' \in {1, 2} /\ clamped' \in BOOLEAN /\ start2' \in 0 .. src.len
         /\ window' \in 0 .. src.len - start2' /\ limit' \in 0 .. window'
    BY <1>1, <1>2, <1>3, <2>1, <2>4 DEF TypeOK
  <2>14. /\ pc' \in {"Unpack", "Get"} \cup InUnpack \cup InGet
         /\ pc' \in {"Get"} \cup InGet => call = 2
    BY <2>3 DEF InGet
  <2>15. touched'.src \in Int /\ touched'.high \in Int /\ touched'.lane \in Int
    BY <2>5
  <2> QED BY <1>2, <2>5, <2>6, <2>7, <2>8, <2>10, <2>11, <2>12, <2>13, <2>14, <2>15, Continues
<1> QED BY <1>4, <1>5

(* Block 1 is unpacked: block 2 follows, or the answer.                    *)
LEMMA UnpackFirstKeeps ==
  ASSUME ReadersInv, UnpackFirst
  PROVE  ReadersInv'
<1>1. UNCHANGED input /\ UNCHANGED <<input, clamped>> /\ pc = "unpacked" /\ pc # "call"
      /\ pc \in InUnpack /\ part = 1 /\ Calls[call] = "Unpack"
  BY DEF UnpackFirst, InUnpack
<1>2. /\ TypeOK /\ CallInv /\ UnpackInv /\ IsBlock(b) /\ api64 \in BOOLEAN /\ src.len \in Nat
      /\ call \in {1, 2} /\ b.count \in Nat
  BY <1>1, InCall
<1>3. call = 1 /\ call \in 1 .. 3 /\ ~(call = 2) /\ ~(call = 3)
  BY <1>1, <1>2 DEF Calls
<1>4. b = src.first /\ window = src.len /\ (IsPair <=> hasCombine)
  BY <1>1, <1>2, <1>3 DEF b, UnpackInv, Whole, IsPair, hasCombine
<1>5. b.count > 0 => Accepted(b, src.len, api64) /\ patch = PatchOf(b)
  BY <1>1, <1>2, <1>4 DEF UnpackInv, Accepted
<1>6. consumed \in Nat /\ (b.count > 0 => consumed = BlockEndOf(b, api64))
  BY <1>2, Current, Ends DEF consumed
<1>7. CASE hasCombine
  <2>1. Second(consumed)
    BY <1>7 DEF UnpackFirst
  <2> QED BY <1>1, <1>3, <1>4, <1>5, <1>6, <1>7, <2>1, SecondKeeps
<1>8. CASE ~hasCombine
  <2> DEFINE a == [NoAnswer EXCEPT !.len = consumed, !.patch = patch]
  <2>1. Return(a) /\ UNCHANGED <<part, window, limit, touched, clamped, patch, start2>>
    BY <1>8 DEF UnpackFirst
  <2>2. a.err = "none" /\ a.len = consumed /\ a.patch = patch /\ a.start2 = 0
    BY DEF NoAnswer
  <2> HIDE DEF a
  <2>3. UnpackAnswer(a)
    BY <1>4, <1>5, <1>6, <1>8, <2>2 DEF UnpackAnswer, SingleAnswer
  <2>4. a.len \in Nat /\ a.start2 \in 0 .. src.len
    BY <1>2, <1>6, <2>2
  <2> QED BY <1>1, <1>3, <2>1, <2>3, <2>4, Returns
<1> QED BY <1>7, <1>8

(* Both blocks are unpacked.                                               *)
LEMMA UnpackSecondKeeps ==
  ASSUME ReadersInv, UnpackSecond
  PROVE  ReadersInv'
<1>1. UNCHANGED input /\ pc = "unpacked" /\ pc # "call"
      /\ pc \in InUnpack /\ part = 2 /\ Calls[call] = "Unpack"
      /\ UNCHANGED <<part, window, limit, touched, clamped, patch, start2>>
  BY DEF UnpackSecond, InUnpack
<1>2. /\ TypeOK /\ CallInv /\ UnpackInv /\ IsBlock(b) /\ api64 \in BOOLEAN /\ src.len \in Nat
      /\ call \in {1, 2} /\ b.count \in Nat /\ start2 \in Nat
  BY <1>1, InCall
<1>3. call = 1 /\ call \in 1 .. 2 /\ call \in 1 .. 3 /\ ~(call = 2) /\ ~(call = 3)
  BY <1>1, <1>2 DEF Calls
<1>4. /\ b = src.second /\ window = src.block2Len /\ IsPair /\ start2 + src.block2Len <= src.len
      /\ src.block2Len \in Nat
      /\ src.first.count > 0 =>
           Accepted(src.first, src.len, api64) /\ start2 = BlockEndOf(src.first, api64)
  BY <1>1, <1>2, <1>3 DEF b, UnpackInv, Whole, CallInv
<1>5. b.count > 0 => Accepted(b, src.block2Len, api64) /\ patch = PatchOf(b)
  BY <1>1, <1>2, <1>4 DEF UnpackInv, Accepted
<1>6. CASE b.count # src.first.count
  <2>1. Fail("ErrInvalidBuffer")
    BY <1>6 DEF UnpackSecond
  <2> QED BY <1>1, <1>3, <2>1, Fails
<1>7. CASE b.count = src.first.count
  <2> DEFINE a == [NoAnswer EXCEPT !.len = start2 + src.block2Len, !.patch = patch,
                                   !.start2 = start2]
  <2>1. Return(a)
    BY <1>7 DEF UnpackSecond
  <2>2. a.err = "none" /\ a.len = start2 + src.block2Len /\ a.patch = patch /\ a.start2 = start2
    BY DEF NoAnswer
  <2> HIDE DEF a
  <2>3. UnpackAnswer(a)
    <3> SUFFICES ASSUME src.first.count > 0
                 PROVE  Accepted(src.first, src.len, api64) /\ PairAnswer(a)
      BY <1>4 DEF UnpackAnswer
    <3>1. Accepted(src.first, src.len, api64) /\ start2 = BlockEndOf(src.first, api64)
      BY <1>4
    <3>2. PairAnswer(a)
      BY <1>4, <1>5, <1>7, <2>2, <3>1 DEF PairAnswer
    <3> QED BY <3>1, <3>2
  <2>4. a.len \in Nat /\ a.start2 \in 0 .. src.len
    BY <1>2, <1>4, <2>2 DEF TypeOK
  <2> QED BY <1>1, <1>3, <2>1, <2>3, <2>4, Returns
<1> QED BY <1>6, <1>7

-----------------------------------------------------------------------------
(* The actions of Get.                                                     *)

(* A step within Get.                                                      *)
LEMMA Getting ==
  ASSUME ReadersInv, UNCHANGED <<input, call, answers>>, UNCHANGED <<part, window, start2>>,
         pc # "call", call = 2, pc' \in InGet,
         pos \in 0 .. b.count - 1, b.bitWidth <= WordBits,
         limit' \in 0 .. window, clamped' \in BOOLEAN,
         pc' # "got" => patch' = NoPatch,
         DOMAIN touched' = DOMAIN Untouched, touched'.src < limit',
         touched'.src \in Int, touched'.high = touched.high, touched'.lane \in Int,
         touched'.dst \subseteq 0 .. Lower(b.count, blockSize) - 1,
         b.count <= blockSize => touched'.lane < utlValuesPerLane,
         Gettable => /\ ~clamped' /\ pc' # "panic"
                     /\ pc' = "full" => limit' = BlockEndOf(b, api64)
                     /\ pc' \in {"lane", "laneExceptions"} => b.delta
                     /\ pc' = "direct" => ~b.delta
                     /\ pc' = "got" => SamePatch(b, patch'),
         StreamsHold => ~clamped'
  PROVE  ReadersInv'
<1>1. UNCHANGED input /\ UNCHANGED <<call, answers>>
  OBVIOUS
<1>2. /\ TypeOK /\ ReadsValidated /\ CallInv /\ ValidatedInv /\ UnpackInv /\ GetInv
      /\ NotCutOff /\ AnswersInv /\ SkipsWholeBlock
      /\ src' = src /\ api64' = api64 /\ pos' = pos /\ NoPatch' = NoPatch /\ IsPair' = IsPair
      /\ StreamsHold' = StreamsHold /\ b' = b /\ Whole' = Whole
  BY <1>1, InCall
<1>3. pc' \notin {"call", "Unpack", "Get"} \cup InUnpack
  BY DEF InUnpack, InGet
<1>4. ReadsValidated'
  BY <1>2 DEF ReadsValidated
<1>5. ValidatedInv'
  BY <1>2, <1>3 DEF ValidatedInv, InUnpack
<1>6. UnpackInv'
  <2>1. /\ part = 1 => start2 = 0
        /\ part = 2 => IsPair /\ start2 + src.block2Len <= src.len
    BY <1>2 DEF UnpackInv
  <2>2. pc' \in {"Unpack", "Get", "decodeSVB", "patch", "direct", "lane", "laneExceptions", "full"}
          => pc' # "got"
    OBVIOUS
  <2> QED BY <1>2, <1>3, <2>1, <2>2 DEF UnpackInv
<1>7. Gettable' = Gettable
  BY <1>1, <1>2, AnswersKept
<1>8. GetInv'
  <2>1. Gettable => /\ part = 2 => start2 = BlockEndOf(src.first, api64)
                    /\ window = Whole \/ window = BlockEndOf(b, api64)
    BY <1>2 DEF GetInv
  <2>2. Gettable => (pc' = "got" => SamePatch(b, patch)')
    BY <1>2 DEF SamePatch, Relevant, PatchOf
  <2> QED BY <1>2, <1>3, <1>7, <2>1, <2>2 DEF GetInv
<1>9. NotCutOff'
  BY <1>2 DEF NotCutOff
<1>10. /\ part' \in {1, 2} /\ clamped' \in BOOLEAN /\ start2' \in 0 .. src.len
       /\ window' \in 0 .. src.len - start2' /\ limit' \in 0 .. window'
  BY <1>2 DEF TypeOK
<1>11. touched'.high \in Int /\ call \in {1, 2}
  BY <1>2 DEF CallInv
<1>12. pc' \in {"Unpack", "Get"} \cup InUnpack \cup InGet
  OBVIOUS
<1> QED BY <1>4, <1>5, <1>6, <1>8, <1>9, <1>10, <1>11, <1>12, Continues

(* The checks before a value is read.                                      *)
LEMMA GetHeaderKeeps ==
  ASSUME ReadersInv, GetHeader
  PROVE  ReadersInv'
<1>1. UNCHANGED input /\ pc = "Get" /\ pc # "call" /\ UNCHANGED <<part, window, clamped, patch, start2>>
  BY DEF GetHeader
<1>2. /\ TypeOK /\ ReadsValidated /\ CallInv /\ ValidatedInv /\ UnpackInv /\ GetInv /\ NotCutOff
      /\ IsBlock(b) /\ api64 \in BOOLEAN /\ window \in Nat /\ call \in 1 .. 2
  BY <1>1, InCall
<1>3. call = 2
  BY <1>1, <1>2 DEF CallInv
<1>4. CASE getError # "none"
  <2>1. Fail(getError) /\ UNCHANGED <<limit, touched>>
    BY <1>4 DEF GetHeader
  <2>2. ~Gettable
    <3> SUFFICES ASSUME Gettable PROVE FALSE
      OBVIOUS
    <3>1. HeaderPasses(b, window, api64) /\ StreamPasses(b) /\ pos \in 0 .. b.count - 1
      BY <1>1, <1>3, ReadAgain
    <3>2. getError = "none"
      BY <1>2, <3>1, GetAccepts
    <3> QED BY <3>2, <1>4
  <2>3. UNCHANGED <<part, window, limit, touched, clamped, patch, start2>>
    BY <1>1, <2>1
  <2> QED BY <1>1, <1>2, <1>4, <2>1, <2>2, <2>3, Fails
<1>5. CASE getError = "none"
  <2>1. /\ pos \in 0 .. b.count - 1 /\ b.bitWidth <= WordBits
        /\ BlockEndOf(b, api64) <= window
    BY <1>2, <1>5, GetChecked
  <2>2. /\ UNCHANGED <<call, answers>>
        /\ pc' = IF ~b.delta THEN "direct"
                 ELSE IF posInLane > deltaFullUnpackThreshold THEN "full" ELSE "lane"
        /\ limit' = blockEnd /\ touched' = [touched EXCEPT !.src = payloadEnd - 1]
    BY <1>5 DEF GetHeader, Continue, Checked
  <2>3. /\ payloadEnd \in Nat /\ blockEnd \in Nat /\ payloadEnd <= blockEnd
        /\ blockEnd = BlockEndOf(b, api64)
    BY <1>2, Current, Ends
  <2>4. pc' \in InGet /\ pc' \notin {"got", "panic", "laneExceptions"}
        /\ (pc' = "direct" => ~b.delta) /\ (pc' = "lane" => b.delta)
    BY <2>2 DEF InGet
  <2>5. DOMAIN touched = {"src", "dst", "high", "lane"} /\ DOMAIN Untouched = DOMAIN touched
    BY <1>2 DEF CallInv, Untouched
  <2>6. DOMAIN touched' = DOMAIN touched /\ touched'.src = payloadEnd - 1
        /\ touched'.high = touched.high /\ touched'.lane = touched.lane
        /\ touched'.dst = touched.dst
    BY <2>2, <2>5
  <2>7. touched'.src \in Int /\ touched'.src < limit' /\ limit' \in 0 .. window
    BY <1>2, <2>1, <2>2, <2>3, <2>6
  <2>8. touched'.lane \in Int /\ touched'.dst \subseteq 0 .. Lower(b.count, blockSize) - 1
        /\ (b.count <= blockSize => touched'.lane < utlValuesPerLane)
    BY <1>2, <2>6 DEF ReadsValidated, CallInv
  <2>9. patch' = NoPatch /\ clamped' \in BOOLEAN
    BY <1>1, <1>2 DEF UnpackInv, TypeOK
  <2>10. (Gettable => ~clamped') /\ (StreamsHold => ~clamped')
    BY <1>1, <1>2, <1>3 DEF GetInv, NotCutOff
  <2>11. UNCHANGED <<input, call, answers>> /\ UNCHANGED <<part, window, start2>>
    BY <1>1, <2>2
  <2> QED BY <1>1, <1>3, <2>1, <2>2, <2>3, <2>4, <2>5, <2>6, <2>7, <2>8, <2>9, <2>10, <2>11, Getting
<1> QED BY <1>4, <1>5

(* No read of a value is cut off in a block that Unpack has accepted, or   *)
(* whose stream holds what its control codes ask for.                      *)
LEMMA NothingCut ==
  ASSUME ReadersInv, call = 2, pc \in InGet, Gettable \/ StreamsHold
  PROVE  /\ ~(packedEnd(pos) > utlPayloadBytes(b.bitWidth))
         /\ \A r \in 0 .. b.excCount - 1 : ~CutsOff(r)
         /\ pos < blockSize
<1>1. TypeOK /\ CallInv /\ ValidatedInv /\ UnpackInv /\ pc # "call"
  BY DEF ReadersInv, InGet
<1>2. IsBlock(b) /\ pos \in 0 .. b.count - 1 /\ b.bitWidth <= WordBits
  BY <1>1, Current DEF ValidatedInv, TypeOK
<1>3. b.count <= blockSize /\ (b.excCount > 0 => WellFormedStream(b))
  <2>1. CASE Gettable
    <3>1. b.count \in 1 .. blockSize /\ StreamPasses(b)
      BY <1>1, <2>1, ReadAgain
    <3> QED BY <3>1, Dims DEF StreamPasses
  <2>2. CASE StreamsHold
    <3>1. part = 1 \/ part = 2
      BY <1>1 DEF TypeOK
    <3>2. part = 2 => IsPair
      BY <1>1 DEF UnpackInv
    <3>3. IsPair => src.first.combine
      BY DEF IsPair
    <3> QED BY <2>2, <3>1, <3>2, <3>3 DEF StreamsHold, b
  <2> QED BY <2>1, <2>2
<1>4. pos \in Nat /\ pos < blockSize /\ b.excCount \in Nat
  <2>1. b.count \in Nat /\ b.excCount \in Nat /\ blockSize \in Nat
    BY <1>2, BlockFields, Dims
  <2> QED BY <1>2, <1>3, <2>1
<1>5. ~(packedEnd(pos) > utlPayloadBytes(b.bitWidth))
  BY <1>1, <1>2, <1>4, PackedInside
<1>6. ASSUME NEW r \in 0 .. b.excCount - 1 PROVE ~CutsOff(r)
  <2>1. b.excCount > 0
    BY <1>4
  <2> QED BY <1>1, <1>3, <2>1, DataFits
<1> QED BY <1>4, <1>5, <1>6

(* A position of the lane is in the lane, and rows go up with positions.   *)
LEMMA InLane ==
  ASSUME pos \in Nat, pos < blockSize
  PROVE  /\ pos \in DOMAIN NoPatch /\ posInLane \in 0 .. 7 /\ lane \in 0 .. LaneCount - 1
         /\ \A p \in DOMAIN NoPatch : p \in Nat /\ p % LaneCount = lane
         /\ \A p, q \in Nat : p <= q => p \div LaneCount <= q \div LaneCount
<1>1. LaneCount \in Nat \ {0} /\ utlValuesPerLane = 8
  BY Dims
<1>2. posInLane \in 0 .. 7 /\ lane \in 0 .. LaneCount - 1 /\ pos = posInLane * LaneCount + lane
  BY RowOf DEF posInLane, lane
<1>3. DOMAIN NoPatch = {lane + r * LaneCount : r \in 0 .. 8}
  BY <1>1 DEF NoPatch, LaneUpTo
<1> DEFINE k == posInLane
           l == lane
<1> HIDE DEF k, l
<1>4. k * LaneCount \in Nat /\ l \in Nat /\ pos = l + k * LaneCount /\ k \in 0 .. 8
  BY <1>1, <1>2 DEF k, l
<1>5. pos \in DOMAIN NoPatch
  BY <1>3, <1>4 DEF l
<1>6. ASSUME NEW r \in 0 .. 8
      PROVE  l + r * LaneCount \in Nat /\ (l + r * LaneCount) % LaneCount = l
  <2>1. r * LaneCount \in Nat
    BY <1>1
  <2>2. l \in 0 .. LaneCount - 1
    BY <1>2 DEF l
  <2>3. \A q \in Nat, t \in 0 .. LaneCount - 1 : (LaneCount * q + t) % LaneCount = t
    BY <1>1
  <2>4. l + r * LaneCount = LaneCount * r + l
    BY <2>1, <2>2, <1>1
  <2> QED BY <2>1, <2>2, <2>3, <2>4, <1>1
<1>7. \A p \in DOMAIN NoPatch : p \in Nat /\ p % LaneCount = lane
  BY <1>3, <1>6 DEF l
<1>8. ASSUME NEW p \in Nat, NEW q \in Nat, p <= q
      PROVE  p \div LaneCount <= q \div LaneCount
  <2> DEFINE i == p \div LaneCount
             j == q \div LaneCount
  <2>1. /\ i \in Nat /\ j \in Nat
        /\ p = i * LaneCount + (p % LaneCount) /\ p % LaneCount \in 0 .. LaneCount - 1
        /\ q = j * LaneCount + (q % LaneCount) /\ q % LaneCount \in 0 .. LaneCount - 1
    BY <1>1
  <2> HIDE DEF i, j
  <2>2. ASSUME i >= j + 1 PROVE FALSE
    <3>1. i * LaneCount >= (j + 1) * LaneCount
      BY <2>1, <2>2, <1>1
    <3>2. (j + 1) * LaneCount = j * LaneCount + LaneCount /\ j * LaneCount \in Nat
          /\ i * LaneCount \in Nat
      BY <2>1, <1>1
    <3> DEFINE s == i * LaneCount
               t == j * LaneCount
               u == p % LaneCount
               w == q % LaneCount
    <3>3. s \in Nat /\ t \in Nat /\ u \in Nat /\ w \in 0 .. LaneCount - 1
          /\ s >= t + LaneCount /\ p = s + u /\ q = t + w
      BY <3>1, <3>2, <2>1, <1>1
    <3> HIDE DEF s, t, u, w
    <3> QED BY <3>3, <1>1, <1>8
  <2>3. i <= j
    BY <2>1, <2>2
  <2> QED BY <2>3 DEF i, j
<1>9. \A p, q \in Nat : p <= q => p \div LaneCount <= q \div LaneCount
  BY <1>8
<1> QED BY <1>2, <1>5, <1>7, <1>9

(* A value without sums: the search of the list, or the bit.               *)
LEMMA GetDirectKeeps ==
  ASSUME ReadersInv, GetDirect
  PROVE  ReadersInv'
<1>1. UNCHANGED input /\ pc = "direct" /\ pc # "call" /\ pc \in InGet /\ pc' = "got"
      /\ UNCHANGED <<part, window, limit, touched, start2>> /\ UNCHANGED <<call, answers>>
  BY DEF GetDirect, Continue, InGet
<1>2. /\ TypeOK /\ ReadsValidated /\ CallInv /\ ValidatedInv /\ UnpackInv /\ GetInv /\ NotCutOff
      /\ IsBlock(b) /\ b.count \in Nat /\ b.excCount \in Nat
  BY <1>1, InCall
<1>3. call = 2 /\ patch = NoPatch
  BY <1>1, <1>2 DEF CallInv, UnpackInv
<1> DEFINE found == IF b.excCount <= excBitmapThreshold THEN foundInList(pos) ELSE foundInBitmap(pos)
<1>4. /\ patch' = [p \in DOMAIN patch |-> IF p = pos THEN found ELSE {}]
      /\ clamped' = \/ clamped \/ packedEnd(pos) > utlPayloadBytes(b.bitWidth)
                    \/ \E r \in found : CutsOff(r)
  BY DEF GetDirect
<1>5. found \subseteq 0 .. b.excCount - 1
  <2>1. DOMAIN b.positions = 0 .. b.excCount - 1
    BY <1>2, BlockFields
  <2> QED BY <2>1 DEF foundInList, foundInBitmap
<1>6. clamped' \in BOOLEAN
  BY <1>2, <1>4 DEF TypeOK
<1>7. Gettable \/ StreamsHold => ~clamped'
  <2> SUFFICES ASSUME Gettable \/ StreamsHold PROVE ~clamped'
    OBVIOUS
  <2>1. ~clamped
    BY <1>1, <1>2, <1>3 DEF GetInv, NotCutOff
  <2>2. ~(packedEnd(pos) > utlPayloadBytes(b.bitWidth)) /\ \A r \in 0 .. b.excCount - 1 : ~CutsOff(r)
    BY <1>1, <1>3, NothingCut
  <2> HIDE DEF found
  <2> QED BY <1>4, <1>5, <2>1, <2>2
<1>8. Gettable => SamePatch(b, patch')
  <2> SUFFICES ASSUME Gettable, WellFormedIndex(b), NEW p \in Relevant(b)
               PROVE  patch'[p] = PatchOf(b)[p]
    BY DEF SamePatch
  <2>1. ~b.delta
    BY <1>1, <1>2, <1>3 DEF GetInv
  <2>2. p = pos /\ p \in DOMAIN NoPatch
    BY <2>1 DEF Relevant
  <2>3. patch'[p] = found
    BY <1>3, <1>4, <2>2
  <2>4. b.count <= blockSize
    BY <1>1, <1>3, ReadAgain, Dims
  <2>5. CASE b.excCount <= excBitmapThreshold
    <3>1. PatchOf(b)[p] = {r \in DOMAIN b.positions : b.positions[r] = p}
      BY <1>2, <2>2, <2>4, <2>5, ListPatches DEF PatchOf
    <3>2. foundInList(p) = {r \in DOMAIN b.positions : b.positions[r] = p}
      <4>1. \A r \in DOMAIN b.positions : \A i \in 0 .. r - 1 : b.positions[i] < b.positions[r]
        BY <2>5 DEF WellFormedIndex
      <4> QED BY <4>1 DEF foundInList
    <3> QED BY <2>2, <2>3, <2>5, <3>1, <3>2
  <2>6. CASE ~(b.excCount <= excBitmapThreshold)
    <3>1. b.excCount > excBitmapThreshold
      BY <1>2, <2>6, Dims
    <3>2. /\ PatchOf(b)[p] = IF p \in b.bitmap THEN {Rank(b.bitmap, p)} ELSE {}
          /\ p \in b.bitmap => Rank(b.bitmap, p) \in 0 .. b.excCount - 1
      BY <1>2, <2>2, <2>4, <3>1, BitmapPatches DEF PatchOf
    <3>3. foundInBitmap(p) = IF p \in b.bitmap THEN {Rank(b.bitmap, p)} ELSE {}
      BY <3>2 DEF foundInBitmap
    <3> QED BY <2>2, <2>3, <2>6, <3>2, <3>3
  <2> QED BY <2>5, <2>6
<1> HIDE DEF found
<1>9. pos \in 0 .. b.count - 1 /\ b.bitWidth <= WordBits /\ limit' \in 0 .. window
  BY <1>1, <1>2, <1>3 DEF ValidatedInv, TypeOK
<1>10. DOMAIN touched' = DOMAIN Untouched /\ touched'.src < limit'
       /\ touched'.src \in Int /\ touched'.high = touched.high /\ touched'.lane \in Int
       /\ touched'.dst \subseteq 0 .. Lower(b.count, blockSize) - 1
       /\ (b.count <= blockSize => touched'.lane < utlValuesPerLane)
  BY <1>1, <1>2 DEF ReadsValidated, CallInv
<1>11. UNCHANGED <<input, call, answers>> /\ UNCHANGED <<part, window, start2>>
       /\ pc' \in InGet
  BY <1>1 DEF InGet
<1> QED BY <1>1, <1>3, <1>6, <1>7, <1>8, <1>9, <1>10, <1>11, Getting

(* The walk along the lane: the index is a row, unless the header claims   *)
(* more values than a block has.                                           *)
LEMMA WalkLaneKeeps ==
  ASSUME ReadersInv, WalkLane
  PROVE  ReadersInv'
<1>1. UNCHANGED input /\ pc = "lane" /\ pc # "call" /\ pc \in InGet
      /\ UNCHANGED <<part, window, limit, clamped, patch, start2>> /\ UNCHANGED <<call, answers>>
      /\ touched' = [touched EXCEPT !.lane = posInLane]
      /\ pc' = (IF posInLane < utlValuesPerLane THEN "laneExceptions" ELSE "panic")
  BY DEF WalkLane, Continue, InGet
<1>2. /\ TypeOK /\ ReadsValidated /\ CallInv /\ ValidatedInv /\ UnpackInv /\ GetInv /\ NotCutOff
      /\ IsBlock(b) /\ b.count \in Nat /\ b.excCount \in Nat /\ blockSize \in Nat
  BY <1>1, InCall
<1>3. call = 2 /\ patch' = NoPatch
  BY <1>1, <1>2 DEF CallInv, UnpackInv
<1>4. pos \in 0 .. b.count - 1 /\ b.bitWidth <= WordBits /\ limit' \in 0 .. window
  BY <1>1, <1>2, <1>3 DEF ValidatedInv, TypeOK
<1>5. posInLane \in Int /\ (b.count <= blockSize => posInLane < utlValuesPerLane)
  <2>1. pos \in Nat
    BY <1>2, <1>4
  <2>2. posInLane \in Int
    BY <2>1, Dims DEF posInLane
  <2>3. ASSUME b.count <= blockSize PROVE posInLane < utlValuesPerLane
    <3>1. pos < blockSize
      BY <1>2, <1>4, <2>3
    <3>2. posInLane \in 0 .. 7
      BY <2>1, <3>1, InLane
    <3> QED BY <3>2, Dims
  <2> QED BY <2>2, <2>3
<1>6. Gettable => pc' # "panic" /\ b.delta
  <2> SUFFICES ASSUME Gettable PROVE pc' # "panic" /\ b.delta
    OBVIOUS
  <2>1. b.count <= blockSize
    BY <1>1, <1>3, ReadAgain, Dims
  <2>2. b.delta
    BY <1>1, <1>2, <1>3 DEF GetInv
  <2> QED BY <1>1, <1>5, <2>1, <2>2
<1>7. DOMAIN touched = {"src", "dst", "high", "lane"} /\ DOMAIN Untouched = DOMAIN touched
  BY <1>2 DEF CallInv, Untouched
<1>8. DOMAIN touched' = DOMAIN touched /\ touched'.lane = posInLane
      /\ touched'.src = touched.src /\ touched'.high = touched.high /\ touched'.dst = touched.dst
  BY <1>1, <1>7
<1>9. DOMAIN touched' = DOMAIN Untouched /\ touched'.src < limit'
      /\ touched'.src \in Int /\ touched'.high = touched.high /\ touched'.lane \in Int
      /\ touched'.dst \subseteq 0 .. Lower(b.count, blockSize) - 1
      /\ (b.count <= blockSize => touched'.lane < utlValuesPerLane)
  BY <1>1, <1>2, <1>5, <1>7, <1>8 DEF ReadsValidated, CallInv
<1>10. (Gettable => ~clamped') /\ (StreamsHold => ~clamped') /\ clamped' \in BOOLEAN
  BY <1>1, <1>2, <1>3 DEF GetInv, NotCutOff, TypeOK
<1>11. UNCHANGED <<input, call, answers>> /\ UNCHANGED <<part, window, start2>>
       /\ pc' \in InGet /\ pc' \notin {"got", "full", "direct"}
  BY <1>1 DEF InGet
<1> QED BY <1>1, <1>3, <1>4, <1>6, <1>9, <1>10, <1>11, Getting

(* The exceptions that the lane's walk finds at p, a position up to pos.   *)
LaneFound(p) ==
  IF b.excCount <= excBitmapThreshold
  THEN {r \in laneHits : b.positions[r] = p} ELSE foundInBitmap(p)

(* They are those that Unpack patches in there.                            *)
LEMMA LaneFindsAll ==
  ASSUME IsBlock(b), b.count <= blockSize, WellFormedIndex(b), pos \in Nat, pos < blockSize,
         NEW p \in DOMAIN NoPatch, p <= pos
  PROVE  LaneFound(p) = PatchOf(b)[p]
<1>1. p \in Nat /\ p % LaneCount = lane /\ p \div LaneCount <= posInLane
  BY InLane DEF posInLane
<1>2. b.excCount \in Nat /\ b.positions \in [0 .. b.excCount - 1 -> Nat]
      /\ excBitmapThreshold \in Nat
  BY BlockFields, Dims
<1>3. CASE b.excCount <= excBitmapThreshold
  <2>1. PatchOf(b)[p] = {r \in DOMAIN b.positions : b.positions[r] = p}
    BY <1>3, ListPatches DEF PatchOf
  <2>2. ASSUME NEW r \in DOMAIN b.positions, b.positions[r] = p
        PROVE  r \in laneHits
    <3>1. ASSUME NEW i \in 0 .. r
          PROVE  b.positions[i] \div LaneCount <= posInLane
      <4>1. r \in 0 .. b.excCount - 1 /\ b.positions[i] \in Nat
        BY <1>2
      <4>2. i = r \/ i \in 0 .. r - 1
        BY <4>1
      <4>3. i \in 0 .. r - 1 => b.positions[i] < b.positions[r]
        BY <1>3 DEF WellFormedIndex
      <4>4. b.positions[i] <= pos
        BY <1>1, <2>2, <4>1, <4>2, <4>3
      <4> QED BY <4>1, <4>4, InLane DEF posInLane
    <3>2. b.positions[r] % LaneCount = lane
      BY <1>1, <2>2
    <3> QED BY <3>1, <3>2 DEF laneHits
  <2>3. laneHits \subseteq DOMAIN b.positions
    BY DEF laneHits
  <2>4. LaneFound(p) = {r \in laneHits : b.positions[r] = p}
    BY <1>3 DEF LaneFound
  <2> QED BY <2>1, <2>2, <2>3, <2>4
<1>4. CASE ~(b.excCount <= excBitmapThreshold)
  <2>1. b.excCount > excBitmapThreshold
    BY <1>2, <1>4
  <2>2. /\ PatchOf(b)[p] = IF p \in b.bitmap THEN {Rank(b.bitmap, p)} ELSE {}
        /\ p \in b.bitmap => Rank(b.bitmap, p) \in 0 .. b.excCount - 1
    BY <2>1, BitmapPatches DEF PatchOf
  <2>3. foundInBitmap(p) = IF p \in b.bitmap THEN {Rank(b.bitmap, p)} ELSE {}
    BY <2>2 DEF foundInBitmap
  <2> QED BY <1>4, <2>2, <2>3 DEF LaneFound
<1> QED BY <1>3, <1>4

(* The exceptions of the lane, and its sums.                               *)
LEMMA LaneExceptionsKeeps ==
  ASSUME ReadersInv, LaneExceptions
  PROVE  ReadersInv'
<1>1. UNCHANGED input /\ pc = "laneExceptions" /\ pc # "call" /\ pc \in InGet /\ pc' = "got"
      /\ UNCHANGED <<part, window, limit, touched, start2>> /\ UNCHANGED <<call, answers>>
  BY DEF LaneExceptions, Continue, InGet
<1>2. /\ TypeOK /\ ReadsValidated /\ CallInv /\ ValidatedInv /\ UnpackInv /\ GetInv /\ NotCutOff
      /\ IsBlock(b) /\ b.count \in Nat /\ b.excCount \in Nat
  BY <1>1, InCall
<1>3. call = 2 /\ patch = NoPatch
  BY <1>1, <1>2 DEF CallInv, UnpackInv
<1> DEFINE F == [p \in DOMAIN patch |-> IF p > pos THEN {} ELSE LaneFound(p)]
<1>4. /\ patch' = F
      /\ clamped' = \/ clamped \/ packedEnd(pos) > utlPayloadBytes(b.bitWidth)
                    \/ \E p \in DOMAIN F : \E r \in F[p] : CutsOff(r)
  BY DEF LaneExceptions, LaneFound
<1>5. \A p \in DOMAIN F : F[p] \subseteq 0 .. b.excCount - 1
  <2>1. DOMAIN b.positions = 0 .. b.excCount - 1
    BY <1>2, BlockFields
  <2>2. \A p : LaneFound(p) \subseteq 0 .. b.excCount - 1
    BY <2>1 DEF LaneFound, laneHits, foundInBitmap
  <2> QED BY <2>2
<1>6. clamped' \in BOOLEAN
  BY <1>2, <1>4 DEF TypeOK
<1>7. Gettable \/ StreamsHold => ~clamped'
  <2> SUFFICES ASSUME Gettable \/ StreamsHold PROVE ~clamped'
    OBVIOUS
  <2>1. ~clamped
    BY <1>1, <1>2, <1>3 DEF GetInv, NotCutOff
  <2>2. ~(packedEnd(pos) > utlPayloadBytes(b.bitWidth)) /\ \A r \in 0 .. b.excCount - 1 : ~CutsOff(r)
    BY <1>1, <1>3, NothingCut
  <2> HIDE DEF F
  <2> QED BY <1>4, <1>5, <2>1, <2>2
<1>8. Gettable => SamePatch(b, patch')
  <2> SUFFICES ASSUME Gettable, WellFormedIndex(b), NEW p \in Relevant(b)
               PROVE  patch'[p] = PatchOf(b)[p]
    BY DEF SamePatch
  <2>1. b.delta
    BY <1>1, <1>2, <1>3 DEF GetInv
  <2>2. p <= pos /\ p \in DOMAIN NoPatch
    BY <2>1 DEF Relevant
  <2>3. b.count <= blockSize /\ pos \in Nat
    BY <1>1, <1>3, ReadAgain, Dims
  <2>4. pos < blockSize
    BY <1>1, <1>3, NothingCut
  <2>5. LaneFound(p) = PatchOf(b)[p]
    BY <1>2, <2>2, <2>3, <2>4, LaneFindsAll
  <2>6. p \in Nat /\ ~(p > pos)
    BY <2>2, <2>3, <2>4, InLane
  <2> QED BY <1>3, <1>4, <2>2, <2>5, <2>6
<1> HIDE DEF F
<1>9. pos \in 0 .. b.count - 1 /\ b.bitWidth <= WordBits /\ limit' \in 0 .. window
  BY <1>1, <1>2, <1>3 DEF ValidatedInv, TypeOK
<1>10. DOMAIN touched' = DOMAIN Untouched /\ touched'.src < limit'
       /\ touched'.src \in Int /\ touched'.high = touched.high /\ touched'.lane \in Int
       /\ touched'.dst \subseteq 0 .. Lower(b.count, blockSize) - 1
       /\ (b.count <= blockSize => touched'.lane < utlValuesPerLane)
  BY <1>1, <1>2 DEF ReadsValidated, CallInv
<1>11. UNCHANGED <<input, call, answers>> /\ UNCHANGED <<part, window, start2>>
       /\ pc' \in InGet
  BY <1>1 DEF InGet
<1> QED BY <1>1, <1>3, <1>6, <1>7, <1>8, <1>9, <1>10, <1>11, Getting

(* The full unpack begins, in the slice that Get has cut to the block.     *)
LEMMA FullUnpackKeeps ==
  ASSUME ReadersInv, FullUnpack
  PROVE  ReadersInv'
<1>1. UNCHANGED input /\ pc = "full" /\ pc # "call" /\ pc \in InGet /\ pc' = "Unpack"
      /\ window' = limit
      /\ UNCHANGED <<part, limit, touched, clamped, patch, start2>> /\ UNCHANGED <<call, answers>>
  BY DEF FullUnpack, Continue, InGet
<1>2. /\ TypeOK /\ ReadsValidated /\ CallInv /\ ValidatedInv /\ UnpackInv /\ GetInv /\ NotCutOff
      /\ AnswersInv /\ SkipsWholeBlock
      /\ src' = src /\ api64' = api64 /\ pos' = pos /\ NoPatch' = NoPatch /\ IsPair' = IsPair
      /\ StreamsHold' = StreamsHold /\ b' = b /\ Whole' = Whole
      /\ b.count \in Nat /\ call \in {1, 2} /\ src.len \in Nat /\ limit \in Nat
  BY <1>1, InCall
<1>3. call = 2 /\ patch' = NoPatch'
  BY <1>1, <1>2 DEF CallInv, UnpackInv
<1>4. pos \in 0 .. b.count - 1
  BY <1>1, <1>2, <1>3 DEF ValidatedInv
<1>5. ReadsValidated'
  BY <1>1, <1>2 DEF ReadsValidated
<1>6. ValidatedInv'
  <2>1. b.count > 0
    BY <1>2, <1>4
  <2> QED BY <1>1, <1>2, <1>4, <2>1 DEF ValidatedInv, InUnpack, InGet
<1>7. UnpackInv'
  <2>1. /\ part = 1 => start2 = 0
        /\ part = 2 => IsPair /\ start2 + src.block2Len <= src.len
    BY <1>1, <1>2 DEF UnpackInv
  <2> QED BY <1>1, <1>2, <1>3, <2>1 DEF UnpackInv, InUnpack
<1>8. Gettable' = Gettable
  BY <1>1, <1>2, AnswersKept
<1>9. GetInv' /\ NotCutOff'
  <2>1. Gettable => /\ ~clamped /\ limit = BlockEndOf(b, api64)
                    /\ part = 2 => start2 = BlockEndOf(src.first, api64)
    BY <1>1, <1>2, <1>3 DEF GetInv
  <2>2. StreamsHold => ~clamped
    BY <1>1, <1>2, <1>3 DEF NotCutOff
  <2> QED BY <1>1, <1>2, <1>8, <2>1, <2>2 DEF GetInv, NotCutOff
<1>10. /\ part' \in {1, 2} /\ clamped' \in BOOLEAN /\ start2' \in 0 .. src.len
       /\ window' \in 0 .. src.len - start2' /\ limit' \in 0 .. window'
  BY <1>1, <1>2 DEF TypeOK
<1>11. DOMAIN touched' = DOMAIN Untouched
       /\ touched'.src \in Int /\ touched'.high \in Int /\ touched'.lane \in Int
  BY <1>1, <1>2 DEF CallInv
<1>12. pc' \in {"Unpack", "Get"} \cup InUnpack \cup InGet /\ pc' \notin {"Get"} \cup InGet
  BY <1>1 DEF InGet
<1>13. UNCHANGED <<input, call, answers>>
  BY <1>1
<1> QED BY <1>2, <1>5, <1>6, <1>7, <1>9, <1>10, <1>11, <1>12, <1>13, Continues

(* Get takes its value from what has been unpacked.                        *)
LEMMA GetUnpackedKeeps ==
  ASSUME ReadersInv, GetUnpacked
  PROVE  ReadersInv'
<1>1. UNCHANGED input /\ pc = "unpacked" /\ pc # "call" /\ pc \in InUnpack /\ pc' = "got"
      /\ Calls[call] = "Get" /\ touched' = [touched EXCEPT !.dst = {pos}]
      /\ UNCHANGED <<part, window, limit, clamped, patch, start2>> /\ UNCHANGED <<call, answers>>
  BY DEF GetUnpacked, Continue, InUnpack
<1>2. /\ TypeOK /\ ReadsValidated /\ CallInv /\ ValidatedInv /\ UnpackInv /\ GetInv /\ NotCutOff
      /\ b.count \in Nat /\ call \in {1, 2} /\ blockSize \in Nat
  BY <1>1, InCall
<1>3. call = 2
  BY <1>1, <1>2 DEF Calls
<1>4. pos \in 0 .. b.count - 1 /\ limit' \in 0 .. window /\ b.count <= blockSize
  BY <1>1, <1>2, <1>3 DEF ValidatedInv, TypeOK
<1>5. b.count > 0 /\ HeaderPasses(b, window, api64) /\ patch = PatchOf(b)
  <2>1. b.count > 0
    BY <1>2, <1>4
  <2> QED BY <1>1, <1>2, <2>1 DEF UnpackInv
<1>6. b.bitWidth <= WordBits
  BY <1>5 DEF HeaderPasses
<1>7. SamePatch(b, patch')
  BY <1>1, <1>5 DEF SamePatch
<1>8. DOMAIN touched = {"src", "dst", "high", "lane"} /\ DOMAIN Untouched = DOMAIN touched
  BY <1>2 DEF CallInv, Untouched
<1>9. DOMAIN touched' = DOMAIN touched /\ touched'.lane = touched.lane
      /\ touched'.src = touched.src /\ touched'.high = touched.high /\ touched'.dst = {pos}
  BY <1>1, <1>8
<1>10. touched'.dst \subseteq 0 .. Lower(b.count, blockSize) - 1
  BY <1>4, <1>9 DEF Lower
<1>11. touched'.src < limit' /\ touched'.src \in Int /\ touched'.lane \in Int
       /\ (b.count <= blockSize => touched'.lane < utlValuesPerLane)
  BY <1>1, <1>2, <1>9 DEF ReadsValidated, CallInv
<1>12. (Gettable => ~clamped') /\ (StreamsHold => ~clamped') /\ clamped' \in BOOLEAN
  BY <1>1, <1>2, <1>3 DEF GetInv, NotCutOff, TypeOK
<1>13. UNCHANGED <<input, call, answers>> /\ UNCHANGED <<part, window, start2>>
       /\ pc' \in InGet /\ pc' \notin {"panic", "full", "direct", "lane", "laneExceptions"}
  BY <1>1 DEF InGet
<1> QED BY <1>1, <1>3, <1>4, <1>6, <1>7, <1>8, <1>9, <1>10, <1>11, <1>12, <1>13, Getting

(* The value of block 1: block 2 follows, or the answer.                   *)
LEMMA GetFirstKeeps ==
  ASSUME ReadersInv, GetFirst
  PROVE  ReadersInv'
<1>1. UNCHANGED input /\ UNCHANGED <<input, clamped>> /\ pc = "got" /\ pc # "call"
      /\ pc \in InGet /\ part = 1
  BY DEF GetFirst, InGet
<1>2. /\ TypeOK /\ CallInv /\ UnpackInv /\ GetInv /\ NotCutOff /\ AnswersInv
      /\ IsBlock(b) /\ api64 \in BOOLEAN /\ src.len \in Nat /\ b.count \in Nat /\ b.excCount \in Nat
  BY <1>1, InCall
<1>3. call = 2 /\ call \in 1 .. 3 /\ ~(call = 1) /\ ~(call = 3)
  BY <1>1, <1>2 DEF CallInv
<1>4. b = src.first /\ (IsPair <=> hasCombine)
  BY <1>1 DEF b, IsPair, hasCombine
<1>5. CASE hasCombine
  <2>1. Second(block1Len)
    BY <1>5 DEF GetFirst
  <2>2. block1Len \in Nat /\ block1Len = BlockEndOf(src.first, api64)
    <3>1. BaseBytesOf(b, api64) = forBaseBytes(b.forWidth)
      BY <1>5 DEF BaseBytesOf, isFor64SingleBlock, hasCombine
    <3>2. PayloadEndOf(b, api64) = metaOff + utlPayloadBytes(b.bitWidth)
      BY <1>5, <3>1 DEF PayloadEndOf, metaOff, hasCombine
    <3>3. Lower(b.excCount, excBitmapThreshold) = excIndexSize(b.excCount)
      BY <1>2, Dims DEF Lower, excIndexSize
    <3>4. /\ BlockEndOf(b, api64) \in Nat /\ PayloadEndOf(b, api64) \in Nat /\ b.svbLen \in Nat
          /\ excIndexSize(b.excCount) \in Nat
      BY <1>2, Ends, BlockFields
    <3>5. block1Len = PayloadEndOf(b, api64)
            + IF b.excCount > 0 THEN excIndexSize(b.excCount) + b.svbLen ELSE 0
      BY <3>2, <3>3 DEF block1Len
    <3>6. block1Len = BlockEndOf(b, api64)
      BY <3>4, <3>5 DEF BlockEndOf
    <3> QED BY <1>4, <3>4, <3>6
  <2> QED BY <1>1, <1>3, <1>5, <2>1, <2>2, SecondKeeps
<1>6. CASE ~hasCombine
  <2> DEFINE a == [NoAnswer EXCEPT !.patch = patch, !.start2 = 0, !.exact = ~clamped]
  <2>1. Return(a) /\ UNCHANGED <<part, window, limit, touched, clamped, patch, start2>>
    BY <1>6 DEF GetFirst, Got
  <2>2. a.err = "none" /\ a.len = 0 /\ a.patch = patch /\ a.start2 = 0 /\ a.exact = ~clamped
    BY DEF NoAnswer
  <2> HIDE DEF a
  <2>3. GetAnswer(a)
    <3> SUFFICES ASSUME Gettable
                 PROVE  a.err = "none" /\ a.exact /\ a.start2 = answers[1].start2
                        /\ SamePatch(src.first, a.patch)
      BY <1>4, <1>6 DEF GetAnswer
    <3>1. ~clamped /\ SamePatch(b, patch)
      BY <1>1, <1>2, <1>3 DEF GetInv
    <3>2. src.first.count > 0 /\ answers[1].err = "none" /\ UnpackAnswer(answers[1])
      BY <1>2, <1>3, <1>4 DEF Gettable, AnswersInv
    <3>3. answers[1].start2 = 0
      BY <1>4, <1>6, <3>2 DEF UnpackAnswer, SingleAnswer
    <3> QED BY <1>4, <2>2, <3>1, <3>3
  <2>4. StreamsHold => a.exact
    BY <1>1, <1>2, <1>3, <2>2 DEF NotCutOff
  <2>5. a.len \in Nat /\ a.start2 \in 0 .. src.len
    BY <1>2, <2>2
  <2> QED BY <1>1, <1>3, <2>1, <2>3, <2>4, <2>5, Returns
<1> QED BY <1>5, <1>6

(* The value of the pair.                                                  *)
LEMMA GetSecondKeeps ==
  ASSUME ReadersInv, GetSecond
  PROVE  ReadersInv'
<1>1. UNCHANGED input /\ pc = "got" /\ pc # "call" /\ pc \in InGet /\ part = 2
      /\ UNCHANGED <<part, window, limit, touched, clamped, patch, start2>>
  BY DEF GetSecond, InGet
<1>2. /\ TypeOK /\ CallInv /\ UnpackInv /\ GetInv /\ NotCutOff /\ AnswersInv
      /\ src.len \in Nat /\ start2 \in Nat
  BY <1>1, InCall
<1>3. call = 2 /\ call \in 1 .. 3 /\ ~(call = 1) /\ ~(call = 3)
  BY <1>1, <1>2 DEF CallInv
<1>4. b = src.second /\ IsPair
  BY <1>1, <1>2 DEF b, UnpackInv
<1> DEFINE a == [NoAnswer EXCEPT !.patch = patch, !.start2 = start2, !.exact = ~clamped]
<1>5. Return(a)
  BY DEF GetSecond, Got
<1>6. a.err = "none" /\ a.len = 0 /\ a.patch = patch /\ a.start2 = start2 /\ a.exact = ~clamped
  BY DEF NoAnswer
<1> HIDE DEF a
<1>7. GetAnswer(a)
  <2> SUFFICES ASSUME Gettable
               PROVE  a.err = "none" /\ a.exact /\ a.start2 = answers[1].start2
                      /\ SamePatch(src.second, a.patch)
    BY <1>4 DEF GetAnswer
  <2>1. ~clamped /\ SamePatch(b, patch) /\ start2 = BlockEndOf(src.first, api64)
    BY <1>1, <1>2, <1>3 DEF GetInv
  <2>2. src.first.count \in Nat
    BY <1>2, BlockFields DEF CallInv
  <2>3. src.first.count > 0 /\ answers[1].err = "none" /\ UnpackAnswer(answers[1])
    BY <1>2, <1>3, <2>2 DEF Gettable, AnswersInv
  <2>4. answers[1].start2 = BlockEndOf(src.first, api64)
    BY <1>4, <2>3 DEF UnpackAnswer, PairAnswer
  <2> QED BY <1>4, <1>6, <2>1, <2>4
<1>8. StreamsHold => a.exact
  BY <1>1, <1>2, <1>3, <1>6 DEF NotCutOff
<1>9. a.len \in Nat /\ a.start2 \in 0 .. src.len
  BY <1>2, <1>6 DEF TypeOK
<1> QED BY <1>1, <1>3, <1>5, <1>7, <1>8, <1>9, Returns

-----------------------------------------------------------------------------
(* The theorems.                                                           *)

(* The invariant holds before the first call.                              *)
LEMMA InitHolds == Init => ReadersInv
<1> SUFFICES ASSUME Init PROVE ReadersInv
  OBVIOUS
<1>1. /\ src.len \in Nat /\ src.block2Len \in Nat /\ IsBlock(src.first) /\ IsBlock(src.second)
      /\ api64 \in BOOLEAN /\ pos \in Positions /\ wide \in Thresholds
  BY ReaderAssumption DEF Init
<1>2. /\ call = 1 /\ pc = "call" /\ part = 1 /\ window = 0 /\ limit = 0
      /\ touched = Untouched /\ clamped = FALSE /\ start2 = 0
      /\ answers = [c \in 1 .. 3 |-> NoAnswer]
  BY DEF Init
<1>3. touched.src = -1 /\ touched.dst = {} /\ touched.high = -1 /\ touched.lane = -1
      /\ DOMAIN touched = DOMAIN Untouched
  BY <1>2 DEF Untouched
<1>4. TypeOK
  <2>1. \A c \in 1 .. 3 : answers[c].len \in Nat /\ answers[c].start2 \in 0 .. src.len
    BY <1>1, <1>2 DEF NoAnswer
  <2>2. start2 \in 0 .. src.len /\ window \in 0 .. src.len - start2 /\ limit \in 0 .. window
    <3> DEFINE n == src.len
    <3>1. n \in Nat /\ n - 0 = n /\ 0 \in 0 .. n /\ 0 \in 0 .. 0
      BY <1>1
    <3> HIDE DEF n
    <3>2. start2 \in 0 .. n /\ window \in 0 .. n - start2 /\ limit \in 0 .. window
      BY <1>2, <3>1
    <3> QED BY <3>2 DEF n
  <2>3. call \in 1 .. 4 /\ part \in {1, 2}
    BY <1>2
  <2>4. clamped \in BOOLEAN
    BY <1>2
  <2> QED BY <1>1, <2>1, <2>2, <2>3, <2>4 DEF TypeOK
<1>5. ReadsValidated
  <2>1. b.count \in Nat /\ b.excCount \in Nat /\ blockSize \in Nat
    BY <1>1, <1>2, BlockFields, Dims DEF b
  <2> QED BY <1>2, <1>3, <2>1 DEF ReadsValidated, Lower, utlValuesPerLane
<1>6. CallInv
  BY <1>1, <1>2, <1>3 DEF CallInv, InGet
<1>7. ValidatedInv /\ UnpackInv /\ GetInv /\ NotCutOff
  BY <1>2 DEF ValidatedInv, UnpackInv, GetInv, NotCutOff, InUnpack, InGet
<1>8. AnswersInv /\ SkipsWholeBlock
  BY <1>2 DEF AnswersInv, SkipsWholeBlock, AllDone
<1> QED BY <1>4, <1>5, <1>6, <1>7, <1>8 DEF ReadersInv

(* A step in which nothing changes keeps it.                               *)
LEMMA StutterKeeps ==
  ASSUME ReadersInv, UNCHANGED vars
  PROVE  ReadersInv'
<1>1. UNCHANGED input /\ UNCHANGED <<call, answers>> /\ part' = part /\ window' = window
      /\ limit' = limit /\ touched' = touched /\ clamped' = clamped /\ patch' = patch
      /\ start2' = start2 /\ pc' = pc
  BY DEF vars, input
<1>2. /\ TypeOK /\ ReadsValidated /\ CallInv /\ ValidatedInv /\ UnpackInv /\ GetInv
      /\ NotCutOff /\ AnswersInv /\ SkipsWholeBlock
  BY DEF ReadersInv
<1>3. src' = src /\ api64' = api64 /\ pos' = pos /\ wide' = wide /\ NoPatch' = NoPatch
      /\ IsPair' = IsPair /\ StreamsHold' = StreamsHold /\ b' = b /\ Whole' = Whole
  BY <1>1, SameInput
<1>4. AnswersInv' /\ SkipsWholeBlock' /\ Gettable' = Gettable
  BY <1>1, <1>2, AnswersKept
<1>5. TypeOK' /\ ReadsValidated' /\ CallInv'
  BY <1>1, <1>2, <1>3 DEF TypeOK, ReadsValidated, CallInv, Untouched
<1>6. ValidatedInv'
  BY <1>1, <1>2, <1>3 DEF ValidatedInv
<1>7. UnpackInv'
  BY <1>1, <1>2, <1>3 DEF UnpackInv, PatchOf
<1>8. GetInv' /\ NotCutOff'
  BY <1>1, <1>2, <1>3, <1>4 DEF GetInv, NotCutOff, SamePatch, Relevant, PatchOf
<1> QED BY <1>4, <1>5, <1>6, <1>7, <1>8 DEF ReadersInv

(* The inductive invariant holds of every buffer, whatever its bytes.      *)
THEOREM ReadersInvariance == Spec => []ReadersInv
<1>1. Init => ReadersInv
  BY InitHolds
<1>2. ReadersInv /\ [Next]_vars => ReadersInv'
  <2> SUFFICES ASSUME ReadersInv, [Next]_vars PROVE ReadersInv'
    OBVIOUS
  <2>1. CASE Start
    BY <2>1, StartKeeps
  <2>2. CASE BlockLength
    BY <2>2, BlockLengthKeeps
  <2>3. CASE UnpackHeader
    BY <2>3, UnpackHeaderKeeps
  <2>4. CASE DecodeSVB
    BY <2>4, DecodeSVBKeeps
  <2>5. CASE PatchList
    BY <2>5, PatchListKeeps
  <2>6. CASE PatchBitmap
    BY <2>6, PatchBitmapKeeps
  <2>7. CASE UnpackSums
    BY <2>7, UnpackSumsKeeps
  <2>8. CASE UnpackFirst
    BY <2>8, UnpackFirstKeeps
  <2>9. CASE UnpackSecond
    BY <2>9, UnpackSecondKeeps
  <2>10. CASE GetHeader
    BY <2>10, GetHeaderKeeps
  <2>11. CASE GetDirect
    BY <2>11, GetDirectKeeps
  <2>12. CASE WalkLane
    BY <2>12, WalkLaneKeeps
  <2>13. CASE LaneExceptions
    BY <2>13, LaneExceptionsKeeps
  <2>14. CASE FullUnpack
    BY <2>14, FullUnpackKeeps
  <2>15. CASE GetUnpacked
    BY <2>15, GetUnpackedKeeps
  <2>16. CASE GetFirst
    BY <2>16, GetFirstKeeps
  <2>17. CASE GetSecond
    BY <2>17, GetSecondKeeps
  <2>18. CASE UNCHANGED vars
    BY <2>18, StutterKeeps
  <2> QED BY <2>1, <2>2, <2>3, <2>4, <2>5, <2>6, <2>7, <2>8, <2>9, <2>10, <2>11, <2>12, <2>13,
             <2>14, <2>15, <2>16, <2>17, <2>18 DEF Next
<1> QED BY <1>1, <1>2, PTL DEF Spec

(* The slices that are read lie in the buffer, also that of block 2.       *)
THEOREM ReadersTypes == Spec => []TypeOK
<1>1. ReadersInv => TypeOK
  BY DEF ReadersInv
<1> QED BY <1>1, ReadersInvariance, PTL

(* Whatever the bytes of a buffer, no reader uses an index past a slice    *)
(* (but for a lane walk in a block that claims more than blockSize values).*)
THEOREM ReadsStayInside == Spec => []ReadsValidated
<1>1. ReadersInv => ReadsValidated
  BY DEF ReadersInv
<1> QED BY <1>1, ReadersInvariance, PTL

(* Get finds every value of a block that Unpack has accepted, and comes to *)
(* the same exceptions, whichever way it takes.                            *)
THEOREM UnpackedGettable == Spec => []UnpackedIsGettable
<1>1. ReadersInv => UnpackedIsGettable
  <2> SUFFICES ASSUME ReadersInv, AllDone, answers[1].err = "none", pos \in 0 .. src.first.count - 1
               PROVE  /\ answers[2].err = "none" /\ answers[2].exact
                      /\ answers[2].start2 = answers[1].start2
                      /\ LET last == IF api64 /\ src.first.combine THEN src.second ELSE src.first
                         IN  WellFormedIndex(last) =>
                               \A p \in Relevant(last) : answers[2].patch[p] = answers[1].patch[p]
    BY DEF UnpackedIsGettable
  <2> DEFINE last == IF api64 /\ src.first.combine THEN src.second ELSE src.first
  <2>1. AnswersInv /\ call = 4 /\ IsBlock(src.first)
    BY DEF ReadersInv, AllDone, CallInv
  <2>2. Gettable /\ UnpackAnswer(answers[1]) /\ GetAnswer(answers[2])
    BY <2>1 DEF AnswersInv, Gettable
  <2>3. src.first.count > 0
    <3>1. src.first.count \in Nat
      BY <2>1, BlockFields
    <3> QED BY <3>1
  <2>4. answers[1].patch = PatchOf(last)
    BY <2>2, <2>3 DEF UnpackAnswer, PairAnswer, SingleAnswer, IsPair
  <2>5. SamePatch(last, answers[2].patch)
    BY <2>2 DEF GetAnswer, IsPair
  <2>6. answers[2].err = "none" /\ answers[2].exact /\ answers[2].start2 = answers[1].start2
    BY <2>2 DEF GetAnswer
  <2> HIDE DEF last
  <2>7. WellFormedIndex(last) => \A p \in Relevant(last) : answers[2].patch[p] = answers[1].patch[p]
    BY <2>4, <2>5 DEF SamePatch
  <2> QED BY <2>6, <2>7 DEF last
<1> QED BY <1>1, ReadersInvariance, PTL

(* A walk over a stream by BlockLength comes to the same blocks as one by  *)
(* Unpack.                                                                 *)
THEOREM LengthSkipsBlock == Spec => []SkipsWholeBlock
<1>1. ReadersInv => SkipsWholeBlock
  BY DEF ReadersInv
<1> QED BY <1>1, ReadersInvariance, PTL

(* A Get that succeeds in a buffer cut short has read all of its value.    *)
THEOREM TruncatedGetExact == Spec => []TruncatedGetIsExact
<1>1. ReadersInv => TruncatedGetIsExact
  <2> SUFFICES ASSUME ReadersInv, AllDone, src.first.count <= blockSize,
                      WellFormedStream(src.first),
                      src.first.combine => WellFormedStream(src.second),
                      api64 /\ src.first.combine => src.second.count <= blockSize
               PROVE  answers[2].exact
    BY DEF TruncatedGetIsExact
  <2>1. StreamsHold
    BY DEF StreamsHold, IsPair
  <2>2. AnswersInv /\ call = 4
    BY DEF ReadersInv, AllDone
  <2> QED BY <2>1, <2>2 DEF AnswersInv
<1> QED BY <1>1, ReadersInvariance, PTL
=============================================================================

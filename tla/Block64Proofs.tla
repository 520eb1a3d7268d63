--------------------------- MODULE Block64Proofs ----------------------------
(***************************************************************************)
(* What Block64 guarantees for any dimensions, slices, flags and contents  *)
(* of the workspace: its inductive invariant, the room its packs ask for,  *)
(* where the blocks lie, and that it is a lossless store.                  *)
(***************************************************************************)
EXTENDS Block64Inv, UTLBlockFacts

(* The sizes, and the values of 64 bits as numbers. *)
LEMMA Dimensions64 ==
  /\ Modulus \in Nat /\ Modulus > 0 /\ Modulus * Modulus \in Nat /\ Modulus * Modulus > 0
  /\ blockSize \in Nat /\ blockSize > 0
  /\ ScratchLen64 \in Nat /\ lowers = 0 /\ middle = blockSize
  /\ uppers = blockSize + blockSize /\ ScratchLen64 = blockSize + blockSize + blockSize
  /\ \A v \in Word64 : v \in Nat /\ v < Modulus * Modulus
<1>1. Modulus \in Nat \ {0} /\ blockSize \in Nat \ {0}
  BY Dimensions
<1>2. \A m \in Nat \ {0} : m * m \in Nat \ {0}
  OBVIOUS
<1>3. Modulus * Modulus \in Nat \ {0}
  BY <1>1, <1>2
<1>4. /\ ScratchLen64 \in Nat /\ lowers = 0 /\ middle = blockSize
      /\ uppers = blockSize + blockSize /\ ScratchLen64 = blockSize + blockSize + blockSize
  BY <1>1 DEF ScratchLen64, lowers, middle, uppers
<1> DEFINE W == Modulus * Modulus
<1>5. \A v \in 0 .. W - 1 : v \in Nat /\ v < W
  <2> HIDE DEF W
  <2> QED BY <1>3 DEF W
<1> QED BY <1>1, <1>3, <1>4, <1>5 DEF Word64

-----------------------------------------------------------------------------
(* Values of 64 bits and their words. *)

(* A value is its two halves, and the lower one alone if it is a word. *)
LEMMA Halves ==
  ASSUME NEW v \in Word64
  PROVE  /\ lowerHalf(v) \in Word /\ upperHalf(v) \in Word
         /\ upperHalf(v) * Modulus + lowerHalf(v) = v
         /\ v < Modulus => lowerHalf(v) = v
<1>1. Modulus \in Nat \ {0} /\ v \in Nat /\ v < Modulus * Modulus
  BY Dimensions64
<1> DEFINE M == Modulus
<1> HIDE DEF M
<1>2. /\ v % M \in 0 .. M - 1 /\ v \div M \in Nat
      /\ (v % M) + (v \div M) * M = v /\ (v < M => v % M = v)
  BY <1>1, SplitWord DEF M
<1>3. v \div M < M
  BY <1>1, QuotientBelow DEF M
<1>4. v \div M \in 0 .. M - 1
  BY <1>1, <1>2, <1>3 DEF M
<1> DEFINE up == v \div M
<1> DEFINE low == v % M
<1>5. up * M + low = v
  <2>1. up \in Nat /\ low \in Nat /\ M \in Nat
    BY <1>1, <1>2 DEF M
  <2> HIDE DEF up, low
  <2>2. up * M \in Nat
    BY <2>1
  <2>3. low + up * M = v
    BY <1>2 DEF up, low
  <2> QED BY <2>1, <2>2, <2>3
<1> QED BY <1>2, <1>4, <1>5 DEF lowerHalf, upperHalf, Word, M

(* The least and the greatest value are of the slice, the others lie in    *)
(* between.                                                                *)
LEMMA Range64 ==
  ASSUME NEW n \in Nat \ {0}, NEW v \in [0 .. n - 1 -> Word64]
  PROVE  /\ SliceMin(v) \in Word64 /\ SliceMin(v) \in Nat /\ SliceMax(v) \in Nat
         /\ \A i \in 0 .. n - 1 : /\ v[i] \in Nat /\ v[i] \in Word64
                                  /\ SliceMin(v) <= v[i] /\ v[i] <= SliceMax(v)
         /\ \E i \in 0 .. n - 1 : SliceMin(v) = v[i]
<1>1. /\ DOMAIN v = 0 .. n - 1 /\ 0 \in 0 .. n - 1
      /\ \A i \in 0 .. n - 1 : v[i] \in Word64 /\ v[i] \in Nat /\ v[i] < Modulus * Modulus
  BY Dimensions64
<1> DEFINE T == ValuesOf(v)
<1> DEFINE W == Modulus * Modulus
<1>2. T \in SUBSET Nat /\ T # {} /\ (\A x \in T : x \in Word64 /\ x < W) /\ W \in Nat
  BY <1>1, Dimensions64 DEF ValuesOf
<1>3. \A i \in 0 .. n - 1 : v[i] \in T
  BY <1>1 DEF ValuesOf
<1>4. \A x \in T : \E i \in 0 .. n - 1 : x = v[i]
  BY <1>1 DEF ValuesOf
<1> HIDE DEF T, W
<1>5. \E m \in T : \A x \in T : m <= x
  BY <1>2, LeastOf
<1>6. SliceMin(v) \in T /\ \A x \in T : SliceMin(v) <= x
  BY <1>5 DEF SliceMin, T
<1>7. \A x \in T : x <= W
  BY <1>2
<1>8. \E m \in T : \A x \in T : x <= m
  BY <1>2, <1>7, GreatestOf
<1>9. SliceMax(v) \in T /\ \A x \in T : x <= SliceMax(v)
  BY <1>8 DEF SliceMax, T
<1> QED BY <1>1, <1>2, <1>3, <1>4, <1>6, <1>9

(* Either block's words are words of 32 bits, and the caller's values are  *)
(* found from them: over the base, as they are, or with the upper ones.    *)
LEMMA WordsOfValues ==
  ASSUME NEW n \in Nat \ {0}, values \in [0 .. n - 1 -> Word64]
  PROVE  /\ LowerWords \in Slice(n) /\ UpperWords \in Slice(n)
         /\ DOMAIN values = 0 .. n - 1
         /\ FitsFOR64(values) =>
              \A i \in 0 .. n - 1 : LowerWords[i] + SliceMin(values) = values[i]
         /\ ~FitsFOR64(values) /\ ~IsPair =>
              /\ SliceMax(values) < Modulus
              /\ \A i \in 0 .. n - 1 : LowerWords[i] = values[i] /\ values[i] < Modulus
         /\ IsPair => \A i \in 0 .. n - 1 : UpperWords[i] * Modulus + LowerWords[i] = values[i]
<1> DEFINE min == SliceMin(values)
<1> DEFINE max == SliceMax(values)
<1> DEFINE fits == FitsFOR64(values)
<1>1. /\ DOMAIN values = 0 .. n - 1 /\ min \in Nat /\ max \in Nat /\ Modulus \in Nat
      /\ \A i \in 0 .. n - 1 : /\ values[i] \in Nat /\ values[i] \in Word64
                               /\ min <= values[i] /\ values[i] <= max
  BY Range64, Dimensions64
<1>2. fits => max - min < Modulus
  BY DEF FitsFOR64
<1>3. UpperWords = [i \in 0 .. n - 1 |-> upperHalf(values[i])]
  BY <1>1 DEF UpperWords
<1>4. fits => LowerWords = [i \in 0 .. n - 1 |-> lowerHalf(values[i] - min)]
  BY <1>1 DEF LowerWords
<1>5. ~fits => LowerWords = [i \in 0 .. n - 1 |-> lowerHalf(values[i])]
  BY <1>1 DEF LowerWords
<1> HIDE DEF min, max, fits
<1>6. UpperWords \in Slice(n)
  BY <1>1, <1>3, Halves DEF Slice
<1>7. ASSUME fits
      PROVE  LowerWords \in Slice(n) /\ \A i \in 0 .. n - 1 : LowerWords[i] + min = values[i]
  <2>1. ASSUME NEW i \in 0 .. n - 1
        PROVE  lowerHalf(values[i] - min) = values[i] - min /\ values[i] - min \in Word
    <3>1. values[i] - min \in Nat /\ values[i] - min < Modulus
      BY <1>1, <1>2, <1>7
    <3>2. (values[i] - min) % Modulus = values[i] - min
      BY <1>1, <3>1, Dimensions, SplitWord
    <3> QED BY <1>1, <3>1, <3>2 DEF lowerHalf, Word
  <2>2. LowerWords = [i \in 0 .. n - 1 |-> lowerHalf(values[i] - min)]
    BY <1>4, <1>7
  <2>3. \A i \in 0 .. n - 1 : LowerWords[i] = values[i] - min
    BY <2>1, <2>2
  <2>4. \A i \in 0 .. n - 1 : LowerWords[i] + min = values[i]
    BY <1>1, <2>3
  <2> QED BY <2>1, <2>2, <2>4 DEF Slice
<1>8. ASSUME ~fits
      PROVE  /\ LowerWords \in Slice(n)
             /\ \A i \in 0 .. n - 1 : /\ UpperWords[i] * Modulus + LowerWords[i] = values[i]
                                      /\ values[i] < Modulus => LowerWords[i] = values[i]
  BY <1>1, <1>3, <1>5, <1>8, Halves DEF Slice
<1>9. ~fits /\ ~IsPair => max < Modulus
  BY <1>1 DEF IsPair, fits, max
<1>10. ASSUME ~fits, ~IsPair
       PROVE  \A i \in 0 .. n - 1 : LowerWords[i] = values[i] /\ values[i] < Modulus
  BY <1>1, <1>8, <1>9, <1>10
<1>11. IsPair => ~fits
  BY DEF IsPair, fits
<1> QED BY <1>1, <1>6, <1>7, <1>8, <1>9, <1>10, <1>11 DEF fits, min, max

-----------------------------------------------------------------------------
(* The blocks, as readers find them. *)

(* A slice that is narrowed has a word of 0, or its caller forbids bases.  *)
LEMMA NarrowBase ==
  ASSUME NEW n \in Nat \ {0}, values \in [0 .. n - 1 -> Word64], ~FitsFOR64(values), ~IsPair
  PROVE  FORBase(LowerWords, flag) = 0
<1>1. LowerWords \in Slice(n)
  BY WordsOfValues
<1>2. CASE "NoFOR" \in flag
  BY <1>1, <1>2, BaseFacts
<1>3. CASE "NoFOR" \notin flag
  <2>1. /\ SliceMax(values) < Modulus /\ SliceMax(values) \in Nat /\ SliceMin(values) \in Nat
        /\ Modulus \in Nat
    BY WordsOfValues, Range64, Dimensions64
  <2>2. SliceMin(values) = 0
    BY <1>3, <2>1 DEF FitsFOR64
  <2>3. PICK i \in 0 .. n - 1 : values[i] = 0
    BY <2>2, Range64
  <2>4. LowerWords[i] = 0 /\ DOMAIN LowerWords = 0 .. n - 1
    BY <1>1, <2>3, WordsOfValues DEF Slice
  <2>5. SliceMin(LowerWords) \in Word /\ SliceMin(LowerWords) <= 0
    BY <1>1, <2>4, SliceMinFacts
  <2>6. SliceMin(LowerWords) = 0
    BY <2>5, Dimensions DEF Word
  <2> QED BY <2>6 DEF FORBase, UseFOR
<1> QED BY <1>2, <1>3

(* Readers of the first block find the lower words, whichever the layout;  *)
(* they take it for one with a base of eight bytes if it is, and for one   *)
(* of two if it is.                                                        *)
LEMMA FirstReads ==
  ASSUME NEW n \in 1 .. blockSize, values \in [0 .. n - 1 -> Word64],
         FitsFOR64(values) => min64 = SliceMin(values)
  PROVE  /\ ReadAs(FirstBlock, n, LowerWords, TRUE)
         /\ FitsFOR64(values) => /\ isFor64SingleBlock(FirstBlock)
                                 /\ FirstBlock.base = SliceMin(values)
         /\ ~FitsFOR64(values) => ~isFor64SingleBlock(FirstBlock)
         /\ IsPair => FirstBlock.combine = TRUE
         /\ ~IsPair => FirstBlock.combine = FALSE
         /\ FirstBlock.intType = IntTypeUint64
<1>1. n \in Nat \ {0}
  BY Dimensions
<1>2. LowerWords \in Slice(n)
  BY <1>1, WordsOfValues
<1>3. CASE FitsFOR64(values)
  <2>1. FirstBlock = Wrapped(InnerBlock) /\ ~IsPair
    BY <1>3 DEF FirstBlock, IsPair
  <2>2. FirstBlock =
          WithBase64(PackedBlock(LowerWords, flag \cup {"NoFOR"}, IntTypeUint64, FALSE), min64)
    BY <2>1 DEF Wrapped, WithBase64, InnerBlock
  <2> DEFINE b == FirstBlock
  <2> DEFINE f == flag \cup {"NoFOR"}
  <2>3. "NoFOR" \in f
    OBVIOUS
  <2>4. b = WithBase64(PackedBlock(LowerWords, f, IntTypeUint64, FALSE), min64)
    BY <2>2
  <2> HIDE DEF b, f
  <2>5. ReadAsFor64(b, n, LowerWords, min64)
    BY <1>2, <2>3, <2>4, WrappedReads
  <2>6. ReadAsFor64(FirstBlock, n, LowerWords, min64)
    BY <2>5 DEF b
  <2> QED BY <1>3, <2>1, <2>6 DEF ReadAsFor64, isFor64SingleBlock
<1>4. CASE ~FitsFOR64(values) /\ ~IsPair
  <2> DEFINE b == FirstBlock
  <2>1. b = PackedBlock(LowerWords, flag, IntTypeUint64, FALSE)
    BY <1>4 DEF FirstBlock, NarrowBlock
  <2> HIDE DEF b
  <2>2. b.forWidth = selectFORWidth(FORBase(LowerWords, flag)) /\ b.intType = IntTypeUint64
    <3>1. HeaderSays(b, n, LowerWords, flag, IntTypeUint64, FALSE)
      BY <1>2, <2>1, PackedHeader, Zenon
    <3> QED BY <3>1 DEF HeaderSays
  <2>3. b.forWidth = 0
    BY <1>1, <1>4, <2>2, NarrowBase DEF selectFORWidth, forWidthNone
  <2>4. ~isFor64SingleBlock(b)
    BY <2>3 DEF isFor64SingleBlock, forWidthU32
  <2>5. supportedType(b, TRUE)
    BY <2>2 DEF supportedType
  <2>6. ReadAs(b, n, LowerWords, TRUE) /\ b.combine = FALSE
    <3>1. TRUE \in BOOLEAN /\ FALSE \in BOOLEAN /\ (FALSE => TRUE)
      OBVIOUS
    <3> QED BY <1>2, <2>1, <2>4, <2>5, <3>1, PackedReads
  <2> QED BY <1>4, <2>2, <2>4, <2>6 DEF b
<1>5. CASE IsPair
  <2> DEFINE b == FirstBlock
  <2>0. ~FitsFOR64(values)
    BY <1>5 DEF IsPair
  <2>1. b = PackedBlock(LowerWords, flag, IntTypeUint64, TRUE)
    BY <1>5, <2>0 DEF FirstBlock, LowerBlock
  <2> HIDE DEF b
  <2>2. b.combine = TRUE /\ b.intType = IntTypeUint64
    <3>1. HeaderSays(b, n, LowerWords, flag, IntTypeUint64, TRUE)
      BY <1>2, <2>1, PackedHeader, Zenon
    <3> QED BY <3>1 DEF HeaderSays
  <2>4. ~isFor64SingleBlock(b)
    BY <2>2 DEF isFor64SingleBlock
  <2>5. supportedType(b, TRUE)
    BY <2>2 DEF supportedType
  <2>6. ReadAs(b, n, LowerWords, TRUE)
    <3>1. TRUE \in BOOLEAN /\ (TRUE => TRUE)
      OBVIOUS
    <3> QED BY <1>2, <2>1, <2>4, <2>5, <3>1, PackedReads
  <2> QED BY <1>5, <2>0, <2>2, <2>4, <2>6 DEF b
<1> QED BY <1>3, <1>4, <1>5

(* Readers of the second block find the upper words, unless its base takes *)
(* four bytes: then they find no block at all.                             *)
LEMMA UpperReads ==
  ASSUME NEW n \in 1 .. blockSize, values \in [0 .. n - 1 -> Word64],
         NEW b, b = UpperBlock
  PROVE  /\ b.count = n /\ b.len \in Nat /\ [b EXCEPT !.len = b.len] = b
         /\ b.excCount \in 0 .. n
         /\ b.forWidth # forWidthU32 => ReadAs(b, n, UpperWords, TRUE)
         /\ b.forWidth = forWidthU32 => /\ headerError(b, TRUE) # "none"
                                        /\ \A pos : getError(b, pos, TRUE) # "none"
<1>1. n \in Nat \ {0} /\ n \in Nat
  BY Dimensions
<1>2. UpperWords \in Slice(n)
  BY <1>1, WordsOfValues
<1>3. b = PackedBlock(UpperWords, flag, IntTypeUint64, FALSE)
  BY DEF UpperBlock
<1>4. /\ b.count = n /\ b.intType = IntTypeUint64 /\ b.combine = FALSE
      /\ b = [k \in DOMAIN b |-> b[k]]
  <2>1. HeaderSays(b, n, UpperWords, flag, IntTypeUint64, FALSE)
    BY <1>2, <1>3, PackedHeader, Zenon
  <2> QED BY <2>1 DEF HeaderSays
<1>5. b.len \in Nat
  <2>1. FALSE \in BOOLEAN
    OBVIOUS
  <2> QED BY <1>2, <1>3, <2>1, PackedLength
<1>6. [b EXCEPT !.len = b.len] = b
  BY <1>4
<1>7. b.excCount \in 0 .. n
  BY <1>2, <1>3, PackedExceptions
<1>8. ASSUME b.forWidth # forWidthU32 PROVE ReadAs(b, n, UpperWords, TRUE)
  <2>1. TRUE \in BOOLEAN /\ FALSE \in BOOLEAN /\ (FALSE => TRUE)
    OBVIOUS
  <2>2. ~isFor64SingleBlock(b)
    BY <1>8 DEF isFor64SingleBlock
  <2>3. supportedType(b, TRUE)
    BY <1>4 DEF supportedType
  <2> QED BY <1>2, <1>3, <2>1, <2>2, <2>3, PackedReads
<1>9. b.forWidth = forWidthU32 => /\ headerError(b, TRUE) # "none"
                                  /\ \A pos : getError(b, pos, TRUE) # "none"
  BY <1>2, <1>3, MistakenBase
<1> QED BY <1>4, <1>5, <1>6, <1>7, <1>8, <1>9

(* What a pack of words asks for, by its flags.                            *)
LEMMA AskedLength ==
  ASSUME NEW n \in 1 .. blockSize, NEW s \in Slice(n), NEW f, NEW cb \in BOOLEAN,
         NEW b, b = PackedBlock(s, f, IntTypeUint64, cb)
  PROVE  /\ maxTotalLen(b) \in Nat /\ b.len \in Nat /\ b.len <= maxTotalLen(b)
         /\ maxTotalLen(b) <= MaxBlockLength32(f) + 2
         /\ ~cb => maxTotalLen(b) <= MaxBlockLength32(f)
         /\ MaxBlockLength32(f) \in Nat
<1> DEFINE room == b.pOff + utlPayloadBytes(b.bitWidth)
                     + IF b.excCount = 0 THEN 0
                       ELSE excIndexSize(b.excCount) + maxSVBEncodedLen(b.excCount)
<1>1. room = maxTotalLen(b)
  BY DEF maxTotalLen
<1>2. /\ room \in Nat /\ b.len \in Nat /\ b.len <= room
      /\ room <= MaxBlockLength32(f) + IF cb THEN 2 ELSE 0
  BY PackedLength
<1>3. MaxBlockLength32(f) \in Nat
  BY BoundType
<1> HIDE DEF room
<1>4. CASE cb
  BY <1>1, <1>2, <1>3, <1>4
<1>5. CASE ~cb
  BY <1>1, <1>2, <1>3, <1>5
<1> QED BY <1>4, <1>5

(* A base of its own that FOR64 does not use leaves four bytes.            *)
LEMMA BoundWithoutFOR ==
  ASSUME NEW f, "NoFOR" \notin f
  PROVE  MaxBlockLength32(f) = MaxBlockLength32(f \cup {"NoFOR"}) + 4
<1> DEFINE x == headerBytes + svbLenBytes
<1> DEFINE p == utlPayloadBytes(WordBits)
<1> DEFINE q == utlPayloadBytes(WordBits - StepBits)
<1> DEFINE r == excBitmapThreshold + maxSVBEncodedLen(blockSize)
<1>1. p \in Nat /\ q \in Nat
  <2>1. WordBits = StepBits * 8 /\ WordBits - StepBits = StepBits * 7
    BY Dimensions DEF WordBits
  <2>2. 8 \in 0 .. 8 /\ 7 \in 0 .. 8
    OBVIOUS
  <2>3. p = 8 * (4 * LaneCount) /\ q = 7 * (4 * LaneCount)
    BY <2>1, <2>2, PayloadBytes
  <2> QED BY <2>3, Dimensions
<1>2. excBitmapThreshold \in Nat /\ maxSVBEncodedLen(blockSize) \in Nat
  BY Dimensions DEF maxSVBEncodedLen, svbControlByteCount
<1>3. forBaseBytes(forWidthU32) = 4
  BY DEF forBaseBytes, forWidthNone, forWidthU8, forWidthU16, forWidthU32
<1>4. "NoFOR" \in f \cup {"NoFOR"} /\ ("NoPatch" \in f \cup {"NoFOR"} <=> "NoPatch" \in f)
  OBVIOUS
<1> HIDE DEF p, q
<1>5. CASE "NoPatch" \in f
  BY <1>1, <1>3, <1>4, <1>5 DEF MaxBlockLength32, headerBytes, p
<1>6. CASE "NoPatch" \notin f
  BY <1>1, <1>2, <1>3, <1>4, <1>6 DEF MaxBlockLength32, headerBytes, svbLenBytes, q
<1> QED BY <1>5, <1>6

-----------------------------------------------------------------------------
(* Memory. *)

(* A workspace that is used up has words in it, the old ones outside.      *)
LEMMA SpoiledFacts ==
  ASSUME NEW m \in Nat, NEW mem \in Slice(m), NEW W, NEW mem2 \in Spoiled(mem, W)
  PROVE  mem2 \in Slice(m) /\ \A i \in 0 .. m - 1 : i \notin W => mem2[i] = mem[i]
<1>1. PICK junk \in Junk : mem2 = [i \in DOMAIN mem |-> IF i \in W THEN junk ELSE mem[i]]
  BY DEF Spoiled
<1>2. DOMAIN mem = 0 .. m - 1 /\ (\A i \in 0 .. m - 1 : mem[i] \in Word) /\ junk \in Word
  BY Caller64Assumption DEF Slice
<1> QED BY <1>1, <1>2 DEF Slice

(* Words put into a region are found there and leave the others alone. *)
LEMMA RegionFacts ==
  ASSUME NEW mem \in Slice(ScratchLen64), NEW n \in 0 .. blockSize, NEW s \in Slice(n),
         NEW off \in {lowers, middle, uppers}
  PROVE  /\ Store(mem, off, s) \in Slice(ScratchLen64)
         /\ [i \in 0 .. n - 1 |-> Store(mem, off, s)[off + i]] = s
         /\ \A at \in {lowers, middle, uppers} \ {off} :
              [i \in 0 .. n - 1 |-> Store(mem, off, s)[at + i]] = [i \in 0 .. n - 1 |-> mem[at + i]]
<1>1. /\ ScratchLen64 \in Nat /\ n \in Nat /\ off \in Nat /\ blockSize \in Nat /\ n <= blockSize
      /\ lowers = 0 /\ middle = blockSize /\ uppers = blockSize + blockSize
      /\ ScratchLen64 = blockSize + blockSize + blockSize
  BY Dimensions64
<1>2. /\ Store(mem, off, s) \in Slice(ScratchLen64)
      /\ \A i \in 0 .. ScratchLen64 - 1 : i < off \/ i >= off + n => Store(mem, off, s)[i] = mem[i]
      /\ \A i \in 0 .. n - 1 : off + i < ScratchLen64 => Store(mem, off, s)[off + i] = s[i]
  <2> DEFINE m == ScratchLen64
  <2>1. m \in Nat /\ mem \in Slice(m) /\ n \in Nat /\ off \in Nat
    BY <1>1
  <2> HIDE DEF m
  <2>2. Store(mem, off, s) \in Slice(m)
    BY <2>1, StoreFacts
  <2>3. \A i \in 0 .. m - 1 : i < off \/ i >= off + n => Store(mem, off, s)[i] = mem[i]
    BY <2>1, StoreFacts
  <2>4. \A i \in 0 .. n - 1 : off + i < m => Store(mem, off, s)[off + i] = s[i]
    BY <2>1, StoreFacts
  <2> QED BY <2>2, <2>3, <2>4 DEF m
<1>3. \A i \in 0 .. n - 1 : Store(mem, off, s)[off + i] = s[i]
  BY <1>1, <1>2
<1>4. s = [i \in 0 .. n - 1 |-> s[i]]
  BY DEF Slice
<1>5. ASSUME NEW at \in {lowers, middle, uppers} \ {off}, NEW i \in 0 .. n - 1
      PROVE  Store(mem, off, s)[at + i] = mem[at + i]
  <2>1. at + i \in 0 .. ScratchLen64 - 1 /\ (at + i < off \/ at + i >= off + n)
    BY <1>1
  <2> QED BY <1>2, <2>1
<1> QED BY <1>2, <1>3, <1>4, <1>5

(* Unpacking a block puts its words into one region, and its high bits     *)
(* into the last one: the first region keeps its words meanwhile.          *)
LEMMA UnpackedFacts ==
  ASSUME scratch \in Slice(ScratchLen64), NEW n \in 0 .. blockSize, NEW s \in Slice(n),
         NEW x \in 0 .. n, NEW off \in {lowers, middle}, NEW mem2 \in Unpacked(off, s, uppers, x)
  PROVE  /\ mem2 \in Slice(ScratchLen64)
         /\ [i \in 0 .. n - 1 |-> mem2[off + i]] = s
         /\ off = middle => [i \in 0 .. n - 1 |-> mem2[lowers + i]] = WordsAt(lowers, n)
<1> DEFINE W == (off .. off + blockSize - 1) \cup (uppers .. uppers + x - 1)
<1>1. PICK mem \in Spoiled(scratch, W) : mem2 = Store(mem, off, s)
  BY DEF Unpacked
<1>2. /\ ScratchLen64 \in Nat /\ n \in Nat /\ off \in Nat /\ blockSize \in Nat /\ n <= blockSize
      /\ x \in Nat /\ blockSize > 0
      /\ lowers = 0 /\ middle = blockSize /\ uppers = blockSize + blockSize
      /\ ScratchLen64 = blockSize + blockSize + blockSize
  BY Dimensions64
<1>3. /\ mem \in Slice(ScratchLen64)
      /\ \A i \in 0 .. ScratchLen64 - 1 : i \notin W => mem[i] = scratch[i]
  <2> HIDE DEF W
  <2> QED BY <1>2, SpoiledFacts
<1>4. /\ mem2 \in Slice(ScratchLen64)
      /\ [i \in 0 .. n - 1 |-> mem2[off + i]] = s
      /\ \A at \in {lowers, middle, uppers} \ {off} :
           [i \in 0 .. n - 1 |-> mem2[at + i]] = [i \in 0 .. n - 1 |-> mem[at + i]]
  BY <1>1, <1>3, RegionFacts
<1>5. ASSUME off = middle
      PROVE  [i \in 0 .. n - 1 |-> mem2[lowers + i]] = WordsAt(lowers, n)
  <2>1. [i \in 0 .. n - 1 |-> mem2[lowers + i]] = [i \in 0 .. n - 1 |-> mem[lowers + i]]
    <3>1. lowers \in {lowers, middle, uppers} \ {off}
      BY <1>2, <1>5
    <3> QED BY <1>4, <3>1
  <2>2. \A i \in 0 .. n - 1 : mem[lowers + i] = scratch[lowers + i]
    <3> SUFFICES ASSUME NEW i \in 0 .. n - 1 PROVE mem[lowers + i] = scratch[lowers + i]
      OBVIOUS
    <3>1. lowers + i \in 0 .. ScratchLen64 - 1 /\ lowers + i \notin W
      BY <1>2, <1>5
    <3> HIDE DEF W
    <3> QED BY <1>3, <3>1
  <2> QED BY <2>1, <2>2 DEF WordsAt
<1> QED BY <1>4, <1>5

(* Packing block 1 of a pair leaves the upper words alone: it has no more  *)
(* workspace than one region, and allocates sooner than to take another.   *)
LEMMA PackLeaves ==
  ASSUME scratch \in Slice(ScratchLen64), count \in 0 .. blockSize,
         NEW W, NEW mem2 \in Spoiled(scratch, W),
         W = {} \/ W = (0 .. count - 1) \cup (middle .. middle + blockSize - 1)
  PROVE  [i \in 0 .. count - 1 |-> mem2[uppers + i]] = WordsAt(uppers, count)
<1>1. /\ ScratchLen64 \in Nat /\ count \in Nat /\ blockSize \in Nat /\ count <= blockSize
      /\ middle = blockSize /\ uppers = blockSize + blockSize
      /\ ScratchLen64 = blockSize + blockSize + blockSize
  BY Dimensions64
<1>2. \A i \in 0 .. ScratchLen64 - 1 : i \notin W => mem2[i] = scratch[i]
  BY <1>1, SpoiledFacts
<1> DEFINE n == count
<1>3. \A i \in 0 .. n - 1 : uppers + i \in 0 .. ScratchLen64 - 1 /\ uppers + i \notin W
  <2>1. /\ n \in Nat /\ n <= blockSize
        /\ W = {} \/ W = (0 .. n - 1) \cup (middle .. middle + blockSize - 1)
    BY <1>1
  <2> HIDE DEF n
  <2> QED BY <1>1, <2>1
<1> QED BY <1>2, <1>3 DEF WordsAt

-----------------------------------------------------------------------------
(* The invariant.  Its parts are kept apart: what a step leaves alone it   *)
(* keeps by the first two lemmas.                                          *)

(* What the invariant says of lengths and types. *)
LEMMA InvFacts ==
  ASSUME Inv64
  PROVE  /\ count \in 0 .. blockSize /\ count \in Nat
         /\ values \in [0 .. count - 1 -> Word64] /\ DOMAIN values = 0 .. count - 1
         /\ pc # "idle" \/ first.count > 0 => count \in 1 .. blockSize /\ count \in Nat \ {0}
         /\ scratch \in Slice(ScratchLen64) /\ flag \subseteq Flags \ {"Append"}
         /\ min64 \in Word64 /\ got \in Word /\ calls \in 0 .. MaxCalls
         /\ NoBlock.count = 0 /\ NoBlock.len = 0 /\ NoBlock.combine = FALSE
<1>1. count \in 0 .. blockSize /\ blockSize \in Nat
  BY Dimensions64 DEF Inv64, TypeOK
<1>2. values \in [0 .. count - 1 -> Word64] /\ DOMAIN values = 0 .. count - 1
  BY DEF Inv64, CallInv
<1>3. pc # "idle" \/ first.count > 0 => count > 0
  BY DEF Inv64, CallInv
<1>4. /\ scratch \in Slice(ScratchLen64) /\ flag \subseteq Flags \ {"Append"}
      /\ min64 \in Word64 /\ got \in Word /\ calls \in 0 .. MaxCalls
  BY DEF Inv64, TypeOK
<1>5. NoBlock.count = 0 /\ NoBlock.len = 0 /\ NoBlock.combine = FALSE
  BY DEF NoBlock
<1> QED BY <1>1, <1>2, <1>3, <1>4, <1>5

(* The words and the blocks depend on the slice and the flags only, that   *)
(* of FOR64 on the base besides.                                           *)
LEMMA SameSlice ==
  ASSUME flag' = flag, values' = values
  PROVE  /\ count' = count /\ LowerWords' = LowerWords /\ UpperWords' = UpperWords
         /\ (FitsFOR64(values)' <=> FitsFOR64(values)) /\ (IsPair' <=> IsPair)
         /\ InnerBlock' = InnerBlock /\ NarrowBlock' = NarrowBlock
         /\ LowerBlock' = LowerBlock /\ UpperBlock' = UpperBlock
         /\ SecondBlock' = SecondBlock
         /\ min64' = min64 => FirstBlock' = FirstBlock
<1>1. FitsFOR64(values)' <=> FitsFOR64(values)
  BY DEF FitsFOR64
<1>2. LowerWords' = LowerWords /\ UpperWords' = UpperWords /\ (IsPair' <=> IsPair)
  BY <1>1 DEF LowerWords, UpperWords, IsPair
<1>3. /\ InnerBlock' = InnerBlock /\ NarrowBlock' = NarrowBlock
      /\ LowerBlock' = LowerBlock /\ UpperBlock' = UpperBlock
  BY <1>2 DEF InnerBlock, NarrowBlock, LowerBlock, UpperBlock
<1>4. SecondBlock' = SecondBlock
  BY <1>2, <1>3 DEF SecondBlock
<1>5. ASSUME min64' = min64 PROVE FirstBlock' = FirstBlock
  BY <1>1, <1>2, <1>3, <1>5 DEF FirstBlock, Wrapped
<1> QED BY <1>1, <1>2, <1>3, <1>4, <1>5 DEF count

(* What a phase of packing has to show for the parts that its words and    *)
(* blocks do not touch.                                                    *)
LEMMA CallKept ==
  ASSUME Inv64, values' = values, stored' = stored, count > 0
  PROVE  CallInv'
BY DEF Inv64, CallInv, count

(* Before any call, nothing is in memory. *)
LEMMA InitInv64 == Init => Inv64
<1> SUFFICES ASSUME Init PROVE Inv64
  OBVIOUS
<1>1. values = <<>> /\ count = 0 /\ DOMAIN values = {}
  <2>1. values = <<>> /\ DOMAIN values = {}
    BY DEF Init, NoValues
  <2> QED BY <2>1, FS_EmptySet DEF count, SliceLen
<1>2. scratch \in Slice(ScratchLen64)
  BY Caller64Assumption DEF Init, Slice
<1>3. NoBlock.count = 0 /\ NoBlock.len = 0
  BY DEF NoBlock
<1>4. 0 \in Word64 /\ 0 \in Word /\ blockSize \in Nat
  BY Dimensions64 DEF Word64, Word
<1>5. TypeOK
  BY <1>1, <1>2, <1>3, <1>4, Caller64Assumption DEF Init, TypeOK
<1>6. ~Done
  BY <1>3 DEF Init, Done, Reading
<1>7. CallInv
  BY <1>1, <1>3 DEF Init, CallInv
<1>8. LayoutInv /\ WordsInv /\ BlocksInv
  BY <1>6 DEF Init, LayoutInv, WordsInv, BlocksInv
<1>9. CapacityTrusted
  BY BoundType DEF Init, CapacityTrusted, MaxBlockLength64, block2LenBytes
<1> QED BY <1>5, <1>7, <1>8, <1>9 DEF Inv64

(* A call of Compress starts afresh. *)
LEMMA CompressInv ==
  ASSUME Inv64, NEW v \in Inputs, NEW f \in FlagSets, Compress(v, f)
  PROVE  Inv64'
<1>1. /\ pc' = "analyze" /\ values' = v /\ stored' = v /\ first' = NoBlock /\ second' = NoBlock
      /\ block2Len' = 0 /\ reserve' = 0 /\ validLength(v)
  BY DEF Compress
<1>2. SliceLen(v) \in Nat /\ v \in [0 .. SliceLen(v) - 1 -> Word64] /\ count' = SliceLen(v)
  BY <1>1, Caller64Assumption DEF count
<1>3. count' \in 0 .. blockSize /\ count' > 0
  BY <1>1, <1>2, Dimensions64 DEF validLength
<1>4. flag' \subseteq Flags \ {"Append"}
  <2>1. f \subseteq Flags /\ "NoInPlace" \in Flags
    BY Caller64Assumption DEF Flags
  <2> QED BY <2>1 DEF Compress, EffectiveFlag
<1>5. TypeOK'
  BY <1>1, <1>3, <1>4, InvFacts, Caller64Assumption DEF Compress, TypeOK
<1>6. CallInv'
  BY <1>1, <1>2, <1>3 DEF CallInv
<1>7. ~Done'
  BY <1>1 DEF Done, Reading
<1>8. LayoutInv' /\ WordsInv' /\ BlocksInv'
  BY <1>1, <1>7 DEF LayoutInv, WordsInv, BlocksInv
<1>9. CapacityTrusted'
  <2>1. MaxBlockLength32(flag') \in Nat
    BY BoundType
  <2> QED BY <1>1, <2>1 DEF CapacityTrusted, MaxBlockLength64, block2LenBytes
<1> QED BY <1>5, <1>6, <1>8, <1>9 DEF Inv64

(* A step that returns something and changes nothing in memory.            *)
LEMMA ReplyInv ==
  ASSUME Inv64, UNCHANGED <<pc, packing, scratch, asked, got, history>>
  PROVE  Inv64'
<1>1. /\ pc' = pc /\ flag' = flag /\ values' = values /\ scratch' = scratch /\ min64' = min64
      /\ first' = first /\ second' = second /\ block2Len' = block2Len /\ len' = len
      /\ asked' = asked /\ got' = got /\ stored' = stored /\ reserve' = reserve
      /\ calls' = calls
  BY DEF packing, packed, history
<1>2. TypeOK' /\ CallInv' /\ CapacityTrusted'
  BY <1>1, SameSlice DEF Inv64, TypeOK, CallInv, CapacityTrusted
<1>3. Done' <=> Done
  BY <1>1 DEF Done
<1>4. LayoutInv'
  BY <1>1, <1>3, SameSlice DEF Inv64, LayoutInv
<1>5. WordsInv'
  BY <1>1, <1>3, SameSlice DEF Inv64, WordsInv, WordsAt
<1>6. BlocksInv'
  BY <1>1, <1>3, SameSlice DEF Inv64, BlocksInv
<1> QED BY <1>2, <1>4, <1>5, <1>6 DEF Inv64

(* The differences to the base of FOR64 are written to the first region.   *)
LEMMA SubtractMin64Inv ==
  ASSUME Inv64, SubtractMin64
  PROVE  Inv64'
<1>1. /\ pc = "analyze" /\ pc' = "packFor64" /\ FitsFOR64(values) /\ min64' = SliceMin(values)
      /\ flag' = flag /\ values' = values /\ first' = first /\ second' = second
      /\ block2Len' = block2Len
      /\ stored' = stored /\ got' = got /\ reserve' = reserve /\ calls' = calls
  BY DEF SubtractMin64, packed, history
<1>2. /\ count \in 0 .. blockSize /\ count \in Nat \ {0} /\ values \in [0 .. count - 1 -> Word64]
      /\ scratch \in Slice(ScratchLen64)
  BY <1>1, InvFacts
<1>3. scratch' = Store(scratch, lowers, LowerWords)
  BY <1>1 DEF SubtractMin64, LowerWords
<1>4. LowerWords \in Slice(count) /\ lowers \in {lowers, middle, uppers}
  BY <1>2, WordsOfValues
<1>5. scratch' \in Slice(ScratchLen64) /\ WordsAt(lowers, count)' = LowerWords
  BY <1>1, <1>2, <1>3, <1>4, RegionFacts, SameSlice DEF WordsAt
<1>6. TypeOK'
  BY <1>1, <1>2, <1>5, Range64, SameSlice DEF Inv64, TypeOK
<1>7. ~Done' /\ ~Done
  BY <1>1 DEF Done, Reading
<1>8. CallInv'
  BY <1>1, <1>2, CallKept
<1>9. LayoutInv' /\ WordsInv'
  BY <1>1, <1>5, <1>7, SameSlice DEF LayoutInv, WordsInv
<1>10. BlocksInv' /\ CapacityTrusted'
  BY <1>1, <1>7 DEF Inv64, BlocksInv, CapacityTrusted
<1> QED BY <1>6, <1>8, <1>9, <1>10 DEF Inv64

(* So are values that are words. *)
LEMMA NarrowInv ==
  ASSUME Inv64, Narrow
  PROVE  Inv64'
<1>1. /\ pc = "analyze" /\ pc' = "packNarrow" /\ ~FitsFOR64(values) /\ SliceMax(values) < Modulus
      /\ flag' = flag /\ values' = values /\ first' = first /\ second' = second
      /\ block2Len' = block2Len /\ min64' = min64
      /\ stored' = stored /\ got' = got /\ reserve' = reserve /\ calls' = calls
  BY DEF Narrow, packing, packed, history
<1>2. /\ count \in 0 .. blockSize /\ count \in Nat \ {0} /\ values \in [0 .. count - 1 -> Word64]
      /\ scratch \in Slice(ScratchLen64)
  BY <1>1, InvFacts
<1>3. scratch' = Store(scratch, lowers, LowerWords)
  BY <1>1 DEF Narrow, LowerWords
<1>4. LowerWords \in Slice(count) /\ lowers \in {lowers, middle, uppers}
  BY <1>2, WordsOfValues
<1>5. scratch' \in Slice(ScratchLen64) /\ WordsAt(lowers, count)' = LowerWords
  BY <1>1, <1>2, <1>3, <1>4, RegionFacts, SameSlice DEF WordsAt
<1>6. TypeOK'
  BY <1>1, <1>2, <1>5, SameSlice DEF Inv64, TypeOK
<1>7. ~Done' /\ ~Done
  BY <1>1 DEF Done, Reading
<1>8. CallInv'
  BY <1>1, <1>2, CallKept
<1>9. LayoutInv' /\ WordsInv'
  BY <1>1, <1>5, <1>7, SameSlice DEF LayoutInv, WordsInv
<1>10. BlocksInv' /\ CapacityTrusted'
  BY <1>1, <1>7 DEF Inv64, BlocksInv, CapacityTrusted
<1> QED BY <1>6, <1>8, <1>9, <1>10 DEF Inv64

(* The halves of a pair are written to the first and to the last region,   *)
(* and the second write leaves the first one alone.                        *)
LEMMA SplitInv ==
  ASSUME Inv64, Split
  PROVE  Inv64'
<1>1. /\ pc = "analyze" /\ pc' = "packLower" /\ ~FitsFOR64(values) /\ SliceMax(values) >= Modulus
      /\ flag' = flag /\ values' = values /\ first' = first /\ second' = second
      /\ block2Len' = block2Len /\ min64' = min64
      /\ stored' = stored /\ got' = got /\ reserve' = reserve /\ calls' = calls
  BY DEF Split, packing, packed, history
<1>2. /\ count \in 0 .. blockSize /\ count \in Nat \ {0} /\ values \in [0 .. count - 1 -> Word64]
      /\ scratch \in Slice(ScratchLen64) /\ IsPair
  BY <1>1, InvFacts DEF IsPair
<1> DEFINE mem == Store(scratch, lowers, LowerWords)
<1>3. scratch' = Store(mem, uppers, UpperWords)
  BY <1>1 DEF Split, LowerWords, UpperWords
<1>4. LowerWords \in Slice(count) /\ UpperWords \in Slice(count)
  BY <1>2, WordsOfValues
<1>5. /\ lowers \in {lowers, middle, uppers} /\ uppers \in {lowers, middle, uppers}
      /\ lowers \in {lowers, middle, uppers} \ {uppers}
  BY Dimensions64
<1>6. mem \in Slice(ScratchLen64) /\ [i \in 0 .. count - 1 |-> mem[lowers + i]] = LowerWords
  BY <1>2, <1>4, <1>5, RegionFacts
<1> HIDE DEF mem
<1>7. /\ scratch' \in Slice(ScratchLen64)
      /\ WordsAt(lowers, count)' = LowerWords /\ WordsAt(uppers, count)' = UpperWords
  <2>1. /\ scratch' \in Slice(ScratchLen64)
        /\ [i \in 0 .. count - 1 |-> scratch'[uppers + i]] = UpperWords
        /\ [i \in 0 .. count - 1 |-> scratch'[lowers + i]]
             = [i \in 0 .. count - 1 |-> mem[lowers + i]]
    BY <1>2, <1>3, <1>4, <1>5, <1>6, RegionFacts
  <2> QED BY <1>1, <1>6, <2>1, SameSlice DEF WordsAt
<1>8. TypeOK'
  BY <1>1, <1>2, <1>7, SameSlice DEF Inv64, TypeOK
<1>9. ~Done' /\ ~Done
  BY <1>1 DEF Done, Reading
<1>10. CallInv'
  BY <1>1, <1>2, CallKept
<1>11. LayoutInv' /\ WordsInv'
  BY <1>1, <1>2, <1>7, <1>9, SameSlice DEF LayoutInv, WordsInv
<1>12. BlocksInv' /\ CapacityTrusted'
  BY <1>1, <1>9 DEF Inv64, BlocksInv, CapacityTrusted
<1> QED BY <1>8, <1>10, <1>11, <1>12 DEF Inv64

(* What a call of packBlock leaves in scratch are words. *)
LEMMA PackMemory ==
  ASSUME Inv64, NEW b, NEW at, NEW from, NEW space, NEW n, UsePackBlock(b, at, from, space, n)
  PROVE  scratch' \in Slice(ScratchLen64) /\ reserve' = at + maxTotalLen(b)
BY InvFacts, SpoiledFacts, Dimensions64 DEF UsePackBlock

(* The inner block of FOR64 is packed eight bytes further on: its flags    *)
(* forbid a base, which leaves four bytes, and the bound has room for two  *)
(* blocks.                                                                 *)
LEMMA PackFor64Inv ==
  ASSUME Inv64, PackFor64
  PROVE  Inv64'
<1>1. /\ pc = "packFor64" /\ pc' = "wrap"
      /\ flag' = flag /\ values' = values /\ second' = second
      /\ block2Len' = block2Len /\ min64' = min64
      /\ stored' = stored /\ got' = got /\ calls' = calls
  BY DEF PackFor64, history
<1>2. /\ count \in 1 .. blockSize /\ count \in Nat \ {0} /\ values \in [0 .. count - 1 -> Word64]
      /\ FitsFOR64(values) /\ min64 = SliceMin(values) /\ second = NoBlock /\ block2Len = 0
      /\ WordsAt(lowers, count) = LowerWords
  BY <1>1, InvFacts DEF Inv64, LayoutInv, WordsInv, BlocksInv, Done, Reading
<1> DEFINE f == flag \cup {"NoFOR"}
<1>3. first' = InnerBlock /\ UsePackBlock(InnerBlock, for64BaseSize, lowers, middle, 2 * blockSize)
  BY <1>2 DEF PackFor64, InnerBlock
<1>4. scratch' \in Slice(ScratchLen64) /\ reserve' = 8 + maxTotalLen(InnerBlock)
  BY <1>3, PackMemory DEF for64BaseSize
<1>5. LowerWords \in Slice(count)
  BY <1>2, WordsOfValues
<1>6. /\ maxTotalLen(InnerBlock) \in Nat /\ maxTotalLen(InnerBlock) <= MaxBlockLength32(f)
      /\ MaxBlockLength32(f) \in Nat
  <2>1. FALSE \in BOOLEAN
    OBVIOUS
  <2> DEFINE b == InnerBlock
  <2>2. b = PackedBlock(LowerWords, f, IntTypeUint64, FALSE)
    BY DEF InnerBlock
  <2> HIDE DEF b, f
  <2>3. /\ maxTotalLen(b) \in Nat /\ maxTotalLen(b) <= MaxBlockLength32(f)
        /\ MaxBlockLength32(f) \in Nat
    BY <1>2, <1>5, <2>1, <2>2, AskedLength
  <2> QED BY <2>3 DEF b
<1>7. InnerBlock.count = count
  <2> DEFINE b == InnerBlock
  <2>1. b = PackedBlock(LowerWords, f, IntTypeUint64, FALSE)
    BY DEF InnerBlock
  <2> HIDE DEF b, f
  <2>2. HeaderSays(b, count, LowerWords, f, IntTypeUint64, FALSE)
    BY <1>2, <1>5, <2>1, PackedHeader, Zenon
  <2> QED BY <2>2 DEF HeaderSays, b
<1>8. TypeOK'
  BY <1>1, <1>2, <1>3, <1>4, <1>7, SameSlice DEF Inv64, TypeOK
<1>9. ~Done'
  BY <1>1 DEF Done, Reading
<1>10. CallInv'
  BY <1>1, <1>2, CallKept
<1>11. LayoutInv' /\ WordsInv'
  BY <1>1, <1>2, <1>9, SameSlice DEF LayoutInv, WordsInv
<1>12. BlocksInv'
  BY <1>1, <1>2, <1>3, <1>9, SameSlice DEF BlocksInv
<1>13. CapacityTrusted'
  <2>1. MaxBlockLength32(flag) = MaxBlockLength32(f) + 4
    BY <1>2, BoundWithoutFOR DEF FitsFOR64
  <2>2. CapacityTrusted' <=> reserve' <= 2 * MaxBlockLength32(flag) + 2
    BY <1>1 DEF CapacityTrusted, MaxBlockLength64, block2LenBytes
  <2> HIDE DEF f
  <2> QED BY <1>4, <1>6, <2>1, <2>2
<1> QED BY <1>8, <1>10, <1>11, <1>12, <1>13 DEF Inv64

(* The base of eight bytes goes in front of the inner block. *)
LEMMA WrapFor64Inv ==
  ASSUME Inv64, WrapFor64
  PROVE  Inv64'
<1>1. /\ pc = "wrap" /\ pc' = "idle"
      /\ flag' = flag /\ values' = values /\ second' = second
      /\ block2Len' = block2Len /\ min64' = min64
      /\ scratch' = scratch /\ reserve' = reserve
      /\ stored' = stored /\ got' = got /\ calls' = calls
      /\ first' = Wrapped(first) /\ len' = Wrapped(first).len
  BY DEF WrapFor64, history
<1>2. /\ count \in 1 .. blockSize /\ count \in Nat \ {0} /\ values \in [0 .. count - 1 -> Word64]
      /\ FitsFOR64(values) /\ min64 = SliceMin(values) /\ ~Done
  BY <1>1, InvFacts DEF Inv64, LayoutInv, Done, Reading
<1>3. first = InnerBlock /\ second = NoBlock
  BY <1>1, <1>2 DEF Inv64, BlocksInv
<1>4. ~IsPair /\ first' = FirstBlock
  BY <1>1, <1>2, <1>3 DEF FirstBlock, IsPair
<1>5. first'.count = count /\ first'.len \in Nat
  <2>1. ReadAs(FirstBlock, count, LowerWords, TRUE)
    BY <1>2, FirstReads
  <2> QED BY <1>4, <2>1 DEF ReadAs
<1>6. Done'
  BY <1>1, <1>2, <1>5 DEF Done
<1>7. TypeOK'
  BY <1>1, <1>3, <1>5, SameSlice, InvFacts DEF Inv64, TypeOK
<1>8. CallInv'
  BY <1>1, <1>2, CallKept
<1>9. LayoutInv' /\ WordsInv'
  BY <1>1, <1>2, <1>6, SameSlice DEF LayoutInv, WordsInv
<1>10. BlocksInv'
  <2>1. FirstBlock' = FirstBlock /\ SecondBlock' = NoBlock
    BY <1>1, <1>4, SameSlice DEF SecondBlock
  <2>2. len' = first'.len + NoBlock.len
    BY <1>1, <1>5, InvFacts
  <2>3. block2Len' = NoBlock.len
    BY <1>1, <1>2, InvFacts DEF Inv64, BlocksInv
  <2> QED BY <1>1, <1>3, <1>4, <1>6, <2>1, <2>2, <2>3 DEF BlocksInv
<1>11. CapacityTrusted'
  BY <1>1 DEF Inv64, CapacityTrusted
<1> QED BY <1>7, <1>8, <1>9, <1>10, <1>11 DEF Inv64

(* The only block of a narrowed slice.                                     *)
LEMMA PackNarrowInv ==
  ASSUME Inv64, PackNarrow
  PROVE  Inv64'
<1>1. /\ pc = "packNarrow" /\ pc' = "idle"
      /\ flag' = flag /\ values' = values /\ second' = second /\ block2Len' = block2Len
      /\ min64' = min64 /\ stored' = stored /\ got' = got /\ calls' = calls
  BY DEF PackNarrow, history
<1>2. /\ count \in 1 .. blockSize /\ count \in Nat \ {0} /\ values \in [0 .. count - 1 -> Word64]
      /\ ~FitsFOR64(values) /\ SliceMax(values) < Modulus /\ second = NoBlock /\ block2Len = 0
      /\ WordsAt(lowers, count) = LowerWords
  BY <1>1, InvFacts DEF Inv64, LayoutInv, WordsInv, BlocksInv, Done, Reading
<1>3. ~IsPair
  <2>1. SliceMax(values) \in Nat /\ Modulus \in Nat
    BY <1>2, Range64, Dimensions64
  <2> QED BY <1>2, <2>1 DEF IsPair
<1> DEFINE b == NarrowBlock
<1>4. first' = b /\ len' = b.len /\ UsePackBlock(b, 0, lowers, middle, blockSize)
  BY <1>2 DEF PackNarrow, NarrowBlock
<1>5. LowerWords \in Slice(count)
  BY <1>2, WordsOfValues
<1>6. b = PackedBlock(LowerWords, flag, IntTypeUint64, FALSE)
  BY DEF NarrowBlock
<1>7. FirstBlock = b /\ SecondBlock = NoBlock
  BY <1>2, <1>3 DEF FirstBlock, SecondBlock
<1> HIDE DEF b
<1>8. scratch' \in Slice(ScratchLen64) /\ reserve' = 0 + maxTotalLen(b)
  BY <1>4, PackMemory
<1>9. /\ maxTotalLen(b) \in Nat /\ maxTotalLen(b) <= MaxBlockLength32(flag)
      /\ MaxBlockLength32(flag) \in Nat /\ b.len \in Nat
  <2>1. FALSE \in BOOLEAN
    OBVIOUS
  <2> QED BY <1>2, <1>5, <1>6, <2>1, AskedLength
<1>10. b.count = count
  <2>1. HeaderSays(b, count, LowerWords, flag, IntTypeUint64, FALSE)
    BY <1>2, <1>5, <1>6, PackedHeader, Zenon
  <2> QED BY <2>1 DEF HeaderSays
<1>11. Done'
  BY <1>1, <1>2, <1>4, <1>10 DEF Done
<1>12. TypeOK'
  BY <1>1, <1>2, <1>4, <1>8, <1>10, SameSlice, InvFacts DEF Inv64, TypeOK
<1>13. CallInv'
  BY <1>1, <1>2, CallKept
<1>14. LayoutInv' /\ WordsInv'
  BY <1>1, <1>2, <1>11, SameSlice DEF LayoutInv, WordsInv
<1>15. BlocksInv'
  <2>1. FirstBlock' = b /\ SecondBlock' = NoBlock
    BY <1>1, <1>7, SameSlice
  <2>2. len' = first'.len + NoBlock.len /\ block2Len' = NoBlock.len /\ second' = NoBlock
    BY <1>1, <1>2, <1>4, <1>9, InvFacts
  <2> QED BY <1>1, <1>4, <1>11, <2>1, <2>2 DEF BlocksInv
<1>16. CapacityTrusted'
  <2>1. CapacityTrusted' <=> reserve' <= 2 * MaxBlockLength32(flag) + 2
    BY <1>1 DEF CapacityTrusted, MaxBlockLength64, block2LenBytes
  <2> QED BY <1>8, <1>9, <2>1
<1> QED BY <1>12, <1>13, <1>14, <1>15, <1>16 DEF Inv64

(* Block 1 of a pair: the upper words wait in the last region. *)
LEMMA PackLowerInv ==
  ASSUME Inv64, PackLower
  PROVE  Inv64'
<1>1. /\ pc = "packLower" /\ pc' = "packUpper"
      /\ flag' = flag /\ values' = values /\ second' = second /\ block2Len' = block2Len
      /\ min64' = min64 /\ stored' = stored /\ got' = got /\ calls' = calls
  BY DEF PackLower, history
<1>2. /\ count \in 1 .. blockSize /\ count \in Nat \ {0} /\ values \in [0 .. count - 1 -> Word64]
      /\ IsPair /\ second = NoBlock /\ block2Len = 0
      /\ WordsAt(lowers, count) = LowerWords /\ WordsAt(uppers, count) = UpperWords
  BY <1>1, InvFacts DEF Inv64, LayoutInv, WordsInv, BlocksInv, Done, Reading
<1> DEFINE b == LowerBlock
<1>3. first' = b /\ UsePackBlock(b, 0, lowers, middle, pairSpace)
  BY <1>2 DEF PackLower, LowerBlock
<1>4. LowerWords \in Slice(count)
  BY <1>2, WordsOfValues
<1>5. b = PackedBlock(LowerWords, flag, IntTypeUint64, TRUE)
  BY DEF LowerBlock
<1> HIDE DEF b
<1>6. scratch' \in Slice(ScratchLen64) /\ reserve' = 0 + maxTotalLen(b)
  BY <1>3, PackMemory
<1>7. WordsAt(uppers, count)' = UpperWords
  <2> DEFINE W == PackWrites(lowers, middle, pairSpace)
  <2>1. scratch' \in Spoiled(scratch, W)
    BY <1>3 DEF UsePackBlock
  <2>2. W = {} \/ W = (0 .. count - 1) \cup (middle .. middle + blockSize - 1)
    <3>1. pairSpace < 2 * blockSize
      BY Dimensions64 DEF pairSpace
    <3>2. CASE "NoInPlace" \in flag
      BY <3>1, <3>2 DEF PackWrites, Allocates
    <3>3. CASE "NoInPlace" \notin flag
      <4>1. W = (lowers .. lowers + count - 1) \cup (middle .. middle + blockSize - 1)
        BY <3>3 DEF PackWrites, Allocates
      <4>2. (lowers .. lowers + count - 1) = 0 .. count - 1
        BY <1>2, Dimensions64
      <4> HIDE DEF W
      <4> QED BY <4>1, <4>2
    <3> QED BY <3>2, <3>3
  <2> HIDE DEF W
  <2>3. [i \in 0 .. count - 1 |-> scratch'[uppers + i]] = WordsAt(uppers, count)
    BY <2>1, <2>2, InvFacts, PackLeaves
  <2> QED BY <1>1, <1>2, <2>3, SameSlice DEF WordsAt
<1>8. /\ maxTotalLen(b) \in Nat /\ maxTotalLen(b) <= MaxBlockLength32(flag) + 2
      /\ MaxBlockLength32(flag) \in Nat
  <2>1. TRUE \in BOOLEAN
    OBVIOUS
  <2> QED BY <1>2, <1>4, <1>5, <2>1, AskedLength
<1>9. b.count = count
  <2>1. HeaderSays(b, count, LowerWords, flag, IntTypeUint64, TRUE)
    BY <1>2, <1>4, <1>5, PackedHeader, Zenon
  <2> QED BY <2>1 DEF HeaderSays
<1>10. ~Done'
  BY <1>1 DEF Done, Reading
<1>11. TypeOK'
  BY <1>1, <1>2, <1>3, <1>6, <1>9, SameSlice, InvFacts DEF Inv64, TypeOK
<1>12. CallInv'
  BY <1>1, <1>2, CallKept
<1>13. LayoutInv' /\ WordsInv'
  BY <1>1, <1>2, <1>7, <1>10, SameSlice DEF LayoutInv, WordsInv
<1>14. BlocksInv'
  <2>1. first' = LowerBlock'
    BY <1>1, <1>3, SameSlice DEF b
  <2> QED BY <1>1, <1>2, <1>10, <2>1 DEF BlocksInv
<1>15. CapacityTrusted'
  <2>1. CapacityTrusted' <=> reserve' <= 2 * MaxBlockLength32(flag) + 2
    BY <1>1 DEF CapacityTrusted, MaxBlockLength64, block2LenBytes
  <2> QED BY <1>6, <1>8, <2>1
<1> QED BY <1>11, <1>12, <1>13, <1>14, <1>15 DEF Inv64

(* Block 2 comes after block 1, and both find room. *)
LEMMA PackUpperInv ==
  ASSUME Inv64, PackUpper
  PROVE  Inv64'
<1>1. /\ pc = "packUpper" /\ pc' = "idle"
      /\ flag' = flag /\ values' = values /\ first' = first
      /\ min64' = min64 /\ stored' = stored /\ got' = got /\ calls' = calls
  BY DEF PackUpper, history
<1>2. /\ count \in 1 .. blockSize /\ count \in Nat \ {0} /\ values \in [0 .. count - 1 -> Word64]
      /\ IsPair /\ first = LowerBlock /\ WordsAt(uppers, count) = UpperWords
  BY <1>1, InvFacts DEF Inv64, LayoutInv, WordsInv, BlocksInv
<1>3. ~FitsFOR64(values)
  BY <1>2 DEF IsPair
<1> DEFINE b == UpperBlock
<1>4. /\ second' = b /\ block2Len' = b.len /\ len' = first.len + b.len
      /\ UsePackBlock(b, first.len, uppers, middle, pairSpace)
  BY <1>2 DEF PackUpper, UpperBlock
<1>5. LowerWords \in Slice(count) /\ UpperWords \in Slice(count)
  BY <1>2, WordsOfValues
<1>6. /\ b = PackedBlock(UpperWords, flag, IntTypeUint64, FALSE)
      /\ first = PackedBlock(LowerWords, flag, IntTypeUint64, TRUE)
      /\ FirstBlock = first /\ SecondBlock = b
  BY <1>2, <1>3 DEF UpperBlock, LowerBlock, FirstBlock, SecondBlock
<1> HIDE DEF b
<1>7. scratch' \in Slice(ScratchLen64) /\ reserve' = first.len + maxTotalLen(b)
  BY <1>4, PackMemory
<1>8. /\ maxTotalLen(b) \in Nat /\ maxTotalLen(b) <= MaxBlockLength32(flag) /\ b.len \in Nat
      /\ MaxBlockLength32(flag) \in Nat
  <2>1. FALSE \in BOOLEAN
    OBVIOUS
  <2> QED BY <1>2, <1>5, <1>6, <2>1, AskedLength
<1>9. first.len \in Nat /\ first.len <= MaxBlockLength32(flag) + 2
  <2>1. TRUE \in BOOLEAN
    OBVIOUS
  <2>2. /\ maxTotalLen(first) \in Nat /\ maxTotalLen(first) <= MaxBlockLength32(flag) + 2
        /\ first.len \in Nat /\ first.len <= maxTotalLen(first)
    BY <1>2, <1>5, <1>6, <2>1, AskedLength
  <2> QED BY <1>8, <2>2
<1>10. b.count = count
  <2>1. HeaderSays(b, count, UpperWords, flag, IntTypeUint64, FALSE)
    BY <1>2, <1>5, <1>6, PackedHeader, Zenon
  <2> QED BY <2>1 DEF HeaderSays
<1>11. first.count = count
  <2>1. HeaderSays(first, count, LowerWords, flag, IntTypeUint64, TRUE)
    BY <1>2, <1>5, <1>6, PackedHeader, Zenon
  <2> QED BY <2>1 DEF HeaderSays
<1>12. Done'
  BY <1>1, <1>2, <1>11 DEF Done
<1>13. TypeOK'
  BY <1>1, <1>2, <1>4, <1>7, <1>10, <1>11, SameSlice, InvFacts DEF Inv64, TypeOK
<1>14. CallInv'
  BY <1>1, <1>2, CallKept
<1>15. LayoutInv' /\ WordsInv'
  BY <1>1, <1>2, <1>3, <1>12, SameSlice DEF LayoutInv, WordsInv
<1>16. BlocksInv'
  <2>1. FirstBlock' = first /\ SecondBlock' = b
    BY <1>1, <1>6, SameSlice
  <2> QED BY <1>1, <1>4, <1>12, <2>1 DEF BlocksInv
<1>17. CapacityTrusted'
  <2>1. CapacityTrusted' <=> reserve' <= 2 * MaxBlockLength32(flag) + 2
    BY <1>1 DEF CapacityTrusted, MaxBlockLength64, block2LenBytes
  <2> QED BY <1>7, <1>8, <1>9, <2>1
<1> QED BY <1>13, <1>14, <1>15, <1>16, <1>17 DEF Inv64

-----------------------------------------------------------------------------
(* Reading. *)

(* What a reader of the buffer finds: the lower words, and behind them the *)
(* block of the upper ones, if there is one.                               *)
LEMMA BufferFacts ==
  ASSUME Inv64, Done
  PROVE  /\ count \in 1 .. blockSize /\ count \in Nat \ {0}
         /\ values \in [0 .. count - 1 -> Word64] /\ DOMAIN values = 0 .. count - 1
         /\ LowerWords \in Slice(count) /\ UpperWords \in Slice(count)
         /\ ReadAs(first, count, LowerWords, TRUE) /\ first.intType = IntTypeUint64
         /\ IsPair => first.combine = TRUE
         /\ ~IsPair => first.combine = FALSE
         /\ IsPair => /\ second = UpperBlock /\ block2Start = first.len
                      /\ BlockAt(block2Start, block2Len) = second
                      /\ ~(block2Start + block2Len > len)
         /\ ~IsPair => \A i \in 0 .. count - 1 : LowerWords[i] + for64Base = values[i]
<1>1. /\ count \in 1 .. blockSize /\ count \in Nat \ {0}
      /\ values \in [0 .. count - 1 -> Word64] /\ DOMAIN values = 0 .. count - 1
  BY InvFacts DEF Done, Reading
<1>2. /\ first = FirstBlock /\ second = SecondBlock
      /\ block2Len = second.len /\ len = first.len + second.len
      /\ FitsFOR64(values) => min64 = SliceMin(values)
  BY DEF Inv64, BlocksInv, LayoutInv
<1>3. /\ ReadAs(first, count, LowerWords, TRUE) /\ first.intType = IntTypeUint64
      /\ FitsFOR64(values) => isFor64SingleBlock(first) /\ first.base = SliceMin(values)
      /\ ~FitsFOR64(values) => ~isFor64SingleBlock(first)
      /\ IsPair => first.combine = TRUE
      /\ ~IsPair => first.combine = FALSE
  BY <1>1, <1>2, FirstReads
<1>4. LowerWords \in Slice(count) /\ UpperWords \in Slice(count)
  BY <1>1, WordsOfValues
<1>5. block2Start = first.len /\ first.len \in Nat
  BY <1>3 DEF ReadAs, block2Start
<1>6. ASSUME IsPair
      PROVE  /\ second = UpperBlock
             /\ BlockAt(block2Start, block2Len) = second
             /\ ~(block2Start + block2Len > len)
  <2>1. second = UpperBlock
    BY <1>2, <1>6 DEF SecondBlock
  <2>2. second.len \in Nat /\ [second EXCEPT !.len = second.len] = second
    BY <1>1, <2>1, UpperReads
  <2>3. BlockAt(block2Start, block2Len) = second
    BY <1>2, <1>5, <2>2 DEF BlockAt
  <2>4. block2Start + block2Len = len /\ len \in Nat
    BY <1>2, <1>5, <2>2
  <2> QED BY <2>1, <2>3, <2>4
<1>7. ASSUME ~IsPair
      PROVE  \A i \in 0 .. count - 1 : LowerWords[i] + for64Base = values[i]
  <2>1. CASE FitsFOR64(values)
    <3>1. for64Base = SliceMin(values)
      BY <1>3, <2>1 DEF for64Base
    <3> QED BY <1>1, <2>1, <3>1, WordsOfValues
  <2>2. CASE ~FitsFOR64(values)
    <3>1. for64Base = 0
      BY <1>3, <2>2 DEF for64Base
    <3>2. \A i \in 0 .. count - 1 : LowerWords[i] = values[i] /\ values[i] \in Nat
      BY <1>1, <1>7, <2>2, WordsOfValues, Dimensions64
    <3> QED BY <3>1, <3>2
  <2> QED BY <2>1, <2>2
<1> QED BY <1>1, <1>3, <1>4, <1>5, <1>6, <1>7

(* A step of reading changes neither the slice nor the blocks.             *)
LEMMA ReadStep ==
  ASSUME Inv64, Done, packing' = packing, history' = history,
         pc' \in Reading \cup {"idle"},
         scratch' \in Slice(ScratchLen64), got' \in Word,
         pc' \in {"unpackUpper", "combine", "getUpper"} => IsPair,
         pc' = "addBase" => ~IsPair,
         WordsInv'
  PROVE  Inv64'
<1>1. /\ flag' = flag /\ values' = values /\ min64' = min64
      /\ first' = first /\ second' = second /\ block2Len' = block2Len /\ len' = len
      /\ stored' = stored /\ reserve' = reserve /\ calls' = calls
  BY DEF packing, packed, history
<1>2. first.count = count /\ count \in Nat \ {0}
  BY BufferFacts DEF ReadAs
<1>3. Done'
  BY <1>1, <1>2 DEF Done
<1>4. TypeOK'
  BY <1>1, SameSlice DEF Inv64, TypeOK, Reading
<1>5. CallInv'
  BY <1>1, <1>2, CallKept
<1>6. LayoutInv'
  <2>1. FitsFOR64(values) => min64 = SliceMin(values)
    BY DEF Inv64, LayoutInv
  <2> QED BY <1>1, <1>3, <2>1, SameSlice DEF LayoutInv, Reading
<1>7. BlocksInv'
  BY <1>1, <1>3, SameSlice DEF Inv64, BlocksInv, Reading
<1>8. CapacityTrusted'
  BY <1>1 DEF Inv64, CapacityTrusted
<1> QED BY <1>4, <1>5, <1>6, <1>7, <1>8 DEF Inv64

(* Reading begins with a finished block. *)
LEMMA DecompressInv ==
  ASSUME Inv64, Decompress
  PROVE  Inv64' /\ UNCHANGED <<stored, res>>
<1>1. /\ pc = "idle" /\ first.count > 0 /\ pc' = "unpackLower"
      /\ packing' = packing /\ history' = history /\ scratch' = scratch /\ got' = got
      /\ res' = res
  BY DEF Decompress
<1>2. Done
  BY <1>1 DEF Done
<1>3. WordsInv'
  BY <1>1 DEF WordsInv
<1>4. Inv64'
  BY <1>1, <1>2, <1>3, InvFacts, ReadStep DEF Reading
<1> QED BY <1>1, <1>4 DEF history

(* Block 1 is unpacked without an error, to the first region. *)
LEMMA UnpackLowerInv ==
  ASSUME Inv64, UnpackLower
  PROVE  Inv64' /\ UNCHANGED <<stored, res>>
<1>1. /\ pc = "unpackLower" /\ packing' = packing /\ history' = history /\ got' = got
  BY DEF UnpackLower
<1>2. Done
  BY <1>1 DEF Done, Reading
<1>3. /\ count \in 0 .. blockSize /\ LowerWords \in Slice(count)
      /\ ReadAs(first, count, LowerWords, TRUE)
      /\ IsPair => first.combine = TRUE
      /\ ~IsPair => first.combine = FALSE
  BY <1>2, InvFacts, BufferFacts
<1> DEFINE r == UnpackedBlock(first, TRUE)
<1>4. r = Ok(LowerWords) /\ first.excCount \in 0 .. count
  BY <1>3 DEF ReadAs
<1>5. r.err = "none" /\ r.vals = LowerWords
  <2> HIDE DEF r
  <2> QED BY <1>4 DEF Ok
<1>6. /\ scratch' \in Unpacked(lowers, LowerWords, uppers, first.excCount)
      /\ pc' = (IF first.combine THEN "unpackUpper" ELSE "addBase") /\ res' = res
  <2>1. IF r.err # "none" THEN Fail(r.err)
        ELSE /\ scratch' \in Unpacked(lowers, r.vals, uppers, first.excCount)
             /\ pc' = IF first.combine THEN "unpackUpper" ELSE "addBase"
             /\ UNCHANGED res
    BY DEF UnpackLower
  <2> HIDE DEF r
  <2> QED BY <1>5, <2>1
<1>7. /\ scratch' \in Slice(ScratchLen64)
      /\ [i \in 0 .. count - 1 |-> scratch'[lowers + i]] = LowerWords
  BY <1>3, <1>4, <1>6, InvFacts, UnpackedFacts
<1>8. /\ flag' = flag /\ values' = values
  BY <1>1 DEF packing
<1>9. WordsAt(lowers, count)' = LowerWords'
  BY <1>7, <1>8, SameSlice DEF WordsAt
<1>10. \/ pc' = "unpackUpper" /\ IsPair
       \/ pc' = "addBase" /\ ~IsPair
  BY <1>3, <1>6
<1>11. WordsInv'
  BY <1>9, <1>10 DEF WordsInv
<1>12. Inv64'
  BY <1>1, <1>2, <1>7, <1>10, <1>11, InvFacts, ReadStep DEF Reading
<1> QED BY <1>1, <1>6, <1>12 DEF history

(* A single block gives the caller's values back. *)
LEMMA AddBaseInv ==
  ASSUME Inv64, AddBase
  PROVE  Inv64' /\ stored' = stored /\ res' = Ok(stored)
<1>1. /\ pc = "addBase" /\ packing' = packing /\ history' = history /\ got' = got
      /\ scratch' = scratch /\ pc' = "idle"
  BY DEF AddBase
<1>2. Done
  BY <1>1 DEF Done, Reading
<1>3. ~IsPair /\ WordsAt(lowers, count) = LowerWords /\ values = stored
  BY <1>1 DEF Inv64, LayoutInv, WordsInv, CallInv
<1>4. /\ first.count = count /\ values \in [0 .. count - 1 -> Word64]
      /\ \A i \in 0 .. count - 1 : LowerWords[i] + for64Base = values[i]
  BY <1>2, <1>3, BufferFacts DEF ReadAs
<1>5. \A i \in 0 .. count - 1 : scratch[lowers + i] = LowerWords[i]
  BY <1>3 DEF WordsAt
<1>6. [i \in 0 .. first.count - 1 |-> scratch[lowers + i] + for64Base] = values
  BY <1>4, <1>5
<1>7. WordsInv'
  BY <1>1 DEF WordsInv
<1>8. Inv64'
  BY <1>1, <1>2, <1>7, InvFacts, ReadStep
<1> QED BY <1>1, <1>3, <1>6, <1>8 DEF AddBase, history

(* Block 2 is unpacked to the second region, behind the lower words,       *)
(* unless readers are mistaken about its base.                             *)
LEMMA UnpackUpperInv ==
  ASSUME Inv64, UnpackUpper
  PROVE  /\ Inv64' /\ stored' = stored
         /\ UpperBaseShort => res' = res
<1>1. /\ pc = "unpackUpper" /\ packing' = packing /\ history' = history /\ got' = got
  BY DEF UnpackUpper
<1>2. Done
  BY <1>1 DEF Done, Reading
<1>3. IsPair /\ WordsAt(lowers, count) = LowerWords
  BY <1>1 DEF Inv64, LayoutInv, WordsInv
<1>4. /\ count \in 0 .. blockSize /\ count \in 1 .. blockSize /\ UpperWords \in Slice(count)
      /\ values \in [0 .. count - 1 -> Word64] /\ first.count = count
      /\ second = UpperBlock /\ ~(block2Start + block2Len > len)
      /\ BlockAt(block2Start, block2Len) = second
  BY <1>2, <1>3, InvFacts, BufferFacts DEF ReadAs
<1> DEFINE r == UnpackedBlock(second, TRUE)
<1>5. \/ r.err # "none" /\ Fail(r.err)
      \/ /\ r.err = "none"
         /\ second.count # first.count
         /\ Fail("ErrInvalidBuffer")
      \/ /\ r.err = "none"
         /\ scratch' \in Unpacked(middle, r.vals, uppers, second.excCount)
         /\ pc' = "combine" /\ res' = res
  <2>1. IF r.err # "none" THEN Fail(r.err)
        ELSE IF second.count # first.count THEN Fail("ErrInvalidBuffer")
        ELSE /\ scratch' \in Unpacked(middle, r.vals, uppers, second.excCount)
             /\ pc' = "combine"
             /\ UNCHANGED res
    BY <1>4 DEF UnpackUpper
  <2> HIDE DEF r
  <2> QED BY <2>1
<1>6. /\ second.count = count /\ second.excCount \in 0 .. count
      /\ second.forWidth # forWidthU32 => ReadAs(second, count, UpperWords, TRUE)
      /\ second.forWidth = forWidthU32 => headerError(second, TRUE) # "none"
  BY <1>4, UpperReads
<1>7. ASSUME second.forWidth # forWidthU32 PROVE r.err = "none" /\ r.vals = UpperWords
  <2>1. r = Ok(UpperWords)
    BY <1>6, <1>7 DEF ReadAs
  <2> HIDE DEF r
  <2> QED BY <2>1 DEF Ok
<1>8. ASSUME second.forWidth = forWidthU32 PROVE r.err # "none"
  <2> DEFINE h == headerError(second, TRUE)
  <2>1. h # "none" /\ r = Error(h)
    BY <1>6, <1>8 DEF UnpackedBlock
  <2> HIDE DEF h, r
  <2> QED BY <2>1 DEF Error
<1> HIDE DEF r
<1>9. CASE r.err # "none" /\ Fail(r.err)
  <2>1. pc' = "idle" /\ scratch' = scratch /\ ~UpperBaseShort
    BY <1>7, <1>9 DEF Fail, UpperBaseShort
  <2>2. WordsInv'
    BY <2>1 DEF WordsInv
  <2>3. Inv64'
    BY <1>1, <1>2, <2>1, <2>2, InvFacts, ReadStep
  <2> QED BY <1>1, <2>1, <2>3 DEF history
<1>10. CASE /\ r.err = "none"
            /\ scratch' \in Unpacked(middle, r.vals, uppers, second.excCount)
            /\ pc' = "combine" /\ res' = res
  <2>1. r.vals = UpperWords
    BY <1>7, <1>8, <1>10
  <2>2. middle \in {lowers, middle}
    OBVIOUS
  <2>3. /\ scratch' \in Slice(ScratchLen64)
        /\ [i \in 0 .. count - 1 |-> scratch'[middle + i]] = UpperWords
        /\ [i \in 0 .. count - 1 |-> scratch'[lowers + i]] = WordsAt(lowers, count)
    BY <1>4, <1>6, <1>10, <2>1, <2>2, InvFacts, UnpackedFacts
  <2>4. flag' = flag /\ values' = values
    BY <1>1 DEF packing
  <2>5. WordsAt(lowers, count)' = LowerWords' /\ WordsAt(middle, count)' = UpperWords'
    BY <1>3, <2>3, <2>4, SameSlice DEF WordsAt
  <2>6. WordsInv'
    BY <1>10, <2>5 DEF WordsInv
  <2>7. Inv64'
    BY <1>1, <1>2, <1>3, <1>10, <2>3, <2>6, InvFacts, ReadStep DEF Reading
  <2> QED BY <1>1, <1>10, <2>7 DEF history
<1> QED BY <1>4, <1>5, <1>6, <1>9, <1>10

(* The words of both regions give the caller's values back. *)
LEMMA CombineInv ==
  ASSUME Inv64, Combine
  PROVE  Inv64' /\ stored' = stored /\ res' = Ok(stored)
<1>1. /\ pc = "combine" /\ packing' = packing /\ history' = history /\ got' = got
      /\ scratch' = scratch /\ pc' = "idle"
  BY DEF Combine
<1>2. Done
  BY <1>1 DEF Done, Reading
<1>3. /\ IsPair /\ WordsAt(lowers, count) = LowerWords /\ WordsAt(middle, count) = UpperWords
      /\ values = stored
  BY <1>1 DEF Inv64, LayoutInv, WordsInv, CallInv
<1>4. /\ first.count = count /\ values \in [0 .. count - 1 -> Word64] /\ count \in Nat \ {0}
  BY <1>2, BufferFacts DEF ReadAs
<1>5. \A i \in 0 .. count - 1 : UpperWords[i] * Modulus + LowerWords[i] = values[i]
  BY <1>3, <1>4, WordsOfValues
<1>6. \A i \in 0 .. count - 1 :
        scratch[lowers + i] = LowerWords[i] /\ scratch[middle + i] = UpperWords[i]
  BY <1>3 DEF WordsAt
<1>7. [i \in 0 .. first.count - 1 |-> scratch[middle + i] * Modulus + scratch[lowers + i]] = values
  <2>1. \A i \in 0 .. count - 1 : scratch[middle + i] * Modulus + scratch[lowers + i] = values[i]
    BY <1>5, <1>6
  <2> QED BY <1>4, <2>1
<1>8. WordsInv'
  BY <1>1 DEF WordsInv
<1>9. Inv64'
  BY <1>1, <1>2, <1>8, InvFacts, ReadStep
<1> QED BY <1>1, <1>3, <1>7, <1>9 DEF Combine, history

(* Looking a word up in a block that readers accept gives all of its words *)
(* for a position in it, and an error for any other one.                   *)
LEMMA GetWordFacts ==
  ASSUME NEW n \in Nat, NEW s, NEW b, ReadAs(b, n, s, TRUE), NEW pos \in Int
  PROVE  /\ pos \in 0 .. n - 1 => GetWord(b, pos) = Ok(s)
         /\ pos \notin 0 .. n - 1 => GetWord(b, pos) = Error("ErrPositionOutOfRange")
<1> DEFINE e == getError(b, pos, TRUE)
<1> DEFINE u == UnpackedBlock(b, TRUE)
<1>1. /\ e = IF pos \in 0 .. n - 1 THEN "none" ELSE "ErrPositionOutOfRange"
      /\ u = Ok(s) /\ DecodedWords(b) = s
  BY DEF ReadAs
<1>2. GetWord(b, pos) = IF e # "none" THEN Error(e) ELSE IF b.delta THEN u ELSE Ok(DecodedWords(b))
  BY DEF GetWord
<1> HIDE DEF e, u
<1> QED BY <1>1, <1>2

(* A look-up leaves words in scratch. *)
LEMMA GetMemory ==
  ASSUME Inv64, Done, NEW b, NEW s \in Slice(count), ReadAs(b, count, s, TRUE), UseScratch(b)
  PROVE  scratch' \in Slice(ScratchLen64)
<1>1. /\ scratch \in Slice(ScratchLen64) /\ count \in 0 .. blockSize
      /\ b.excCount \in 0 .. count /\ DecodedWords(b) = s
  BY InvFacts DEF ReadAs
<1>2. lowers \in {lowers, middle}
  OBVIOUS
<1>3. scratch' = scratch \/ scratch' \in Unpacked(lowers, s, uppers, b.excCount)
  BY <1>1 DEF UseScratch
<1> QED BY <1>1, <1>2, <1>3, UnpackedFacts

(* A Get takes its lower word from block 1, and is done if there is no     *)
(* other block.                                                            *)
LEMMA GetLowerInv ==
  ASSUME Inv64, NEW pos \in Positions, GetLower(pos)
  PROVE  /\ Inv64' /\ stored' = stored /\ DOMAIN stored = 0 .. count - 1 /\ count > 0
         /\ pos \notin 0 .. count - 1 => res' = Error("ErrPositionOutOfRange")
         /\ pos \in 0 .. count - 1 =>
              res' = IF IsPair THEN res ELSE Ok([i \in {pos} |-> stored[i]])
<1>1. /\ pc = "idle" /\ first.count > 0 /\ packing' = packing /\ history' = history
      /\ asked' = pos
  BY DEF GetLower
<1>2. Done
  BY <1>1 DEF Done
<1>3. /\ count \in Nat \ {0} /\ LowerWords \in Slice(count) /\ DOMAIN values = 0 .. count - 1
      /\ ReadAs(first, count, LowerWords, TRUE)
      /\ IsPair => first.combine = TRUE
      /\ ~IsPair => first.combine = FALSE
      /\ ~IsPair => \A i \in 0 .. count - 1 : LowerWords[i] + for64Base = values[i]
      /\ values = stored
  BY <1>2, BufferFacts DEF Inv64, CallInv
<1> DEFINE r == GetWord(first, pos)
<1>4. IF r.err # "none" THEN Fail(r.err) /\ UNCHANGED got
      ELSE /\ UseScratch(first)
           /\ IF first.combine
              THEN pc' = "getUpper" /\ got' = r.vals[pos] /\ UNCHANGED res
              ELSE /\ res' = Ok([i \in {pos} |-> r.vals[pos] + for64Base])
                   /\ UNCHANGED <<pc, got>>
  BY DEF GetLower
<1>5. pos \in Int
  BY Caller64Assumption
<1>6. /\ pos \in 0 .. count - 1 => r = Ok(LowerWords)
      /\ pos \notin 0 .. count - 1 => r = Error("ErrPositionOutOfRange")
  BY <1>3, <1>5, GetWordFacts
<1> HIDE DEF r
<1>7. CASE pos \notin 0 .. count - 1
  <2>1. r.err = "ErrPositionOutOfRange"
    BY <1>6, <1>7 DEF Error
  <2>2. pc' = "idle" /\ scratch' = scratch /\ got' = got /\ res' = Error("ErrPositionOutOfRange")
    BY <1>4, <2>1 DEF Fail
  <2>3. WordsInv'
    BY <2>2 DEF WordsInv
  <2>4. Inv64'
    BY <1>1, <1>2, <2>2, <2>3, InvFacts, ReadStep
  <2> QED BY <1>1, <1>3, <1>7, <2>2, <2>4 DEF history
<1>8. CASE pos \in 0 .. count - 1
  <2>1. r.err = "none" /\ r.vals = LowerWords
    BY <1>6, <1>8 DEF Ok
  <2>2. scratch' \in Slice(ScratchLen64)
    <3>1. UseScratch(first)
      BY <1>4, <2>1
    <3> QED BY <1>2, <1>3, <3>1, GetMemory
  <2>3. LowerWords[pos] \in Word
    BY <1>3, <1>8 DEF Slice
  <2>4. CASE IsPair
    <3>1. pc' = "getUpper" /\ got' = LowerWords[pos] /\ res' = res
      BY <1>3, <1>4, <2>1, <2>4
    <3>2. flag' = flag /\ values' = values
      BY <1>1 DEF packing
    <3>3. WordsInv'
      BY <1>1, <1>3, <1>8, <3>1, <3>2, SameSlice DEF WordsInv
    <3>4. Inv64'
      BY <1>1, <1>2, <2>2, <2>3, <2>4, <3>1, <3>3, ReadStep DEF Reading
    <3> QED BY <1>1, <1>3, <1>8, <2>4, <3>1, <3>4 DEF history
  <2>5. CASE ~IsPair
    <3>1. pc' = "idle" /\ got' = got /\ res' = Ok([i \in {pos} |-> LowerWords[pos] + for64Base])
      BY <1>1, <1>3, <1>4, <2>1, <2>5
    <3>2. [i \in {pos} |-> LowerWords[pos] + for64Base] = [i \in {pos} |-> stored[i]]
      BY <1>3, <1>8, <2>5
    <3>3. WordsInv'
      BY <3>1 DEF WordsInv
    <3>4. Inv64'
      BY <1>1, <1>2, <2>2, <3>1, <3>3, InvFacts, ReadStep
    <3> QED BY <1>1, <1>3, <1>8, <2>5, <3>1, <3>2, <3>4 DEF history
  <2> QED BY <2>4, <2>5
<1> QED BY <1>7, <1>8

(* ... and its upper word from block 2, unless readers are mistaken about  *)
(* that.                                                                   *)
LEMMA GetUpperInv ==
  ASSUME Inv64, GetUpper
  PROVE  /\ Inv64' /\ stored' = stored /\ asked \in Positions /\ asked \in DOMAIN stored
         /\ UpperBaseShort => res' = Ok([i \in {asked} |-> stored[i]])
<1>1. pc = "getUpper" /\ packing' = packing /\ history' = history /\ got' = got
  BY DEF GetUpper
<1>2. Done
  BY <1>1 DEF Done, Reading
<1>3. /\ IsPair /\ asked \in Positions /\ asked \in DOMAIN values /\ got = LowerWords[asked]
      /\ values = stored
  BY <1>1 DEF Inv64, LayoutInv, WordsInv, CallInv
<1>4. /\ count \in 1 .. blockSize /\ count \in Nat \ {0} /\ UpperWords \in Slice(count)
      /\ values \in [0 .. count - 1 -> Word64] /\ DOMAIN values = 0 .. count - 1
      /\ second = UpperBlock /\ ~(block2Start + block2Len > len)
      /\ BlockAt(block2Start, block2Len) = second
  BY <1>2, <1>3, BufferFacts
<1> DEFINE r == GetWord(second, asked)
<1> DEFINE e == getError(second, asked, TRUE)
<1>5. IF r.err # "none" THEN Fail(r.err)
      ELSE /\ UseScratch(second)
           /\ res' = Ok([i \in {asked} |-> r.vals[asked] * Modulus + got])
           /\ pc' = "idle"
  BY <1>4 DEF GetUpper
<1>6. /\ second.forWidth # forWidthU32 => ReadAs(second, count, UpperWords, TRUE)
      /\ second.forWidth = forWidthU32 => e # "none"
  BY <1>4, UpperReads
<1>7. asked \in Int /\ asked \in 0 .. count - 1
  BY <1>3, <1>4, Caller64Assumption
<1>8. CASE second.forWidth # forWidthU32
  <2>1. r = Ok(UpperWords)
    BY <1>4, <1>6, <1>7, <1>8, GetWordFacts
  <2> HIDE DEF r
  <2>2. r.err = "none" /\ r.vals = UpperWords
    BY <2>1 DEF Ok
  <2>3. UseScratch(second) /\ pc' = "idle"
        /\ res' = Ok([i \in {asked} |-> UpperWords[asked] * Modulus + got])
    BY <1>5, <2>2
  <2>4. scratch' \in Slice(ScratchLen64)
    BY <1>2, <1>4, <1>6, <1>8, <2>3, GetMemory
  <2>5. UpperWords[asked] * Modulus + got = values[asked]
    BY <1>3, <1>4, <1>7, WordsOfValues
  <2>6. [i \in {asked} |-> UpperWords[asked] * Modulus + got] = [i \in {asked} |-> stored[i]]
    BY <1>3, <2>5
  <2>7. WordsInv'
    BY <2>3 DEF WordsInv
  <2>8. Inv64'
    BY <1>1, <1>2, <2>3, <2>4, <2>7, InvFacts, ReadStep
  <2> QED BY <1>1, <1>3, <2>3, <2>6, <2>8 DEF history
<1>9. CASE second.forWidth = forWidthU32
  <2>1. r = Error(e) /\ e # "none"
    BY <1>6, <1>9 DEF GetWord
  <2> HIDE DEF r, e
  <2>2. pc' = "idle" /\ scratch' = scratch
    BY <1>5, <2>1 DEF Fail, Error
  <2>3. WordsInv'
    BY <2>2 DEF WordsInv
  <2>4. Inv64'
    BY <1>1, <1>2, <2>2, <2>3, InvFacts, ReadStep
  <2> QED BY <1>1, <1>3, <1>9, <2>4 DEF history, UpperBaseShort
<1> QED BY <1>8, <1>9

-----------------------------------------------------------------------------
(* Theorems. *)

(* Every step of the compressor and of its caller keeps the invariant.     *)
LEMMA NextInv64 == Inv64 /\ [Next]_vars => Inv64'
<1> SUFFICES ASSUME Inv64, [Next]_vars PROVE Inv64'
  OBVIOUS
<1>1. ASSUME NEW v \in Inputs, NEW f \in FlagSets, Compress(v, f) PROVE Inv64'
  BY <1>1, CompressInv
<1>2. ASSUME NEW v \in Inputs, RejectLength(v) PROVE Inv64'
  BY <1>2, ReplyInv DEF RejectLength
<1>3. CASE Decompress
  BY <1>3, DecompressInv
<1>4. ASSUME NEW pos \in Positions, GetLower(pos) PROVE Inv64'
  BY <1>4, GetLowerInv
<1>5. CASE Pack
  BY <1>5, SubtractMin64Inv, NarrowInv, SplitInv, PackFor64Inv, WrapFor64Inv,
     PackNarrowInv, PackLowerInv, PackUpperInv DEF Pack
<1>6. CASE Unpack
  BY <1>6, UnpackLowerInv, AddBaseInv, UnpackUpperInv, CombineInv, GetUpperInv DEF Unpack
<1>7. CASE UNCHANGED vars
  BY <1>7, ReplyInv DEF vars
<1> QED BY <1>1, <1>2, <1>3, <1>4, <1>5, <1>6, <1>7 DEF Next, Call

(* The invariant holds: in every layout the regions of scratch hold the    *)
(* words that the next phase takes from them, the blocks in the buffer     *)
(* depend on the slice and the flags alone.                                *)
THEOREM Invariance64 == Spec => []Inv64
<1> QED BY InitInv64, NextInv64, PTL DEF Spec

(* Every variable keeps its type.                                          *)
THEOREM TypeCorrect64 == Spec => []TypeOK
<1>1. Inv64 => TypeOK
  BY DEF Inv64
<1> QED BY <1>1, Invariance64, PTL

(* The bytes that packUint64* reserve once at their start are enough for   *)
(* the packs of every layout.                                              *)
THEOREM CapacitySuffices64 == Spec => []CapacityTrusted
<1>1. Inv64 => CapacityTrusted
  BY DEF Inv64
<1> QED BY <1>1, Invariance64, PTL

-----------------------------------------------------------------------------
(* The base of the upper words. *)

(* In a call the slice and the flags are those of some caller.             *)
LEMMA CallerKept == Inv64 /\ CallerInv /\ [Next]_vars => CallerInv'
<1> SUFFICES ASSUME Inv64, CallerInv, [Next]_vars PROVE CallerInv'
  OBVIOUS
<1>1. ASSUME NEW v \in Inputs, NEW f \in FlagSets, Compress(v, f) PROVE CallerInv'
  BY <1>1 DEF Compress, CallerInv
<1>2. ASSUME values' = values, flag' = flag,
             (pc # "idle" \/ first.count > 0) \/ (pc' = pc /\ first' = first)
      PROVE  CallerInv'
  BY <1>2 DEF CallerInv
<1>3. ASSUME NEW v \in Inputs, RejectLength(v) PROVE CallerInv'
  BY <1>2, <1>3 DEF RejectLength, packing, packed
<1>4. CASE Decompress \/ \E pos \in Positions : GetLower(pos)
  BY <1>2, <1>4 DEF Decompress, GetLower, packing
<1>5. CASE Pack
  BY <1>2, <1>5 DEF Pack, SubtractMin64, Narrow, Split, PackFor64, WrapFor64, PackNarrow,
                    PackLower, PackUpper, packing
<1>6. CASE Unpack
  BY <1>2, <1>6 DEF Unpack, UnpackLower, AddBase, UnpackUpper, Combine, GetUpper, packing
<1>7. CASE UNCHANGED vars
  BY <1>2, <1>7 DEF vars, packing, packed
<1> QED BY <1>1, <1>3, <1>4, <1>5, <1>6, <1>7 DEF Next, Call

(* A short upper word in every slice keeps the base of block 2 short.      *)
LEMMA ShortUppersSuffice ==
  ASSUME ShortUppers, Inv64, CallerInv
  PROVE  UpperBaseShort
<1> USE DEF forWidthNone, forWidthU8, forWidthU16, forWidthU32
<1>1. CASE second = NoBlock
  BY <1>1 DEF UpperBaseShort, NoBlock
<1>2. CASE second # NoBlock
  <2>1. Done /\ IsPair
    BY <1>2 DEF Inv64, BlocksInv, SecondBlock
  <2>2. second = UpperBlock /\ values \in Inputs /\ (pc # "idle" \/ first.count > 0)
    BY <2>1, BufferFacts DEF CallerInv, Done, Reading
  <2>3. /\ count \in 1 .. blockSize /\ count \in Nat \ {0} /\ DOMAIN values = 0 .. count - 1
        /\ values \in [0 .. count - 1 -> Word64] /\ UpperWords \in Slice(count)
    BY <2>1, BufferFacts
  <2> DEFINE v == FORBase(UpperWords, flag)
  <2>4. second.forWidth = selectFORWidth(v)
    <3> DEFINE b == second
    <3>1. b = PackedBlock(UpperWords, flag, IntTypeUint64, FALSE)
      BY <2>2 DEF UpperBlock
    <3> HIDE DEF b, v
    <3>2. HeaderSays(b, count, UpperWords, flag, IntTypeUint64, FALSE)
      BY <2>3, <3>1, PackedHeader, Zenon
    <3> QED BY <3>2 DEF HeaderSays, b, v
  <2>5. v \in Nat /\ v < 2 ^ (2 * ByteBits)
    <3>1. v \in Word /\ ("NoFOR" \in flag => v = 0) /\ \A i \in DOMAIN UpperWords : v <= UpperWords[i]
      BY <2>3, BaseFacts
    <3>2. 2 ^ (2 * ByteBits) \in Nat /\ 2 ^ (2 * ByteBits) > 0 /\ v \in Nat
      <4>1. 2 * ByteBits \in 0 .. WordBits
        BY Dimensions DEF ByteBits, WordBits
      <4> QED BY <3>1, <4>1, PowerAssumption, Dimensions DEF Word
    <3>3. CASE "NoFOR" \in flag
      BY <3>1, <3>2, <3>3
    <3>4. CASE "NoFOR" \notin flag
      <4>1. ~(SliceMin(values) > 0 /\ SliceMax(values) - SliceMin(values) < Modulus)
        BY <2>1, <3>4 DEF IsPair, FitsFOR64
      <4>2. PICK f \in FlagSets : flag = EffectiveFlag(f) \ {"Append"}
        BY <2>2 DEF CallerInv
      <4>3. "NoFOR" \notin f
        BY <3>4, <4>2 DEF EffectiveFlag
      <4>4. validLength(values)
        BY <2>3, Dimensions64 DEF validLength, count
      <4>5. PICK i \in DOMAIN values : upperHalf(values[i]) < 2 ^ (2 * ByteBits)
        BY <2>2, <4>1, <4>3, <4>4 DEF ShortUppers
      <4>6. UpperWords[i] = upperHalf(values[i]) /\ i \in DOMAIN UpperWords
        BY DEF UpperWords
      <4>7. v <= UpperWords[i] /\ UpperWords[i] \in Nat
        BY <2>3, <3>1, <4>6, SliceFacts
      <4> QED BY <3>2, <4>5, <4>6, <4>7
    <3> QED BY <3>3, <3>4
  <2> HIDE DEF v
  <2> QED BY <2>4, <2>5 DEF selectFORWidth, UpperBaseShort
<1> QED BY <1>1, <1>2

-----------------------------------------------------------------------------
(* Where the blocks lie. *)

(* Readers find both payloads where the packs put them, and the end of the *)
(* pair.                                                                   *)
LEMMA LayoutFollows ==
  ASSUME Inv64, UpperBaseShort
  PROVE  LayoutAgrees64
<1> SUFFICES ASSUME pc = "idle", first.count > 0
             PROVE  /\ BlockLength(first) + (IF first.combine THEN block2Len ELSE 0) = len
                    /\ first.pOff = readOffset(first, TRUE)
                    /\ first.combine => second.pOff = readOffset(second, TRUE)
  BY DEF LayoutAgrees64
<1>1. Done
  BY DEF Done
<1>2. /\ count \in 1 .. blockSize /\ values \in [0 .. count - 1 -> Word64]
      /\ ReadAs(first, count, LowerWords, TRUE) /\ first.intType = IntTypeUint64
      /\ IsPair => first.combine = TRUE /\ second = UpperBlock
      /\ ~IsPair => first.combine = FALSE
  BY <1>1, BufferFacts
<1>3. /\ first.pOff = readOffset(first, TRUE) /\ first.len = readEnd(first, TRUE)
      /\ first.len \in Nat
  BY <1>2 DEF ReadAs
<1>4. BlockLength(first) = first.len
  <2>1. (first.intType = IntTypeUint64) = TRUE
    BY <1>2
  <2>2. BlockLength(first) = readEnd(first, TRUE)
    BY <2>1, Zenon DEF BlockLength
  <2> QED BY <1>3, <2>2
<1>5. block2Len = second.len /\ len = first.len + second.len
  BY <1>1 DEF Inv64, BlocksInv
<1>6. CASE IsPair
  <2>1. ReadAs(second, count, UpperWords, TRUE)
    BY <1>2, <1>6, UpperReads DEF UpperBaseShort
  <2>2. second.pOff = readOffset(second, TRUE)
    BY <2>1 DEF ReadAs
  <2> QED BY <1>2, <1>3, <1>4, <1>5, <1>6, <2>2
<1>7. CASE ~IsPair
  <2>1. second.len = 0
    BY <1>1, <1>7 DEF Inv64, BlocksInv, SecondBlock, NoBlock
  <2> QED BY <1>2, <1>3, <1>4, <1>5, <1>7, <2>1
<1> QED BY <1>6, <1>7

-----------------------------------------------------------------------------
(* The lossless store. *)

(* The store's test of a slice is Compress's test of its length: not       *)
(* empty, and no longer than a block.                                      *)
LEMMA AcceptableLength ==
  ASSUME NEW v \in Inputs
  PROVE  Store64!Acceptable(v) <=> validLength(v)
<1> DEFINE n == SliceLen(v)
<1>1. n \in Nat /\ DOMAIN v = 0 .. n - 1
  BY Caller64Assumption
<1> HIDE DEF n
<1>2. blockSize \in Nat /\ blockSize > 0
  BY Dimensions
<1>3. CASE n = 0
  BY <1>1, <1>3 DEF Store64!Acceptable, validLength, n
<1>4. CASE n # 0 /\ n <= blockSize
  <2>1. 0 \in DOMAIN v /\ \A i \in DOMAIN v : i < blockSize
    BY <1>1, <1>2, <1>4
  <2> QED BY <1>4, <2>1 DEF Store64!Acceptable, validLength, n
<1>5. CASE n > blockSize
  <2>1. blockSize \in DOMAIN v /\ ~(blockSize < blockSize)
    BY <1>1, <1>2, <1>5
  <2>2. ~(n <= blockSize)
    BY <1>1, <1>2, <1>5
  <2> QED BY <2>1, <2>2 DEF Store64!Acceptable, validLength, n
<1> QED BY <1>1, <1>2, <1>3, <1>4, <1>5

(* Initially nothing is stored and nothing has been returned. *)
LEMMA InitSimulation64 == Init => Store64!Init
BY DEF Init, Store64!Init, NoValues, Ok, Store64!NoValues, Store64!Ok

(* There is something to read in a call that reads. *)
LEMMA StoreNotEmpty64 ==
  ASSUME Inv64, Done
  PROVE  DOMAIN stored = 0 .. count - 1 /\ DOMAIN stored # {}
<1>1. DOMAIN stored = 0 .. count - 1 /\ count \in Nat \ {0}
  BY BufferFacts DEF Inv64, CallInv
<1>2. 0 \in 0 .. count - 1
  BY <1>1
<1> QED BY <1>1, <1>2

(* A call of Compress changes the store, or is turned away by it.          *)
LEMMA CallSimulation ==
  ASSUME NEW v \in Inputs, (\E f \in FlagSets : Compress(v, f)) \/ RejectLength(v)
  PROVE  Store64!Next
<1>1. Store64!Compress(v)
  BY AcceptableLength
     DEF Compress, RejectLength, history, Store64!Compress, NoValues, Ok, Error,
         Store64!NoValues, Store64!Ok, Store64!Error
<1> QED BY <1>1 DEF Store64!Next

(* A Decompress that returns all values is one of the store. *)
LEMMA AllSimulation ==
  ASSUME Inv64, Done, res' = Ok(stored), stored' = stored
  PROVE  Store64!Next
<1>1. Store64!Decompress
  BY StoreNotEmpty64 DEF Store64!Decompress, Ok, Store64!Ok
<1> QED BY <1>1 DEF Store64!Next

(* A Get that returns the value at a position, or that there is none, is   *)
(* one of the store.                                                       *)
LEMMA ValueSimulation64 ==
  ASSUME Inv64, Done, stored' = stored, NEW pos \in Positions,
         res' = IF pos \in DOMAIN stored THEN Ok([i \in {pos} |-> stored[i]])
                                         ELSE Error("ErrPositionOutOfRange")
  PROVE  Store64!Next
<1>1. Store64!Get(pos)
  BY StoreNotEmpty64 DEF Store64!Get, Ok, Store64!Ok, Error, NoValues, Store64!Error,
                         Store64!NoValues
<1> QED BY <1>1 DEF Store64!Next

(* Every step of the compressor is a step of the store or changes nothing  *)
(* that the store shows.                                                   *)
LEMMA StepSimulation64 ==
  Inv64 /\ UpperBaseShort /\ [Next]_vars => [Store64!Next]_(Store64!vars)
<1> SUFFICES ASSUME Inv64, UpperBaseShort, [Next]_vars
             PROVE  Store64!Next \/ (stored' = stored /\ res' = res)
  BY DEF Store64!vars
<1>1. ASSUME NEW v \in Inputs, (\E f \in FlagSets : Compress(v, f)) \/ RejectLength(v)
      PROVE  Store64!Next
  BY <1>1, CallSimulation
<1>2. CASE Decompress
  BY <1>2 DEF Decompress, history
<1>3. ASSUME NEW pos \in Positions, GetLower(pos)
      PROVE  Store64!Next \/ (stored' = stored /\ res' = res)
  <2>1. Done
    BY <1>3 DEF GetLower, Done
  <2>2. /\ stored' = stored /\ DOMAIN stored = 0 .. count - 1
        /\ pos \notin 0 .. count - 1 => res' = Error("ErrPositionOutOfRange")
        /\ pos \in 0 .. count - 1 =>
             res' = IF IsPair THEN res ELSE Ok([i \in {pos} |-> stored[i]])
    BY <1>3, GetLowerInv
  <2>3. CASE pos \in 0 .. count - 1 /\ IsPair
    BY <2>2, <2>3
  <2>4. CASE ~(pos \in 0 .. count - 1 /\ IsPair)
    <3>1. res' = IF pos \in DOMAIN stored THEN Ok([i \in {pos} |-> stored[i]])
                                          ELSE Error("ErrPositionOutOfRange")
      BY <2>2, <2>4
    <3> QED BY <2>1, <2>2, <3>1, ValueSimulation64
  <2> QED BY <2>3, <2>4
<1>4. CASE Pack
  BY <1>4 DEF Pack, SubtractMin64, Narrow, Split, PackFor64, WrapFor64, PackNarrow,
              PackLower, PackUpper, history
<1>5. CASE UnpackLower
  BY <1>5, UnpackLowerInv
<1>6. CASE UnpackUpper
  BY <1>6, UnpackUpperInv
<1>7. CASE AddBase \/ Combine
  <2>1. Done
    BY <1>7 DEF AddBase, Combine, Done, Reading
  <2> QED BY <1>7, <2>1, AddBaseInv, CombineInv, AllSimulation
<1>8. CASE GetUpper
  <2>1. Done
    BY <1>8 DEF GetUpper, Done, Reading
  <2>2. /\ stored' = stored /\ asked \in Positions /\ asked \in DOMAIN stored
        /\ res' = Ok([i \in {asked} |-> stored[i]])
    BY <1>8, GetUpperInv
  <2> QED BY <2>1, <2>2, ValueSimulation64
<1>9. CASE UNCHANGED vars
  BY <1>9 DEF vars, history
<1> QED BY <1>1, <1>2, <1>3, <1>4, <1>5, <1>6, <1>7, <1>8, <1>9 DEF Next, Call, Unpack

-----------------------------------------------------------------------------
(* Theorems about callers whose pairs have no base of four bytes. *)

(* For such callers the base of block 2 always is a short one.             *)
THEOREM NeverMistaken ==
  ASSUME ShortUppers
  PROVE  Spec => []UpperBaseShort
<1>1. Init => CallerInv
  BY DEF Init, CallerInv, NoBlock
<1>2. Inv64 /\ CallerInv => UpperBaseShort
  BY ShortUppersSuffice
<1> QED BY <1>1, <1>2, CallerKept, Invariance64, PTL DEF Spec

(* A reader that skips blocks lands on the end of a single block and of a  *)
(* pair, and finds every payload from the header alone.                    *)
THEOREM ReadersFindBlocks64 ==
  ASSUME ShortUppers
  PROVE  Spec => []LayoutAgrees64
<1>1. Inv64 /\ UpperBaseShort => LayoutAgrees64
  BY LayoutFollows
<1> QED BY <1>1, Invariance64, NeverMistaken, PTL

(* Whatever layout a slice takes, Decompress returns the values of the     *)
(* last Compress and Get the one that is asked for; as long as readers     *)
(* are not mistaken about a base.                                          *)
THEOREM Implements64 == Spec /\ []UpperBaseShort => Lossless64
<1> QED BY Invariance64, InitSimulation64, StepSimulation64, PTL
        DEF Spec, Lossless64, Store64!Spec

(* They never are with callers whose upper words are short enough.         *)
THEOREM LosslessWhenShort ==
  ASSUME ShortUppers
  PROVE  Spec => Lossless64
BY Implements64, NeverMistaken, PTL
=============================================================================

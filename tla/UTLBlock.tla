------------------------------ MODULE UTLBlock ------------------------------
(***************************************************************************)
(* A block: the record of what its header and its regions hold, what       *)
(* packBlock makes of a slice of words, and what the readers of a block    *)
(* check, find and decode.  The header carries count, bitWidth, intType,   *)
(* forWidth, excCount and the flags; pOff and len are the writer's offset  *)
(* of the payload and length of the buffer, which no reader is told.       *)
(***************************************************************************)
EXTENDS BitWidth

Flags == {"Delta", "NoFOR", "NoPatch", "Special", "Append", "NoInPlace"}

(* Broken: Append alone works in place. *)
EffectiveFlag_AppendInPlace(f) == f

(* PackUint32: Append implies NoInPlace. *)
EffectiveFlag(f) == IF "Append" \in f THEN f \cup {"NoInPlace"} ELSE f

validLength(v) == SliceLen(v) # 0 /\ SliceLen(v) <= blockSize

NoValues == <<>>
Ok(s)    == [err |-> "none", vals |-> s]
Error(e) == [err |-> e, vals |-> NoValues]

NoBlock ==
  [count |-> 0, bitWidth |-> 0, intType |-> IntTypeUint32, forWidth |-> 0,
   special |-> FALSE, combine |-> FALSE, delta |-> FALSE, zigzag |-> FALSE,
   excCount |-> 0, svbLen |-> 0, base |-> 0, pOff |-> 0,
   payload |-> NoValues, positions |-> NoValues, bitmap |-> {},
   svb |-> NoValues, len |-> 0]

(* copy(mem[off:], s) *)
Store(mem, off, s) ==
  [i \in DOMAIN mem |-> IF i - off \in DOMAIN s THEN s[i - off] ELSE mem[i]]

(* Rank and its inverse in a set of positions. *)
Rank(E, i) == Cardinality({j \in E : j < i})
Nth(E, r)  == CHOOSE i \in E : Rank(E, i) = r

(* StreamVByte: a value takes its own number of bytes, at least one.  The  *)
(* data are as many bytes as there are values with a k-th byte, for all k. *)
svbDataLen(high) ==
  LET WithByte(k) == {r \in DOMAIN high : k = 1 \/ high[r] >= 2 ^ (ByteBits * (k - 1))}
  IN  Cardinality(WithByte(1)) + Cardinality(WithByte(2))
        + Cardinality(WithByte(3)) + Cardinality(WithByte(4))

-----------------------------------------------------------------------------
(* Packing. *)

(* The words of w with the rows from r on, r > 0, replaced by differences. *)
DeltaFrom(w, r) ==
  [i \in DOMAIN w |->
     IF i >= r * LaneCount THEN Minus(w[i], w[i - LaneCount]) ELSE w[i]]

(* No difference of the rows from r on wraps. *)
AscendingFrom(w, r) ==
  \A i \in DOMAIN w : i >= r * LaneCount => w[i - LaneCount] <= w[i]

(* The words that the payload and the exceptions of a block stand for. *)
Encode(s, b, delta, zz) ==
  IF ~delta THEN forSubtract(s, b)
  ELSE [i \in DOMAIN s |-> IF zz THEN zigzagEncode32(DeltaFrom(forSubtract(s, b), 1)[i])
                                 ELSE DeltaFrom(forSubtract(s, b), 1)[i]]

(* The positions and high bits of the words that do not fit bw bits. *)
HighBits(e, bw) ==
  [r \in 0 .. excCount(e, bw) - 1 |-> e[Nth(Exceptions(e, bw), r)] \div 2 ^ bw]
ExcPositions(e, bw) ==
  [r \in 0 .. excCount(e, bw) - 1 |-> Nth(Exceptions(e, bw), r)]

(* The base that packBlock subtracts, 0 for none. *)
FORBase(s, f) == IF "NoFOR" \notin f /\ UseFOR(s) THEN SliceMin(s) ELSE 0

(* The header that steps 1 and 2 settle, for the base b.                   *)
Framed(s, f, intType, combine, b) ==
  [NoBlock EXCEPT
     !.count = SliceLen(s), !.intType = intType, !.combine = combine,
     !.special = "Special" \in f,
     !.base = b, !.forWidth = selectFORWidth(b),
     !.delta = "Delta" \in f,
     !.zigzag = "Delta" \in f /\ ~AscendingFrom(forSubtract(s, b), 1)]

(* Step 4 but for the exceptions: the low bw bits of the words e. *)
WithPayload(b, e, bw, hasExceptions) ==
  LET off == payloadOffset(forBaseBytes(b.forWidth), hasExceptions, b.combine)
  IN  [b EXCEPT !.bitWidth = bw, !.pOff = off, !.len = off + utlPayloadBytes(bw),
                !.payload = [i \in Pos |-> IF i \in DOMAIN e THEN e[i] % 2 ^ bw ELSE 0]]

(* Step 4b: the words at the positions E, with their high bits, after the  *)
(* payload.                                                                *)
WithExceptions(b, E, high) ==
  LET n   == Cardinality(E)
      svb == svbControlByteCount(n) + svbDataLen(high)
  IN  IF n <= excBitmapThreshold
      THEN [b EXCEPT !.excCount = n, !.svb = high, !.svbLen = svb,
                     !.positions = [r \in 0 .. n - 1 |-> Nth(E, r)],
                     !.len = @ + (n + svb)]
      ELSE [b EXCEPT !.excCount = n, !.svb = high, !.svbLen = svb,
                     !.bitmap = E,
                     !.len = @ + (excBitmapThreshold + svb)]

(* Step 4 for the words e at the bitwidth that step 3 selects. *)
Patch(b, e, bw) ==
  IF excCount(e, bw) = 0 THEN WithPayload(b, e, bw, FALSE)
  ELSE WithExceptions(WithPayload(b, e, bw, TRUE), Exceptions(e, bw), HighBits(e, bw))

PackedWords(b, e, noPatch) ==
  IF noPatch THEN WithPayload(b, e, selectBitWidthNoPatch(e), FALSE)
             ELSE Patch(b, e, selectBitWidth(e))

(* The block that packBlock makes of the words s under the flags f, with   *)
(* the header type and the combine bit its caller passes.                  *)
PackedBlock(s, f, intType, combine) ==
  LET b == Framed(s, f, intType, combine, FORBase(s, f))
  IN  PackedWords(b, Encode(s, b.base, b.delta, b.zigzag), "NoPatch" \in f)

-----------------------------------------------------------------------------
(* Reading.  The readers trust the header, never the writer. *)

isFor64SingleBlock(b) ==
  b.intType = IntTypeUint64 /\ ~b.combine /\ b.forWidth = forWidthU32

(* Broken: the two bytes of svbLen are skipped in every block. *)
readOffset_AlwaysSVB(b, forUint64) ==
  payloadOffset(forBaseBytes(b.forWidth), TRUE, forUint64 /\ b.combine)

(* Where a reader of b takes the payload to begin. *)
readOffset(b, forUint64) ==
  payloadOffset(IF forUint64 /\ isFor64SingleBlock(b) THEN for64BaseSize
                                                     ELSE forBaseBytes(b.forWidth),
                b.excCount > 0, forUint64 /\ b.combine)

(* The end of the region that decodeUnpackHeader proves to be in buf. *)
readEnd(b, forUint64) ==
  readOffset(b, forUint64) + utlPayloadBytes(b.bitWidth)
    + IF b.excCount > 0 THEN excIndexSize(b.excCount) + b.svbLen ELSE 0

supportedType(b, forUint64) ==
  b.intType \in IF forUint64 THEN {IntTypeUint64} ELSE {IntTypeUint32, IntTypeUint16}

(* BlockLength, for a block without a combined second one. *)
BlockLength(b) == readEnd(b, b.intType = IntTypeUint64)

(* decodeUnpackHeader *)
headerError(b, forUint64) ==
  IF b.len < headerBytes THEN "ErrInvalidBuffer"
  ELSE IF ~supportedType(b, forUint64) THEN "ErrUnsupportedType"
  ELSE IF b.count > blockSize THEN "ErrInvalidBlockLength"
  ELSE IF b.bitWidth > WordBits \/ b.len < readEnd(b, forUint64) THEN "ErrInvalidBuffer"
  ELSE "none"

(* The r-th exception's position, from either form of the index. *)
patchTarget(b) ==
  IF b.excCount <= excBitmapThreshold THEN b.positions
  ELSE [r \in 0 .. Cardinality(b.bitmap) - 1 |-> Nth(b.bitmap, r)]

(* The bytes that the control bytes of the high bits ask for. *)
svbNeeded(b) == svbControlByteCount(b.excCount) + svbDataLen(b.svb)

(* Broken: counts from the other end of the bitmap. *)
findExceptionIndex_Reversed(b, pos) ==
  IF b.excCount <= excBitmapThreshold
  THEN CHOOSE r \in 0 .. b.excCount - 1 : b.positions[r] = pos
  ELSE b.excCount - 1 - Rank(b.bitmap, pos)

(* findExceptionIndex: a scan of the sorted list, or a bit test and a rank. *)
isException(b, pos) ==
  IF b.excCount <= excBitmapThreshold
  THEN \E r \in 0 .. b.excCount - 1 : b.positions[r] = pos
  ELSE pos \in b.bitmap

findExceptionIndex(b, pos) ==
  IF b.excCount <= excBitmapThreshold
  THEN CHOOSE r \in 0 .. b.excCount - 1 : b.positions[r] = pos
  ELSE Rank(b.bitmap, pos)

getValueDirect(b, pos) ==
  b.payload[pos] + IF isException(b, pos)
                   THEN b.svb[findExceptionIndex(b, pos)] * 2 ^ b.bitWidth
                   ELSE 0

(* getUint32Scalar's checks, in its order. *)
getError(b, pos, forUint64) ==
  IF b.len < headerBytes THEN "ErrInvalidBuffer"
  ELSE IF ~supportedType(b, forUint64) THEN "ErrUnsupportedType"
  ELSE IF pos \notin 0 .. b.count - 1 THEN "ErrPositionOutOfRange"
  ELSE IF \/ b.bitWidth > WordBits \/ b.len < readEnd(b, forUint64)
          \/ b.excCount > b.count
          \/ b.excCount > 0 /\ b.svbLen < svbControlByteCount(b.excCount)
       THEN "ErrInvalidBuffer"
  ELSE "none"

(* The words under the deltas: payload and high bits together. *)
Patched(b) == [i \in 0 .. b.count - 1 |-> getValueDirect(b, i)]

(* Broken: a word is added to its neighbour instead of the row above.      *)
PrefixSums_AlongRow(e, zz) ==
  LET delta(i) == IF zz THEN zigzagDecode32(e[i]) ELSE e[i]
      sum[i \in DOMAIN e] == IF i < LaneCount THEN delta(i)
                             ELSE Plus(sum[i - 1], delta(i))
  IN  sum

(* Prefix sums per lane, of the words e or of the signed words they zigzag. *)
PrefixSums(e, zz) ==
  LET delta(i) == IF zz THEN zigzagDecode32(e[i]) ELSE e[i]
      sum[i \in DOMAIN e] == IF i < LaneCount THEN delta(i)
                             ELSE Plus(sum[i - LaneCount], delta(i))
  IN  sum

(* The words of b but for an 8-byte base, which the uint64 caller adds. *)
DecodedWords(b) ==
  LET sums == IF b.delta THEN PrefixSums(Patched(b), b.zigzag) ELSE Patched(b)
  IN  IF isFor64SingleBlock(b) THEN sums ELSE forAdd(sums, b.base)

Overflows(b) ==
  b.delta /\ ~b.zigzag /\ ~AscendingFrom(PrefixSums(Patched(b), FALSE), 1)

(* What unpackBlock returns for b. *)
UnpackedBlock(b, forUint64) ==
  IF headerError(b, forUint64) # "none" THEN Error(headerError(b, forUint64))
  ELSE IF b.excCount > b.count \/ (b.excCount > 0 /\ svbNeeded(b) > b.svbLen)
       THEN Error("ErrInvalidBuffer")
  ELSE IF Overflows(b) THEN Error("ErrOverflow")
  ELSE Ok(DecodedWords(b))
=============================================================================

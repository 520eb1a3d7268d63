------------------------------ MODULE Block32 -------------------------------
(***************************************************************************)
(* One uint32 compressor and the caller of it: Compress, Decompress and    *)
(* Get on blocks of up to blockSize values, one action per phase of        *)
(* packBlockScalar / packBlockSSE2 / packBlockAVX2 / packBlockAVX512 and   *)
(* of the unpack pipelines.                                                *)
(*                                                                         *)
(* The memory the phases share is kept as it is in the code: the caller's  *)
(* slice `values`, which a pack without NoInPlace overwrites, and the      *)
(* compressor's `scratch`, which keeps whatever earlier calls left in it   *)
(* and whose two halves serve as work buffer, as zero-padded kernel input  *)
(* and as the exceptions' high bits.  The scalar pipeline and the SIMD     *)
(* pipelines take the same phases; a SIMD pipeline pads a partial block.   *)
(* A phase that is one loop over the block is one step, but the delta      *)
(* loops, whose order of rows matters, take one step per row.              *)
(***************************************************************************)
EXTENDS UTLBlock, FiniteSetsExt

CONSTANTS Inputs,      \* the slices callers compress
          FlagSets,    \* the flag arguments they use
          Levels,      \* values of simdLevel: how the process was dispatched
          Garbage,     \* contents of the scratch buffer before the first call
          Positions,   \* the positions callers ask Get for
          MaxCalls     \* bound: calls of Compress in one behaviour

ASSUME CallerAssumption ==
  /\ \A v \in Inputs : SliceLen(v) \in Nat /\ v \in Slice(SliceLen(v))
  /\ FlagSets \subseteq SUBSET Flags
  /\ Levels \subseteq {"scalar", "SSE2", "AVX2", "AVX512"}
  /\ Garbage \subseteq Slice(2 * blockSize)
  /\ Positions \subseteq Int
  /\ MaxCalls \in Nat

VARIABLES
  pc,         \* the phase the compressor is in
  simdLevel,  \* constant after start-up
  flag,       \* the flags of the current or last Compress
  values,     \* the caller's slice
  scratch,    \* the compressor's scratch buffer
  work,       \* where workValues lives: "values" or "scratch"
  row,        \* row of the delta loop
  base,       \* FOR base, 0 when FOR is not used
  zigzag,     \* needZigZag
  bitWidth,   \* the selected step bitwidth ...
  nExc,       \* ... and its number of exceptions
  packInput,  \* where the packing kernel reads: "work" or "scratch"
  dst,        \* the block under construction, or the packed block
  asked,      \* position a full unpack is for; -1 when it is a Decompress
  out,        \* destination of the unpack
  overflow,   \* position of the first overflow in the delta decode, or 0
  res,        \* what the last call returned
  stored,     \* history: the values handed to the last successful Compress
  calls       \* history: calls of Compress so far

memory  == <<values, scratch>>
packing == <<flag, work, base, zigzag, bitWidth, nExc, packInput, dst>>
reading == <<asked, out, overflow>>
history == <<stored, calls>>
vars == <<pc, simdLevel, memory, row, packing, reading, res, history>>

Init ==
  /\ pc = "idle"
  /\ simdLevel \in Levels
  /\ scratch \in Garbage
  /\ values = NoValues /\ stored = NoValues /\ out = NoValues
  /\ flag = {} /\ work = "values" /\ packInput = "work"
  /\ row = 0 /\ base = 0 /\ zigzag = FALSE /\ bitWidth = 0 /\ nExc = 0
  /\ dst = NoBlock
  /\ asked = -1 /\ overflow = 0 /\ calls = 0
  /\ res = Ok(NoValues)

-----------------------------------------------------------------------------
(* Memory. *)

count == SliceLen(values)
NoInPlace == "NoInPlace" \in flag

workValues ==
  IF work = "values" THEN values ELSE [i \in DOMAIN values |-> scratch[i]]

(* Every element of workValues is assigned its element of s. *)
WriteWork(s) ==
  IF work = "values"
  THEN values' = s /\ UNCHANGED scratch
  ELSE scratch' = Store(scratch, 0, s) /\ UNCHANGED values

-----------------------------------------------------------------------------
(* Pack. *)

Compress(v, f) ==
  /\ pc = "idle" /\ calls < MaxCalls
  /\ validLength(v)
  /\ calls' = calls + 1
  /\ pc' = "for"
  /\ flag' = EffectiveFlag(f)
  /\ values' = v /\ stored' = v
  /\ res' = Ok(NoValues)
  /\ work' = "values" /\ packInput' = "work"
  /\ base' = 0 /\ zigzag' = FALSE /\ bitWidth' = 0 /\ nExc' = 0
  /\ dst' = NoBlock
  /\ UNCHANGED <<simdLevel, scratch, row, reading>>

RejectLength(v) ==
  /\ pc = "idle"
  /\ ~validLength(v)
  /\ res' = Error("ErrInvalidBuffer")
  /\ UNCHANGED <<pc, simdLevel, memory, row, packing, reading, history>>

(* Step 1. *)
SubtractBase ==
  /\ pc = "for"
  /\ "NoFOR" \notin flag /\ UseFOR(values)
  /\ base' = SliceMin(values)
  /\ work' = IF NoInPlace THEN "scratch" ELSE "values"
  /\ LET s == forSubtract(values, SliceMin(values))
     IN  IF NoInPlace
         THEN scratch' = Store(scratch, 0, s) /\ UNCHANGED values
         ELSE values' = s /\ UNCHANGED scratch
  /\ pc' = "delta"
  /\ UNCHANGED <<simdLevel, flag, row, zigzag, bitWidth, nExc, packInput, dst,
                 reading, res, history>>

SkipFOR ==
  /\ pc = "for"
  /\ "NoFOR" \in flag \/ ~UseFOR(values)
  /\ pc' = "delta"
  /\ UNCHANGED <<simdLevel, memory, row, packing, reading, res, history>>

(* Step 2. *)
StartDelta ==
  /\ pc = "delta" /\ "Delta" \in flag
  /\ IF NoInPlace /\ work = "values"
     THEN work' = "scratch" /\ scratch' = Store(scratch, 0, values)
     ELSE UNCHANGED <<work, scratch>>
  /\ row' = utlValuesPerLane - 1
  /\ pc' = "deltaRows"
  /\ UNCHANGED <<simdLevel, values, flag, base, zigzag, bitWidth, nExc,
                 packInput, dst, reading, res, history>>

SkipDelta ==
  /\ pc = "delta" /\ "Delta" \notin flag
  /\ pc' = "select"
  /\ UNCHANGED <<simdLevel, memory, row, packing, reading, res, history>>

(* Broken: a row without its first position. *)
Row_OffByOne(r) == {i \in DOMAIN values : r * LaneCount < i /\ i < (r + 1) * LaneCount}

(* The positions of row r that hold a value. *)
Row(r) == {i \in DOMAIN values : r * LaneCount <= i /\ i < (r + 1) * LaneCount}

DeltaRow ==
  /\ pc = "deltaRows" /\ row > 0
  /\ LET w == workValues
     IN  /\ zigzag' = (zigzag \/ \E i \in Row(row) : w[i] < w[i - LaneCount])
         /\ WriteWork([i \in DOMAIN w |->
              IF i \in Row(row) THEN Minus(w[i], w[i - LaneCount]) ELSE w[i]])
  /\ row' = row - 1
  /\ UNCHANGED <<pc, simdLevel, flag, work, base, bitWidth, nExc, packInput,
                 dst, reading, res, history>>

ZigZagAll ==
  /\ pc = "deltaRows" /\ row = 0
  /\ IF zigzag
     THEN WriteWork([i \in DOMAIN values |-> zigzagEncode32(workValues[i])])
     ELSE UNCHANGED memory
  /\ pc' = "select"
  /\ UNCHANGED <<simdLevel, row, packing, reading, res, history>>

(* Step 3. *)
SelectWidth ==
  /\ pc = "select"
  /\ bitWidth' = IF "NoPatch" \in flag THEN selectBitWidthNoPatch(workValues)
                                       ELSE selectBitWidth(workValues)
  /\ nExc' = IF "NoPatch" \in flag THEN 0
                                   ELSE excCount(workValues, bitWidth')
  /\ pc' = "pad"
  /\ UNCHANGED <<simdLevel, memory, row, flag, work, base, zigzag, packInput,
                 dst, reading, res, history>>

(* Broken: the words are copied and nothing is cleared. *)
PaddedScratch_NoClear ==
  [i \in DOMAIN scratch |-> IF i \in DOMAIN values THEN workValues[i] ELSE scratch[i]]

(* The words in scratch[:blockSize], with zeros after them. *)
PaddedScratch ==
  [i \in DOMAIN scratch |-> IF i \in DOMAIN values THEN workValues[i]
                           ELSE IF i \in Pos THEN 0 ELSE scratch[i]]

(* The SIMD kernels read whole blocks: a partial one is copied to scratch  *)
(* and filled with zeros there.  The scalar kernel reads zeros past len.   *)
Pad ==
  /\ pc = "pad"
  /\ IF simdLevel # "scalar" /\ count < blockSize
     THEN packInput' = "scratch" /\ scratch' = PaddedScratch
     ELSE packInput' = "work" /\ UNCHANGED scratch
  /\ pc' = "payload"
  /\ UNCHANGED <<simdLevel, values, row, flag, work, base, zigzag, bitWidth,
                 nExc, dst, reading, res, history>>

(* Broken: the kernel is given scratch itself, whatever follows the words. *)
KernelInput_Unpadded(i) ==
  IF packInput = "scratch" \/ work = "scratch" THEN scratch[i]
  ELSE IF i \in DOMAIN values THEN values[i] ELSE 0

(* What the packing kernel reads at position i. *)
KernelInput(i) ==
  IF packInput = "scratch" THEN scratch[i]
  ELSE IF i \in DOMAIN values THEN workValues[i] ELSE 0

(* The length that packBlock asks ensureLen for. *)
maxTotalLen ==
  payloadOffset(forBaseBytes(selectFORWidth(base)), nExc > 0, dst.combine)
    + utlPayloadBytes(bitWidth)
    + IF nExc = 0 THEN 0 ELSE excIndexSize(nExc) + maxSVBEncodedLen(nExc)

(* writeFORBase stores the low bytes of the base. *)
storedBase == base % 2 ^ (ByteBits * forBaseBytes(selectFORWidth(base)))

(* Step 4: header, FOR base and bit-packed payload. *)
WritePayload ==
  /\ pc = "payload"
  /\ dst' = [dst EXCEPT
       !.count = count, !.bitWidth = bitWidth, !.excCount = nExc,
       !.forWidth = selectFORWidth(base), !.base = storedBase,
       !.special = "Special" \in flag,
       !.delta = "Delta" \in flag, !.zigzag = zigzag,
       !.pOff = payloadOffset(forBaseBytes(selectFORWidth(base)), nExc > 0,
                              dst.combine),
       !.payload = [i \in Pos |-> KernelInput(i) % 2 ^ bitWidth],
       !.len = maxTotalLen]
  /\ pc' = IF nExc > 0 THEN "collect" ELSE "idle"
  /\ UNCHANGED <<simdLevel, memory, row, flag, work, base, zigzag, bitWidth,
                 nExc, packInput, reading, res, history>>

(* Broken: the second half is used by in-place packs as well. *)
highBitsOff_Always == blockSize

highBitsOff == IF NoInPlace THEN blockSize ELSE 0

CollectExceptions ==
  /\ pc = "collect"
  /\ LET E == Exceptions(workValues, bitWidth)
     IN  /\ scratch' = Store(scratch, highBitsOff,
              [r \in 0 .. Cardinality(E) - 1 |->
                 workValues[Nth(E, r)] \div 2 ^ bitWidth])
         /\ dst' = IF nExc <= excBitmapThreshold
                   THEN [dst EXCEPT !.positions =
                           [r \in 0 .. Cardinality(E) - 1 |-> Nth(E, r)]]
                   ELSE [dst EXCEPT !.bitmap = E]
  /\ pc' = "svb"
  /\ UNCHANGED <<simdLevel, values, row, flag, work, base, zigzag, bitWidth,
                 nExc, packInput, reading, res, history>>

EncodeSVB ==
  /\ pc = "svb"
  /\ LET high == [r \in 0 .. nExc - 1 |-> scratch[highBitsOff + r]]
         svbLen == svbControlByteCount(nExc) + svbDataLen(high)
     IN  dst' = [dst EXCEPT !.svb = high, !.svbLen = svbLen,
                   !.len = dst.pOff + utlPayloadBytes(bitWidth)
                             + (excIndexSize(nExc) + svbLen)]
  /\ pc' = "idle"
  /\ UNCHANGED <<simdLevel, memory, row, flag, work, base, zigzag, bitWidth,
                 nExc, packInput, reading, res, history>>

-----------------------------------------------------------------------------
(* Decompress. *)

(* UnpackUint32's prologue, run for Decompress and for a Get (pos >= 0)    *)
(* that unpacks the whole block.                                           *)
StartUnpack(pos) ==
  /\ asked' = pos
  /\ overflow' = 0
  /\ IF headerError(dst, FALSE) # "none"
     THEN res' = Error(headerError(dst, FALSE)) /\ UNCHANGED <<pc, out>>
     ELSE pc' = "unpack" /\ out' = NoValues /\ UNCHANGED res
  /\ UNCHANGED <<simdLevel, memory, row, packing, history>>

Decompress == pc = "idle" /\ dst.count > 0 /\ StartUnpack(-1)

(* The kernels write the whole block; out is then cut to count values. *)
UnpackLanes ==
  /\ pc = "unpack"
  /\ out' = [i \in 0 .. dst.count - 1 |-> dst.payload[i]]
  /\ pc' = "patch"
  /\ UNCHANGED <<simdLevel, memory, row, packing, asked, overflow, res, history>>

(* applyExceptions: the high bits are decoded into scratch, shifted there  *)
(* when the index is a bitmap.  A payload value has no bits from bitWidth  *)
(* upwards, so that "|=" adds.                                             *)
ApplyExceptions ==
  /\ pc = "patch" /\ dst.excCount > 0
  /\ LET p == 2 ^ dst.bitWidth
         target == patchTarget(dst)
         hits(i) == {r \in DOMAIN target : target[r] = i}
     IN  IF dst.excCount > dst.count \/ svbNeeded(dst) > dst.svbLen
         THEN /\ res' = Error("ErrInvalidBuffer") /\ pc' = "idle"
              /\ UNCHANGED <<scratch, out, row>>
         ELSE /\ scratch' = Store(scratch, 0,
                   [r \in 0 .. dst.excCount - 1 |->
                      IF dst.excCount <= excBitmapThreshold
                      THEN dst.svb[r] ELSE dst.svb[r] * p])
              /\ out' = [i \in DOMAIN out |->
                           IF hits(i) = {} THEN out[i]
                           ELSE out[i] + dst.svb[CHOOSE r \in hits(i) : TRUE] * p]
              /\ pc' = "undelta" /\ row' = 0
              /\ UNCHANGED res
  /\ UNCHANGED <<simdLevel, values, packing, asked, overflow, history>>

NoExceptions ==
  /\ pc = "patch" /\ dst.excCount = 0
  /\ pc' = "undelta" /\ row' = 0
  /\ UNCHANGED <<simdLevel, memory, packing, reading, res, history>>

OutRow(r) == {i \in DOMAIN out : r * LaneCount <= i /\ i < (r + 1) * LaneCount}

(* Row 0 holds first values, later rows differences to the row above.  A   *)
(* sum that wraps is an overflow unless zigzag makes the word signed; the  *)
(* one reported is the lowest row's, and in that row the lowest lane's.    *)
UndeltaRow ==
  /\ pc = "undelta" /\ dst.delta /\ row < utlValuesPerLane
  /\ LET decoded(i) == IF dst.zigzag THEN zigzagDecode32(out[i]) ELSE out[i]
         sum(i) == IF row = 0 THEN decoded(i)
                              ELSE Plus(out[i - LaneCount], decoded(i))
         wraps == IF dst.zigzag \/ row = 0 THEN {}
                  ELSE {i \in OutRow(row) : sum(i) < out[i - LaneCount]}
     IN  /\ out' = [i \in DOMAIN out |-> IF i \in OutRow(row) THEN sum(i) ELSE out[i]]
         /\ overflow' = IF overflow = 0 /\ wraps # {} THEN Min(wraps) ELSE overflow
  /\ row' = row + 1
  /\ UNCHANGED <<pc, simdLevel, memory, packing, asked, res, history>>

(* Delta done: report an overflow, or add the base and return. *)
Return ==
  /\ pc = "undelta" /\ (dst.delta => row = utlValuesPerLane)
  /\ LET s == IF dst.forWidth > 0 THEN forAdd(out, dst.base) ELSE out
     IN  /\ out' = s
         /\ res' = IF overflow > 0 THEN Error("ErrOverflow")
                   ELSE IF asked = -1 THEN Ok(s)
                   ELSE Ok([i \in {asked} |-> s[i]])
  /\ pc' = "idle"
  /\ UNCHANGED <<simdLevel, memory, row, packing, asked, overflow, history>>

-----------------------------------------------------------------------------
(* Get. *)

deltaFullUnpackThreshold(bw) ==
  IF bw >= 5 * StepBits
  THEN IF simdLevel \in {"AVX2", "AVX512"} THEN 4 ELSE 2
  ELSE utlValuesPerLane

NeedsFullUnpack(b, pos) ==
  b.delta /\ pos \div LaneCount > deltaFullUnpackThreshold(b.bitWidth)

GetFails(pos) ==
  /\ pc = "idle" /\ dst.count > 0
  /\ getError(dst, pos, FALSE) # "none"
  /\ res' = Error(getError(dst, pos, FALSE))
  /\ UNCHANGED <<pc, simdLevel, memory, row, packing, reading, history>>

GetDirect(pos) ==
  /\ pc = "idle" /\ dst.count > 0 /\ ~dst.delta
  /\ getError(dst, pos, FALSE) = "none"
  /\ res' = Ok([i \in {pos} |-> Plus(getValueDirect(dst, pos), dst.base)])
  /\ UNCHANGED <<pc, simdLevel, memory, row, packing, reading, history>>

(* A deep position of a delta block: unpack it all and take one value. *)
GetByUnpack(pos) ==
  /\ pc = "idle" /\ dst.count > 0
  /\ getError(dst, pos, FALSE) = "none" /\ NeedsFullUnpack(dst, pos)
  /\ StartUnpack(pos)

(* getValueWithDelta: extract the lane down to pos, then sum it up. *)
GetByLane(pos) ==
  /\ pc = "idle" /\ dst.count > 0 /\ dst.delta
  /\ getError(dst, pos, FALSE) = "none" /\ ~NeedsFullUnpack(dst, pos)
  /\ asked' = pos /\ row' = 0
  /\ out' = [v \in 0 .. pos \div LaneCount |->
               getValueDirect(dst, (pos % LaneCount) + v * LaneCount)]
  /\ pc' = "walk"
  /\ UNCHANGED <<simdLevel, memory, packing, overflow, res, history>>

(* Broken: the row does not advance. *)
WalkRow_Stuck ==
  /\ pc = "walk" /\ row <= asked \div LaneCount
  /\ out' = [out EXCEPT ![row] = IF row = 0 THEN out[0] ELSE Plus(out[row - 1], out[row])]
  /\ UNCHANGED <<pc, simdLevel, memory, row, packing, asked, overflow, res, history>>

WalkRow ==
  /\ pc = "walk" /\ row <= asked \div LaneCount
  /\ LET decoded == IF dst.zigzag THEN zigzagDecode32(out[row]) ELSE out[row]
     IN  out' = [out EXCEPT ![row] =
                   IF row = 0 THEN decoded ELSE Plus(out[row - 1], decoded)]
  /\ row' = row + 1
  /\ UNCHANGED <<pc, simdLevel, memory, packing, asked, overflow, res, history>>

WalkReturn ==
  /\ pc = "walk" /\ row > asked \div LaneCount
  /\ res' = Ok([i \in {asked} |-> Plus(out[asked \div LaneCount], dst.base)])
  /\ pc' = "idle"
  /\ UNCHANGED <<simdLevel, memory, row, packing, reading, history>>

-----------------------------------------------------------------------------
Pack == \/ SubtractBase \/ SkipFOR
        \/ StartDelta \/ SkipDelta \/ DeltaRow \/ ZigZagAll
        \/ SelectWidth \/ Pad \/ WritePayload
        \/ CollectExceptions \/ EncodeSVB

Unpack == \/ UnpackLanes \/ ApplyExceptions \/ NoExceptions
          \/ UndeltaRow \/ Return
          \/ WalkRow \/ WalkReturn

Get(pos) == GetFails(pos) \/ GetDirect(pos) \/ GetByUnpack(pos) \/ GetByLane(pos)

Call == \/ \E v \in Inputs, f \in FlagSets : Compress(v, f)
        \/ \E v \in Inputs : RejectLength(v)
        \/ Decompress
        \/ \E pos \in Positions : Get(pos)

Next == Call \/ Pack \/ Unpack

(* A call that was made runs to its return; nobody has to make one. *)
Fairness == WF_vars(Pack \/ Unpack)

Spec == Init /\ [][Next]_vars /\ Fairness

-----------------------------------------------------------------------------
(* Properties. *)

(* Every variable keeps its type: in particular, subtracting a base or a   *)
(* delta stays within a word (for.go:127-133, delta.go:21-39).             *)
TypeOK ==
  /\ pc \in {"idle", "for", "delta", "deltaRows", "select", "pad", "payload",
             "collect", "svb", "unpack", "patch", "undelta", "walk"}
  /\ simdLevel \in Levels
  /\ flag \subseteq Flags
  /\ count \in 0 .. blockSize
  /\ values \in Slice(count) /\ stored \in Slice(count)
  /\ scratch \in Slice(2 * blockSize)
  /\ work \in {"values", "scratch"} /\ packInput \in {"work", "scratch"}
  /\ row \in 0 .. utlValuesPerLane
  /\ base \in Word /\ zigzag \in BOOLEAN
  /\ bitWidth \in StepWidths /\ nExc \in 0 .. blockSize
  /\ overflow \in 0 .. blockSize - 1 /\ calls \in 0 .. MaxCalls

(* The caller's slice is unmodified in every phase of a pack with          *)
(* NoInPlace or Append, not only when the call returns (pack.go:63-66).    *)
ValuesPreserved == flag \cap {"NoInPlace", "Append"} # {} => values = stored

(* Without NoInPlace a scratch of blockSize words is enough: no phase      *)
(* touches the second half (pack.go:3-11).                                 *)
ScratchLenSuffices ==
  [][~NoInPlace => \A i \in blockSize .. 2 * blockSize - 1 :
                     scratch'[i] = scratch[i]]_vars

(* The buffer a pack needs never exceeds the bound that callers allocate   *)
(* by and that the Append path trusts (scalar.go:311-335, pack.go:26-28).  *)
LengthBound == pc = "payload" => maxTotalLen <= MaxBlockLength32(flag)

(* Readers find the block to be exactly as long as the writer made it,     *)
(* with the payload where the writer put it (unpack_block.go:10-12).       *)
LayoutAgrees ==
  pc = "idle" /\ dst.count > 0 =>
    /\ BlockLength(dst) = dst.len
    /\ readOffset(dst, FALSE) = dst.pOff
    /\ dst.len <= MaxBlockLength32(flag)

(* The estimate behind the choice of exceptions is never too low: a        *)
(* patched block is no longer than packing the same words without          *)
(* exceptions (select_bitwidth.go:37-40).                                  *)
PatchPays ==
  [][pc = "svb" =>
       dst'.len <= payloadOffset(forBaseBytes(dst.forWidth), FALSE, dst.combine)
                     + utlPayloadBytes(selectBitWidthNoPatch(workValues))]_vars

(* The bytes of a block depend on the values alone: a partial block's      *)
(* unused slots are zero, whatever earlier calls left in scratch.          *)
NoStaleSlots ==
  pc = "idle" => \A i \in Pos : i >= dst.count /\ dst.count > 0 => dst.payload[i] = 0

(* FOR is used only where it saves a step of payload, net of its base      *)
(* (for.go:84-86), measured on blocks that are not delta encoded.          *)
FORPays ==
  pc = "idle" /\ dst.forWidth > 0 /\ ~dst.delta =>
    dst.len + utlSuperWordBytes - forBaseBytes(forWidthU32)
      <= headerBytes + utlPayloadBytes(selectBitWidth(stored))
           + LET n == excCount(stored, selectBitWidth(stored))
             IN  IF n = 0 THEN 0 ELSE svbLenBytes + excIndexSize(n)

(* Every call returns. *)
CallsReturn == pc # "idle" ~> pc = "idle"

(* The compressor implements the lossless store. *)
Store32 == INSTANCE LosslessStore WITH Values <- Inputs, MaxLength <- blockSize,
                                       content <- stored, reply <- res
Lossless == Store32!Spec
=============================================================================

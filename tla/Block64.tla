------------------------------ MODULE Block64 -------------------------------
(***************************************************************************)
(* One uint64 compressor and the caller of it (uint64.go).  A uint64 is    *)
(* reduced to a word by a 64-bit base (FOR64), narrowed to one, or split   *)
(* into two, and the words are packed as one block or as a pair of blocks, *)
(* the second appended to the first.                                       *)
(*                                                                         *)
(* The uint32 pipeline is used as a whole: PackedBlock is what packBlock   *)
(* makes of a slice of words and UnpackedBlock what unpackBlock returns.   *)
(* What is kept of its inside is its use of memory.  The compressor's      *)
(* scratch has three regions of blockSize words; packBlock overwrites the  *)
(* words it is given, and whatever it uses as workspace is left with words *)
(* that the caller must not rely on: a word of Junk.                       *)
(***************************************************************************)
EXTENDS UTLBlock

CONSTANTS Inputs,      \* the slices of uint64 callers compress
          FlagSets,    \* the flag arguments they use
          Junk,        \* what a workspace may be left with
          Positions,   \* the positions callers ask Get for
          MaxCalls     \* bound: calls of Compress in one behaviour

Word64 == 0 .. Modulus * Modulus - 1

ASSUME Caller64Assumption ==
  /\ \A v \in Inputs : SliceLen(v) \in Nat /\ v \in [0 .. SliceLen(v) - 1 -> Word64]
  /\ FlagSets \subseteq SUBSET Flags
  /\ Junk # {} /\ Junk \subseteq Word
  /\ Positions \subseteq Int
  /\ MaxCalls \in Nat

VARIABLES
  pc,          \* the phase the compressor is in
  flag,        \* the flags of the current or last Compress, without Append
  values,      \* the caller's slice
  scratch,     \* the compressor's scratch buffer
  min64,       \* smallest value
  first,       \* block 1, or the only block
  second,      \* block 2
  block2Len,   \* the field of that name in block 1
  len,         \* length of what Compress returned
  asked,       \* position a Get is for; -1 when it is a Decompress
  got,         \* the lower word that a Get has found
  res,         \* what the last call returned
  stored,      \* history: the values handed to the last Compress
  reserve,     \* history: bytes from off on that the pack has asked for
  allocated,   \* history: whether the pack allocated a scratch of its own
  calls        \* history: calls of Compress so far

packed  == <<first, second, block2Len, len>>
packing == <<flag, values, min64, packed, reserve, allocated>>
history == <<stored, calls>>
vars == <<pc, packing, scratch, asked, got, res, history>>

ScratchLen64 == 3 * blockSize

lowers == 0               \* offsets of the regions of scratch
middle == blockSize
uppers == 2 * blockSize

Init ==
  /\ pc = "idle" /\ flag = {} /\ min64 = 0 /\ asked = -1 /\ got = 0
  /\ \E junk \in Junk : scratch = [i \in 0 .. ScratchLen64 - 1 |-> junk]
  /\ values = NoValues /\ stored = NoValues /\ res = Ok(NoValues)
  /\ first = NoBlock /\ second = NoBlock /\ block2Len = 0 /\ len = 0
  /\ reserve = 0 /\ allocated = FALSE /\ calls = 0

-----------------------------------------------------------------------------
(* Memory. *)

count == SliceLen(values)

(* Broken: the whole region, past the words of a shorter slice. *)
WordsAt_WholeRegion(off, n) == [i \in 0 .. blockSize - 1 |-> scratch[off + i]]

(* n words of scratch from off on. *)
WordsAt(off, n) == [i \in 0 .. n - 1 |-> scratch[off + i]]

(* Whether packBlock allocates in place of a workspace of n words. *)
Allocates(n) == "NoInPlace" \in flag /\ n < 2 * blockSize

(* What packBlock may write to, given words at `from' and a workspace of   *)
(* n words at `space': the workspace for NoInPlace, else the words, and    *)
(* the first region of the workspace for padded words and high bits.       *)
PackWrites(from, space, n) ==
  IF Allocates(n) THEN {}
  ELSE IF "NoInPlace" \in flag THEN space .. space + 2 * blockSize - 1
  ELSE (from .. from + count - 1) \cup (space .. space + blockSize - 1)

(* mem, but that the words of region W are unknown. *)
Spoiled(mem, W) == {[i \in DOMAIN mem |-> IF i \in W THEN junk ELSE mem[i]] : junk \in Junk}

-----------------------------------------------------------------------------
(* Compress. *)

Compress(v, f) ==
  /\ pc = "idle" /\ calls < MaxCalls
  /\ validLength(v)
  /\ pc' = "analyze"
  /\ flag' = EffectiveFlag(f) \ {"Append"}
  /\ values' = v /\ stored' = v
  /\ first' = NoBlock /\ second' = NoBlock /\ block2Len' = 0 /\ len' = 0
  /\ reserve' = 0 /\ allocated' = FALSE
  /\ res' = Ok(NoValues)
  /\ calls' = calls + 1
  /\ UNCHANGED <<scratch, min64, asked, got>>

RejectLength(v) ==
  /\ pc = "idle"
  /\ ~validLength(v)
  /\ res' = Error("ErrInvalidBuffer")
  /\ UNCHANGED <<pc, packing, scratch, asked, got, history>>

lowerHalf(v) == v % Modulus
upperHalf(v) == v \div Modulus

FitsFOR64(v) ==
  "NoFOR" \notin flag /\ SliceMin(v) > 0 /\ SliceMax(v) - SliceMin(v) < Modulus

SubtractMin64 ==
  /\ pc = "analyze" /\ FitsFOR64(values)
  /\ min64' = SliceMin(values)
  /\ scratch' = Store(scratch, lowers,
                  [i \in DOMAIN values |-> lowerHalf(values[i] - SliceMin(values))])
  /\ pc' = "packFor64"
  /\ UNCHANGED <<flag, values, packed, reserve, allocated, asked, got, res, history>>

Narrow ==
  /\ pc = "analyze" /\ ~FitsFOR64(values) /\ SliceMax(values) < Modulus
  /\ scratch' = Store(scratch, lowers, [i \in DOMAIN values |-> lowerHalf(values[i])])
  /\ pc' = "packNarrow"
  /\ UNCHANGED <<packing, asked, got, res, history>>

Split ==
  /\ pc = "analyze" /\ ~FitsFOR64(values) /\ SliceMax(values) >= Modulus
  /\ scratch' = Store(Store(scratch, lowers, [i \in DOMAIN values |-> lowerHalf(values[i])]),
                      uppers, [i \in DOMAIN values |-> upperHalf(values[i])])
  /\ pc' = "packLower"
  /\ UNCHANGED <<packing, asked, got, res, history>>

(* The length that packBlock asks ensureLen for. *)
maxTotalLen(b) ==
  b.pOff + utlPayloadBytes(b.bitWidth)
    + IF b.excCount = 0 THEN 0
      ELSE excIndexSize(b.excCount) + maxSVBEncodedLen(b.excCount)

(* packBlock's effects but for the block b it makes: dst from at on must   *)
(* have room, the words at `from' and the workspace are used up.           *)
UsePackBlock(b, at, from, space, n) ==
  /\ reserve' = at + maxTotalLen(b)
  /\ allocated' = (allocated \/ Allocates(n))
  /\ scratch' \in Spoiled(scratch, PackWrites(from, space, n))

(* The inner block is packed eight bytes further on. *)
PackFor64 ==
  /\ pc = "packFor64"
  /\ \E b \in {PackedBlock(WordsAt(lowers, count), flag \cup {"NoFOR"}, IntTypeUint64, FALSE)} :
       first' = b /\ UsePackBlock(b, for64BaseSize, lowers, middle, 2 * blockSize)
  /\ pc' = "wrap"
  /\ UNCHANGED <<flag, values, min64, second, block2Len, len, asked, got, res, history>>

(* Broken: the header keeps the FOR width of the inner block. *)
Wrapped_NoWidth(b) ==
  [b EXCEPT !.base = min64, !.pOff = @ + for64BaseSize, !.len = @ + for64BaseSize]

(* The payload stays: header and svbLen move to the front of it, the base  *)
(* goes in between.                                                        *)
Wrapped(b) ==
  [b EXCEPT !.forWidth = forWidthU32, !.base = min64,
            !.pOff = @ + for64BaseSize, !.len = @ + for64BaseSize]

WrapFor64 ==
  /\ pc = "wrap"
  /\ first' = Wrapped(first)
  /\ len' = Wrapped(first).len
  /\ pc' = "idle"
  /\ UNCHANGED <<flag, values, scratch, min64, second, block2Len, reserve, allocated,
                 asked, got, res, history>>

PackNarrow ==
  /\ pc = "packNarrow"
  /\ \E b \in {PackedBlock(WordsAt(lowers, count), flag, IntTypeUint64, FALSE)} :
       /\ first' = b /\ len' = b.len
       /\ UsePackBlock(b, 0, lowers, middle, blockSize)
  /\ pc' = "idle"
  /\ UNCHANGED <<flag, values, min64, second, block2Len, asked, got, res, history>>

(* Broken: as much workspace as packFor64 hands over. *)
pairSpace_Both == 2 * blockSize

(* Words of workspace for either block of a pair. *)
pairSpace == blockSize

PackLower ==
  /\ pc = "packLower"
  /\ \E b \in {PackedBlock(WordsAt(lowers, count), flag, IntTypeUint64, TRUE)} :
       first' = b /\ UsePackBlock(b, 0, lowers, middle, pairSpace)
  /\ pc' = "packUpper"
  /\ UNCHANGED <<flag, values, min64, second, block2Len, len, asked, got, res, history>>

(* Block 2 follows block 1 and its length goes into block 1. *)
PackUpper ==
  /\ pc = "packUpper"
  /\ \E b \in {PackedBlock(WordsAt(uppers, count), flag, IntTypeUint64, FALSE)} :
       /\ second' = b /\ block2Len' = b.len /\ len' = first.len + b.len
       /\ UsePackBlock(b, first.len, uppers, middle, pairSpace)
  /\ pc' = "idle"
  /\ UNCHANGED <<flag, values, min64, first, asked, got, res, history>>

-----------------------------------------------------------------------------
(* Decompress. *)

(* What a reader finds at offset off of the buffer, n bytes from there on: *)
(* no block that it could read, unless a block begins there.               *)
BlockAt(off, n) ==
  IF off = first.len THEN [second EXCEPT !.len = n] ELSE NoBlock

Fail(e) == res' = Error(e) /\ pc' = "idle" /\ UNCHANGED scratch

(* unpackBlock has written the words s, and more, to the region at off,    *)
(* and the high bits of n exceptions to the region exc.                    *)
Unpacked(off, s, exc, n) ==
  {Store(mem, off, s) :
     mem \in Spoiled(scratch, (off .. off + blockSize - 1) \cup (exc .. exc + n - 1))}

Decompress ==
  /\ pc = "idle" /\ first.count > 0
  /\ pc' = "unpackLower" /\ asked' = -1
  /\ UNCHANGED <<packing, scratch, got, res, history>>

UnpackLower ==
  /\ pc = "unpackLower"
  /\ LET r == UnpackedBlock(first, TRUE)
     IN  IF r.err # "none" THEN Fail(r.err)
         ELSE /\ scratch' \in Unpacked(lowers, r.vals, uppers, first.excCount)
              /\ pc' = IF first.combine THEN "unpackUpper" ELSE "addBase"
              /\ UNCHANGED res
  /\ UNCHANGED <<packing, asked, got, history>>

(* The base of a FOR64 block; any other single block has none of 64 bits. *)
for64Base == IF isFor64SingleBlock(first) THEN first.base ELSE 0

AddBase ==
  /\ pc = "addBase"
  /\ res' = Ok([i \in 0 .. first.count - 1 |-> scratch[lowers + i] + for64Base])
  /\ pc' = "idle"
  /\ UNCHANGED <<packing, scratch, asked, got, history>>

block2Start == readEnd(first, TRUE)

UnpackUpper ==
  /\ pc = "unpackUpper"
  /\ LET b == BlockAt(block2Start, block2Len)
         r == UnpackedBlock(b, TRUE)
     IN  IF block2Start + block2Len > len THEN Fail("ErrInvalidBuffer")
         ELSE IF r.err # "none" THEN Fail(r.err)
         ELSE IF b.count # first.count THEN Fail("ErrInvalidBuffer")
         ELSE /\ scratch' \in Unpacked(middle, r.vals, uppers, b.excCount)
              /\ pc' = "combine"
              /\ UNCHANGED res
  /\ UNCHANGED <<packing, asked, got, history>>

Combine ==
  /\ pc = "combine"
  /\ res' = Ok([i \in 0 .. first.count - 1 |->
                  scratch[middle + i] * Modulus + scratch[lowers + i]])
  /\ pc' = "idle"
  /\ UNCHANGED <<packing, scratch, asked, got, history>>

-----------------------------------------------------------------------------
(* Get: a word of block 1, then one of block 2. *)

(* A delta block may be unpacked as a whole, which uses scratch up, or     *)
(* walked along one lane, which does not (getUint32Scalar decides by width *)
(* and SIMD level).                                                        *)
GetWord(b, pos) ==
  IF getError(b, pos, TRUE) # "none" THEN Error(getError(b, pos, TRUE))
  ELSE IF b.delta THEN UnpackedBlock(b, TRUE)
  ELSE Ok(DecodedWords(b))

UseScratch(b) ==
  scratch' \in {scratch} \cup
    IF b.delta THEN Unpacked(lowers, DecodedWords(b), uppers, b.excCount) ELSE {}

GetLower(pos) ==
  /\ pc = "idle" /\ first.count > 0
  /\ asked' = pos
  /\ LET r == GetWord(first, pos)
     IN  IF r.err # "none" THEN Fail(r.err) /\ UNCHANGED got
         ELSE /\ UseScratch(first)
              /\ IF first.combine
                 THEN pc' = "getUpper" /\ got' = r.vals[pos] /\ UNCHANGED res
                 ELSE /\ res' = Ok([i \in {pos} |-> r.vals[pos] + for64Base])
                      /\ UNCHANGED <<pc, got>>
  /\ UNCHANGED <<packing, history>>

GetUpper ==
  /\ pc = "getUpper"
  /\ LET b == BlockAt(block2Start, block2Len)
         r == GetWord(b, asked)
     IN  IF block2Start + block2Len > len THEN Fail("ErrInvalidBuffer")
         ELSE IF r.err # "none" THEN Fail(r.err)
         ELSE /\ UseScratch(b)
              /\ res' = Ok([i \in {asked} |-> r.vals[asked] * Modulus + got])
              /\ pc' = "idle"
  /\ UNCHANGED <<packing, asked, got, history>>

-----------------------------------------------------------------------------
Pack == \/ SubtractMin64 \/ Narrow \/ Split
        \/ PackFor64 \/ WrapFor64 \/ PackNarrow \/ PackLower \/ PackUpper

Unpack == UnpackLower \/ AddBase \/ UnpackUpper \/ Combine \/ GetUpper

Call == \/ \E v \in Inputs, f \in FlagSets : Compress(v, f)
        \/ \E v \in Inputs : RejectLength(v)
        \/ Decompress
        \/ \E pos \in Positions : GetLower(pos)

Next == Call \/ Pack \/ Unpack

Spec == Init /\ [][Next]_vars /\ WF_vars(Pack \/ Unpack)

-----------------------------------------------------------------------------
(* Properties. *)

(* Every variable keeps its type; a block holds as many values as the      *)
(* slice, also when a region of scratch has more (uint64.go:152, 166, 174). *)
TypeOK ==
  /\ pc \in {"idle", "analyze", "packFor64", "wrap", "packNarrow", "packLower",
             "packUpper", "unpackLower", "addBase", "unpackUpper", "combine",
             "getUpper"}
  /\ flag \subseteq Flags \ {"Append"}
  /\ count \in 0 .. blockSize
  /\ scratch \in Slice(ScratchLen64)
  /\ min64 \in Word64 /\ got \in Word
  /\ first.count \in {0, count} /\ second.count \in {0, count}
  /\ calls \in 0 .. MaxCalls

(* All packs, in any of the three layouts, stay within the bytes that      *)
(* packUint64* reserve once at their start, with the sub-blocks' longest   *)
(* possible encodings laid end to end (uint64.go:20-22).                   *)
CapacityTrusted == reserve <= MaxBlockLength64(flag)

(* A reader that skips blocks lands on the end of this one, and both       *)
(* blocks' payloads are where readers, who know only the header, take them *)
(* to be (block_length.go:3-7, uint64.go:74-82).                           *)
LayoutAgrees64 ==
  pc = "idle" /\ first.count > 0 =>
    /\ BlockLength(first) + (IF first.combine THEN block2Len ELSE 0) = len
    /\ first.pOff = readOffset(first, TRUE)
    /\ first.combine => second.pOff = readOffset(second, TRUE)

(* With a scratch of ScratchLen64 words a pack allocates nothing           *)
(* (uint64.go:273-275).                                                    *)
ZeroAllocation == ~allocated

(* The compressor implements the lossless store. *)
Store64 == INSTANCE LosslessStore WITH Values <- Inputs, MaxLength <- blockSize,
                                       content <- stored, reply <- res
Lossless64 == Store64!Spec
=============================================================================

------------------------------ MODULE Readers -------------------------------
(***************************************************************************)
(* The readers of a buffer that need not hold what a packer wrote: one     *)
(* that is cut short, or of which some bytes have changed.  Unpack, Get    *)
(* and BlockLength each check the header and the regions for themselves    *)
(* (unpack_block.go, get.go, block_length.go, and unpackUint64Block and    *)
(* getUint64Scalar for pairs of blocks); what they index with what the     *)
(* buffer holds are the exception index and the StreamVByte control bytes  *)
(* (exceptions.go, svb.go).                                                *)
(*                                                                         *)
(* A value is abstracted to the exceptions whose high bits are added to    *)
(* its packed word, and a delta value to those of its lane.                *)
(***************************************************************************)
EXTENDS UTLFormat

CONSTANTS Sources,   \* buffers: [len, first, second, block2Len]
          Positions, \* positions that Get is asked for
          Thresholds \* values of deltaFullUnpackThreshold for wide blocks

MaxCount == 2 * blockSize - 1     \* of the 8-bit fields count and excCount

(* What the bytes of a block say: header fields, svbLen, the exception     *)
(* index in either form, the data bytes each control code stands for; and  *)
(* whether a prefix sum wraps around.                                      *)
IsBlock(b) ==
  /\ b.count \in 0 .. MaxCount /\ b.excCount \in 0 .. MaxCount
  /\ b.bitWidth \in {StepBits * si : si \in 0 .. 31}
  /\ b.intType \in 0 .. 3 /\ b.forWidth \in 0 .. 3
  /\ {b.delta, b.zigzag, b.combine, b.reserved, b.block256, b.wraps} \subseteq BOOLEAN
  /\ b.svbLen \in Nat
  /\ b.positions \in [0 .. b.excCount - 1 -> 0 .. MaxCount] /\ b.bitmap \subseteq Pos
  /\ b.codes \in [0 .. b.excCount - 1 -> 1 .. 4]

ASSUME ReaderAssumption ==
  /\ \A s \in Sources : /\ s.len \in Nat /\ s.block2Len \in Nat
                        /\ IsBlock(s.first) /\ IsBlock(s.second)
  /\ Positions \subseteq Int
  /\ Thresholds \subseteq 0 .. utlValuesPerLane

VARIABLES src,     \* the buffer
          api64,   \* whether the uint64 functions read it
          pos,     \* the position for Get
          wide,    \* deltaFullUnpackThreshold from 20 bits on
          call,    \* the number of the current call
          pc,
          part,    \* 1 or 2: which block is read
          window,  \* length of the slice the block is read from
          limit,   \* length of the slice after the checks
          touched, \* indexes used: the greatest of the slice, of the decoded high
                   \* bits and of the lane, -1 for none; those of dst
          clamped, \* whether a read has been cut off at the end of a slice
          patch,   \* per position of pos's lane, the exceptions added to it
          start2,  \* where block 2 was taken to begin
          answers  \* what the calls have returned

vars == <<src, api64, pos, wide, call, pc, part, window, limit, touched, clamped,
          patch, start2, answers>>

input == <<src, api64, pos, wide>>

b == IF part = 1 THEN src.first ELSE src.second

-----------------------------------------------------------------------------
(* Offsets. *)

Lower(x, y)  == IF x <= y THEN x ELSE y

supportedType == b.intType \in IF api64 THEN {IntTypeUint64} ELSE {IntTypeUint32, IntTypeUint16}

hasCombine == api64 /\ b.combine

isFor64SingleBlock(x) == x.intType = IntTypeUint64 /\ ~x.combine /\ x.forWidth = forWidthU32

baseBytes == IF api64 /\ isFor64SingleBlock(b) THEN for64BaseSize ELSE forBaseBytes(b.forWidth)

pOff       == payloadOffset(baseBytes, b.excCount > 0, hasCombine)
payloadEnd == pOff + utlPayloadBytes(b.bitWidth)
svbStart   == payloadEnd + excIndexSize(b.excCount)
blockEnd   == IF b.excCount > 0 THEN svbStart + b.svbLen ELSE payloadEnd

controlBytes == svbControlByteCount(b.excCount)

(* Data bytes of the exceptions before r. *)
DataBefore(r) ==
  LET WithByte(k) == Cardinality({i \in 0 .. r - 1 : b.codes[i] >= k})
  IN  WithByte(1) + WithByte(2) + WithByte(3) + WithByte(4)

lane      == pos % LaneCount
posInLane == pos \div LaneCount

(* The positions of pos's lane up to row v. *)
LaneUpTo(v) == {lane + r * LaneCount : r \in 0 .. v}

NoPatch == [p \in LaneUpTo(utlValuesPerLane) |-> {}]
Untouched == [src |-> -1, dst |-> {}, high |-> -1, lane |-> -1]

-----------------------------------------------------------------------------
(* Calls and returns. *)

NoAnswer == [err |-> "none", len |-> 0, patch |-> NoPatch, start2 |-> 0, exact |-> TRUE]

Calls == <<"Unpack", "Get", "BlockLength", "none">>

AllDone == call = 4

Init ==
  /\ src \in Sources /\ api64 \in BOOLEAN /\ pos \in Positions /\ wide \in Thresholds
  /\ call = 1 /\ pc = "call" /\ part = 1 /\ window = 0 /\ limit = 0
  /\ touched = Untouched /\ clamped = FALSE /\ patch = NoPatch /\ start2 = 0
  /\ answers = [c \in 1 .. 3 |-> NoAnswer]

Return(a) ==
  /\ answers' = [answers EXCEPT ![call] = a]
  /\ call' = call + 1 /\ pc' = "call"

Fail(e) == Return([NoAnswer EXCEPT !.err = e])

Continue(label) == pc' = label /\ UNCHANGED <<call, answers>>

(* A call starts on the whole buffer.  Before unpackBlock, UnpackUint64     *)
(* reads the 64-bit base; before getUint32Scalar, which repeats the checks *)
(* of getUint64Scalar, GetUint64 reads nothing.                            *)
Start ==
  /\ pc = "call" /\ Calls[call] \in {"Unpack", "Get"}
  /\ part' = 1 /\ window' = src.len /\ limit' = src.len
  /\ touched' = Untouched /\ clamped' = FALSE /\ patch' = NoPatch /\ start2' = 0
  /\ LET baseEnd == payloadOffset(for64BaseSize, src.first.excCount > 0, FALSE)
     IN  IF api64 /\ src.len >= headerBytes /\ src.len < baseEnd
              /\ isFor64SingleBlock(src.first) /\ Calls[call] = "Unpack"
         THEN Fail("ErrInvalidBuffer") ELSE Continue(Calls[call])
  /\ UNCHANGED input

(* From then on the slice ends at blockEnd, and the base and the payload   *)
(* are read.                                                               *)
Checked == limit' = blockEnd /\ touched' = [touched EXCEPT !.src = payloadEnd - 1]

-----------------------------------------------------------------------------
(* Unpack. *)

(* decodeUnpackHeader *)
headerError ==
  IF window < headerBytes THEN "ErrInvalidBuffer"
  ELSE IF ~supportedType THEN "ErrUnsupportedType"
  ELSE IF b.count > blockSize THEN "ErrInvalidBlockLength"
  ELSE IF b.count # 0 /\ (b.bitWidth > WordBits \/ window < blockEnd) THEN "ErrInvalidBuffer"
  ELSE "none"

(* An empty block ends with its header. *)
UnpackHeader ==
  /\ pc = "Unpack"
  /\ IF headerError # "none" THEN Fail(headerError) /\ UNCHANGED <<limit, touched>>
     ELSE IF b.count = 0 THEN Continue("unpacked") /\ limit' = headerBytes /\ UNCHANGED touched
     ELSE Continue(IF b.excCount > 0 THEN "decodeSVB" ELSE "sums") /\ Checked
  /\ UNCHANGED <<input, part, window, clamped, patch, start2>>

(* applyExceptions and decodeExceptionHighBitsInto: as many high bits are  *)
(* decoded as the header says.                                             *)
svbError ==
  b.excCount > b.count \/ controlBytes > b.svbLen
    \/ controlBytes + DataBefore(b.excCount) > b.svbLen

DecodeSVB ==
  /\ pc = "decodeSVB"
  /\ IF svbError THEN Fail("ErrInvalidBuffer") /\ UNCHANGED touched
     ELSE /\ Continue("patch")
          /\ touched' = [touched EXCEPT
               !.src = svbStart + controlBytes + DataBefore(b.excCount) - 1]
  /\ UNCHANGED <<input, part, window, limit, clamped, patch, start2>>

(* Broken: every position of the list is taken as it is. *)
patchTarget_Raw(p) == p

(* In a full block a position loses its top bit; in a partial one what is  *)
(* not a position of the block is skipped: -1.                             *)
patchTarget(p) ==
  IF b.count = blockSize THEN p % blockSize ELSE IF p < b.count THEN p ELSE -1

PatchList ==
  /\ pc = "patch" /\ b.excCount <= excBitmapThreshold
  /\ LET target == [r \in 0 .. b.excCount - 1 |-> patchTarget(b.positions[r])]
     IN  /\ patch' = [p \in DOMAIN patch |-> {r \in DOMAIN target : target[r] = p}]
         /\ touched' = [touched EXCEPT !.dst = {target[r] : r \in DOMAIN target} \ {-1},
                                       !.high = b.excCount - 1]
  /\ Continue("sums")
  /\ UNCHANGED <<input, part, window, limit, clamped, start2>>

Rank(B, p) == Cardinality({q \in B : q < p})

(* The bits that applyBitmapExceptions goes through. *)
bitmapBits == {p \in b.bitmap : p < b.count}

(* Nothing is patched when there are more bits than high bits. *)
PatchBitmap ==
  /\ pc = "patch" /\ b.excCount > excBitmapThreshold
  /\ IF Cardinality(bitmapBits) > b.excCount THEN UNCHANGED <<patch, touched>>
     ELSE /\ patch' = [p \in DOMAIN patch |-> IF p \in bitmapBits THEN {Rank(bitmapBits, p)} ELSE {}]
          /\ touched' = [touched EXCEPT !.dst = bitmapBits,
                                        !.high = Cardinality(bitmapBits) - 1]
  /\ Continue("sums")
  /\ UNCHANGED <<input, part, window, limit, clamped, start2>>

(* Delta decoding; only blocks of more than a row have sums. *)
UnpackSums ==
  /\ pc = "sums"
  /\ IF b.delta /\ ~b.zigzag /\ b.wraps /\ b.count > LaneCount
     THEN Fail("ErrOverflow") ELSE Continue("unpacked")
  /\ UNCHANGED <<input, part, window, limit, touched, clamped, patch, start2>>

consumed == IF b.count = 0 THEN headerBytes ELSE blockEnd

(* The caller of unpackBlock: Get's full unpack takes one value; of a pair *)
(* the uint64 functions go on with block 2, in a slice of its own.         *)
metaOff == payloadOffset(forBaseBytes(b.forWidth), b.excCount > 0, TRUE)

(* Broken: block 2 may end after the buffer.                               *)
missesSecond_Start(start) == src.len < metaOff \/ start > src.len

missesSecond(start) == src.len < metaOff \/ start + src.block2Len > src.len

Second(start) ==
  IF missesSecond(start)
  THEN Fail("ErrInvalidBuffer") /\ UNCHANGED <<part, window, limit, touched, patch, start2>>
  ELSE /\ part' = 2 /\ window' = src.block2Len /\ limit' = src.block2Len
       /\ start2' = start /\ touched' = Untouched /\ patch' = NoPatch
       /\ Continue(Calls[call])

UnpackFirst ==
  /\ pc = "unpacked" /\ Calls[call] = "Unpack" /\ part = 1
  /\ IF hasCombine THEN Second(consumed)
     ELSE /\ Return([NoAnswer EXCEPT !.len = consumed, !.patch = patch])
          /\ UNCHANGED <<part, window, limit, touched, patch, start2>>
  /\ UNCHANGED <<input, clamped>>

UnpackSecond ==
  /\ pc = "unpacked" /\ Calls[call] = "Unpack" /\ part = 2
  /\ IF b.count # src.first.count THEN Fail("ErrInvalidBuffer")
     ELSE Return([NoAnswer EXCEPT !.len = start2 + src.block2Len, !.patch = patch,
                                  !.start2 = start2])
  /\ UNCHANGED <<input, part, window, limit, touched, clamped, patch, start2>>

-----------------------------------------------------------------------------
(* Get. *)

deltaFullUnpackThreshold == IF b.bitWidth >= 5 * StepBits THEN wide ELSE utlValuesPerLane

(* getUint32Scalar, in its order. *)
getError ==
  IF window < headerBytes THEN "ErrInvalidBuffer"
  ELSE IF ~supportedType THEN "ErrUnsupportedType"
  ELSE IF pos \notin 0 .. b.count - 1 THEN "ErrPositionOutOfRange"
  ELSE IF \/ b.bitWidth > WordBits \/ window < payloadEnd
          \/ b.excCount > 0 /\ (\/ b.excCount > b.count
                                \/ b.svbLen < controlBytes \/ window < blockEnd)
       THEN "ErrInvalidBuffer"
  ELSE "none"

GetHeader ==
  /\ pc = "Get"
  /\ IF getError # "none" THEN Fail(getError) /\ UNCHANGED <<limit, touched>>
     ELSE /\ Continue(IF ~b.delta THEN "direct"
                      ELSE IF posInLane > deltaFullUnpackThreshold THEN "full" ELSE "lane")
          /\ Checked
  /\ UNCHANGED <<input, part, window, clamped, patch, start2>>

(* The end of the one or two words of the payload that hold position p.    *)
packedEnd(p) ==
  LET bitPos == (p \div LaneCount) * b.bitWidth
      first  == (bitPos \div WordBits) * utlSuperWordBytes + 4 * (p % LaneCount) + 4
  IN  IF b.bitWidth = 0 THEN 0
      ELSE IF b.bitWidth > WordBits - (bitPos % WordBits) THEN first + utlSuperWordBytes
      ELSE first

(* Broken: the codes of the target's whole group are counted.              *)
dataOff_WholeGroup(r) == controlBytes + DataBefore(Lower(b.excCount, 4 * (r \div 4 + 1)))

(* svbDecodeOneInternal: the data bytes of exception r, cut off at svbLen. *)
dataOff(r) == controlBytes + DataBefore(r)

CutsOff(r) == r < b.excCount /\ dataOff(r) + b.codes[r] > b.svbLen

(* findExceptionIndex: the scan of the list stops at the first entry that  *)
(* is not below p.                                                         *)
foundInList(p) ==
  {r \in DOMAIN b.positions : /\ b.positions[r] = p
                              /\ \A i \in 0 .. r - 1 : b.positions[i] < p}

(* A rank without high bits decodes to zero.                               *)
foundInBitmap(p) == IF p \in b.bitmap THEN {Rank(b.bitmap, p)} \cap (0 .. b.excCount - 1) ELSE {}

GetDirect ==
  /\ pc = "direct"
  /\ LET found == IF b.excCount <= excBitmapThreshold THEN foundInList(pos) ELSE foundInBitmap(pos)
     IN  /\ patch' = [p \in DOMAIN patch |-> IF p = pos THEN found ELSE {}]
         /\ clamped' = \/ clamped \/ packedEnd(pos) > utlPayloadBytes(b.bitWidth)
                        \/ \E r \in found : CutsOff(r)
  /\ Continue("got")
  /\ UNCHANGED <<input, part, window, limit, touched, start2>>

(* laneValues has utlValuesPerLane elements: an index past them panics.    *)
WalkLane ==
  /\ pc = "lane"
  /\ touched' = [touched EXCEPT !.lane = posInLane]
  /\ Continue(IF posInLane < utlValuesPerLane THEN "laneExceptions" ELSE "panic")
  /\ UNCHANGED <<input, part, window, limit, clamped, patch, start2>>

(* Broken: the scan stops at the first position of another lane. *)
laneHits_AnyLane ==
  {r \in DOMAIN b.positions : \A i \in 0 .. r : b.positions[i] % LaneCount = lane}

(* The entries of the list that belong to the lane, up to one that is past *)
(* pos's row.                                                              *)
laneHits ==
  {r \in DOMAIN b.positions :
     /\ b.positions[r] % LaneCount = lane
     /\ \A i \in 0 .. r : b.positions[i] % LaneCount = lane =>
                            b.positions[i] \div LaneCount <= posInLane}

(* applyLaneExceptions, and the sums of the lane. *)
LaneExceptions ==
  /\ pc = "laneExceptions"
  /\ \E found \in {[p \in DOMAIN patch |->
                      IF p > pos THEN {}
                      ELSE IF b.excCount <= excBitmapThreshold
                           THEN {r \in laneHits : b.positions[r] = p}
                           ELSE foundInBitmap(p)]} :
       /\ patch' = found
       /\ clamped' = \/ clamped \/ packedEnd(pos) > utlPayloadBytes(b.bitWidth)
                      \/ \E p \in DOMAIN found : \E r \in found[p] : CutsOff(r)
  /\ Continue("got")
  /\ UNCHANGED <<input, part, window, limit, touched, start2>>

(* getUint32FullUnpack, getFullUnpackViaBlock: the slice has been cut to   *)
(* the block already.                                                      *)
FullUnpack ==
  /\ pc = "full"
  /\ window' = limit
  /\ Continue("Unpack")
  /\ UNCHANGED <<input, part, limit, touched, clamped, patch, start2>>

GetUnpacked ==
  /\ pc = "unpacked" /\ Calls[call] = "Get"
  /\ touched' = [touched EXCEPT !.dst = {pos}]
  /\ Continue("got")
  /\ UNCHANGED <<input, part, window, limit, clamped, patch, start2>>

block1Len ==
  metaOff + utlPayloadBytes(b.bitWidth)
    + IF b.excCount > 0 THEN Lower(b.excCount, excBitmapThreshold) + b.svbLen ELSE 0

Got(start) ==
  Return([NoAnswer EXCEPT !.patch = patch, !.start2 = start, !.exact = ~clamped])

GetFirst ==
  /\ pc = "got" /\ part = 1
  /\ IF hasCombine THEN Second(block1Len)
     ELSE Got(0) /\ UNCHANGED <<part, window, limit, touched, patch, start2>>
  /\ UNCHANGED <<input, clamped>>

GetSecond ==
  /\ pc = "got" /\ part = 2
  /\ Got(start2)
  /\ UNCHANGED <<input, part, window, limit, touched, clamped, patch, start2>>

-----------------------------------------------------------------------------
(* BlockLength goes by the type in the header, whoever reads the block.    *)

is64  == src.first.intType = IntTypeUint64
isTwo == is64 /\ src.first.combine

(* Reserved bits and, but for pairs, the combine bit must be zero. *)
flagError ==
  src.first.reserved \/ src.first.block256 \/ (src.first.combine /\ ~is64)

(* Broken: a byte per exception, also for a bitmap. *)
lengthIndexSize_NoBitmap(excCount) == excCount

lengthIndexSize(excCount) == IF excCount > excBitmapThreshold THEN excBitmapThreshold ELSE excCount

lengthOff ==
  payloadOffset(IF isFor64SingleBlock(src.first) THEN for64BaseSize
                ELSE forBaseBytes(src.first.forWidth), src.first.excCount > 0, isTwo)

lengthError ==
  IF src.len < headerBytes THEN "ErrInvalidBuffer"
  ELSE IF src.first.count > blockSize THEN "ErrInvalidBlockLength"
  ELSE IF src.first.bitWidth > WordBits THEN "ErrInvalidBuffer"
  ELSE IF flagError THEN "ErrInvalidFlags"
  ELSE IF \/ src.first.excCount > 0 /\ src.len < headerBytes + svbLenBytes
          \/ isTwo /\ src.len < lengthOff
       THEN "ErrInvalidBuffer"
  ELSE "none"

BlockLength ==
  /\ pc = "call" /\ Calls[call] = "BlockLength"
  /\ IF lengthError # "none" THEN Fail(lengthError)
     ELSE Return([NoAnswer EXCEPT !.len =
            lengthOff + utlPayloadBytes(src.first.bitWidth)
              + (IF src.first.excCount > 0
                 THEN lengthIndexSize(src.first.excCount) + src.first.svbLen ELSE 0)
              + (IF isTwo THEN src.block2Len ELSE 0)])
  /\ UNCHANGED <<input, part, window, limit, touched, clamped, patch, start2>>

-----------------------------------------------------------------------------
Next == \/ Start \/ BlockLength
        \/ UnpackHeader \/ DecodeSVB \/ PatchList \/ PatchBitmap \/ UnpackSums
        \/ UnpackFirst \/ UnpackSecond
        \/ GetHeader \/ GetDirect \/ WalkLane \/ LaneExceptions \/ FullUnpack
        \/ GetUnpacked \/ GetFirst \/ GetSecond

Spec == Init /\ [][Next]_vars

-----------------------------------------------------------------------------
(* Properties. *)

(* Every variable keeps its type, and every slice that is read lies in the *)
(* buffer (uint64.go:208-214, 424-433).                                    *)
TypeOK ==
  /\ api64 \in BOOLEAN /\ pos \in Positions /\ wide \in Thresholds
  /\ call \in 1 .. 4 /\ part \in {1, 2} /\ clamped \in BOOLEAN
  /\ start2 \in 0 .. src.len /\ window \in 0 .. src.len - start2
  /\ limit \in 0 .. window
  /\ \A c \in 1 .. 3 : answers[c].len \in Nat /\ answers[c].start2 \in 0 .. src.len

(* Whatever the buffer holds, no reader indexes past a slice with what it  *)
(* has read from it: the bytes of the block, the values, the decoded high  *)
(* bits, the words of the lane; but for a lane walk in a block that claims *)
(* more than blockSize values (exceptions.go:198-246, 248-290,             *)
(* unpack_block.go:120-139, get.go:141-157, 258).                          *)
ReadsValidated ==
  /\ touched.src < limit
  /\ touched.dst \subseteq 0 .. Lower(b.count, blockSize) - 1
  /\ touched.high < Lower(b.excCount, blockSize)
  /\ b.count <= blockSize => touched.lane < utlValuesPerLane

(* "Neither GetUint32 nor GetUint64 may panic regardless of input"         *)
(* (corrupt_test.go:318).                                                  *)
NeverPanics == pc # "panic"

WellFormedIndex(x) ==
  IF x.excCount <= excBitmapThreshold
  THEN \A r \in DOMAIN x.positions :
         x.positions[r] < x.count /\ \A i \in 0 .. r - 1 : x.positions[i] < x.positions[r]
  ELSE Cardinality(x.bitmap) = x.excCount /\ \A p \in x.bitmap : p < x.count

Relevant(x) == {p \in DOMAIN NoPatch : IF x.delta THEN p <= pos ELSE p = pos}

(* A block that Unpack accepts gives Get every one of its values: from the *)
(* same second block, with no read cut off and, if the exception index is  *)
(* one that a packer writes, with the same exceptions patched in along the *)
(* lane, whichever path Get takes (get.go:84-180, 218-339,                 *)
(* exceptions.go:188-325, svb.go:42-90).                                   *)
UnpackedIsGettable ==
  AllDone /\ answers[1].err = "none" /\ pos \in 0 .. src.first.count - 1 =>
    /\ answers[2].err = "none" /\ answers[2].exact
    /\ answers[2].start2 = answers[1].start2
    /\ LET last == IF api64 /\ src.first.combine THEN src.second ELSE src.first
       IN  WellFormedIndex(last) =>
             \A p \in Relevant(last) : answers[2].patch[p] = answers[1].patch[p]

(* BlockLength skips what Unpack consumes: a walk over blocks by either    *)
(* finds the same next one.  They differ on the empty block, and           *)
(* BlockLength alone rejects reserved bits (block_length.go:8-65).         *)
SkipsWholeBlock ==
  AllDone /\ answers[1].err = "none" /\ src.first.count > 0 =>
    /\ answers[3].err \in {"none", "ErrInvalidFlags"}
    /\ answers[3].err = "none" => answers[3].len = answers[1].len

(* The control codes ask for no more data than svbLen says. *)
WellFormedStream(x) ==
  LET WithByte(k) == Cardinality({i \in DOMAIN x.codes : x.codes[i] >= k})
  IN  svbControlByteCount(x.excCount) + WithByte(1) + WithByte(2) + WithByte(3) + WithByte(4)
        <= x.svbLen

(* "When it succeeds on a truncated buffer, that value must match the      *)
(* untruncated block, because Get validates every region it reads before   *)
(* reading it": a Get that succeeds on a block whose stream is as long as  *)
(* it says has cut off no read, however short the buffer                   *)
(* (corrupt_test.go:167-170, get.go:47-61, svb.go:72-97).                  *)
TruncatedGetIsExact ==
  AllDone /\ answers[2].err = "none" /\ src.first.count <= blockSize
    /\ WellFormedStream(src.first) /\ (src.first.combine => WellFormedStream(src.second))
    /\ (api64 /\ src.first.combine => src.second.count <= blockSize)
  => answers[2].exact
=============================================================================

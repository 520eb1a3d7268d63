----------------------------- MODULE UTLFormat ------------------------------
(***************************************************************************)
(* The wire format of a UTL-PFOR block: its dimensions, the sizes of its   *)
(* regions and the offsets at which writers and readers place them         *)
(* (header.go, and the size helpers of exceptions.go, svb.go, scalar.go).  *)
(*                                                                         *)
(* A block holds up to blockSize values in LaneCount lanes of eight rows;  *)
(* its payload is a whole number of steps of StepBits bits per value, one  *)
(* superword per step.  The code fixes LaneCount = 16 and StepBits = 4.    *)
(* Everything else follows from the two: a word has eight steps and four   *)
(* bytes, so smaller dimensions keep every ratio of the format (bytes of   *)
(* payload per value and step, bytes of the exception bitmap, FOR widths)  *)
(* and the cost model takes the same decisions on them.                    *)
(***************************************************************************)
EXTENDS Integers, FiniteSets

CONSTANTS LaneCount,   \* utlLaneCount: 16 in the code
          StepBits     \* bits per step of the bitwidth: 4 in the code

utlValuesPerLane == 8
blockSize == LaneCount * utlValuesPerLane
Pos == 0 .. blockSize - 1

(* A uint32 has 8 steps of StepBits bits and 4 bytes. *)
WordBits == 8 * StepBits
ByteBits == 2 * StepBits

ASSUME DimensionAssumption ==
  /\ LaneCount \in Nat \ {0}
  /\ StepBits \in Nat \ {0}
  /\ (4 * LaneCount) % StepBits = 0    \* the bitmap is whole bytes

-----------------------------------------------------------------------------
(* Sizes, in bytes. *)

utlSuperWordBytes  == 4 * LaneCount
headerBytes        == 4
svbLenBytes        == 2
block2LenBytes     == 2
excBitmapThreshold == blockSize \div ByteBits   \* also the bitmap's bytes

forWidthNone == 0
forWidthU8   == 1
forWidthU16  == 2
forWidthU32  == 3

(* The base of a block that FOR64 wraps. *)
for64BaseSize == 8

IntTypeUint8  == 0
IntTypeUint16 == 1
IntTypeUint32 == 2
IntTypeUint64 == 3

StepWidths == {StepBits * si : si \in 0 .. 8}

utlPayloadBytes(bitWidth) ==
  ((bitWidth + StepBits - 1) \div StepBits) * utlSuperWordBytes

(* (1 << forWidth) >> 1 *)
forBaseBytes(forWidth) == CASE forWidth = forWidthNone -> 0
                            [] forWidth = forWidthU8   -> 1
                            [] forWidth = forWidthU16  -> 2
                            [] forWidth = forWidthU32  -> 4

excIndexSize(excCount) ==
  IF excCount <= excBitmapThreshold THEN excCount ELSE excBitmapThreshold

svbControlByteCount(count) == (count + 3) \div 4

(* streamvbyte.MaxEncodedLen: control bytes, and four bytes per value. *)
maxSVBEncodedLen(count) == svbControlByteCount(count) + 4 * count

payloadOffset(forBBytes, hasExceptions, hasCombine) ==
  headerBytes + (IF hasExceptions THEN svbLenBytes ELSE 0)
              + forBBytes
              + (IF hasCombine THEN block2LenBytes ELSE 0)

-----------------------------------------------------------------------------
(* The bound on a block's length that callers and the Append path trust. *)

(* Broken: patching never costs, so that the unpatched length would do.    *)
MaxBlockLength32_Unpatched(flag) ==
  headerBytes + (IF "NoFOR" \in flag THEN 0 ELSE forBaseBytes(forWidthU32))
              + utlPayloadBytes(WordBits)

MaxBlockLength32(flag) ==
  LET base == IF "NoFOR" \in flag THEN 0 ELSE forBaseBytes(forWidthU32)
  IN  IF "NoPatch" \in flag
      THEN headerBytes + base + utlPayloadBytes(WordBits)
      ELSE headerBytes + svbLenBytes + base
             + utlPayloadBytes(WordBits - StepBits)
             + excBitmapThreshold + maxSVBEncodedLen(blockSize)

maxBlockLen32 == MaxBlockLength32({})

(* Broken: room for one block and the base of FOR64. *)
MaxBlockLength64_OneBlock(flag) == MaxBlockLength32(flag) + 2 * forBaseBytes(forWidthU32)

MaxBlockLength64(flag) == 2 * MaxBlockLength32(flag) + block2LenBytes
=============================================================================

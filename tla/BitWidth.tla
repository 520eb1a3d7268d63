------------------------------ MODULE BitWidth ------------------------------
(***************************************************************************)
(* The values of a block as machine words, and the two decisions the       *)
(* packers take from them: the step bitwidth with its exceptions           *)
(* (select_bitwidth.go) and the frame of reference (for.go).               *)
(*                                                                         *)
(* A slice of n values is a function with domain 0 .. n-1.                 *)
(***************************************************************************)
EXTENDS UTLFormat

Modulus == 2 ^ WordBits
Word    == 0 .. Modulus - 1

(* Powers of two, to which no prover gives a meaning: they are positive,   *)
(* and exponents add.                                                      *)
ASSUME PowerAssumption ==
  \A b \in 0 .. WordBits :
    /\ 2 ^ b \in Nat \ {0}
    /\ \A c \in 0 .. b : 2 ^ b = 2 ^ c * 2 ^ (b - c)

(* Broken: the difference does not wrap around.                            *)
Minus_NoWrap(a, b) == a - b

(* + and - on uint32 wrap around. *)
Plus(a, b)  == IF a + b < Modulus THEN a + b ELSE a + b - Modulus
Minus(a, b) == IF b <= a THEN a - b ELSE a - b + Modulus

Slice(n)    == [0 .. n - 1 -> Word]
SliceLen(s) == Cardinality(DOMAIN s)
ValuesOf(s) == {s[i] : i \in DOMAIN s}

-----------------------------------------------------------------------------
(* Step bitwidths and exceptions. *)

(* The values that do not fit in bitWidth bits: the threshold comparisons  *)
(* of buildExcCounts, and collectAndWriteExceptions' test v > mask.        *)
Exceptions(s, bitWidth) == {i \in DOMAIN s : s[i] > 2 ^ bitWidth - 1}

excCount(s, bitWidth) == Cardinality(Exceptions(s, bitWidth))

(* The least step that fits the OR of all values. *)
maxStepIdx(s) ==
  CHOOSE si \in 0 .. 8 :
    /\ Exceptions(s, StepBits * si) = {}
    /\ \A sj \in 0 .. si - 1 : Exceptions(s, StepBits * sj) # {}

selectBitWidthNoPatch(s) == StepBits * maxStepIdx(s)

(* Indexed from 1 here and from 0 in the code. *)
excCostBytesPerValue == <<1, 1, 1, 2, 2, 3, 3, 4, 4>>

(* Broken: the index of the exceptions is not counted.                     *)
estimateExceptionCost_NoIndex(n, stepDelta) ==
  svbLenBytes + svbControlByteCount(n) + n * excCostBytesPerValue[stepDelta + 1]

estimateExceptionCost(n, stepDelta) ==
  svbLenBytes + excIndexSize(n) + svbControlByteCount(n)
    + n * excCostBytesPerValue[stepDelta + 1]

(* The estimated length of the block packed at step si, where top is the   *)
(* step that needs no exceptions.                                          *)
StepCost(s, top, si) ==
  headerBytes + si * utlSuperWordBytes
    + IF si = top THEN 0
      ELSE estimateExceptionCost(excCount(s, StepBits * si), top - si)

(* The loop runs downwards and replaces its best on "<": the cheapest step *)
(* up to the top one, and the widest of several that cost the same.        *)
BestStep(s) ==
  LET top  == maxStepIdx(s)
      cost == [si \in 0 .. top |-> StepCost(s, top, si)]
  IN  CHOOSE si \in 0 .. top :
        \A sj \in 0 .. top : \/ cost[si] < cost[sj]
                             \/ cost[si] = cost[sj] /\ sj <= si

selectBitWidth(s) == StepBits * BestStep(s)

-----------------------------------------------------------------------------
(* Frame of reference. *)

SliceMin(s) == CHOOSE m \in ValuesOf(s) : \A v \in ValuesOf(s) : m <= v
SliceMax(s) == CHOOSE m \in ValuesOf(s) : \A v \in ValuesOf(s) : v <= m

(* roundUpToStep(bits.Len32(v)) *)
StepOf(v) == CHOOSE bw \in StepWidths :
               v < 2 ^ bw /\ \A c \in StepWidths : v < 2 ^ c => bw <= c

(* Broken: the width of a base of one bit more. *)
selectFORWidth_Boundary(v) ==
  IF v = 0 THEN forWidthNone
  ELSE IF v <= 2 ^ ByteBits THEN forWidthU8
  ELSE IF v <= 2 ^ (2 * ByteBits) THEN forWidthU16
  ELSE forWidthU32

(* The bytes of v, three rounded up to four. *)
selectFORWidth(v) ==
  IF v = 0 THEN forWidthNone
  ELSE IF v < 2 ^ ByteBits THEN forWidthU8
  ELSE IF v < 2 ^ (2 * ByteBits) THEN forWidthU16
  ELSE forWidthU32

(* Broken: compares with the widest value only, not with patching.         *)
UseFOR_VersusMax(s) ==
  SliceMin(s) # 0 /\ StepOf(SliceMax(s) - SliceMin(s)) < StepOf(SliceMax(s))

(* decideFORFull *)
UseFOR(s) ==
  LET forMaxStep == StepOf(SliceMax(s) - SliceMin(s))
  IN  /\ SliceMin(s) # 0
      /\ forMaxStep < StepOf(SliceMax(s))
      /\ forMaxStep < selectBitWidth(s)

forSubtract(s, base) == [i \in DOMAIN s |-> Minus(s[i], base)]
forAdd(s, base)      == [i \in DOMAIN s |-> Plus(s[i], base)]

-----------------------------------------------------------------------------
(* Zigzag: the signed word v as 0, -1, 1, -2, ... |-> 0, 1, 2, 3, ...      *)

zigzagEncode32(v) == IF 2 * v < Modulus THEN 2 * v ELSE 2 * (Modulus - v) - 1
zigzagDecode32(z) == IF z % 2 = 0 THEN z \div 2 ELSE Modulus - (z + 1) \div 2
=============================================================================

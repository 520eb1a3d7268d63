-------------------------- MODULE DeltaKernelsInv --------------------------
(***************************************************************************)
(* The inductive invariant of DeltaKernels: which words a loop has left    *)
(* behind it, by row and column, and that those are differences or sums    *)
(* of what it was given, and the others as they were.                      *)
(***************************************************************************)
EXTENDS DeltaKernels

RowOf(i)  == i \div LaneCount
ColOf(i)  == i % LaneCount

(* The words that each of the loops has come past.                         *)
Encoded(i) ==
  /\ i >= LaneCount
  /\ IF UseVectors THEN RowOf(i) > row
                   ELSE ColOf(i) < lane \/ (ColOf(i) = lane /\ RowOf(i) > row)

Decoded(i) ==
  IF UseVectors THEN RowOf(i) < row
  ELSE IF needZigZag THEN ColOf(i) < lane \/ (ColOf(i) = lane /\ RowOf(i) < row)
  ELSE RowOf(i) < row \/ (RowOf(i) = row /\ ColOf(i) < lane)

Sums == PrefixSums(given, needZigZag)

(* A word that a decoder has still to add.                                 *)
Pending(i) ==
  IF UseVectors /\ needZigZag THEN zigzagDecode32(given[i]) ELSE given[i]

-----------------------------------------------------------------------------
GivenInv ==
  /\ \E n \in 1 .. blockSize : given \in Slice(n) /\ values \in Slice(n)
  /\ pc \in {"encode", "encoded", "unzigzag", "decode", "done"}
  /\ level \in Levels /\ needZigZag \in BOOLEAN

LoopInv ==
  /\ lane \in 0 .. LaneCount
  /\ pc = "encode" => row \in (IF UseVectors THEN 0 ELSE 1) .. utlValuesPerLane - 1
  /\ pc \in {"encoded", "unzigzag"} => row = 0
  /\ pc = "decode" => row \in (IF needZigZag /\ ~UseVectors THEN 0 ELSE 1) .. utlValuesPerLane
  /\ pc \in {"encoded", "unzigzag"} \/ UseVectors => lane = 0
  /\ pc = "encode" /\ ~UseVectors /\ lane = LaneCount => row = utlValuesPerLane - 1

EncodeInv ==
  /\ pc = "encode" =>
       /\ \A i \in DOMAIN given :
            values[i] = IF Encoded(i) THEN Minus(given[i], given[i - LaneCount]) ELSE given[i]
       /\ needZigZag <=> \E i \in DOMAIN given : Encoded(i) /\ given[i] < given[i - LaneCount]
  /\ pc = "unzigzag" => values = given

DecodeInv ==
  pc = "decode" =>
    \A i \in DOMAIN given : values[i] = IF Decoded(i) THEN Sums[i] ELSE Pending(i)

(* What has been found of the additions that wrap: by the vector loops the *)
(* lanes of each row, by the scalar one the first of them.                 *)
OverflowInv ==
  /\ masks \in [Rows -> SUBSET Lanes]
  /\ pc # "done" =>
       \A v \in Rows :
         masks[v] = IF pc = "decode" /\ UseVectors /\ ~needZigZag /\ v \in 1 .. row - 1
                    THEN {l \in Lanes : v * LaneCount + l \in Wraps} ELSE {}
  /\ pc # "done" /\ (pc = "decode" => UseVectors \/ needZigZag) => overflowPos = 0
  /\ pc = "decode" /\ ~UseVectors /\ ~needZigZag =>
       /\ overflowPos = 0 \/ (overflowPos \in Wraps /\ Decoded(overflowPos))
       /\ \A i \in Wraps : Decoded(i) => overflowPos # 0 /\ overflowPos <= i

(* The inductive invariant: the words behind a loop are its results, those *)
(* ahead of it its input, at every level and in every order of the loops   *)
(* (delta.go:21-115, simd_sse2_amd64.go:201-317, simd_avx2_amd64.go:215).  *)
DeltaInv ==
  /\ GivenInv /\ LoopInv /\ EncodeInv /\ DecodeInv /\ OverflowInv
  /\ KernelsEncode /\ KernelsDecode /\ FirstOverflowReported
=============================================================================

--------------------------- MODULE LaneKernelsInv ---------------------------
(***************************************************************************)
(* The inductive invariant of LaneKernels: which words of which lanes a    *)
(* packing loop has stored, and which values an unpacking loop has read,   *)
(* at every turn of every loop.                                            *)
(***************************************************************************)
EXTENDS LaneKernels

Scalar  == level = "scalar"
Generic == ~Scalar /\ ~Unrolled

(* The lanes of a group, and how many groups there are: pairs or vectors.  *)
LanesOf(g) == IF Scalar THEN Pair(g) ELSE VectorLanes(level, g)
Groups     == IF Scalar THEN LaneCount \div 2 ELSE Vectors(level)
Finished(l) == \E g \in 0 .. group - 1 : l \in LanesOf(g)

(* A generic loop has no groups; the others leave the last one at row 0.   *)
(* Only the scalar loops use the accumulators, and they begin empty.       *)
LoopInv ==
  /\ pc \in {"start", "packed", "done"} => group = 0 /\ row = 0
  /\ pc \in {"pack", "unpack"} => bitWidth > 0
  /\ group \in 0 .. Groups
  /\ Generic => group = 0
  /\ group = Groups => row = 0
  /\ pc \in {"pack", "unpack"} /\ Unrolled => row < PayloadWords
  /\ row = 0 \/ ~Scalar => acc = NoBits /\ bitsInAcc = 0 /\ wordIdx = 0

Stored(w, l) ==
  Finished(l) \/ (l \in LanesOf(group) /\ w < IF Unrolled THEN row ELSE wordIdx)

(* What has been stored is final, but a generic loop has stored the bits   *)
(* of its first rows in every word.                                        *)
PackInv ==
  pc = "pack" =>
    \A w \in 0 .. PayloadWords - 1, l \in Lanes :
      IF Generic
      THEN payload[w][l] = {b \in Stream(l, w * WordBits, WordBits) :
                              w * WordBits + b < row * bitWidth}
      ELSE Stored(w, l) => payload[w][l] = Stream(l, w * WordBits, WordBits)

(* Row v of lane l has been read. *)
ValueRead(v, l) ==
  IF Generic THEN v < row
  ELSE \/ Finished(l)
       \/ l \in LanesOf(group) /\ row > IF Unrolled THEN Layout(v).word ELSE v

UnpackInv ==
  \A i \in Pos :
    LET v == i \div LaneCount
        l == i % LaneCount
    IN  (pc = "unpack" /\ ValueRead(v, l)) \/ pc = "done" => dst[i] = Val(v, l)

(* Every kernel of every level and width, at every turn of its loops: the  *)
(* words that it has stored are the lanes' streams, the values that it has *)
(* read are those of the slice (scalar.go:20-115, simd_spec_amd64.go,      *)
(* simd_sse2_amd64.go:13-113).                                             *)
KernelInv ==
  TypeOK /\ LoopInv /\ PackInv /\ PayloadCanonical /\ AccumulatorHoldsStream /\ UnpackInv
=============================================================================

--------------------------- MODULE MCBlock32Reuse ---------------------------
(***************************************************************************)
(* Instances of Block32 for a compressor that is used again and again: the *)
(* second block is packed over what the first one and its readers left in  *)
(* scratch.                                                                *)
(***************************************************************************)
EXTENDS MCBlock32

(* A partial block without exceptions, one with a bitmap of them, and full *)
(* blocks with a list of exceptions and with deltas that wrap.             *)
ReuseInputs ==
  { <<>>,
    Shape(LaneCount + 1, 5, 1, 0, {}, 0),
    Shape(blockSize - 1, 0, 1, 0, many, 250),
    Shape(blockSize, 3, 0, 0, few, 250),
    Shape(blockSize, 70, 255, 0, few, 250) }

ReuseFlagSets == {{}, {"Delta"}, {"Append"}, {"Delta", "NoInPlace", "Special"}}

ReusePositions == {0, 5 * LaneCount, blockSize - 2}

(* Scratch as make([]uint32, n) and as another compressor left it.         *)
ReuseGarbage == {Filled(0), [i \in 0 .. 2 * blockSize - 1 |-> 255 - i]}
=============================================================================

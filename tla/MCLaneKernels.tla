--------------------------- MODULE MCLaneKernels ----------------------------
(***************************************************************************)
(* Words of 32 bits in 16 lanes, as in the code.  The widths are the nine  *)
(* steps and three others, for the generic loops.                          *)
(***************************************************************************)
EXTENDS LaneKernelsInv

(* All bits; bits that differ between neighbouring rows and lanes and do   *)
(* not repeat with any width; and a slice that ends within a row and holds *)
(* little more than the first and the last bits of words.                  *)
MCInputs ==
  { [vals |-> [i \in Pos |-> Bits], count |-> blockSize],
    [vals |-> [i \in Pos |-> {b \in Bits : (b * b + 3 * b * i + 5 * i) % 7 < 3}], count |-> blockSize],
    [vals |-> [i \in Pos |-> {b \in Bits : i < 75 /\ (b + i) % 5 = 0}], count |-> 75] }

MCBitWidths == StepWidths \cup {1, 13, 31}
MCLevels    == {"scalar", "sse2", "avx2", "avx512"}
MCStale     == {Bits, {b \in Bits : b % 2 = 0}}
=============================================================================

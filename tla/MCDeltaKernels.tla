--------------------------- MODULE MCDeltaKernels ---------------------------
(***************************************************************************)
(* Words of 8 bits in 8 lanes: two lanes per SSE2 vector, four per AVX2    *)
(* vector.  Received blocks wrap at every pair of positions.               *)
(***************************************************************************)
EXTENDS DeltaKernelsInv

Max8 == Modulus - 1

Upto(n, F(_)) == [i \in 0 .. n - 1 |-> F(i)]

(* Ascending; one descent, at every position in turn; up and down by more  *)
(* than half the range; and slices that end within a row.                  *)
MCWritten ==
  {Upto(n, LAMBDA i : 4 * i) : n \in {1, 3, LaneCount, LaneCount + 1, blockSize - 1, blockSize}}
    \cup {Upto(blockSize, LAMBDA i : IF i = d THEN 0 ELSE 3 * i + 1) : d \in Pos}
    \cup {Upto(n, LAMBDA i : (i * 151) % Modulus) : n \in {2 * LaneCount + 1, blockSize}}

(* Small differences with a large one at one or two places of all.         *)
MCReceived ==
  {Upto(blockSize, LAMBDA i : IF i \in {p, q} THEN Max8 - 1 ELSE (i % 3) + 1) : p, q \in Pos}
    \cup {Upto(n, LAMBDA i : IF i \in {n - 1, LaneCount + 1} THEN Max8 ELSE 2)
            : n \in {2, LaneCount + 2, blockSize - 2}}

MCLevels == {"scalar", "sse2", "avx2", "avx512"}
=============================================================================

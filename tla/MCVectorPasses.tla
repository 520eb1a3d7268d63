--------------------------- MODULE MCVectorPasses ---------------------------
(***************************************************************************)
(* Words of 8 bits; every length up to one past twice the longest chunk's  *)
(* half, and around the multiples of all chunks.                           *)
(***************************************************************************)
EXTENDS VectorPassesInv

Lengths == 1 .. 10 \cup {15, 16, 17, 19, 31, 32, 33, 35, 47, 48, 63, 64, 65, 127, 128}

(* The places where chunks, lanes and tails begin and end. *)
Places(len) == {p \in {0, 1, 3, 4, 7, 8, 15, 16, 31, 32, 33, 47, 63, 64, 127} : p < len}
                 \cup {len - 1}

(* One small and one large value among values that need neighbouring       *)
(* steps; slices where most values are exceptions to a small width; and    *)
(* slices for which the frame of reference pays.                           *)
MCSlices32 ==
  {[i \in 0 .. len - 1 |-> 100 + (i % 40)] : len \in Lengths \cup {96, 104, 112}}
    \cup UNION {{[i \in 0 .. len - 1 |-> IF i = p THEN 60 ELSE IF i = q THEN 133 ELSE 100 + (i % 11)]
            : p \in Places(len), q \in {0, len - 1}} : len \in Lengths}
    \cup UNION {{[i \in 0 .. len - 1 |-> IF i % m = 0 THEN 200 + (i % 5) ELSE i % 4]
                   : m \in {2, 7, 20}} : len \in Lengths}
    \cup {[i \in 0 .. len - 1 |-> IF i = p THEN 255 ELSE 0] : len \in {1, 9, 33}, p \in {0, 32}}

MCSlices64 ==
  UNION {{[i \in 0 .. len - 1 |-> IF i = p THEN 255 ELSE IF i = q THEN 256 * 3 + 1 ELSE 260 + i]
            : p \in Places(len), q \in {0, len - 1}} : len \in Lengths}
    \cup UNION {{[i \in 0 .. len - 1 |-> IF i = p THEN 256 ELSE 7] : p \in Places(len)}
                  : len \in Lengths}

MCLevels == {"scalar", "sse2", "avx2", "avx512"}
=============================================================================

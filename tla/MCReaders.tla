----------------------------- MODULE MCReaders ------------------------------
(***************************************************************************)
(* Blocks as packers write them, in the dimensions of the code; each with  *)
(* one field changed to another value that its bytes can have; and all cut *)
(* off before, at and after the ends of their regions.                     *)
(***************************************************************************)
EXTENDS ReadersInv

(* n exceptions: every eighth value, or the first of three, or all. *)
Position(n, count) ==
  [r \in 0 .. n - 1 |-> IF 8 * n <= count THEN 8 * r ELSE r]

Written(count, bw, type, fw, n, d) ==
  [count |-> count, bitWidth |-> bw, intType |-> type, forWidth |-> fw, excCount |-> n,
   delta |-> d # "none", zigzag |-> d = "zigzag", combine |-> FALSE, reserved |-> FALSE,
   block256 |-> FALSE, wraps |-> FALSE,
   svbLen |-> IF n = 0 THEN 0 ELSE (n + 3) \div 4 + 10 * (n \div 4)
                                    + (CASE n % 4 = 0 -> 0 [] n % 4 = 1 -> 1
                                         [] n % 4 = 2 -> 3 [] n % 4 = 3 -> 6),
   positions |-> Position(n, count),
   bitmap |-> IF n <= 16 THEN {} ELSE {IF 3 * n <= count THEN 3 * r ELSE r : r \in 0 .. n - 1},
   codes |-> [r \in 0 .. n - 1 |-> (r % 4) + 1]]

MCBlocks ==
  {Written(128, bw, 2, 0, n, d) : bw \in {0, 12, 28}, n \in {0, 5, 16, 40, 128}, d \in {"none", "delta"}}
    \cup {Written(40, bw, 2, fw, n, d) : bw \in {4, 20}, fw \in {1, 3}, n \in {0, 3, 20},
                                        d \in {"none", "zigzag"}}
    \cup {Written(128, 32, 2, 0, 0, "delta"), Written(1, 0, 1, 2, 1, "none")}
    \cup {Written(128, bw, 3, fw, n, "delta") : bw \in {8, 24}, fw \in {0, 3}, n \in {0, 4}}

(* A header of more exceptions leaves the rest of the index to chance. *)
MoreExceptions(x, n) ==
  [x EXCEPT !.excCount = n,
            !.positions = [r \in 0 .. n - 1 |-> IF r < x.excCount THEN x.positions[r] ELSE 77],
            !.codes = [r \in 0 .. n - 1 |-> IF r < x.excCount THEN x.codes[r] ELSE 1]]

Changed(x) ==
  {[x EXCEPT !.count = c] : c \in {0, 5, 128, 200, 255}}
    \cup {[x EXCEPT !.bitWidth = w] : w \in {0, 36, 124}}
    \cup {[x EXCEPT !.intType = t] : t \in 0 .. 3}
    \cup {[x EXCEPT !.forWidth = w] : w \in {2}}
    \cup {MoreExceptions(x, n) : n \in {m \in {x.excCount + 1, 255} : m <= 255}}
    \cup {[x EXCEPT !.svbLen = l] : l \in {0, 2, x.svbLen + 1, 65535}}
    \cup {[x EXCEPT !.positions = [r \in DOMAIN x.positions |-> p]] : p \in {16, 77, 128, 255}}
    \cup {[x EXCEPT !.positions = [r \in DOMAIN x.positions |-> 130 - 3 * r]]}
    \cup {[x EXCEPT !.bitmap = s] : s \in {Pos, {}, {3, 16, 64}}}
    \cup {[x EXCEPT !.codes = [r \in DOMAIN x.codes |-> 4]]}
    \cup {[x EXCEPT !.combine = TRUE], [x EXCEPT !.reserved = TRUE],
          [x EXCEPT !.block256 = TRUE], [x EXCEPT !.wraps = TRUE]}

EndOf(x) ==
  payloadOffset(IF isFor64SingleBlock(x) THEN 8 ELSE forBaseBytes(x.forWidth), x.excCount > 0,
                x.combine)
    + utlPayloadBytes(x.bitWidth)
    + IF x.excCount > 0 THEN excIndexSize(x.excCount) + x.svbLen ELSE 0

Single(x, len) == [len |-> len, first |-> x, second |-> x, block2Len |-> 0]

(* Cuts around the ends of the regions. *)
Cuts(x) ==
  {l \in {0, 3, 4, 5, 6, 8, 9, EndOf(x) - x.svbLen - 20, EndOf(x) - x.svbLen - 1,
          EndOf(x) - x.svbLen, EndOf(x) - 1, EndOf(x), EndOf(x) + 7} : l >= 0}

(* The blocks that are changed, too. *)
ChangedBlocks ==
  {Written(128, 12, 2, 0, n, d) : n \in {5, 40}, d \in {"none", "delta"}}
    \cup {Written(128, 24, 2, 1, 16, "delta"), Written(40, 20, 2, 3, 20, "none"),
          Written(40, 8, 2, 0, 3, "zigzag"), Written(128, 8, 3, 3, 4, "delta")}

(* Pairs: either block with an index of its own. *)
Firsts == {[Written(c, bw, 3, fw, n, d) EXCEPT !.combine = TRUE] :
             c \in {40, 128}, bw \in {8, 24}, fw \in {0, 3}, n \in {0, 5}, d \in {"none", "delta"}}
Seconds == {Written(128, 4, 3, 1, 20, "delta"), Written(40, 4, 3, 3, 0, "none"),
            [Written(128, 24, 3, 0, 5, "none") EXCEPT !.svbLen = 9]}

Pairs ==
  {[len |-> EndOf(x) + cut, first |-> x, second |-> y, block2Len |-> l] :
     x \in Firsts \cup {[Written(128, 8, 3, 0, 5, "none") EXCEPT !.combine = TRUE, !.count = 0]},
     y \in Seconds, cut \in {-1, 0, 3, 100, 600}, l \in {0, 3, 100, 540}}

MCSources ==
  UNION {{Single(x, l) : l \in Cuts(x)} : x \in MCBlocks}
    \cup UNION {UNION {{Single(y, l) : l \in {EndOf(x), EndOf(x) + 600}}
                         : y \in {z \in Changed(x) : IsBlock(z)}} : x \in ChangedBlocks}
    \cup Pairs

MCPositions == {-1, 0, 16, 35, 64, 120, 127}

(* Past blockSize, for a header that claims more values. *)
MCFarPositions == {0, 128, 130, 144}
=============================================================================

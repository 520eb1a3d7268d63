----------------------------- MODULE MCBlock64 ------------------------------
(***************************************************************************)
(* Instances of Block64 with two lanes, words of eight bits and bytes of   *)
(* two; a uint64 has sixteen bits.                                         *)
(***************************************************************************)
EXTENDS Block64Inv

(* n words on a line, with the word hi at the outliers. *)
Line(n, first_, slope, at, hi) ==
  [i \in 0 .. n - 1 |-> IF i \in at THEN hi ELSE (first_ + slope * i) % Modulus]

Pair(up, low) == [i \in DOMAIN up |-> up[i] * Modulus + low[i]]

few  == {1, 6}
many == {i \in 0 .. blockSize : i % 3 # 1}

(* Halves that take FOR bases of one and two bytes, differences that fit   *)
(* and do not fit a word, exceptions in neither, in one and in both        *)
(* halves, listed and in a bitmap.                                         *)
Shapes64(n) ==
  { Pair(Line(n, 0, 0, {}, 0), Line(n, 7, 5, {}, 0)),
    Pair(Line(n, 0, 0, {}, 0), Line(n, 0, 0, few, 200)),
    Pair(Line(n, 200, 0, {}, 0), Line(n, 30, 1, many, 250)),
    Pair(Line(n, 9, 0, {1}, 10), Line(n, 40, 0, {1}, 39)),
    Pair(Line(n, 9, 0, {1}, 10), Line(n, 40, 0, {1}, 40)),
    Pair(Line(n, 12, 0, few, 14), Line(n, 130, 1, {}, 0)),
    Pair(Line(n, 2, 0, few, 130), Line(n, 64, 2, many, 3)),
    Pair(Line(n, 0, 0, many, 190), Line(n, 0, 3, few, 255)),
    Pair(Line(n, 1, 16, {}, 0), Line(n, 250, 251, {}, 0)) }

(* Upper halves that take a FOR base of four bytes. *)
HighUppers(n) == Pair(Line(n, 200, 1, {}, 0), Line(n, 7, 5, {}, 0))

Lengths == {1, LaneCount + 1, blockSize - 1, blockSize}

Inputs64 == {<<>>} \cup UNION {Shapes64(n) : n \in Lengths}
FlagSets64 == SUBSET {"Delta", "NoFOR", "NoInPlace"}
                \cup {{"Append"}, {"NoPatch"}, {"NoPatch", "NoFOR", "Append", "Special"}}
Junk64 == {0, Modulus - 1}
Positions64 == {-1, 0, blockSize - 2, blockSize - 1}

InputsHigh == {HighUppers(n) : n \in Lengths}
=============================================================================

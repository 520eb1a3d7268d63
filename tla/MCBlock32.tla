----------------------------- MODULE MCBlock32 ------------------------------
(***************************************************************************)
(* Instances of Block32 with two lanes, words of eight bits and bytes of   *)
(* two.                                                                    *)
(***************************************************************************)
EXTENDS Block32Inv

(* n values on a line that rises by slope per value and by lift per row,   *)
(* with the value hi at the outliers.                                      *)
Shape(n, first, slope, lift, at, hi) ==
  [i \in 0 .. n - 1 |->
     IF i \in at THEN hi
     ELSE (first + slope * i + lift * (i \div LaneCount)) % Modulus]

few  == {3, 6}
many == {i \in 0 .. blockSize : i % 3 # 1}

(* Lines that are flat, rise, fall and wrap, that FOR pays for with bases  *)
(* of one, two and four bytes or does not pay for, with no, one, few and   *)
(* many outliers: a position list, a bitmap, and outliers below the line.  *)
Shapes(n) ==
  { Shape(n, 0, 0, 0, {}, 0),       Shape(n, 200, 0, 0, {}, 0),
    Shape(n, 3, 0, 0, few, 250),    Shape(n, 5, 1, 0, {}, 0),
    Shape(n, 100, 1, 9, {}, 0),     Shape(n, 70, 255, 0, few, 250),
    Shape(n, 0, 1, 0, many, 250),   Shape(n, 70, 0, 9, {0}, 12),
    Shape(n, 4, 0, 0, few, 6),      Shape(n, 0, 0, 0, {2}, 255),
    Shape(n, 9, 0, 30, many, 200) }

Invalid == {<<>>, Shape(blockSize + 1, 0, 0, 0, {}, 0)}

MCInputs == Invalid \cup UNION {Shapes(n) : n \in {1, LaneCount + 1,
                                                   blockSize - 1, blockSize}}
MCFlagSets == SUBSET {"Delta", "NoFOR", "NoPatch", "NoInPlace"}
                \cup {{"Append"}, {"Delta", "Append"}}

Filled(v) == [i \in 0 .. 2 * blockSize - 1 |-> v]
MCGarbage == {Filled(Modulus - 1)}

MCPositions == {-1, 0, 2 * LaneCount + 1, 5 * LaneCount, blockSize - 2,
                blockSize - 1}
=============================================================================

---------------------------- MODULE MCGoroutines ----------------------------
(***************************************************************************)
(* A partial slice and a full one that FOR and the deltas rewrite, with    *)
(* exceptions.                                                             *)
(***************************************************************************)
EXTENDS Goroutines

Flat(n, at) == [i \in 0 .. n - 1 |-> IF i \in at THEN 255 ELSE 200]

MCInputs == {Flat(2 * LaneCount + 1, {2}), Flat(blockSize, {3, 6})}

MCFlagSets == {{"Append"}, {"Delta", "Append"}, {"Delta", "NoFOR", "NoInPlace"}}

MCGarbage == {[i \in 0 .. 2 * blockSize - 1 |-> Modulus - 1]}
=============================================================================

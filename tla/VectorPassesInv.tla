-------------------------- MODULE VectorPassesInv ---------------------------
(***************************************************************************)
(* What holds between the steps of a pass: which elements each accumulator *)
(* stands for, what has been counted, and where the loops have got to.     *)
(***************************************************************************)
EXTENDS VectorPasses

(* r is the minimum, the maximum and the OR of the elements of I.  The     *)
(* minimum means nothing in a function that starts from zero.              *)
Covers(r, I) ==
  /\ r \in [min : DoubleWord, max : DoubleWord, bits : 0 .. 2 * WordBits]
  /\ r.bits = bitsLen(r.max)
  /\ IF I = {} THEN r.max = 0 /\ ~Seeded
     ELSE /\ \E i \in I : r.max = values[i]
          /\ \A i \in I : values[i] <= r.max
          /\ Seeded => /\ \E i \in I : r.min = values[i]
                       /\ \A i \in I : r.min <= values[i]

(* How far the accumulators have got, and the elements of lane l of w. *)
Seen       == IF Seeded /\ off < chunk THEN chunk ELSE off
Lane(w, l) == {j \in 0 .. Seen - 1 : j % w = l}

(* What the counts must be: how often CountIn says one before off. *)
CountsBelow(m) ==
  [si \in 0 .. 8 |-> Cardinality({i \in 0 .. m - 1 : CountIn(values[i], si) = 1})]

(* A pass is called on a slice of its width. *)
Called ==
  /\ n \in 1 .. blockSize
  /\ \/ /\ pass \in Reductions32 \cup Maps32 /\ values \in Slice(n)
        /\ pass = "selectBitWidthWithFOR" => level = "avx512"
     \/ pass \in Reductions64 \cup Maps64 /\ values \in [0 .. n - 1 -> DoubleWord]

(* The loop over chunks stands at a multiple of the chunk; at least one    *)
(* chunk has been taken when it ends.                                      *)
Progress ==
  /\ pc \in {"start", "chunks"} => off % chunk = 0
  /\ pc = "start" => off = 0
  /\ pc \in {"fold", "tail", "done"} => off >= chunk
  /\ pc = "done" => off = n
  /\ pc = "fold" => pass \notin Maps

(* There are w accumulators, one for each lane. *)
LanesOf(w) ==
  DOMAIN regs = 0 .. w - 1 /\ \A l \in 0 .. w - 1 : Covers(regs[l], Lane(w, l))

(* As many accumulators as a chunk has elements, halved down to one.       *)
LanesInv ==
  pass \notin Maps /\ pc # "start" =>
    \E w \in {1, 2, 4, 8, 16, 32} :
      /\ LanesOf(w) /\ w <= chunk
      /\ pc = "chunks" => w = chunk
      /\ pc \in {"tail", "done"} => w = 1

CountsInv == counts = IF Counting THEN CountsBelow(off) ELSE NoCounts

(* The relations between off, the accumulators, the counts and the mapped  *)
(* slice in every phase.                                                   *)
StepInv ==
  /\ pc \in {"start", "chunks", "fold", "tail", "done"}
  /\ level \in Levels /\ off \in 0 .. n
  /\ Called
  /\ Progress
  /\ pass \in Maps \/ pc = "start" => regs = <<>>
  /\ pass \notin Maps \/ pc = "start" => out = <<>>
  /\ LanesInv
  /\ CountsInv
  /\ ElementsOnce

(* The bookkeeping of a pass, from which its results follow: what each     *)
(* accumulator stands for while chunks are taken and lanes are halved, and *)
(* that the loops never pass the end of the slice                          *)
(* (simd_avx512_amd64.go:215-388, simd_avx2_amd64.go:405-453, 537-612).    *)
PassInv == TypeOK /\ StepInv
=============================================================================

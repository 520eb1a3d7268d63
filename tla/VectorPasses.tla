---------------------------- MODULE VectorPasses ----------------------------
(***************************************************************************)
(* The passes over a slice that the pipelines of every SIMD level make     *)
(* apart from packing and delta coding: minimum and maximum, the OR, the   *)
(* counts of values above each step (or the scalar level's histogram), and *)
(* the element-wise maps.  A pass is a loop over whole chunks with one     *)
(* accumulator per lane, a reduction of the lanes, and a scalar tail; each *)
(* function has its own chunk, its own fallback for short slices and its   *)
(* own way to start.  From what they return the packers choose the         *)
(* bitwidth and the frame of reference, so all levels must agree on it.    *)
(***************************************************************************)
EXTENDS BitWidth

CONSTANTS Slices32,  \* slices of words
          Slices64,  \* slices of double words
          Levels,    \* SIMD levels
          Base       \* what forSubtract and forAdd are called with

DoubleWord == 0 .. Modulus * Modulus - 1

ASSUME PassAssumption ==
  /\ Levels \subseteq {"scalar", "sse2", "avx2", "avx512"}
  /\ \A s \in Slices32 : \E n \in 1 .. blockSize : s \in Slice(n)
  /\ \A s \in Slices64 : \E n \in 1 .. blockSize : s \in [0 .. n - 1 -> DoubleWord]
  /\ Base \in Word

(* PowerAssumption for the powers up to Modulus squared. *)
ASSUME DoublePowerAssumption ==
  \A b \in 0 .. 2 * WordBits :
    /\ 2 ^ b \in Nat \ {0}
    /\ \A c \in 0 .. b : 2 ^ b = 2 ^ c * 2 ^ (b - c)

VARIABLES pc,     \* "start", "chunks", "fold", "tail", "done"
          pass,   \* which function runs
          level,
          values, \* the slice
          off,    \* the next element
          regs,   \* the accumulators, per lane
          counts, \* values above each step, or the histogram
          out     \* what a map has made of the slice so far

vars == <<pc, pass, level, values, off, regs, counts, out>>

n == SliceLen(values)

Reductions32 == {"findMinMax", "selectBitWidthNoPatch", "selectBitWidth", "selectBitWidthWithFOR"}
Reductions64 == {"analyzeUint64", "allFitIn32Bits"}
Maps32       == {"forSubtract", "forAdd", "forAdd64", "zigzagEncode", "zigzagDecode"}
Maps64       == {"forSubtract64", "narrowToUint32", "splitUint64", "combineUint64"}
Maps         == Maps32 \cup Maps64

-----------------------------------------------------------------------------
(* How many elements a function takes at a time: its chunk, or the chunk   *)
(* of the function that it calls for a short slice; 1 is the scalar loop.  *)

ChunkOf(size) == IF n >= size THEN size ELSE 1

(* Two registers of each at AVX2 and AVX-512. *)
chunkMinMax(lv) ==
  CASE lv = "scalar" -> 1
    [] lv = "sse2"   -> ChunkOf(4)
    [] lv = "avx2"   -> IF n >= 16 THEN 16 ELSE ChunkOf(4)
    [] lv = "avx512" -> ChunkOf(32)

chunk32(lv) ==
  CASE lv = "scalar" -> 1 [] lv = "sse2" -> ChunkOf(4)
    [] lv = "avx2" -> ChunkOf(8) [] lv = "avx512" -> ChunkOf(16)

chunkAnalyze(lv) ==
  CASE lv = "scalar" -> 1
    [] lv = "sse2"   -> ChunkOf(2)
    [] lv = "avx2"   -> IF n >= 4 THEN 4 ELSE ChunkOf(2)
    [] lv = "avx512" -> IF n >= 8 THEN 8 ELSE IF n >= 4 THEN 4 ELSE ChunkOf(2)

chunkFit32(lv) ==
  CASE lv = "scalar" -> 1 [] lv = "sse2" -> ChunkOf(2)
    [] lv = "avx2" -> ChunkOf(4)
    [] lv = "avx512" -> IF n >= 8 THEN 8 ELSE ChunkOf(4)

(* The AVX-512 pipeline calls AVX2's zigzag. *)
chunkZigzag(lv) ==
  CASE lv = "scalar" -> 1 [] lv = "sse2" -> ChunkOf(4) [] lv \in {"avx2", "avx512"} -> ChunkOf(8)

chunk64(lv, sse2) ==
  CASE lv = "scalar" -> 1 [] lv = "sse2" -> ChunkOf(sse2)
    [] lv = "avx2" -> ChunkOf(4) [] lv = "avx512" -> ChunkOf(8)

chunk ==
  CASE pass = "findMinMax" -> chunkMinMax(level)
    [] pass \in {"selectBitWidthNoPatch", "selectBitWidth", "selectBitWidthWithFOR",
                 "forSubtract", "forAdd"} -> chunk32(level)
    [] pass = "analyzeUint64"  -> chunkAnalyze(level)
    [] pass = "allFitIn32Bits" -> chunkFit32(level)
    [] pass \in {"zigzagEncode", "zigzagDecode"} -> chunkZigzag(level)
    [] pass = "forSubtract64"  -> chunk64(level, 2)
    [] pass \in {"forAdd64", "combineUint64"}        -> chunk64(level, 4)
    [] pass \in {"narrowToUint32", "splitUint64"}    -> chunk64(level, 1)

-----------------------------------------------------------------------------
(* Accumulators. *)

bitsLen(v) == CHOOSE b \in 0 .. 2 * WordBits : v < 2 ^ b /\ (b = 0 \/ v >= 2 ^ (b - 1))

Lower(a, b)  == IF a <= b THEN a ELSE b
Higher(a, b) == IF a >= b THEN a ELSE b

(* Minimum, maximum, and the bit length of the OR. *)
Zero  == [min |-> 0, max |-> 0, bits |-> 0]
Of(v) == [min |-> v, max |-> v, bits |-> bitsLen(v)]

Both(r, s) == [min  |-> Lower(r.min, s.min),
               max  |-> Higher(r.max, s.max),
               bits |-> Higher(r.bits, s.bits)]

(* Functions that load their registers from the first chunk; the others    *)
(* start from zero.                                                        *)
Seeded == pass \in {"findMinMax", "selectBitWidthWithFOR", "analyzeUint64", "allFitIn32Bits"}

(* Broken: the fused pass, too, goes on after the chunk it seeds from.     *)
FirstOff_Fused == IF Seeded THEN chunk ELSE 0

(* The fused pass reads the first chunk twice: for the registers, and      *)
(* again with all others, for the counts.                                  *)
FirstOff == IF Seeded /\ pass # "selectBitWidthWithFOR" THEN chunk ELSE 0

(* exc[si] counts the values above step si's threshold; hist[si] counts    *)
(* those that need exactly step si.                                        *)
NoCounts == [si \in 0 .. 8 |-> 0]
UseHist  == level = "scalar"
Counting == pass \in {"selectBitWidth", "selectBitWidthWithFOR"}

(* Broken: the threshold itself is counted.                                *)
gtCountU32_AtThreshold(v, si) == IF v >= 2 ^ (StepBits * si) - 1 THEN 1 ELSE 0

gtCountU32(v, si) == IF v > 2 ^ (StepBits * si) - 1 THEN 1 ELSE 0

CountIn(v, si) ==
  IF UseHist THEN IF StepOf(v) = StepBits * si THEN 1 ELSE 0
             ELSE gtCountU32(v, si)

(* counts with the elements of I added. *)
Counted(I) ==
  [si \in 0 .. 8 |-> counts[si] + Cardinality({i \in I : CountIn(values[i], si) = 1})]

-----------------------------------------------------------------------------
(* The maps. *)

Mapped(v) ==
  CASE pass = "forSubtract"    -> Minus(v, Base)
    [] pass = "forAdd"         -> Plus(v, Base)
    [] pass = "zigzagEncode"   -> zigzagEncode32(v)
    [] pass = "zigzagDecode"   -> zigzagDecode32(v)
    [] pass = "forSubtract64"  -> (v - Base) % Modulus
    [] pass = "forAdd64"       -> v + Base
    [] pass = "narrowToUint32" -> v % Modulus
    [] pass = "splitUint64"    -> <<v % Modulus, v \div Modulus>>
    [] pass = "combineUint64"  -> v[1] + Modulus * v[2]

(* out with the elements of I mapped, in place. *)
MappedAt(I) == [i \in DOMAIN out |-> IF i \in I THEN Mapped(out[i]) ELSE out[i]]

(* What a map starts from: combineUint64 has the halves in two slices.     *)
MapInput ==
  [i \in DOMAIN values |-> IF pass = "combineUint64"
                           THEN <<values[i] % Modulus, values[i] \div Modulus>> ELSE values[i]]

-----------------------------------------------------------------------------
(* Only AVX-512 decides the frame of reference in one pass; the others     *)
(* call findMinMax and count as selectBitWidth does.                       *)
Init ==
  /\ pc = "start"
  /\ level \in Levels
  /\ \/ /\ pass \in Reductions32 \cup Maps32 /\ values \in Slices32
        /\ pass = "selectBitWidthWithFOR" => level = "avx512"
     \/ pass \in Reductions64 \cup Maps64 /\ values \in Slices64
  /\ off = 0 /\ regs = <<>> /\ counts = NoCounts /\ out = <<>>

Start ==
  /\ pc = "start"
  /\ pc' = "chunks"
  /\ off' = IF pass \in Maps THEN 0 ELSE FirstOff
  /\ regs' = IF pass \in Maps THEN <<>>
             ELSE [l \in 0 .. chunk - 1 |-> IF Seeded THEN Of(values[l]) ELSE Zero]
  /\ out' = IF pass \in Maps THEN MapInput ELSE <<>>
  /\ UNCHANGED <<pass, level, values, counts>>

ReduceChunk ==
  /\ pc = "chunks" /\ pass \notin Maps /\ off + chunk <= n
  /\ regs' = [l \in DOMAIN regs |-> Both(regs[l], Of(values[off + l]))]
  /\ counts' = IF Counting THEN Counted(off .. off + chunk - 1) ELSE counts
  /\ off' = off + chunk
  /\ UNCHANGED <<pc, pass, level, values, out>>

MapChunk ==
  /\ pc = "chunks" /\ pass \in Maps /\ off + chunk <= n
  /\ out' = MappedAt(off .. off + chunk - 1)
  /\ off' = off + chunk
  /\ UNCHANGED <<pc, pass, level, values, regs, counts>>

(* Broken: where a function with a chunk of 4 would end.                   *)
TailStart_ChunkOf4 == IF chunk = 1 THEN 0 ELSE (n \div 4) * 4

(* Broken: the length is rounded up to whole chunks.                       *)
TailStart_RoundedUp == ((n + chunk - 1) \div chunk) * chunk

(* (n / chunk) * chunk, what the chunks cover. *)
TailStart == (n \div chunk) * chunk

EndChunks ==
  /\ pc = "chunks" /\ off + chunk > n
  /\ pc' = IF pass \in Maps THEN "tail" ELSE "fold"
  /\ off' = TailStart
  /\ UNCHANGED <<pass, level, values, regs, counts, out>>

(* Broken: the low half is combined with itself.                           *)
Folded_LowTwice ==
  LET h == Cardinality(DOMAIN regs) \div 2
  IN  [l \in 0 .. h - 1 |-> Both(regs[l], regs[l])]

(* GetLo().Min(GetHi()), or the two halves of the stored lanes.            *)
Folded ==
  LET h == Cardinality(DOMAIN regs) \div 2
  IN  [l \in 0 .. h - 1 |-> Both(regs[l], regs[l + h])]

Fold ==
  /\ pc = "fold"
  /\ IF Cardinality(DOMAIN regs) > 1
     THEN regs' = Folded /\ pc' = pc
     ELSE regs' = regs /\ pc' = "tail"
  /\ UNCHANGED <<pass, level, values, off, counts, out>>

Tail ==
  /\ pc = "tail" /\ off < n
  /\ IF pass \in Maps
     THEN out' = MappedAt({off}) /\ UNCHANGED <<regs, counts>>
     ELSE /\ regs' = [l \in {0} |-> Both(regs[0], Of(values[off]))]
          /\ counts' = IF Counting THEN Counted({off}) ELSE counts
          /\ UNCHANGED out
  /\ off' = off + 1
  /\ UNCHANGED <<pc, pass, level, values>>

Finish ==
  /\ pc = "tail" /\ off >= n
  /\ pc' = "done"
  /\ UNCHANGED <<pass, level, values, off, regs, counts, out>>

Next == Start \/ ReduceChunk \/ MapChunk \/ EndChunks \/ Fold \/ Tail \/ Finish

Spec == Init /\ [][Next]_vars

-----------------------------------------------------------------------------
(* What the packers choose from a pass. *)

(* The candidates from the top step down; a cheaper one replaces the best. *)
Cheapest(top, exc) ==
  LET cost(si) == headerBytes + si * utlSuperWordBytes
                    + IF si = top THEN 0 ELSE estimateExceptionCost(exc[si], top - si)
      best[si \in 0 .. top] ==
        IF si = top THEN top
        ELSE IF cost(si) < cost(best[si + 1]) THEN si ELSE best[si + 1]
  IN  best[0]

(* Running sums of the bins above each candidate. *)
chooseBestFromHist(hist, top) ==
  LET excAbove[si \in 0 .. 8] == IF si >= top THEN 0 ELSE excAbove[si + 1] + hist[si + 1]
  IN  [width |-> StepBits * Cheapest(top, excAbove), exc |-> excAbove[Cheapest(top, excAbove)]]

(* The first count of zero is the top step; exc[8] is never counted up.    *)
chooseBestFromExcCounts(exc) ==
  LET top == CHOOSE si \in 0 .. 8 : (exc[si] = 0 \/ si = 8) /\ \A sj \in 0 .. si - 1 : exc[sj] # 0
  IN  [width |-> StepBits * Cheapest(top, exc), exc |-> exc[Cheapest(top, exc)]]

(* The step that the OR of all values needs. *)
topStep == (regs[0].bits + StepBits - 1) \div StepBits

Chosen ==
  IF UseHist THEN chooseBestFromHist(counts, topStep)
             ELSE chooseBestFromExcCounts(counts)

(* selectBitWidthWithFOR's three tests. *)
ChosenFOR ==
  /\ regs[0].min # 0
  /\ StepOf(regs[0].max - regs[0].min) < StepOf(regs[0].max)
  /\ StepOf(regs[0].max - regs[0].min) < Chosen.width

-----------------------------------------------------------------------------
(* Properties. *)

TypeOK ==
  /\ pc \in {"start", "chunks", "fold", "tail", "done"}
  /\ pass \in Reductions32 \cup Reductions64 \cup Maps
  /\ level \in Levels
  /\ off \in 0 .. n
  /\ \A l \in DOMAIN regs : /\ l \in 0 .. chunk - 1
                           /\ regs[l].min \in DoubleWord /\ regs[l].max \in DoubleWord
                           /\ regs[l].bits \in 0 .. 2 * WordBits
  /\ \A si \in 0 .. 8 : counts[si] \in 0 .. n
  /\ DOMAIN out \in {{}, DOMAIN values}

LeastIn(S)    == CHOOSE x \in S : \A y \in S : x <= y
GreatestIn(S) == CHOOSE x \in S : \A y \in S : x >= y

(* At every point of a reduction each accumulator holds the result for the *)
(* elements its lane has seen, those congruent to it modulo the number of  *)
(* accumulators left, whatever the chunk, the seed and the halving; and    *)
(* the counts are those of the elements before off                         *)
(* (simd_avx512_amd64.go:215-388, simd_avx2_amd64.go:405-453, 537-612).    *)
LanesCover ==
  pass \notin Maps /\ pc # "start" =>
    LET seen == IF Seeded /\ off < chunk THEN chunk ELSE off
        w    == Cardinality(DOMAIN regs)
    IN  /\ \A l \in DOMAIN regs :
             LET S == {values[i] : i \in {j \in 0 .. seen - 1 : j % w = l}}
             IN  S # {} => /\ Seeded => regs[l].min = LeastIn(S)
                           /\ regs[l].max = GreatestIn(S)
                           /\ regs[l].bits = bitsLen(GreatestIn(S))
        /\ Counting => \A si \in 0 .. 8 :
             counts[si] = Cardinality({i \in 0 .. off - 1 : CountIn(values[i], si) = 1})

(* Whatever the level, the packers take the same decisions from a slice:   *)
(* the frame of reference, the bitwidth with its number of exceptions from *)
(* a histogram or from threshold counts, the width without patching, and   *)
(* the path of a uint64 slice (select_bitwidth.go:37-110,                  *)
(* simd_sse2_amd64.go:355-446, 497-575).                                   *)
LevelsAgree ==
  pc = "done" =>
    /\ pass = "findMinMax" => regs[0].min = SliceMin(values) /\ regs[0].max = SliceMax(values)
    /\ pass = "selectBitWidthNoPatch" => topStep * StepBits = selectBitWidthNoPatch(values)
    /\ pass = "selectBitWidth" =>
         Chosen = [width |-> selectBitWidth(values), exc |-> excCount(values, selectBitWidth(values))]
    /\ pass = "selectBitWidthWithFOR" => (ChosenFOR <=> UseFOR(values))
    /\ pass = "analyzeUint64" =>
         /\ regs[0].min = LeastIn(ValuesOf(values)) /\ regs[0].max = GreatestIn(ValuesOf(values))
         /\ regs[0].bits <= WordBits <=> \A i \in DOMAIN values : values[i] \in Word
    /\ pass = "allFitIn32Bits" =>
         (regs[0].bits <= WordBits <=> \A i \in DOMAIN values : values[i] \in Word)

(* A map in place changes every element once: no element is left to the    *)
(* next chunk or taken again by the tail, at any level and length          *)
(* (for.go:127-140, simd_sse2_amd64.go:449-486, 797-870,                   *)
(* simd_avx2_amd64.go:482-520, 906-997, simd_avx512_amd64.go:391-600).     *)
ElementsOnce ==
  pass \in Maps /\ pc \in {"chunks", "tail", "done"} =>
    out = [i \in DOMAIN values |-> IF i < off THEN Mapped(MapInput[i]) ELSE MapInput[i]]
=============================================================================

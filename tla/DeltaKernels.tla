---------------------------- MODULE DeltaKernels ----------------------------
(***************************************************************************)
(* The delta kernels: the scalar loops of delta.go and the vector loops of *)
(* the SSE2 and AVX2 pipelines (the AVX-512 pipeline calls AVX2's).  All   *)
(* work in place, so the order in which they visit the words is part of    *)
(* what they compute; and a decoder that finds additions that wrap has to  *)
(* report the first of them, in an order that does not depend on whether   *)
(* it walks words, or rows of vectors with a mask each.                    *)
(*                                                                         *)
(* A behaviour encodes one slice at the writer's level and decodes it at   *)
(* the reader's, or decodes the words of a block that no writer made.      *)
(***************************************************************************)
EXTENDS UTLBlock

CONSTANTS Written,  \* slices that a writer encodes
          Received, \* words that a reader finds in a delta block
          Levels    \* SIMD levels

ASSUME DeltaAssumption ==
  /\ LaneCount % 4 = 0
  /\ Levels \subseteq {"scalar", "sse2", "avx2", "avx512"}
  /\ \A s \in Written \cup Received : \E n \in 1 .. blockSize : s \in Slice(n)

VARIABLES pc,          \* "encode", "zigzag", "encoded", "unzigzag", "decode", "done"
          level,       \* of the pipeline that runs
          values,      \* the words, in place
          lane, row,   \* the loop variables
          needZigZag,  \* the borrow masks' OR; of a decoder, the header's bit
          masks,       \* the lanes that wrapped, per row
          overflowPos, \* 0 for none
          given        \* what the encoder, and then the decoder, started from

vars == <<pc, level, values, lane, row, needZigZag, masks, overflowPos, given>>

Rows  == 0 .. utlValuesPerLane - 1
Lanes == 0 .. LaneCount - 1

len == SliceLen(values)

(* The pipelines call a vector kernel for full blocks only. *)
UseVectors == level # "scalar" /\ len = blockSize

NoMasks == [v \in Rows |-> {}]

Init ==
  /\ level \in Levels
  /\ lane = 0 /\ masks = NoMasks /\ overflowPos = 0
  /\ \/ /\ pc = "encode" /\ needZigZag = FALSE
        /\ values \in Written
        /\ row = utlValuesPerLane - 1
     \/ /\ pc = "unzigzag" /\ needZigZag \in BOOLEAN
        /\ values \in Received
        /\ row = 0
  /\ given = values

-----------------------------------------------------------------------------
(* Encoding.  Rows are visited downwards: each difference needs the word   *)
(* of the row above as it was.                                             *)

(* One word of deltaEncodePerLaneScalar, lane after lane. *)
EncodeWord ==
  /\ pc = "encode" /\ ~UseVectors /\ lane < LaneCount
  /\ LET cur  == lane + row * LaneCount
         prev == cur - LaneCount
     IN  IF cur >= len
         THEN UNCHANGED <<values, needZigZag>>
         ELSE /\ values' = [values EXCEPT ![cur] = Minus(values[cur], values[prev])]
              /\ needZigZag' = (needZigZag \/ values[cur] < values[prev])
  /\ IF row > 1 THEN row' = row - 1 /\ lane' = lane
                ELSE row' = utlValuesPerLane - 1 /\ lane' = lane + 1
  /\ UNCHANGED <<pc, level, masks, overflowPos, given>>

(* Broken: the words are compared as signed integers.                      *)
Borrows_Signed(v) ==
  LET Signed(w) == IF 2 * w < Modulus THEN w ELSE w - Modulus
  IN  \E l \in Lanes : Signed(values[(v - 1) * LaneCount + l]) > Signed(values[v * LaneCount + l])

(* The OR of the comparisons prev.Greater(cur) over a row. *)
Borrows(v) ==
  \E l \in Lanes : values[(v - 1) * LaneCount + l] > values[v * LaneCount + l]

(* One row of deltaEncodePerLaneSSE2 and AVX2, all vectors of it. *)
EncodeRow ==
  /\ pc = "encode" /\ UseVectors /\ row > 0
  /\ values' = [i \in Pos |-> IF i \div LaneCount = row
                              THEN Minus(values[i], values[i - LaneCount]) ELSE values[i]]
  /\ needZigZag' = (needZigZag \/ Borrows(row))
  /\ row' = row - 1
  /\ UNCHANGED <<pc, level, lane, masks, overflowPos, given>>

EndEncode ==
  /\ pc = "encode"
  /\ IF UseVectors THEN row = 0 ELSE lane = LaneCount
  /\ pc' = "encoded"
  /\ values' = IF needZigZag THEN [i \in DOMAIN values |-> zigzagEncode32(values[i])] ELSE values
  /\ lane' = 0 /\ row' = 0
  /\ UNCHANGED <<level, needZigZag, masks, overflowPos, given>>

-----------------------------------------------------------------------------
(* Decoding, at any level. *)

StartDecode ==
  /\ pc = "encoded"
  /\ pc' = "unzigzag"
  /\ level' \in Levels
  /\ given' = values
  /\ UNCHANGED <<values, lane, row, needZigZag, masks, overflowPos>>

(* The vector kernels undo the zigzag of all words first; the scalar one   *)
(* undoes each as it comes to it.                                          *)
UnZigZag ==
  /\ pc = "unzigzag"
  /\ pc' = "decode"
  /\ values' = IF needZigZag /\ UseVectors
               THEN [i \in Pos |-> zigzagDecode32(values[i])] ELSE values
  /\ row' = IF needZigZag /\ ~UseVectors THEN 0 ELSE 1
  /\ UNCHANGED <<level, lane, needZigZag, masks, overflowPos, given>>

(* Broken: the first row stays in zigzag code.                             *)
Summed_RawFirstRow(cur) ==
  IF row = 0 THEN values[cur] ELSE Plus(values[cur - LaneCount], zigzagDecode32(values[cur]))

Summed(cur) ==
  IF row = 0 THEN zigzagDecode32(values[cur])
  ELSE Plus(values[cur - LaneCount], zigzagDecode32(values[cur]))

(* One word of deltaDecodePerLaneScalar: lane after lane, each to its end. *)
DecodeZigZagWord ==
  /\ pc = "decode" /\ ~UseVectors /\ needZigZag
  /\ lane < LaneCount /\ lane < len
  /\ LET cur == lane + row * LaneCount
     IN  IF row < utlValuesPerLane /\ cur < len
         THEN /\ values' = [values EXCEPT ![cur] = Summed(cur)]
              /\ row' = row + 1 /\ lane' = lane
         ELSE /\ lane' = lane + 1 /\ row' = 0
              /\ UNCHANGED values
  /\ UNCHANGED <<pc, level, needZigZag, masks, overflowPos, given>>

(* Broken: the last addition that wraps is kept.                           *)
FirstWrap_Last(first, cur) ==
  IF Plus(values[cur - LaneCount], values[cur]) < values[cur - LaneCount] THEN cur ELSE first

(* The position that the scalar kernel reports once it has added the word  *)
(* at cur, where first is what it held before.                             *)
FirstWrap(first, cur) ==
  IF first = 0 /\ Plus(values[cur - LaneCount], values[cur]) < values[cur - LaneCount]
  THEN cur ELSE first

(* One word of deltaDecodePerLaneWithOverflowScalar: row after row. *)
DecodeWord ==
  /\ pc = "decode" /\ ~UseVectors /\ ~needZigZag /\ row < utlValuesPerLane
  /\ LET cur == lane + row * LaneCount
     IN  IF lane < LaneCount /\ cur < len
         THEN /\ overflowPos' = FirstWrap(overflowPos, cur)
              /\ values' = [values EXCEPT ![cur] = Plus(values[cur - LaneCount], @)]
              /\ lane' = lane + 1 /\ row' = row
         ELSE /\ row' = row + 1 /\ lane' = 0
              /\ UNCHANGED <<values, overflowPos>>
  /\ UNCHANGED <<pc, level, needZigZag, masks, given>>

(* The bits that a comparison of n lanes from lane l on yields, as ToBits  *)
(* counts them: from bit 0.                                                *)
WrapBits(l, n) ==
  {k \in 0 .. n - 1 : Plus(values[(row - 1) * LaneCount + l + k], values[row * LaneCount + l + k])
                        < values[(row - 1) * LaneCount + l + k]}

Shifted(m, k) == {b + k : b \in m}

(* Two groups of two vectors each. *)
maskSSE2 ==
  LET q == LaneCount \div 4
  IN  UNION {Shifted(WrapBits(g * 2 * q, q), g * 2 * q)
               \cup Shifted(WrapBits(g * 2 * q + q, q), g * 2 * q + q) : g \in {0, 1}}

(* Broken: the second vector's mask is shifted within eight bits.          *)
maskAVX2_Narrow ==
  LET h == LaneCount \div 2 IN WrapBits(0, h) \cup WrapBits(h, h)

(* m0 | m1<<8 *)
maskAVX2 ==
  LET h == LaneCount \div 2 IN WrapBits(0, h) \cup Shifted(WrapBits(h, h), h)

(* One row of a vector decoder; the masks are kept by the kernels that     *)
(* detect overflow.                                                        *)
DecodeRow ==
  /\ pc = "decode" /\ UseVectors /\ row < utlValuesPerLane
  /\ masks' = IF needZigZag THEN masks
              ELSE [masks EXCEPT ![row] = IF level = "sse2" THEN maskSSE2 ELSE maskAVX2]
  /\ values' = [i \in Pos |-> IF i \div LaneCount = row
                              THEN Plus(values[i - LaneCount], values[i]) ELSE values[i]]
  /\ row' = row + 1
  /\ UNCHANGED <<pc, level, lane, needZigZag, overflowPos, given>>

Least(S) == CHOOSE x \in S : \A y \in S : x <= y

(* The scan over the masks after the loop: first row, then TrailingZeros.  *)
resolved ==
  LET hit == {v \in Rows : masks[v] # {}}
  IN  IF hit = {} THEN 0 ELSE Least(hit) * LaneCount + Least(masks[Least(hit)])

EndDecode ==
  /\ pc = "decode"
  /\ IF UseVectors \/ ~needZigZag THEN row = utlValuesPerLane
     ELSE lane >= LaneCount \/ lane >= len
  /\ pc' = "done"
  /\ overflowPos' = IF UseVectors THEN resolved ELSE overflowPos
  /\ UNCHANGED <<level, values, lane, row, needZigZag, masks, given>>

-----------------------------------------------------------------------------
Next ==
  \/ EncodeWord \/ EncodeRow \/ EndEncode
  \/ StartDecode \/ UnZigZag \/ DecodeZigZagWord \/ DecodeWord \/ DecodeRow \/ EndDecode

Spec == Init /\ [][Next]_vars

-----------------------------------------------------------------------------
(* Properties. *)

(* Every kernel, in place and in its own order, leaves the differences of  *)
(* each word and the one LaneCount before it, as zigzag codes exactly if   *)
(* one of them is negative (delta.go:21-45, simd_sse2_amd64.go:201-230,    *)
(* simd_avx2_amd64.go:215-252).                                            *)
KernelsEncode ==
  pc = "encoded" =>
    /\ needZigZag <=> ~AscendingFrom(given, 1)
    /\ values = Encode(given, 0, TRUE, needZigZag)

(* Every kernel turns the same words into the same sums, whether it walks  *)
(* lanes, rows or vectors, and also when it finds sums that wrap           *)
(* (delta.go:47-115, simd_sse2_amd64.go:232-317).                          *)
KernelsDecode == pc = "done" => values = PrefixSums(given, needZigZag)

(* The additions that wrap, by the flat index of the sum.                  *)
Wraps ==
  {i \in DOMAIN given : i >= LaneCount /\ PrefixSums(given, FALSE)[i]
                                            < PrefixSums(given, FALSE)[i - LaneCount]}

(* All levels report the same wrapped addition: the lowest row's, and in   *)
(* that row the lowest lane's; and they report one if there is one         *)
(* (utlpfor.go:88-107, delta.go:74-84, simd_sse2_amd64.go:307-316).        *)
FirstOverflowReported ==
  pc = "done" =>
    overflowPos = IF needZigZag \/ Wraps = {} THEN 0 ELSE Least(Wraps)
=============================================================================

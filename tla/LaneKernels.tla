---------------------------- MODULE LaneKernels -----------------------------
(***************************************************************************)
(* The bit-packing kernels under a block's payload: the scalar pair-lane   *)
(* loops (scalar.go), the generic SIMD loops, and the unrolled kernels     *)
(* that internal/gen writes for the step widths (simd_spec_amd64.go), at   *)
(* each SIMD level, with the extraction of a single value (get.go).        *)
(*                                                                         *)
(* A machine word is the set of its one bits, so that shifts, masks and OR *)
(* are operations on sets.  The payload is a sequence of superwords of one *)
(* word per lane; the values of a lane are its column, bitWidth bits each, *)
(* one after the other through the words of that lane.                     *)
(*                                                                         *)
(* A behaviour packs one slice with one level's kernel into a buffer that  *)
(* holds stale bits, then unpacks it with the kernel of any level: blocks  *)
(* travel between machines.                                                *)
(***************************************************************************)
EXTENDS UTLFormat

CONSTANTS Inputs,    \* the slices, as records of vals and count
          BitWidths, \* the bitwidths packed with
          Levels,    \* the SIMD levels of the writer's and reader's machine
          Stale      \* what a word of a buffer may hold before the call

Lanes == 0 .. LaneCount - 1
Rows  == 0 .. utlValuesPerLane - 1
Bits  == 0 .. WordBits - 1

(* The most words of a lane, and one beyond, which no kernel may touch.    *)
LaneWords == 0 .. utlValuesPerLane

ASSUME KernelAssumption ==
  /\ LaneCount % 4 = 0
  /\ Levels \subseteq {"scalar", "sse2", "avx2", "avx512"}
  /\ BitWidths \subseteq 0 .. WordBits
  /\ Stale \subseteq SUBSET Bits
  /\ \A s \in Inputs : s.vals \in [Pos -> SUBSET Bits] /\ s.count \in 1 .. blockSize

VARIABLES pc,        \* "start", "pack", "packed", "unpack" or "done"
          level,     \* whose kernel runs
          bitWidth,
          input,     \* the slice that is packed
          payload,   \* the words of the payload, per word index and lane
          dst,       \* the words that are unpacked
          group,     \* the vector of the superword, or the pair of lanes
          row,       \* the next row, or the next word of an unrolled kernel
          acc,       \* the scalar accumulators, of two words, per lane
          bitsInAcc,
          wordIdx    \* the scalar kernels' next word

vars == <<pc, level, bitWidth, input, payload, dst, group, row, acc, bitsInAcc, wordIdx>>
memory == <<payload, dst>>
loop   == <<group, row, acc, bitsInAcc, wordIdx>>

-----------------------------------------------------------------------------
(* Words. *)

Mask(bw) == 0 .. bw - 1

ShiftLeft(w, n) == {b + n : b \in w}   \* in an accumulator of two words
ShiftRight(w, n) == {b - n : b \in {c \in w : c >= n}}

(* Broken: the shifted word keeps the bits above its width.                *)
LowWord_Wide(w) == w

LowWord(w) == w \cap Bits

ShiftAllLeft(w, n) == LowWord(ShiftLeft(w, n))

(* The low bits of row v of lane l; slots past the slice are zero. *)
Val(v, l) ==
  IF v * LaneCount + l < input.count
  THEN input.vals[v * LaneCount + l] \cap Mask(bitWidth)
  ELSE {}

PayloadWords == utlPayloadBytes(bitWidth) \div utlSuperWordBytes

-----------------------------------------------------------------------------
(* computeLayout: the word in which the value of row v begins, the shift   *)
(* there, and whether its high bits are in the next word.                  *)

(* Broken: a value that crosses a word by one bit is taken to fit.         *)
computeLayout_OneBitMore(v) ==
  [word  |-> (v * bitWidth) \div WordBits,
   shift |-> (v * bitWidth) % WordBits,
   spans |-> ((v * bitWidth) % WordBits) + bitWidth > WordBits + 1]

computeLayout(v) ==
  [word  |-> (v * bitWidth) \div WordBits,
   shift |-> (v * bitWidth) % WordBits,
   spans |-> ((v * bitWidth) % WordBits) + bitWidth > WordBits]

(* The unrolled kernels, as emitted: for each row the word it starts in    *)
(* and its shift there, in steps, and the rows that take a second word.    *)
Kernel(at, two) == [at |-> at, two |-> two]

BW4  == Kernel(<< <<0,0>>, <<0,1>>, <<0,2>>, <<0,3>>, <<0,4>>, <<0,5>>, <<0,6>>, <<0,7>> >>, {})
BW8  == Kernel(<< <<0,0>>, <<0,2>>, <<0,4>>, <<0,6>>, <<1,0>>, <<1,2>>, <<1,4>>, <<1,6>> >>, {})
(* Broken: a row that takes two words is read from one. *)
BW12_OneWord == Kernel(<< <<0,0>>, <<0,3>>, <<0,6>>, <<1,1>>, <<1,4>>, <<1,7>>, <<2,2>>, <<2,5>> >>, {2})
BW12 == Kernel(<< <<0,0>>, <<0,3>>, <<0,6>>, <<1,1>>, <<1,4>>, <<1,7>>, <<2,2>>, <<2,5>> >>, {2, 5})
BW16 == Kernel(<< <<0,0>>, <<0,4>>, <<1,0>>, <<1,4>>, <<2,0>>, <<2,4>>, <<3,0>>, <<3,4>> >>, {})
BW20 == Kernel(<< <<0,0>>, <<0,5>>, <<1,2>>, <<1,7>>, <<2,4>>, <<3,1>>, <<3,6>>, <<4,3>> >>, {1, 3, 4, 6})
BW24 == Kernel(<< <<0,0>>, <<0,6>>, <<1,4>>, <<2,2>>, <<3,0>>, <<3,6>>, <<4,4>>, <<5,2>> >>, {1, 2, 5, 6})
BW28 == Kernel(<< <<0,0>>, <<0,7>>, <<1,6>>, <<2,5>>, <<3,4>>, <<4,3>>, <<5,2>>, <<6,1>> >>, 1 .. 6)
BW32 == Kernel(<< <<0,0>>, <<1,0>>, <<2,0>>, <<3,0>>, <<4,0>>, <<5,0>>, <<6,0>>, <<7,0>> >>, {})

(* Each level's switch on the bitwidth, for the steps 1 to 8. *)
kernelsSSE2   == << BW4, BW8, BW12, BW16, BW20, BW24, BW28, BW32 >>
kernelsAVX2   == << BW4, BW8, BW12, BW16, BW20, BW24, BW28, BW32 >>
kernelsAVX512 == << BW4, BW8, BW12, BW16, BW20, BW24, BW28, BW32 >>

Unrolled == level # "scalar" /\ bitWidth \in StepWidths \ {0}

kernel ==
  LET ks == CASE level = "sse2" -> kernelsSSE2 [] level = "avx2" -> kernelsAVX2
              [] level = "avx512" -> kernelsAVX512
  IN  ks[bitWidth \div StepBits]

(* Where the kernel that runs looks for row v: [word, shift, spans]. *)
Layout(v) ==
  IF Unrolled
  THEN [word  |-> kernel.at[v + 1][1],
        shift |-> StepBits * kernel.at[v + 1][2],
        spans |-> v \in kernel.two]
  ELSE computeLayout(v)

(* Broken: the store after the last group does not ask whether a value     *)
(* spans.                                                                  *)
storedWords_Always == {Layout(v).word : v \in Rows} \cup {Layout(7).word + 1}

(* groupByWord: the words in which values begin, and the values of each.   *)
wordGroups    == {Layout(v).word : v \in Rows}
valuesOf(w)   == {v \in Rows : Layout(v).word = w}
spanningIn(w) == {v \in valuesOf(w) : Layout(v).spans}

(* The words that an unrolled packer stores: one per group, and one more   *)
(* if a value of the last group spans.                                     *)
storedWords == wordGroups \cup {w + 1 : w \in {u \in wordGroups : spanningIn(u) # {}}}

Vectors(lv) == CASE lv = "sse2" -> 4 [] lv = "avx2" -> 2 [] lv = "avx512" -> 1

(* The lanes of vector g of a superword.                                   *)
VectorLanes(lv, g) ==
  LET n == LaneCount \div Vectors(lv) IN g * n .. g * n + n - 1

-----------------------------------------------------------------------------
(* What the vector kernels compute. *)

(* The accumulator register of word w: the high parts of the values that   *)
(* span from the word before, then the values that begin here.             *)
Accumulated(w, l) ==
  UNION ({ShiftRight(Val(v, l), WordBits - Layout(v).shift) : v \in spanningIn(w - 1)}
           \cup {ShiftAllLeft(Val(v, l), Layout(v).shift) : v \in valuesOf(w)})

(* Row v of lane l, from one word or from two. *)
Extracted(v, l) ==
  LET at   == Layout(v)
      here == ShiftRight(payload[at.word][l], at.shift) \cap Mask(bitWidth)
      next == ShiftAllLeft(payload[at.word + 1][l], WordBits - at.shift) \cap Mask(bitWidth)
  IN  IF at.spans THEN here \cup next ELSE here

(* extractPackedValueUTL: two words side by side, shifted and masked;      *)
(* words past the payload read as zero.                                    *)
extractPackedValueUTL(pos) ==
  LET lane    == pos % LaneCount
      bitPos  == (pos \div LaneCount) * bitWidth
      Read(w) == IF w < PayloadWords THEN payload[w][lane] ELSE {}
      w0      == bitPos \div WordBits
      offset  == bitPos % WordBits
      both    == Read(w0) \cup IF bitWidth > WordBits - offset
                               THEN ShiftLeft(Read(w0 + 1), WordBits) ELSE {}
  IN  ShiftRight(both, offset) \cap Mask(bitWidth)

-----------------------------------------------------------------------------
(* The buffers: one word per lane, and the words of a vector together. *)

With(mem, w, vec) ==
  [mem EXCEPT ![w] = [l \in Lanes |-> IF l \in DOMAIN vec THEN vec[l] ELSE mem[w][l]]]

WithRow(v, vec) ==
  [i \in Pos |-> IF i \div LaneCount = v /\ i % LaneCount \in DOMAIN vec
                 THEN vec[i % LaneCount] ELSE dst[i]]

Pair(g) == {2 * g, 2 * g + 1}

NoBits == [l \in Lanes |-> {}]

Init ==
  /\ pc = "start"
  /\ level \in Levels
  /\ bitWidth \in BitWidths
  /\ input \in Inputs
  /\ \E old \in Stale : /\ payload = [w \in LaneWords |-> [l \in Lanes |-> old]]
                       /\ dst = [i \in Pos |-> old]
  /\ group = 0 /\ row = 0 /\ acc = NoBits /\ bitsInAcc = 0 /\ wordIdx = 0

Restart ==
  /\ group' = 0 /\ row' = 0 /\ acc' = NoBits /\ bitsInAcc' = 0 /\ wordIdx' = 0

-----------------------------------------------------------------------------
(* Packing. *)

(* A block of width 0 has no payload. *)
PackNothing ==
  /\ pc = "start" /\ bitWidth = 0
  /\ pc' = "packed"
  /\ UNCHANGED <<level, bitWidth, input, memory, loop>>

(* Broken: the words hold what they held.                                  *)
Cleared_NoClear == payload

(* The generic loops OR into the buffer and clear it first; the unrolled   *)
(* kernels and the scalar loop store every word.                           *)
Cleared == [w \in LaneWords |-> IF w < PayloadWords THEN NoBits ELSE payload[w]]

StartPack ==
  /\ pc = "start" /\ bitWidth > 0
  /\ pc' = "pack"
  /\ payload' = IF level = "scalar" \/ Unrolled THEN payload ELSE Cleared
  /\ UNCHANGED <<level, bitWidth, input, dst, loop>>

(* One store of an unrolled kernel: the accumulator of word row. *)
PackWord ==
  /\ pc = "pack" /\ Unrolled /\ group < Vectors(level)
  /\ payload' = With(payload, row, [l \in VectorLanes(level, group) |-> Accumulated(row, l)])
  /\ IF row + 1 \in storedWords
     THEN row' = row + 1 /\ group' = group
     ELSE row' = 0 /\ group' = group + 1
  /\ UNCHANGED <<pc, level, bitWidth, input, dst, acc, bitsInAcc, wordIdx>>

(* One row of a generic loop: OR into one word, or into two. *)
PackRow ==
  /\ pc = "pack" /\ level # "scalar" /\ ~Unrolled /\ row < utlValuesPerLane
  /\ LET at   == computeLayout(row)
         low  == With(payload, at.word,
                      [l \in Lanes |-> payload[at.word][l] \cup ShiftAllLeft(Val(row, l), at.shift)])
         high == With(low, at.word + 1,
                      [l \in Lanes |-> low[at.word + 1][l]
                                         \cup ShiftRight(Val(row, l), WordBits - at.shift)])
     IN  payload' = IF at.spans THEN high ELSE low
  /\ row' = row + 1
  /\ UNCHANGED <<pc, level, bitWidth, input, dst, group, acc, bitsInAcc, wordIdx>>

(* One row of packLanePairUTL64.  Fewer than WordBits bits wait in the     *)
(* accumulator, so at most one word of each lane is complete.              *)
PackPairRow ==
  /\ pc = "pack" /\ level = "scalar" /\ group < LaneCount \div 2 /\ row < utlValuesPerLane
  /\ \E a \in {[l \in Pair(group) |-> acc[l] \cup ShiftLeft(Val(row, l), bitsInAcc)]} :
       IF bitsInAcc + bitWidth >= WordBits
       THEN /\ payload' = With(payload, wordIdx, [l \in Pair(group) |-> LowWord(a[l])])
            /\ wordIdx' = wordIdx + 1
            /\ acc' = [l \in Lanes |-> IF l \in Pair(group) THEN ShiftRight(a[l], WordBits) ELSE {}]
            /\ bitsInAcc' = bitsInAcc + bitWidth - WordBits
       ELSE /\ acc' = [l \in Lanes |-> IF l \in Pair(group) THEN a[l] ELSE {}]
            /\ bitsInAcc' = bitsInAcc + bitWidth
            /\ UNCHANGED <<payload, wordIdx>>
  /\ row' = row + 1
  /\ UNCHANGED <<pc, level, bitWidth, input, dst, group>>

(* The rest of a pair's bits, if there are any. *)
LastWord ==
  IF bitsInAcc > 0
  THEN With(payload, wordIdx, [l \in Pair(group) |-> LowWord(acc[l])])
  ELSE payload

PackPairEnd ==
  /\ pc = "pack" /\ level = "scalar" /\ group < LaneCount \div 2 /\ row = utlValuesPerLane
  /\ payload' = LastWord
  /\ group' = group + 1
  /\ row' = 0 /\ acc' = NoBits /\ bitsInAcc' = 0 /\ wordIdx' = 0
  /\ UNCHANGED <<pc, level, bitWidth, input, dst>>

(* All vectors, rows or pairs are done. *)
LoopEnded ==
  \/ Unrolled /\ group = Vectors(level)
  \/ level # "scalar" /\ ~Unrolled /\ row = utlValuesPerLane
  \/ level = "scalar" /\ group = LaneCount \div 2

EndPack ==
  /\ pc = "pack" /\ LoopEnded
  /\ pc' = "packed"
  /\ Restart
  /\ UNCHANGED <<level, bitWidth, input, memory>>

-----------------------------------------------------------------------------
(* Unpacking, on a machine of any level.  All blockSize slots are unpacked, *)
(* however many values the slice had: the caller cuts dst to the count     *)
(* afterwards (scalar.go:273-277).                                         *)

StartUnpack ==
  /\ pc = "packed" /\ bitWidth > 0
  /\ pc' = "unpack"
  /\ level' \in Levels
  /\ UNCHANGED <<bitWidth, input, memory, loop>>

UnpackNothing ==
  /\ pc = "packed" /\ bitWidth = 0
  /\ pc' = "done"
  /\ dst' = [i \in Pos |-> {}]
  /\ UNCHANGED <<level, bitWidth, input, payload, loop>>

(* The values that begin in one word of one vector. *)
UnpackWord ==
  /\ pc = "unpack" /\ Unrolled /\ group < Vectors(level)
  /\ dst' = [i \in Pos |-> IF /\ i \div LaneCount \in valuesOf(row)
                             /\ i % LaneCount \in VectorLanes(level, group)
                          THEN Extracted(i \div LaneCount, i % LaneCount) ELSE dst[i]]
  /\ IF row + 1 \in wordGroups
     THEN row' = row + 1 /\ group' = group
     ELSE row' = 0 /\ group' = group + 1
  /\ UNCHANGED <<pc, level, bitWidth, input, payload, acc, bitsInAcc, wordIdx>>

UnpackRow ==
  /\ pc = "unpack" /\ level # "scalar" /\ ~Unrolled /\ row < utlValuesPerLane
  /\ dst' = WithRow(row, [l \in Lanes |-> Extracted(row, l)])
  /\ row' = row + 1
  /\ UNCHANGED <<pc, level, bitWidth, input, payload, group, acc, bitsInAcc, wordIdx>>

(* Broken: the accumulator is refilled when it is empty, not when it holds *)
(* too few bits.                                                           *)
Refilled_WhenEmpty ==
  IF bitsInAcc = 0
  THEN [acc |-> [l \in Pair(group) |-> acc[l] \cup ShiftLeft(payload[wordIdx][l], bitsInAcc)],
        bits |-> bitsInAcc + WordBits, word |-> wordIdx + 1]
  ELSE [acc |-> acc, bits |-> bitWidth, word |-> wordIdx]

(* The accumulators with at least bitWidth bits: a word each is added if   *)
(* they hold fewer; past the payload's end there are only zeros.           *)
Refilled ==
  IF bitsInAcc >= bitWidth
  THEN [acc |-> acc, bits |-> bitsInAcc, word |-> wordIdx]
  ELSE IF wordIdx < PayloadWords
  THEN [acc |-> [l \in Pair(group) |-> acc[l] \cup ShiftLeft(payload[wordIdx][l], bitsInAcc)],
        bits |-> bitsInAcc + WordBits, word |-> wordIdx + 1]
  ELSE [acc |-> acc, bits |-> bitWidth, word |-> wordIdx]

(* One row of unpackLanePairUTL64. *)
UnpackPairRow ==
  /\ pc = "unpack" /\ level = "scalar" /\ group < LaneCount \div 2 /\ row < utlValuesPerLane
  /\ \E r \in {Refilled} :
       /\ dst' = WithRow(row, [l \in Pair(group) |-> r.acc[l] \cap Mask(bitWidth)])
       /\ acc' = [l \in Lanes |-> IF l \in Pair(group) THEN ShiftRight(r.acc[l], bitWidth) ELSE {}]
       /\ bitsInAcc' = r.bits - bitWidth
       /\ wordIdx' = r.word
  /\ row' = row + 1
  /\ UNCHANGED <<pc, level, bitWidth, input, payload, group>>

UnpackPairEnd ==
  /\ pc = "unpack" /\ level = "scalar" /\ group < LaneCount \div 2 /\ row = utlValuesPerLane
  /\ group' = group + 1
  /\ row' = 0 /\ acc' = NoBits /\ bitsInAcc' = 0 /\ wordIdx' = 0
  /\ UNCHANGED <<pc, level, bitWidth, input, memory>>

EndUnpack ==
  /\ pc = "unpack" /\ LoopEnded
  /\ pc' = "done"
  /\ Restart
  /\ UNCHANGED <<level, bitWidth, input, memory>>

-----------------------------------------------------------------------------
Pack   == PackNothing \/ StartPack \/ PackWord \/ PackRow \/ PackPairRow \/ PackPairEnd \/ EndPack
Unpack == StartUnpack \/ UnpackNothing \/ UnpackWord \/ UnpackRow \/ UnpackPairRow
            \/ UnpackPairEnd \/ EndUnpack

Next == Pack \/ Unpack

Spec == Init /\ [][Next]_vars

-----------------------------------------------------------------------------
(* Properties. *)

TypeOK ==
  /\ pc \in {"start", "pack", "packed", "unpack", "done"}
  /\ level \in Levels /\ bitWidth \in BitWidths /\ input \in Inputs
  /\ payload \in [LaneWords -> [Lanes -> SUBSET Bits]]
  /\ dst \in [Pos -> SUBSET Bits]
  /\ group \in 0 .. LaneCount /\ row \in 0 .. utlValuesPerLane
  /\ \A l \in Lanes : acc[l] \subseteq 0 .. 2 * WordBits - 1
  /\ bitsInAcc \in 0 .. WordBits /\ wordIdx \in LaneWords

(* The bits of lane l from position p on, n of them: the low bitWidth bits *)
(* of its values, row after row.  The format, apart from any kernel.       *)
Stream(l, p, n) ==
  {b \in 0 .. n - 1 : /\ p + b < utlValuesPerLane * bitWidth
                      /\ (p + b) % bitWidth \in Val((p + b) \div bitWidth, l)}

(* Whatever the level, the width and the old contents of the buffer, the   *)
(* packed payload is the lanes' bit streams cut into words, and no stale   *)
(* bit is left in it although the unrolled kernels and the scalar loop do  *)
(* not clear the buffer (simd_sse2_amd64.go:82-88, scalar.go:20-59).       *)
PayloadCanonical ==
  pc \in {"packed", "unpack", "done"} =>
    \A w \in 0 .. PayloadWords - 1, l \in Lanes :
      payload[w][l] = Stream(l, w * WordBits, WordBits)

(* Every reader returns the low bits of every value and zero for the slots *)
(* past the slice, whichever kernel wrote them and whatever dst held: the  *)
(* loops that unpack a block at any level, and the extraction of one       *)
(* value, whose word may cross into the next (get.go:38-72,                *)
(* simd_sse2_amd64.go:13-73, scalar.go:276).                               *)
ReadersAgree ==
  /\ pc = "done" =>
       \A i \in Pos : dst[i] = Val(i \div LaneCount, i % LaneCount)
  /\ pc = "packed" =>
       \A i \in Pos : extractPackedValueUTL(i) = Val(i \div LaneCount, i % LaneCount)

(* Between two rows of the scalar loops, the words stored (or not yet      *)
(* loaded) and the bits in the accumulator make up the lane's stream, and  *)
(* less than a word waits (scalar.go:34-58, 90-115).                       *)
AccumulatorHoldsStream ==
  level = "scalar" /\ row > 0 =>
    IF pc = "pack"
    THEN /\ wordIdx * WordBits + bitsInAcc = row * bitWidth
         /\ bitsInAcc < WordBits
         /\ \A l \in Pair(group) : acc[l] = Stream(l, wordIdx * WordBits, bitsInAcc)
    ELSE /\ wordIdx * WordBits - bitsInAcc = row * bitWidth
         /\ bitsInAcc < WordBits
         /\ \A l \in Pair(group) : acc[l] = Stream(l, row * bitWidth, bitsInAcc)

(* No kernel stores outside the payload of its bitwidth, through pointers  *)
(* that nothing checks (simd_spec_amd64.go:16-1862).                       *)
StoresInside ==
  [][\A w \in LaneWords : w >= PayloadWords => payload'[w] = payload[w]]_vars
=============================================================================

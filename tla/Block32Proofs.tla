--------------------------- MODULE Block32Proofs ----------------------------
(***************************************************************************)
(* Inv is an inductive invariant of Block32, and with it Block32           *)
(* implements the lossless store: for every number of lanes, every step of *)
(* the bitwidth, every set of inputs, flags and levels and every contents  *)
(* of the scratch buffer.                                                  *)
(* The second part is about the memory that a compressor uses and the      *)
(* block it leaves: how long a block may be, that readers find its regions *)
(* where the packer put them, that half the scratch buffer is enough       *)
(* without NoInPlace, and that the block is the one that PackedBlock and   *)
(* UnpackedBlock say, on which the uint64 codec rests.                     *)
(* The third is about two goroutines: the first has its invariant and its  *)
(* losslessness in Goroutines as well, whatever the second does.           *)
(***************************************************************************)
EXTENDS Block32Inv, Goroutines, UTLBlockFacts

-----------------------------------------------------------------------------
(* Memory. *)

(* What TypeOK says of the slices in every phase. *)
LEMMA Typed ==
  ASSUME TypeOK
  PROVE  /\ count \in 0 .. blockSize /\ count \in Nat /\ count <= blockSize
         /\ values \in Slice(count) /\ stored \in Slice(count)
         /\ DOMAIN values = 0 .. count - 1 /\ DOMAIN stored = 0 .. count - 1
         /\ base \in Word /\ zigzag \in BOOLEAN /\ Delta \in BOOLEAN
         /\ Shifted \in Slice(count) /\ DOMAIN Shifted = 0 .. count - 1
         /\ Encoded \in Slice(count) /\ DOMAIN Encoded = 0 .. count - 1
         /\ workValues \in Slice(count) /\ DOMAIN workValues = 0 .. count - 1
<1>1. count \in 0 .. blockSize /\ count \in Nat /\ count <= blockSize /\ blockSize \in Nat
  BY Dimensions DEF TypeOK
<1>2. values \in Slice(count) /\ stored \in Slice(count) /\ base \in Word /\ zigzag \in BOOLEAN
  BY DEF TypeOK
<1>3. DOMAIN values = 0 .. count - 1 /\ DOMAIN stored = 0 .. count - 1
  BY <1>1, <1>2, SliceFacts
<1>4. Delta \in BOOLEAN
  BY DEF Delta
<1>5. Shifted \in Slice(count)
  BY <1>1, <1>2, ForRoundTrip DEF Shifted
<1>6. Encoded \in Slice(count)
  BY <1>1, <1>2, <1>4, EncodeType DEF Encoded
<1>7. DOMAIN Shifted = 0 .. count - 1 /\ DOMAIN Encoded = 0 .. count - 1
  BY <1>1, <1>5, <1>6, SliceFacts
<1>8. scratch \in [0 .. 2 * blockSize - 1 -> Word]
  BY DEF TypeOK, Slice
<1>9. workValues \in Slice(count)
  <2>1. \A i \in 0 .. count - 1 : i \in 0 .. 2 * blockSize - 1 /\ scratch[i] \in Word
    BY <1>1, <1>8
  <2> QED BY <1>2, <1>3, <2>1 DEF workValues, Slice
<1>10. DOMAIN workValues = 0 .. count - 1
  BY <1>1, <1>9, SliceFacts
<1> QED BY <1>1, <1>2, <1>3, <1>4, <1>5, <1>6, <1>7, <1>9, <1>10

(* A slice of up to blockSize words copied to the start of scratch. *)
LEMMA CopyToScratch ==
  ASSUME TypeOK, NEW n \in 0 .. blockSize, NEW s \in Slice(n)
  PROVE  /\ Store(scratch, 0, s) \in Slice(2 * blockSize)
         /\ \A i \in 0 .. n - 1 : Store(scratch, 0, s)[i] = s[i]
         /\ \A i \in blockSize .. 2 * blockSize - 1 : Store(scratch, 0, s)[i] = scratch[i]
         /\ [i \in 0 .. n - 1 |-> Store(scratch, 0, s)[i]] = s
<1> DEFINE M == 2 * blockSize
<1>1. /\ M \in Nat /\ (\A i \in 0 .. n - 1 : i < M) /\ 0 \in Nat /\ n \in Nat
      /\ scratch \in Slice(M)
      /\ \A i \in blockSize .. M - 1 : i \in 0 .. M - 1 /\ i >= 0 + n
  BY Dimensions DEF TypeOK
<1>2. DOMAIN s = 0 .. n - 1
  BY <1>1, SliceFacts
<1>3. /\ Store(scratch, 0, s) \in Slice(M)
      /\ \A i \in 0 .. n - 1 : i < M => Store(scratch, 0, s)[i] = s[i]
      /\ \A i \in 0 .. M - 1 : i >= 0 + n => Store(scratch, 0, s)[i] = scratch[i]
  <2> DEFINE off == 0
  <2>1. off \in Nat /\ off = 0
    OBVIOUS
  <2> HIDE DEF M, off
  <2>2. Store(scratch, off, s) \in Slice(M)
    BY <1>1, <2>1, StoreFacts
  <2>3. \A i \in 0 .. n - 1 : i < M => Store(scratch, off, s)[i] = s[i]
    BY <1>1, <2>1, StoreFacts
  <2>4. \A i \in 0 .. M - 1 : i >= off + n => Store(scratch, off, s)[i] = scratch[i]
    BY <1>1, <2>1, StoreFacts
  <2> QED BY <2>1, <2>2, <2>3, <2>4
<1>4. [i \in 0 .. n - 1 |-> Store(scratch, 0, s)[i]] = s
  BY <1>1, <1>2, <1>3 DEF Slice
<1> QED BY <1>1, <1>3, <1>4

(* A slice copied to one of the two halves of scratch. *)
LEMMA CopyToHalf ==
  ASSUME TypeOK, NEW n \in 0 .. blockSize, NEW s \in Slice(n), NEW off \in {0, blockSize}
  PROVE  /\ Store(scratch, off, s) \in Slice(2 * blockSize)
         /\ \A r \in 0 .. n - 1 : Store(scratch, off, s)[off + r] = s[r]
         /\ off = 0 => \A i \in blockSize .. 2 * blockSize - 1 :
                         Store(scratch, off, s)[i] = scratch[i]
<1> DEFINE M == 2 * blockSize
<1>1. /\ M \in Nat /\ off \in Nat /\ n \in Nat /\ scratch \in Slice(M)
      /\ \A r \in 0 .. n - 1 : off + r < M
  BY Dimensions DEF TypeOK
<1>2. Store(scratch, off, s) \in Slice(M)
  <2> HIDE DEF M
  <2> QED BY <1>1, StoreFacts
<1>3. \A r \in 0 .. n - 1 : off + r < M => Store(scratch, off, s)[off + r] = s[r]
  <2> HIDE DEF M
  <2> QED BY <1>1, StoreFacts
<1>4. off = 0 => \A i \in blockSize .. 2 * blockSize - 1 :
                   Store(scratch, off, s)[i] = scratch[i]
  BY CopyToScratch
<1> QED BY <1>1, <1>2, <1>3, <1>4

(* A slice of the same length keeps the count. *)
LEMMA SameCount ==
  ASSUME TypeOK, values' \in Slice(count)
  PROVE  count' = count /\ DOMAIN values' = 0 .. count - 1
<1>1. count \in Nat
  BY Typed
<1> QED BY <1>1, SliceFacts DEF count

(* Writing the work buffer: afterwards workValues is what was written, and *)
(* the caller's slice is as it was if that is elsewhere.                   *)
LEMMA WriteWorkFacts ==
  ASSUME TypeOK, NEW s \in Slice(count), WriteWork(s), work' = work
  PROVE  /\ values' \in Slice(count) /\ count' = count
         /\ scratch' \in Slice(2 * blockSize)
         /\ workValues' = s
         /\ work = "scratch" => values' = values
<1>1. count \in Nat /\ count <= blockSize /\ values \in Slice(count) /\ blockSize \in Nat
  BY Typed, Dimensions
<1>2. scratch \in Slice(2 * blockSize) /\ DOMAIN s = 0 .. count - 1
  BY <1>1, SliceFacts DEF TypeOK
<1>3. CASE work = "values"
  <2>1. values' = s /\ scratch' = scratch
    BY <1>3 DEF WriteWork
  <2>2. workValues' = values'
    BY <1>3 DEF workValues
  <2> QED BY <1>2, <1>3, <2>1, <2>2, SameCount
<1>4. CASE work # "values"
  <2>1. values' = values /\ scratch' = Store(scratch, 0, s)
    BY <1>4 DEF WriteWork
  <2>2. /\ scratch' \in Slice(2 * blockSize)
        /\ [i \in 0 .. count - 1 |-> scratch'[i]] = s
    BY <2>1, Typed, CopyToScratch
  <2>3. count' = count /\ DOMAIN values' = 0 .. count - 1
    BY <1>1, <2>1, SameCount
  <2>4. workValues' = s
    BY <1>4, <2>2, <2>3 DEF workValues
  <2> QED BY <1>1, <2>1, <2>2, <2>3, <2>4
<1> QED BY <1>3, <1>4

-----------------------------------------------------------------------------
(* Frames: what a step leaves of the invariant without looking at it. *)

(* A step that changes nothing but the reply keeps the invariant. *)
LEMMA ReplyFrame ==
  ASSUME Inv, UNCHANGED <<pc, simdLevel, memory, row, packing, reading, history>>
  PROVE  Inv'
<1> USE DEF memory, packing, reading, history, Inv
<1>1. TypeOK'
  BY DEF TypeOK, count
<1>2. count' = count /\ workValues' = workValues /\ Shifted' = Shifted
      /\ Encoded' = Encoded /\ Delta' = Delta /\ AfterDelta' = AfterDelta
      /\ NoInPlace' = NoInPlace /\ highBitsOff' = highBitsOff
  BY DEF count, workValues, Shifted, Encoded, Delta, AfterDelta, NoInPlace, highBitsOff
<1>3. CallInv'
  BY <1>2 DEF CallInv
<1>4. PackInv'
  <2>1. \A i : KernelInput(i)' = KernelInput(i)
    BY <1>2 DEF KernelInput
  <2> QED BY <1>2, <2>1 DEF PackInv
<1>5. HeaderInv'
  BY <1>2 DEF HeaderInv
<1>6. ExceptionInv'
  BY <1>2 DEF ExceptionInv, IndexWritten
<1>7. ReadInv'
  BY <1>2 DEF ReadInv
<1> QED BY <1>1, <1>3, <1>4, <1>5, <1>6, <1>7

(* Until the payload is written there is no block to say anything of. *)
LEMMA EarlyFrame ==
  ASSUME Inv, pc' \in Packing \ {"collect", "svb"}, dst' = NoBlock, overflow' = overflow
  PROVE  HeaderInv' /\ ExceptionInv' /\ ReadInv'
<1>1. ~(dst'.count > 0)
  BY DEF NoBlock
<1>2. pc' \notin {"idle", "collect", "svb"} \cup Reading
  BY DEF Packing, Reading
<1>3. HeaderInv'
  BY <1>1 DEF HeaderInv
<1>4. ExceptionInv'
  BY <1>1, <1>2 DEF ExceptionInv
<1>5. ReadInv'
  BY <1>2 DEF ReadInv, Inv, Reading
<1> QED BY <1>3, <1>4, <1>5

(* Readers change neither the block nor the values it was made from. *)
LEMMA ReadFrame ==
  ASSUME Inv, dst.count > 0,
         pc \in {"idle"} \cup Reading, pc' \in {"idle"} \cup Reading,
         UNCHANGED <<values, packing, history>>
  PROVE  CallInv' /\ PackInv' /\ HeaderInv' /\ ExceptionInv'
<1> USE DEF packing, history, Inv
<1>1. /\ pc \notin Packing /\ pc' \notin Packing
      /\ pc' \notin {"for", "delta", "deltaRows", "select", "pad", "payload", "collect", "svb"}
  BY DEF Packing, Reading
<1>2. /\ count' = count /\ Shifted' = Shifted /\ Encoded' = Encoded /\ Delta' = Delta
      /\ NoInPlace' = NoInPlace
  BY DEF count, Shifted, Encoded, Delta, NoInPlace
<1>3. CallInv'
  BY <1>1, <1>2 DEF CallInv, Packing
<1>4. PackInv'
  BY <1>1, <1>2 DEF PackInv, AfterDelta
<1>5. HeaderInv'
  BY <1>2 DEF HeaderInv
<1>6. ExceptionInv'
  BY <1>1, <1>2 DEF ExceptionInv, IndexWritten
<1> QED BY <1>3, <1>4, <1>5, <1>6

-----------------------------------------------------------------------------
(* The initial states, and the calls that start a pack. *)

(* Before the first call there is no block. *)
LEMMA InitInv == Init => Inv
<1> SUFFICES ASSUME Init PROVE Inv
  OBVIOUS
<1> USE DEF Init
<1>1. /\ count = 0 /\ values \in Slice(0) /\ stored \in Slice(0) /\ DOMAIN stored = {}
      /\ ~(dst.count > 0)
  <2>1. DOMAIN NoValues = {} /\ 0 .. 0 - 1 = {}
    BY DEF NoValues
  <2>2. NoValues \in Slice(0)
    BY <2>1 DEF NoValues, Slice
  <2>3. SliceLen(NoValues) = 0
    BY <2>1, FS_EmptySet DEF SliceLen
  <2> QED BY <2>1, <2>2, <2>3 DEF count, NoBlock
<1>2. TypeOK
  <2>1. 0 \in 0 .. blockSize /\ 0 \in 0 .. blockSize - 1 /\ 0 \in Word
    BY Dimensions DEF Word
  <2>2. 0 \in StepWidths
    <3>1. StepBits * 0 = 0
      BY Dimensions
    <3> QED BY <3>1 DEF StepWidths
  <2>3. scratch \in Slice(2 * blockSize) /\ 0 \in 0 .. MaxCalls /\ 0 \in 0 .. 8
    BY CallerAssumption
  <2> QED BY <1>1, <2>1, <2>2, <2>3 DEF TypeOK, utlValuesPerLane
<1>3. CallInv
  BY <1>1 DEF CallInv, Packing, Reading
<1>4. PackInv
  BY <1>1 DEF PackInv, AfterDelta
<1>5. HeaderInv /\ ExceptionInv
  BY <1>1 DEF HeaderInv, ExceptionInv
<1>6. ReadInv
  BY DEF ReadInv, Reading
<1> QED BY <1>2, <1>3, <1>4, <1>5, <1>6 DEF Inv

(* What a pack takes over from what was before it. *)
Ready ==
  /\ simdLevel \in Levels /\ scratch \in Slice(2 * blockSize) /\ row \in 0 .. utlValuesPerLane
  /\ overflow = 0 /\ calls \in 0 .. MaxCalls

(* Compress hands the slice over. *)
LEMMA CompressStep ==
  ASSUME Ready, NEW v \in Inputs, NEW f \in FlagSets, Compress(v, f)
  PROVE  Inv'
<1> USE DEF Compress
<1> DEFINE n == SliceLen(v)
<1>1. n \in Nat /\ v \in Slice(n) /\ n # 0 /\ n <= blockSize
  BY CallerAssumption DEF validLength
<1>2. count' = n /\ DOMAIN stored' = 0 .. n - 1 /\ \A i \in 0 .. n - 1 : v[i] \in Nat
  BY <1>1, SliceFacts DEF count
<1>3. TypeOK'
  <2>1. 0 \in 0 .. blockSize /\ 0 \in Word /\ n \in 0 .. blockSize
    BY <1>1, Dimensions DEF Word
  <2>2. 0 \in StepWidths
    <3>1. StepBits * 0 = 0
      BY Dimensions
    <3> QED BY <3>1 DEF StepWidths
  <2>3. flag' \subseteq Flags
    BY CallerAssumption DEF EffectiveFlag, Flags
  <2>4. calls' \in 0 .. MaxCalls
    BY CallerAssumption DEF Ready
  <2>5. UNCHANGED <<simdLevel, scratch, row, overflow>> /\ 0 \in 0 .. blockSize - 1
    BY Dimensions DEF reading
  <2> QED BY <1>1, <1>2, <2>1, <2>2, <2>3, <2>4, <2>5 DEF Ready, TypeOK
<1>4. CallInv'
  <2>1. "Append" \in flag' => NoInPlace'
    BY DEF EffectiveFlag, NoInPlace
  <2> QED BY <1>1, <1>2, <2>1 DEF CallInv, NoBlock, Packing, Reading
<1>5. PackInv'
  BY DEF PackInv, AfterDelta, NoBlock
<1>6. HeaderInv' /\ ExceptionInv' /\ ReadInv'
  <2>1. pc' = "for" /\ ~(dst'.count > 0) /\ overflow' = 0
    BY DEF Ready, reading, NoBlock
  <2> QED BY <2>1 DEF HeaderInv, ExceptionInv, ReadInv, Reading
<1> QED BY <1>3, <1>4, <1>5, <1>6 DEF Inv

(* A slice that is empty or too long is turned away. *)
LEMMA RejectLengthStep ==
  ASSUME Inv, NEW v \in Inputs, RejectLength(v)
  PROVE  Inv'
BY ReplyFrame DEF RejectLength

-----------------------------------------------------------------------------
(* Frame of reference. *)

(* SubtractBase leaves the differences to the minimum. *)
LEMMA SubtractBaseStep ==
  ASSUME Inv, SubtractBase
  PROVE  Inv'
<1> USE DEF SubtractBase
<1> DEFINE s == forSubtract(values, SliceMin(values))
<1>1. /\ TypeOK /\ count # 0 /\ count \in Nat /\ work = "values" /\ values = stored
      /\ base = 0 /\ ~zigzag /\ dst = NoBlock /\ "NoFOR" \notin flag
  BY Typed DEF Inv, CallInv, PackInv, Packing
<1>2. /\ SliceMin(values) \in Word /\ \A i \in DOMAIN values : SliceMin(values) <= values[i]
  BY <1>1, Typed, SliceMinFacts
<1>3. s \in Slice(count) /\ s = Shifted'
  BY <1>1, <1>2, Typed, ForRoundTrip DEF Shifted, history
<1>4. /\ values' \in Slice(count) /\ scratch' \in Slice(2 * blockSize)
      /\ count' = count /\ workValues' = s /\ (NoInPlace => values' = values)
  <2>1. CASE NoInPlace
    <3>1. values' = values /\ scratch' = Store(scratch, 0, s) /\ work' = "scratch"
      BY <2>1
    <3>2. /\ scratch' \in Slice(2 * blockSize)
          /\ [i \in 0 .. count - 1 |-> scratch'[i]] = s
      BY <1>1, <1>3, <3>1, Typed, CopyToScratch
    <3>3. count' = count /\ DOMAIN values = 0 .. count - 1
      BY <1>1, <3>1, Typed, SameCount
    <3>4. workValues' = s
      BY <3>1, <3>2, <3>3 DEF workValues
    <3> QED BY <1>1, <3>1, <3>2, <3>3, <3>4, Typed
  <2>2. CASE ~NoInPlace
    BY <1>1, <1>3, <2>2, SameCount DEF workValues, TypeOK
  <2> QED BY <2>1, <2>2
<1>5. TypeOK'
  BY <1>1, <1>2, <1>4 DEF TypeOK, history, reading
<1>6. CallInv'
  BY <1>1, <1>2, <1>4 DEF Inv, CallInv, NoInPlace, Packing, Reading,
                          history, NoBlock
<1>7. PackInv'
  BY <1>1, <1>3, <1>4 DEF PackInv, AfterDelta, NoBlock
<1>8. HeaderInv' /\ ExceptionInv' /\ ReadInv'
  BY <1>1, EarlyFrame DEF reading, Packing
<1> QED BY <1>5, <1>6, <1>7, <1>8 DEF Inv

(* Without FOR the base is zero and nothing is subtracted. *)
LEMMA SkipFORStep ==
  ASSUME Inv, SkipFOR
  PROVE  Inv'
<1> USE DEF SkipFOR, memory, packing, reading, history
<1>1. /\ TypeOK /\ count \in Nat /\ work = "values" /\ values = stored
      /\ base = 0 /\ ~zigzag /\ dst = NoBlock
  BY Typed DEF Inv, CallInv, PackInv, Packing
<1>2. Shifted = stored
  BY <1>1, Typed, ForRoundTrip DEF Shifted
<1>3. TypeOK' /\ count' = count
  BY <1>1 DEF TypeOK, count
<1>4. CallInv'
  BY <1>1, <1>3 DEF Inv, CallInv, NoInPlace, Packing, Reading, NoBlock
<1>5. PackInv'
  <2>1. workValues' = Shifted'
    BY <1>1, <1>2 DEF workValues, Shifted
  <2> QED BY <1>1, <2>1 DEF PackInv, AfterDelta, NoBlock
<1>6. HeaderInv' /\ ExceptionInv' /\ ReadInv'
  BY <1>1, EarlyFrame DEF Packing
<1> QED BY <1>3, <1>4, <1>5, <1>6 DEF Inv

-----------------------------------------------------------------------------
(* Delta. *)

(* The delta loop starts below the last row, where nothing is done yet, on *)
(* a buffer that the caller's slice does not share under NoInPlace.        *)
LEMMA StartDeltaStep ==
  ASSUME Inv, StartDelta
  PROVE  Inv'
<1> USE DEF StartDelta
<1>1. /\ TypeOK /\ count \in Nat /\ count <= blockSize /\ workValues = Shifted /\ ~zigzag
      /\ dst = NoBlock /\ Delta
  BY Typed DEF Inv, CallInv, PackInv, Packing, Delta
<1>2. /\ scratch' \in Slice(2 * blockSize) /\ count' = count
      /\ workValues' = workValues /\ (NoInPlace => work' = "scratch")
      /\ (work' = "scratch" => NoInPlace)
  <2>1. CASE NoInPlace /\ work = "values"
    <3>1. scratch' = Store(scratch, 0, values) /\ work' = "scratch"
      BY <2>1
    <3>2. /\ scratch' \in Slice(2 * blockSize)
          /\ [i \in 0 .. count - 1 |-> scratch'[i]] = values
      BY <1>1, <3>1, Typed, CopyToScratch
    <3>3. count' = count /\ DOMAIN values' = 0 .. count - 1
      BY <1>1, Typed, SameCount
    <3>4. workValues' = values /\ workValues = values
      BY <2>1, <3>1, <3>2, <3>3 DEF workValues
    <3> QED BY <2>1, <3>1, <3>2, <3>3, <3>4
  <2>2. CASE ~(NoInPlace /\ work = "values")
    <3>1. UNCHANGED <<work, scratch, values>>
      BY <2>2
    <3> QED BY <1>1, <2>2, <3>1 DEF workValues, count, TypeOK, Inv, CallInv
  <2> QED BY <2>1, <2>2
<1>3. TypeOK' /\ 7 + 1 = 8
  BY <1>1, <1>2, Typed DEF TypeOK, history, reading, utlValuesPerLane
<1>4. CallInv'
  BY <1>1, <1>2 DEF Inv, CallInv, NoInPlace, Packing, Reading,
                    history, NoBlock
<1>5. PackInv'
  <2>1. Shifted' = Shifted /\ Delta' = Delta /\ NoInPlace' = NoInPlace
    BY DEF Shifted, Delta, NoInPlace, history
  <2>2. row' = 7 /\ row' + 1 = 8 /\ 8 \in Nat
    BY DEF utlValuesPerLane
  <2>3. DeltaFrom(Shifted, 8) = Shifted /\ AscendingFrom(Shifted, 8)
    BY <1>1, Typed, DeltaFromFacts
  <2> QED BY <1>1, <1>2, <2>1, <2>2, <2>3 DEF PackInv, AfterDelta, NoBlock, utlValuesPerLane
<1>6. HeaderInv' /\ ExceptionInv' /\ ReadInv'
  BY <1>1, EarlyFrame DEF reading, Packing
<1> QED BY <1>3, <1>4, <1>5, <1>6 DEF Inv

(* Without delta the words are the shifted values. *)
LEMMA SkipDeltaStep ==
  ASSUME Inv, SkipDelta
  PROVE  Inv'
<1> USE DEF SkipDelta, memory, packing, reading, history
<1>1. TypeOK /\ workValues = Shifted /\ dst = NoBlock /\ ~Delta
  BY DEF Inv, CallInv, PackInv, Packing, Delta
<1>2. TypeOK' /\ count' = count
  BY <1>1 DEF TypeOK, count
<1>3. CallInv'
  BY <1>1, <1>2 DEF Inv, CallInv, NoInPlace, Packing, Reading, NoBlock
<1>4. PackInv'
  <2>1. workValues' = workValues /\ Encoded' = Shifted /\ Delta' = Delta
    BY <1>1 DEF workValues, Encoded, Encode, Shifted, Delta
  <2> QED BY <1>1, <2>1 DEF PackInv, AfterDelta, NoBlock
<1>5. HeaderInv' /\ ExceptionInv' /\ ReadInv'
  BY <1>1, EarlyFrame DEF Packing
<1> QED BY <1>2, <1>3, <1>4, <1>5 DEF Inv

(* One row of differences, the row above it still being untouched. *)
LEMMA DeltaRowStep ==
  ASSUME Inv, DeltaRow
  PROVE  Inv'
<1> USE DEF DeltaRow
<1> DEFINE w == workValues
<1> DEFINE d == [i \in DOMAIN w |->
                   IF i \in Row(row) THEN Minus(w[i], w[i - LaneCount]) ELSE w[i]]
<1> DEFINE InRow(i) == row * LaneCount <= i /\ i < (row + 1) * LaneCount
<1>1. /\ TypeOK /\ count \in Nat /\ dst = NoBlock /\ Delta
      /\ row \in 1 .. 7 /\ row \in Nat /\ row - 1 + 1 = row
      /\ (NoInPlace => work = "scratch") /\ (work = "scratch" => NoInPlace)
      /\ w = DeltaFrom(Shifted, row + 1)
      /\ (~zigzag => AscendingFrom(Shifted, row + 1))
      /\ zigzag \in BOOLEAN
  BY Typed DEF Inv, CallInv, PackInv, Packing, TypeOK, utlValuesPerLane
<1>2. /\ count \in 0 .. blockSize /\ Shifted \in Slice(count)
      /\ DOMAIN Shifted = 0 .. count - 1 /\ DOMAIN w = 0 .. count - 1
      /\ DOMAIN values = 0 .. count - 1
  BY <1>1, Typed
<1>3. \A i \in 0 .. count - 1 : i \in Row(row) <=> InRow(i)
  BY <1>2 DEF Row
<1>4. /\ \A i \in 0 .. count - 1 : InRow(i) =>
            w[i] = Shifted[i] /\ w[i - LaneCount] = Shifted[i - LaneCount]
      /\ DeltaFrom(Shifted, row) =
            [i \in 0 .. count - 1 |-> IF InRow(i) THEN Minus(w[i], w[i - LaneCount])
                                                  ELSE w[i]]
      /\ AscendingFrom(Shifted, row + 1) =>
            ((\A i \in 0 .. count - 1 : InRow(i) => Shifted[i - LaneCount] <= Shifted[i])
               => AscendingFrom(Shifted, row))
  <2>1. row >= 1 /\ row \in Nat
    BY <1>1
  <2> DEFINE g == DeltaFrom(Shifted, row + 1)
  <2>2. \A i \in DOMAIN Shifted : InRow(i) =>
          g[i] = Shifted[i] /\ g[i - LaneCount] = Shifted[i - LaneCount]
    BY <1>2, <2>1, DeltaFromStep
  <2>3. DeltaFrom(Shifted, row) =
          [i \in DOMAIN Shifted |-> IF InRow(i) THEN Minus(g[i], g[i - LaneCount]) ELSE g[i]]
    BY <1>2, <2>1, DeltaFromStep
  <2>4. AscendingFrom(Shifted, row + 1) =>
          ((\A i \in DOMAIN Shifted : InRow(i) => Shifted[i - LaneCount] <= Shifted[i])
             => AscendingFrom(Shifted, row))
    BY <1>2, <2>1, DeltaFromStep
  <2>5. w = g
    BY <1>1
  <2> HIDE DEF w, g, InRow
  <2> QED BY <1>2, <2>2, <2>3, <2>4, <2>5
<1>5. d = DeltaFrom(Shifted, row) /\ d \in Slice(count)
  <2>1. d = [i \in 0 .. count - 1 |-> IF InRow(i) THEN Minus(w[i], w[i - LaneCount])
                                                  ELSE w[i]]
    <3> HIDE DEF w, InRow
    <3> QED BY <1>2, <1>3
  <2>2. d = DeltaFrom(Shifted, row)
    BY <1>4, <2>1
  <2>3. row >= 1
    BY <1>1
  <2> HIDE DEF d
  <2> QED BY <1>1, <1>2, <2>2, <2>3, DeltaFromFacts
<1>6. WriteWork(d) /\ work' = work
  OBVIOUS
<1> HIDE DEF d
<1>7. /\ values' \in Slice(count) /\ count' = count /\ scratch' \in Slice(2 * blockSize)
      /\ workValues' = d /\ (work = "scratch" => values' = values)
  BY <1>1, <1>5, <1>6, WriteWorkFacts
<1>8. zigzag' \in BOOLEAN /\ (~zigzag' => AscendingFrom(Shifted, row))
  <2>1. zigzag' = (zigzag \/ \E i \in Row(row) : w[i] < w[i - LaneCount])
    OBVIOUS
  <2>2. ASSUME ~zigzag' PROVE AscendingFrom(Shifted, row)
    <3>1. ~zigzag /\ \A i \in Row(row) : ~(w[i] < w[i - LaneCount])
      BY <1>1, <2>1, <2>2
    <3>2. ASSUME NEW i \in 0 .. count - 1, InRow(i)
          PROVE  Shifted[i - LaneCount] <= Shifted[i]
      <4> HIDE DEF w
      <4>1. ~(Shifted[i] < Shifted[i - LaneCount])
        BY <1>3, <1>4, <3>1, <3>2
      <4>2. i - LaneCount \in 0 .. count - 1
        <5>1. row >= 1
          BY <1>1
        <5> QED BY <1>1, <1>2, <3>2, <5>1, DeltaFromStep
      <4>3. Shifted[i] \in Nat /\ Shifted[i - LaneCount] \in Nat
        BY <1>1, <1>2, <4>2, SliceFacts
      <4> QED BY <4>1, <4>3
    <3> QED BY <1>1, <1>4, <3>1, <3>2
  <2> QED BY <1>1, <2>1, <2>2
<1>9. TypeOK'
  BY <1>1, <1>7, <1>8 DEF TypeOK, history, reading, utlValuesPerLane
<1>10. CallInv'
  BY <1>1, <1>7 DEF Inv, CallInv, NoInPlace, Packing, Reading,
                    history, NoBlock
<1>11. PackInv'
  <2>1. Shifted' = Shifted /\ Delta' = Delta /\ NoInPlace' = NoInPlace
    BY DEF Shifted, Delta, NoInPlace, history
  <2>2. row' + 1 = row /\ row' < 8 /\ pc' = "deltaRows"
    BY <1>1 DEF PackInv
  <2> QED BY <1>1, <1>5, <1>7, <1>8, <2>1, <2>2 DEF PackInv, AfterDelta, NoBlock, utlValuesPerLane
<1>12. HeaderInv' /\ ExceptionInv' /\ ReadInv'
  BY <1>1, EarlyFrame DEF reading, Packing
<1> QED BY <1>9, <1>10, <1>11, <1>12 DEF Inv

(* All rows done, every word is zigzag encoded if one difference wrapped.  *)
LEMMA ZigZagAllStep ==
  ASSUME Inv, ZigZagAll
  PROVE  Inv'
<1> USE DEF ZigZagAll, packing, reading, history
<1>1. /\ TypeOK /\ count \in Nat /\ dst = NoBlock /\ Delta /\ row = 0
      /\ (NoInPlace => work = "scratch") /\ (work = "scratch" => NoInPlace)
      /\ workValues = DeltaFrom(Shifted, 1)
      /\ (~zigzag => AscendingFrom(Shifted, 1))
      /\ DOMAIN values = 0 .. count - 1 /\ DOMAIN stored = 0 .. count - 1
      /\ workValues \in Slice(count) /\ DOMAIN workValues = 0 .. count - 1
      /\ Encoded \in Slice(count)
  BY Typed DEF Inv, CallInv, PackInv, Packing
<1>2. /\ values' \in Slice(count) /\ count' = count /\ scratch' \in Slice(2 * blockSize)
      /\ workValues' = Encoded /\ (NoInPlace => values' = values)
  <2>1. CASE zigzag
    <3>1. WriteWork([i \in DOMAIN values |-> zigzagEncode32(workValues[i])]) /\ work' = work
      BY <2>1
    <3>2. [i \in DOMAIN values |-> zigzagEncode32(workValues[i])] = Encoded
      BY <1>1, <2>1 DEF Encoded, Encode, Shifted
    <3>3. WriteWork(Encoded)
      BY <3>1, <3>2
    <3> QED BY <1>1, <3>1, <3>3, WriteWorkFacts
  <2>2. CASE ~zigzag
    <3>1. values' = values /\ scratch' = scratch /\ work' = work
      BY <2>2 DEF memory
    <3>2. workValues' = workValues /\ count' = count
      BY <3>1 DEF workValues, count
    <3>3. Encoded = [i \in 0 .. count - 1 |-> workValues[i]]
      BY <1>1, <2>2 DEF Encoded, Encode, Shifted
    <3>4. Encoded = workValues
      BY <1>1, <3>3 DEF Slice
    <3> QED BY <1>1, <3>1, <3>2, <3>4 DEF TypeOK
  <2> QED BY <2>1, <2>2
<1>3. TypeOK'
  BY <1>1, <1>2 DEF TypeOK
<1>4. CallInv'
  BY <1>1, <1>2 DEF Inv, CallInv, NoInPlace, Packing, Reading, NoBlock
<1>5. PackInv'
  <2>1. Shifted' = Shifted /\ Encoded' = Encoded /\ Delta' = Delta
    BY DEF Shifted, Encoded, Delta
  <2> QED BY <1>1, <1>2, <2>1 DEF PackInv, AfterDelta, NoBlock
<1>6. HeaderInv' /\ ExceptionInv' /\ ReadInv'
  BY <1>1, EarlyFrame DEF Packing
<1> QED BY <1>3, <1>4, <1>5, <1>6 DEF Inv

-----------------------------------------------------------------------------
(* The width, the kernel's input and the payload. *)

(* The width is a step, and nExc is the number of words that exceed it. *)
LEMMA SelectWidthStep ==
  ASSUME Inv, SelectWidth
  PROVE  Inv'
<1> USE DEF SelectWidth, memory, reading, history
<1>1. /\ TypeOK /\ dst = NoBlock /\ workValues = Encoded /\ Encoded \in Slice(count)
      /\ count \in Nat /\ count <= blockSize /\ blockSize \in Nat
  BY Typed, Dimensions DEF Inv, CallInv, PackInv, Packing
<1>2. /\ bitWidth' \in StepWidths /\ nExc' = excCount(Encoded, bitWidth')
      /\ ("NoPatch" \in flag => nExc' = 0) /\ nExc' \in 0 .. blockSize
  <2>1. CASE "NoPatch" \in flag
    BY <1>1, <2>1, NoPatchWidth
  <2>2. CASE "NoPatch" \notin flag
    <3>1. bitWidth' \in StepWidths /\ nExc' = excCount(Encoded, bitWidth')
      BY <1>1, <2>2, PatchWidth
    <3>2. nExc' \in 0 .. count
      BY <1>1, <3>1, ExceptionFacts
    <3> QED BY <1>1, <2>2, <3>1, <3>2
  <2> QED BY <2>1, <2>2
<1>3. TypeOK' /\ count' = count
  BY <1>1, <1>2 DEF TypeOK, count
<1>4. CallInv'
  BY <1>1, <1>3 DEF Inv, CallInv, NoInPlace, Packing, Reading, NoBlock
<1>5. PackInv'
  <2>1. /\ workValues' = workValues /\ Encoded' = Encoded /\ Shifted' = Shifted
        /\ Delta' = Delta
    BY DEF workValues, Encoded, Shifted, Delta
  <2> QED BY <1>1, <1>2, <2>1 DEF Inv, PackInv, AfterDelta, NoBlock
<1>6. HeaderInv' /\ ExceptionInv' /\ ReadInv'
  BY <1>1, EarlyFrame DEF Packing
<1> QED BY <1>3, <1>4, <1>5, <1>6 DEF Inv

(* The kernel reads the words and then zeros, from either place. *)
LEMMA PadStep ==
  ASSUME Inv, Pad
  PROVE  Inv'
<1> USE DEF Pad, PaddedScratch, reading, history
<1>1. /\ TypeOK /\ dst = NoBlock /\ workValues = Encoded /\ Encoded \in Slice(count)
      /\ DOMAIN values = 0 .. count - 1 /\ DOMAIN stored = 0 .. count - 1
      /\ count \in Nat /\ count <= blockSize /\ blockSize \in Nat
      /\ scratch \in [0 .. 2 * blockSize - 1 -> Word]
      /\ DOMAIN Encoded = 0 .. count - 1
  BY Typed, Dimensions DEF Inv, CallInv, PackInv, Packing, TypeOK, Slice
<1>2. \A i \in 0 .. count - 1 : i \in 0 .. 2 * blockSize - 1 /\ Encoded[i] \in Word
  BY <1>1, SliceFacts
<1>3. 0 \in Word /\ \A i \in Pos : i \in 0 .. 2 * blockSize - 1
  BY <1>1, Dimensions DEF Word, Pos
<1>4. /\ scratch' \in Slice(2 * blockSize) /\ packInput' \in {"work", "scratch"}
      /\ workValues' = Encoded
      /\ packInput' = "scratch" =>
           \A i \in Pos : scratch'[i] = IF i \in 0 .. count - 1 THEN Encoded[i] ELSE 0
  <2>1. CASE simdLevel # "scalar" /\ count < blockSize
    <3>1. scratch' = [i \in 0 .. 2 * blockSize - 1 |->
                        IF i \in 0 .. count - 1 THEN Encoded[i]
                        ELSE IF i \in Pos THEN 0 ELSE scratch[i]]
      BY <1>1, <2>1
    <3>2. scratch' \in Slice(2 * blockSize)
      BY <1>1, <1>2, <1>3, <3>1 DEF Slice
    <3>3. [i \in 0 .. count - 1 |-> scratch'[i]] = Encoded
      BY <1>1, <1>2, <3>1 DEF Slice
    <3>4. workValues' = Encoded
      BY <1>1, <3>3, <2>1 DEF workValues
    <3> QED BY <1>2, <1>3, <2>1, <3>1, <3>2, <3>4
  <2>2. CASE ~(simdLevel # "scalar" /\ count < blockSize)
    BY <1>1, <2>2 DEF workValues, TypeOK
  <2> QED BY <2>1, <2>2
<1>5. TypeOK' /\ count' = count
  BY <1>1, <1>4 DEF TypeOK, count
<1>6. CallInv'
  BY <1>1, <1>5 DEF Inv, CallInv, NoInPlace, Packing, Reading, NoBlock
<1>7. PackInv'
  <2>1. /\ Encoded' = Encoded /\ Shifted' = Shifted /\ Delta' = Delta
    BY DEF Encoded, Shifted, Delta
  <2>2. \A i \in Pos : KernelInput(i)' = IF i \in DOMAIN stored THEN Encoded[i] ELSE 0
    BY <1>1, <1>4 DEF KernelInput
  <2> QED BY <1>1, <1>4, <2>1, <2>2 DEF Inv, PackInv, AfterDelta, NoBlock
<1>8. HeaderInv' /\ ExceptionInv' /\ ReadInv'
  BY <1>1, EarlyFrame DEF Packing
<1> QED BY <1>5, <1>6, <1>7, <1>8 DEF Inv

(* Header, base and payload as the readers will find them. *)
LEMMA WritePayloadStep ==
  ASSUME Inv, WritePayload
  PROVE  Inv'
<1> USE DEF WritePayload, memory, reading, history
<1>1. /\ TypeOK /\ dst = NoBlock /\ workValues = Encoded /\ base \in Word
      /\ count \in Nat /\ count > 0 /\ count <= blockSize
      /\ nExc = excCount(Encoded, bitWidth) /\ nExc \in Nat
      /\ \A i \in Pos : KernelInput(i) = IF i \in DOMAIN stored THEN Encoded[i] ELSE 0
  BY Typed, Dimensions DEF Inv, CallInv, PackInv, Packing, TypeOK
<1>2. /\ dst'.count = count /\ dst'.bitWidth = bitWidth /\ dst'.excCount = nExc
      /\ dst'.intType = IntTypeUint32 /\ dst'.combine = FALSE
      /\ dst'.delta = Delta /\ dst'.zigzag = zigzag
      /\ dst'.base = storedBase /\ dst'.forWidth = selectFORWidth(base)
      /\ dst'.pOff = payloadOffset(forBaseBytes(selectFORWidth(base)), nExc > 0, FALSE)
      /\ dst'.payload = [i \in Pos |-> KernelInput(i) % 2 ^ bitWidth]
      /\ dst'.len = maxTotalLen /\ dst'.svbLen = 0
  BY <1>1 DEF NoBlock, Delta
<1>3. storedBase = base
  BY <1>1, BaseFits DEF storedBase
<1>4. UNCHANGED <<values, scratch, stored, flag, work, base, zigzag, bitWidth, nExc>>
  OBVIOUS
<1>5. TypeOK' /\ count' = count
  <2>1. count' = count
    BY <1>4 DEF count
  <2> QED BY <1>1, <2>1 DEF TypeOK
<1>6. /\ Encoded' = Encoded /\ Shifted' = Shifted /\ Delta' = Delta
      /\ workValues' = workValues /\ NoInPlace' = NoInPlace
  BY <1>4 DEF Encoded, Shifted, Delta, workValues, NoInPlace
<1>7. pc' = (IF nExc > 0 THEN "collect" ELSE "idle")
  OBVIOUS
<1>8. CallInv'
  BY <1>1, <1>2, <1>5, <1>6, <1>7 DEF Inv, CallInv, Packing, Reading
<1>9. PackInv'
  BY <1>1, <1>6, <1>7 DEF Inv, PackInv, AfterDelta
<1>10. HeaderInv'
  <2>1. dst'.pOff = readOffset(dst, FALSE)'
    BY <1>2 DEF readOffset
  <2>2. dst'.payload = [i \in Pos |-> IF i \in DOMAIN stored'
                                      THEN Encoded'[i] % 2 ^ bitWidth' ELSE 0]
    <3>1. 2 ^ bitWidth \in Nat \ {0}
      BY <1>1, Dimensions DEF TypeOK
    <3>2. 0 % 2 ^ bitWidth = 0
      BY <3>1
    <3> QED BY <1>1, <1>2, <1>6, <3>2
  <2>3. dst'.svbLen \in Nat
    BY <1>2
  <2>4. /\ dst'.base = base' /\ dst'.forWidth = selectFORWidth(base')
        /\ dst'.delta = Delta' /\ dst'.zigzag = zigzag'
    BY <1>2, <1>3, <1>6
  <2>5. /\ dst'.count = count' /\ dst'.bitWidth = bitWidth' /\ dst'.excCount = nExc'
        /\ dst'.intType = IntTypeUint32 /\ ~dst'.combine
    BY <1>2, <1>5
  <2> QED BY <2>1, <2>2, <2>3, <2>4, <2>5 DEF HeaderInv
<1>11. ExceptionInv'
  <2>1. ASSUME ~(nExc > 0) PROVE dst'.len = readEnd(dst, FALSE)'
    <3>1. nExc = 0
      BY <1>1, <2>1
    <3>2. readEnd(dst, FALSE)' =
            payloadOffset(forBaseBytes(selectFORWidth(base)), FALSE, FALSE)
              + utlPayloadBytes(bitWidth) + 0
      BY <1>2, <3>1 DEF readEnd, readOffset, payloadOffset
    <3>3. maxTotalLen =
            payloadOffset(forBaseBytes(selectFORWidth(base)), FALSE, FALSE)
              + utlPayloadBytes(bitWidth) + 0
      BY <1>1, <3>1 DEF maxTotalLen, payloadOffset, NoBlock
    <3> QED BY <1>2, <3>2, <3>3
  <2> QED BY <1>7, <2>1 DEF ExceptionInv, Reading
<1>12. ReadInv'
  BY <1>7 DEF ReadInv, Reading, Inv
<1> QED BY <1>5, <1>8, <1>9, <1>10, <1>11, <1>12 DEF Inv

-----------------------------------------------------------------------------
(* Exceptions. *)

(* The block as it is once the payload is written: what the steps that     *)
(* follow need of it.                                                      *)
LEMMA BlockFacts ==
  ASSUME Inv, dst.count > 0
  PROVE  /\ TypeOK /\ count \in Nat /\ count > 0 /\ count <= blockSize
         /\ DOMAIN stored = 0 .. count - 1 /\ Encoded \in Slice(count)
         /\ DOMAIN Encoded = 0 .. count - 1 /\ bitWidth \in StepWidths
         /\ nExc = excCount(Encoded, bitWidth) /\ nExc \in 0 .. count
         /\ HighBits(Encoded, bitWidth) \in Slice(nExc)
         /\ dst.count = count /\ dst.bitWidth = bitWidth /\ dst.excCount = nExc
         /\ dst.delta = Delta /\ dst.zigzag = zigzag
         /\ dst.base = base /\ dst.forWidth = selectFORWidth(base)
         /\ {"positions", "bitmap", "svb", "svbLen", "len"} \subseteq DOMAIN dst
<1>1. /\ TypeOK /\ count \in Nat /\ count <= blockSize /\ Encoded \in Slice(count)
      /\ DOMAIN stored = 0 .. count - 1 /\ DOMAIN Encoded = 0 .. count - 1
      /\ nExc = excCount(Encoded, bitWidth) /\ bitWidth \in StepWidths /\ count > 0
  BY Typed DEF Inv, PackInv, CallInv, TypeOK
<1>2. nExc \in 0 .. count
  BY <1>1, ExceptionFacts
<1>3. HighBits(Encoded, bitWidth) \in Slice(nExc)
  <2>1. \A r \in 0 .. excCount(Encoded, bitWidth) - 1 : HighBits(Encoded, bitWidth)[r] \in Word
    BY <1>1, HighBitsType
  <2> QED BY <1>1, <2>1 DEF HighBits, Slice
<1>4. {"positions", "bitmap", "svb", "svbLen", "len"} \subseteq DOMAIN dst
  BY DEF Inv, CallInv, NoBlock
<1> QED BY <1>1, <1>2, <1>3, <1>4 DEF Inv, HeaderInv

(* The index and the high bits of the words that exceed the width. *)
LEMMA CollectExceptionsStep ==
  ASSUME Inv, CollectExceptions
  PROVE  Inv'
<1> USE DEF CollectExceptions, reading, history
<1>1. dst.count > 0 /\ workValues = Encoded /\ nExc > 0
  BY DEF Inv, CallInv, PackInv, ExceptionInv
<1> DEFINE E == Exceptions(Encoded, bitWidth)
<1> DEFINE hb == HighBits(Encoded, bitWidth)
<1>2. nExc = Cardinality(E) /\ nExc \in Nat /\ nExc <= blockSize
  BY <1>1, BlockFacts, Dimensions DEF excCount
<1>3. scratch' = Store(scratch, highBitsOff, hb)
  BY <1>1, <1>2 DEF HighBits, excCount
<1>0. {"positions", "bitmap", "svb", "svbLen", "len"} \subseteq DOMAIN dst
  BY <1>1, BlockFacts
<1>4. dst' = IF nExc <= excBitmapThreshold
             THEN [dst EXCEPT !.positions = ExcPositions(Encoded, bitWidth)]
             ELSE [dst EXCEPT !.bitmap = E]
  BY <1>1, <1>2 DEF ExcPositions, excCount
<1>5. hb \in Slice(nExc) /\ nExc \in 0 .. blockSize /\ highBitsOff \in {0, blockSize}
  BY <1>1, <1>2, BlockFacts DEF highBitsOff
<1>6. /\ scratch' \in Slice(2 * blockSize)
      /\ \A r \in 0 .. nExc - 1 : scratch'[highBitsOff + r] = hb[r]
  <2>1. TypeOK
    BY DEF Inv
  <2> HIDE DEF hb, CollectExceptions
  <2> QED BY <1>3, <1>5, <2>1, CopyToHalf
<1>7. /\ dst'.count = dst.count /\ dst'.bitWidth = dst.bitWidth
      /\ dst'.excCount = dst.excCount /\ dst'.intType = dst.intType
      /\ dst'.combine = dst.combine /\ dst'.delta = dst.delta /\ dst'.zigzag = dst.zigzag
      /\ dst'.base = dst.base /\ dst'.forWidth = dst.forWidth /\ dst'.pOff = dst.pOff
      /\ dst'.payload = dst.payload /\ dst'.svbLen = dst.svbLen
      /\ DOMAIN dst' = DOMAIN dst
  BY <1>4
<1>8. /\ count' = count /\ Encoded' = Encoded /\ Shifted' = Shifted /\ Delta' = Delta
      /\ NoInPlace' = NoInPlace /\ highBitsOff' = highBitsOff
  BY DEF count, Encoded, Shifted, Delta, NoInPlace, highBitsOff
<1>9. TypeOK'
  BY <1>6, <1>8 DEF Inv, TypeOK
<1>10. CallInv'
  BY <1>1, <1>7, <1>8 DEF Inv, CallInv, Packing, Reading
<1>11. PackInv'
  BY <1>1, <1>7, <1>8 DEF Inv, PackInv, AfterDelta
<1>12. HeaderInv'
  <2>1. readOffset(dst, FALSE)' = readOffset(dst, FALSE)
    BY <1>7 DEF readOffset, isFor64SingleBlock
  <2> DEFINE p == readOffset(dst, FALSE)
  <2>2. p' = p
    BY <2>1
  <2> HIDE DEF p
  <2> QED BY <1>1, <1>7, <1>8, <2>2 DEF Inv, HeaderInv, readOffset, isFor64SingleBlock
<1>13. ExceptionInv'
  <2>1. IndexWritten'
    <3>1. nExc' = nExc /\ bitWidth' = bitWidth
      OBVIOUS
    <3>2. IndexWritten' = IF nExc <= excBitmapThreshold
                          THEN dst'.positions = ExcPositions(Encoded, bitWidth)
                          ELSE dst'.bitmap = E
      BY <1>8, <3>1 DEF IndexWritten
    <3>3. CASE nExc <= excBitmapThreshold
      <4>1. dst'.positions = ExcPositions(Encoded, bitWidth)
        <5> HIDE DEF E
        <5> QED BY <1>0, <1>4, <3>3
      <4> QED BY <3>2, <3>3, <4>1
    <3>4. CASE ~(nExc <= excBitmapThreshold)
      <4>1. dst'.bitmap = E
        <5> HIDE DEF E
        <5> QED BY <1>0, <1>4, <3>4
      <4> QED BY <3>2, <3>4, <4>1
    <3> QED BY <3>3, <3>4
  <2>2. \A r \in 0 .. nExc' - 1 :
          scratch'[highBitsOff' + r] = HighBits(Encoded', bitWidth')[r]
    BY <1>6, <1>8
  <2> QED BY <1>1, <2>1, <2>2 DEF ExceptionInv, Reading
<1>14. ReadInv'
  BY DEF Inv, ReadInv, Reading
<1> QED BY <1>9, <1>10, <1>11, <1>12, <1>13, <1>14 DEF Inv

(* The high bits go into the block, which is as long as its parts. *)
LEMMA EncodeSVBStep ==
  ASSUME Inv, EncodeSVB
  PROVE  Inv'
<1> USE DEF EncodeSVB, memory, reading, history
<1>1. dst.count > 0 /\ nExc > 0 /\ IndexWritten
  BY DEF Inv, CallInv, ExceptionInv
<1> DEFINE high == [r \in 0 .. nExc - 1 |-> scratch[highBitsOff + r]]
<1> DEFINE svbLen == svbControlByteCount(nExc) + svbDataLen(high)
<1>2. dst' = [dst EXCEPT !.svb = high, !.svbLen = svbLen,
               !.len = dst.pOff + utlPayloadBytes(bitWidth) + (excIndexSize(nExc) + svbLen)]
  OBVIOUS
<1>3. high = HighBits(Encoded, bitWidth)
  <2>1. nExc = excCount(Encoded, bitWidth)
    BY <1>1, BlockFacts
  <2>2. \A r \in 0 .. nExc - 1 : scratch[highBitsOff + r] = HighBits(Encoded, bitWidth)[r]
    BY DEF Inv, ExceptionInv
  <2> QED BY <2>1, <2>2 DEF HighBits
<1>svb. svbLen \in Nat
  BY <1>1, BlockFacts, SVBLength
<1> HIDE DEF high, svbLen
<1>4. /\ dst'.count = dst.count /\ dst'.bitWidth = dst.bitWidth
      /\ dst'.excCount = dst.excCount /\ dst'.intType = dst.intType
      /\ dst'.combine = dst.combine /\ dst'.delta = dst.delta /\ dst'.zigzag = dst.zigzag
      /\ dst'.base = dst.base /\ dst'.forWidth = dst.forWidth /\ dst'.pOff = dst.pOff
      /\ dst'.payload = dst.payload /\ dst'.positions = dst.positions
      /\ dst'.bitmap = dst.bitmap /\ DOMAIN dst' = DOMAIN dst
      /\ dst'.svb = high /\ dst'.svbLen = svbLen
      /\ dst'.len = dst.pOff + utlPayloadBytes(bitWidth) + (excIndexSize(nExc) + svbLen)
  <2>1. {"positions", "bitmap", "svb", "svbLen", "len"} \subseteq DOMAIN dst
    BY <1>1, BlockFacts
  <2>2. /\ dst'.svb = high /\ dst'.svbLen = svbLen
        /\ dst'.len = dst.pOff + utlPayloadBytes(bitWidth) + (excIndexSize(nExc) + svbLen)
    BY <1>2, <2>1
  <2>3. /\ dst'.count = dst.count /\ dst'.bitWidth = dst.bitWidth
        /\ dst'.excCount = dst.excCount /\ dst'.intType = dst.intType
        /\ dst'.combine = dst.combine /\ dst'.delta = dst.delta
        /\ dst'.zigzag = dst.zigzag
    BY <1>2
  <2>4. /\ dst'.base = dst.base /\ dst'.forWidth = dst.forWidth /\ dst'.pOff = dst.pOff
        /\ dst'.payload = dst.payload /\ dst'.positions = dst.positions
        /\ dst'.bitmap = dst.bitmap /\ DOMAIN dst' = DOMAIN dst
    BY <1>2
  <2> QED BY <2>2, <2>3, <2>4
<1>5. UNCHANGED <<values, scratch, stored, flag, work, base, zigzag, bitWidth, nExc>>
  OBVIOUS
<1>6. /\ count' = count /\ Encoded' = Encoded /\ Shifted' = Shifted /\ Delta' = Delta
      /\ NoInPlace' = NoInPlace
  BY <1>5 DEF count, Encoded, Shifted, Delta, NoInPlace
<1>7. TypeOK'
  BY <1>5, <1>6 DEF Inv, TypeOK
<1>8. CallInv'
  BY <1>1, <1>4, <1>5, <1>6 DEF Inv, CallInv, Packing, Reading
<1>9. PackInv'
  BY <1>1, <1>4, <1>5, <1>6 DEF Inv, PackInv, AfterDelta
<1>10. readOffset(dst, FALSE)' = readOffset(dst, FALSE)
  BY <1>4 DEF readOffset, isFor64SingleBlock
<1>11. HeaderInv'
  BY <1>1, <1>svb, <1>4, <1>5, <1>6, <1>10 DEF Inv, HeaderInv
<1>12. ExceptionInv'
  <2>1. dst'.len = readEnd(dst, FALSE)'
    <3>1. /\ dst.pOff = readOffset(dst, FALSE) /\ dst.excCount = nExc
          /\ dst.bitWidth = bitWidth
      BY <1>1 DEF Inv, HeaderInv
    <3>2. readEnd(dst, FALSE)' = dst.pOff + utlPayloadBytes(bitWidth)
                                   + (excIndexSize(nExc) + svbLen)
      BY <1>1, <1>4, <1>10, <3>1 DEF readEnd
    <3> QED BY <1>4, <3>2
  <2>2. IndexWritten' = IndexWritten
    BY <1>4, <1>5, <1>6 DEF IndexWritten
  <2>3. dst'.svbLen = svbNeeded(dst)'
    <3>1. dst'.excCount = nExc
      BY <1>1, <1>4 DEF Inv, HeaderInv
    <3> QED BY <1>4, <3>1 DEF svbNeeded, svbLen
  <2> QED BY <1>1, <1>3, <1>4, <1>5, <1>6, <2>1, <2>2, <2>3 DEF ExceptionInv
<1>13. ReadInv'
  BY DEF Inv, ReadInv, Reading
<1> QED BY <1>7, <1>8, <1>9, <1>11, <1>12, <1>13 DEF Inv

-----------------------------------------------------------------------------
(* What the readers find. *)

Readable == dst.count > 0 /\ pc \in {"idle"} \cup Reading

(* The block in memory holds the coding of the stored values.              *)
LEMMA HoldsEncoded ==
  ASSUME Inv, Readable
  PROVE  /\ count \in 0 .. blockSize /\ Encoded \in Slice(count)
         /\ Holds(dst, Encoded) /\ supportedType(dst, FALSE)
         /\ dst.forWidth \in 0 .. 3 /\ dst.len = readEnd(dst, FALSE)
         /\ ~isFor64SingleBlock(dst)
<1>1. /\ TypeOK /\ count \in Nat /\ Encoded \in Slice(count) /\ bitWidth \in StepWidths
      /\ DOMAIN stored = 0 .. count - 1 /\ DOMAIN Encoded = 0 .. count - 1
      /\ nExc = excCount(Encoded, bitWidth) /\ dst.excCount = nExc
      /\ dst.count = count /\ dst.bitWidth = bitWidth
      /\ dst.forWidth = selectFORWidth(base)
  BY BlockFacts DEF Readable
<1>2. SliceLen(Encoded) = count
  BY <1>1, SliceFacts
<1>3. /\ dst.payload = [i \in Pos |-> IF i \in DOMAIN Encoded
                                      THEN Encoded[i] % 2 ^ bitWidth ELSE 0]
      /\ dst.intType = IntTypeUint32
  BY <1>1 DEF Inv, HeaderInv, Readable
<1>4. /\ dst.len = readEnd(dst, FALSE)
      /\ nExc > 0 => /\ IndexWritten /\ dst.svb = HighBits(Encoded, bitWidth)
                     /\ dst.svbLen = svbNeeded(dst)
  BY DEF Inv, ExceptionInv, Readable
<1>5. Holds(dst, Encoded)
  BY <1>1, <1>2, <1>3, <1>4 DEF Holds, IndexWritten
<1>6. dst.forWidth \in 0 .. 3
  <2>1. base \in Nat
    BY <1>1, SliceFacts DEF TypeOK, Word
  <2> QED BY <1>1, <2>1, BaseBytes
<1>7. supportedType(dst, FALSE) /\ ~isFor64SingleBlock(dst)
  BY <1>3 DEF supportedType, isFor64SingleBlock, IntTypeUint32, IntTypeUint64
<1> QED BY <1>1, <1>4, <1>5, <1>6, <1>7 DEF TypeOK

(* The high bits' control bytes describe no more than svbLen bytes.        *)
LEMMA SVBNeeded ==
  ASSUME Inv, Readable
  PROVE  dst.excCount > 0 => /\ ~(svbNeeded(dst) > dst.svbLen)
                             /\ ~(dst.svbLen < svbControlByteCount(dst.excCount))
BY HoldsEncoded, HighBitsFit

(* No reader turns a block away that a pack produced, and Get tells the    *)
(* positions of the block from all others.                                 *)
LEMMA ReadersAccept ==
  ASSUME Inv, Readable
  PROVE  /\ headerError(dst, FALSE) = "none"
         /\ \A pos \in Int : getError(dst, pos, FALSE) =
              IF pos \in 0 .. count - 1 THEN "none" ELSE "ErrPositionOutOfRange"
BY HoldsEncoded, Accepted

(* The index leads to the exceptions in either form. *)
LEMMA IndexFacts ==
  ASSUME Inv, Readable, nExc > 0
  PROVE  /\ patchTarget(dst) = ExcPositions(Encoded, bitWidth)
         /\ DOMAIN patchTarget(dst) = 0 .. nExc - 1
         /\ dst.svb = HighBits(Encoded, bitWidth)
<1>1. /\ nExc = excCount(Encoded, bitWidth) /\ dst.excCount = nExc
      /\ IndexWritten /\ dst.svb = HighBits(Encoded, bitWidth)
  BY BlockFacts DEF Inv, ExceptionInv, Readable
<1>2. patchTarget(dst) = ExcPositions(Encoded, bitWidth)
  <2>1. CASE nExc <= excBitmapThreshold
    BY <1>1, <2>1 DEF patchTarget, IndexWritten
  <2>2. CASE ~(nExc <= excBitmapThreshold)
    BY <1>1, <2>2 DEF patchTarget, IndexWritten, ExcPositions, excCount
  <2> QED BY <2>1, <2>2
<1> QED BY <1>1, <1>2 DEF ExcPositions

(* The value at a position, with its exception's high bits put back. *)
LEMMA GetValue ==
  ASSUME Inv, Readable, NEW pos \in 0 .. count - 1
  PROVE  getValueDirect(dst, pos) = Encoded[pos]
BY HoldsEncoded, ValueAt

-----------------------------------------------------------------------------
(* Decompress, and a Get that unpacks the block. *)

(* The prologue accepts the block. *)
LEMMA StartUnpackStep ==
  ASSUME Inv, pc = "idle", dst.count > 0, NEW pos \in {-1} \cup (0 .. count - 1),
         pos \in {-1} \cup Positions, StartUnpack(pos)
  PROVE  Inv' /\ pc' = "unpack" /\ res' = res
<1> USE DEF StartUnpack, packing, memory, history
<1>1. Readable
  BY DEF Readable
<1>2. pc' = "unpack" /\ res' = res /\ asked' = pos /\ overflow' = 0
  BY <1>1, ReadersAccept
<1>3. CallInv' /\ PackInv' /\ HeaderInv' /\ ExceptionInv'
  BY <1>2, ReadFrame DEF Reading
<1>4. TypeOK'
  <2>1. 0 \in 0 .. blockSize - 1
    BY Dimensions
  <2> QED BY <1>2, <2>1 DEF Inv, TypeOK, count
<1>5. ReadInv'
  BY <1>2 DEF ReadInv, Reading, count
<1> QED BY <1>2, <1>3, <1>4, <1>5 DEF Inv

(* The prologue of UnpackUint32 accepts the block and answers nothing yet. *)
LEMMA DecompressStep ==
  ASSUME Inv, Decompress
  PROVE  Inv' /\ res' = res
BY StartUnpackStep DEF Decompress

(* Nor does a Get that unpacks the whole block. *)
LEMMA GetByUnpackStep ==
  ASSUME Inv, NEW pos \in Positions, GetByUnpack(pos)
  PROVE  Inv' /\ res' = res
<1>1. pos \in Int
  BY CallerAssumption
<1>2. Readable
  BY DEF GetByUnpack, Readable
<1>3. pos \in 0 .. count - 1
  BY <1>1, <1>2, ReadersAccept DEF GetByUnpack
<1> QED BY <1>3, StartUnpackStep DEF GetByUnpack

(* The lanes hold the low bits of the words. *)
LEMMA UnpackLanesStep ==
  ASSUME Inv, UnpackLanes
  PROVE  Inv'
<1> USE DEF UnpackLanes, packing, memory, history
<1>1. /\ dst.count > 0 /\ dst.count = count /\ DOMAIN stored = 0 .. count - 1
      /\ TypeOK /\ overflow = 0
      /\ (asked = -1 \/ asked \in 0 .. count - 1)
      /\ asked \in {-1} \cup Positions
  <2>1. dst.count > 0
    BY DEF Inv, CallInv, Reading
  <2>2. asked \in {-1} \cup Positions /\ (asked = -1 \/ asked \in 0 .. count - 1)
    BY DEF Inv, ReadInv, Reading
  <2> QED BY <2>1, <2>2, BlockFacts DEF Inv, ReadInv
<1>2. CallInv' /\ PackInv' /\ HeaderInv' /\ ExceptionInv'
  BY <1>1, ReadFrame DEF Reading
<1>3. TypeOK' /\ count' = count
  BY <1>1 DEF TypeOK, count
<1>4. ReadInv'
  BY <1>1, <1>3 DEF ReadInv, Reading
<1> QED BY <1>2, <1>3, <1>4 DEF Inv

(* What "undelta" starts from: no row decoded yet. *)
LEMMA UndeltaStart ==
  ASSUME Inv, dst.count > 0
  PROVE  DecodedTo(Shifted, Encoded, 0) = Encoded
<1>1. /\ Encoded \in Slice(count) /\ DOMAIN Shifted = 0 .. count - 1
  BY Typed DEF Inv
<1>2. \A i \in 0 .. count - 1 : ~(i < 0 * LaneCount)
  BY Dimensions
<1>3. DecodedTo(Shifted, Encoded, 0) = [i \in 0 .. count - 1 |-> Encoded[i]]
  BY <1>1, <1>2 DEF DecodedTo
<1> QED BY <1>1, <1>3 DEF Slice

(* Each exception gets its high bits back, and no other word changes. *)
LEMMA ApplyExceptionsStep ==
  ASSUME Inv, ApplyExceptions
  PROVE  Inv' /\ res' = res
<1> USE DEF packing, history
<1> DEFINE p == 2 ^ bitWidth
<1> DEFINE hits(i) == {q \in 0 .. nExc - 1 : ExcPositions(Encoded, bitWidth)[q] = i}
<1> DEFINE hb == HighBits(Encoded, bitWidth)
<1>1. /\ dst.count > 0 /\ pc = "patch" /\ dst.excCount > 0
  BY DEF Inv, CallInv, Reading, ApplyExceptions
<1>2. /\ TypeOK /\ count \in Nat /\ count > 0 /\ count <= blockSize
      /\ DOMAIN stored = 0 .. count - 1 /\ Encoded \in Slice(count)
      /\ DOMAIN Encoded = 0 .. count - 1 /\ bitWidth \in StepWidths
      /\ nExc = excCount(Encoded, bitWidth) /\ nExc \in 0 .. count
      /\ dst.count = count /\ dst.bitWidth = bitWidth /\ dst.excCount = nExc
      /\ blockSize \in Nat /\ nExc > 0
  BY <1>1, BlockFacts, Dimensions
<1>3. /\ patchTarget(dst) = ExcPositions(Encoded, bitWidth)
      /\ DOMAIN patchTarget(dst) = 0 .. nExc - 1 /\ dst.svb = hb
  BY <1>1, <1>2, IndexFacts DEF Readable, Reading
<1>4. ~(dst.excCount > dst.count \/ svbNeeded(dst) > dst.svbLen)
  <2>1. Readable
    BY <1>1 DEF Readable, Reading
  <2> QED BY <1>1, <1>2, <2>1, SVBNeeded
<1> DEFINE shifted == [r \in 0 .. nExc - 1 |->
                         IF nExc <= excBitmapThreshold THEN hb[r] ELSE hb[r] * p]
<1>5. /\ scratch' = Store(scratch, 0, shifted)
      /\ out' = [i \in DOMAIN out |->
                   IF hits(i) = {} THEN out[i]
                   ELSE out[i] + hb[CHOOSE r \in hits(i) : TRUE] * p]
      /\ pc' = "undelta" /\ row' = 0 /\ res' = res
      /\ UNCHANGED <<simdLevel, values, packing, asked, overflow, history>>
  BY <1>2, <1>3, <1>4 DEF ApplyExceptions
<1>6. scratch' \in Slice(2 * blockSize)
  <2>1. \A r \in 0 .. nExc - 1 : hb[r] \in Word /\ hb[r] * p \in Word
    BY <1>2, HighBitsType
  <2>2. shifted \in Slice(nExc)
    BY <2>1 DEF Slice
  <2>3. nExc \in 0 .. blockSize
    BY <1>2
  <2> HIDE DEF shifted
  <2> QED BY <1>2, <1>5, <2>2, <2>3, CopyToScratch
<1>7. TypeOK' /\ count' = count
  BY <1>2, <1>5, <1>6 DEF TypeOK, count, utlValuesPerLane
<1>8. CallInv' /\ PackInv' /\ HeaderInv' /\ ExceptionInv'
  BY <1>1, <1>5, ReadFrame DEF Reading
<1>9. out' = Encoded
  <2>1. DOMAIN out = 0 .. count - 1 /\ \A i \in 0 .. count - 1 : out[i] = Encoded[i] % p
    <3>1. out = [i \in DOMAIN stored |-> dst.payload[i]]
      BY <1>1 DEF Inv, ReadInv
    <3>2. \A i \in 0 .. count - 1 : i \in Pos /\ dst.payload[i] = Encoded[i] % p
      BY <1>1, <1>2 DEF Inv, HeaderInv, Pos
    <3> QED BY <1>2, <3>1, <3>2
  <2>2. ASSUME NEW i \in 0 .. count - 1
        PROVE  (IF hits(i) = {} THEN out[i]
                ELSE out[i] + hb[CHOOSE r \in hits(i) : TRUE] * p) = Encoded[i]
    <3> DEFINE E == Exceptions(Encoded, bitWidth)
    <3> DEFINE r == Rank(E, i)
    <3>1. IF i \in E
          THEN /\ r \in 0 .. nExc - 1
               /\ ExcPositions(Encoded, bitWidth)[r] = i
               /\ \A q \in 0 .. nExc - 1 : ExcPositions(Encoded, bitWidth)[q] = i => q = r
               /\ (Encoded[i] % p) + hb[r] * p = Encoded[i]
          ELSE /\ \A q \in 0 .. nExc - 1 : ExcPositions(Encoded, bitWidth)[q] # i
               /\ Encoded[i] % p = Encoded[i]
      BY <1>2, PatchWord
    <3> HIDE DEF r, E, hb, p
    <3>2. CASE i \in E
      <4>1. hits(i) = {r}
        BY <3>1, <3>2
      <4>2. (CHOOSE q \in hits(i) : TRUE) = r
        BY <4>1
      <4> HIDE DEF hits
      <4> QED BY <2>1, <3>1, <3>2, <4>1, <4>2
    <3>3. CASE i \notin E
      <4>1. hits(i) = {}
        BY <3>1, <3>3
      <4> HIDE DEF hits
      <4> QED BY <2>1, <3>1, <3>3, <4>1
    <3> QED BY <3>2, <3>3
  <2> HIDE DEF hits, hb, p
  <2>3. out' = [i \in 0 .. count - 1 |-> Encoded[i]]
    BY <1>5, <2>1, <2>2
  <2> QED BY <1>2, <2>3 DEF Slice
<1>10. ReadInv'
  <2>1. Shifted' = Shifted /\ Encoded' = Encoded /\ Delta' = Delta
    BY <1>5 DEF Shifted, Encoded, Delta
  <2>2. DecodedTo(Shifted, Encoded, 0) = Encoded
    BY <1>1, UndeltaStart
  <2> QED BY <1>1, <1>5, <1>7, <1>9, <2>1, <2>2 DEF Inv, ReadInv, Reading
<1> QED BY <1>5, <1>7, <1>8, <1>10 DEF Inv

(* Without exceptions the low bits are the words. *)
LEMMA NoExceptionsStep ==
  ASSUME Inv, NoExceptions
  PROVE  Inv'
<1> USE DEF NoExceptions, packing, memory, reading, history
<1>1. dst.count > 0
  BY DEF Inv, CallInv, Reading
<1>2. /\ TypeOK /\ count \in Nat /\ count <= blockSize /\ blockSize \in Nat
      /\ DOMAIN stored = 0 .. count - 1 /\ Encoded \in Slice(count)
      /\ bitWidth \in StepWidths /\ nExc = excCount(Encoded, bitWidth) /\ nExc = 0
  BY <1>1, BlockFacts, Dimensions
<1>3. CallInv' /\ PackInv' /\ HeaderInv' /\ ExceptionInv'
  BY <1>1, ReadFrame DEF Reading
<1>4. TypeOK' /\ count' = count
  BY <1>2 DEF TypeOK, count, utlValuesPerLane
<1>5. out = Encoded
  <2>1. Exceptions(Encoded, bitWidth) = {}
    <3>1. /\ IsFiniteSet(Exceptions(Encoded, bitWidth))
          /\ Cardinality(Exceptions(Encoded, bitWidth)) = 0
      BY <1>2, ExceptionFacts
    <3> QED BY <3>1, FS_EmptySet
  <2>2. out = [i \in 0 .. count - 1 |-> dst.payload[i]]
    BY <1>2 DEF Inv, ReadInv
  <2>3. \A i \in 0 .. count - 1 : dst.payload[i] = Encoded[i] % 2 ^ bitWidth
    <3>1. \A i \in 0 .. count - 1 : i \in Pos
      BY <1>2 DEF Pos
    <3> QED BY <1>1, <1>2, <3>1 DEF Inv, HeaderInv
  <2>4. \A i \in 0 .. count - 1 : Encoded[i] % 2 ^ bitWidth = Encoded[i]
    BY <1>2, <2>1, PatchWord
  <2> QED BY <1>2, <2>2, <2>3, <2>4 DEF Slice
<1>6. ReadInv'
  <2>1. Shifted' = Shifted /\ Encoded' = Encoded /\ Delta' = Delta
    BY DEF Shifted, Encoded, Delta
  <2>2. DecodedTo(Shifted, Encoded, 0) = Encoded
    BY <1>1, UndeltaStart
  <2> QED BY <1>4, <1>5, <2>1, <2>2 DEF Inv, ReadInv, Reading
<1> QED BY <1>3, <1>4, <1>6 DEF Inv

(* One word of a delta block decoded. *)
Undone(e) == IF zigzag THEN zigzagDecode32(e) ELSE e

(* Undoing zigzag and adding the row above gives a word back, and without  *)
(* zigzag the sum never wraps.                                             *)
LEMMA DecodeFacts ==
  ASSUME Inv, Readable, Delta, NEW i \in 0 .. count - 1
  PROVE  /\ i < LaneCount => Undone(Encoded[i]) = Shifted[i]
         /\ i >= LaneCount =>
              /\ i - LaneCount \in 0 .. count - 1
              /\ Plus(Shifted[i - LaneCount], Undone(Encoded[i])) = Shifted[i]
              /\ ~zigzag => ~(Shifted[i] < Shifted[i - LaneCount])
<1>1. /\ count \in 0 .. blockSize /\ stored \in Slice(count) /\ base \in Word
      /\ zigzag \in BOOLEAN /\ Shifted \in Slice(count) /\ count \in Nat
  BY Typed DEF Inv
<1>2. ~zigzag => AscendingFrom(Shifted, 1)
  BY DEF Inv, PackInv, AfterDelta, Readable
<1>3. Encoded = Encode(stored, base, TRUE, zigzag) /\ Shifted = forSubtract(stored, base)
  BY DEF Encoded, Encode, Shifted
<1>4. i < LaneCount => Undone(Encoded[i]) = Shifted[i]
  BY <1>1, <1>2, <1>3, DecodedWord DEF Undone
<1>5. ASSUME i >= LaneCount
      PROVE  /\ i - LaneCount \in 0 .. count - 1
             /\ Plus(Shifted[i - LaneCount], Undone(Encoded[i])) = Shifted[i]
             /\ ~zigzag => Shifted[i - LaneCount] <= Shifted[i]
  BY <1>1, <1>2, <1>3, <1>5, DecodedWord DEF Undone
<1>6. ASSUME i >= LaneCount, ~zigzag PROVE ~(Shifted[i] < Shifted[i - LaneCount])
  <2>1. Shifted[i] \in Nat /\ Shifted[i - LaneCount] \in Nat
    BY <1>1, <1>5, <1>6, SliceFacts
  <2> QED BY <1>5, <1>6, <2>1
<1> QED BY <1>4, <1>5, <1>6

(* The lowest row not decoded yet is added to the row above it. *)
LEMMA UndeltaRowStep ==
  ASSUME Inv, UndeltaRow
  PROVE  Inv'
<1> USE DEF packing, memory, history
<1>1. /\ dst.count > 0 /\ pc = "undelta" /\ dst.delta /\ row < 8 /\ row' = row + 1
      /\ UNCHANGED <<pc, simdLevel, memory, packing, asked, res, history>>
  BY DEF Inv, CallInv, Reading, UndeltaRow, utlValuesPerLane
<1>2. /\ TypeOK /\ count \in Nat /\ Delta /\ dst.zigzag = zigzag /\ overflow = 0
      /\ row \in 0 .. 7 /\ row \in Nat /\ out = DecodedTo(Shifted, Encoded, row)
      /\ DOMAIN Shifted = 0 .. count - 1 /\ zigzag \in BOOLEAN
  <2>1. /\ TypeOK /\ count \in Nat /\ dst.zigzag = zigzag /\ dst.delta = Delta
        /\ DOMAIN Shifted = 0 .. count - 1 /\ zigzag \in BOOLEAN
    BY <1>1, BlockFacts, Typed
  <2>2. row \in 0 .. 7
    BY <1>1, <2>1 DEF TypeOK, utlValuesPerLane
  <2> QED BY <1>1, <2>1, <2>2 DEF Inv, ReadInv
<1> DEFINE lo == row * LaneCount
<1> DEFINE hi == (row + 1) * LaneCount
<1>3. /\ lo \in Nat /\ hi = lo + LaneCount /\ LaneCount \in Nat \ {0}
      /\ (row = 0 => lo = 0) /\ (row # 0 => lo >= LaneCount)
  BY <1>2, RowFacts, Dimensions
<1>4. /\ DOMAIN out = 0 .. count - 1
      /\ \A i \in 0 .. count - 1 : out[i] = IF i < lo THEN Shifted[i] ELSE Encoded[i]
  BY <1>2 DEF DecodedTo
<1>5. \A i \in 0 .. count - 1 : i \in OutRow(row) <=> (lo <= i /\ i < hi)
  BY <1>4 DEF OutRow
<1>6. OutRow(row) \subseteq 0 .. count - 1
  BY <1>4 DEF OutRow
<1> DEFINE sum(i) == IF row = 0 THEN Undone(out[i]) ELSE Plus(out[i - LaneCount], Undone(out[i]))
<1> DEFINE wraps == IF zigzag \/ row = 0 THEN {}
                    ELSE {i \in OutRow(row) : sum(i) < out[i - LaneCount]}
<1>7. /\ out' = [i \in DOMAIN out |-> IF i \in OutRow(row) THEN sum(i) ELSE out[i]]
      /\ wraps = {} => overflow' = overflow
  BY <1>1, <1>2 DEF UndeltaRow, Undone
<1> HIDE DEF lo, hi
<1>8. ASSUME NEW i \in OutRow(row)
      PROVE  sum(i) = Shifted[i] /\ (row # 0 /\ ~zigzag => ~(sum(i) < out[i - LaneCount]))
  <2>1. i \in 0 .. count - 1 /\ lo <= i /\ i < hi /\ out[i] = Encoded[i]
    BY <1>3, <1>4, <1>5, <1>6
  <2>2. CASE row = 0
    <3>1. i < LaneCount
      BY <1>3, <2>1, <2>2
    <3> QED BY <1>1, <1>2, <2>1, <2>2, <3>1, DecodeFacts DEF Readable, Reading
  <2>3. CASE row # 0
    <3>1. i >= LaneCount /\ i - LaneCount < lo
      BY <1>3, <2>1, <2>3
    <3>2. /\ i - LaneCount \in 0 .. count - 1
          /\ Plus(Shifted[i - LaneCount], Undone(Encoded[i])) = Shifted[i]
          /\ ~zigzag => ~(Shifted[i] < Shifted[i - LaneCount])
      BY <1>1, <1>2, <2>1, <3>1, DecodeFacts DEF Readable, Reading
    <3>3. out[i - LaneCount] = Shifted[i - LaneCount]
      BY <1>4, <3>1, <3>2
    <3> QED BY <2>1, <2>3, <3>2, <3>3
  <2> QED BY <2>2, <2>3
<1>9. wraps = {}
  BY <1>2, <1>8
<1>10. overflow' = 0
  BY <1>2, <1>7, <1>9
<1>11. out' = DecodedTo(Shifted, Encoded, row + 1)
  <2>1. out' = [i \in 0 .. count - 1 |-> IF i \in OutRow(row) THEN Shifted[i] ELSE out[i]]
    <3> HIDE DEF sum
    <3> QED BY <1>4, <1>7, <1>8
  <2>2. \A i \in 0 .. count - 1 :
          (IF i \in OutRow(row) THEN Shifted[i] ELSE out[i])
            = IF i < hi THEN Shifted[i] ELSE Encoded[i]
    BY <1>3, <1>4, <1>5
  <2>3. DecodedTo(Shifted, Encoded, row + 1)
          = [i \in 0 .. count - 1 |-> IF i < hi THEN Shifted[i] ELSE Encoded[i]]
    BY <1>2 DEF DecodedTo, hi
  <2> QED BY <2>1, <2>2, <2>3
<1>12. CallInv' /\ PackInv' /\ HeaderInv' /\ ExceptionInv'
  BY <1>1, ReadFrame DEF Reading
<1>13. TypeOK' /\ count' = count
  <2>1. 0 \in 0 .. blockSize - 1 /\ row + 1 \in 0 .. 8
    BY <1>2, Dimensions
  <2> QED BY <1>1, <1>2, <1>10, <2>1 DEF TypeOK, count, utlValuesPerLane
<1>14. ReadInv'
  <2>1. Shifted' = Shifted /\ Encoded' = Encoded /\ Delta' = Delta
    BY <1>1 DEF Shifted, Encoded, Delta
  <2> QED BY <1>1, <1>2, <1>10, <1>11, <1>13, <2>1 DEF Inv, ReadInv, Reading
<1> QED BY <1>12, <1>13, <1>14 DEF Inv

(* With the base added, out is what was compressed. *)
LEMMA ReturnStep ==
  ASSUME Inv, Return
  PROVE  /\ Inv' /\ dst.count > 0 /\ asked \in {-1} \cup Positions
         /\ asked = -1 \/ asked \in 0 .. count - 1
         /\ res' = IF asked = -1 THEN Ok(stored) ELSE Ok([i \in {asked} |-> stored[i]])
<1> USE DEF packing, memory, history
<1>1. /\ dst.count > 0 /\ pc = "undelta" /\ (dst.delta => row = 8) /\ pc' = "idle"
      /\ UNCHANGED <<simdLevel, memory, row, packing, asked, overflow, history>>
  BY DEF Inv, CallInv, Reading, Return, utlValuesPerLane
<1>2. /\ TypeOK /\ count \in 0 .. blockSize /\ count \in Nat /\ overflow = 0
      /\ out = (IF Delta THEN DecodedTo(Shifted, Encoded, row) ELSE Encoded)
      /\ asked = -1 \/ asked \in 0 .. count - 1
      /\ asked \in {-1} \cup Positions
      /\ Shifted \in Slice(count) /\ DOMAIN Shifted = 0 .. count - 1
      /\ stored \in Slice(count) /\ base \in Word
      /\ dst.delta = Delta /\ dst.base = base /\ dst.forWidth = selectFORWidth(base)
  BY <1>1, BlockFacts, Typed DEF Inv, ReadInv, Reading
<1>3. out = Shifted
  <2>1. CASE Delta
    <3>1. \A i \in 0 .. count - 1 : i < 8 * LaneCount
      BY <1>2, Dimensions
    <3>2. DecodedTo(Shifted, Encoded, 8) = [i \in 0 .. count - 1 |-> Shifted[i]]
      BY <1>2, <3>1 DEF DecodedTo
    <3>3. DecodedTo(Shifted, Encoded, 8) = Shifted
      BY <1>2, <3>2 DEF Slice
    <3> QED BY <1>1, <1>2, <2>1, <3>3
  <2>2. CASE ~Delta
    BY <1>2, <2>2 DEF Encoded, Encode, Shifted
  <2> QED BY <2>1, <2>2
<1>4. (IF dst.forWidth > 0 THEN forAdd(out, dst.base) ELSE out) = stored
  <2>1. CASE base = 0
    <3>1. selectFORWidth(base) = 0
      BY <2>1 DEF selectFORWidth, forWidthNone
    <3> QED BY <1>2, <1>3, <2>1, <3>1, ForRoundTrip DEF Shifted
  <2>2. CASE base # 0
    <3>1. selectFORWidth(base) > 0
      BY <2>2 DEF selectFORWidth, forWidthU8, forWidthU16, forWidthU32
    <3> QED BY <1>2, <1>3, <3>1, ForRoundTrip DEF Shifted
  <2> QED BY <2>1, <2>2
<1>5. res' = IF asked = -1 THEN Ok(stored) ELSE Ok([i \in {asked} |-> stored[i]])
  BY <1>2, <1>4 DEF Return
<1>6. CallInv' /\ PackInv' /\ HeaderInv' /\ ExceptionInv'
  BY <1>1, ReadFrame DEF Reading
<1>7. TypeOK'
  BY <1>1, <1>2 DEF TypeOK, count
<1>8. ReadInv'
  BY <1>1, <1>2 DEF ReadInv, Reading
<1> QED BY <1>1, <1>2, <1>5, <1>6, <1>7, <1>8 DEF Inv

-----------------------------------------------------------------------------
(* Get. *)

(* Adding the base to a shifted value gives the value. *)
LEMMA AddBase ==
  ASSUME TypeOK, NEW i \in 0 .. count - 1
  PROVE  Plus(Shifted[i], base) = stored[i]
<1>1. /\ count \in Nat /\ stored \in Slice(count) /\ base \in Word
      /\ DOMAIN Shifted = 0 .. count - 1
  BY Typed
<1>2. forAdd(Shifted, base) = stored
  BY <1>1, ForRoundTrip DEF Shifted
<1>3. forAdd(Shifted, base)[i] = Plus(Shifted[i], base)
  BY <1>1 DEF forAdd
<1> QED BY <1>2, <1>3

(* The positions of one lane down to pos. *)
LaneAt(pos, v) == (pos % LaneCount) + v * LaneCount

(* The rows of a lane down to pos are positions of the block.              *)
LEMMA LaneFacts ==
  ASSUME NEW pos \in Nat
  PROVE  /\ pos \div LaneCount \in Nat /\ LaneAt(pos, pos \div LaneCount) = pos
         /\ LaneAt(pos, 0) \in Nat /\ LaneAt(pos, 0) < LaneCount
         /\ pos < blockSize => pos \div LaneCount <= 7
         /\ \A v \in 0 .. pos \div LaneCount : LaneAt(pos, v) \in 0 .. pos
         /\ \A v \in Nat : v >= 1 => /\ LaneAt(pos, v) >= LaneCount
                                    /\ LaneAt(pos, v - 1) = LaneAt(pos, v) - LaneCount
<1> DEFINE q == pos \div LaneCount
<1> DEFINE l == pos % LaneCount
<1>1. LaneCount \in Nat \ {0} /\ blockSize = 8 * LaneCount
  BY Dimensions
<1>2. q \in Nat /\ l \in 0 .. LaneCount - 1 /\ l + q * LaneCount = pos
  BY <1>1
<1>3. LaneAt(pos, q) = pos /\ LaneAt(pos, 0) = l
  BY <1>1, <1>2 DEF LaneAt
<1>4. ASSUME pos < blockSize PROVE q <= 7
  <2>1. CASE q >= 8
    <3>1. q * LaneCount >= blockSize
      BY <1>2, <2>1, RowFacts
    <3>2. q * LaneCount \in Nat
      BY <1>1, <1>2
    <3> HIDE DEF q, l
    <3> QED BY <1>1, <1>2, <1>4, <3>1, <3>2
  <2>2. CASE ~(q >= 8)
    BY <1>2, <2>2
  <2> QED BY <2>1, <2>2
<1>5. ASSUME NEW v \in 0 .. q PROVE LaneAt(pos, v) \in 0 .. pos
  <2>1. v \in Nat /\ q - v \in Nat
    BY <1>2
  <2>2. v * LaneCount \in Nat /\ (q - v) * LaneCount \in Nat
    BY <1>1, <2>1
  <2>3. (q - v) * LaneCount = q * LaneCount - v * LaneCount
    BY <1>1, <1>2, <2>1
  <2> HIDE DEF q, l
  <2>4. LaneAt(pos, v) = l + v * LaneCount
    BY DEF LaneAt, l
  <2>5. q * LaneCount \in Nat
    BY <1>1, <1>2
  <2> QED BY <1>1, <1>2, <2>2, <2>3, <2>4, <2>5
<1>6. ASSUME NEW v \in Nat, v >= 1
      PROVE  LaneAt(pos, v) >= LaneCount /\ LaneAt(pos, v - 1) = LaneAt(pos, v) - LaneCount
  <2>1. v - 1 \in Nat /\ v - 1 + 1 = v
    BY <1>6
  <2>2. /\ v * LaneCount \in Nat /\ v * LaneCount >= LaneCount
        /\ (v - 1) * LaneCount \in Nat /\ v * LaneCount = (v - 1) * LaneCount + LaneCount
    BY <1>1, <1>6, <2>1, RowFacts
  <2> HIDE DEF l
  <2>3. LaneAt(pos, v) = l + v * LaneCount /\ LaneAt(pos, v - 1) = l + (v - 1) * LaneCount
    BY DEF LaneAt, l
  <2> QED BY <1>1, <1>2, <2>2, <2>3
<1> QED BY <1>1, <1>2, <1>3, <1>4, <1>5, <1>6

(* Get fails only on a position that the block does not have.              *)
LEMMA GetFailsStep ==
  ASSUME Inv, NEW pos \in Positions, GetFails(pos)
  PROVE  /\ Inv' /\ dst.count > 0 /\ pos \notin 0 .. count - 1
         /\ res' = Error("ErrPositionOutOfRange")
<1>1. Readable /\ pos \in Int
  BY CallerAssumption DEF GetFails, Readable
<1> QED BY <1>1, ReadersAccept, ReplyFrame DEF GetFails

(* Without delta one value is enough. *)
LEMMA GetDirectStep ==
  ASSUME Inv, NEW pos \in Positions, GetDirect(pos)
  PROVE  /\ Inv' /\ dst.count > 0 /\ pos \in 0 .. count - 1
         /\ res' = Ok([i \in {pos} |-> stored[i]])
<1>1. Readable /\ pos \in Int
  BY CallerAssumption DEF GetDirect, Readable
<1>2. pos \in 0 .. count - 1 /\ dst.count > 0 /\ ~dst.delta
  BY <1>1, ReadersAccept DEF GetDirect
<1>3. getValueDirect(dst, pos) = Encoded[pos]
  BY <1>1, <1>2, GetValue
<1>4. TypeOK /\ dst.base = base /\ ~Delta
  BY <1>1, <1>2, BlockFacts DEF Readable
<1>5. Encoded = Shifted
  BY <1>4 DEF Encoded, Encode, Shifted
<1>6. Plus(getValueDirect(dst, pos), dst.base) = stored[pos]
  BY <1>2, <1>3, <1>4, <1>5, AddBase
<1>7. res' = Ok([i \in {pos} |-> stored[i]])
  BY <1>6 DEF GetDirect
<1>8. Inv'
  BY ReplyFrame DEF GetDirect
<1> QED BY <1>2, <1>7, <1>8

(* With delta the lane is read down to pos. *)
LEMMA GetByLaneStep ==
  ASSUME Inv, NEW pos \in Positions, GetByLane(pos)
  PROVE  Inv' /\ res' = res
<1> USE DEF GetByLane, memory, packing, history
<1>1. Readable /\ pos \in Int
  BY CallerAssumption DEF Readable
<1>2. pos \in 0 .. count - 1 /\ dst.count > 0 /\ dst.delta
  BY <1>1, ReadersAccept
<1>3. /\ TypeOK /\ Delta /\ overflow = 0 /\ count \in Nat
  BY <1>1, <1>2, BlockFacts DEF Inv, ReadInv
<1>4. CallInv' /\ PackInv' /\ HeaderInv' /\ ExceptionInv'
  BY <1>2, ReadFrame DEF Reading
<1>5. TypeOK' /\ count' = count
  BY <1>3 DEF TypeOK, count, utlValuesPerLane
<1>6. \A v \in 0 .. pos \div LaneCount :
        LaneAt(pos, v) \in 0 .. count - 1 /\ getValueDirect(dst, LaneAt(pos, v)) = Encoded[LaneAt(pos, v)]
  <2>1. pos \in Nat
    BY <1>2
  <2>2. \A v \in 0 .. pos \div LaneCount : LaneAt(pos, v) \in 0 .. pos
    BY <2>1, LaneFacts
  <2>3. \A i \in 0 .. pos : i \in 0 .. count - 1
    BY <1>2, <1>3
  <2> QED BY <1>1, <2>2, <2>3, GetValue
<1>7. out' = [v \in 0 .. pos \div LaneCount |-> Encoded[LaneAt(pos, v)]]
  BY <1>6 DEF LaneAt
<1>8. ReadInv'
  <2>1. Shifted' = Shifted /\ Encoded' = Encoded /\ Delta' = Delta
    BY DEF Shifted, Encoded, Delta
  <2>2. pos \in Nat /\ pos \div LaneCount \in Nat
    BY <1>2, LaneFacts
  <2>3. \A v \in 0 .. pos \div LaneCount : ~(v < 0)
    BY <2>2
  <2>4. out' = [v \in 0 .. pos \div LaneCount |->
                  LET i == (pos % LaneCount) + v * LaneCount
                  IN  IF v < 0 THEN Shifted'[i] ELSE Encoded'[i]]
    BY <1>7, <2>1, <2>3 DEF LaneAt
  <2>5. 0 <= pos \div LaneCount + 1
    BY <2>2
  <2> QED BY <1>2, <1>3, <1>5, <2>1, <2>4, <2>5 DEF ReadInv, Reading
<1> QED BY <1>4, <1>5, <1>8 DEF Inv

(* The lane in "walk": what is summed up and what is still to be. *)
LEMMA WalkFacts ==
  ASSUME Inv, pc = "walk"
  PROVE  /\ TypeOK /\ Readable /\ Delta /\ overflow = 0 /\ count \in Nat
         /\ asked \in 0 .. count - 1 /\ asked \in Nat /\ asked \div LaneCount \in 0 .. 7
         /\ row \in Nat /\ row <= asked \div LaneCount + 1
         /\ dst.zigzag = zigzag /\ dst.base = base
         /\ out = [v \in 0 .. asked \div LaneCount |->
                     IF v < row THEN Shifted[LaneAt(asked, v)] ELSE Encoded[LaneAt(asked, v)]]
<1>1. dst.count > 0 /\ Readable
  BY DEF Inv, CallInv, Readable, Reading
<1>2. /\ TypeOK /\ count \in Nat /\ count <= blockSize /\ dst.zigzag = zigzag /\ dst.base = base
  BY <1>1, BlockFacts
<1>3. /\ Delta /\ overflow = 0 /\ asked \in 0 .. count - 1
      /\ row <= asked \div LaneCount + 1
      /\ out = [v \in 0 .. asked \div LaneCount |->
                  LET i == (asked % LaneCount) + v * LaneCount
                  IN  IF v < row THEN Shifted[i] ELSE Encoded[i]]
  BY DEF Inv, ReadInv
<1>4. asked \in Nat /\ asked < blockSize /\ row \in Nat
  BY <1>2, <1>3, Dimensions DEF TypeOK
<1>5. asked \div LaneCount \in Nat /\ asked \div LaneCount <= 7
  BY <1>4, LaneFacts
<1> QED BY <1>1, <1>2, <1>3, <1>4, <1>5 DEF LaneAt

(* One more value of the lane is summed up.                                *)
LEMMA WalkRowStep ==
  ASSUME Inv, WalkRow
  PROVE  Inv'
<1> USE DEF memory, packing, history
<1> DEFINE d == asked \div LaneCount
<1>1. /\ pc = "walk" /\ row <= d /\ row' = row + 1
      /\ out' = [out EXCEPT ![row] = IF row = 0 THEN Undone(out[row])
                                     ELSE Plus(out[row - 1], Undone(out[row]))]
      /\ UNCHANGED <<pc, simdLevel, memory, packing, asked, overflow, res, history>>
  <2>1. dst.zigzag = zigzag
    BY WalkFacts DEF WalkRow
  <2> QED BY <2>1 DEF WalkRow, Undone
<1>2. /\ TypeOK /\ Readable /\ Delta /\ overflow = 0 /\ count \in Nat
      /\ asked \in 0 .. count - 1 /\ asked \in Nat /\ d \in 0 .. 7
      /\ row \in Nat
      /\ out = [v \in 0 .. d |-> IF v < row THEN Shifted[LaneAt(asked, v)]
                                            ELSE Encoded[LaneAt(asked, v)]]
  BY <1>1, WalkFacts
<1> HIDE DEF d
<1> DEFINE i == LaneAt(asked, row)
<1>3. row \in 0 .. d /\ out[row] = Encoded[i]
  BY <1>1, <1>2
<1>4. i \in 0 .. count - 1
  <2>1. i \in 0 .. asked
    BY <1>2, <1>3, LaneFacts DEF d
  <2> QED BY <1>2, <2>1
<1>5. (IF row = 0 THEN Undone(out[row]) ELSE Plus(out[row - 1], Undone(out[row]))) = Shifted[i]
  <2>1. CASE row = 0
    <3>1. i < LaneCount
      BY <1>2, <2>1, LaneFacts
    <3> QED BY <1>2, <1>3, <1>4, <2>1, <3>1, DecodeFacts
  <2>2. CASE row # 0
    <3>1. row >= 1 /\ row - 1 \in 0 .. d /\ row - 1 < row
      BY <1>2, <1>3, <2>2
    <3>2. i >= LaneCount /\ LaneAt(asked, row - 1) = i - LaneCount
      BY <1>2, <3>1, LaneFacts
    <3>3. out[row - 1] = Shifted[i - LaneCount]
      BY <1>2, <3>1, <3>2
    <3> HIDE DEF i
    <3>4. Plus(Shifted[i - LaneCount], Undone(Encoded[i])) = Shifted[i]
      BY <1>2, <1>4, <3>2, DecodeFacts
    <3> QED BY <1>3, <2>2, <3>3, <3>4
  <2> QED BY <2>1, <2>2
<1>6. out' = [v \in 0 .. d |-> IF v < row + 1 THEN Shifted[LaneAt(asked, v)]
                                          ELSE Encoded[LaneAt(asked, v)]]
  <2>1. out' = [v \in 0 .. d |-> IF v = row THEN Shifted[i] ELSE out[v]]
    BY <1>1, <1>2, <1>3, <1>5
  <2>2. \A v \in 0 .. d : v < row + 1 <=> v < row \/ v = row
    BY <1>2
  <2> QED BY <1>2, <2>1, <2>2
<1>7. CallInv' /\ PackInv' /\ HeaderInv' /\ ExceptionInv'
  BY <1>1, <1>2, ReadFrame DEF Reading, Readable
<1>8. TypeOK' /\ count' = count
  <2>1. row + 1 \in 0 .. 8
    BY <1>2, <1>3
  <2> QED BY <1>1, <1>2, <2>1 DEF TypeOK, count, utlValuesPerLane
<1>9. ReadInv'
  <2>1. Shifted' = Shifted /\ Encoded' = Encoded /\ Delta' = Delta
    BY <1>1 DEF Shifted, Encoded, Delta
  <2>2. row' <= asked' \div LaneCount + 1
    BY <1>1, <1>2, <1>3 DEF d
  <2>3. out' = [v \in 0 .. asked' \div LaneCount |->
                  LET j == (asked' % LaneCount) + v * LaneCount
                  IN  IF v < row' THEN Shifted'[j] ELSE Encoded'[j]]
    BY <1>1, <1>6, <2>1 DEF LaneAt, d
  <2>4. asked' \in {-1} \cup Positions /\ asked' \in 0 .. count' - 1
    <3>1. asked \in {-1} \cup Positions
      BY <1>1 DEF Inv, ReadInv, Reading
    <3> QED BY <1>1, <1>2, <1>8, <3>1
  <2> QED BY <1>1, <1>2, <2>1, <2>2, <2>3, <2>4 DEF ReadInv
<1> QED BY <1>7, <1>8, <1>9 DEF Inv

(* With the base added, the sum at pos is what was compressed there.       *)
LEMMA WalkReturnStep ==
  ASSUME Inv, WalkReturn
  PROVE  /\ Inv' /\ dst.count > 0 /\ asked \in 0 .. count - 1 /\ asked \in Positions
         /\ res' = Ok([i \in {asked} |-> stored[i]])
<1> USE DEF memory, packing, reading, history
<1> DEFINE d == asked \div LaneCount
<1>1. /\ pc = "walk" /\ row > d /\ pc' = "idle"
      /\ res' = Ok([i \in {asked} |-> Plus(out[d], dst.base)])
      /\ UNCHANGED <<simdLevel, memory, row, packing, reading, history>>
  BY DEF WalkReturn
<1>2. /\ TypeOK /\ Readable /\ overflow = 0 /\ count \in Nat
      /\ asked \in 0 .. count - 1 /\ asked \in Nat /\ d \in 0 .. 7 /\ row \in Nat
      /\ dst.base = base
      /\ out = [v \in 0 .. d |-> IF v < row THEN Shifted[LaneAt(asked, v)]
                                            ELSE Encoded[LaneAt(asked, v)]]
  BY <1>1, WalkFacts
<1>3. LaneAt(asked, d) = asked
  BY <1>2, LaneFacts
<1> HIDE DEF d
<1>4. out[d] = Shifted[asked]
  BY <1>1, <1>2, <1>3
<1>5. Plus(out[d], dst.base) = stored[asked]
  BY <1>2, <1>4, AddBase
<1>6. res' = Ok([i \in {asked} |-> stored[i]])
  BY <1>1, <1>5
<1>7. CallInv' /\ PackInv' /\ HeaderInv' /\ ExceptionInv'
  BY <1>1, <1>2, ReadFrame DEF Reading, Readable
<1>8. TypeOK'
  BY <1>1, <1>2 DEF TypeOK, count
<1>9. ReadInv'
  BY <1>1, <1>2 DEF ReadInv, Reading
<1>10. asked \in Positions
  <2>1. asked \in {-1} \cup Positions
    BY <1>1 DEF Inv, ReadInv, Reading
  <2>2. asked # -1
    BY <1>2
  <2> QED BY <2>1, <2>2
<1> QED BY <1>2, <1>6, <1>7, <1>8, <1>9, <1>10 DEF Inv, Readable

-----------------------------------------------------------------------------
(* The invariant. *)

(* Every step of a call, and every call, keeps the invariant. *)
LEMMA NextInv == Inv /\ [Next]_vars => Inv'
<1> SUFFICES ASSUME Inv, [Next]_vars PROVE Inv'
  OBVIOUS
<1>1. CASE Call
  <2>1. ASSUME NEW v \in Inputs, NEW f \in FlagSets, Compress(v, f) PROVE Inv'
    <3>1. Ready
      BY DEF Ready, Inv, TypeOK, ReadInv
    <3> QED BY <2>1, <3>1, CompressStep
  <2>2. ASSUME NEW v \in Inputs, RejectLength(v) PROVE Inv'
    BY <2>2, RejectLengthStep
  <2>3. CASE Decompress
    BY <2>3, DecompressStep
  <2>4. ASSUME NEW pos \in Positions, Get(pos) PROVE Inv'
    BY <2>4, GetFailsStep, GetDirectStep, GetByUnpackStep, GetByLaneStep DEF Get
  <2> QED BY <1>1, <2>1, <2>2, <2>3, <2>4 DEF Call
<1>2. CASE Pack
  BY <1>2, SubtractBaseStep, SkipFORStep, StartDeltaStep, SkipDeltaStep, DeltaRowStep,
     ZigZagAllStep, SelectWidthStep, PadStep, WritePayloadStep, CollectExceptionsStep,
     EncodeSVBStep DEF Pack
<1>3. CASE Unpack
  BY <1>3, UnpackLanesStep, ApplyExceptionsStep, NoExceptionsStep, UndeltaRowStep,
     ReturnStep, WalkRowStep, WalkReturnStep DEF Unpack
<1>4. CASE UNCHANGED vars
  BY <1>4, ReplyFrame DEF vars
<1> QED BY <1>1, <1>2, <1>3, <1>4 DEF Next

(* What the shared memory, the block and the unpack's destination hold in  *)
(* every phase of every call.                                              *)
THEOREM Invariance == Spec => []Inv
<1> QED BY InitInv, NextInv, PTL DEF Spec

(* Every variable has its type, the overflow position of a block that was  *)
(* packed included.                                                        *)
THEOREM TypeCorrect == Spec => []TypeOK
<1>1. Inv => TypeOK
  BY DEF Inv
<1> QED BY <1>1, Invariance, PTL

(* A pack with NoInPlace or Append never writes to the caller's slice.     *)
THEOREM CallerSliceKept == Spec => []ValuesPreserved
<1>1. Inv => ValuesPreserved
  BY DEF Inv, CallInv, ValuesPreserved, NoInPlace
<1> QED BY <1>1, Invariance, PTL

(* The unused slots of a partial block are zero, whatever was in scratch.  *)
THEOREM StaleSlotsCleared == Spec => []NoStaleSlots
<1>1. Inv => NoStaleSlots
  <2> SUFFICES ASSUME Inv, pc = "idle", NEW i \in Pos, i >= dst.count, dst.count > 0
               PROVE  dst.payload[i] = 0
    BY DEF NoStaleSlots
  <2>1. /\ dst.count = count /\ DOMAIN stored = 0 .. count - 1 /\ count \in Nat
        /\ dst.payload = [j \in Pos |-> IF j \in DOMAIN stored
                                        THEN Encoded[j] % 2 ^ bitWidth ELSE 0]
    BY BlockFacts DEF Inv, HeaderInv
  <2>2. i \notin DOMAIN stored
    BY <2>1
  <2> QED BY <2>1, <2>2
<1> QED BY <1>1, Invariance, PTL

-----------------------------------------------------------------------------
(* Block32 implements LosslessStore: every call returns what the abstract  *)
(* store would have returned, and no phase in between shows.               *)

(* A block in memory holds at least one value. *)
LEMMA StoreNotEmpty ==
  ASSUME Inv, dst.count > 0
  PROVE  DOMAIN stored = 0 .. count - 1 /\ DOMAIN stored # {}
<1>1. DOMAIN stored = 0 .. count - 1 /\ count \in Nat /\ count > 0
  BY BlockFacts DEF Inv, CallInv
<1>2. 0 \in 0 .. count - 1
  BY <1>1
<1> QED BY <1>1, <1>2

(* The store's test of a slice is Compress's test of its length: not       *)
(* empty, and no longer than a block.                                      *)
LEMMA AcceptableLength ==
  ASSUME NEW v \in Inputs
  PROVE  Store32!Acceptable(v) <=> validLength(v)
<1> DEFINE n == SliceLen(v)
<1>1. n \in Nat /\ DOMAIN v = 0 .. n - 1
  BY CallerAssumption DEF Slice
<1> HIDE DEF n
<1>2. blockSize \in Nat /\ blockSize > 0
  BY Dimensions
<1>3. CASE n = 0
  BY <1>1, <1>3 DEF Store32!Acceptable, validLength, n
<1>4. CASE n # 0 /\ n <= blockSize
  <2>1. 0 \in DOMAIN v /\ \A i \in DOMAIN v : i < blockSize
    BY <1>1, <1>2, <1>4
  <2> QED BY <1>4, <2>1 DEF Store32!Acceptable, validLength, n
<1>5. CASE n > blockSize
  <2>1. blockSize \in DOMAIN v /\ ~(blockSize < blockSize)
    BY <1>1, <1>2, <1>5
  <2>2. ~(n <= blockSize)
    BY <1>1, <1>2, <1>5
  <2> QED BY <2>1, <2>2 DEF Store32!Acceptable, validLength, n
<1> QED BY <1>1, <1>2, <1>3, <1>4, <1>5

(* Initially nothing is stored and nothing has been returned. *)
LEMMA InitSimulation == Init => Store32!Init
BY DEF Init, Store32!Init, NoValues, Ok, Store32!NoValues, Store32!Ok

(* A slice that Compress packs is what the store then holds.               *)
LEMMA CompressSimulation ==
  ASSUME NEW v \in Inputs, NEW f \in FlagSets, Compress(v, f)
  PROVE  Store32!Compress(v)
BY AcceptableLength DEF Compress, Store32!Compress, NoValues, Ok, Store32!NoValues, Store32!Ok

(* A slice that Compress turns away leaves the store as it is.             *)
LEMMA RejectSimulation ==
  ASSUME NEW v \in Inputs, RejectLength(v)
  PROVE  Store32!Compress(v)
BY AcceptableLength
   DEF RejectLength, history, Store32!Compress, NoValues, Error, Store32!NoValues, Store32!Error

(* A value that is read is a Get of the store. *)
LEMMA ValueSimulation ==
  ASSUME Inv, dst.count > 0, NEW pos \in Positions, pos \in 0 .. count - 1,
         res' = Ok([i \in {pos} |-> stored[i]]), stored' = stored
  PROVE  Store32!Get(pos)
BY StoreNotEmpty DEF Store32!Get, Ok, Store32!Ok

(* Every step of the compressor is a step of the store or changes nothing  *)
(* that the store shows.                                                   *)
LEMMA StepSimulation == Inv /\ [Next]_vars => [Store32!Next]_(Store32!vars)
<1> SUFFICES ASSUME Inv, [Next]_vars PROVE [Store32!Next]_(Store32!vars)
  OBVIOUS
<1> USE DEF Store32!vars
<1>1. ASSUME NEW pos \in Positions, Store32!Get(pos) PROVE Store32!Next
  BY <1>1 DEF Store32!Next
<1>2. CASE Call
  <2>1. ASSUME NEW v \in Inputs, NEW f \in FlagSets, Compress(v, f) PROVE Store32!Next
    BY <2>1, CompressSimulation DEF Store32!Next
  <2>2. ASSUME NEW v \in Inputs, RejectLength(v) PROVE Store32!Next
    BY <2>2, RejectSimulation DEF Store32!Next
  <2>3. ASSUME Decompress PROVE UNCHANGED <<stored, res>>
    BY <2>3, DecompressStep DEF Decompress, StartUnpack, history
  <2>4. ASSUME NEW pos \in Positions, Get(pos)
        PROVE  Store32!Next \/ UNCHANGED <<stored, res>>
    <3>1. CASE GetFails(pos)
      BY <3>1, GetFailsStep, StoreNotEmpty
         DEF GetFails, history, Store32!Get, Store32!Next, NoValues, Error,
             Store32!NoValues, Store32!Error
    <3>2. CASE GetDirect(pos)
      <4>1. stored' = stored
        BY <3>2 DEF GetDirect, history
      <4> QED BY <1>1, <3>2, <4>1, GetDirectStep, ValueSimulation
    <3>3. CASE GetByUnpack(pos)
      BY <3>3, GetByUnpackStep DEF GetByUnpack, StartUnpack, history
    <3>4. CASE GetByLane(pos)
      BY <3>4 DEF GetByLane, history
    <3> QED BY <2>4, <3>1, <3>2, <3>3, <3>4 DEF Get
  <2> QED BY <1>2, <2>1, <2>2, <2>3, <2>4 DEF Call
<1>3. CASE Pack
  BY <1>3 DEF Pack, SubtractBase, SkipFOR, StartDelta, SkipDelta, DeltaRow, ZigZagAll,
              SelectWidth, Pad, WritePayload, CollectExceptions, EncodeSVB, history
<1>4. CASE Unpack
  <2>1. CASE UnpackLanes \/ NoExceptions \/ UndeltaRow \/ WalkRow
    BY <2>1 DEF UnpackLanes, NoExceptions, UndeltaRow, WalkRow, history
  <2>2. CASE ApplyExceptions
    BY <2>2, ApplyExceptionsStep DEF ApplyExceptions, history
  <2>3. CASE Return
    <3>1. stored' = stored
      BY <2>3 DEF Return, history
    <3>2. CASE asked = -1
      BY <2>3, <3>1, <3>2, ReturnStep, StoreNotEmpty
         DEF Store32!Decompress, Store32!Next, Ok, Store32!Ok
    <3>3. CASE asked # -1
      <4>1. asked \in Positions /\ asked \in 0 .. count - 1 /\ dst.count > 0
            /\ res' = Ok([i \in {asked} |-> stored[i]])
        BY <2>3, <3>3, ReturnStep
      <4> QED BY <1>1, <3>1, <4>1, ValueSimulation
    <3> QED BY <3>2, <3>3
  <2>4. CASE WalkReturn
    <3>1. stored' = stored
      BY <2>4 DEF WalkReturn, history
    <3> QED BY <1>1, <2>4, <3>1, WalkReturnStep, ValueSimulation
  <2> QED BY <1>4, <2>1, <2>2, <2>3, <2>4 DEF Unpack
<1>5. CASE UNCHANGED vars
  BY <1>5 DEF vars, history
<1> QED BY <1>2, <1>3, <1>4, <1>5 DEF Next

(* Whatever the values, the flags, the dispatch and the old contents of    *)
(* scratch are: Decompress returns the values of the last Compress, Get    *)
(* returns the one that is asked for, by any of its three ways, and        *)
(* neither fails on a block that Compress produced.                        *)
THEOREM Implements == Spec => Lossless
<1> QED BY InitInv, NextInv, InitSimulation, StepSimulation, PTL
        DEF Spec, Lossless, Store32!Spec

-----------------------------------------------------------------------------
(* Lengths. *)

(* The bytes that a pack asks for are within the bound of its flags. *)
LEMMA AskedLength ==
  ASSUME Inv, pc = "payload"
  PROVE  maxTotalLen <= MaxBlockLength32(flag)
<1>1. /\ dst = NoBlock /\ TypeOK /\ nExc = excCount(Encoded, bitWidth)
      /\ ("NoPatch" \in flag => nExc = 0) /\ ("NoFOR" \in flag => base = 0)
  BY DEF Inv, CallInv, PackInv, Packing
<1>2. /\ count \in 0 .. blockSize /\ Encoded \in Slice(count) /\ base \in Word
      /\ bitWidth \in StepWidths /\ nExc \in {0, excCount(Encoded, bitWidth)}
  BY <1>1, Typed DEF TypeOK
<1>3. dst.combine = FALSE
  BY <1>1 DEF NoBlock
<1>4. maxTotalLen = payloadOffset(forBaseBytes(selectFORWidth(base)), nExc > 0, FALSE)
                      + utlPayloadBytes(bitWidth)
                      + (IF nExc = 0 THEN 0 ELSE excIndexSize(nExc) + maxSVBEncodedLen(nExc))
  BY <1>3 DEF maxTotalLen
<1> QED BY <1>1, <1>2, <1>4, BoundedLength

(* A block that is done is within it too, and as long as its regions. *)
LEMMA BlockLayout ==
  ASSUME Inv, pc = "idle", dst.count > 0
  PROVE  /\ BlockLength(dst) = dst.len
         /\ readOffset(dst, FALSE) = dst.pOff
         /\ dst.len <= MaxBlockLength32(flag)
<1>1. Readable
  BY DEF Readable
<1>2. /\ TypeOK /\ nExc = excCount(Encoded, bitWidth) /\ nExc \in Nat
      /\ ("NoPatch" \in flag => nExc = 0) /\ ("NoFOR" \in flag => base = 0)
      /\ dst.intType = IntTypeUint32 /\ ~dst.combine /\ dst.pOff = readOffset(dst, FALSE)
      /\ dst.len = readEnd(dst, FALSE)
  <2>1. nExc \in Nat /\ nExc = excCount(Encoded, bitWidth)
    BY BlockFacts
  <2> QED BY <2>1, HoldsEncoded, <1>1 DEF Inv, CallInv, PackInv, HeaderInv, AfterDelta
<1>3. /\ count \in 0 .. blockSize /\ Encoded \in Slice(count) /\ base \in Word
      /\ bitWidth \in StepWidths /\ nExc \in {0, excCount(Encoded, bitWidth)}
  BY <1>2, Typed DEF TypeOK
<1>4. /\ dst.excCount = nExc /\ dst.forWidth = selectFORWidth(base) /\ dst.bitWidth = bitWidth
  BY BlockFacts
<1>5. BlockLength(dst) = dst.len
  <2>1. (dst.intType = IntTypeUint64) = FALSE
    BY <1>2 DEF IntTypeUint32, IntTypeUint64
  <2> QED BY <1>2, <2>1 DEF BlockLength
<1> DEFINE off == payloadOffset(forBaseBytes(selectFORWidth(base)), nExc > 0, FALSE)
<1> DEFINE body == utlPayloadBytes(bitWidth)
<1> DEFINE room == IF nExc = 0 THEN 0 ELSE excIndexSize(nExc) + maxSVBEncodedLen(nExc)
<1> DEFINE tail == IF nExc > 0 THEN excIndexSize(nExc) + dst.svbLen ELSE 0
<1>6. off + body + room <= MaxBlockLength32(flag)
  BY <1>2, <1>3, BoundedLength
<1>7. dst.len = off + body + tail
  BY <1>2, <1>4 DEF readEnd, readOffset
<1>8. off \in Nat /\ body \in Nat
  <2>1. base \in Nat
    BY <1>3, Dimensions DEF Word
  <2> QED BY <1>3, <2>1, PayloadType
<1>9. tail \in Nat /\ room \in Nat /\ tail <= room
  <2>1. CASE nExc > 0
    <3> DEFINE m == maxSVBEncodedLen(nExc)
    <3>1. dst.svbLen \in Nat /\ dst.svbLen <= m
      BY <1>1, <1>4, <2>1, HoldsEncoded, HighBitsFit
    <3>2. excIndexSize(nExc) \in Nat
      BY <1>2, IndexBytes, Dimensions
    <3>3. m \in Nat
      BY <1>2 DEF maxSVBEncodedLen, svbControlByteCount
    <3>4. nExc # 0
      BY <2>1
    <3> HIDE DEF m
    <3>5. room = excIndexSize(nExc) + m /\ tail = excIndexSize(nExc) + dst.svbLen
      BY <2>1, <3>4 DEF m
    <3> HIDE DEF room, tail
    <3> QED BY <3>1, <3>2, <3>3, <3>5
  <2>2. CASE nExc = 0
    <3>1. ~(nExc > 0)
      BY <2>2
    <3> QED BY <2>2, <3>1
  <2> QED BY <1>2, <2>1, <2>2
<1>10. MaxBlockLength32(flag) \in Int
  BY BoundType
<1> DEFINE bound == MaxBlockLength32(flag)
<1> HIDE DEF off, body, room, tail, bound
<1>11. dst.len <= bound
  BY <1>6, <1>7, <1>8, <1>9, <1>10 DEF bound
<1> QED BY <1>2, <1>5, <1>11 DEF bound

(* Append and the callers who allocate by MaxBlockLength32 are right: no   *)
(* pack asks for more, whatever the values and the flags.                  *)
THEOREM CapacitySuffices == Spec => []LengthBound
<1>1. Inv => LengthBound
  BY AskedLength DEF LengthBound
<1> QED BY <1>1, Invariance, PTL

(* BlockLength, which readers use to skip a block, is the length that the  *)
(* packer gave it, and the payload is where they look for it.              *)
THEOREM ReadersFindRegions == Spec => []LayoutAgrees
<1>1. Inv => LayoutAgrees
  BY BlockLayout DEF LayoutAgrees
<1> QED BY <1>1, Invariance, PTL

-----------------------------------------------------------------------------
(* Scratch. *)

(* copy leaves what is past the end of its source alone. *)
LEMMA StoreElsewhere ==
  ASSUME TypeOK, NEW n \in 0 .. blockSize, NEW s, DOMAIN s = 0 .. n - 1,
         NEW i \in blockSize .. 2 * blockSize - 1
  PROVE  Store(scratch, 0, s)[i] = scratch[i]
<1>1. blockSize \in Nat /\ DOMAIN scratch = 0 .. 2 * blockSize - 1
  BY Dimensions DEF TypeOK, Slice
<1>2. i \in DOMAIN scratch /\ i - 0 \notin DOMAIN s
  BY <1>1
<1> QED BY <1>2 DEF Store

(* Without NoInPlace every phase of a pack, and of an unpack, stays within *)
(* the first blockSize words.                                              *)
LEMMA SecondHalfKept ==
  ASSUME Inv, [Next]_vars, ~NoInPlace, NEW i \in blockSize .. 2 * blockSize - 1
  PROVE  scratch'[i] = scratch[i]
<1>1. TypeOK /\ work = "values"
  BY DEF Inv, CallInv, TypeOK
<1>2. /\ count \in 0 .. blockSize /\ count \in Nat /\ DOMAIN values = 0 .. count - 1
      /\ blockSize \in Nat /\ DOMAIN scratch = 0 .. 2 * blockSize - 1
      /\ i \in DOMAIN scratch /\ i \notin DOMAIN values /\ i \notin Pos
  BY <1>1, Typed, Dimensions DEF TypeOK, Slice, Pos
<1>3. CASE Pad
  BY <1>2, <1>3 DEF Pad, PaddedScratch
<1>4. CASE CollectExceptions
  <2>1. dst.count > 0 /\ workValues = Encoded
    BY <1>4 DEF CollectExceptions, Inv, CallInv, PackInv
  <2>2. excCount(Encoded, bitWidth) \in 0 .. blockSize
    BY <1>2, <2>1, BlockFacts
  <2>3. scratch' = Store(scratch, 0, HighBits(Encoded, bitWidth))
    BY <1>4, <2>1 DEF CollectExceptions, HighBits, excCount, highBitsOff
  <2> QED BY <1>1, <2>2, <2>3, StoreElsewhere DEF HighBits
<1>5. CASE ApplyExceptions
  <2>1. dst.count > 0 /\ dst.excCount \in 0 .. blockSize
    <3>1. dst.count > 0
      BY <1>5 DEF ApplyExceptions, Inv, CallInv, Reading
    <3> QED BY <1>2, <3>1, BlockFacts
  <2>2. CASE UNCHANGED scratch
    BY <2>2
  <2>3. CASE ~(UNCHANGED scratch)
    BY <1>1, <1>5, <2>1, <2>3, StoreElsewhere DEF ApplyExceptions
  <2> QED BY <2>2, <2>3
<1>6. CASE ~(Pad \/ CollectExceptions \/ ApplyExceptions)
  <2>1. UNCHANGED scratch
    <3>1. CASE Call
      BY <3>1 DEF Call, Compress, RejectLength, Decompress, Get, GetFails, GetDirect,
                  GetByUnpack, GetByLane, StartUnpack, memory
    <3>2. CASE Pack
      BY <1>1, <1>6, <3>2
         DEF Pack, SubtractBase, SkipFOR, StartDelta, SkipDelta, DeltaRow, ZigZagAll,
             SelectWidth, WritePayload, EncodeSVB, WriteWork, memory
    <3>3. CASE Unpack
      BY <1>6, <3>3 DEF Unpack, UnpackLanes, NoExceptions, UndeltaRow, Return, WalkRow,
                        WalkReturn, memory
    <3>4. CASE UNCHANGED vars
      BY <3>4 DEF vars, memory
    <3> QED BY <3>1, <3>2, <3>3, <3>4 DEF Next
  <2> QED BY <2>1
<1> QED BY <1>3, <1>4, <1>5, <1>6

(* A scratch of blockSize words is enough for a caller who never passes    *)
(* NoInPlace: the second half is neither needed nor touched.               *)
THEOREM HalfScratchSuffices == Spec => ScratchLenSuffices
<1>1. Inv /\ [Next]_vars =>
        [~NoInPlace => \A i \in blockSize .. 2 * blockSize - 1 :
                         scratch'[i] = scratch[i]]_vars
  BY SecondHalfKept
<1> QED BY <1>1, Invariance, PTL DEF Spec, ScratchLenSuffices

-----------------------------------------------------------------------------
(* What the block stands for. *)

(* A block that is done decodes to the stored values as a whole. *)
LEMMA DecodesStored ==
  ASSUME Inv, pc = "idle", dst.count > 0
  PROVE  UnpackedBlock(dst, FALSE) = Ok(stored)
<1>1. Readable
  BY DEF Readable
<1>2. headerError(dst, FALSE) = "none" /\ ~(dst.excCount > 0 /\ svbNeeded(dst) > dst.svbLen)
  BY <1>1, ReadersAccept, SVBNeeded
<1>3. ~(dst.excCount > dst.count)
  BY BlockFacts
<1>4. /\ TypeOK /\ dst.delta = Delta /\ dst.zigzag = zigzag /\ dst.base = base
      /\ (Delta /\ ~zigzag => AscendingFrom(Shifted, 1))
  BY BlockFacts DEF Inv, PackInv, AfterDelta
<1>5. /\ count \in 0 .. blockSize /\ stored \in Slice(count) /\ base \in Word
      /\ Delta \in BOOLEAN /\ zigzag \in BOOLEAN
  BY <1>4, Typed
<1>6. Holds(dst, Encode(stored, base, Delta, zigzag)) /\ ~isFor64SingleBlock(dst)
  BY <1>1, HoldsEncoded DEF Encoded
<1>7. ~Overflows(dst) /\ DecodedWords(dst) = stored
  BY <1>4, <1>5, <1>6, DecodesTo DEF Shifted
<1> QED BY <1>2, <1>3, <1>7 DEF UnpackedBlock

(* The block is a correct one for whoever reads it without this            *)
(* compressor's memory: UnpackedBlock, of which the uint64 codec is made,  *)
(* returns the values that were packed.                                    *)
THEOREM BlockStandsForValues == Spec => []BlockDecodes
<1>1. Inv => BlockDecodes
  BY DecodesStored DEF BlockDecodes
<1> QED BY <1>1, Invariance, PTL

-----------------------------------------------------------------------------
(* The block as a function of the values and the flags. *)

(* A step that takes none of the decisions keeps them. *)
LEMMA DecisionFrame ==
  ASSUME DecisionInv, UNCHANGED <<flag, stored, base, zigzag, bitWidth>>,
         AfterFOR' => AfterFOR, AfterDelta' => AfterDelta, AfterSelect' => AfterSelect,
         pc' = "deltaRows" => pc = "deltaRows" /\ row' = row
  PROVE  DecisionInv'
<1>1. Shifted' = Shifted /\ Encoded' = Encoded /\ Delta' = Delta
  BY DEF Shifted, Encoded, Delta
<1> QED BY <1>1 DEF DecisionInv

(* A row of the delta loop finds out whether a difference of its wraps. *)
LEMMA RowAscends ==
  ASSUME NEW n \in 0 .. blockSize, NEW w \in Slice(n), NEW r \in Nat, r >= 1
  PROVE  LET d == DeltaFrom(w, r + 1)
         IN  AscendingFrom(w, r) <=>
               /\ AscendingFrom(w, r + 1)
               /\ \A i \in DOMAIN w : r * LaneCount <= i /\ i < (r + 1) * LaneCount
                                      => ~(d[i] < d[i - LaneCount])
<1> DEFINE d == DeltaFrom(w, r + 1)
<1> DEFINE InRow(i) == r * LaneCount <= i /\ i < (r + 1) * LaneCount
<1>1. n \in Nat /\ DOMAIN w = 0 .. n - 1
  BY Dimensions DEF Slice
<1>2. \A i \in DOMAIN w : w[i] \in Nat /\ i \in Nat
  BY <1>1, SliceFacts
<1>3. \A i \in DOMAIN w : InRow(i) =>
        i - LaneCount \in DOMAIN w /\ d[i] = w[i] /\ d[i - LaneCount] = w[i - LaneCount]
  BY DeltaFromStep
<1>4. r * LaneCount \in Nat /\ (r + 1) * LaneCount = r * LaneCount + LaneCount /\ LaneCount \in Nat
  BY RowFacts, Dimensions
<1> HIDE DEF d
<1> DEFINE lo == r * LaneCount
<1> DEFINE hi == (r + 1) * LaneCount
<1>5. lo \in Nat /\ hi \in Nat /\ lo <= hi
  BY <1>4
<1>6. \A i \in DOMAIN w : i >= lo <=> i >= hi \/ (lo <= i /\ i < hi)
  <2> HIDE DEF lo, hi
  <2> QED BY <1>2, <1>5
<1>7. \A i \in DOMAIN w : InRow(i) => (w[i - LaneCount] <= w[i] <=> ~(d[i] < d[i - LaneCount]))
  <2> SUFFICES ASSUME NEW i \in DOMAIN w, InRow(i)
               PROVE  w[i - LaneCount] <= w[i] <=> ~(d[i] < d[i - LaneCount])
    OBVIOUS
  <2>1. w[i - LaneCount] \in Nat /\ w[i] \in Nat
    BY <1>2, <1>3
  <2> QED BY <1>3, <2>1
<1> HIDE DEF lo, hi
<1>8. AscendingFrom(w, r) <=> \A i \in DOMAIN w : i >= lo => w[i - LaneCount] <= w[i]
  BY DEF AscendingFrom, lo
<1>9. AscendingFrom(w, r + 1) <=> \A i \in DOMAIN w : i >= hi => w[i - LaneCount] <= w[i]
  BY DEF AscendingFrom, hi
<1> QED BY <1>6, <1>7, <1>8, <1>9 DEF lo, hi, d

(* The decisions are those that PackedBlock takes. *)
LEMMA DecisionStep ==
  ASSUME Inv, DecisionInv, [Next]_vars
  PROVE  DecisionInv'
<1> USE DEF memory, packing, reading, history
<1>1. /\ TypeOK /\ count \in 0 .. blockSize /\ Shifted \in Slice(count)
      /\ DOMAIN values = 0 .. count - 1 /\ DOMAIN Shifted = 0 .. count - 1
      /\ zigzag \in BOOLEAN
  BY Typed DEF Inv
<1>2. pc \in Packing \ {"collect", "svb"} => dst = NoBlock /\ ~(dst.count > 0)
  BY DEF Inv, CallInv, NoBlock
<1>3. CASE Call
  <2>1. ASSUME NEW v \in Inputs, NEW f \in FlagSets, Compress(v, f) PROVE DecisionInv'
    <3>1. pc' = "for" /\ ~(dst'.count > 0)
      BY <2>1 DEF Compress, NoBlock
    <3> QED BY <3>1 DEF DecisionInv, AfterFOR, AfterDelta, AfterSelect
  <2>2. CASE ~(\E v \in Inputs, f \in FlagSets : Compress(v, f))
    <3>1. /\ UNCHANGED <<flag, stored, base, zigzag, bitWidth, dst>>
          /\ pc' \in {"idle", "unpack", "walk"}
      BY <1>3, <2>2 DEF Call, RejectLength, Decompress, Get, GetFails, GetDirect,
                        GetByUnpack, GetByLane, StartUnpack
    <3> QED BY <3>1, DecisionFrame DEF AfterFOR, AfterDelta, AfterSelect, Packing
  <2> QED BY <2>1, <2>2
<1>4. CASE SubtractBase
  <2>1. base' = FORBase(stored, flag)' /\ dst' = NoBlock /\ pc' = "delta"
    BY <1>2, <1>4 DEF SubtractBase, Packing, Inv, PackInv, FORBase
  <2> QED BY <2>1 DEF DecisionInv, AfterDelta, AfterSelect, NoBlock
<1>5. CASE SkipFOR
  <2>1. base' = FORBase(stored, flag)' /\ dst' = NoBlock /\ pc' = "delta"
    BY <1>2, <1>5 DEF SkipFOR, Packing, Inv, PackInv, FORBase
  <2> QED BY <2>1 DEF DecisionInv, AfterDelta, AfterSelect, NoBlock
<1>6. CASE StartDelta
  <2>1. /\ pc = "delta" /\ pc' = "deltaRows" /\ row' = 7 /\ row' + 1 = 8 /\ ~zigzag
        /\ UNCHANGED <<flag, stored, base, zigzag, dst>>
    BY <1>6 DEF StartDelta, Inv, PackInv, utlValuesPerLane
  <2>2. AscendingFrom(Shifted, 8)
    BY <1>1, DeltaFromFacts
  <2>3. Shifted' = Shifted /\ base' = FORBase(stored, flag)' /\ ~(dst'.count > 0)
    BY <1>2, <2>1 DEF Shifted, DecisionInv, AfterFOR, Packing
  <2>4. zigzag' = ~AscendingFrom(Shifted', row' + 1)
    BY <1>1, <2>1, <2>2, <2>3
  <2> QED BY <2>1, <2>3, <2>4 DEF DecisionInv, AfterDelta, AfterSelect
<1>7. CASE SkipDelta
  <2>1. /\ pc = "delta" /\ pc' = "select" /\ ~Delta /\ ~zigzag
        /\ UNCHANGED <<flag, stored, base, zigzag, dst>>
    BY <1>7 DEF SkipDelta, Inv, PackInv, Delta
  <2>2. ~Delta' /\ base' = FORBase(stored, flag)' /\ ~(dst'.count > 0)
    BY <1>2, <2>1 DEF Delta, DecisionInv, AfterFOR, Packing
  <2>3. zigzag' = (Delta' /\ ~AscendingFrom(Shifted', 1))
    BY <1>1, <2>1, <2>2
  <2> QED BY <2>1, <2>2, <2>3 DEF DecisionInv, AfterDelta, AfterSelect
<1>8. CASE DeltaRow
  <2> DEFINE w == workValues
  <2>1. /\ pc = "deltaRows" /\ row > 0 /\ row \in Nat /\ pc' = pc /\ row' = row - 1
        /\ UNCHANGED <<flag, stored, base, dst>>
        /\ zigzag' = (zigzag \/ \E i \in Row(row) : w[i] < w[i - LaneCount])
        /\ w = DeltaFrom(Shifted, row + 1) /\ zigzag = ~AscendingFrom(Shifted, row + 1)
    BY <1>1, <1>8 DEF DeltaRow, Inv, PackInv, DecisionInv, TypeOK
  <2>2. Shifted' = Shifted /\ base' = FORBase(stored, flag)' /\ ~(dst'.count > 0)
    BY <1>2, <2>1 DEF Shifted, DecisionInv, AfterFOR, Packing
  <2>3. row >= 1 /\ row' + 1 = row
    BY <2>1
  <2>4. AscendingFrom(Shifted, row) <=>
          /\ AscendingFrom(Shifted, row + 1)
          /\ \A i \in DOMAIN Shifted : row * LaneCount <= i /\ i < (row + 1) * LaneCount
                                       => ~(w[i] < w[i - LaneCount])
    BY <1>1, <2>1, <2>3, RowAscends
  <2>5. (\E i \in Row(row) : w[i] < w[i - LaneCount]) <=>
           ~(\A i \in DOMAIN Shifted : row * LaneCount <= i /\ i < (row + 1) * LaneCount
                                       => ~(w[i] < w[i - LaneCount]))
    <3> HIDE DEF w
    <3> QED BY <1>1 DEF Row
  <2>6. zigzag' = ~AscendingFrom(Shifted', row' + 1)
    <3>1. zigzag' = (zigzag \/ ~(\A i \in DOMAIN Shifted :
                                   row * LaneCount <= i /\ i < (row + 1) * LaneCount
                                     => ~(w[i] < w[i - LaneCount])))
      BY <2>1, <2>5
    <3> HIDE DEF w
    <3> QED BY <2>1, <2>2, <2>3, <2>4, <3>1
  <2> QED BY <2>1, <2>2, <2>6 DEF DecisionInv, AfterDelta, AfterSelect
<1>9. CASE ZigZagAll
  <2>1. /\ pc = "deltaRows" /\ row = 0 /\ pc' = "select" /\ Delta /\ row + 1 = 1
        /\ UNCHANGED <<flag, stored, base, zigzag, dst>>
    BY <1>9 DEF ZigZagAll, Inv, PackInv
  <2>2. /\ Shifted' = Shifted /\ Delta' = Delta /\ base' = FORBase(stored, flag)'
        /\ ~(dst'.count > 0)
    BY <1>2, <2>1 DEF Shifted, Delta, DecisionInv, AfterFOR, Packing
  <2>3. zigzag = ~AscendingFrom(Shifted, 1)
    BY <2>1 DEF DecisionInv
  <2>4. zigzag' = (Delta' /\ ~AscendingFrom(Shifted', 1))
    BY <2>1, <2>2, <2>3
  <2> QED BY <2>1, <2>2, <2>4 DEF DecisionInv, AfterDelta, AfterSelect
<1>10. CASE SelectWidth
  <2>1. /\ pc = "select" /\ pc' = "pad" /\ workValues = Encoded
        /\ UNCHANGED <<flag, stored, base, zigzag, dst>>
    BY <1>10 DEF SelectWidth, Inv, PackInv
  <2>2. /\ Shifted' = Shifted /\ Encoded' = Encoded /\ Delta' = Delta
        /\ base' = FORBase(stored, flag)' /\ ~(dst'.count > 0)
    BY <1>2, <2>1 DEF Shifted, Encoded, Delta, DecisionInv, AfterFOR, Packing
  <2>3. bitWidth' = IF "NoPatch" \in flag' THEN selectBitWidthNoPatch(Encoded')
                                           ELSE selectBitWidth(Encoded')
    BY <1>10, <2>1, <2>2 DEF SelectWidth
  <2>4. zigzag = (Delta /\ ~AscendingFrom(Shifted, 1))
    BY <2>1 DEF DecisionInv, AfterDelta
  <2> QED BY <2>1, <2>2, <2>3, <2>4 DEF DecisionInv
<1>11. CASE Pad
  BY <1>11, DecisionFrame DEF Pad, AfterFOR, AfterDelta, AfterSelect, Packing
<1>12. CASE WritePayload
  BY <1>12, DecisionFrame DEF WritePayload, AfterFOR, AfterDelta, AfterSelect, Packing
<1>13. CASE CollectExceptions \/ EncodeSVB \/ Unpack \/ UNCHANGED vars
  <2>1. CASE CollectExceptions \/ EncodeSVB
    <3>1. dst.count > 0
      BY <2>1 DEF Inv, CallInv, CollectExceptions, EncodeSVB
    <3> QED BY <2>1, <3>1, DecisionFrame
            DEF CollectExceptions, EncodeSVB, AfterFOR, AfterDelta, AfterSelect
  <2>2. CASE Unpack
    <3>1. dst.count > 0
      BY <2>2 DEF Inv, CallInv, Reading, Unpack, UnpackLanes, ApplyExceptions, NoExceptions,
                  UndeltaRow, Return, WalkRow, WalkReturn
    <3>2. UNCHANGED <<flag, stored, base, zigzag, bitWidth>> /\ pc' # "deltaRows"
      BY <2>2 DEF Unpack, UnpackLanes, ApplyExceptions, NoExceptions, UndeltaRow, Return,
                  WalkRow, WalkReturn
    <3> QED BY <3>1, <3>2, DecisionFrame DEF AfterFOR, AfterDelta, AfterSelect
  <2>3. CASE UNCHANGED vars
    BY <2>3, DecisionFrame DEF vars, AfterFOR, AfterDelta, AfterSelect
  <2> QED BY <1>13, <2>1, <2>2, <2>3
<1> QED BY <1>3, <1>4, <1>5, <1>6, <1>7, <1>8, <1>9, <1>10, <1>11, <1>12, <1>13
        DEF Next, Pack
(* Fields that a step has not come to are as in the empty block.           *)
LEMMA UnwrittenStep ==
  ASSUME Inv, Inv', UnwrittenInv, [Next]_vars
  PROVE  UnwrittenInv'
<1> USE DEF memory, packing, reading, history
<1>1. ASSUME UNCHANGED <<dst, flag, nExc>>, pc' \notin {"collect", "svb"} PROVE UnwrittenInv'
  BY <1>1 DEF UnwrittenInv
<1>2. ASSUME dst' = NoBlock PROVE UnwrittenInv'
  <2>1. NoBlock = [k \in DOMAIN NoBlock |-> NoBlock[k]]
    BY DEF NoBlock
  <2>2. ~(NoBlock.count > 0)
    BY DEF NoBlock
  <2> QED BY <1>2, <2>1, <2>2 DEF UnwrittenInv
<1>3. CASE Call
  <2>1. ASSUME NEW v \in Inputs, NEW f \in FlagSets, Compress(v, f) PROVE UnwrittenInv'
    BY <1>2, <2>1 DEF Compress
  <2>2. CASE ~(\E v \in Inputs, f \in FlagSets : Compress(v, f))
    <3>1. UNCHANGED <<dst, flag, nExc>> /\ pc' \in {"idle", "unpack", "walk"}
      BY <1>3, <2>2 DEF Call, RejectLength, Decompress, Get, GetFails, GetDirect,
                        GetByUnpack, GetByLane, StartUnpack
    <3> QED BY <1>1, <3>1
  <2> QED BY <2>1, <2>2
<1>4. CASE Pack /\ ~WritePayload /\ ~CollectExceptions /\ ~EncodeSVB
  <2>1. pc \in Packing \ {"collect", "svb"} /\ dst' = dst
    BY <1>4 DEF Pack, SubtractBase, SkipFOR, StartDelta, SkipDelta, DeltaRow, ZigZagAll,
                SelectWidth, Pad, Packing
  <2> QED BY <1>2, <2>1 DEF Inv, CallInv
<1>5. CASE WritePayload
  <2>1. dst = NoBlock /\ nExc' = nExc /\ flag' = flag /\ pc' \in {"collect", "idle"}
        /\ (pc' = "idle" => ~(nExc > 0)) /\ nExc \in 0 .. blockSize
    BY <1>5 DEF WritePayload, Inv, CallInv, Packing, TypeOK
  <2>2. /\ dst'.special = ("Special" \in flag) /\ dst'.combine = FALSE
        /\ dst'.svb = NoValues /\ dst'.svbLen = 0
        /\ dst'.positions = NoValues /\ dst'.bitmap = {}
    BY <1>5, <2>1 DEF WritePayload, NoBlock
  <2>3. dst' = [k \in DOMAIN dst' |-> dst'[k]]
    BY <1>5 DEF WritePayload
  <2> QED BY <2>1, <2>2, <2>3 DEF UnwrittenInv
<1>6. CASE CollectExceptions
  <2>1. /\ pc = "collect" /\ pc' = "svb" /\ dst.count > 0 /\ nExc \in Nat /\ nExc > 0
        /\ nExc' = nExc /\ flag' = flag
        /\ {"positions", "bitmap", "svb", "svbLen", "len"} \subseteq DOMAIN dst
    <3>1. /\ pc = "collect" /\ pc' = "svb" /\ nExc' = nExc /\ flag' = flag
      BY <1>6 DEF CollectExceptions
    <3>2. dst.count > 0 /\ nExc > 0
      BY <3>1 DEF Inv, CallInv, ExceptionInv
    <3> QED BY <3>1, <3>2, BlockFacts
  <2> DEFINE E == Exceptions(workValues, bitWidth)
  <2> DEFINE P == [r \in 0 .. Cardinality(E) - 1 |-> Nth(E, r)]
  <2>2. dst' = IF nExc <= excBitmapThreshold THEN [dst EXCEPT !.positions = P]
                                             ELSE [dst EXCEPT !.bitmap = E]
    BY <1>6 DEF CollectExceptions
  <2>3. /\ dst.special = ("Special" \in flag) /\ dst.combine = FALSE
        /\ dst.svb = NoValues /\ dst.svbLen = 0
        /\ dst.positions = NoValues /\ dst.bitmap = {}
    BY <2>1 DEF UnwrittenInv
  <2> HIDE DEF P, E
  <2>4. CASE nExc <= excBitmapThreshold
    <3>1. dst' = [dst EXCEPT !.positions = P]
      BY <2>2, <2>4
    <3>2. dst' = [k \in DOMAIN dst' |-> dst'[k]]
      BY <3>1
    <3>3. /\ dst'.special = dst.special /\ dst'.combine = dst.combine /\ dst'.svb = NoValues /\ dst'.svbLen = 0
          /\ dst'.bitmap = {}
      BY <2>1, <2>3, <3>1
    <3>4. ~(nExc > excBitmapThreshold) /\ nExc # 0
      BY <2>1, <2>4, Dimensions
    <3> QED BY <2>1, <2>3, <3>2, <3>3, <3>4 DEF UnwrittenInv
  <2>5. CASE ~(nExc <= excBitmapThreshold)
    <3>1. dst' = [dst EXCEPT !.bitmap = E]
      BY <2>2, <2>5
    <3>2. dst' = [k \in DOMAIN dst' |-> dst'[k]]
      BY <3>1
    <3>3. /\ dst'.special = dst.special /\ dst'.combine = dst.combine /\ dst'.svb = NoValues /\ dst'.svbLen = 0
          /\ dst'.positions = NoValues
      BY <2>1, <2>3, <3>1
    <3> QED BY <2>1, <2>3, <2>5, <3>2, <3>3 DEF UnwrittenInv
  <2> QED BY <2>4, <2>5
<1>7. CASE EncodeSVB
  <2>1. /\ pc = "svb" /\ pc' = "idle" /\ dst.count > 0 /\ nExc > 0 /\ nExc \in Nat
        /\ nExc' = nExc /\ flag' = flag
        /\ {"positions", "bitmap", "svb", "svbLen", "len"} \subseteq DOMAIN dst
    <3>1. /\ pc = "svb" /\ pc' = "idle" /\ nExc' = nExc /\ flag' = flag
      BY <1>7 DEF EncodeSVB
    <3>2. dst.count > 0 /\ nExc > 0
      BY <3>1 DEF Inv, CallInv, ExceptionInv
    <3> QED BY <3>1, <3>2, BlockFacts
  <2> DEFINE high == [r \in 0 .. nExc - 1 |-> scratch[highBitsOff + r]]
  <2> DEFINE svbLen == svbControlByteCount(nExc) + svbDataLen(high)
  <2> DEFINE len == dst.pOff + utlPayloadBytes(bitWidth) + (excIndexSize(nExc) + svbLen)
  <2>2. dst' = [dst EXCEPT !.svb = high, !.svbLen = svbLen, !.len = len]
    BY <1>7 DEF EncodeSVB
  <2> HIDE DEF high, svbLen, len
  <2>3. dst' = [k \in DOMAIN dst' |-> dst'[k]]
    BY <2>2
  <2>4. /\ dst'.special = dst.special /\ dst'.combine = dst.combine /\ dst'.positions = dst.positions
        /\ dst'.bitmap = dst.bitmap
    BY <2>2
  <2>5. nExc # 0
    BY <2>1
  <2> QED BY <2>1, <2>3, <2>4, <2>5 DEF UnwrittenInv
<1>8. CASE Unpack
  <2>1. UNCHANGED <<dst, flag, nExc>> /\ pc' \notin {"collect", "svb"}
    BY <1>8 DEF Unpack, UnpackLanes, ApplyExceptions, NoExceptions, UndeltaRow, Return,
                WalkRow, WalkReturn
  <2> QED BY <1>1, <2>1
<1>9. CASE UNCHANGED vars
  BY <1>9 DEF UnwrittenInv, vars
<1> QED BY <1>3, <1>4, <1>5, <1>6, <1>7, <1>8, <1>9 DEF Next

(* Collecting the exceptions goes to the half of scratch where the words   *)
(* are not.                                                                *)
LEMMA KeptStep ==
  ASSUME Inv, KeptInv, [Next]_vars
  PROVE  KeptInv'
<1> USE DEF memory, packing, reading, history
<1>1. ASSUME dst' = dst, pc' # "svb" PROVE KeptInv'
  BY <1>1 DEF KeptInv
<1>2. CASE Call
  <2>1. ASSUME NEW v \in Inputs, NEW f \in FlagSets, Compress(v, f) PROVE KeptInv'
    BY <2>1 DEF Compress, KeptInv
  <2>2. CASE ~(\E v \in Inputs, f \in FlagSets : Compress(v, f))
    <3>1. dst' = dst /\ pc' \in {"idle", "unpack", "walk"}
      BY <1>2, <2>2 DEF Call, RejectLength, Decompress, Get, GetFails, GetDirect,
                        GetByUnpack, GetByLane, StartUnpack
    <3> QED BY <1>1, <3>1
  <2> QED BY <2>1, <2>2
<1>3. CASE Pack /\ ~WritePayload /\ ~CollectExceptions /\ ~EncodeSVB
  <2>1. dst' = dst /\ pc' # "svb"
    BY <1>3 DEF Pack, SubtractBase, SkipFOR, StartDelta, SkipDelta, DeltaRow, ZigZagAll,
                SelectWidth, Pad
  <2> QED BY <1>1, <2>1
<1>4. CASE WritePayload
  <2>1. dst = NoBlock /\ count > 0 /\ pc' # "svb"
    BY <1>4 DEF WritePayload, Inv, CallInv, Packing
  <2>2. dst'.count = count
    BY <1>4, <2>1 DEF WritePayload, NoBlock
  <2> QED BY <2>1, <2>2 DEF KeptInv
<1>5. CASE CollectExceptions
  <2>1. /\ dst.count > 0 /\ workValues = Encoded /\ TypeOK
        /\ (work = "scratch" => NoInPlace) /\ DOMAIN dst = DOMAIN NoBlock
    BY <1>5 DEF CollectExceptions, Inv, CallInv, PackInv
  <2>2. dst'.count = dst.count
    BY <1>5, <2>1 DEF CollectExceptions, NoBlock
  <2>3. UNCHANGED <<values, work, stored, base, zigzag, flag, bitWidth>>
    BY <1>5 DEF CollectExceptions
  <2>4. Encoded' = Encoded
    BY <2>3 DEF Encoded, Delta
  <2>5. workValues' = workValues
    <3>1. CASE work = "values"
      BY <2>3, <3>1 DEF workValues
    <3>2. CASE work # "values"
      <4>1. highBitsOff = blockSize
        BY <2>1, <3>2 DEF highBitsOff, TypeOK
      <4>2. /\ count \in 0 .. blockSize /\ count \in Nat /\ blockSize \in Nat
            /\ DOMAIN values = 0 .. count - 1 /\ DOMAIN scratch = 0 .. 2 * blockSize - 1
        BY <2>1, Typed, Dimensions DEF TypeOK, Slice
      <4>3. excCount(Encoded, bitWidth) \in 0 .. blockSize
        BY <2>1, BlockFacts, <4>2
      <4>4. scratch' = Store(scratch, blockSize, HighBits(Encoded, bitWidth))
        BY <1>5, <2>1, <4>1 DEF CollectExceptions, HighBits, excCount
      <4>5. \A i \in DOMAIN values : i \in DOMAIN scratch
                                     /\ i - blockSize \notin DOMAIN HighBits(Encoded, bitWidth)
        BY <4>2, <4>3 DEF HighBits
      <4>6. \A i \in DOMAIN values : scratch'[i] = scratch[i]
        BY <4>4, <4>5 DEF Store
      <4> QED BY <2>3, <3>2, <4>6 DEF workValues
    <3> QED BY <3>1, <3>2
  <2> QED BY <2>1, <2>2, <2>4, <2>5 DEF KeptInv
<1>6. CASE EncodeSVB
  <2>1. dst.count > 0 /\ DOMAIN dst = DOMAIN NoBlock /\ pc' # "svb"
    BY <1>6 DEF EncodeSVB, Inv, CallInv
  <2>2. dst'.count = dst.count
    BY <1>6, <2>1 DEF EncodeSVB, NoBlock
  <2> QED BY <2>1, <2>2 DEF KeptInv
<1>7. CASE Unpack
  <2>1. dst' = dst /\ pc' # "svb"
    BY <1>7 DEF Unpack, UnpackLanes, ApplyExceptions, NoExceptions, UndeltaRow, Return,
                WalkRow, WalkReturn
  <2> QED BY <1>1, <2>1
<1>8. CASE UNCHANGED vars
  <2>1. UNCHANGED <<pc, dst, values, scratch, work, stored, base, zigzag, flag>>
    BY <1>8 DEF vars
  <2>2. workValues' = workValues /\ Encoded' = Encoded
    BY <2>1 DEF workValues, Encoded, Delta
  <2> QED BY <2>1, <2>2 DEF KeptInv
<1> QED BY <1>2, <1>3, <1>4, <1>5, <1>6, <1>7, <1>8 DEF Next

(* Blocks that agree in every field are one block. *)
LEMMA SameBlock ==
  ASSUME NEW b, NEW c, DOMAIN b = DOMAIN NoBlock, DOMAIN c = DOMAIN NoBlock,
         b = [k \in DOMAIN b |-> b[k]], c = [k \in DOMAIN c |-> c[k]],
         b.count = c.count, b.bitWidth = c.bitWidth, b.intType = c.intType,
         b.forWidth = c.forWidth, b.special = c.special, b.combine = c.combine,
         b.delta = c.delta, b.zigzag = c.zigzag, b.excCount = c.excCount,
         b.svbLen = c.svbLen, b.base = c.base, b.pOff = c.pOff,
         b.payload = c.payload, b.positions = c.positions, b.bitmap = c.bitmap,
         b.svb = c.svb, b.len = c.len
  PROVE  b = c
<1>1. DOMAIN NoBlock = {"count", "bitWidth", "intType", "forWidth", "special", "combine",
                        "delta", "zigzag", "excCount", "svbLen", "base", "pOff", "payload",
                        "positions", "bitmap", "svb", "len"}
  BY DEF NoBlock
<1>2. \A k \in DOMAIN NoBlock : b[k] = c[k]
  BY <1>1
<1> QED BY <1>2

(* The block that is done is the one that PackedBlock says.                *)
LEMMA BlockIsPacked ==
  ASSUME CanonicalInv, pc = "idle", dst.count > 0
  PROVE  dst = PackedBlock(stored, flag, IntTypeUint32, FALSE)
<1> DEFINE b == PackedBlock(stored, flag, IntTypeUint32, FALSE)
<1>1. Inv /\ DecisionInv /\ UnwrittenInv /\ Readable
  BY DEF CanonicalInv, Readable
<1>2. /\ TypeOK /\ count \in Nat /\ count > 0 /\ count <= blockSize /\ blockSize \in Nat
      /\ nExc = excCount(Encoded, bitWidth) /\ nExc \in Nat
      /\ dst.count = count /\ dst.bitWidth = bitWidth /\ dst.excCount = nExc
      /\ dst.delta = Delta /\ dst.zigzag = zigzag
      /\ dst.base = base /\ dst.forWidth = selectFORWidth(base)
  BY <1>1, BlockFacts, Dimensions
<1>3. count \in 1 .. blockSize /\ stored \in Slice(count) /\ DOMAIN stored = 0 .. count - 1
      /\ DOMAIN Encoded = 0 .. count - 1
  BY <1>2, Typed
<1>4. /\ base = FORBase(stored, flag) /\ zigzag = (Delta /\ ~AscendingFrom(Shifted, 1))
      /\ bitWidth = IF "NoPatch" \in flag THEN selectBitWidthNoPatch(Encoded)
                                           ELSE selectBitWidth(Encoded)
  BY <1>1 DEF DecisionInv, AfterFOR, AfterDelta, AfterSelect
<1> DEFINE v == FORBase(stored, flag)
<1> DEFINE d == "Delta" \in flag
<1> DEFINE zz == d /\ ~AscendingFrom(forSubtract(stored, v), 1)
<1> DEFINE e == Encode(stored, v, d, zz)
<1>0. PackedFrom(b, count, flag, IntTypeUint32, FALSE, v, d, zz, e)
  BY <1>3, PackedFacts
<1>5. v = base /\ d = Delta /\ zz = zigzag /\ e = Encoded
  BY <1>4 DEF Encoded, Shifted, Delta
<1> HIDE DEF b, v, d, zz, e
<1>6. /\ Holds(b, e)
      /\ b.count = count /\ b.intType = IntTypeUint32 /\ b.combine = FALSE
      /\ b.delta = d /\ b.zigzag = zz
      /\ b.base = v /\ b.forWidth = selectFORWidth(v)
      /\ b.pOff = payloadOffset(forBaseBytes(b.forWidth), b.excCount > 0, FALSE)
      /\ b.len = b.pOff + utlPayloadBytes(b.bitWidth)
                   + IF b.excCount > 0 THEN excIndexSize(b.excCount) + b.svbLen ELSE 0
      /\ b.bitWidth = IF "NoPatch" \in flag THEN selectBitWidthNoPatch(e)
                                             ELSE selectBitWidth(e)
      /\ b.special = ("Special" \in flag)
      /\ (b.excCount = 0 => b.svb = NoValues /\ b.svbLen = 0)
      /\ (~(0 < b.excCount /\ b.excCount <= excBitmapThreshold) => b.positions = NoValues)
      /\ (b.excCount <= excBitmapThreshold => b.bitmap = {})
      /\ DOMAIN b = DOMAIN NoBlock /\ b = [k \in DOMAIN b |-> b[k]]
  BY <1>0 DEF PackedFrom
<1>7. e = Encoded
  BY <1>5
<1>8. b.bitWidth = bitWidth /\ b.excCount = nExc
  BY <1>2, <1>4, <1>6, <1>7 DEF Holds
<1>9. /\ dst.intType = IntTypeUint32 /\ dst.combine = FALSE /\ dst.special = ("Special" \in flag)
      /\ DOMAIN dst = DOMAIN NoBlock /\ dst = [k \in DOMAIN dst |-> dst[k]]
  BY <1>1 DEF Inv, CallInv, HeaderInv, UnwrittenInv
<1>10. /\ dst.pOff = readOffset(dst, FALSE) /\ dst.len = readEnd(dst, FALSE)
       /\ dst.payload = [i \in Pos |-> IF i \in DOMAIN stored
                                       THEN Encoded[i] % 2 ^ bitWidth ELSE 0]
  BY <1>1 DEF Inv, HeaderInv, ExceptionInv
<1>11. dst.pOff = b.pOff
  <2>1. dst.pOff = payloadOffset(forBaseBytes(selectFORWidth(base)), nExc > 0, FALSE)
    BY <1>2, <1>10 DEF readOffset
  <2> QED BY <1>5, <1>6, <1>8, <2>1
<1>12. dst.payload = b.payload
  BY <1>3, <1>6, <1>7, <1>8, <1>10 DEF Holds
<1>13. /\ dst.svb = b.svb /\ dst.svbLen = b.svbLen
       /\ dst.positions = b.positions /\ dst.bitmap = b.bitmap
  <2>1. CASE nExc = 0
    <3>1. nExc <= excBitmapThreshold /\ ~(0 < nExc)
      BY <2>1, Dimensions
    <3> QED BY <1>1, <1>6, <1>8, <2>1, <3>1 DEF UnwrittenInv
  <2>2. CASE nExc > 0
    <3>1. /\ IndexWritten /\ dst.svb = HighBits(Encoded, bitWidth) /\ dst.svbLen = svbNeeded(dst)
      BY <1>1, <2>2 DEF Inv, ExceptionInv
    <3>2. b.svb = HighBits(Encoded, bitWidth) /\ b.svbLen = svbNeeded(b)
      BY <1>6, <1>7, <1>8, <2>2 DEF Holds
    <3>3. svbNeeded(dst) = svbNeeded(b)
      BY <1>2, <1>8, <3>1, <3>2 DEF svbNeeded
    <3>4. CASE nExc <= excBitmapThreshold
      <4>1. dst.positions = ExcPositions(Encoded, bitWidth)
        BY <3>1, <3>4 DEF IndexWritten
      <4>2. b.positions = ExcPositions(Encoded, bitWidth)
        BY <1>6, <1>7, <1>8, <2>2, <3>4 DEF Holds
      <4>3. dst.bitmap = {} /\ b.bitmap = {}
        BY <1>1, <1>6, <1>8, <3>4 DEF UnwrittenInv
      <4> QED BY <3>1, <3>2, <3>3, <4>1, <4>2, <4>3
    <3>5. CASE ~(nExc <= excBitmapThreshold)
      <4>1. nExc > excBitmapThreshold
        BY <1>2, <3>5, Dimensions
      <4>2. dst.bitmap = Exceptions(Encoded, bitWidth)
        BY <3>1, <3>5 DEF IndexWritten
      <4>3. b.bitmap = Exceptions(Encoded, bitWidth)
        BY <1>6, <1>7, <1>8, <2>2, <3>5 DEF Holds
      <4>4. dst.positions = NoValues
        BY <1>1, <4>1 DEF UnwrittenInv
      <4>5. b.positions = NoValues
        BY <1>6, <1>8, <3>5
      <4> QED BY <3>1, <3>2, <3>3, <4>2, <4>3, <4>4, <4>5
    <3> QED BY <3>1, <3>2, <3>3, <3>4, <3>5
  <2> QED BY <1>2, <2>1, <2>2
<1>14. dst.len = b.len
  <2>1. readEnd(dst, FALSE) = dst.pOff + utlPayloadBytes(bitWidth)
                               + IF nExc > 0 THEN excIndexSize(nExc) + dst.svbLen ELSE 0
    BY <1>2, <1>10 DEF readEnd
  <2> QED BY <1>6, <1>8, <1>10, <1>11, <1>13, <2>1
<1>15. /\ dst.count = b.count /\ dst.bitWidth = b.bitWidth /\ dst.intType = b.intType
       /\ dst.forWidth = b.forWidth /\ dst.special = b.special /\ dst.combine = b.combine
       /\ dst.delta = b.delta /\ dst.zigzag = b.zigzag /\ dst.excCount = b.excCount
       /\ dst.base = b.base
  BY <1>2, <1>5, <1>6, <1>8, <1>9
<1>16. dst = b
  BY <1>6, <1>9, <1>11, <1>12, <1>13, <1>14, <1>15, SameBlock
<1> QED BY <1>16 DEF b

(* What every phase holds is determined by the values and the flags. *)
THEOREM CanonicalInvariance == Spec => []CanonicalInv
<1>1. Init => DecisionInv /\ UnwrittenInv /\ KeptInv
  <2>1. Init => pc = "idle" /\ dst = NoBlock
    BY DEF Init
  <2>2. NoBlock = [k \in DOMAIN NoBlock |-> NoBlock[k]]
    BY DEF NoBlock
  <2>3. ~(NoBlock.count > 0)
    BY DEF NoBlock
  <2> QED BY <2>1, <2>2, <2>3 
         DEF DecisionInv, UnwrittenInv, KeptInv, AfterFOR, AfterDelta, AfterSelect, Packing
<1>2. Init => CanonicalInv
  BY <1>1, InitInv DEF CanonicalInv
<1>3. CanonicalInv /\ [Next]_vars => CanonicalInv'
  BY NextInv, DecisionStep, UnwrittenStep, KeptStep DEF CanonicalInv
<1> QED BY <1>2, <1>3, PTL DEF Spec

(* The bytes of a block depend on the values and on the flags of the       *)
(* format alone: not on the dispatched kernels, on where the pack worked,  *)
(* or on what earlier calls left behind.                                   *)
THEOREM BlocksAreCanonical == Spec => []BlockIsCanonical
<1>1. CanonicalInv => BlockIsCanonical
  BY BlockIsPacked DEF BlockIsCanonical
<1> QED BY <1>1, CanonicalInvariance, PTL

-----------------------------------------------------------------------------
(* What a block costs. *)

(* A block that is done is no longer than its words without exceptions.    *)
NoLonger ==
  pc = "idle" /\ dst.count > 0 =>
    dst.len <= payloadOffset(forBaseBytes(dst.forWidth), FALSE, FALSE)
                 + utlPayloadBytes(selectBitWidthNoPatch(Encoded))

LEMMA BlockNoLonger == CanonicalInv => NoLonger
<1> SUFFICES ASSUME CanonicalInv, pc = "idle", dst.count > 0
             PROVE  dst.len <= payloadOffset(forBaseBytes(dst.forWidth), FALSE, FALSE)
                                 + utlPayloadBytes(selectBitWidthNoPatch(Encoded))
  BY DEF NoLonger
<1>1. Inv /\ DecisionInv /\ Readable
  BY DEF CanonicalInv, Readable
<1>2. /\ count \in 0 .. blockSize /\ Encoded \in Slice(count)
      /\ Holds(dst, Encoded) /\ dst.len = readEnd(dst, FALSE)
  BY <1>1, HoldsEncoded
<1>3. base \in Nat /\ dst.forWidth = selectFORWidth(base) /\ dst.bitWidth = bitWidth
  BY <1>1, BlockFacts, Dimensions DEF TypeOK, Word
<1>4. dst.pOff = readOffset(dst, FALSE)
  BY <1>1 DEF Inv, HeaderInv
<1>5. readOffset(dst, FALSE) = payloadOffset(forBaseBytes(dst.forWidth), dst.excCount > 0, FALSE)
  BY DEF readOffset
<1>6. dst.len = dst.pOff + utlPayloadBytes(dst.bitWidth)
                  + IF dst.excCount > 0 THEN excIndexSize(dst.excCount) + dst.svbLen ELSE 0
  BY <1>2, <1>4 DEF readEnd
<1>7. dst.bitWidth = IF "NoPatch" \in flag THEN selectBitWidthNoPatch(Encoded)
                                          ELSE selectBitWidth(Encoded)
  BY <1>1, <1>3 DEF DecisionInv, AfterSelect
<1>8. ("NoPatch" \in flag) \in BOOLEAN
  OBVIOUS
<1> QED BY <1>2, <1>3, <1>4, <1>5, <1>6, <1>7, <1>8, UnpatchedLength

(* The estimate behind the choice of exceptions is never too low, for      *)
(* every instance: a patched block is no longer than the unpatched one.    *)
THEOREM ExceptionsPay == Spec => PatchPays
<1> DEFINE A == pc = "svb" =>
       dst'.len <= payloadOffset(forBaseBytes(dst.forWidth), FALSE, dst.combine)
                     + utlPayloadBytes(selectBitWidthNoPatch(workValues))
<1>1. CanonicalInv /\ NoLonger' /\ [Next]_vars => [A]_vars
  <2> SUFFICES ASSUME CanonicalInv, NoLonger', Next, pc = "svb"
               PROVE  dst'.len <= payloadOffset(forBaseBytes(dst.forWidth), FALSE, dst.combine)
                                    + utlPayloadBytes(selectBitWidthNoPatch(workValues))
    OBVIOUS
  <2>1. EncodeSVB
    BY DEF Next, Call, Compress, RejectLength, Decompress, Get, GetFails, GetDirect,
           GetByUnpack, GetByLane, StartUnpack, Pack, SubtractBase, SkipFOR, StartDelta,
           SkipDelta, DeltaRow, ZigZagAll, SelectWidth, Pad, WritePayload,
           CollectExceptions, Unpack, UnpackLanes, ApplyExceptions, NoExceptions,
           UndeltaRow, Return, WalkRow, WalkReturn
  <2>2. /\ dst.count > 0 /\ dst.combine = FALSE /\ workValues = Encoded
        /\ DOMAIN dst = DOMAIN NoBlock
    BY DEF CanonicalInv, Inv, CallInv, KeptInv, UnwrittenInv
  <2>3. dst'.count = dst.count /\ dst'.forWidth = dst.forWidth /\ pc' = "idle"
    BY <2>1, <2>2 DEF EncodeSVB, NoBlock
  <2>4. Encoded' = Encoded
    BY <2>1 DEF EncodeSVB, Encoded, Delta, history
  <2>5. dst'.len <= payloadOffset(forBaseBytes(dst'.forWidth), FALSE, FALSE)
                      + utlPayloadBytes(selectBitWidthNoPatch(Encoded'))
    BY <2>2, <2>3 DEF NoLonger
  <2> QED BY <2>2, <2>3, <2>4, <2>5
<1> QED BY <1>1, BlockNoLonger, CanonicalInvariance, PTL DEF Spec, PatchPays

(* A base is used only where it saves at least a step of payload against   *)
(* what the same values would have taken without it.                       *)
THEOREM FramePays == Spec => []FORPays
<1>1. CanonicalInv => FORPays
  <2> SUFFICES ASSUME CanonicalInv, pc = "idle", dst.forWidth > 0, ~dst.delta
               PROVE  dst.len + utlSuperWordBytes - forBaseBytes(forWidthU32)
                        <= headerBytes + utlPayloadBytes(selectBitWidth(stored))
                             + LET n == excCount(stored, selectBitWidth(stored))
                               IN  IF n = 0 THEN 0 ELSE svbLenBytes + excIndexSize(n)
    BY DEF FORPays
  <2>1. dst.count > 0
    BY DEF CanonicalInv, KeptInv, NoBlock
  <2>2. /\ TypeOK /\ count \in Nat \ {0} /\ Encoded \in Slice(count) /\ stored \in Slice(count)
        /\ dst.forWidth = selectFORWidth(base) /\ ~Delta /\ base \in Nat
    <3>1. Inv
      BY DEF CanonicalInv
    <3>2. TypeOK /\ count \in Nat /\ count > 0 /\ base \in Nat
      BY <2>1, <3>1, BlockFacts, Dimensions DEF TypeOK, Word
    <3> QED BY <2>1, <3>1, <3>2, BlockFacts DEF TypeOK
  <2>3. UseFOR(stored) /\ base = SliceMin(stored) /\ Encoded = forSubtract(stored, base)
    <3>1. base # 0
      BY <2>2 DEF selectFORWidth, forWidthNone
    <3>2. base = FORBase(stored, flag)
      BY <2>1 DEF CanonicalInv, DecisionInv, AfterFOR
    <3> QED BY <2>2, <3>1, <3>2 DEF FORBase, Encoded, Encode
  <2> DEFINE best == BestStep(stored)
  <2> DEFINE step == maxStepIdx(Encoded)
  <2>4. step \in 0 .. 8 /\ best \in 0 .. 8 /\ step < best
    <3>1. step < best
      BY <2>2, <2>3, FORSavesStep
    <3>2. step \in 0 .. 8
      BY <2>2, MaxStep
    <3>3. maxStepIdx(stored) \in 0 .. 8 /\ best \in 0 .. maxStepIdx(stored)
      BY <2>2, MaxStep, BestStepType
    <3> HIDE DEF step, best
    <3> QED BY <3>1, <3>2, <3>3
  <2> DEFINE sw == utlSuperWordBytes
  <2>5. /\ utlPayloadBytes(selectBitWidth(stored)) = best * sw
        /\ utlPayloadBytes(selectBitWidthNoPatch(Encoded)) = step * sw
    <3> HIDE DEF step, best
    <3>1. utlPayloadBytes(StepBits * best) = best * sw /\ utlPayloadBytes(StepBits * step) = step * sw
      BY <2>4, PayloadBytes DEF utlSuperWordBytes
    <3> QED BY <3>1 DEF selectBitWidth, selectBitWidthNoPatch, best, step
  <2> DEFINE fb == forBaseBytes(dst.forWidth)
  <2>6. fb \in 0 .. 4
    BY <2>2, BaseBytes
  <2>7. dst.len <= 4 + 0 + fb + 0 + step * sw
    <3>1. dst.len <= payloadOffset(fb, FALSE, FALSE)
                       + utlPayloadBytes(selectBitWidthNoPatch(Encoded))
      BY <2>1, BlockNoLonger DEF NoLonger
    <3>2. payloadOffset(fb, FALSE, FALSE) = 4 + 0 + fb + 0
      BY DEF payloadOffset, headerBytes
    <3> HIDE DEF fb, step
    <3> QED BY <2>5, <3>1, <3>2
  <2>8. dst.len \in Nat
    <3>1. Inv /\ Readable
      BY <2>1 DEF CanonicalInv, Readable
    <3> QED BY <3>1, HoldsEncoded, Accepted
  <2> DEFINE x == excCount(stored, selectBitWidth(stored))
  <2> DEFINE extra == IF x = 0 THEN 0 ELSE svbLenBytes + excIndexSize(x)
  <2>9. extra \in Nat
    <3>1. x \in Nat
      BY <2>2, ExceptionFacts
    <3> HIDE DEF x
    <3> QED BY <3>1, Dimensions DEF svbLenBytes, excIndexSize
  <2>10. forBaseBytes(forWidthU32) = 4
    BY DEF forBaseBytes, forWidthNone, forWidthU8, forWidthU16, forWidthU32
  <2>11. sw \in Nat /\ step * sw \in Nat /\ best * sw \in Nat /\ step * sw + sw <= best * sw
    <3> HIDE DEF step, best, sw
    <3>1. sw \in Nat
      BY Dimensions DEF utlSuperWordBytes, sw
    <3>2. (best - step - 1) * sw \in Nat /\ best * sw = step * sw + sw + (best - step - 1) * sw
      BY <2>4, <3>1
    <3>3. step * sw \in Nat /\ best * sw \in Nat
      BY <2>4, <3>1
    <3> QED BY <3>1, <3>2, <3>3
  <2> DEFINE bs == best * sw
  <2> DEFINE ss == step * sw
  <2>12. dst.len + sw - 4 <= 4 + bs + extra
    <3>1. /\ dst.len <= 4 + 0 + fb + 0 + ss /\ ss \in Nat /\ bs \in Nat /\ sw \in Nat
          /\ ss + sw <= bs
      BY <2>7, <2>11
    <3> HIDE DEF bs, ss, extra, fb, sw
    <3> QED BY <2>6, <2>8, <2>9, <3>1
  <2> QED BY <2>5, <2>10, <2>12 DEF headerBytes
<1> QED BY <1>1, CanonicalInvariance, PTL

-----------------------------------------------------------------------------
(* Two goroutines. *)

(* One that has not packed yet. *)
Untouched == pc = "idle" /\ dst = NoBlock /\ stored = NoValues /\ Ready

(* The other packs in its own scratch. *)
OtherInv ==
  /\ work2 \in {"values", "scratch"}
  /\ pc2 \in Packing => "NoInPlace" \in flag2
  /\ pc2 = "deltaRows" => work2 = "scratch"

(* What the first relies on, whatever the other is doing.                  *)
SharedInv ==
  /\ values \in Inputs \cup {NoValues}
  /\ \/ Untouched
     \/ Inv /\ NoInPlace /\ values # NoValues
  /\ OtherInv

LEMMA BothBegin == BothInit => SharedInv
<1> SUFFICES ASSUME BothInit PROVE SharedInv
  OBVIOUS
<1>1. Init /\ pc2 = "idle" /\ work2 = "values"
  BY DEF BothInit, Other!Init
<1>2. Ready
  BY <1>1, InitInv DEF Ready, Inv, TypeOK, ReadInv
<1>3. Untouched /\ values = NoValues
  BY <1>1, <1>2 DEF Untouched, Init
<1>4. OtherInv
  BY <1>1 DEF OtherInv, Packing
<1> QED BY <1>3, <1>4 DEF SharedInv

(* Everything but a new Compress works for the slice that was given, with  *)
(* its flags.                                                              *)
LEMMA SameCall ==
  ASSUME Decompress \/ (\E pos \in Positions : Get(pos)) \/ Pack \/ Unpack
  PROVE  UNCHANGED <<flag, stored>>
<1>1. CASE Decompress
  BY <1>1 DEF Decompress, StartUnpack, packing, history
<1>2. CASE \E pos \in Positions : Get(pos)
  BY <1>2 DEF Get, GetFails, GetDirect, GetByUnpack, GetByLane, StartUnpack, packing, history
<1>3. CASE Pack
  BY <1>3 DEF Pack, SubtractBase, SkipFOR, StartDelta, SkipDelta, DeltaRow, ZigZagAll,
              SelectWidth, Pad, WritePayload, CollectExceptions, EncodeSVB, packing, history
<1>4. CASE Unpack
  BY <1>4 DEF Unpack, UnpackLanes, ApplyExceptions, NoExceptions, UndeltaRow, Return, WalkRow,
              WalkReturn, packing, history
<1> QED BY <1>1, <1>2, <1>3, <1>4

(* Nothing but a Compress begins without a block. *)
LEMMA NothingToDo ==
  ASSUME Untouched
  PROVE  ~(Decompress \/ (\E pos \in Positions : Get(pos)) \/ Pack \/ Unpack)
<1>1. pc = "idle" /\ ~(dst.count > 0)
  BY DEF Untouched, NoBlock
<1>2. ~Decompress /\ ~(\E pos \in Positions : Get(pos))
  BY <1>1 DEF Decompress, Get, GetFails, GetDirect, GetByUnpack, GetByLane
<1>3. ~Pack
  BY <1>1 DEF Pack, SubtractBase, SkipFOR, StartDelta, SkipDelta, DeltaRow, ZigZagAll,
              SelectWidth, Pad, WritePayload, CollectExceptions, EncodeSVB
<1>4. ~Unpack
  BY <1>1 DEF Unpack, UnpackLanes, ApplyExceptions, NoExceptions, UndeltaRow, Return, WalkRow,
              WalkReturn
<1> QED BY <1>2, <1>3, <1>4

LEMMA FirstStep ==
  ASSUME SharedInv, FirstRuns
  PROVE  SharedInv' /\ [Store32!Next]_(Store32!vars)
<1>1. OtherInv'
  BY DEF SharedInv, FirstRuns, second, OtherInv
<1>2. CASE \E f \in SharingFlags : Compress(values, f)
  <2>1. PICK f \in SharingFlags : Compress(values, f)
    BY <1>2
  <2>2. f \in FlagSets /\ "NoInPlace" \in EffectiveFlag(f)
    BY DEF SharingFlags, EffectiveFlag
  <2>3. values # NoValues
    <3>1. DOMAIN NoValues = {}
      BY DEF NoValues
    <3>2. SliceLen(NoValues) = 0
      BY <3>1, FS_EmptySet DEF SliceLen
    <3> QED BY <2>1, <3>2 DEF Compress, validLength
  <2>4. values \in Inputs /\ Ready
    BY <2>3 DEF SharedInv, Untouched, Ready, Inv, TypeOK, ReadInv
  <2>5. PICK v : v = values
    OBVIOUS
  <2>6. v \in Inputs /\ Compress(v, f)
    BY <2>1, <2>4, <2>5
  <2>7. Inv' /\ Store32!Compress(v)
    BY <2>2, <2>4, <2>6, CompressStep, CompressSimulation
  <2>8. values' = values /\ NoInPlace'
    BY <2>1, <2>2 DEF Compress, NoInPlace
  <2>9. Store32!Next
    BY <2>6, <2>7 DEF Store32!Next
  <2> QED BY <1>1, <2>3, <2>4, <2>7, <2>8, <2>9 DEF SharedInv
<1>3. CASE Decompress \/ (\E pos \in Positions : Get(pos)) \/ Pack \/ Unpack
  <2>1. Inv /\ NoInPlace /\ values # NoValues
    BY <1>3, NothingToDo DEF SharedInv
  <2>2. [Next]_vars
    BY <1>3 DEF Next, Call
  <2>3. Inv' /\ [Store32!Next]_(Store32!vars)
    BY <2>1, <2>2, NextInv, StepSimulation
  <2>4. UNCHANGED <<flag, stored>>
    BY <1>3, SameCall
  <2>5. NoInPlace'
    BY <2>1, <2>4 DEF NoInPlace
  <2>6. values' = values
    BY <2>1, <2>3, <2>4, <2>5 DEF Inv, CallInv
  <2> QED BY <1>1, <2>1, <2>3, <2>5, <2>6 DEF SharedInv
<1> QED BY <1>2, <1>3 DEF FirstRuns

(* However far the other is in a call: no phase of it writes to the slice. *)
LEMMA OtherStep ==
  ASSUME OtherInv, SecondRuns
  PROVE  UNCHANGED <<simdLevel, values>> /\ OtherInv'
<1> USE DEF OtherInv, Packing, Other!packing, Other!memory, Other!reading, Other!history
<1>1. CASE \E f \in SharingFlags : Other!Compress(values, f)
  BY <1>1 DEF Other!Compress, SharingFlags, EffectiveFlag, Other!EffectiveFlag
<1>2. CASE Other!Decompress
  BY <1>2 DEF Other!Decompress, Other!StartUnpack
<1>3. CASE \E pos \in Positions : Other!Get(pos)
  BY <1>3 DEF Other!Get, Other!GetFails, Other!GetDirect, Other!GetByUnpack, Other!GetByLane,
              Other!StartUnpack
<1>4. CASE Other!Pack
  <2>1. CASE Other!SubtractBase
    BY <2>1 DEF Other!SubtractBase, Other!NoInPlace
  <2>2. CASE Other!StartDelta
    BY <2>2 DEF Other!StartDelta, Other!NoInPlace
  <2>3. CASE Other!DeltaRow
    BY <2>3 DEF Other!DeltaRow, Other!WriteWork
  <2>4. CASE Other!ZigZagAll
    BY <2>4 DEF Other!ZigZagAll, Other!WriteWork
  <2>5. CASE Other!SkipFOR \/ Other!SkipDelta \/ Other!SelectWidth
    BY <2>5 DEF Other!SkipFOR, Other!SkipDelta, Other!SelectWidth
  <2>6. CASE Other!Pad
    BY <2>6 DEF Other!Pad
  <2>7. CASE Other!WritePayload
    BY <2>7 DEF Other!WritePayload
  <2>8. CASE Other!CollectExceptions
    BY <2>8 DEF Other!CollectExceptions
  <2>9. CASE Other!EncodeSVB
    BY <2>9 DEF Other!EncodeSVB
  <2> QED BY <1>4, <2>1, <2>2, <2>3, <2>4, <2>5, <2>6, <2>7, <2>8, <2>9 DEF Other!Pack
<1>5. CASE Other!Unpack
  BY <1>5 DEF Other!Unpack, Other!UnpackLanes, Other!ApplyExceptions, Other!NoExceptions,
              Other!UndeltaRow, Other!Return, Other!WalkRow, Other!WalkReturn
<1> QED BY <1>1, <1>2, <1>3, <1>4, <1>5 DEF SecondRuns

(* What leaves the slice and the first goroutine alone. *)
LEMMA FirstAlone ==
  ASSUME SharedInv, UNCHANGED <<simdLevel, values>>, UNCHANGED first, OtherInv'
  PROVE  SharedInv' /\ [Store32!Next]_(Store32!vars)
<1>1. UNCHANGED vars
  BY DEF first, vars, memory, packing, reading, history
<1>2. Inv => Inv'
  BY <1>1, NextInv
<1>3. NoInPlace' = NoInPlace /\ Untouched' = Untouched
  BY DEF first, NoInPlace, Untouched, Ready
<1>4. UNCHANGED Store32!vars
  BY DEF first, Store32!vars
<1> QED BY <1>2, <1>3, <1>4 DEF SharedInv

LEMMA BothStep ==
  ASSUME SharedInv, [BothNext]_<<shared, first, second>>
  PROVE  SharedInv' /\ [Store32!Next]_(Store32!vars)
<1>1. ASSUME NEW v \in Inputs, Fill(v)
      PROVE  SharedInv' /\ [Store32!Next]_(Store32!vars)
  <2>1. values = NoValues /\ values' = v /\ UNCHANGED <<simdLevel, first, second>>
    BY <1>1 DEF Fill
  <2>2. Untouched' /\ OtherInv'
    BY <2>1 DEF SharedInv, Untouched, Ready, OtherInv, first, second
  <2>3. UNCHANGED Store32!vars
    BY <2>1 DEF first, Store32!vars
  <2> QED BY <2>1, <2>2, <2>3 DEF SharedInv
<1>2. CASE FirstRuns
  BY <1>2, FirstStep
<1>3. CASE SecondRuns
  BY <1>3, OtherStep, FirstAlone DEF SecondRuns, SharedInv
<1>4. CASE HandOver
  <2>1. UNCHANGED <<simdLevel, values>> /\ UNCHANGED first /\ OtherInv'
    BY <1>4 DEF HandOver, shared, SharedInv, OtherInv
  <2> QED BY <2>1, FirstAlone
<1>5. CASE UNCHANGED <<shared, first, second>>
  <2>1. UNCHANGED <<simdLevel, values>> /\ UNCHANGED first /\ OtherInv'
    BY <1>5 DEF shared, second, SharedInv, OtherInv
  <2> QED BY <2>1, FirstAlone
<1> QED BY <1>1, <1>2, <1>3, <1>4, <1>5 DEF BothNext

(* While another goroutine packs the same slice with a compressor of its   *)
(* own, phase by phase in any interleaving, Inv holds of the memory of     *)
(* this one from its first Compress on, and with it the slice is what it   *)
(* packed (compressor.go:7-8, pack.go:63-66).                              *)
THEOREM SharedInvariance == BothSpec => []SharedInv
<1>1. SharedInv /\ [BothNext]_<<shared, first, second>> => SharedInv'
  BY BothStep
<1> QED BY <1>1, BothBegin, PTL DEF BothSpec

(* So a goroutine's compressor is lossless whatever another goroutine does *)
(* to the slice that they share and with the block that it is handed: one  *)
(* half of BothLossless.                                                   *)
THEOREM FirstLossless == BothSpec => Lossless
<1>1. SharedInv /\ [BothNext]_<<shared, first, second>> => [Store32!Next]_(Store32!vars)
  BY BothStep
<1>2. BothInit => Store32!Init
  BY InitSimulation DEF BothInit
<1> QED BY <1>1, <1>2, SharedInvariance, PTL DEF BothSpec, Lossless, Store32!Spec
=============================================================================

# A TLA+ model of UTL-PFOR

UTL-PFOR (`src/`) is a Go library that packs up to 128 integers into a block:
frame of reference, per-lane delta coding, bit packing in sixteen interleaved
lanes, and exceptions ("patches") whose high bits are StreamVByte coded. A
`Compressor32` or `Compressor64` owns a scratch buffer and offers `Compress`,
`Decompress` and `Get`.

The modules here follow the code phase by phase, keep the memory that the phases
share, check the result with TLC on small instances, and prove the properties of both
codecs, of the readers, of the bit-packing and delta kernels and the passes of every SIMD
level, and of appending with TLAPS for all sizes and all inputs. Below the phases, the kernels of all
SIMD levels have modules of their own; beside them, what readers do with buffers that no
packer wrote, what appending does to the bytes of a buffer, and two goroutines that
share a slice.

## 1. Inventory

| Component | Sources | State | Operations | Correct when |
|---|---|---|---|---|
| block format | `header.go`, `block_length.go` | none; the bytes of a block | encode and decode a header, sizes and offsets, `BlockLength` | writers and all readers agree on every offset and on the length |
| uint32 codec | `pack.go`, `unpack.go`, `scalar.go`, `unpack_block.go`, `compressor.go` | caller's slice, scratch (two halves of 128 words), destination buffer | `PackUint32`, `UnpackUint32` and the phases of `packBlock*`, `unpackBlock*` | what comes back is what went in; NoInPlace and Append leave the slice alone; the buffer bound holds; old scratch contents never reach a block |
| width and FOR selection | `select_bitwidth.go`, `for.go` | none | `selectBitWidth`, `selectBitWidthWithFOR`, `forSubtract`, `forAdd` | patching and FOR never make a block longer; the base fits its field |
| exceptions | `exceptions.go`, `svb.go` | high bits in scratch, index in the block | collect, apply, find one | collected, decoded and looked up in one order, in both forms of the index |
| delta coding | `delta.go` | in place, in slice or scratch | encode and decode per lane, zigzag, overflow report | decode inverts encode on wrapping words; no false overflow |
| random access | `get.go` | a window of eight words, or scratch | `GetUint32` direct, along a lane, by full unpack | equals Decompress at every position |
| uint64 codec | `uint64.go` | scratch in three regions of 128 words | `PackUint64`, `UnpackUint64`, `GetUint64` in three layouts (FOR64, narrow, pair) | as for uint32; the layouts are told apart by the header alone |
| SIMD pipelines | `simd_sse2_amd64.go`, `simd_avx2_amd64.go`, `simd_avx512_amd64.go`, `simd_for_amd64.go`, `simd_select_bitwidth_amd64.go` | zero-padded input in scratch | the same phases with vector kernels | bit-exact with the scalar pipeline |
| generated kernels | `simd_spec_amd64.go` | none | unrolled packing, unpacking, exception counts | each is the scalar loop |
| dispatch | `dispatch.go`, `simd_detect_*.go`, `simd_fallback.go` | `simdLevel`, set once | choose a pipeline | a block packed at one level is read at any other |
| flags and errors | `utlpfor.go` | none | | |
| generator, benchmark tools | `internal/` | none | print Go source, format benchmarks | not part of the codec |

**How they interact.** `Compressor32.Compress` calls `PackUint32`, which
normalises the flags and dispatches on `simdLevel` to a pipeline; that calls FOR
selection, delta, width selection, the packing kernel, the exceptions and SVB in
this order, all on two shared pieces of memory: the caller's slice and scratch.
`Get` takes one of three ways to a value, one of which is the whole unpack. The
uint64 codec calls the uint32 pipeline as a function, once or twice, on regions
of its own scratch. Nothing is called back, nothing is persisted and no goroutine
is started. A compressor must not be shared between goroutines, but they may share the
slice that they pack (with NoInPlace or Append) and the blocks that they read. A caller
may keep the slice of an earlier call while it appends to the buffer behind it.

**What is hard.** One buffer in several roles: scratch is work buffer, zero-padded
kernel input, high bits of exceptions and the memory earlier calls left dirty, so
the *order* of phases is what makes a block right. Aliasing: without NoInPlace the
caller's slice is the work buffer. Agreement of many hand-written readers about
offsets that depend on the header. Boundaries: base widths, wrapping differences,
position list against bitmap, empty and partial blocks, 2^32 in the uint64 layouts.
Vector kernels that must be bit-exact with loops of another shape: other chunks, other
order, other way to start, unchecked pointers. Trust in bytes: which of them a reader has
validated before it indexes with them.
`PROJECT.json` lists each hazard at its line with the properties that cover it.

## 2. Modules

| Module | Models |
|---|---|
| `UTLFormat` | dimensions, sizes and offsets of the wire format, `MaxBlockLength*` |
| `BitWidth` | words that wrap, exception counts, the choice of bitwidth and of FOR, zigzag |
| `UTLBlock` | a block as a record; `PackedBlock`, what `packBlock` makes of a slice, as one expression; what readers check (`headerError`, `getError`), find (`readOffset`, `findExceptionIndex`) and decode (`UnpackedBlock`) |
| `Block32` | the uint32 compressor: one action per phase of pack, unpack and Get |
| `Block32Inv`, `Block64Inv`, `ReadersInv`, `LaneKernelsInv`, `DeltaKernelsInv`, `VectorPassesInv`, `AppendStreamInv` | the inductive invariants of these modules; in the first also `BlockIsCanonical`, `BlockDecodes` |
| `Block64` | the uint64 compressor: its layouts, their three regions of scratch |
| `LosslessStore` | the abstract specification of both: a store that returns its content |
| `Goroutines` | two instances of `Block32` that share the slice of values and a block |
| `AppendStream` | the bytes of a buffer: `ensureCapacity*` and its growth, where `packBlock` writes, `wrapFor64SingleBlock`, `writeBlock2Len`; a reader that skips by `BlockLength` |
| `BlockStream` | the abstract specification of that: a sequence of blocks and a walk through it |
| `LaneKernels` | the bit-packing kernels: scalar loops, generic loops, unrolled kernels of three vector sizes, extraction of one value |
| `DeltaKernels` | the delta kernels: words, rows of vectors, borrow and overflow masks |
| `VectorPasses` | the passes over a slice: min/max, OR, counts, histogram, maps; chunks, folds, tails; the choices made from them |
| `Readers` | Unpack, Get and `BlockLength` on buffers that need not hold what a packer wrote |
| `MC...` | instances for TLC |
| `UTLBlockFacts` | lemmas on words, powers, splitting and zigzag, ranks, delta and prefix sums, costs, lengths; that `UnpackedBlock` inverts `PackedBlock` |
| `Block32Proofs` | `Invariance` and its consequences; `Implements`: Block32 implements LosslessStore; `CanonicalInvariance` and what follows: lengths, offsets, choices, `BlockIsCanonical`; `SharedInvariance`, `FirstLossless`: the first of two goroutines |
| `Block64Proofs` | the invariant of the uint64 codec, and that it implements LosslessStore |
| `ReadersProofs` | which checks stand between a header and the indexes used |
| `LaneKernelsProofs` | every kernel packs the format's bits and every reader reads them; no store leaves the payload |
| `DeltaKernelsProofs` | the kernels of all levels are `Encode` and `PrefixSums` |
| `VectorPassesProofs` | the passes of every level find the same extremes, counts and choices, and map every element once |
| `AppendStreamProofs` | a call writes behind its offset, in room made once; what growing costs; a buffer is whole blocks in the order of the calls, and the safety of `BlockStream` is implemented |

`Block32` and `Block64` extend `UTLBlock`, which extends `BitWidth` and `UTLFormat`.
`Block64` does not run the phases of the uint32 pipeline again. It uses
`PackedBlock` and `UnpackedBlock`, and `Block32`'s runs check (`BlockIsCanonical`,
`BlockDecodes`) that the phases compute exactly these. What is left of the inside
of a pack there is its use of memory: every word `packBlock` may write is
afterwards unknown.

The kernels' modules stand below that: `Block32` takes the payload of a block as
`e % 2 ^ bitWidth` per value, its choices of width and FOR as `selectBitWidth` and
`UseFOR`, a row of differences as one step. `LaneKernels` shows that every kernel packs
exactly those low bits and that every reader gets them back (`PayloadCanonical`,
`ReadersAgree`); `VectorPasses` that every level's passes choose what `BitWidth` says
(`LevelsAgree`); `DeltaKernels` that every level's loops leave what `Encode` and
`PrefixSums` of `UTLBlock` say (`KernelsEncode`, `KernelsDecode`). `Readers` and
`AppendStream` stand beside it: they take from a block only its lengths, offsets and
indexes, which `Block32` and `Block64` show to be those of the packers (`LayoutAgrees`,
`LengthBound`, `CapacityTrusted`).

**Slices** of n values are functions on `0 .. n-1`, as in Go. **Memory** is
explicit: `values` and `scratch` are the two arrays, `work` and `packInput` say
which of them `workValues` and the kernel's input alias. **A block** is a record of
its header fields and regions. `pOff` and `len` are what the writer used; readers
compute theirs from the header (`readOffset`, `readEnd`), and `LayoutAgrees` and
`LayoutAgrees64` compare them. A payload is the sequence of packed words, not of
their bits.

**Actions.** In `Block32`, `pc` is the phase: Compress → `SubtractBase` or `SkipFOR` →
`StartDelta`, `DeltaRow`* , `ZigZagAll` or `SkipDelta` → `SelectWidth` → `Pad` →
`WritePayload` → `CollectExceptions`, `EncodeSVB`. The delta loops take one step per
row because the order of rows is what makes the in-place loop right; the lanes of
a row do not touch each other, so a row is one step although the scalar code runs
lane by lane (the zigzag pass follows all rows in either order). Decompress →
`UnpackLanes` → `ApplyExceptions` or `NoExceptions` → `UndeltaRow`* → `Return`. Get is
`GetFails`, `GetDirect`, `GetByLane` with `WalkRow`* and `WalkReturn`, or `GetByUnpack`,
which starts an unpack and keeps one value of it. In `Block64`: Compress → one of
`SubtractMin64`, `Narrow`, `Split` → `PackFor64`, `WrapFor64` or `PackNarrow` or
`PackLower`, `PackUpper`; Decompress → `UnpackLower` → `AddBase` or `UnpackUpper`,
`Combine`; `GetLower` → `GetUpper`.

In `AppendStream` a call is `StartPack` → `EnsureCapacity` (but for
PackUint32 without Append) → `PackFirst` → `WrapFor64`, or `PackSecond` and `LinkBlocks`, or
neither → `ReturnSlice`; `OpenReader`, `ReadBlock`, `CloseReader` may fall anywhere between
these, because a slice that was handed out is anyone's. A byte is the tuple of the call,
sub-block and field it belongs to and its place there, so that a byte out of place shows;
the content of fields is `Block32`'s and `Block64`'s matter, but svbLen and block2Len are
numbers that the reader walks by. In `LaneKernels` a machine word is the set of its one
bits, and a kernel is the list of word groups that `internal/gen` emits straight-line code
for, in tables taken from the committed file. In `Readers` one behaviour is an
Unpack, a Get and a BlockLength of the same buffer, and `touched` the largest index that
a phase used; a value is the set of exceptions patched into it. `Goroutines` uses the
actions of `Block32` twice, with the variables of the second goroutine substituted.

A definition whose comment begins with "Broken:" is a deliberately wrong variant of
the definition that follows it; no specification uses it. It documents what the
properties are able to notice.

## 3. Dimensions

The code's 16 lanes and steps of 4 bits are the constants `LaneCount` and
`StepBits`. A lane has eight rows, a word eight steps and four bytes throughout.
TLC runs with two lanes and steps of one bit: blocks of 16 values of 8 bits in
bytes of 2, bitmap threshold 8. All ratios the code relies on survive (bytes of
payload per value and step, bitmap bytes per position, base widths, SVB bytes per
step), so the cost model takes decisions of the same kind: plain, listed
exceptions, a bitmap of them, FOR with one, two and four bytes. A uint64 has 16 bits
in `MCBlock64`. `Goroutines` uses the same. `LaneKernels` and `Readers` run with the code's
own 16 lanes, 32 bits and steps of 4. `DeltaKernels` has eight lanes of words of 8 bits, in
vectors of two and four, so that a row is still four SSE2 or two AVX2 vectors; `VectorPasses` has 16
lanes and so the code's blocks of 128 values and its chunks, with words of 8 bits.
`AppendStream` has one lane: a uint32 block takes at most 76 bytes, the bound for a uint64
block is 154. The proofs hold for all dimensions that satisfy
`DimensionAssumption`, so for 16 and 4.

## 4. Runs

| Run | Instance | Question |
|---|---|---|
| `block32` | `MCBlock32`: 11 shapes of slices in 4 lengths (1, one row and a value, full − 1, full) and two of illegal length; 18 combinations of flags; scalar and AVX2; scratch full of ones; one Compress, all reads | does what went in come back, through aliased memory, within the announced bounds? |
| `block32_reuse` | `MCBlock32Reuse`: two Compress calls on one compressor, any reads between, two initial contents of scratch, three SIMD levels | does anything depend on what earlier calls left in scratch, and does every call return? |
| `goroutines` | `MCGoroutines`: a partial and a full slice that FOR and the deltas rewrite, with exceptions; three combinations of flags with NoInPlace or Append; AVX2; one Compress each, all reads, in every interleaving | do two goroutines with a compressor each get back the slice they share? |
| `block64` | `MCBlock64`: 9 pairs of halves in 4 lengths, 11 combinations of flags, one Compress, all reads, unknown words 0 or all ones | the same for the three uint64 layouts |
| `lane_kernels` | `MCLaneKernels`: the nine step widths and three others, three slices, four levels of writer and reader, two stale contents of the buffer | does every kernel write the format's bits and nothing else, and every reader read them? |
| `delta_kernels` | `MCDeltaKernels`: slices of several lengths, with a descent at every position; received words with large differences at every pair of positions; four levels | are the in-place loops of all levels one function, and do they report the same overflow? |
| `vector_passes` | `MCVectorPasses`: lengths around all multiples of all chunks, extremes at every place where a chunk, lane or tail begins or ends; four levels | is every element seen once, and do all levels decide alike? |
| `readers` | `MCReaders`: thirteen fields of a block changed one at a time, buffers cut around the end of each region, pairs with wrong lengths; both thresholds of Get | do three readers that validate for themselves accept the same blocks, and read only what they validated? |
| `readers_corrupt` | as `readers`, with positions past 127 | finding 3 |
| `append_stream` | `MCAppendStream`: a pack of each layout, with and without exceptions; a nil buffer and one with a prefix and room for exactly one block; three calls and a reader | does a buffer of bytes implement a stream of blocks, through reallocations and while someone reads? |
| `block64_high_uppers` | upper halves from 2^16 on (scaled) | finding 1 |
| `block64_alloc` | as `block64` | finding 2 |

*Properties of `block32`.* `Lossless`: the refinement of `LosslessStore`.
`ValuesPreserved`, `ScratchLenSuffices`: what NoInPlace and the documented size of
scratch promise, in every phase. `LengthBound`, `LayoutAgrees`: lengths and offsets
of writer, bound and readers. `PatchPays`, `FORPays`: exceptions never make a block
longer than plain packing, and FOR saves at least its base. `NoStaleSlots`: unused slots
are zero. `CanonicalInv`: the invariant of the proofs, checked before it was proved, as are
`Inv64` in `block64`, `KernelInv` in `lane_kernels`, `PassInv` in `vector_passes`, `ReadersInv` in `readers` and `BytesInv` in
`append_stream`.
*Of `block32_reuse`.* `BlockIsCanonical`: a block is a function of values and format
flags, not of NoInPlace, Append, SIMD level or scratch; `BlockDecodes`: that
function is inverted by `UnpackedBlock`; `CallsReturn`. *Of `block64`.* `Lossless64`,
`LayoutAgrees64`, and `CapacityTrusted`: no layout asks for more than `MaxBlockLength64`
reserved.
*Of `goroutines`.* `BothLossless`: each goroutine's compressor still implements
`LosslessStore`, although every phase of one may fall between any two phases of the other.
*Of `lane_kernels`.* `PayloadCanonical` and `ReadersAgree` as above; `AccumulatorHoldsStream`,
the loop invariant of the scalar kernels; `StoresInside`: no kernel stores outside the
payload, which the Go compiler does not check for it. Every unpack decodes all `blockSize` slots,
as its callers ask; `ReadersAgree` covers those past the slice too, which come out as zero
whatever `dst` held. *Of `delta_kernels`.*
`KernelsEncode`, `KernelsDecode`, and `FirstOverflowReported`: masks per row of vectors
find the overflow that the scalar loops find; their invariant `DeltaInv` was checked on this
instance too, and is left out of the run because it takes three minutes. *Of `vector_passes`.* `LanesCover`, the loop
invariant of the reductions; `ElementsOnce`, that of the maps; `LevelsAgree`. *Of `readers`.*
`ReadsValidated`; `UnpackedIsGettable`: a block that Unpack accepts gives Get each of its
values, with the same exceptions; `SkipsWholeBlock`: BlockLength skips what Unpack
consumes; `TruncatedGetIsExact`: a Get that succeeds on a truncated block is right. *Of
`append_stream`.* `Implements`: the refinement of `BlockStream`, with its liveness;
`SnapshotKept`: bytes that were handed out stay; `GrowthAmortized`: the documented cost of growing.

*Bounds.* One or two calls of Compress (`MaxCalls`) are enough because a Compress
resets everything except scratch, and scratch starts with garbage: a second call
only adds contents that calls leave behind, which is what `block32_reuse` is for.
Reads are unbounded. `MCBlock64` excludes upper halves that take a four-byte base,
because there `Lossless64` fails (finding 1); every other width of base occurs, and
`IsPack` excludes the same pairs from `AppendStream`. Three calls are enough there: the first
may or may not reallocate, the second packs behind a block that the first left, in its array
or in a new one, and the bound on the bytes copied is exceeded at the third call if the buffer
grows by a fixed quantum (`newCap_Exact`). The kernels' runs have no bound on steps: a
behaviour is one pack, or one pass, and ends. `MCReaders` changes one field at a time,
because each check of a reader looks at one field and the length.

*Fairness.* `WF_vars(Pack \/ Unpack)` in `Block32`: a call, once made, is a sequential
function that runs on to its return. No call has to be made, so `Call` is not fair. Only
`CallsReturn` uses it. `WF_vars(ReadBlock)` in `AppendStream`: a caller that began to walk
through its slice goes on; it has to come to the end because a block always has a positive
length and is always found, which is what `Implements` says. Packs are not fair there: a
reader must not depend on them.

*Deadlock* is checked in the runs of `Block32`, `Goroutines`, `Block64` and `AppendStream`: an
idle compressor always accepts a call or a read. A behaviour of the kernels' modules and of
`Readers` is a fixed sequence of calls that really ends.

## 5. Findings

1. **Pairs of blocks whose upper halves take a four-byte FOR base cannot be read
   back** (`uint64.go:174`). Block 2 is packed without the combine bit. With
   forWidth 3 its header is that of a FOR64 block (`isFor64SingleBlock`), so
   readers skip an eight-byte base where four bytes were written, find the block too
   short and return `ErrInvalidBuffer`. `utlpfor.ksy:36-37` specifies the four-byte base
   "in either sub-block". The run needs slices with smallest upper half ≥ 2^16 and a
   range ≥ 2^32; nanosecond timestamps over more than 4.3 seconds are such.
2. **Zero allocation needs more than `ScratchLen64`** (`uint64.go:166, 174, 323`):
   with NoInPlace or Append the narrow and the paired layout pass 128 words of
   workspace where `packBlock` wants 256 and allocates (`scalar.go:131-134`), contrary to
   `uint64.go:273-275`. The allocation is also what keeps block 1's high bits off the
   waiting upper halves: giving the pair a workspace of 256 words without moving the
   regions breaks `Lossless64` (`pairSpace_Both`).
3. **Get walks a lane past its eight words when a header claims more than 128 values**
   (`get.go:258`). `getUint32Scalar` compares the position with count, but never count with
   128. In a delta block of a width below 20 a position of 128 to 143 is row 8, which does not
   exceed the threshold for unpacking all (`get.go:31`), and `laneValues` has eight words: a
   run-time panic, where `corrupt_test.go:318-319` says that Get may not panic "regardless of
   input". The unpack prologue turns the header away (`unpack_block.go:92`), and so does
   `BlockLength`. `ReadsValidated` holds for all blocks whose count is at most 128.

Three differences that no property calls wrong: below the threshold Get adds up a lane
without looking for the overflow that Unpack reports (the values of blocks that a packer wrote
do not overflow); `BlockLength` rejects reserved bits that Unpack ignores; and of a block with
count 0 Unpack consumes four bytes, whatever length its header has.

## 6. Proofs

The theorems hold for every number of lanes, step width, set of inputs, flags, SIMD levels,
initial scratch and positions. They assume what the modules state:

- `DimensionAssumption`: lanes and step are positive, and the bitmap is whole bytes;
- `PowerAssumption`: powers of two up to a word are positive naturals whose exponents add, to
  which no prover gives a meaning by itself;
- `CallerAssumption`, `Caller64Assumption`, `ReaderAssumption`: arguments and buffers have their
  types; a buffer's bytes are arbitrary;
- `PassAssumption`: slices are not empty, at most a block long, of words or of double words;
- `DoublePowerAssumption`: `PowerAssumption` for powers of up to two words, as uint64 has them;
- `KernelAssumption`: the lanes fill the smallest vectors, `LaneCount % 4 = 0`, widths are at most
  a word, and slices have the values of a block; what the buffer held before is arbitrary;
- `DeltaAssumption`: a row fills SSE2 vectors, `LaneCount % 4 = 0`; slices are not empty;
- `StreamAssumption`: the parts of a pack are what `Block32` and `Block64` show a packer to choose
  (widths of whole steps, at most a block of exceptions, none at full width, StreamVByte data
  between its shortest and longest form), and a buffer's length is at most its capacity;
- `DoublingAssumption`: `2 ^ 0 = 1`, and powers of two up to the bound on calls double.

**The uint32 codec.** `Block32Proofs` proves `Spec => []Inv`.

*Why the properties are not inductive alone.* `ValuesPreserved` needs to know that
`work = "scratch"` whenever a phase writes; `NoStaleSlots` that what the kernel reads past
the values is zero, which depends on the padding and on the order of phases; `Lossless`
that the block holds exactly the encoded words. So `Inv` says what the memory holds
in each phase as a function of `stored`:

- `CallInv`: who owns the memory, and that base and flags are what the path implies;
- `PackInv`: `workValues` is `stored` minus the base; with rows above `row` already
  differenced; then `Encoded`; zigzag is off only if no difference wraps;
- `HeaderInv`: header and payload are functions of `Encoded` and the width;
- `ExceptionInv`: index and high bits, in scratch and then in the block;
- `ReadInv`: `out` is `Encoded`, with its first rows decoded, then `stored`.

The proof has one lemma per action, and under it one step per conjunct that the action can
disturb. It rests on `UTLBlockFacts`: `a % p + (a \div p) * p` restores a word, zigzag
inverts on wrapping words, differences and prefix sums invert, ranks and their
inverses in finite sets. Corollaries: `TypeCorrect`, `CallerSliceKept`,
`StaleSlotsCleared`.

*Decisions and lengths.* `Inv` leaves open which width, base and index the packer chose, as
far as every choice is lossless. `CanonicalInv` adds them: base, zigzag, width, offsets and
length are functions of `stored` and the flags in every phase. `Block32Proofs` proves it from
`Inv`, and from it `BlockIsCanonical` (the finished block *is* `PackedBlock`), `LengthBound`,
`LayoutAgrees`, `ScratchLenSuffices`, `PatchPays` and `FORPays`. The two bounds compare the
packer's estimate with the real cost: `selectBitWidth` takes the least of a finite set of
costs, the plain one among them, and the high bits that are really written take no more bytes
than the estimate of their step counts for them.
`BlockDecodes` is the lemma that `UnpackedBlock` inverts `PackedBlock`.

*Refinement.* `Block32Proofs` also proves `Spec => Lossless` from `Inv`: a step of `Compress`
or `RejectLength` is an abstract Compress, a step that returns is an abstract
Decompress or Get, by any of the three ways, and all others stutter.

**The uint64 codec.** `Inv64` says which words each region of scratch holds in each phase:
the upper halves survive the packing of block 1 and the lower halves the reading of block 2,
whatever junk `packBlock` and `unpackBlock` leave in the rest of their workspace; and that a
finished block is `FirstBlock` and `SecondBlock`, which are functions of slice and flags. From
it follow `CapacityTrusted`, `LayoutAgrees64` and `Lossless64`. The last two need `ShortUppers`:
in each slice that is split and may have a base, some upper half is below 2^16. It is a
hypothesis of these theorems and not an assumption of the module, because callers may well
violate it, and then the theorem is false (finding 1, run `block64_high_uppers`).
`Implements64` says the same of each behaviour without the hypothesis: as long as the base of
block 2 is short, what is returned is right.

**The readers.** Each reader validates for itself, so `ReadersInv` keeps per phase what has been
validated so far. The argument has three parts. In a phase that uses an index, the checks that
came before bound it, on any bytes (`ReadsValidated`). What Unpack's answer says of the buffer
is a formula on the buffer alone; Get and `BlockLength` are shown to find those facts again by
their own checks (`UnpackedIsGettable`, `SkipsWholeBlock`). And a read that was cut off never
ends in success (`TruncatedGetIsExact`). `ReadsValidated` is about blocks of at most
`blockSize` values: the lane walk of a longer one is finding 3.

**The bit-packing kernels.** The format gives each lane one stream of bits, in which row `v` begins
at bit `v * bitWidth`; word `w` of the lane is the stream's bits from `w * WordBits` on. `KernelInv`
says for each kind of loop how much of that is done: the unrolled kernels store whole words in
their order, each in vectors of lanes; the generic loops add a row's low and high bits to all
lanes; the scalar loop takes two lanes at a time through an accumulator. Three arguments carry it.
The register of an unrolled kernel is the union of the rows that its word group lists, and that is
the word, because the rows that have bits in a word are those that begin in it and the one that
spans into it (`AccumulatedWord`). The scalar accumulator is a piece of the stream, cut at one
end and joined at the other (`StreamCut`, `StreamJoin`, `RowAdded`): it never holds more than fits,
and when a word is taken out what is left is what the next word begins with; when it is read, the
refill never comes to the end of the payload with too few bits. And the tables that the
generator emitted, which are data, are compared with the layout `v * bitWidth` case by case
(`KernelTable`, `UnrolledLayout`). `ReadersAgree` then says that any reader gets what any kernel
packed, extraction of one value included, and `StoresStayInside` that a kernel stores into just the
words of its payload.

**The delta kernels.** `DeltaInv` divides the words at the loop variables: those behind are
results, those ahead are inputs. What is behind depends on the loop: the vector kernels go by
rows, the scalar encoder by lanes and downwards in each, the scalar decoder by lanes with zigzag
and by rows without. An encoder reads the word one row below, which every one of these orders
has not yet come to; a decoder reads the sum it has just left. `FirstOverflowReported` follows
because a lane is in the mask of a row exactly if its addition wraps, and the first row with a
mask, and in it the lowest lane, is the least position. That `PrefixSums` is the function its
recursion describes is shown by its eight rows, one after the other, and not by induction.

**The passes.** `PassInv` says what every accumulator stands for. A chunk is a power of two and at
most as long as the slice, so there are as many accumulators as a chunk has elements, and the
one of lane `l` holds the extremes of the elements congruent to `l`. Two things disturb this
without harm: the first chunk may be read twice, once to seed and once in the loop, and the fold
halves the number of accumulators, by which two residues become one. At the end one accumulator
is left, and it stands for the whole slice (`LanesCover`). A pass that starts from zero and not
from a value claims nothing about the minimum. The bit length of an OR is that of the maximum,
and what counts is the number of elements before `off`; a tail starts at `off` and nowhere else
(`ElementsOnce`). So all levels hand the same counts to the choice of a width, and `LevelsAgree`
is left with the choices: the loop over candidates and the running sums of the histogram are
recursions over at most nine steps. They are shown equal to `BestStep` and `excCount` by taking
the greatest step at which they would differ, which is a property of finite sets of numbers and needs
no theorem of induction.

**Appending.** `StreamInv` says where things lie. `HeapInv`: an array holds bytes of packs that were
made, and none ever shrinks. `SliceInv`: every slice lies in its array, and a call's offset is
the length of the caller's slice. `ViewInv`: what a reader holds lies in front of the offset, in
whatever array the call may write to. `RoomInv`: the room that `EnsureCapacity` has made, once,
holds whatever the call has yet to write, because a sub-block never asks for more than
`MaxBlockLength32` (`BoundedRequest` of `UTLBlockFacts`: the request counts the longest StreamVByte
data, not the real one) and the two bytes of block2Len are counted apart. So block 2 is always in
the array of block 1, the eight bytes by which FOR64 moves a header are there, and every write is
at the offset or behind it. `SnapshotKept` follows step by step. Only PackUint32 without Append
makes no room first; its offset is 0, and what it writes to is its own. `GrowthInv` carries what
the `n` arrays made so far have cost, and doubling keeps it: the bytes copied so far and those
copied now are together at most twice the old array. `GrowthAmortized` is that at the end of a call.

`BytesInv` adds what the bytes are. `Chain(s)`: slice `s` is its prefix, and from `start` on every
byte that begins a block is followed by the whole `Encoded` block of one call, behind which the
slice ends or the next block begins. `CopyInv`: what the call has in front of its offset, in its own
array, is what the caller's slice holds, so that it does not matter whether Append has reallocated.
`PackedInv`: what the phases of a call have written so far, byte by byte; `Open` leaves out the two
bytes of block2Len, which `LinkBlocks` fills in when block 2 stands behind them. That the header of
FOR64 moves forward over its own tail is a matter of one order of three overlapping writes
(`WrappedStands`). At the return the open block is `Encoded`, and the chain is one longer
(`ExtendedChain`). `WalkInv`: a reader stands where a block begins or the slice ends, and what
walking from `start` finds is what it has `seen`, followed by what walking on finds.

`StreamSafety` is the refinement of `BlockStream` but for its fairness: the calls that a walk finds in the
caller's slice are `blocks`, those in the reader's are `view`. Three things carry it. A whole block
is read as itself wherever it stands (`FoundBlock`): its first bytes decide `BlockLengthAt`, and that is the
length of what the call wrote. A slice whose bytes stay is walked in the same way (`ChainStays`). And two
walks over the same places differ by what they find at the end (`WalksAgree`). `Walk` is a recursive
function over the places of a slice: that it exists, and that it is what its equation says, is
shown from the end of the slice, by the greatest place at which it would fail, as for the
histogram; no theorem of induction is used. Growing and the phases of a call leave both streams alone; only `ReturnSlice` adds a block, and only a pack
without Append discards them, which nobody may do while someone reads.

**Two goroutines.** `SharedInvariance` shows that in `Goroutines` the `Inv` of the first goroutine holds at
every step of either, and `FirstLossless` that its compressor implements `LosslessStore` there: the
first conjunct of `BothLossless`. A compressor with nothing packed yet has no `Inv`, because `stored` says
nothing while the shared slice is being filled; hence `Untouched` until its first Compress. `CompressStep` needs no
more than `Ready`, what an untouched compressor has, so the proofs of `Block32` serve again. What makes the two
independent is `OtherStep`: whatever phase the second is in, and whatever its blocks
hold, its `work` is its own scratch whenever it writes (`OtherInv`), so the slice stays.

*Only model-checked, and why.* `CallsReturn` and the fairness of `AppendStream!Implements`, that a
reader comes to the end, are liveness, which is out of the prover's reach; the safety half of
`Implements` is `StreamSafety`. The second conjunct of
`BothLossless`, the goroutine that is handed a block, stays with TLC: after `HandOver` it reads a
block that it did not pack, and the base, the width and the flags that its own variables hold are
not those of that block, so `Inv` does not hold of them and would have to speak of the call that
packed the block instead.

## 7. Not modelled, and the plan

*Not modelled, and why.*

- The content of StreamVByte bytes: an external library (`mhr3/streamvbyte`). The number of its
  bytes is `svbDataLen`; `Readers` has the control codes as far as they decide which bytes are read.
- The choice of `simdLevel` from CPU features and build tags: it reads the machine. Its result is
  any member of `Levels`, constant from then on.
- The bit positions of header fields: `encodeHeader` and `decodeHeader` are a record; the reserved
  bits are fields of it in `Readers`. `Header`, which returns these fields, changes nothing.
- The text of generated code: `internal/gen` prints it. What the printed code computes is `LaneKernels`.
- `unsafe` pointer arithmetic: `StoresInside` and `ReadsValidated` say which words and bytes are
  touched, not how they are addressed.
- One compressor shared by goroutines, which `compressor.go:8` forbids.
- The benchmark tools in `internal/benchfmt` and `internal/threshold`.
- Error messages, and `totalBlockCost`, which only tests call.

*Theorem to prove next:* the second conjunct of `BothLossless`, with an `Inv` whose base, width and
flags are those of the call that packed the block, whoever made it.

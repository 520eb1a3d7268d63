----------------------------- MODULE ReadersInv -----------------------------
(***************************************************************************)
(* The inductive invariant of Readers: what each phase of a call may take  *)
(* as validated, and what an Unpack that has succeeded says of the buffer, *)
(* which Get and BlockLength find again by checks of their own.            *)
(***************************************************************************)
EXTENDS Readers

(* The ends of the payload and of the block x, as its readers compute      *)
(* them; a64 says whether they are those of the uint64 functions.          *)
BaseBytesOf(x, a64) ==
  IF a64 /\ isFor64SingleBlock(x) THEN for64BaseSize ELSE forBaseBytes(x.forWidth)

PayloadEndOf(x, a64) ==
  payloadOffset(BaseBytesOf(x, a64), x.excCount > 0, a64 /\ x.combine)
    + utlPayloadBytes(x.bitWidth)

BlockEndOf(x, a64) ==
  IF x.excCount > 0 THEN PayloadEndOf(x, a64) + excIndexSize(x.excCount) + x.svbLen
                    ELSE PayloadEndOf(x, a64)

IsPair == api64 /\ src.first.combine
Whole  == IF part = 1 THEN src.len ELSE src.block2Len

(* Unpack's checks of a header in a slice of w bytes, of the StreamVByte   *)
(* bytes and of the sums, on a block that is not empty.                    *)
HeaderPasses(x, w, a64) ==
  /\ headerBytes <= w /\ BlockEndOf(x, a64) <= w
  /\ x.intType \in IF a64 THEN {IntTypeUint64} ELSE {IntTypeUint32, IntTypeUint16}
  /\ x.count \in 1 .. blockSize
  /\ x.bitWidth <= WordBits

StreamPasses(x) == x.excCount > 0 => x.excCount <= x.count /\ WellFormedStream(x)
SumsPass(x)     == ~(x.delta /\ ~x.zigzag /\ x.wraps /\ x.count > LaneCount)

Accepted(x, w, a64) == HeaderPasses(x, w, a64) /\ StreamPasses(x) /\ SumsPass(x)

(* The exceptions that Unpack patches into the lane L. *)
TargetIn(x, p) == IF x.count = blockSize THEN p % blockSize ELSE IF p < x.count THEN p ELSE -1
BitsOf(x)      == {p \in x.bitmap : p < x.count}

ListPatch(x, L) ==
  [p \in L |-> {r \in 0 .. x.excCount - 1 : TargetIn(x, x.positions[r]) = p}]
BitmapPatch(x, L) ==
  [p \in L |-> IF Cardinality(BitsOf(x)) <= x.excCount /\ p \in BitsOf(x)
               THEN {Rank(BitsOf(x), p)} ELSE {}]

UnpackPatch(x, L) ==
  IF x.excCount = 0 THEN [p \in L |-> {}]
  ELSE IF x.excCount <= excBitmapThreshold THEN ListPatch(x, L) ELSE BitmapPatch(x, L)

PatchOf(x) == UnpackPatch(x, DOMAIN NoPatch)

-----------------------------------------------------------------------------
InUnpack == {"decodeSVB", "patch", "sums", "unpacked"}
InGet    == {"direct", "lane", "laneExceptions", "full", "got", "panic"}

CallInv ==
  /\ src.len \in Nat /\ src.block2Len \in Nat
  /\ IsBlock(src.first) /\ IsBlock(src.second)
  /\ pc \in {"call", "Unpack", "Get"} \cup InUnpack \cup InGet
  /\ pc # "call" => call \in {1, 2}
  /\ pc \in {"Get"} \cup InGet => call = 2
  /\ DOMAIN answers = 1 .. 3
  /\ DOMAIN touched = DOMAIN Untouched
  /\ touched.src \in Int /\ touched.high \in Int /\ touched.lane \in Int

(* What a phase may rely on when it uses an index. *)
ValidatedInv ==
  /\ pc = "Unpack" => touched.src = -1 \/ b.count > 0
  /\ call = 2 /\ pc \in {"Unpack"} \cup InUnpack \cup InGet => pos \in 0 .. b.count - 1
  /\ pc \in InGet => b.bitWidth <= WordBits
  /\ pc \in {"decodeSVB", "patch"} => limit = BlockEndOf(b, api64) /\ b.excCount > 0
  /\ pc \in InUnpack => b.count <= blockSize
  /\ pc = "patch" => b.excCount <= b.count

(* An Unpack on its way, alone or as a part of Get. *)
UnpackInv ==
  /\ pc \in {"Unpack", "Get", "decodeSVB", "patch", "direct", "lane", "laneExceptions", "full"}
       => patch = NoPatch
  /\ pc \in InUnpack /\ b.count > 0 =>
       /\ HeaderPasses(b, window, api64)
       /\ pc # "decodeSVB" => StreamPasses(b)
       /\ pc \in {"sums", "unpacked"} => patch = PatchOf(b)
       /\ pc = "unpacked" => SumsPass(b)
  /\ call = 1 /\ pc # "call" => window = Whole
  /\ pc # "call" /\ part = 1 => start2 = 0
  /\ pc # "call" /\ part = 2 => IsPair /\ start2 + src.block2Len <= src.len
  /\ call = 1 /\ pc # "call" /\ part = 2 /\ src.first.count > 0 =>
       Accepted(src.first, src.len, api64) /\ start2 = BlockEndOf(src.first, api64)

(* What its answer says of the buffer. *)
PairAnswer(a) ==
  /\ Accepted(src.second, src.block2Len, api64) /\ src.second.count = src.first.count
  /\ a.start2 = BlockEndOf(src.first, api64)
  /\ a.len = BlockEndOf(src.first, api64) + src.block2Len /\ a.len <= src.len
  /\ a.patch = PatchOf(src.second)

SingleAnswer(a) ==
  /\ a.start2 = 0 /\ a.len = BlockEndOf(src.first, api64)
  /\ a.patch = PatchOf(src.first)

UnpackAnswer(a) ==
  a.err = "none" /\ src.first.count > 0 =>
    /\ Accepted(src.first, src.len, api64)
    /\ IF IsPair THEN PairAnswer(a) ELSE SingleAnswer(a)

(* A Get of a value that the Unpack before it has returned cannot fail, in *)
(* any phase, and comes to the exceptions that Unpack patched in.          *)
Gettable == call > 1 /\ answers[1].err = "none" /\ pos \in 0 .. src.first.count - 1

SamePatch(x, f) == WellFormedIndex(x) => \A p \in Relevant(x) : f[p] = PatchOf(x)[p]

GetInv ==
  Gettable /\ call = 2 /\ pc # "call" =>
    /\ ~clamped /\ pc # "panic"
    /\ part = 2 => start2 = BlockEndOf(src.first, api64)
    /\ window = Whole \/ window = BlockEndOf(b, api64)
    /\ pc = "Get" => window = Whole
    /\ pc = "full" => limit = BlockEndOf(b, api64)
    /\ pc \in {"lane", "laneExceptions"} => b.delta
    /\ pc = "direct" => ~b.delta
    /\ pc = "got" => SamePatch(b, patch)

GetAnswer(a) ==
  Gettable => /\ a.err = "none" /\ a.exact /\ a.start2 = answers[1].start2
              /\ SamePatch(IF IsPair THEN src.second ELSE src.first, a.patch)

(* No Get is cut off in streams that hold what their control codes ask for. *)
StreamsHold ==
  /\ src.first.count <= blockSize /\ WellFormedStream(src.first)
  /\ src.first.combine => WellFormedStream(src.second)
  /\ IsPair => src.second.count <= blockSize

NotCutOff == StreamsHold /\ call = 2 /\ pc # "call" => ~clamped

AnswersInv ==
  /\ call > 1 => UnpackAnswer(answers[1])
  /\ call > 2 => GetAnswer(answers[2]) /\ (StreamsHold => answers[2].exact)

(* The inductive invariant.  It says which checks stand between the header *)
(* of a block and each use of an index that the buffer holds, and that the *)
(* three readers' checks accept the same blocks (unpack_block.go:49-138,   *)
(* get.go:85-159, block_length.go:8-65).                                   *)
ReadersInv ==
  /\ TypeOK /\ ReadsValidated /\ CallInv /\ ValidatedInv /\ UnpackInv
  /\ GetInv /\ NotCutOff /\ AnswersInv /\ SkipsWholeBlock
=============================================================================

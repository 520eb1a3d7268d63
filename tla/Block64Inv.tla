----------------------------- MODULE Block64Inv -----------------------------
(***************************************************************************)
(* The inductive invariant of Block64: which words the regions of scratch  *)
(* hold in each phase, and which blocks the buffer holds, in terms of the  *)
(* caller's slice alone.                                                   *)
(***************************************************************************)
EXTENDS Block64

(* The words of block 1: the differences to the base of FOR64, or the      *)
(* lower halves; and those of block 2, the upper halves.                   *)
LowerWords ==
  [i \in DOMAIN values |->
     lowerHalf(IF FitsFOR64(values) THEN values[i] - SliceMin(values) ELSE values[i])]
UpperWords == [i \in DOMAIN values |-> upperHalf(values[i])]

(* A slice that one word per value does not hold is packed as a pair.      *)
IsPair == ~FitsFOR64(values) /\ SliceMax(values) >= Modulus

(* The inner block of FOR64, and the blocks of a finished pack. *)
InnerBlock  == PackedBlock(LowerWords, flag \cup {"NoFOR"}, IntTypeUint64, FALSE)
NarrowBlock == PackedBlock(LowerWords, flag, IntTypeUint64, FALSE)
LowerBlock  == PackedBlock(LowerWords, flag, IntTypeUint64, TRUE)
UpperBlock  == PackedBlock(UpperWords, flag, IntTypeUint64, FALSE)

FirstBlock  == IF FitsFOR64(values) THEN Wrapped(InnerBlock)
               ELSE IF IsPair THEN LowerBlock ELSE NarrowBlock
SecondBlock == IF IsPair THEN UpperBlock ELSE NoBlock

(* A finished pack is in the buffer, at rest or being read. *)
Reading == {"unpackLower", "addBase", "unpackUpper", "combine", "getUpper"}
Done    == pc \in Reading \/ (pc = "idle" /\ first.count > 0)

(* The slice is the caller's, and there is one in every phase of a call.   *)
CallInv ==
  /\ values = stored /\ values \in [0 .. count - 1 -> Word64]
  /\ pc # "idle" \/ first.count > 0 => count > 0

(* The phase is one that the slice's layout goes through. *)
LayoutInv ==
  /\ pc \in {"packFor64", "wrap"} => FitsFOR64(values)
  /\ pc = "packNarrow" => ~FitsFOR64(values) /\ SliceMax(values) < Modulus
  /\ pc \in {"packLower", "packUpper", "unpackUpper", "combine", "getUpper"} => IsPair
  /\ pc = "addBase" => ~IsPair
  /\ (pc \in {"packFor64", "wrap"} \/ Done) /\ FitsFOR64(values) => min64 = SliceMin(values)

(* The regions hold the words that the next phase takes from them, those   *)
(* of block 2 also while block 1 is packed, and those of block 1 while     *)
(* block 2 is read.                                                        *)
WordsInv ==
  /\ pc \in {"packFor64", "packNarrow", "packLower", "addBase", "unpackUpper", "combine"}
       => WordsAt(lowers, count) = LowerWords
  /\ pc \in {"packLower", "packUpper"} => WordsAt(uppers, count) = UpperWords
  /\ pc = "combine" => WordsAt(middle, count) = UpperWords
  /\ pc = "getUpper" => asked \in Positions /\ asked \in DOMAIN values /\ got = LowerWords[asked]

(* The blocks are what packBlock makes of the words. *)
BlocksInv ==
  /\ ~Done /\ pc \notin {"wrap", "packUpper"} => first = NoBlock
  /\ ~Done => second = NoBlock /\ block2Len = 0
  /\ pc = "wrap" => first = InnerBlock
  /\ pc = "packUpper" => first = LowerBlock
  /\ Done => /\ first = FirstBlock /\ second = SecondBlock
             /\ block2Len = second.len /\ len = first.len + second.len

(* The inductive invariant.  It says that the upper words survive the      *)
(* packing of block 1 and the lower words the reading of block 2, and that *)
(* a block depends on the slice and the flags alone (uint64.go:152-226).   *)
Inv64 ==
  /\ TypeOK
  /\ CallInv
  /\ LayoutInv
  /\ WordsInv
  /\ BlocksInv
  /\ CapacityTrusted

(* The base of block 2 is not one of four bytes, which would make readers  *)
(* take the block for one of FOR64 (uint64.go:96).                         *)
UpperBaseShort == second.forWidth # forWidthU32

(* In a call the slice and the flags are those of some caller. *)
CallerInv ==
  pc # "idle" \/ first.count > 0 =>
    /\ values \in Inputs
    /\ \E f \in FlagSets : flag = EffectiveFlag(f) \ {"Append"}

(* Among the values of a slice that is split, one has an upper half of at  *)
(* most two bytes, if its caller has not forbidden bases: what keeps the   *)
(* base of block 2 short.                                                  *)
ShortUppers ==
  \A v \in Inputs, f \in FlagSets :
    /\ validLength(v) /\ "NoFOR" \notin f
    /\ ~(SliceMin(v) > 0 /\ SliceMax(v) - SliceMin(v) < Modulus)
    => \E i \in DOMAIN v : upperHalf(v[i]) < 2 ^ (2 * ByteBits)
=============================================================================

----------------------------- MODULE Block32Inv -----------------------------
(***************************************************************************)
(* The inductive invariant of Block32: what the shared memory holds in     *)
(* each phase, as a function of the values that were handed to Compress.   *)
(***************************************************************************)
EXTENDS Block32

Packing == {"for", "delta", "deltaRows", "select", "pad", "payload", "collect", "svb"}
Reading == {"unpack", "patch", "undelta", "walk"}

(* The words e with the first r rows decoded to those of w. *)
DecodedTo(w, e, r) ==
  [i \in DOMAIN w |-> IF i < r * LaneCount THEN w[i] ELSE e[i]]

Delta   == "Delta" \in flag
Shifted == forSubtract(stored, base)
Encoded == Encode(stored, base, Delta, zigzag)

(* From the end of the delta loop on. *)
AfterDelta == pc \in {"select", "pad", "payload", "collect"} \/ dst.count > 0

-----------------------------------------------------------------------------
CallInv ==
  /\ NoInPlace => values = stored
  /\ "Append" \in flag => NoInPlace
  /\ work = "scratch" => NoInPlace
  /\ \A i \in DOMAIN stored : base <= stored[i]
  /\ "NoFOR" \in flag => base = 0
  /\ pc \in Packing \cup Reading \/ dst.count > 0 => count > 0
  /\ pc \in {"collect", "svb"} \cup Reading => dst.count > 0
  /\ pc \in Packing \ {"collect", "svb"} => dst = NoBlock
  /\ DOMAIN dst = DOMAIN NoBlock

PackInv ==
  /\ pc = "for" => work = "values" /\ values = stored /\ base = 0 /\ ~zigzag
  /\ pc = "delta" => workValues = Shifted /\ ~zigzag
  /\ pc = "deltaRows" =>
       /\ Delta /\ row < utlValuesPerLane
       /\ NoInPlace => work = "scratch"
       /\ workValues = DeltaFrom(Shifted, row + 1)
       /\ ~zigzag => AscendingFrom(Shifted, row + 1)
  /\ pc \in {"select", "pad", "payload", "collect"} => workValues = Encoded
  /\ pc = "payload" =>
       \A i \in Pos : KernelInput(i) = IF i \in DOMAIN stored THEN Encoded[i] ELSE 0
  /\ AfterDelta /\ Delta /\ ~zigzag => AscendingFrom(Shifted, 1)
  /\ pc \in {"pad", "payload"} \/ dst.count > 0 =>
       /\ nExc = excCount(Encoded, bitWidth)
       /\ "NoPatch" \in flag => nExc = 0

(* The header and the payload of a block that has been written. *)
HeaderInv ==
  dst.count > 0 =>
    /\ dst.count = count /\ dst.bitWidth = bitWidth /\ dst.excCount = nExc
    /\ dst.intType = IntTypeUint32 /\ ~dst.combine
    /\ dst.delta = Delta /\ dst.zigzag = zigzag
    /\ dst.base = base /\ dst.forWidth = selectFORWidth(base)
    /\ dst.pOff = readOffset(dst, FALSE) /\ dst.svbLen \in Nat
    /\ dst.payload = [i \in Pos |-> IF i \in DOMAIN stored
                                    THEN Encoded[i] % 2 ^ bitWidth ELSE 0]

IndexWritten ==
  IF nExc <= excBitmapThreshold
  THEN dst.positions = ExcPositions(Encoded, bitWidth)
  ELSE dst.bitmap = Exceptions(Encoded, bitWidth)

(* The exceptions, on their way through scratch and in the block. *)
ExceptionInv ==
  /\ pc \in {"collect", "svb"} => nExc > 0
  /\ pc = "svb" =>
       /\ IndexWritten
       /\ \A r \in 0 .. nExc - 1 :
            scratch[highBitsOff + r] = HighBits(Encoded, bitWidth)[r]
  /\ pc \in {"idle"} \cup Reading /\ dst.count > 0 =>
       /\ dst.len = readEnd(dst, FALSE)
       /\ nExc > 0 => /\ IndexWritten /\ dst.svb = HighBits(Encoded, bitWidth)
                      /\ dst.svbLen = svbNeeded(dst)

ReadInv ==
  /\ overflow = 0
  /\ pc \in Reading => /\ asked = -1 \/ asked \in 0 .. count - 1
                       /\ asked \in {-1} \cup Positions
  /\ pc = "patch" => out = [i \in DOMAIN stored |-> dst.payload[i]]
  /\ pc = "undelta" =>
       out = IF Delta THEN DecodedTo(Shifted, Encoded, row) ELSE Encoded
  /\ pc = "walk" =>
       /\ Delta /\ asked \in 0 .. count - 1 /\ row <= asked \div LaneCount + 1
       /\ out = [v \in 0 .. asked \div LaneCount |->
                   LET i == (asked % LaneCount) + v * LaneCount
                   IN  IF v < row THEN Shifted[i] ELSE Encoded[i]]

Inv == TypeOK /\ CallInv /\ PackInv /\ HeaderInv /\ ExceptionInv /\ ReadInv

-----------------------------------------------------------------------------
(* What Inv leaves open: that every field of the block, and every decision *)
(* on the way to it, is a function of the stored values and the flags.     *)

(* The phases after a decision has been taken. *)
AfterFOR    == pc \in Packing \ {"for"} \/ dst.count > 0
AfterSelect == pc \in {"pad", "payload"} \/ dst.count > 0

DecisionInv ==
  /\ AfterFOR => base = FORBase(stored, flag)
  /\ pc = "deltaRows" => zigzag = ~AscendingFrom(Shifted, row + 1)
  /\ AfterDelta => zigzag = (Delta /\ ~AscendingFrom(Shifted, 1))
  /\ AfterSelect => bitWidth = IF "NoPatch" \in flag THEN selectBitWidthNoPatch(Encoded)
                                                    ELSE selectBitWidth(Encoded)

(* The fields that are not written, or not yet. *)
UnwrittenInv ==
  /\ dst = [k \in DOMAIN dst |-> dst[k]]
  /\ dst.count > 0 =>
       /\ dst.special = ("Special" \in flag) /\ dst.combine = FALSE
       /\ pc \in {"collect", "svb"} \/ nExc = 0 => dst.svb = NoValues /\ dst.svbLen = 0
       /\ pc = "collect" \/ nExc = 0 \/ nExc > excBitmapThreshold => dst.positions = NoValues
       /\ pc = "collect" \/ nExc <= excBitmapThreshold => dst.bitmap = {}

(* The words outlive the collection of their exceptions, and a block is    *)
(* either there or not.                                                    *)
KeptInv ==
  /\ pc = "svb" => workValues = Encoded
  /\ dst.count > 0 \/ dst = NoBlock

CanonicalInv == Inv /\ DecisionInv /\ UnwrittenInv /\ KeptInv

-----------------------------------------------------------------------------
(* The bytes of a block depend on the values and the format's flags alone: *)
(* not on the dispatched kernels, on NoInPlace or Append, or on what       *)
(* earlier calls left in scratch (simd_bitexact_test.go).                  *)
BlockIsCanonical ==
  pc = "idle" /\ dst.count > 0 =>
    dst = PackedBlock(stored, flag, IntTypeUint32, FALSE)

(* What the block stands for, read as a whole: the phases of an unpack and *)
(* of a Get, which Lossless is about, decode no more and no less than      *)
(* this, on which the uint64 codec relies for its two halves.              *)
BlockDecodes ==
  pc = "idle" /\ dst.count > 0 => UnpackedBlock(dst, FALSE) = Ok(stored)
=============================================================================

----------------------------- MODULE Goroutines -----------------------------
(***************************************************************************)
(* Two goroutines, each with a compressor of its own as the documentation  *)
(* asks (compressor.go:7-8), that pack the same slice of values at the     *)
(* same time, under NoInPlace or Append, and read their blocks or the      *)
(* other's block.  What they share is the slice, the block that one hands  *)
(* to the other, and simdLevel; every phase of one may fall between any    *)
(* two phases of the other.                                                *)
(*                                                                         *)
(* The variables of Block32 are the first goroutine's; the second's end    *)
(* in 2.                                                                   *)
(***************************************************************************)
EXTENDS Block32

(* What packs of a slice that is shared ask for. *)
SharingFlags == {f \in FlagSets : f \cap {"NoInPlace", "Append"} # {}}

VARIABLES pc2, flag2, scratch2, work2, row2, base2, zigzag2, bitWidth2, nExc2,
          packInput2, dst2, asked2, out2, overflow2, res2, stored2, calls2

first  == <<pc, flag, scratch, work, row, base, zigzag, bitWidth, nExc,
            packInput, dst, asked, out, overflow, res, stored, calls>>
second == <<pc2, flag2, scratch2, work2, row2, base2, zigzag2, bitWidth2, nExc2,
            packInput2, dst2, asked2, out2, overflow2, res2, stored2, calls2>>
shared == <<simdLevel, values>>

Other == INSTANCE Block32 WITH
  pc <- pc2, flag <- flag2, scratch <- scratch2, work <- work2, row <- row2,
  base <- base2, zigzag <- zigzag2, bitWidth <- bitWidth2, nExc <- nExc2,
  packInput <- packInput2, dst <- dst2, asked <- asked2, out <- out2,
  overflow <- overflow2, res <- res2, stored <- stored2, calls <- calls2

BothInit == Init /\ Other!Init

(* The slice is filled before either goroutine packs it. *)
Fill(v) ==
  /\ values = NoValues /\ validLength(v)
  /\ values' = v
  /\ UNCHANGED <<simdLevel, first, second>>

FirstRuns ==
  /\ \/ \E f \in SharingFlags : Compress(values, f)
     \/ Decompress
     \/ \E pos \in Positions : Get(pos)
     \/ Pack
     \/ Unpack
  /\ UNCHANGED second

SecondRuns ==
  /\ \/ \E f \in SharingFlags : Other!Compress(values, f)
     \/ Other!Decompress
     \/ \E pos \in Positions : Other!Get(pos)
     \/ Other!Pack
     \/ Other!Unpack
  /\ UNCHANGED first

(* The second goroutine reads on in the block of the first, which keeps    *)
(* reading it as well.                                                     *)
HandOver ==
  /\ pc = "idle" /\ dst.count > 0 /\ pc2 = "idle"
  /\ dst2' = dst /\ stored2' = stored /\ res2' = Ok(NoValues)
  /\ UNCHANGED <<shared, first, pc2, flag2, scratch2, work2, row2, base2, zigzag2,
                 bitWidth2, nExc2, packInput2, asked2, out2, overflow2, calls2>>

BothNext ==
  (\E v \in Inputs : Fill(v)) \/ FirstRuns \/ SecondRuns \/ HandOver

BothSpec == BothInit /\ [][BothNext]_<<shared, first, second>>

-----------------------------------------------------------------------------
(* However their phases interleave, each of the two gets back the slice    *)
(* that both packed: neither is disturbed by what the other does with the  *)
(* values, and a block serves two readers (compressor.go:7-8, 34-36;       *)
(* pack.go:63-66).                                                         *)
BothLossless == Lossless /\ Other!Lossless
=============================================================================

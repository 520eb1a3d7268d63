-------------------------- MODULE AppendStreamInv --------------------------
(***************************************************************************)
(* The inductive invariant of AppendStream: which bytes an array may hold, *)
(* where the slices of the caller, of a call and of the reader lie, that   *)
(* Append's room suffices for what is yet to be written, and what growing  *)
(* has cost so far.                                                        *)
(***************************************************************************)
EXTENDS AppendStream

(* Powers of two up to the bound on calls double.                          *)
ASSUME DoublingAssumption ==
  /\ 2 ^ 0 = 1
  /\ \A k \in 0 .. MaxCalls : 2 ^ k \in Nat /\ 2 ^ (k + 1) = 2 * 2 ^ k

-----------------------------------------------------------------------------
FieldNames == {"prefix", "header", "header64", "svbLen", "base", "base64", "block2Len",
               "payload", "index", "svb"}

(* A byte of the prefix, or of a sub-block that some call has packed. *)
Byte ==
  {Junk} \cup
  {t \in Nat \X Nat \X FieldNames \X Nat :
     t[3] # "prefix" =>
       t[1] \in 1 .. call /\ requests[t[1]].pack \in Packs
         /\ t[2] \in DOMAIN requests[t[1]].pack.parts}

HeapInv ==
  /\ requests \in Seq([pack : Packs \cup {NoPack}, append : BOOLEAN]) /\ call <= MaxCalls
  /\ heap \in Seq({heap[a] : a \in DOMAIN heap})
  /\ \A a \in DOMAIN heap : Capacity(a) \in Nat /\ heap[a] \in [0 .. Capacity(a) - 1 -> Byte]

(* A slice from the beginning of an array, or none. *)
IsSlice(s) ==
  /\ s \in [arr : 1 .. Len(heap), off : Nat, len : Nat] /\ s.off + s.len <= Capacity(s.arr)

InCall == pc \in {"first", "wrap", "second", "link", "return"}

SliceInv ==
  /\ IsSlice(dst) /\ dst.off = 0 /\ start \in 0 .. dst.len
  /\ IF pc = "idle" THEN work = NoSlice /\ off = 0 /\ block1 = NoSlice /\ block2 = NoSlice
     ELSE /\ IsSlice(work) /\ work.off = 0 /\ off = dst.len /\ off <= work.len
          /\ call > 0 /\ pack \in Packs
          /\ ~appends => off = 0
  /\ IF pc \in {"idle", "ensure", "first"} THEN block1 = NoSlice ELSE IsSlice(block1)
  /\ IF pc \in {"link", "return"} /\ pack.layout = "pair" THEN IsSlice(block2) ELSE block2 = NoSlice
  /\ IF reading THEN IsSlice(view) /\ view.off = 0 /\ at \in 0 .. view.len
     ELSE view = NoSlice /\ at = 0

(* A reader's bytes lie in front of whatever a call writes, and of the     *)
(* slice that it returns.                                                  *)
ViewInv ==
  reading =>
    /\ view.arr = dst.arr => view.len <= dst.len
    /\ pc # "idle" /\ view.arr \in {work.arr, block1.arr} => view.len <= off

(* PackUint32 without Append leaves it to packBlock to find room.          *)
InPlace == appends \/ pack.layout # "uint32"

(* Once a call has room, what it has yet to pack fits.                     *)
RoomInv ==
  /\ pc \in {"idle", "ensure", "first", "wrap", "second", "link", "return"}
  /\ pc = "wrap" => pack.layout = "for64" /\ block1.len >= insertPos
  /\ pc \in {"second", "link"} =>
       /\ pack.layout = "pair"
       /\ block1.len >= payloadOffset(forBaseBytes(part(call, 1).forWidth),
                                      part(call, 1).excCount > 0, TRUE)
  /\ pc = "ensure" => InPlace
  /\ InCall /\ InPlace => Capacity(work.arr) >= off + needed(pack)
  /\ pc \in {"wrap", "second", "link", "return"} =>
       IF InPlace
       THEN /\ block1.arr = work.arr /\ block1.off = innerOff
            /\ block1.len <= MaxBlockLength32(pack.flags) + block2LenBytes
       ELSE block1.off = 0
  /\ pc \in {"link", "return"} /\ pack.layout = "pair" =>
       block2.len <= MaxBlockLength32(pack.flags)

(* What n arrays and the bytes copied into them have cost, against the     *)
(* size of the last and the length of what it holds.                       *)
Amortized(n, bytes, size, length) ==
  /\ n = 0 => bytes = 0
  /\ n > 0 => /\ bytes <= size /\ 2 ^ (n - 1) * leastNeeded <= size
              /\ size <= 2 * (length + mostNeeded)

(* The array that growth has led to.                                       *)
current == IF pc = "idle" THEN dst ELSE work

GrowthInv ==
  /\ grown \in 0 .. (IF pc = "ensure" THEN call - 1 ELSE call) /\ copied \in Nat
  /\ pc # "idle" /\ ~InPlace => grown = 0
  /\ Amortized(grown, copied, cap(current), IF pc = "idle" THEN dst.len ELSE off)

(* The inductive invariant: a call writes only behind the slice that it    *)
(* was given, within the room that was made once at its start, and growing *)
(* doubles (pack.go:26-63, uint64.go:20-44 and 120-184).                   *)
StreamInv == HeapInv /\ SliceInv /\ ViewInv /\ RoomInv /\ GrowthInv
-----------------------------------------------------------------------------
(* What the bytes are. *)

(* The first byte of what a call packed. *)
Begins(t) == t # Junk /\ t[2] = 1 /\ t[3] \in {"header", "header64"} /\ t[4] = 1

Heads(s) == {p \in start .. s.len - 1 : Begins(ByteAt(s, p))}
Ends(s)  == Heads(s) \cup {s.len}

(* Bytes stand at a place of an array, but for those that are left open.   *)
StandAt(bytes, array, j) ==
  \A k \in DOMAIN bytes : bytes[k] # Keep => heap[array][j + k - 1] = bytes[k]

(* A slice is its prefix, and whole blocks of calls, one behind the other. *)
Chain(s) ==
  /\ \A k \in 0 .. start - 1 : ByteAt(s, k) = <<0, 0, "prefix", k + 1>>
  /\ start \in Ends(s)
  /\ \A p \in Heads(s) :
       LET code == Encoded(ByteAt(s, p)[1])
       IN  p + Len(code) \in Ends(s) /\ StandAt(code, s.arr, s.off + p)

(* What the call has before it in its array is the caller's slice.         *)
CopyInv ==
  pc # "idle" => \A j \in 0 .. off - 1 : heap[work.arr][j] = heap[dst.arr][j]

(* What the phases of a call have written. *)
Open(i) == BlockBytes(call, i, <<Keep, Keep>>)

PackedInv ==
  /\ pc \in {"wrap", "second", "link"} =>
       block1.len = Len(Open(1)) /\ StandAt(Open(1), block1.arr, block1.off)
  /\ pc = "link" =>
       /\ block2.arr = block1.arr /\ block2.off = off + block1.len
       /\ block2.len = Len(Open(2)) /\ StandAt(Open(2), block2.arr, block2.off)
  /\ pc = "return" => blockLen = Len(Encoded(call)) /\ StandAt(Encoded(call), block1.arr, off)

(* The reader is between two blocks, and has found all up to there.        *)
WalkInv ==
  IF reading
  THEN /\ Chain(view) /\ at \in Ends(view) /\ seen \in Seq(Nat)
       /\ Walk(view)[start] = seen \o Walk(view)[at]
  ELSE seen = <<>>

BytesInv == StreamInv /\ Chain(dst) /\ CopyInv /\ PackedInv /\ WalkInv
=============================================================================

---------------------------- MODULE AppendStream ----------------------------
(***************************************************************************)
(* A caller appends blocks to one buffer (PackUint32 and PackUint64 with   *)
(* Append), or overwrites it, while a reader that holds the slice of an    *)
(* earlier call walks through it by BlockLength.                           *)
(*                                                                         *)
(* Memory is byte by byte: a slice is an array, an offset and a length,    *)
(* its capacity what the array has left.  A byte is known by where it      *)
(* belongs: <<call, sub-block, field, k>>.  What decides the lengths of a  *)
(* block (Block32, Block64 derive it from the values) is an input.         *)
(***************************************************************************)
EXTENDS UTLFormat, Sequences

CONSTANTS Packs,     \* what is packed: [layout, flags, parts], see IsPack
          Buffers,   \* the caller's buffers: [cap, len]
          MaxCalls   \* bound on the number of calls

(* A sub-block's header fields, and the bytes of its StreamVByte data.      *)
(* Only a block that is narrower than a word has exceptions.               *)
IsPart(b) ==
  /\ b.bitWidth \in StepWidths /\ b.forWidth \in 0 .. 3
  /\ b.excCount \in 0 .. blockSize
  /\ b.excCount > 0 => b.bitWidth < WordBits
  /\ IF b.excCount = 0 THEN b.svbLen = 0
     ELSE b.svbLen \in svbControlByteCount(b.excCount) + b.excCount .. maxSVBEncodedLen(b.excCount)

IsPack(r) ==
  LET last == IF r.layout = "pair" THEN 2 ELSE 1
  IN  /\ r.layout \in {"uint32", "for64", "narrow", "pair"}
      /\ DOMAIN r.parts = 1 .. last
      /\ \A i \in DOMAIN r.parts :
           /\ IsPart(r.parts[i])
           /\ "NoFOR" \in r.flags => r.parts[i].forWidth = forWidthNone
           /\ "NoPatch" \in r.flags => r.parts[i].excCount = 0
      /\ r.layout = "for64" => r.parts[1].forWidth = forWidthNone   \* packed with NoFOR
      /\ r.layout \in {"narrow", "pair"} => r.parts[last].forWidth # forWidthU32

ASSUME StreamAssumption ==
  /\ \A r \in Packs : IsPack(r)
  /\ \A d \in Buffers : d.cap \in Nat /\ d.len \in 0 .. d.cap
  /\ MaxCalls \in Nat

VARIABLES heap,     \* arrays of bytes, by number
          dst,      \* the caller's slice
          start,    \* where its first block begins
          requests, \* the pack of each call, and whether it appends
          pc,       \* "idle", "ensure", "first", "wrap", "second", "link", "return"
          work,     \* the callee's dst
          off,      \* where the call's block begins in it
          block1, block2, \* what packBlock returned
          reading, view, at, seen, \* the reader: its slice, position and finds
          grown, copied   \* arrays that Append replaced, bytes it copied for that

vars == <<heap, dst, start, requests, pc, work, off, block1, block2,
          reading, view, at, seen, grown, copied>>

caller == <<dst, start, requests>>
reader == <<reading, view, at, seen>>
costs  == <<grown, copied>>

NoSlice == [arr |-> 0, off |-> 0, len |-> 0]
Junk    == <<>>
Keep    == <<"keep">>

(* What is rejected has no layout. *)
NoPack == [layout |-> "rejected", flags |-> {}, parts |-> <<>>]

call == Len(requests)
pack == requests[call].pack
appends == requests[call].append

Capacity(a) == Cardinality(DOMAIN heap[a])
cap(s)      == Capacity(s.arr) - s.off

(* An array with a sequence of bytes written at i; the rest is kept. *)
Written(array, i, bytes) ==
  [j \in DOMAIN array |->
     IF j - i + 1 \in DOMAIN bytes /\ bytes[j - i + 1] # Keep THEN bytes[j - i + 1] ELSE array[j]]

(* The first k bytes of a slice. *)
Bytes(s, k) == [j \in 1 .. k |-> heap[s.arr][s.off + j - 1]]

Made(n) == [j \in 0 .. n - 1 |-> Junk]

-----------------------------------------------------------------------------
(* The bytes of sub-block i of call n. *)

part(n, i) == requests[n].pack.parts[i]
combine(n, i) == requests[n].pack.layout = "pair" /\ i = 1

Field(n, i, name, size) == [k \in 1 .. size |-> <<n, i, name, k>>]
Number(n, i, name, val) == [k \in 1 .. 2 |-> <<n, i, name, val>>]

svbLenField(n, i) ==
  IF part(n, i).excCount > 0 THEN Number(n, i, "svbLen", part(n, i).svbLen) ELSE <<>>

PayloadOnwards(n, i) ==
  Field(n, i, "payload", utlPayloadBytes(part(n, i).bitWidth))
    \o Field(n, i, "index", excIndexSize(part(n, i).excCount))
    \o Field(n, i, "svb", part(n, i).svbLen)

(* What packBlock returns; block2Len is left for its caller. *)
BlockBytes(n, i, block2Len) ==
  Field(n, i, "header", headerBytes) \o svbLenField(n, i)
    \o Field(n, i, "base", forBaseBytes(part(n, i).forWidth))
    \o (IF combine(n, i) THEN block2Len ELSE <<>>)
    \o PayloadOnwards(n, i)

(* What a whole pack amounts to, by the format. *)
Encoded(n) ==
  CASE requests[n].pack.layout \in {"uint32", "narrow"} -> BlockBytes(n, 1, <<>>)
    [] requests[n].pack.layout = "for64" ->
         Field(n, 1, "header64", headerBytes) \o svbLenField(n, 1)
           \o Field(n, 1, "base64", for64BaseSize) \o PayloadOnwards(n, 1)
    [] requests[n].pack.layout = "pair" ->
         LET second == BlockBytes(n, 2, <<>>)
         IN  BlockBytes(n, 1, Number(n, 1, "block2Len", Len(second))) \o second

-----------------------------------------------------------------------------
(* The calls. *)

needed(r) == IF r.layout = "uint32" THEN maxBlockLen32 ELSE MaxBlockLength64(r.flags)

(* Broken: the room is grown to, but the block goes to the front. *)
offset_Front(append) == 0

(* len(dst) times the Append bit. *)
offset(append) == IF append THEN dst.len ELSE 0

Init ==
  /\ \E d \in Buffers :
       /\ heap = <<[i \in 0 .. d.cap - 1 |-> IF i < d.len THEN <<0, 0, "prefix", i + 1>> ELSE Junk]>>
       /\ dst = [arr |-> 1, off |-> 0, len |-> d.len] /\ start = d.len
  /\ requests = <<>> /\ pc = "idle"
  /\ work = NoSlice /\ off = 0 /\ block1 = NoSlice /\ block2 = NoSlice
  /\ reading = FALSE /\ view = NoSlice /\ at = 0 /\ seen = <<>>
  /\ grown = 0 /\ copied = 0

(* A pack of no values, or of too many, returns before it touches dst. *)
Reject ==
  /\ pc = "idle" /\ call < MaxCalls
  /\ requests' = Append(requests, [pack |-> NoPack, append |-> FALSE])
  /\ UNCHANGED <<heap, dst, start, pc, work, off, block1, block2, reader, costs>>

(* Without Append the caller gives up what dst held; PackUint32 then hands *)
(* dst to packBlock as it is, PackUint64 makes room in any case.           *)
StartPack(r, append) ==
  /\ pc = "idle" /\ call < MaxCalls
  /\ append \/ ~reading
  /\ requests' = Append(requests, [pack |-> r, append |-> append])
  /\ work' = dst /\ off' = offset(append)
  /\ pc' = IF r.layout = "uint32" /\ ~append THEN "first" ELSE "ensure"
  /\ IF append THEN UNCHANGED <<dst, start, costs>>
     ELSE dst' = [dst EXCEPT !.len = 0] /\ start' = 0 /\ grown' = 0 /\ copied' = 0
  /\ UNCHANGED <<heap, block1, block2, reader>>

(* Broken: a new array is just long enough. *)
newCap_Exact == off + needed(pack)

newCap == IF 2 * cap(work) >= off + needed(pack) THEN 2 * cap(work) ELSE off + needed(pack)

(* Broken: what dst held is not copied. *)
Grown_Empty == Made(newCap)

Grown == Written(Made(newCap), 0, Bytes(work, off))

(* Broken: what is in front of the offset counts as room. *)
room_Whole == cap(work)

room == cap(work) - off

(* ensureCapacity32 and ensureCapacity64. *)
EnsureCapacity ==
  /\ pc = "ensure"
  /\ pc' = "first"
  /\ IF room >= needed(pack) THEN UNCHANGED <<heap, work, costs>>
     ELSE /\ heap' = Append(heap, Grown)
          /\ work' = [arr |-> Len(heap) + 1, off |-> 0, len |-> off]
          /\ grown' = grown + 1 /\ copied' = copied + off
  /\ UNCHANGED <<caller, off, block1, block2, reader>>

(* What packBlock asks ensureLen for: room for the longest StreamVByte     *)
(* encoding, of which the encoder may leave anything behind the real one.  *)
request(i) ==
  Len(BlockBytes(call, i, <<Keep, Keep>>))
    + IF part(call, i).excCount > 0
      THEN maxSVBEncodedLen(part(call, i).excCount) - part(call, i).svbLen ELSE 0

Output(i) ==
  LET bytes == BlockBytes(call, i, <<Keep, Keep>>)
  IN  bytes \o [k \in 1 .. request(i) - Len(bytes) |-> Junk]

(* packBlock into dst[j:j], which is another array when that is too short. *)
PackBlock(i, j) ==
  IF cap(work) - j >= request(i)
  THEN heap' = [heap EXCEPT ![work.arr] = Written(@, work.off + j, Output(i))]
  ELSE heap' = Append(heap, Written(Made(request(i)), 0, Output(i)))

Packed(i, j) ==
  LET n == Len(BlockBytes(call, i, <<Keep, Keep>>))
  IN  IF cap(work) - j >= request(i)
      THEN [arr |-> work.arr, off |-> work.off + j, len |-> n]
      ELSE [arr |-> Len(heap) + 1, off |-> 0, len |-> n]

innerOff == IF pack.layout = "for64" THEN off + for64BaseSize ELSE off

PackFirst ==
  /\ pc = "first"
  /\ PackBlock(1, innerOff) /\ block1' = Packed(1, innerOff)
  /\ pc' = CASE pack.layout = "for64" -> "wrap" [] pack.layout = "pair" -> "second"
             [] OTHER -> "return"
  /\ UNCHANGED <<caller, work, off, block2, reader, costs>>

insertPos == headerBytes + IF part(call, 1).excCount > 0 THEN svbLenBytes ELSE 0

(* Broken: the base is written over the header before that is moved. *)
Wrapped_BaseFirst(array) ==
  LET based == Written(array, off + insertPos, Field(call, 1, "base64", for64BaseSize))
      moved == Written(based, off, [k \in 1 .. insertPos |-> based[block1.off + k - 1]])
  IN  Written(moved, off, Field(call, 1, "header64", headerBytes))

(* wrapFor64SingleBlock: header and svbLen move to the front, the base     *)
(* goes behind them, over where they were, and the header's FOR width      *)
(* changes.                                                                *)
Wrapped(array) ==
  LET moved == Written(array, off, Bytes(block1, insertPos))
      based == Written(moved, off + insertPos, Field(call, 1, "base64", for64BaseSize))
  IN  Written(based, off, Field(call, 1, "header64", headerBytes))

WrapFor64 ==
  /\ pc = "wrap"
  /\ heap' = [heap EXCEPT ![work.arr] = Wrapped(@)]
  /\ pc' = "return"
  /\ UNCHANGED <<caller, work, off, block1, block2, reader, costs>>

PackSecond ==
  /\ pc = "second"
  /\ PackBlock(2, off + block1.len) /\ block2' = Packed(2, off + block1.len)
  /\ pc' = "link"
  /\ UNCHANGED <<caller, work, off, block1, reader, costs>>

(* writeBlock2Len, into the two bytes in front of block 1's payload. *)
LinkBlocks ==
  /\ pc = "link"
  /\ LET b == part(call, 1)
         pOff == payloadOffset(forBaseBytes(b.forWidth), b.excCount > 0, TRUE)
     IN  heap' = [heap EXCEPT ![block1.arr] =
                    Written(@, block1.off + pOff - block2LenBytes,
                            Number(call, 1, "block2Len", block2.len))]
  /\ pc' = "return"
  /\ UNCHANGED <<caller, work, off, block1, block2, reader, costs>>

blockLen == block1.len + CASE pack.layout = "for64" -> for64BaseSize
                           [] pack.layout = "pair"  -> block2.len
                           [] OTHER -> 0

(* The caller replaces its slice by what the call returns: dst[:off+len],  *)
(* or from PackUint32 without Append the block itself.                     *)
ReturnSlice ==
  /\ pc = "return"
  /\ dst' = IF pack.layout = "uint32" /\ ~appends THEN block1
            ELSE [work EXCEPT !.len = off + blockLen]
  /\ pc' = "idle"
  /\ work' = NoSlice /\ off' = 0 /\ block1' = NoSlice /\ block2' = NoSlice
  /\ UNCHANGED <<heap, start, requests, reader, costs>>

-----------------------------------------------------------------------------
(* The reader. *)

ByteAt(s, p) == heap[s.arr][s.off + p]

IsHeader(s, p) ==
  /\ p + headerBytes <= s.len
  /\ LET t == ByteAt(s, p)
     IN  /\ t # Junk /\ t[3] \in {"header", "header64"}
         /\ \A k \in 0 .. headerBytes - 1 : ByteAt(s, p + k) = [t EXCEPT ![4] = k + 1]

(* A number of two bytes, whatever stands there. *)
NumberAt(s, p) == IF ByteAt(s, p) = Junk THEN 0 ELSE ByteAt(s, p)[4]

(* Where the payload begins, from the first byte of the header. *)
offsetAt(t) ==
  LET b    == part(t[1], t[2])
      fw   == IF t[3] = "header64" THEN forWidthU32 ELSE b.forWidth
      two  == combine(t[1], t[2])
      is64 == requests[t[1]].pack.layout # "uint32"
  IN  payloadOffset(IF is64 /\ ~two /\ fw = forWidthU32 THEN for64BaseSize
                    ELSE forBaseBytes(fw), b.excCount > 0, two)

(* The slice is long enough for the lengths that BlockLength reads. *)
HasLengths(s, p) ==
  LET t == ByteAt(s, p)
  IN  /\ part(t[1], t[2]).excCount > 0 => p + headerBytes + svbLenBytes <= s.len
      /\ combine(t[1], t[2]) => p + offsetAt(t) <= s.len

(* BlockLength of the block whose header is at p. *)
BlockLengthAt(s, p) ==
  LET t == ByteAt(s, p)
      b == part(t[1], t[2])
  IN  offsetAt(t) + utlPayloadBytes(b.bitWidth)
        + (IF b.excCount > 0 THEN excIndexSize(b.excCount) + NumberAt(s, p + headerBytes) ELSE 0)
        + (IF combine(t[1], t[2]) THEN NumberAt(s, p + offsetAt(t) - block2LenBytes) ELSE 0)

(* The call whose block is the bytes from p on, 0 if they are no block.    *)
(* What is a whole block decodes to what was packed (Block32, Block64).    *)
Found(s, p) ==
  LET n     == ByteAt(s, p)[1]
      bytes == [k \in 1 .. BlockLengthAt(s, p) |-> ByteAt(s, p + k - 1)]
  IN  IF /\ IsHeader(s, p) /\ HasLengths(s, p)
         /\ p + BlockLengthAt(s, p) <= s.len /\ Encoded(n) = bytes
      THEN n ELSE 0

(* The slice that the caller holds now, also while a call appends to it. *)
OpenReader ==
  /\ ~reading
  /\ reading' = TRUE /\ view' = dst /\ at' = start /\ seen' = <<>>
  /\ UNCHANGED <<heap, caller, pc, work, off, block1, block2, costs>>

(* A reader that finds no block has to give up. *)
ReadBlock ==
  /\ reading /\ at < view.len
  /\ \E n \in {Found(view, at)} :
       /\ seen' = Append(seen, n)
       /\ at' = IF n = 0 THEN view.len ELSE at + BlockLengthAt(view, at)
  /\ UNCHANGED <<heap, caller, pc, work, off, block1, block2, reading, view, costs>>

CloseReader ==
  /\ reading /\ at = view.len
  /\ reading' = FALSE /\ view' = NoSlice /\ at' = 0 /\ seen' = <<>>
  /\ UNCHANGED <<heap, caller, pc, work, off, block1, block2, costs>>

Next ==
  \/ Reject \/ \E r \in Packs, append \in BOOLEAN : StartPack(r, append)
  \/ EnsureCapacity \/ PackFirst \/ WrapFor64 \/ PackSecond \/ LinkBlocks \/ ReturnSlice
  \/ OpenReader \/ ReadBlock \/ CloseReader

(* A caller that has begun to walk through a stream goes on. *)
Spec == Init /\ [][Next]_vars /\ WF_vars(ReadBlock)

-----------------------------------------------------------------------------
(* Properties. *)

(* A slice that was handed out keeps its bytes for as long as someone      *)
(* reads it, whatever is appended behind it meanwhile: no pack writes in   *)
(* front of its offset, neither the block that is moved eight bytes nor    *)
(* the length that is written into block 1 afterwards (pack.go:61-63,      *)
(* uint64.go:120-184).                                                     *)
SnapshotKept ==
  [][reading /\ reading' => view' = view /\ Bytes(view, view.len)' = Bytes(view, view.len)]_vars

needs       == {needed(r) : r \in Packs}
leastNeeded == CHOOSE x \in needs : \A y \in needs : x <= y
mostNeeded  == CHOOSE x \in needs : \A y \in needs : x >= y

(* "Growth is geometric so that sequential Append calls into one buffer    *)
(* amortize to O(log n) reallocations and O(n) total copy work"            *)
(* (pack.go:35-40, uint64.go:26-29).                                       *)
GrowthAmortized ==
  pc = "idle" /\ grown > 0 =>
    /\ copied <= cap(dst) /\ 2 ^ (grown - 1) * leastNeeded <= cap(dst)
    /\ cap(dst) <= 2 * (dst.len + mostNeeded)

(* The blocks that a reader of a slice finds, from each place on; what     *)
(* cannot be read counts as one block.                                     *)
Walk(s) ==
  LET walk[p \in 0 .. s.len] ==
        LET n == Found(s, p)
        IN  IF p = s.len THEN <<>> ELSE IF n = 0 THEN <<0>> ELSE <<n>> \o walk[p + BlockLengthAt(s, p)]
  IN  walk

(* The blocks of the whole slice; so does a prefix that was not kept.      *)
StreamOf(s, from) ==
  IF \A k \in 0 .. from - 1 : ByteAt(s, k) = <<0, 0, "prefix", k + 1>> THEN Walk(s)[from] ELSE <<0>>

Stream == INSTANCE BlockStream WITH
  calls   <- IF pc = "idle" THEN call ELSE call - 1,
  blocks  <- StreamOf(dst, start),
  view    <- IF reading THEN StreamOf(view, start) ELSE <<>>

(* The buffer of bytes implements the stream of blocks: each call adds its *)
(* block behind those that are there, also across reallocations, and a     *)
(* reader that skips from block to block comes to the end of its slice     *)
(* (pack.go:26-63, uint64.go:120-185, block_length.go:3-64).               *)
Implements == Stream!Spec
=============================================================================

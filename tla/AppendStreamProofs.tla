------------------------- MODULE AppendStreamProofs -------------------------
(***************************************************************************)
(* What appending promises, for buffers of any size, packs of any shape    *)
(* and any bound on calls: bytes that were handed out stay, growing costs  *)
(* what is documented, and the bytes of a slice are the blocks of the      *)
(* calls that appended to it, which is what a reader finds.                *)
(***************************************************************************)
EXTENDS AppendStreamInv, SequenceTheorems, UTLBlockFacts

-----------------------------------------------------------------------------
(* Memory. *)

(* The size of array a of the arrays h; whether they hold bytes of B; a    *)
(* slice that lies in one of them.                                         *)
SizeIn(h, a)    == Cardinality(DOMAIN h[a])
HeapOf(h, B)    ==
  /\ h \in Seq({h[a] : a \in DOMAIN h})
  /\ \A a \in DOMAIN h : SizeIn(h, a) \in Nat /\ h[a] \in [0 .. SizeIn(h, a) - 1 -> B]
SliceIn(h, s)   ==
  s \in [arr : 1 .. Len(h), off : Nat, len : Nat] /\ s.off + s.len <= SizeIn(h, s.arr)

(* Arrays are added but keep their sizes, and their bytes but for those    *)
(* of array w from i on.                                                   *)
Kept(h, g, w, i) ==
  /\ Len(h) \in Nat /\ Len(g) \in Nat /\ Len(h) <= Len(g)
  /\ \A a \in 1 .. Len(h) :
       /\ SizeIn(g, a) = SizeIn(h, a)
       /\ \A j \in 0 .. SizeIn(h, a) - 1 : a # w \/ j < i => g[a][j] = h[a][j]

(* An array of n bytes of B; one that agrees with another in front of i;   *)
(* heap g is heap h but for its array a.                                   *)
ArrayOf(A, n, B)   == A \in [0 .. n - 1 -> B]
Front(A, C, n, i)  == \A j \in 0 .. n - 1 : j < i => A[j] = C[j]
Replaced(g, h, a)  ==
  /\ g \in [1 .. Len(h) -> {g[c] : c \in DOMAIN g}]
  /\ \A c \in 1 .. Len(h) : c # a => g[c] = h[c]

(* What is written at i is a byte, and nothing in front of i changes.      *)
LEMMA WrittenFacts ==
  ASSUME NEW B, NEW n \in Nat, NEW A \in [0 .. n - 1 -> B], NEW i \in Nat,
         NEW bytes \in Seq(B \cup {Keep})
  PROVE  /\ Written(A, i, bytes) \in [0 .. n - 1 -> B]
         /\ \A j \in 0 .. n - 1 : j < i => Written(A, i, bytes)[j] = A[j]
<1>1. DOMAIN bytes = 1 .. Len(bytes) /\ Len(bytes) \in Nat
      /\ \A k \in DOMAIN bytes : bytes[k] \in B \cup {Keep}
  BY LenProperties
<1>2. DOMAIN A = 0 .. n - 1 /\ \A j \in 0 .. n - 1 : A[j] \in B
  OBVIOUS
<1> DEFINE W == [j \in 0 .. n - 1 |->
                   IF j - i + 1 \in DOMAIN bytes /\ bytes[j - i + 1] # Keep THEN bytes[j - i + 1] ELSE A[j]]
<1>3. Written(A, i, bytes) = W
  BY <1>2 DEF Written
<1>4. ASSUME NEW j \in 0 .. n - 1 PROVE W[j] \in B
  BY <1>1, <1>2
<1>5. ASSUME NEW j \in 0 .. n - 1, j < i PROVE W[j] = A[j]
  <2>1. j - i + 1 \notin 1 .. Len(bytes)
    BY <1>1, <1>5
  <2> QED BY <1>1, <2>1
<1>6. W \in [0 .. n - 1 -> B]
  BY <1>4
<1> QED BY <1>3, <1>5, <1>6

(* The size of an array is the number that its domain stops at.            *)
LEMMA ArraySize ==
  ASSUME NEW B, NEW n \in Nat, NEW A \in [0 .. n - 1 -> B]
  PROVE  Cardinality(DOMAIN A) = n
<1>1. DOMAIN A = 0 .. n - 1
  OBVIOUS
<1>2. 0 \in Int /\ n - 1 \in Int
  OBVIOUS
<1>3. Cardinality(0 .. n - 1) = IF 0 > n - 1 THEN 0 ELSE (n - 1) - 0 + 1
  BY <1>2, FS_Interval
<1> QED BY <1>1, <1>3

(* One array is replaced by one of its size. *)
LEMMA Overwrite ==
  ASSUME NEW B, NEW h, HeapOf(h, B), NEW a \in 1 .. Len(h), NEW i \in Nat,
         NEW g, Replaced(g, h, a),
         ArrayOf(g[a], SizeIn(h, a), B), Front(g[a], h[a], SizeIn(h, a), i)
  PROVE  HeapOf(g, B) /\ Kept(h, g, a, i) /\ Len(g) = Len(h)
<1> DEFINE S == {h[c] : c \in DOMAIN h}
           A == g[a]
           T == {g[c] : c \in DOMAIN g}
<1>1. h \in Seq(S) /\ \A c \in DOMAIN h : SizeIn(h, c) \in Nat /\ h[c] \in [0 .. SizeIn(h, c) - 1 -> B]
  BY DEF HeapOf
<1>2. Len(h) \in Nat /\ DOMAIN h = 1 .. Len(h)
  BY <1>1, LenProperties
<1>4. DOMAIN g = 1 .. Len(h) /\ g[a] = A /\ \A c \in 1 .. Len(h) : c # a => g[c] = h[c]
  BY DEF Replaced
<1>5. g \in [1 .. Len(h) -> T]
  BY DEF Replaced
<1>11. A \in [0 .. SizeIn(h, a) - 1 -> B] /\ \A j \in 0 .. SizeIn(h, a) - 1 : j < i => A[j] = h[a][j]
  BY DEF ArrayOf, Front
<1>6. g \in Seq(T) /\ Len(g) = Len(h)
  <2> HIDE DEF T
  <2>1. g \in Seq(T)
    BY <1>2, <1>5, SeqDef
  <2>2. DOMAIN g = 1 .. Len(g) /\ Len(g) \in Nat
    BY <2>1, LenProperties
  <2> QED BY <1>2, <1>4, <2>1, <2>2
<1>7. ASSUME NEW c \in 1 .. Len(h) PROVE SizeIn(g, c) = SizeIn(h, c)
  <2>1. CASE c = a
    <3>1. SizeIn(h, a) \in Nat
      BY <1>1, <1>2
    <3>2. Cardinality(DOMAIN A) = SizeIn(h, a)
      BY <1>11, <3>1, ArraySize
    <3> QED BY <1>4, <2>1, <3>2 DEF SizeIn
  <2>2. CASE c # a
    BY <1>4, <2>2 DEF SizeIn
  <2> QED BY <2>1, <2>2
<1>8. HeapOf(g, B)
  <2>1. ASSUME NEW c \in DOMAIN g PROVE SizeIn(g, c) \in Nat /\ g[c] \in [0 .. SizeIn(g, c) - 1 -> B]
    <3>1. c \in 1 .. Len(h)
      BY <1>4
    <3>2. SizeIn(h, c) \in Nat /\ h[c] \in [0 .. SizeIn(h, c) - 1 -> B]
      BY <1>1, <1>2, <3>1
    <3>3. SizeIn(g, c) = SizeIn(h, c)
      BY <1>7, <3>1
    <3>4. g[c] = IF c = a THEN A ELSE h[c]
      BY <1>4, <3>1
    <3> QED BY <1>11, <3>2, <3>3, <3>4
  <2> QED BY <1>6, <2>1 DEF HeapOf
<1>9. Kept(h, g, a, i)
  <2>1. ASSUME NEW c \in 1 .. Len(h), NEW j \in 0 .. SizeIn(h, c) - 1, c # a \/ j < i
        PROVE  g[c][j] = h[c][j]
    BY <1>4, <1>11, <2>1
  <2> QED BY <1>2, <1>6, <1>7, <2>1 DEF Kept
<1> QED BY <1>6, <1>8, <1>9

(* Bytes to be written; heap h after they are written into an array.       *)
ToWrite(bytes, B)              == bytes \in Seq(B \cup {Keep})
WrittenInto(g, h, a, j, bytes) == g = [h EXCEPT ![a] = Written(@, j, bytes)]

(* Bytes that are written behind i leave what is in front of it.           *)
LEMMA WriteAt ==
  ASSUME NEW B, NEW h, HeapOf(h, B), NEW a \in 1 .. Len(h), NEW i \in Nat, NEW j \in Nat, i <= j,
         NEW bytes, ToWrite(bytes, B), NEW g, WrittenInto(g, h, a, j, bytes)
  PROVE  HeapOf(g, B) /\ Kept(h, g, a, i) /\ Len(g) = Len(h)
<1> DEFINE n == SizeIn(h, a)
           A == h[a]
           W == Written(A, j, bytes)
<1>1. n \in Nat /\ A \in [0 .. n - 1 -> B]
  <2>1. a \in DOMAIN h
    BY LenProperties DEF HeapOf
  <2> QED BY <2>1 DEF HeapOf
<1> HIDE DEF n, A
<1>2. W \in [0 .. n - 1 -> B] /\ \A k \in 0 .. n - 1 : k < j => W[k] = A[k]
  <2>1. n \in Nat /\ A \in [0 .. n - 1 -> B] /\ j \in Nat /\ bytes \in Seq(B \cup {Keep})
    BY <1>1 DEF ToWrite
  <2>2. Written(A, j, bytes) \in [0 .. n - 1 -> B]
    BY <2>1, WrittenFacts, Zenon
  <2>3. ASSUME NEW k \in 0 .. n - 1, k < j PROVE Written(A, j, bytes)[k] = A[k]
    <3>1. DOMAIN bytes = 1 .. Len(bytes) /\ DOMAIN A = 0 .. n - 1
      BY <2>1, LenProperties
    <3>2. k - j + 1 \notin DOMAIN bytes
      BY <2>3, <3>1
    <3> QED BY <3>1, <3>2 DEF Written
  <2> QED BY <2>2, <2>3
<1> HIDE DEF W
<1>3. DOMAIN h = 1 .. Len(h)
  BY LenProperties DEF HeapOf
<1>4. h \in [1 .. Len(h) -> {h[c] : c \in DOMAIN h}]
  BY <1>3, LenProperties DEF HeapOf
<1>5. DOMAIN g = 1 .. Len(h) /\ g[a] = W /\ \A c \in 1 .. Len(h) : c # a => g[c] = h[c]
  BY <1>3, <1>4 DEF W, A, WrittenInto
<1>6. Replaced(g, h, a)
  <2>1. g = [c \in 1 .. Len(h) |-> g[c]]
    BY <1>3, <1>4 DEF WrittenInto
  <2> QED BY <1>5, <2>1 DEF Replaced
<1>7. ArrayOf(g[a], SizeIn(h, a), B)
  BY <1>2, <1>5 DEF n, ArrayOf
<1>8. Front(g[a], h[a], SizeIn(h, a), i)
  <2>1. ASSUME NEW k \in 0 .. n - 1, k < i PROVE k < j
    BY <1>1, <2>1
  <2> QED BY <1>2, <1>5, <2>1 DEF n, A, Front
<1> QED BY <1>6, <1>7, <1>8, Overwrite

(* An array is added behind the others. *)
LEMMA Allocate ==
  ASSUME NEW B, NEW h, HeapOf(h, B), NEW n \in Nat, NEW A \in [0 .. n - 1 -> B]
  PROVE  /\ HeapOf(Append(h, A), B) /\ \A w, i : Kept(h, Append(h, A), w, i)
         /\ Len(Append(h, A)) = Len(h) + 1 /\ Len(h) \in Nat
         /\ SizeIn(Append(h, A), Len(h) + 1) = n
<1> DEFINE S == {h[c] : c \in DOMAIN h} \cup {A}
           g == Append(h, A)
           T == {g[c] : c \in DOMAIN g}
<1>1. /\ h \in Seq({h[c] : c \in DOMAIN h})
      /\ \A c \in DOMAIN h : SizeIn(h, c) \in Nat /\ h[c] \in [0 .. SizeIn(h, c) - 1 -> B]
  BY DEF HeapOf
<1>2. Len(h) \in Nat /\ DOMAIN h = 1 .. Len(h)
  BY <1>1, LenProperties
<1>3. h \in Seq(S) /\ A \in S
  <2>1. h \in [1 .. Len(h) -> S]
    BY <1>1, <1>2, LenProperties
  <2> HIDE DEF S
  <2>2. h \in Seq(S)
    BY <1>2, <2>1, SeqDef
  <2> QED BY <2>2 DEF S
<1>4. /\ g \in Seq(S) /\ Len(g) = Len(h) + 1
      /\ \A c \in 1 .. Len(h) : g[c] = h[c]
      /\ g[Len(h) + 1] = A
  <2> HIDE DEF S
  <2> QED BY <1>3, AppendProperties
<1>5. DOMAIN g = 1 .. Len(h) + 1
  BY <1>4, LenProperties
<1> HIDE DEF g
<1>6. g \in Seq(T)
  <2>1. g \in [1 .. Len(h) + 1 -> S]
    BY <1>4, LenProperties
  <2>2. g \in [1 .. Len(h) + 1 -> T]
    BY <1>5, <2>1
  <2> HIDE DEF T
  <2> QED BY <1>2, <2>2, SeqDef
<1>7. /\ SizeIn(g, Len(h) + 1) = n
      /\ \A c \in 1 .. Len(h) : SizeIn(g, c) = SizeIn(h, c)
  <2>1. Cardinality(DOMAIN A) = n
    BY ArraySize
  <2> QED BY <1>4, <2>1 DEF SizeIn
<1>8. HeapOf(g, B)
  <2>1. ASSUME NEW c \in DOMAIN g PROVE SizeIn(g, c) \in Nat /\ g[c] \in [0 .. SizeIn(g, c) - 1 -> B]
    <3>1. CASE c = Len(h) + 1
      BY <1>4, <1>7, <3>1
    <3>2. CASE c # Len(h) + 1
      <4>1. c \in 1 .. Len(h)
        BY <1>2, <1>5, <3>2
      <4> QED BY <1>1, <1>2, <1>4, <1>7, <4>1
    <3> QED BY <3>1, <3>2
  <2> QED BY <1>6, <2>1 DEF HeapOf
<1>9. ASSUME NEW w, NEW i PROVE Kept(h, g, w, i)
  BY <1>2, <1>4, <1>7 DEF Kept
<1> QED BY <1>2, <1>4, <1>7, <1>8, <1>9 DEF g

(* A slice stays where it is. *)
LEMMA SliceStays ==
  ASSUME NEW h, NEW g, NEW w, NEW i, Kept(h, g, w, i), NEW s, SliceIn(h, s)
  PROVE  SliceIn(g, s) /\ SizeIn(g, s.arr) = SizeIn(h, s.arr)
<1>1. s \in [arr : 1 .. Len(h), off : Nat, len : Nat] /\ s.off + s.len <= SizeIn(h, s.arr)
  BY DEF SliceIn
<1>2. s.arr \in 1 .. Len(h) /\ s.arr \in 1 .. Len(g)
  BY <1>1 DEF Kept
<1>3. SizeIn(g, s.arr) = SizeIn(h, s.arr)
  BY <1>2 DEF Kept
<1>4. s \in [arr : 1 .. Len(g), off : Nat, len : Nat]
  BY <1>1, <1>2
<1> QED BY <1>1, <1>3, <1>4 DEF SliceIn

-----------------------------------------------------------------------------
(* The bytes of a pack. *)

(* The bytes that may stand in memory after the calls rs.                  *)
ByteOf(rs) ==
  {Junk} \cup
  {t \in Nat \X Nat \X FieldNames \X Nat :
     t[3] # "prefix" =>
       t[1] \in 1 .. Len(rs) /\ rs[t[1]].pack \in Packs
         /\ t[2] \in DOMAIN rs[t[1]].pack.parts}

(* What a part of a pack takes. *)
LEMMA PartFacts ==
  ASSUME NEW b, IsPart(b)
  PROVE  /\ b.excCount \in 0 .. blockSize /\ b.excCount \in Nat /\ b.svbLen \in Nat
         /\ b.excCount = 0 => b.svbLen = 0
         /\ b.svbLen <= maxSVBEncodedLen(b.excCount) /\ maxSVBEncodedLen(b.excCount) \in Nat
         /\ utlPayloadBytes(b.bitWidth) \in Nat /\ excIndexSize(b.excCount) \in Nat
         /\ excIndexSize(0) = 0
         /\ b.forWidth \in 0 .. 3 /\ forBaseBytes(b.forWidth) \in 0 .. 4
<1>1. b.bitWidth \in StepWidths /\ b.forWidth \in 0 .. 3 /\ b.excCount \in 0 .. blockSize
  BY DEF IsPart
<1>2. b.excCount \in Nat /\ blockSize \in Nat
  BY <1>1, Dimensions
<1>3. svbControlByteCount(b.excCount) \in Nat
  BY <1>2 DEF svbControlByteCount
<1>4. maxSVBEncodedLen(b.excCount) \in Nat /\ maxSVBEncodedLen(0) = 0
  <2>1. maxSVBEncodedLen(b.excCount) \in Nat
    BY <1>2, <1>3 DEF maxSVBEncodedLen
  <2>2. maxSVBEncodedLen(0) = 0
    BY DEF maxSVBEncodedLen, svbControlByteCount
  <2> QED BY <2>1, <2>2
<1>5. b.svbLen \in Nat /\ b.svbLen <= maxSVBEncodedLen(b.excCount) /\ (b.excCount = 0 => b.svbLen = 0)
  <2>1. CASE b.excCount = 0
    <3>1. b.svbLen = 0
      BY <2>1 DEF IsPart
    <3> QED BY <1>4, <2>1, <3>1
  <2>2. CASE b.excCount # 0
    <3>1. b.svbLen \in svbControlByteCount(b.excCount) + b.excCount .. maxSVBEncodedLen(b.excCount)
      BY <2>2 DEF IsPart
    <3> QED BY <1>2, <1>3, <1>4, <2>2, <3>1
  <2> QED BY <2>1, <2>2
<1>6. utlPayloadBytes(b.bitWidth) \in Nat
  <2>1. PICK si \in 0 .. 8 : b.bitWidth = StepBits * si
    BY <1>1 DEF StepWidths
  <2> QED BY <2>1, PayloadBytes, Dimensions
<1>7. excIndexSize(b.excCount) \in Nat /\ excIndexSize(0) = 0
  <2>1. excBitmapThreshold \in Nat
    BY Dimensions
  <2> QED BY <1>2, <2>1 DEF excIndexSize
<1>8. forBaseBytes(b.forWidth) \in 0 .. 4
  BY <1>1 DEF forBaseBytes, forWidthNone, forWidthU8, forWidthU16, forWidthU32
<1> QED BY <1>1, <1>2, <1>4, <1>5, <1>6, <1>7, <1>8

(* A field is a sequence of its own bytes, and a number one of two.        *)
LEMMA FieldFacts ==
  ASSUME NEW rs, NEW n \in 1 .. Len(rs), Len(rs) \in Nat, rs[n].pack \in Packs,
         NEW i \in DOMAIN rs[n].pack.parts, i \in Nat, NEW name \in FieldNames, NEW size \in Nat
  PROVE  /\ Field(n, i, name, size) \in Seq(ByteOf(rs) \cup {Keep}) /\ Len(Field(n, i, name, size)) = size
         /\ Number(n, i, name, size) \in Seq(ByteOf(rs) \cup {Keep}) /\ Len(Number(n, i, name, size)) = 2
<1> DEFINE B == ByteOf(rs) \cup {Keep}
<1>1. ASSUME NEW k \in Nat PROVE <<n, i, name, k>> \in B
  <2>1. n \in Nat
    OBVIOUS
  <2>2. <<n, i, name, k>> \in Nat \X Nat \X FieldNames \X Nat
    BY <2>1
  <2> QED BY <2>2 DEF ByteOf
<1> HIDE DEF B
<1>2. Field(n, i, name, size) \in [1 .. size -> B]
  BY <1>1 DEF Field
<1>3. Number(n, i, name, size) \in [1 .. 2 -> B]
  BY <1>1 DEF Number
<1>4. Field(n, i, name, size) \in Seq(B) /\ Number(n, i, name, size) \in Seq(B)
  BY <1>2, <1>3, SeqDef
<1>5. Len(Field(n, i, name, size)) = size
  <2>1. DOMAIN Field(n, i, name, size) = 1 .. size
    BY DEF Field
  <2> QED BY <1>4, <2>1, LenProperties
<1>6. Len(Number(n, i, name, size)) = 2
  <2>1. DOMAIN Number(n, i, name, size) = 1 .. 2
    BY DEF Number
  <2> QED BY <1>4, <2>1, LenProperties
<1> QED BY <1>4, <1>5, <1>6 DEF B

(* The arguments of a call. *)
LEMMA PackFacts ==
  ASSUME NEW r \in Packs
  PROVE  /\ r.layout \in {"uint32", "for64", "narrow", "pair"}
         /\ DOMAIN r.parts = 1 .. (IF r.layout = "pair" THEN 2 ELSE 1)
         /\ 1 \in DOMAIN r.parts
         /\ \A i \in DOMAIN r.parts :
              /\ i \in Nat /\ IsPart(r.parts[i])
              /\ "NoFOR" \in r.flags => r.parts[i].forWidth = forWidthNone
              /\ "NoPatch" \in r.flags => r.parts[i].excCount = 0
         /\ r.layout = "for64" => r.parts[1].forWidth = forWidthNone
<1>1. IsPack(r)
  BY StreamAssumption
<1>2. DOMAIN r.parts = 1 .. (IF r.layout = "pair" THEN 2 ELSE 1)
  BY <1>1 DEF IsPack
<1>3. 1 \in DOMAIN r.parts /\ \A i \in DOMAIN r.parts : i \in Nat
  BY <1>2
<1> QED BY <1>1, <1>2, <1>3 DEF IsPack

(* A sub-block is a sequence of bytes, as long as the format says.         *)
LEMMA BlockFacts ==
  ASSUME Len(requests) \in Nat, NEW n \in 1 .. Len(requests), requests[n].pack \in Packs,
         NEW i \in DOMAIN requests[n].pack.parts,
         NEW len2, len2 \in Seq(ByteOf(requests) \cup {Keep}), Len(len2) = 2
  PROVE  /\ BlockBytes(n, i, len2) \in Seq(ByteOf(requests) \cup {Keep})
         /\ Len(BlockBytes(n, i, len2))
              = payloadOffset(forBaseBytes(part(n, i).forWidth), part(n, i).excCount > 0, combine(n, i))
                  + utlPayloadBytes(part(n, i).bitWidth) + excIndexSize(part(n, i).excCount)
                  + part(n, i).svbLen
<1> DEFINE B == ByteOf(requests) \cup {Keep}
           b == part(n, i)
<1>1. IsPart(b) /\ i \in Nat
  BY PackFacts DEF part
<1>2. /\ b.excCount \in Nat /\ b.svbLen \in Nat /\ utlPayloadBytes(b.bitWidth) \in Nat
      /\ excIndexSize(b.excCount) \in Nat /\ forBaseBytes(b.forWidth) \in Nat
  BY <1>1, PartFacts
<1>3. ASSUME NEW name \in FieldNames, NEW size \in Nat
      PROVE  /\ Field(n, i, name, size) \in Seq(B) /\ Len(Field(n, i, name, size)) = size
             /\ Number(n, i, name, size) \in Seq(B) /\ Len(Number(n, i, name, size)) = 2
  BY <1>1, <1>3, FieldFacts
<1>23. \A name \in FieldNames, size \in Nat : Field(n, i, name, size) \in Seq(B) /\ Len(Field(n, i, name, size)) = size
  BY <1>3
<1>24. \A name \in FieldNames, size \in Nat : Number(n, i, name, size) \in Seq(B) /\ Len(Number(n, i, name, size)) = 2
  BY <1>3
<1>25. "header" \in FieldNames /\ "svbLen" \in FieldNames /\ "base" \in FieldNames
       /\ "payload" \in FieldNames /\ "index" \in FieldNames /\ "svb" \in FieldNames
  BY DEF FieldNames
<1>4. len2 \in Seq(B) /\ <<>> \in Seq(B) /\ Len(<<>>) = 0
  BY EmptySeq
<1> HIDE DEF B
<1> DEFINE u == forBaseBytes(b.forWidth)
           v == utlPayloadBytes(b.bitWidth)
           w == excIndexSize(b.excCount)
           x == b.svbLen
<1>22. u \in Nat /\ v \in Nat /\ w \in Nat /\ x \in Nat
  BY <1>2
<1> HIDE DEF u, v, w, x
<1> DEFINE s1 == Field(n, i, "header", headerBytes)
           s2 == svbLenField(n, i)
           s3 == Field(n, i, "base", u)
           s4 == IF combine(n, i) THEN len2 ELSE <<>>
           p1 == Field(n, i, "payload", v)
           p2 == Field(n, i, "index", w)
           p3 == Field(n, i, "svb", x)
           l2 == IF b.excCount > 0 THEN 2 ELSE 0
           l4 == IF combine(n, i) THEN 2 ELSE 0
<1>5. s1 \in Seq(B) /\ Len(s1) = 4
  BY <1>23, <1>25 DEF headerBytes
<1>6. s2 \in Seq(B) /\ Len(s2) = l2
  <2> DEFINE num == Number(n, i, "svbLen", x)
  <2>1. num \in Seq(B) /\ Len(num) = 2
    BY <1>22, <1>24, <1>25
  <2>2. s2 = IF b.excCount > 0 THEN num ELSE <<>>
    BY DEF svbLenField, x
  <2> HIDE DEF num, s2, b
  <2>3. CASE b.excCount > 0
    BY <2>1, <2>2, <2>3
  <2>4. CASE ~(b.excCount > 0)
    BY <1>4, <2>2, <2>4
  <2> QED BY <2>3, <2>4
<1>7. s3 \in Seq(B) /\ Len(s3) = u
  BY <1>22, <1>23, <1>25
<1>8. s4 \in Seq(B) /\ Len(s4) = l4
  <2>1. CASE combine(n, i)
    BY <1>4, <2>1
  <2>2. CASE ~combine(n, i)
    BY <1>4, <2>2
  <2> QED BY <2>1, <2>2
<1>9. /\ p1 \in Seq(B) /\ Len(p1) = v
      /\ p2 \in Seq(B) /\ Len(p2) = w
      /\ p3 \in Seq(B) /\ Len(p3) = x
  <2>1. p1 \in Seq(B) /\ Len(p1) = v
    BY <1>22, <1>23, <1>25
  <2>2. p2 \in Seq(B) /\ Len(p2) = w
    BY <1>22, <1>23, <1>25
  <2>3. p3 \in Seq(B) /\ Len(p3) = x
    BY <1>22, <1>23, <1>25
  <2> QED BY <2>1, <2>2, <2>3
<1>10. BlockBytes(n, i, len2) = s1 \o s2 \o s3 \o s4 \o (p1 \o p2 \o p3)
  BY DEF BlockBytes, PayloadOnwards, u, v, w, x
<1>11. payloadOffset(forBaseBytes(b.forWidth), b.excCount > 0, combine(n, i))
         = 4 + l2 + u + l4
  BY DEF payloadOffset, headerBytes, svbLenBytes, block2LenBytes, u
<1> HIDE DEF s1, s2, s3, s4, p1, p2, p3
<1>12. s1 \o s2 \in Seq(B) /\ Len(s1 \o s2) = Len(s1) + Len(s2)
  BY <1>5, <1>6, ConcatProperties
<1>13. s1 \o s2 \o s3 \in Seq(B) /\ Len(s1 \o s2 \o s3) = Len(s1 \o s2) + Len(s3)
  BY <1>7, <1>12, ConcatProperties
<1>14. s1 \o s2 \o s3 \o s4 \in Seq(B) /\ Len(s1 \o s2 \o s3 \o s4) = Len(s1 \o s2 \o s3) + Len(s4)
  BY <1>8, <1>13, ConcatProperties
<1>15. p1 \o p2 \in Seq(B) /\ Len(p1 \o p2) = Len(p1) + Len(p2)
  BY <1>9, ConcatProperties
<1>16. p1 \o p2 \o p3 \in Seq(B) /\ Len(p1 \o p2 \o p3) = Len(p1 \o p2) + Len(p3)
  BY <1>9, <1>15, ConcatProperties
<1> DEFINE front == s1 \o s2 \o s3 \o s4
           back  == p1 \o p2 \o p3
<1>17. front \o back \in Seq(B) /\ Len(front \o back) = Len(front) + Len(back)
  <2>1. front \in Seq(B) /\ back \in Seq(B)
    BY <1>14, <1>16
  <2> HIDE DEF front, back
  <2> QED BY <2>1, ConcatProperties
<1>18. Len(BlockBytes(n, i, len2)) = (4 + l2 + u + l4) + (v + w + x)
  <2>1. Len(front) = 4 + l2 + u + l4
    BY <1>5, <1>6, <1>7, <1>8, <1>12, <1>13, <1>14
  <2>2. Len(back) = v + w + x
    BY <1>9, <1>15, <1>16
  <2> QED BY <1>10, <1>17, <2>1, <2>2
<1>19. l2 \in Nat /\ l4 \in Nat
  OBVIOUS
<1> HIDE DEF b, l2, l4
<1>20. (4 + l2 + u + l4) + (v + w + x) = (4 + l2 + u + l4) + v + w + x
  BY <1>22, <1>19
<1>21. Len(BlockBytes(n, i, len2)) = (4 + l2 + u + l4) + v + w + x
  BY <1>18, <1>20
<1> QED BY <1>10, <1>11, <1>17, <1>21 DEF b, u, v, w, x, B

(* What packBlock writes for sub-block i, and that MaxBlockLength32 bounds *)
(* it, but for the length of block 2 that is written into block 1.         *)
LEMMA OutputFacts ==
  ASSUME call \in Nat, call > 0, pack \in Packs, NEW i \in DOMAIN pack.parts
  PROVE  /\ Output(i) \in Seq(ByteOf(requests) \cup {Keep}) /\ request(i) \in Nat
         /\ Len(BlockBytes(call, i, <<Keep, Keep>>)) \in Nat
         /\ Len(BlockBytes(call, i, <<Keep, Keep>>)) <= request(i)
         /\ Len(BlockBytes(call, i, <<Keep, Keep>>))
              >= payloadOffset(forBaseBytes(part(call, i).forWidth), part(call, i).excCount > 0, combine(call, i))
         /\ request(i) <= MaxBlockLength32(pack.flags) + IF combine(call, i) THEN 2 ELSE 0
<1> DEFINE B == ByteOf(requests) \cup {Keep}
           b == part(call, i)
           cc == combine(call, i)
           k2 == <<Keep, Keep>>
           bytes == BlockBytes(call, i, k2)
           len == Len(bytes)
           x == b.excCount
           m == maxSVBEncodedLen(x)
           s == b.svbLen
           u == forBaseBytes(b.forWidth)
           v == utlPayloadBytes(b.bitWidth)
           w == excIndexSize(x)
           c2 == IF cc THEN 2 ELSE 0
           l2 == IF x > 0 THEN 2 ELSE 0
<1>1. IsPart(b) /\ ("NoFOR" \in pack.flags => b.forWidth = forWidthNone)
      /\ ("NoPatch" \in pack.flags => x = 0)
  BY PackFacts DEF part, pack
<1>2. /\ x \in 0 .. blockSize /\ x \in Nat /\ s \in Nat /\ (x = 0 => s = 0) /\ s <= m /\ m \in Nat
      /\ v \in Nat /\ w \in Nat /\ (x = 0 => w = 0) /\ b.forWidth \in 0 .. 3 /\ u \in Nat
  BY <1>1, PartFacts
<1>3. k2 \in Seq(B) /\ Len(k2) = 2
  <2> HIDE DEF B
  <2>1. Keep \in B
    BY DEF B
  <2> QED BY <2>1
<1>4. call \in 1 .. Len(requests) /\ requests[call].pack \in Packs /\ i \in DOMAIN requests[call].pack.parts
      /\ Len(requests) \in Nat
  BY DEF call, pack
<1>5. bytes \in Seq(B) /\ len = payloadOffset(u, x > 0, cc) + v + w + s
  <2> HIDE DEF k2
  <2> QED BY <1>3, <1>4, BlockFacts
<1>6. payloadOffset(u, x > 0, cc) = 4 + l2 + u + c2 /\ payloadOffset(u, x > 0, FALSE) = 4 + l2 + u + 0
  BY DEF payloadOffset, headerBytes, svbLenBytes, block2LenBytes
<1>7. request(i) = len + IF x > 0 THEN m - s ELSE 0
  BY DEF request
<1>8. payloadOffset(u, x > 0, FALSE) + v + (IF x = 0 THEN 0 ELSE w + m) <= MaxBlockLength32(pack.flags)
  <2>1. b.bitWidth \in StepWidths /\ (x > 0 => b.bitWidth < WordBits)
    BY <1>1 DEF IsPart
  <2> QED BY <1>1, <1>2, <2>1, BoundedRequest
<1>9. MaxBlockLength32(pack.flags) \in Nat
  BY BoundType
<1>10. c2 \in Nat /\ l2 \in Nat
  OBVIOUS
<1> DEFINE M == MaxBlockLength32(pack.flags)
           po == payloadOffset(u, x > 0, cc)
           pf == payloadOffset(u, x > 0, FALSE)
           q == request(i)
<1> HIDE DEF B, bytes, len, m, s, u, v, w, c2, l2, x, M, po, pf, q, b, cc, k2
<1>11. /\ len \in Nat /\ q \in Nat /\ len <= q /\ len >= po /\ q <= M + c2
  <2>0. /\ len = po + v + w + s /\ po = 4 + l2 + u + c2 /\ pf = 4 + l2 + u + 0
        /\ q = len + (IF x > 0 THEN m - s ELSE 0) /\ pf + v + (IF x = 0 THEN 0 ELSE w + m) <= M
        /\ M \in Nat
    BY <1>5, <1>6, <1>7, <1>8, <1>9 DEF len, po, pf, q, M
  <2>1. CASE x > 0
    BY <1>2, <1>10, <2>0, <2>1
  <2>2. CASE x = 0
    BY <1>2, <1>10, <2>0, <2>2
  <2> QED BY <1>2, <2>1, <2>2
<1>12. Output(i) \in Seq(B)
  <2> DEFINE fill == [k \in 1 .. q - len |-> Junk]
  <2>1. Output(i) = bytes \o fill
    BY DEF Output, bytes, len, k2, q
  <2>2. q - len \in Nat /\ Junk \in B
    BY <1>11 DEF B, ByteOf
  <2>3. fill \in [1 .. q - len -> B]
    BY <2>2
  <2>4. fill \in Seq(B)
    <3> HIDE DEF fill
    <3> QED BY <2>2, <2>3, SeqDef
  <2> HIDE DEF fill
  <2> QED BY <1>5, <2>1, <2>4, ConcatProperties
<1> QED BY <1>11, <1>12 DEF q, po, len, bytes, k2, B, M, c2, cc, u, x, b

(* The room that Append makes is enough for what a call writes.            *)
LEMMA NeededFacts ==
  ASSUME NEW r \in Packs
  PROVE  /\ needed(r) \in Nat /\ MaxBlockLength32(r.flags) \in Nat
         /\ r.layout = "uint32" => MaxBlockLength32(r.flags) <= needed(r)
         /\ r.layout # "uint32" => needed(r) = 2 * MaxBlockLength32(r.flags) + 2
         /\ MaxBlockLength32(r.flags) >= 8
         /\ maxBlockLen32 \in Nat /\ needed(r) <= 2 * maxBlockLen32 + 2
<1>1. MaxBlockLength32(r.flags) \in Nat /\ maxBlockLen32 \in Nat
  BY BoundType DEF maxBlockLen32
<1>2. utlPayloadBytes(WordBits) = 32 * LaneCount /\ utlPayloadBytes(WordBits - StepBits) = 28 * LaneCount
      /\ LaneCount \in Nat \ {0} /\ blockSize = 8 * LaneCount /\ excBitmapThreshold \in Nat
  <2>1. WordBits = StepBits * 8 /\ WordBits - StepBits = StepBits * 7 /\ LaneCount \in Nat \ {0}
    BY Dimensions DEF WordBits
  <2>2. utlPayloadBytes(StepBits * 8) = 8 * (4 * LaneCount)
        /\ utlPayloadBytes(StepBits * 7) = 7 * (4 * LaneCount)
    BY PayloadBytes
  <2>3. 8 * (4 * LaneCount) = 32 * LaneCount /\ 7 * (4 * LaneCount) = 28 * LaneCount
    BY <2>1
  <2> QED BY <2>1, <2>2, <2>3, Dimensions
<1>3. forBaseBytes(forWidthU32) = 4
  BY DEF forBaseBytes, forWidthNone, forWidthU8, forWidthU16, forWidthU32
<1> DEFINE cb == svbControlByteCount(blockSize)
           T == excBitmapThreshold
<1>4. cb \in Nat
  BY <1>2 DEF svbControlByteCount
<1>5. \A f : MaxBlockLength32(f) =
        IF "NoPatch" \in f THEN 4 + (IF "NoFOR" \in f THEN 0 ELSE 4) + 32 * LaneCount
        ELSE 4 + 2 + (IF "NoFOR" \in f THEN 0 ELSE 4) + 28 * LaneCount + T + (cb + 4 * blockSize)
  BY <1>2, <1>3 DEF MaxBlockLength32, headerBytes, svbLenBytes, maxSVBEncodedLen
<1> HIDE DEF cb, T
<1>6. maxBlockLen32 = 4 + 2 + 4 + 28 * LaneCount + T + (cb + 4 * blockSize)
  BY <1>5 DEF maxBlockLen32
<1> DEFINE np == "NoPatch" \in r.flags
           fb == IF "NoFOR" \in r.flags THEN 0 ELSE 4
<1>7. MaxBlockLength32(r.flags) = IF np THEN 4 + fb + 32 * LaneCount
        ELSE 4 + 2 + fb + 28 * LaneCount + T + (cb + 4 * blockSize)
  BY <1>5
<1>8. fb \in 0 .. 4 /\ np \in BOOLEAN /\ T \in Nat
  BY <1>2 DEF T
<1> HIDE DEF np, fb
<1>9. MaxBlockLength32(r.flags) <= maxBlockLen32 /\ MaxBlockLength32(r.flags) >= 8
  <2>1. CASE np
    BY <1>2, <1>4, <1>6, <1>7, <1>8, <2>1
  <2>2. CASE ~np
    BY <1>2, <1>4, <1>6, <1>7, <1>8, <2>2
  <2> QED BY <2>1, <2>2
<1> QED BY <1>1, <1>9 DEF needed, MaxBlockLength64, block2LenBytes

-----------------------------------------------------------------------------
(* The state. *)

(* What the invariant says of requests and heap. *)
LEMMA StateFacts ==
  ASSUME HeapInv
  PROVE  /\ call \in Nat /\ call = Len(requests) /\ call <= MaxCalls /\ MaxCalls \in Nat
         /\ DOMAIN requests = 1 .. call
         /\ \A n \in 1 .. call : requests[n].pack \in Packs \cup {NoPack} /\ requests[n].append \in BOOLEAN
         /\ Len(heap) \in Nat /\ DOMAIN heap = 1 .. Len(heap)
         /\ HeapOf(heap, ByteOf(requests)) /\ Byte = ByteOf(requests)
<1> DEFINE Q == [pack : Packs \cup {NoPack}, append : BOOLEAN]
<1>1. requests \in Seq(Q) /\ call <= MaxCalls
  BY DEF HeapInv
<1>2. call \in Nat /\ call = Len(requests) /\ DOMAIN requests = 1 .. call
      /\ \A n \in 1 .. call : requests[n] \in Q
  <2> HIDE DEF Q
  <2> QED BY <1>1, LenProperties DEF call
<1>3. Byte = ByteOf(requests)
  BY DEF Byte, ByteOf, call
<1>4. HeapOf(heap, ByteOf(requests))
  BY <1>3 DEF HeapInv, HeapOf, SizeIn, Capacity
<1>5. Len(heap) \in Nat /\ DOMAIN heap = 1 .. Len(heap)
  BY <1>4, LenProperties DEF HeapOf
<1> QED BY <1>1, <1>2, <1>3, <1>4, <1>5, StreamAssumption

(* A step that leaves the calls alone. *)
LEMMA HeapStep ==
  ASSUME HeapInv, UNCHANGED requests, HeapOf(heap', ByteOf(requests))
  PROVE  HeapInv' /\ UNCHANGED <<call, pack, appends>>
<1>1. Byte' = ByteOf(requests)
  BY DEF Byte, ByteOf, call
<1>2. UNCHANGED <<call, pack, appends>>
  BY DEF call, pack, appends
<1> QED BY <1>1, <1>2 DEF HeapInv, HeapOf, SizeIn, Capacity

(* A step that makes a call. *)
LEMMA CallStep ==
  ASSUME HeapInv, call < MaxCalls, NEW p \in Packs \cup {NoPack}, NEW a \in BOOLEAN,
         requests' = Append(requests, [pack |-> p, append |-> a]), UNCHANGED heap
  PROVE  /\ HeapInv' /\ call' = call + 1 /\ pack' = p /\ appends' = a
<1> DEFINE Q == [pack : Packs \cup {NoPack}, append : BOOLEAN]
           new == [pack |-> p, append |-> a]
<1>1. requests \in Seq(Q) /\ new \in Q /\ call \in Nat /\ call = Len(requests) /\ MaxCalls \in Nat
  BY StateFacts DEF HeapInv
<1>2. /\ requests' \in Seq(Q) /\ Len(requests') = call + 1
      /\ \A n \in 1 .. call : requests'[n] = requests[n]
      /\ requests'[call + 1] = new
  <2> HIDE DEF Q, new
  <2>1. requests' = Append(requests, new)
    BY DEF new
  <2> QED BY <1>1, <2>1, AppendProperties
<1>3. call' = call + 1 /\ pack' = p /\ appends' = a
  BY <1>2 DEF call, pack, appends
<1>4. Byte \in SUBSET (Byte')
  <2> SUFFICES ASSUME NEW t \in Byte, t # Junk PROVE t \in Byte'
    BY DEF Byte
  <2>1. t \in Nat \X Nat \X FieldNames \X Nat
    BY DEF Byte
  <2>2. CASE t[3] = "prefix"
    BY <2>1, <2>2 DEF Byte
  <2>3. CASE t[3] # "prefix"
    <3>1. t[1] \in 1 .. call /\ requests[t[1]].pack \in Packs
          /\ t[2] \in DOMAIN requests[t[1]].pack.parts
      BY <2>3 DEF Byte
    <3>2. t[1] \in 1 .. call + 1 /\ requests'[t[1]] = requests[t[1]]
      BY <1>1, <1>2, <3>1
    <3> QED BY <1>3, <2>1, <3>1, <3>2 DEF Byte
  <2> QED BY <2>2, <2>3
<1>5. ASSUME NEW c \in DOMAIN heap PROVE heap[c] \in [0 .. Capacity(c) - 1 -> Byte']
  <2>1. heap[c] \in [0 .. Capacity(c) - 1 -> Byte]
    BY DEF HeapInv
  <2> QED BY <1>4, <2>1
<1>6. HeapInv'
  <2>1. requests' \in Seq(Q) /\ call' <= MaxCalls
    BY <1>1, <1>2, <1>3
  <2>2. heap' \in Seq({heap'[c] : c \in DOMAIN heap'})
    BY DEF HeapInv
  <2>3. ASSUME NEW c \in DOMAIN heap' PROVE Capacity(c)' \in Nat /\ heap'[c] \in [0 .. Capacity(c)' - 1 -> Byte']
    BY <1>5 DEF HeapInv, Capacity
  <2> QED BY <2>1, <2>2, <2>3 DEF HeapInv
<1> QED BY <1>3, <1>6

(* The bytes of a slice. *)
LEMMA BytesFacts ==
  ASSUME HeapInv, NEW s, IsSlice(s), NEW k \in Nat, s.off + k <= Capacity(s.arr)
  PROVE  Bytes(s, k) \in Seq(ByteOf(requests) \cup {Keep})
<1> DEFINE B == ByteOf(requests) \cup {Keep}
           n == Capacity(s.arr)
<1>1. /\ s.arr \in DOMAIN heap /\ s.off \in Nat /\ n \in Nat
      /\ heap[s.arr] \in [0 .. n - 1 -> ByteOf(requests)]
  BY StateFacts DEF HeapOf, SizeIn, IsSlice, Capacity
<1>2. ASSUME NEW j \in 1 .. k PROVE heap[s.arr][s.off + j - 1] \in B
  <2>1. s.off + j - 1 \in 0 .. n - 1
    BY <1>1
  <2> QED BY <1>1, <2>1
<1> HIDE DEF B, n
<1>3. Bytes(s, k) \in [1 .. k -> B]
  BY <1>2 DEF Bytes
<1>4. Bytes(s, k) \in Seq(B)
  BY <1>3, SeqDef
<1> QED BY <1>4 DEF B

(* What a reader holds stays if it lies in front of the place.             *)
LEMMA ViewStays ==
  ASSUME HeapInv, IsSlice(view), view.off = 0, UNCHANGED view,
         NEW w, NEW i, Kept(heap, heap', w, i), view.arr = w => view.len <= i, i \in Nat
  PROVE  Bytes(view, view.len)' = Bytes(view, view.len)
<1>1. view.arr \in 1 .. Len(heap) /\ view.len \in Nat /\ view.len <= SizeIn(heap, view.arr)
      /\ SizeIn(heap, view.arr) \in Nat
  BY StateFacts DEF IsSlice, SizeIn, Capacity, HeapOf
<1>2. ASSUME NEW j \in 1 .. view.len PROVE heap'[view.arr][0 + j - 1] = heap[view.arr][0 + j - 1]
  <2>1. 0 + j - 1 \in 0 .. SizeIn(heap, view.arr) - 1 /\ (view.arr = w => 0 + j - 1 < i)
    BY <1>1
  <2> QED BY <1>1, <2>1 DEF Kept
<1> QED BY <1>2 DEF Bytes

(* The empty array is made of bytes. *)
LEMMA MadeFacts ==
  ASSUME NEW n \in Nat, NEW rs
  PROVE  Made(n) \in [0 .. n - 1 -> ByteOf(rs)]
BY DEF Made, ByteOf

(* Some call needs the least room, and one the most. *)
LEMMA Extremes ==
  ASSUME NEW r \in Packs
  PROVE  /\ leastNeeded \in Nat /\ mostNeeded \in Nat
         /\ leastNeeded <= needed(r) /\ needed(r) <= mostNeeded
<1>1. needs \in SUBSET Nat /\ needed(r) \in needs /\ needs # {}
  BY NeededFacts DEF needs
<1>2. 2 * maxBlockLen32 + 2 \in Nat /\ \A y \in needs : y <= 2 * maxBlockLen32 + 2
  <2>1. maxBlockLen32 \in Nat
    BY NeededFacts
  <2>2. ASSUME NEW y \in needs PROVE y <= 2 * maxBlockLen32 + 2
    <3>1. PICK p \in Packs : y = needed(p)
      BY DEF needs
    <3> QED BY <3>1, NeededFacts
  <2> QED BY <2>1, <2>2
<1> HIDE DEF needs
<1>3. \E x \in needs : \A y \in needs : x <= y
  BY <1>1, LeastOf
<1>4. \E x \in needs : \A y \in needs : x >= y
  <2> DEFINE n == 2 * maxBlockLen32 + 2
  <2>1. n \in Nat /\ \A y \in needs : y <= n
    BY <1>2
  <2> HIDE DEF n
  <2>2. PICK x \in needs : \A y \in needs : y <= x
    BY <1>1, <2>1, GreatestOf
  <2> QED BY <1>1, <2>2
<1>5. leastNeeded \in needs /\ \A y \in needs : leastNeeded <= y
  BY <1>3 DEF leastNeeded
<1>6. mostNeeded \in needs /\ \A y \in needs : mostNeeded >= y
  BY <1>4 DEF mostNeeded
<1> QED BY <1>1, <1>5, <1>6

(* A buffer that has not grown has cost nothing. *)
LEMMA NothingCopied == \A size, length : Amortized(0, 0, size, length)
BY DEF Amortized

(* A longer slice in the same array has cost as much. *)
LEMMA LongerPays ==
  ASSUME NEW n \in Nat, NEW bytes, NEW size \in Nat, NEW l \in Nat, NEW m \in Nat, l <= m,
         mostNeeded \in Nat, Amortized(n, bytes, size, l)
  PROVE  Amortized(n, bytes, size, m)
<1> DEFINE P == 2 ^ (n - 1) * leastNeeded <= size
<1>1. /\ n = 0 => bytes = 0
      /\ n > 0 => bytes <= size /\ P /\ size <= 2 * (l + mostNeeded)
  BY DEF Amortized
<1> HIDE DEF P
<1>2. size <= 2 * (l + mostNeeded) => size <= 2 * (m + mostNeeded)
  OBVIOUS
<1>3. /\ n = 0 => bytes = 0
      /\ n > 0 => bytes <= size /\ P /\ size <= 2 * (m + mostNeeded)
  BY <1>1, <1>2
<1> QED BY <1>3 DEF P, Amortized

(* A reader's slice and its bytes are the same after a step. *)
ViewKept ==
  reading /\ reading' => view' = view /\ Bytes(view, view.len)' = Bytes(view, view.len)

(* Where a call stands. *)
LEMMA CallFacts ==
  ASSUME StreamInv, pc # "idle"
  PROVE  /\ call \in Nat /\ call > 0 /\ pack \in Packs /\ appends \in BOOLEAN
         /\ IsSlice(work) /\ work.off = 0 /\ off = dst.len /\ off \in Nat /\ off <= work.len
         /\ work.arr \in 1 .. Len(heap) /\ Capacity(work.arr) \in Nat /\ off <= Capacity(work.arr)
         /\ cap(work) = Capacity(work.arr)
         /\ ~appends => off = 0
<1>1. /\ IsSlice(work) /\ work.off = 0 /\ off = dst.len /\ off <= work.len
      /\ call > 0 /\ pack \in Packs /\ (~appends => off = 0) /\ IsSlice(dst)
  BY DEF StreamInv, SliceInv
<1>2. call \in Nat /\ appends \in BOOLEAN
  <2>1. call \in Nat /\ \A n \in 1 .. call : requests[n].append \in BOOLEAN
    BY StateFacts DEF StreamInv
  <2> QED BY <1>1, <2>1 DEF appends
<1>3. /\ off \in Nat /\ work.len \in Nat /\ work.arr \in 1 .. Len(heap)
      /\ work.off + work.len <= Capacity(work.arr)
  BY <1>1 DEF IsSlice
<1>4. Capacity(work.arr) \in Nat
  BY <1>3, StateFacts DEF StreamInv, HeapInv
<1> QED BY <1>1, <1>2, <1>3, <1>4 DEF cap

-----------------------------------------------------------------------------
(* The invariant. *)

(* A caller begins with a buffer of its own. *)
LEMMA InitStream == Init => StreamInv
<1> SUFFICES ASSUME Init PROVE StreamInv
  OBVIOUS
<1>1. PICK d \in Buffers :
        /\ heap = <<[i \in 0 .. d.cap - 1 |-> IF i < d.len THEN <<0, 0, "prefix", i + 1>> ELSE Junk]>>
        /\ dst = [arr |-> 1, off |-> 0, len |-> d.len] /\ start = d.len
  BY DEF Init
<1>2. /\ requests = <<>> /\ pc = "idle" /\ work = NoSlice /\ off = 0 /\ block1 = NoSlice
      /\ block2 = NoSlice /\ reading = FALSE /\ view = NoSlice /\ at = 0 /\ grown = 0 /\ copied = 0
  BY DEF Init
<1>3. d.cap \in Nat /\ d.len \in 0 .. d.cap /\ MaxCalls \in Nat
  BY StreamAssumption
<1> DEFINE A == [i \in 0 .. d.cap - 1 |-> IF i < d.len THEN <<0, 0, "prefix", i + 1>> ELSE Junk]
<1>4. A \in [0 .. d.cap - 1 -> Byte]
  <2>1. ASSUME NEW i \in 0 .. d.cap - 1 PROVE <<0, 0, "prefix", i + 1>> \in Byte
    <3>1. <<0, 0, "prefix", i + 1>> \in Nat \X Nat \X FieldNames \X Nat
      BY <1>3 DEF FieldNames
    <3> QED BY <3>1 DEF Byte
  <2>2. Junk \in Byte
    BY DEF Byte
  <2> QED BY <2>1, <2>2
<1>5. heap = <<A>>
  BY <1>1
<1> HIDE DEF A
<1>6. Len(heap) = 1 /\ DOMAIN heap = 1 .. 1 /\ heap[1] = A
  BY <1>5
<1>7. Capacity(1) = d.cap
  BY <1>3, <1>4, <1>6, ArraySize DEF Capacity
<1>8. HeapInv
  <2>1. requests \in Seq([pack : Packs \cup {NoPack}, append : BOOLEAN]) /\ call = 0
    BY <1>2, EmptySeq DEF call
  <2> DEFINE T == {heap[a] : a \in DOMAIN heap}
  <2>2. heap \in [1 .. 1 -> T]
    BY <1>5, <1>6
  <2>3. heap \in Seq(T)
    <3> HIDE DEF T
    <3> QED BY <2>2, SeqDef
  <2>4. \A a \in DOMAIN heap : Capacity(a) \in Nat /\ heap[a] \in [0 .. Capacity(a) - 1 -> Byte]
    BY <1>3, <1>4, <1>6, <1>7
  <2> QED BY <1>3, <2>1, <2>3, <2>4 DEF HeapInv
<1>9. SliceInv
  <2>1. IsSlice(dst)
    BY <1>1, <1>3, <1>6, <1>7 DEF IsSlice
  <2>2. dst.off = 0 /\ start \in 0 .. dst.len
    BY <1>1, <1>3
  <2> QED BY <1>2, <2>1, <2>2 DEF SliceInv
<1>10. ViewInv /\ RoomInv
  BY <1>2 DEF ViewInv, RoomInv, InCall
<1>11. GrowthInv
  <2>1. call = 0
    BY <1>2 DEF call
  <2>2. Amortized(grown, copied, cap(current), dst.len)
    BY <1>2, NothingCopied
  <2> QED BY <1>2, <2>1, <2>2 DEF GrowthInv
<1> QED BY <1>8, <1>9, <1>10, <1>11 DEF StreamInv

(* A call that is rejected. *)
LEMMA RejectStream == ASSUME StreamInv, Reject PROVE StreamInv' /\ ViewKept
<1>1. /\ pc = "idle" /\ call < MaxCalls
      /\ requests' = Append(requests, [pack |-> NoPack, append |-> FALSE])
      /\ UNCHANGED <<heap, dst, start, pc, work, off, block1, block2>>
      /\ UNCHANGED <<reading, view, at, grown, copied>>
  BY DEF Reject, reader, costs
<1>2. HeapInv' /\ call' = call + 1
  BY <1>1, CallStep DEF StreamInv
<1>3. \A s : IsSlice(s)' <=> IsSlice(s)
  BY <1>1 DEF IsSlice, Capacity
<1>4. SliceInv'
  BY <1>1 DEF StreamInv, SliceInv, IsSlice, Capacity
<1>5. ViewInv' /\ RoomInv'
  BY <1>1 DEF StreamInv, ViewInv, RoomInv, InCall
<1>6. GrowthInv'
  <2>1. call \in Nat
    BY StateFacts DEF StreamInv
  <2>2. grown \in 0 .. call /\ copied \in Nat /\ Amortized(grown, copied, cap(dst), dst.len)
    BY <1>1 DEF StreamInv, GrowthInv, current
  <2>3. cap(dst)' = cap(dst)
    BY <1>1 DEF cap, Capacity
  <2>4. Amortized(grown', copied', cap(current)', dst'.len)
    BY <1>1, <2>2, <2>3 DEF current
  <2> QED BY <1>1, <1>2, <2>1, <2>2, <2>4 DEF GrowthInv
<1>7. ViewKept
  BY <1>1 DEF ViewKept, Bytes
<1> QED BY <1>2, <1>4, <1>5, <1>6, <1>7 DEF StreamInv

(* A call begins: with Append at the end of the caller's slice, without at *)
(* the front of its array.                                                 *)
LEMMA StartStream ==
  ASSUME StreamInv, NEW r \in Packs, NEW append \in BOOLEAN, StartPack(r, append)
  PROVE  StreamInv' /\ ViewKept
<1>1. /\ pc = "idle" /\ call < MaxCalls /\ (append \/ ~reading)
      /\ requests' = Append(requests, [pack |-> r, append |-> append])
      /\ work' = dst /\ off' = IF append THEN dst.len ELSE 0
      /\ pc' = IF r.layout = "uint32" /\ ~append THEN "first" ELSE "ensure"
      /\ append => UNCHANGED <<dst, start, grown, copied>>
      /\ ~append => dst' = [dst EXCEPT !.len = 0] /\ start' = 0 /\ grown' = 0 /\ copied' = 0
      /\ UNCHANGED <<heap, block1, block2, reading, view, at>>
  BY DEF StartPack, offset, reader, costs
<1>2. HeapInv' /\ call' = call + 1 /\ pack' = r /\ appends' = append /\ call \in Nat
  <2>1. HeapInv /\ r \in Packs \cup {NoPack}
    BY DEF StreamInv
  <2> QED BY <1>1, <2>1, CallStep, StateFacts
<1>3. /\ IsSlice(dst) /\ dst.off = 0 /\ start \in 0 .. dst.len /\ dst.len \in Nat
      /\ dst \in [arr : 1 .. Len(heap), off : Nat, len : Nat] /\ dst.len <= Capacity(dst.arr)
      /\ Capacity(dst.arr) \in Nat
  <2>1. IsSlice(dst) /\ dst.off = 0 /\ start \in 0 .. dst.len
    BY DEF StreamInv, SliceInv
  <2>2. dst \in [arr : 1 .. Len(heap), off : Nat, len : Nat] /\ dst.len <= Capacity(dst.arr)
    BY <2>1 DEF IsSlice
  <2>3. Capacity(dst.arr) \in Nat
    BY <2>2, StateFacts DEF StreamInv, HeapInv
  <2> QED BY <2>1, <2>2, <2>3
<1>4. block1 = NoSlice /\ block2 = NoSlice
  BY <1>1 DEF StreamInv, SliceInv
<1>5. /\ dst' \in [arr : 1 .. Len(heap), off : Nat, len : Nat] /\ dst'.off = 0
      /\ dst'.arr = dst.arr /\ dst'.len = off' /\ dst'.len <= dst.len
      /\ start' \in 0 .. dst'.len /\ off' \in Nat
  <2>1. CASE append
    BY <1>1, <1>3, <2>1
  <2>2. CASE ~append
    BY <1>1, <1>3, <2>2
  <2> QED BY <2>1, <2>2
<1>6. Capacity(dst.arr)' = Cardinality(DOMAIN heap[dst'.arr]) /\ Cardinality(DOMAIN heap[dst.arr]) = Capacity(dst.arr)
  BY <1>1 DEF Capacity
<1>7. SliceInv'
  <2>1. IsSlice(dst)'
    BY <1>1, <1>3, <1>5 DEF IsSlice, Capacity
  <2>2. IsSlice(work)'
    BY <1>1, <1>3 DEF IsSlice, Capacity
  <2>3. pc' # "idle" /\ pc' \in {"ensure", "first"}
    BY <1>1
  <2>4. work'.off = 0 /\ off' = dst'.len /\ off' <= work'.len /\ call' > 0 /\ pack' \in Packs
        /\ (~appends' => off' = 0)
    BY <1>1, <1>2, <1>3, <1>5
  <2>5. IF reading' THEN IsSlice(view)' /\ view'.off = 0 /\ at' \in 0 .. view'.len
        ELSE view' = NoSlice /\ at' = 0
    BY <1>1 DEF StreamInv, SliceInv, IsSlice, Capacity
  <2> QED BY <1>1, <1>4, <1>5, <2>1, <2>2, <2>3, <2>4, <2>5 DEF SliceInv
<1>8. ViewInv'
  <2> SUFFICES ASSUME reading' PROVE ViewInv'
    BY DEF ViewInv
  <2>1. append /\ (view.arr = dst.arr => view.len <= dst.len) /\ view.arr # 0
    <3>1. reading /\ IsSlice(view) /\ append
      BY <1>1 DEF StreamInv, SliceInv
    <3>2. view.arr \in 1 .. Len(heap) /\ Len(heap) \in Nat
      BY <3>1, StateFacts DEF IsSlice, StreamInv
    <3> QED BY <3>1, <3>2 DEF StreamInv, ViewInv
  <2> QED BY <1>1, <1>4, <2>1 DEF ViewInv, NoSlice
<1>9. RoomInv'
  <2>1. InPlace' <=> ~(r.layout = "uint32" /\ ~append)
    BY <1>2 DEF InPlace
  <2>2. CASE r.layout = "uint32" /\ ~append
    BY <1>1, <2>1, <2>2 DEF RoomInv, InCall
  <2>3. CASE ~(r.layout = "uint32" /\ ~append)
    BY <1>1, <2>1, <2>3 DEF RoomInv, InCall
  <2> QED BY <2>2, <2>3
<1>10. GrowthInv'
  <2>1. grown \in 0 .. call /\ copied \in Nat /\ Amortized(grown, copied, cap(dst), dst.len)
    BY <1>1 DEF StreamInv, GrowthInv, current
  <2>2. InPlace' <=> append \/ r.layout # "uint32"
    BY <1>2 DEF InPlace
  <2>3. pc' \in {"ensure", "first"} /\ (pc' = "ensure" => grown' \in 0 .. call' - 1)
        /\ (pc' = "first" => grown' \in 0 .. call') /\ copied' \in Nat
    BY <1>1, <1>2, <2>1
  <2>4. Amortized(grown', copied', cap(current)', off')
    <3>1. CASE append
      <4>1. cap(current)' = cap(dst)
        BY <1>1 DEF cap, current, Capacity
      <4> QED BY <1>1, <2>1, <3>1, <4>1
    <3>2. CASE ~append
      BY <1>1, <3>2, NothingCopied
    <3> QED BY <3>1, <3>2
  <2>5. pc' # "idle" /\ ~InPlace' => grown' = 0
    BY <1>1, <2>2
  <2> QED BY <2>3, <2>4, <2>5 DEF GrowthInv
<1>11. ViewKept
  BY <1>1 DEF ViewKept, Bytes
<1> QED BY <1>2, <1>7, <1>8, <1>9, <1>10, <1>11 DEF StreamInv

(* Growing at least doubles, and makes no more room than twice what is     *)
(* held and needed.                                                        *)
LEMMA DoublingPays ==
  ASSUME NEW n \in 0 .. MaxCalls - 1, NEW bytes \in Nat, NEW size \in Nat, NEW l \in 0 .. size,
         NEW more \in Nat, more <= mostNeeded, leastNeeded <= more,
         leastNeeded \in Nat, mostNeeded \in Nat, MaxCalls \in Nat,
         Amortized(n, bytes, size, l), size < l + more,
         NEW new, new = IF 2 * size >= l + more THEN 2 * size ELSE l + more
  PROVE  /\ Amortized(n + 1, bytes + l, new, l)
         /\ new \in Nat /\ new >= l + more
<1>1. new \in Nat /\ new >= l + more /\ new >= 2 * size /\ new <= 2 * (l + mostNeeded)
  BY DEF Amortized
<1>2. bytes + l <= new
  <2>1. bytes <= size \/ bytes = 0
    BY DEF Amortized
  <2> QED BY <1>1, <2>1
<1>3. 2 ^ n * leastNeeded <= new
  <2>1. CASE n = 0
    <3>1. 2 ^ n = 1
      BY <2>1, DoublingAssumption
    <3>2. 1 * leastNeeded = leastNeeded
      OBVIOUS
    <3> QED BY <1>1, <3>1, <3>2
  <2>2. CASE n # 0
    <3>1. n - 1 \in 0 .. MaxCalls /\ (n - 1) + 1 = n
      BY <2>2
    <3>2. 2 ^ (n - 1) \in Nat /\ 2 ^ n = 2 * 2 ^ (n - 1)
      BY <3>1, DoublingAssumption
    <3>3. 2 ^ (n - 1) * leastNeeded <= size
      BY <2>2 DEF Amortized
    <3> DEFINE p == 2 ^ (n - 1)
    <3>4. p \in Nat /\ 2 ^ n = 2 * p /\ p * leastNeeded <= size
      BY <3>2, <3>3
    <3> HIDE DEF p
    <3>5. (2 * p) * leastNeeded = 2 * (p * leastNeeded) /\ p * leastNeeded \in Nat
      BY <3>4
    <3> QED BY <1>1, <3>4, <3>5
  <2> QED BY <2>1, <2>2
<1>4. (n + 1) - 1 = n /\ n + 1 > 0 /\ n + 1 # 0
  OBVIOUS
<1> DEFINE P == 2 ^ n * leastNeeded <= new
<1> HIDE DEF P
<1>5. Amortized(n + 1, bytes + l, new, l)
  <2>1. P
    BY <1>3 DEF P
  <2>2. Amortized(n + 1, bytes + l, new, l) <=> bytes + l <= new /\ P /\ new <= 2 * (l + mostNeeded)
    BY <1>4 DEF Amortized, P
  <2> QED BY <1>1, <1>2, <2>1, <2>2
<1> QED BY <1>1, <1>5

(* Append makes room, in the array or in one that the call's prefix is     *)
(* copied to.                                                              *)
LEMMA EnsureStream == ASSUME StreamInv, EnsureCapacity PROVE StreamInv' /\ ViewKept
<1>1. /\ pc = "ensure" /\ pc' = "first"
      /\ IF room >= needed(pack) THEN UNCHANGED <<heap, work, grown, copied>>
         ELSE /\ heap' = Append(heap, Grown)
              /\ work' = [arr |-> Len(heap) + 1, off |-> 0, len |-> off]
              /\ grown' = grown + 1 /\ copied' = copied + off
      /\ UNCHANGED <<dst, start, requests, off, block1, block2, reading, view, at>>
  BY DEF EnsureCapacity, caller, reader, costs
<1>2. /\ call \in Nat /\ call > 0 /\ pack \in Packs /\ appends \in BOOLEAN
      /\ IsSlice(work) /\ work.off = 0 /\ off = dst.len /\ off \in Nat /\ off <= work.len
      /\ work.arr \in 1 .. Len(heap) /\ Capacity(work.arr) \in Nat /\ off <= Capacity(work.arr)
      /\ cap(work) = Capacity(work.arr) /\ (~appends => off = 0)
  BY <1>1, CallFacts
<1>3. HeapInv /\ block1 = NoSlice /\ block2 = NoSlice /\ InPlace /\ IsSlice(dst) /\ dst.off = 0
      /\ start \in 0 .. dst.len
  BY <1>1 DEF StreamInv, SliceInv, RoomInv
<1>4. needed(pack) \in Nat
  BY <1>2, NeededFacts
<1>5. /\ grown \in 0 .. call - 1 /\ copied \in Nat
      /\ Amortized(grown, copied, Capacity(work.arr), off)
  BY <1>1, <1>2 DEF StreamInv, GrowthInv, current
<1>6. /\ HeapInv' /\ UNCHANGED <<call, pack, appends>>
      /\ \A w, i : Kept(heap, heap', w, i)
      /\ SliceIn(heap', work') /\ work'.off = 0 /\ off <= work'.len
      /\ SizeIn(heap', work'.arr) \in Nat /\ SizeIn(heap', work'.arr) >= off + needed(pack)
      /\ work' = work \/ work'.arr = Len(heap) + 1
      /\ grown' \in 0 .. call /\ copied' \in Nat
      /\ Amortized(grown', copied', SizeIn(heap', work'.arr), off)
  <2>1. CASE room >= needed(pack)
    <3>1. UNCHANGED <<heap, work, grown, copied>>
      BY <1>1, <2>1
    <3>2. HeapInv' /\ UNCHANGED <<call, pack, appends>>
      <4>1. HeapOf(heap', ByteOf(requests))
        BY <1>3, <3>1, StateFacts
      <4> QED BY <1>1, <1>3, <4>1, HeapStep
    <3>3. \A w, i : Kept(heap, heap', w, i)
      BY <1>3, <3>1, StateFacts DEF Kept, SizeIn
    <3>4. SizeIn(heap', work'.arr) = Capacity(work.arr)
      BY <3>1 DEF SizeIn, Capacity
    <3>5. SliceIn(heap', work')
      BY <1>2, <3>1 DEF SliceIn, IsSlice, SizeIn, Capacity
    <3>6. Capacity(work.arr) >= off + needed(pack)
      BY <1>2, <1>4, <2>1 DEF room
    <3> QED BY <1>2, <1>5, <3>1, <3>2, <3>3, <3>4, <3>5, <3>6
  <2>2. CASE ~(room >= needed(pack))
    <3> DEFINE n == newCap
               B == ByteOf(requests)
    <3>1. /\ heap' = Append(heap, Grown)
          /\ work' = [arr |-> Len(heap) + 1, off |-> 0, len |-> off]
          /\ grown' = grown + 1 /\ copied' = copied + off
      BY <1>1, <2>2
    <3>2. Capacity(work.arr) < off + needed(pack)
      BY <1>2, <1>4, <2>2 DEF room
    <3>3. n = IF 2 * Capacity(work.arr) >= off + needed(pack) THEN 2 * Capacity(work.arr)
              ELSE off + needed(pack)
      BY <1>2 DEF newCap
    <3>4. /\ Amortized(grown + 1, copied + off, n, off)
          /\ n \in Nat /\ n >= off + needed(pack)
      <4>1. leastNeeded \in Nat /\ mostNeeded \in Nat
            /\ leastNeeded <= needed(pack) /\ needed(pack) <= mostNeeded
        BY <1>2, Extremes
      <4>2. call <= MaxCalls /\ MaxCalls \in Nat
        BY <1>3, StateFacts
      <4>3. grown \in 0 .. MaxCalls - 1 /\ off \in 0 .. Capacity(work.arr)
        BY <1>2, <1>5, <4>2
      <4> DEFINE size == Capacity(work.arr)
                 N == needed(pack)
                 g == grown
                 c == copied
                 l == off
      <4>4. /\ g \in 0 .. MaxCalls - 1 /\ c \in Nat /\ size \in Nat /\ l \in 0 .. size
            /\ N \in Nat /\ N <= mostNeeded /\ leastNeeded <= N
            /\ Amortized(g, c, size, l) /\ size < l + N
            /\ n = IF 2 * size >= l + N THEN 2 * size ELSE l + N
        BY <1>2, <1>4, <1>5, <3>2, <3>3, <4>1, <4>3
      <4> HIDE DEF n, size, N, g, c, l
      <4>5. Amortized(g + 1, c + l, n, l) /\ n \in Nat /\ n >= l + N
        BY <4>1, <4>2, <4>4, DoublingPays
      <4> QED BY <4>5 DEF g, c, l, N
    <3> HIDE DEF n
    <3>5. Grown \in [0 .. n - 1 -> B]
      <4>1. Made(n) \in [0 .. n - 1 -> B]
        BY <3>4, MadeFacts
      <4>2. Bytes(work, off) \in Seq(B \cup {Keep})
        BY <1>2, <1>3, BytesFacts
      <4>3. Written(Made(n), 0, Bytes(work, off)) \in [0 .. n - 1 -> B]
        <5> HIDE DEF B
        <5> QED BY <3>4, <4>1, <4>2, WrittenFacts
      <4> QED BY <4>3 DEF Grown, n
    <3>6. HeapOf(heap, B)
      BY <1>3, StateFacts
    <3>7. /\ HeapOf(heap', B) /\ \A w, i : Kept(heap, heap', w, i)
          /\ Len(heap') = Len(heap) + 1 /\ Len(heap) \in Nat
          /\ SizeIn(heap', Len(heap) + 1) = n
      <4> HIDE DEF B
      <4> QED BY <3>1, <3>4, <3>5, <3>6, Allocate
    <3>8. HeapInv' /\ UNCHANGED <<call, pack, appends>>
      BY <1>1, <1>3, <3>7, HeapStep
    <3>9. SliceIn(heap', work') /\ work'.arr = Len(heap) + 1 /\ work'.off = 0 /\ work'.len = off
      BY <1>2, <1>4, <3>1, <3>4, <3>7 DEF SliceIn
    <3> QED BY <1>2, <1>5, <3>1, <3>4, <3>7, <3>8, <3>9
  <2> QED BY <2>1, <2>2
<1>7. ASSUME reading PROVE IsSlice(view) /\ view.off = 0 /\ at \in 0 .. view.len
  BY <1>7 DEF StreamInv, SliceInv
<1>8. /\ IsSlice(dst)' /\ (reading => IsSlice(view)') /\ IsSlice(work)'
  <2>1. \A s : SliceIn(heap, s) => SliceIn(heap', s)
    BY <1>6, SliceStays
  <2>2. SliceIn(heap', dst) /\ (reading => SliceIn(heap', view))
    BY <1>3, <1>7, <2>1 DEF SliceIn, IsSlice, SizeIn, Capacity
  <2> QED BY <1>1, <1>6, <2>2 DEF SliceIn, IsSlice, SizeIn, Capacity
<1>9. SliceInv'
  <2>1. IF reading' THEN IsSlice(view)' /\ view'.off = 0 /\ at' \in 0 .. view'.len
        ELSE view' = NoSlice /\ at' = 0
    BY <1>1, <1>7, <1>8 DEF StreamInv, SliceInv
  <2> QED BY <1>1, <1>2, <1>3, <1>6, <1>8, <2>1 DEF SliceInv
<1>10. ViewInv'
  <2> SUFFICES ASSUME reading' PROVE ViewInv'
    BY DEF ViewInv
  <2>1. /\ reading /\ view.arr = dst.arr => view.len <= dst.len
        /\ view.arr \in {work.arr, block1.arr} => view.len <= off
    BY <1>1 DEF StreamInv, ViewInv
  <2>2. view.arr \in 1 .. Len(heap) /\ Len(heap) \in Nat
    BY <1>1, <1>3, <1>7, StateFacts DEF IsSlice
  <2>3. view.arr # Len(heap) + 1
    BY <2>2
  <2>4. view.arr \in {work'.arr, block1'.arr} => view.len <= off
    BY <1>1, <1>6, <2>1, <2>3
  <2> QED BY <1>1, <2>1, <2>4 DEF ViewInv
<1>11. RoomInv'
  <2>1. Capacity(work.arr)' >= off + needed(pack)
    BY <1>6 DEF Capacity, SizeIn
  <2>2. InPlace'
    BY <1>3, <1>6 DEF InPlace
  <2> QED BY <1>1, <1>6, <2>1, <2>2 DEF RoomInv, InCall
<1>12. GrowthInv'
  <2>1. cap(current)' = SizeIn(heap', work'.arr)
    <3>1. cap(current)' = Capacity(work.arr)' - 0
      BY <1>1, <1>6 DEF cap, current, Capacity
    <3>2. Capacity(work.arr)' = SizeIn(heap', work'.arr)
      BY DEF Capacity, SizeIn
    <3> QED BY <1>6, <3>1, <3>2
  <2>2. InPlace'
    BY <1>3, <1>6 DEF InPlace
  <2>3. Amortized(grown', copied', cap(current)', off')
    BY <1>1, <1>6, <2>1
  <2> QED BY <1>1, <1>6, <2>2, <2>3 DEF GrowthInv
<1>13. ViewKept
  <2> SUFFICES ASSUME reading PROVE view' = view /\ Bytes(view, view.len)' = Bytes(view, view.len)
    BY DEF ViewKept
  <2>1. Kept(heap, heap', 0, 0) /\ view.arr # 0
    <3>1. view.arr \in 1 .. Len(heap) /\ Len(heap) \in Nat
      BY <1>3, <1>7, StateFacts DEF IsSlice
    <3> QED BY <1>6, <3>1
  <2> QED BY <1>1, <1>3, <1>7, <2>1, ViewStays
<1> QED BY <1>6, <1>9, <1>10, <1>11, <1>12, <1>13 DEF StreamInv

(* What the phases of a call have in common: they write behind its offset, *)
(* in its array or in one of their own.                                    *)
LEMMA PhaseStep ==
  ASSUME StreamInv, InCall, pc' # "idle", pc' # "ensure",
         UNCHANGED <<dst, start, requests, work, off, reading, view, at, grown, copied>>,
         HeapOf(heap', ByteOf(requests)), Kept(heap, heap', work.arr, off)
  PROVE  /\ HeapInv' /\ UNCHANGED <<call, pack, appends>> /\ GrowthInv' /\ ViewKept
         /\ IsSlice(dst)' /\ IsSlice(work)' /\ Capacity(work.arr)' = Capacity(work.arr)
         /\ IF reading' THEN IsSlice(view)' /\ view'.off = 0 /\ at' \in 0 .. view'.len
            ELSE view' = NoSlice /\ at' = 0
         /\ \A s : IsSlice(s) => SliceIn(heap', s)
<1>1. pc # "idle" /\ pc # "ensure" /\ HeapInv
  BY DEF InCall, StreamInv
<1>2. /\ call \in Nat /\ pack \in Packs
      /\ IsSlice(work) /\ work.off = 0 /\ off = dst.len /\ off \in Nat
      /\ work.arr \in 1 .. Len(heap) /\ cap(work) = Capacity(work.arr)
  BY <1>1, CallFacts
<1>3. HeapInv' /\ UNCHANGED <<call, pack, appends>>
  BY <1>1, HeapStep
<1>4. \A s : IsSlice(s) => SliceIn(heap', s) /\ SizeIn(heap', s.arr) = SizeIn(heap, s.arr)
  <2>1. \A s : SliceIn(heap, s) => SliceIn(heap', s) /\ SizeIn(heap', s.arr) = SizeIn(heap, s.arr)
    BY SliceStays
  <2> QED BY <2>1 DEF SliceIn, IsSlice, SizeIn, Capacity
<1>5. IsSlice(dst) /\ (reading => IsSlice(view) /\ view.off = 0 /\ at \in 0 .. view.len)
      /\ (~reading => view = NoSlice /\ at = 0)
  BY DEF StreamInv, SliceInv
<1>6. IsSlice(dst)' /\ IsSlice(work)' /\ (reading => IsSlice(view)')
  BY <1>2, <1>4, <1>5 DEF SliceIn, IsSlice, SizeIn, Capacity
<1>7. Capacity(work.arr)' = Capacity(work.arr)
  BY <1>2, <1>4 DEF SizeIn, Capacity
<1>8. GrowthInv'
  <2>1. /\ grown \in 0 .. call /\ copied \in Nat /\ (~InPlace => grown = 0)
        /\ Amortized(grown, copied, cap(work), off)
    BY <1>1 DEF StreamInv, GrowthInv, current
  <2>2. cap(current)' = cap(work)
    BY <1>7 DEF cap, current
  <2>3. InPlace' <=> InPlace
    BY <1>3 DEF InPlace
  <2>4. Amortized(grown', copied', cap(current)', off')
    BY <2>1, <2>2
  <2> QED BY <1>3, <2>1, <2>3, <2>4 DEF GrowthInv
<1>9. ViewKept
  <2> SUFFICES ASSUME reading PROVE view' = view /\ Bytes(view, view.len)' = Bytes(view, view.len)
    BY DEF ViewKept
  <2>1. view.arr = work.arr => view.len <= off
    BY <1>1 DEF StreamInv, ViewInv
  <2> QED BY <1>1, <1>2, <1>5, <2>1, ViewStays
<1> QED BY <1>3, <1>4, <1>5, <1>6, <1>7, <1>8, <1>9

(* packBlock in the room that Append has made, or wherever it finds room.  *)
LEMMA PackStep ==
  ASSUME StreamInv, InCall, NEW i \in DOMAIN pack.parts, NEW j \in Nat, off <= j, PackBlock(i, j)
  PROVE  /\ HeapOf(heap', ByteOf(requests)) /\ Kept(heap, heap', work.arr, off)
         /\ SliceIn(heap', Packed(i, j))
         /\ Packed(i, j).len = Len(BlockBytes(call, i, <<Keep, Keep>>))
         /\ IF Capacity(work.arr) >= j + request(i)
            THEN Packed(i, j).arr = work.arr /\ Packed(i, j).off = j
            ELSE Packed(i, j).arr = Len(heap) + 1 /\ Packed(i, j).off = 0
<1> DEFINE B == ByteOf(requests)
           n == Len(BlockBytes(call, i, <<Keep, Keep>>))
           q == request(i)
           out == Output(i)
<1>1. pc # "idle" /\ HeapInv
  BY DEF InCall, StreamInv
<1>2. /\ call \in Nat /\ call > 0 /\ pack \in Packs /\ off \in Nat
      /\ work.arr \in 1 .. Len(heap) /\ cap(work) = Capacity(work.arr) /\ work.off = 0
  BY <1>1, CallFacts
<1>3. out \in Seq(B \cup {Keep}) /\ q \in Nat /\ n \in Nat /\ n <= q
  BY <1>2, OutputFacts
<1>4. HeapOf(heap, B) /\ DOMAIN heap = 1 .. Len(heap) /\ Len(heap) \in Nat
  BY <1>1, StateFacts
<1>5. /\ Capacity(work.arr) = SizeIn(heap, work.arr) /\ SizeIn(heap, work.arr) \in Nat
      /\ heap[work.arr] \in [0 .. SizeIn(heap, work.arr) - 1 -> B]
  BY <1>2, <1>4 DEF HeapOf, SizeIn, Capacity
<1>6. cap(work) - j >= q <=> Capacity(work.arr) >= j + q
  BY <1>2, <1>3, <1>5
<1> HIDE DEF B, n, q, out
<1>7. CASE Capacity(work.arr) >= j + q
  <2> DEFINE new == [arr |-> work.arr, off |-> j, len |-> n]
  <2>1. heap' = [heap EXCEPT ![work.arr] = Written(@, j, out)] /\ Packed(i, j) = new
    <3>1. work.off + j = j
      BY <1>2
    <3> QED BY <1>6, <1>7, <3>1 DEF PackBlock, Packed, q, n, out
  <2> DEFINE w == work.arr
  <2>2. w \in 1 .. Len(heap) /\ WrittenInto(heap', heap, w, j, out) /\ ToWrite(out, B)
    BY <1>2, <1>3, <2>1 DEF WrittenInto, ToWrite
  <2>4. HeapOf(heap', B) /\ Kept(heap, heap', work.arr, off) /\ Len(heap') = Len(heap)
    <3>1. HeapOf(heap', B) /\ Kept(heap, heap', w, off) /\ Len(heap') = Len(heap)
      <4> HIDE DEF w
      <4> QED BY <1>2, <1>3, <1>4, <2>2, WriteAt
    <3> QED BY <3>1
  <2>5. SliceIn(heap', new)
    <3>1. SizeIn(heap', work.arr) = SizeIn(heap, work.arr)
      BY <1>2, <2>4 DEF Kept
    <3>2. j + n <= SizeIn(heap, work.arr)
      BY <1>3, <1>5, <1>7
    <3> QED BY <1>2, <1>3, <2>4, <3>1, <3>2 DEF SliceIn
  <2>6. Packed(i, j).arr = work.arr /\ Packed(i, j).off = j /\ Packed(i, j).len = n
    BY <2>1
  <2> QED BY <1>7, <2>1, <2>4, <2>5, <2>6 DEF B, n, q
<1>8. CASE ~(Capacity(work.arr) >= j + q)
  <2> DEFINE A == Written(Made(q), 0, out)
             new == [arr |-> Len(heap) + 1, off |-> 0, len |-> n]
  <2>1. heap' = Append(heap, A) /\ Packed(i, j) = new
    BY <1>6, <1>8 DEF PackBlock, Packed, q, n, out
  <2>2. A \in [0 .. q - 1 -> B]
    <3>1. Made(q) \in [0 .. q - 1 -> B]
      BY <1>3, MadeFacts DEF B
    <3> QED BY <1>3, <3>1, WrittenFacts
  <2> HIDE DEF A
  <2>3. /\ HeapOf(heap', B) /\ Kept(heap, heap', work.arr, off)
        /\ Len(heap') = Len(heap) + 1 /\ SizeIn(heap', Len(heap) + 1) = q
    BY <1>3, <1>4, <2>1, <2>2, Allocate
  <2>4. SliceIn(heap', new)
    BY <1>3, <1>4, <2>3 DEF SliceIn
  <2>5. Packed(i, j).arr = Len(heap) + 1 /\ Packed(i, j).off = 0 /\ Packed(i, j).len = n
    BY <2>1
  <2> QED BY <1>8, <2>1, <2>3, <2>4, <2>5 DEF B, n, q
<1> QED BY <1>7, <1>8

(* The room that a call has suffices for its first sub-block.              *)
LEMMA FirstFits ==
  ASSUME StreamInv, pc = "first"
  PROVE  /\ innerOff \in Nat /\ off <= innerOff
         /\ pack.layout = "for64" => innerOff = off + 8
         /\ pack.layout # "for64" => innerOff = off
         /\ InPlace => Capacity(work.arr) >= innerOff + request(1)
         /\ ~InPlace => off = 0 /\ pack.layout = "uint32"
<1> DEFINE M == MaxBlockLength32(pack.flags)
           N == needed(pack)
           q == request(1)
           lay == pack.layout
           size == Capacity(work.arr)
<1>1. call \in Nat /\ call > 0 /\ pack \in Packs /\ off \in Nat /\ size \in Nat /\ (~appends => off = 0)
  BY CallFacts
<1>2. innerOff = IF lay = "for64" THEN off + 8 ELSE off
  BY DEF innerOff, for64BaseSize
<1>3. 1 \in DOMAIN pack.parts /\ lay \in {"uint32", "for64", "narrow", "pair"}
  BY <1>1, PackFacts
<1>4. /\ N \in Nat /\ M \in Nat /\ M >= 8
      /\ lay = "uint32" => M <= N
      /\ lay # "uint32" => N = 2 * M + 2
  BY <1>1, NeededFacts
<1>5. q \in Nat /\ q <= M + IF lay = "pair" THEN 2 ELSE 0
  <2> DEFINE cc == combine(call, 1)
  <2>1. cc <=> lay = "pair"
    BY DEF combine, pack
  <2>2. q \in Nat /\ q <= M + IF cc THEN 2 ELSE 0
    BY <1>1, <1>3, OutputFacts
  <2> HIDE DEF cc, q, M, lay
  <2>3. CASE cc
    BY <2>1, <2>2, <2>3
  <2>4. CASE ~cc
    BY <2>1, <2>2, <2>4
  <2> QED BY <2>3, <2>4
<1>6. InPlace => size >= off + N
  BY DEF StreamInv, RoomInv, InCall
<1>7. ~InPlace => ~appends /\ lay = "uint32"
  BY DEF InPlace
<1> HIDE DEF M, N, q, lay, size
<1>8. InPlace => size >= innerOff + q
  <2>1. CASE lay = "uint32"
    BY <1>1, <1>2, <1>4, <1>5, <1>6, <2>1
  <2>2. CASE lay = "for64"
    BY <1>1, <1>2, <1>4, <1>5, <1>6, <2>2
  <2>3. CASE lay = "narrow"
    BY <1>1, <1>2, <1>4, <1>5, <1>6, <2>3
  <2>4. CASE lay = "pair"
    BY <1>1, <1>2, <1>4, <1>5, <1>6, <2>4
  <2> QED BY <1>3, <2>1, <2>2, <2>3, <2>4
<1>9. innerOff \in Nat /\ off <= innerOff
  BY <1>1, <1>2
<1> QED BY <1>1, <1>2, <1>7, <1>8, <1>9 DEF q, lay, size

(* packBlock writes the first sub-block, or the only one.                  *)
LEMMA FirstStream == ASSUME StreamInv, PackFirst PROVE StreamInv' /\ ViewKept
<1> DEFINE P == Packed(1, innerOff)
           lay == pack.layout
           b == part(call, 1)
<1>1. /\ pc = "first" /\ PackBlock(1, innerOff) /\ block1' = P
      /\ pc' = CASE lay = "for64" -> "wrap" [] lay = "pair" -> "second" [] OTHER -> "return"
      /\ UNCHANGED <<dst, start, requests, work, off, block2, reading, view, at, grown, copied>>
  BY DEF PackFirst, caller, reader, costs
<1>2. /\ call \in Nat /\ call > 0 /\ pack \in Packs /\ appends \in BOOLEAN
      /\ IsSlice(work) /\ work.off = 0 /\ off = dst.len /\ off \in Nat /\ off <= work.len
      /\ work.arr \in 1 .. Len(heap) /\ (~appends => off = 0)
  BY <1>1, CallFacts
<1>3. /\ innerOff \in Nat /\ off <= innerOff
      /\ lay = "for64" => innerOff = off + 8
      /\ lay # "for64" => innerOff = off
      /\ InPlace => Capacity(work.arr) >= innerOff + request(1)
      /\ ~InPlace => off = 0 /\ lay = "uint32"
  BY <1>1, FirstFits
<1>4. 1 \in DOMAIN pack.parts /\ lay \in {"uint32", "for64", "narrow", "pair"}
  BY <1>2, PackFacts
<1>5. InCall /\ HeapInv
  BY <1>1 DEF InCall, StreamInv
<1>6. /\ HeapOf(heap', ByteOf(requests)) /\ Kept(heap, heap', work.arr, off)
      /\ SliceIn(heap', P)
      /\ P.len = Len(BlockBytes(call, 1, <<Keep, Keep>>))
      /\ IF Capacity(work.arr) >= innerOff + request(1)
         THEN P.arr = work.arr /\ P.off = innerOff
         ELSE P.arr = Len(heap) + 1 /\ P.off = 0
  BY <1>1, <1>3, <1>4, <1>5, PackStep
<1>7. pc' \in {"wrap", "second", "return"} /\ (pc' = "wrap" => lay = "for64")
      /\ (pc' = "second" => lay = "pair") /\ (pc' = "return" => lay # "pair")
  BY <1>1, <1>4
<1>8. /\ HeapInv' /\ UNCHANGED <<call, pack, appends>> /\ GrowthInv' /\ ViewKept
      /\ IsSlice(dst)' /\ IsSlice(work)' /\ Capacity(work.arr)' = Capacity(work.arr)
      /\ IF reading' THEN IsSlice(view)' /\ view'.off = 0 /\ at' \in 0 .. view'.len
         ELSE view' = NoSlice /\ at' = 0
  BY <1>1, <1>5, <1>6, <1>7, PhaseStep
<1> DEFINE n == Len(BlockBytes(call, 1, <<Keep, Keep>>))
           M == MaxBlockLength32(pack.flags)
           po(c) == payloadOffset(forBaseBytes(b.forWidth), b.excCount > 0, c)
<1>9. n \in Nat /\ n >= po(lay = "pair") /\ n <= M + 2
  <2> DEFINE q == request(1)
             cc == combine(call, 1)
  <2>1. n \in Nat /\ n <= q /\ n >= po(cc) /\ q \in Nat /\ q <= M + IF cc THEN 2 ELSE 0
    BY <1>2, <1>4, OutputFacts
  <2>2. cc = (lay = "pair")
    BY DEF combine, pack
  <2>3. M \in Nat
    BY BoundType
  <2>4. n >= po(lay = "pair")
    BY <2>1, <2>2
  <2> HIDE DEF n, q, cc, M
  <2>5. n <= M + 2
    BY <2>1, <2>3
  <2> QED BY <2>1, <2>4, <2>5
<1>10. b.excCount \in Nat /\ forBaseBytes(b.forWidth) \in Nat
  <2>1. IsPart(b)
    BY <1>2, <1>4, PackFacts DEF part, pack
  <2> QED BY <2>1, PartFacts
<1>11. lay = "for64" => n >= insertPos
  <2> DEFINE u == forBaseBytes(b.forWidth)
             l == IF b.excCount > 0 THEN 2 ELSE 0
             pf == po(FALSE)
  <2> SUFFICES ASSUME lay = "for64" PROVE n >= insertPos
    OBVIOUS
  <2>1. pf = 4 + l + u + 0
    BY DEF payloadOffset, headerBytes, svbLenBytes
  <2>2. insertPos = 4 + l
    BY DEF insertPos, headerBytes, svbLenBytes
  <2>3. n \in Nat /\ n >= pf /\ u \in Nat /\ l \in Nat
    <3>1. n >= po(FALSE)
      BY <1>9
    <3> QED BY <1>9, <1>10, <3>1
  <2> HIDE DEF n, u, l, pf
  <2> QED BY <2>1, <2>2, <2>3
<1>12. UNCHANGED <<insertPos, innerOff, b>>
  BY <1>1, <1>8 DEF insertPos, innerOff, part
<1> HIDE DEF P, n, M, lay, b
<1>13. IsSlice(block1)'
  BY <1>1, <1>6 DEF SliceIn, IsSlice, SizeIn, Capacity
<1>14. SliceInv'
  <2>1. start \in 0 .. dst.len /\ dst.off = 0 /\ block2 = NoSlice
    BY <1>1 DEF StreamInv, SliceInv
  <2> QED BY <1>1, <1>2, <1>7, <1>8, <1>13, <2>1 DEF SliceInv, lay
<1>15. ViewInv'
  <2> SUFFICES ASSUME reading' PROVE ViewInv'
    BY DEF ViewInv
  <2>1. /\ reading /\ IsSlice(view) /\ view.arr = dst.arr => view.len <= dst.len
        /\ view.arr = work.arr => view.len <= off
    BY <1>1 DEF StreamInv, SliceInv, ViewInv
  <2>2. view.arr # Len(heap) + 1
    <3>1. reading /\ IsSlice(view)
      BY <1>1 DEF StreamInv, SliceInv
    <3>2. view.arr \in 1 .. Len(heap) /\ Len(heap) \in Nat
      BY <1>5, <3>1, StateFacts DEF IsSlice
    <3> QED BY <3>2
  <2>3. view.arr = dst.arr => view.len <= dst.len
    BY <1>1 DEF StreamInv, ViewInv
  <2>4. block1'.arr = work.arr \/ block1'.arr = Len(heap) + 1
    BY <1>1, <1>6
  <2> QED BY <1>1, <2>1, <2>2, <2>3, <2>4 DEF ViewInv
<1>16. RoomInv'
  <2>1. pc' = "wrap" => pack'.layout = "for64" /\ block1'.len >= insertPos'
    BY <1>1, <1>6, <1>7, <1>8, <1>11, <1>12 DEF lay, n
  <2>2. pc' \in {"second", "link"} =>
         /\ pack'.layout = "pair"
         /\ block1'.len >= payloadOffset(forBaseBytes(b'.forWidth), b'.excCount > 0, TRUE)
    <3>1. lay = "pair" => n >= po(TRUE)
      BY <1>9
    <3> QED BY <1>1, <1>6, <1>7, <1>8, <1>12, <3>1 DEF lay, n
  <2>3. InPlace' <=> InPlace
    BY <1>8 DEF InPlace
  <2>4. InPlace => Capacity(work.arr)' >= off + needed(pack)
    BY <1>1, <1>8 DEF StreamInv, RoomInv, InCall
  <2>5. IF InPlace THEN block1'.arr = work'.arr /\ block1'.off = innerOff' /\ block1'.len <= M + 2
        ELSE block1'.off = 0
    <3>1. CASE InPlace
      BY <1>1, <1>3, <1>6, <1>9, <1>12, <3>1 DEF n
    <3>2. CASE ~InPlace
      BY <1>1, <1>3, <1>6, <3>2 DEF lay
    <3> QED BY <3>1, <3>2
  <2> QED BY <1>1, <1>7, <1>8, <2>1, <2>2, <2>3, <2>4, <2>5 DEF RoomInv, InCall, block2LenBytes, M, lay, b
<1> QED BY <1>8, <1>14, <1>15, <1>16 DEF StreamInv

(* Several writes behind i into one array. *)
LEMMA WriteOn ==
  ASSUME NEW B, NEW n \in Nat, NEW A, NEW C, NEW i \in Nat, NEW j \in Nat, i <= j,
         ArrayOf(A, n, B), Front(A, C, n, i), NEW bytes, ToWrite(bytes, B)
  PROVE  ArrayOf(Written(A, j, bytes), n, B) /\ Front(Written(A, j, bytes), C, n, i)
<1>1. A \in [0 .. n - 1 -> B] /\ bytes \in Seq(B \cup {Keep}) /\ \A k \in 0 .. n - 1 : k < i => A[k] = C[k]
  BY DEF ArrayOf, Front, ToWrite
<1>2. Written(A, j, bytes) \in [0 .. n - 1 -> B]
  BY <1>1, WrittenFacts, Zenon
<1>3. ASSUME NEW k \in 0 .. n - 1, k < i PROVE Written(A, j, bytes)[k] = C[k]
  <2>1. DOMAIN bytes = 1 .. Len(bytes) /\ DOMAIN A = 0 .. n - 1
    BY <1>1, LenProperties
  <2>2. k - j + 1 \notin DOMAIN bytes
    BY <1>3, <2>1
  <2>3. Written(A, j, bytes)[k] = A[k]
    BY <2>1, <2>2 DEF Written
  <2> QED BY <1>1, <1>3, <2>3
<1> QED BY <1>2, <1>3 DEF ArrayOf, Front

(* The fields that are written afterwards. *)
LEMMA LateFields ==
  ASSUME call \in Nat, call > 0, pack \in Packs, NEW name \in FieldNames, NEW size \in Nat
  PROVE  /\ ToWrite(Field(call, 1, name, size), ByteOf(requests))
         /\ ToWrite(Number(call, 1, name, size), ByteOf(requests))
<1>1. call \in 1 .. Len(requests) /\ Len(requests) \in Nat /\ requests[call].pack \in Packs
      /\ 1 \in DOMAIN requests[call].pack.parts
  BY PackFacts DEF call, pack
<1> DEFINE c == call
<1>2. c \in 1 .. Len(requests) /\ Len(requests) \in Nat /\ requests[c].pack \in Packs
      /\ 1 \in DOMAIN requests[c].pack.parts
  BY <1>1
<1> HIDE DEF c
<1>3. /\ Field(c, 1, name, size) \in Seq(ByteOf(requests) \cup {Keep})
      /\ Number(c, 1, name, size) \in Seq(ByteOf(requests) \cup {Keep})
  BY <1>2, FieldFacts
<1> QED BY <1>3 DEF c, ToWrite

(* A phase that moves no slice: what was true of them is true still.       *)
LEMMA SameSlices ==
  ASSUME StreamInv, pc \in {"wrap", "link"}, pc' = "return", (pack.layout = "pair") <=> (pc = "link"),
         UNCHANGED <<dst, start, requests, work, off, block1, block2, reading, view, at, grown, copied>>,
         HeapOf(heap', ByteOf(requests)), Kept(heap, heap', work.arr, off)
  PROVE  StreamInv' /\ ViewKept
<1>1. InCall /\ HeapInv
  BY DEF InCall, StreamInv
<1>2. /\ IsSlice(work) /\ work.off = 0 /\ off = dst.len /\ off <= work.len /\ call > 0 /\ pack \in Packs
      /\ (~appends => off = 0) /\ IsSlice(block1) /\ dst.off = 0 /\ start \in 0 .. dst.len
      /\ IF pc = "link" THEN IsSlice(block2) ELSE block2 = NoSlice
  BY DEF StreamInv, SliceInv
<1>3. /\ HeapInv' /\ UNCHANGED <<call, pack, appends>> /\ GrowthInv' /\ ViewKept
      /\ IsSlice(dst)' /\ IsSlice(work)' /\ Capacity(work.arr)' = Capacity(work.arr)
      /\ IF reading' THEN IsSlice(view)' /\ view'.off = 0 /\ at' \in 0 .. view'.len
         ELSE view' = NoSlice /\ at' = 0
      /\ \A s : IsSlice(s) => SliceIn(heap', s)
  BY <1>1, PhaseStep
<1>4. IsSlice(block1)' /\ (IF pc = "link" THEN IsSlice(block2)' ELSE block2' = NoSlice)
  BY <1>2, <1>3 DEF SliceIn, IsSlice, SizeIn, Capacity
<1>5. SliceInv'
  BY <1>2, <1>3, <1>4 DEF SliceInv
<1>6. ViewInv'
  BY DEF StreamInv, ViewInv
<1>7. RoomInv'
  <2>1. InPlace' = InPlace /\ innerOff' = innerOff
    BY <1>3 DEF InPlace, innerOff
  <2>2. /\ InPlace => Capacity(work.arr) >= off + needed(pack)
        /\ IF InPlace
           THEN /\ block1.arr = work.arr /\ block1.off = innerOff
                /\ block1.len <= MaxBlockLength32(pack.flags) + block2LenBytes
           ELSE block1.off = 0
        /\ pc = "link" => block2.len <= MaxBlockLength32(pack.flags)
    BY <1>1 DEF StreamInv, RoomInv
  <2> QED BY <1>3, <2>1, <2>2 DEF RoomInv
<1> QED BY <1>3, <1>5, <1>6, <1>7 DEF StreamInv

(* wrapFor64SingleBlock moves the header, inside of what the call wrote.   *)
LEMMA WrapStream ==
  ASSUME StreamInv, WrapFor64 PROVE StreamInv' /\ ViewKept /\ Kept(heap, heap', work.arr, off)
<1> DEFINE B == ByteOf(requests)
           w == work.arr
           n == SizeIn(heap, w)
           A == heap[w]
<1>1. /\ pc = "wrap" /\ pc' = "return" /\ heap' = [heap EXCEPT ![w] = Wrapped(A)]
      /\ UNCHANGED <<dst, start, requests, work, off, block1, block2, reading, view, at, grown, copied>>
  BY DEF WrapFor64, caller, reader, costs
<1>2. /\ call \in Nat /\ call > 0 /\ pack \in Packs /\ off \in Nat /\ w \in 1 .. Len(heap)
  BY <1>1, CallFacts
<1>3. /\ pack.layout = "for64" /\ block1.len >= insertPos /\ IsSlice(block1) /\ HeapInv
      /\ block1.arr = w /\ block1.off = innerOff
  BY <1>1 DEF StreamInv, SliceInv, RoomInv, InPlace
<1>4. HeapOf(heap, B) /\ DOMAIN heap = 1 .. Len(heap) /\ Len(heap) \in Nat
  BY <1>3, StateFacts
<1>5. n \in Nat /\ ArrayOf(A, n, B) /\ Front(A, A, n, off)
  BY <1>2, <1>4 DEF HeapOf, ArrayOf, Front
<1>6. insertPos \in Nat
  BY DEF insertPos, headerBytes, svbLenBytes
<1> DEFINE p == insertPos
           moved == Bytes(block1, p)
           base == Field(call, 1, "base64", for64BaseSize)
           header == Field(call, 1, "header64", headerBytes)
<1>7. ToWrite(moved, B) /\ ToWrite(base, B) /\ ToWrite(header, B)
  <2>1. block1.off + p <= Capacity(block1.arr)
    <3>1. /\ block1.off \in Nat /\ block1.len \in Nat /\ block1.off + block1.len <= Capacity(block1.arr)
          /\ block1.arr \in 1 .. Len(heap)
      BY <1>3 DEF IsSlice
    <3>2. Capacity(block1.arr) \in Nat
      BY <1>3, <3>1, StateFacts DEF HeapInv
    <3> QED BY <1>3, <1>6, <3>1, <3>2
  <2>2. ToWrite(moved, B)
    BY <1>3, <1>6, <2>1, BytesFacts DEF ToWrite
  <2>3. "base64" \in FieldNames /\ "header64" \in FieldNames /\ for64BaseSize \in Nat /\ headerBytes \in Nat
    BY DEF FieldNames, for64BaseSize, headerBytes
  <2> QED BY <1>2, <2>2, <2>3, LateFields
<1> DEFINE W1 == Written(A, off, moved)
           W2 == Written(W1, off + p, base)
           W3 == Written(W2, off, header)
<1>8. Wrapped(A) = W3
  BY DEF Wrapped
<1>9. heap' = [heap EXCEPT ![w] = W3]
  BY <1>1, <1>8
<1>20. off + p \in Nat /\ off <= off + p /\ off <= off
  BY <1>2, <1>6
<1> HIDE DEF B, n, A, p, moved, base, header
<1>10. ArrayOf(W1, n, B) /\ Front(W1, A, n, off)
  BY <1>2, <1>5, <1>7, <1>20, WriteOn
<1> HIDE DEF W1
<1>11. ArrayOf(W2, n, B) /\ Front(W2, A, n, off)
  BY <1>2, <1>5, <1>7, <1>10, <1>20, WriteOn
<1> HIDE DEF W2
<1>12. ArrayOf(W3, n, B) /\ Front(W3, A, n, off)
  BY <1>2, <1>5, <1>7, <1>11, <1>20, WriteOn
<1> HIDE DEF W3, w
<1>13. DOMAIN heap' = 1 .. Len(heap) /\ heap'[w] = W3 /\ \A c \in 1 .. Len(heap) : c # w => heap'[c] = heap[c]
  BY <1>2, <1>4, <1>9
<1>14. Replaced(heap', heap, w)
  <2>1. heap' = [c \in 1 .. Len(heap) |-> heap'[c]]
    BY <1>4, <1>9
  <2> QED BY <1>13, <2>1 DEF Replaced
<1>15. ArrayOf(heap'[w], SizeIn(heap, w), B) /\ Front(heap'[w], heap[w], SizeIn(heap, w), off)
  BY <1>12, <1>13 DEF n, A
<1>16. HeapOf(heap', B) /\ Kept(heap, heap', w, off)
  BY <1>2, <1>4, <1>14, <1>15, Overwrite
<1> QED BY <1>1, <1>3, <1>16, SameSlices DEF B, w

(* writeBlock2Len writes inside of block 1. *)
LEMMA LinkStream ==
  ASSUME StreamInv, LinkBlocks PROVE StreamInv' /\ ViewKept /\ Kept(heap, heap', work.arr, off)
<1> DEFINE B == ByteOf(requests)
           w == work.arr
           b == part(call, 1)
           u == forBaseBytes(b.forWidth)
           pOff == payloadOffset(u, b.excCount > 0, TRUE)
           place == block1.off + pOff - block2LenBytes
           number == Number(call, 1, "block2Len", block2.len)
<1>1. /\ pc = "link" /\ pc' = "return"
      /\ heap' = [heap EXCEPT ![block1.arr] = Written(@, place, number)]
      /\ UNCHANGED <<dst, start, requests, work, off, block1, block2, reading, view, at, grown, copied>>
  BY DEF LinkBlocks, caller, reader, costs
<1>2. /\ call \in Nat /\ call > 0 /\ pack \in Packs /\ off \in Nat /\ w \in 1 .. Len(heap)
  BY <1>1, CallFacts
<1>3. /\ pack.layout = "pair" /\ IsSlice(block1) /\ IsSlice(block2) /\ HeapInv
      /\ block1.arr = w /\ block1.off = off
  BY <1>1 DEF StreamInv, SliceInv, RoomInv, InPlace, innerOff
<1>4. HeapOf(heap, B)
  BY <1>3, StateFacts
<1>5. u \in Nat
  <2>1. IsPart(b)
    BY <1>2, PackFacts DEF part, pack
  <2> QED BY <2>1, PartFacts
<1>6. place \in Nat /\ off <= place
  <2> DEFINE l == IF b.excCount > 0 THEN 2 ELSE 0
  <2>1. pOff = 4 + l + u + 2
    BY DEF payloadOffset, headerBytes, svbLenBytes, block2LenBytes
  <2>2. l \in Nat
    OBVIOUS
  <2> HIDE DEF l, u, pOff
  <2> QED BY <1>2, <1>3, <1>5, <2>1, <2>2 DEF block2LenBytes
<1>7. ToWrite(number, B)
  <2>1. block2.len \in Nat /\ "block2Len" \in FieldNames
    BY <1>3 DEF IsSlice, FieldNames
  <2> QED BY <1>2, <2>1, LateFields
<1>8. WrittenInto(heap', heap, w, place, number)
  BY <1>1, <1>3 DEF WrittenInto
<1> HIDE DEF B, w, place, number
<1>9. HeapOf(heap', B) /\ Kept(heap, heap', w, off)
  BY <1>2, <1>4, <1>6, <1>7, <1>8, WriteAt
<1> QED BY <1>1, <1>3, <1>9, SameSlices DEF B, w

(* packBlock writes the high halves behind block 1, in the same array.     *)
LEMMA SecondStream == ASSUME StreamInv, PackSecond PROVE StreamInv' /\ ViewKept
<1> DEFINE j == off + block1.len
           P == Packed(2, j)
           M == MaxBlockLength32(pack.flags)
           n == Len(BlockBytes(call, 2, <<Keep, Keep>>))
           q == request(2)
           size == Capacity(work.arr)
<1>1. /\ pc = "second" /\ pc' = "link" /\ PackBlock(2, j) /\ block2' = P
      /\ UNCHANGED <<dst, start, requests, work, off, block1, reading, view, at, grown, copied>>
  BY DEF PackSecond, caller, reader, costs
<1>2. /\ call \in Nat /\ call > 0 /\ pack \in Packs /\ appends \in BOOLEAN /\ size \in Nat
      /\ IsSlice(work) /\ work.off = 0 /\ off = dst.len /\ off \in Nat /\ off <= work.len
      /\ work.arr \in 1 .. Len(heap) /\ (~appends => off = 0)
  BY <1>1, CallFacts
<1>3. /\ pack.layout = "pair" /\ IsSlice(block1) /\ InPlace /\ block1.arr = work.arr /\ block1.off = innerOff
      /\ block1.len <= M + 2 /\ size >= off + needed(pack)
      /\ block1.len >= payloadOffset(forBaseBytes(part(call, 1).forWidth), part(call, 1).excCount > 0, TRUE)
  BY <1>1 DEF StreamInv, SliceInv, RoomInv, InPlace, InCall, block2LenBytes
<1>4. InCall /\ HeapInv /\ dst.off = 0 /\ start \in 0 .. dst.len
  BY <1>1 DEF InCall, StreamInv, SliceInv
<1>5. 2 \in DOMAIN pack.parts
  BY <1>2, <1>3, PackFacts
<1>6. block1.len \in Nat /\ j \in Nat /\ off <= j
  <2>1. block1.len \in Nat
    BY <1>3 DEF IsSlice
  <2> QED BY <1>2, <2>1
<1>7. n \in Nat /\ n <= q /\ q \in Nat /\ q <= M
  <2> DEFINE cc == combine(call, 2)
  <2>1. n \in Nat /\ n <= q /\ q \in Nat /\ q <= M + IF cc THEN 2 ELSE 0
    BY <1>2, <1>5, OutputFacts
  <2>2. ~cc
    BY DEF combine
  <2>3. M \in Nat
    BY BoundType
  <2> HIDE DEF n, q, M, cc
  <2> QED BY <2>1, <2>2, <2>3
<1>8. size >= j + q
  <2>1. needed(pack) = 2 * M + 2 /\ M \in Nat
    BY <1>2, <1>3, NeededFacts
  <2> HIDE DEF M, q, size
  <2> QED BY <1>2, <1>3, <1>6, <1>7, <2>1
<1>9. /\ HeapOf(heap', ByteOf(requests)) /\ Kept(heap, heap', work.arr, off)
      /\ SliceIn(heap', P) /\ P.len = n
  BY <1>1, <1>4, <1>5, <1>6, PackStep
<1>10. /\ HeapInv' /\ UNCHANGED <<call, pack, appends>> /\ GrowthInv' /\ ViewKept
       /\ IsSlice(dst)' /\ IsSlice(work)' /\ Capacity(work.arr)' = Capacity(work.arr)
       /\ IF reading' THEN IsSlice(view)' /\ view'.off = 0 /\ at' \in 0 .. view'.len
          ELSE view' = NoSlice /\ at' = 0
       /\ \A s : IsSlice(s) => SliceIn(heap', s)
  BY <1>1, <1>4, <1>9, PhaseStep
<1> HIDE DEF P, n, M, q
<1>11. IsSlice(block1)' /\ IsSlice(block2)'
  BY <1>1, <1>3, <1>9, <1>10 DEF SliceIn, IsSlice, SizeIn, Capacity
<1>12. SliceInv'
  BY <1>1, <1>2, <1>3, <1>4, <1>10, <1>11 DEF SliceInv
<1>13. ViewInv'
  BY <1>1 DEF StreamInv, ViewInv
<1>14. RoomInv'
  <2>1. UNCHANGED <<InPlace, innerOff, part(call, 1)>>
    BY <1>1, <1>10 DEF InPlace, innerOff, part
  <2>2. block2'.len <= M
    <3>1. M \in Nat
      BY BoundType DEF M
    <3> QED BY <1>1, <1>7, <1>9, <3>1
  <2> QED BY <1>1, <1>3, <1>10, <2>1, <2>2 DEF RoomInv, block2LenBytes, M
<1> QED BY <1>10, <1>12, <1>13, <1>14 DEF StreamInv

(* A call returns its block behind the caller's slice.                     *)
LEMMA ReturnStream == ASSUME StreamInv, ReturnSlice PROVE StreamInv' /\ ViewKept
<1> DEFINE n == blockLen
           size == Capacity(work.arr)
           M == MaxBlockLength32(pack.flags)
<1>1. /\ pc = "return" /\ pc' = "idle"
      /\ dst' = IF InPlace THEN [work EXCEPT !.len = off + n] ELSE block1
      /\ work' = NoSlice /\ off' = 0 /\ block1' = NoSlice /\ block2' = NoSlice
      /\ UNCHANGED <<heap, start, requests, reading, view, at, grown, copied>>
  BY DEF ReturnSlice, reader, costs, InPlace
<1>2. /\ call \in Nat /\ call > 0 /\ pack \in Packs /\ appends \in BOOLEAN /\ size \in Nat
      /\ IsSlice(work) /\ work.off = 0 /\ off = dst.len /\ off \in Nat /\ off <= size
      /\ work.arr \in 1 .. Len(heap) /\ (~appends => off = 0) /\ cap(work) = size
  BY <1>1, CallFacts
<1>3. /\ HeapInv /\ IsSlice(block1) /\ start \in 0 .. dst.len
      /\ IF pack.layout = "pair" THEN IsSlice(block2) /\ block2.len <= M ELSE block2 = NoSlice
      /\ InPlace => size >= off + needed(pack)
      /\ IF InPlace THEN block1.arr = work.arr /\ block1.off = innerOff /\ block1.len <= M + 2
         ELSE block1.off = 0
      /\ ~InPlace => off = 0 /\ grown = 0
  <2>1. ~InPlace => ~appends
    BY DEF InPlace
  <2> QED BY <1>1, <1>2, <2>1 DEF StreamInv, SliceInv, RoomInv, GrowthInv, InCall, block2LenBytes
<1>4. block1.len \in Nat /\ block1.off \in Nat /\ block1.off + block1.len <= Capacity(block1.arr)
      /\ (pack.layout = "pair" => block2.len \in Nat)
  BY <1>3 DEF IsSlice
<1>5. InPlace => n \in Nat /\ off + n <= size
  <2> SUFFICES ASSUME InPlace PROVE n \in Nat /\ off + n <= size
    OBVIOUS
  <2>1. pack.layout \in {"uint32", "for64", "narrow", "pair"}
    BY <1>2, PackFacts
  <2>2. Capacity(block1.arr) = size
    BY <1>3
  <2>3. CASE pack.layout = "for64"
    <3>1. n = block1.len + 8 /\ block1.off = off + 8
      BY <1>3, <2>3 DEF blockLen, innerOff, for64BaseSize
    <3> HIDE DEF n, size
    <3> QED BY <1>2, <1>4, <2>2, <3>1
  <2>4. CASE pack.layout = "pair"
    <3>1. n = block1.len + block2.len /\ needed(pack) = 2 * M + 2 /\ M \in Nat
      BY <1>2, <2>4, NeededFacts DEF blockLen
    <3>2. /\ block1.len \in Nat /\ block1.len <= M + 2 /\ block2.len \in Nat /\ block2.len <= M
          /\ size >= off + needed(pack) /\ size \in Nat /\ off \in Nat
      BY <1>2, <1>3, <1>4, <2>4
    <3> DEFINE l1 == block1.len
               l2 == block2.len
               N == needed(pack)
    <3>3. /\ l1 \in Nat /\ l1 <= M + 2 /\ l2 \in Nat /\ l2 <= M /\ n = l1 + l2 /\ N = 2 * M + 2
          /\ size >= off + N /\ size \in Nat /\ off \in Nat /\ M \in Nat
      BY <3>1, <3>2
    <3> HIDE DEF n, size, M, l1, l2, N
    <3> QED BY <3>3
  <2>5. CASE pack.layout \in {"uint32", "narrow"}
    <3>1. n = block1.len + 0 /\ block1.off = off
      BY <1>3, <2>5 DEF blockLen, innerOff
    <3> HIDE DEF n, size
    <3> QED BY <1>2, <1>4, <2>2, <3>1
  <2> QED BY <2>1, <2>3, <2>4, <2>5
<1>6. HeapInv' /\ call' = call
  BY <1>1, <1>3, HeapStep, StateFacts
<1>7. /\ dst' \in [arr : 1 .. Len(heap), off : Nat, len : Nat] /\ dst'.off = 0
      /\ dst'.len <= Capacity(dst'.arr) /\ off <= dst'.len
      /\ dst'.arr = IF InPlace THEN work.arr ELSE block1.arr
  <2> HIDE DEF n, size
  <2>1. CASE InPlace
    <3>1. dst' = [work EXCEPT !.len = off + n] /\ work \in [arr : 1 .. Len(heap), off : Nat, len : Nat]
      BY <1>1, <1>2, <2>1 DEF IsSlice
    <3>2. dst'.arr = work.arr /\ dst'.off = 0 /\ dst'.len = off + n
      BY <1>2, <3>1
    <3> QED BY <1>2, <1>5, <2>1, <3>1, <3>2 DEF size
  <2>2. CASE ~InPlace
    <3>1. dst' = block1 /\ block1 \in [arr : 1 .. Len(heap), off : Nat, len : Nat]
      BY <1>1, <1>3, <2>2 DEF IsSlice
    <3> QED BY <1>3, <1>4, <2>2, <3>1
  <2> QED BY <2>1, <2>2
<1>8. SliceInv'
  <2>1. IsSlice(dst)'
    <3>1. Capacity(dst.arr)' = Capacity(dst'.arr)
      BY <1>1 DEF Capacity
    <3> QED BY <1>1, <1>7, <3>1 DEF IsSlice
  <2>2. start' \in 0 .. dst'.len
    BY <1>1, <1>2, <1>3, <1>7
  <2>3. IF reading' THEN IsSlice(view)' /\ view'.off = 0 /\ at' \in 0 .. view'.len
        ELSE view' = NoSlice /\ at' = 0
    BY <1>1 DEF StreamInv, SliceInv, IsSlice, Capacity
  <2> QED BY <1>1, <1>7, <2>1, <2>2, <2>3 DEF SliceInv
<1>9. ViewInv'
  <2> SUFFICES ASSUME reading' PROVE ViewInv'
    BY DEF ViewInv
  <2>1. view.arr \in {work.arr, block1.arr} => view.len <= off
    BY <1>1 DEF StreamInv, ViewInv
  <2>2. view.len \in Nat /\ dst'.len \in Nat
    <3>1. IsSlice(view)
      BY <1>1 DEF StreamInv, SliceInv
    <3> QED BY <1>7, <3>1 DEF IsSlice
  <2>3. view.arr = dst'.arr => view.len <= dst'.len
    <3>1. view.arr = dst'.arr => view.len <= off
      BY <1>7, <2>1
    <3> QED BY <1>2, <1>7, <2>2, <3>1
  <2> QED BY <1>1, <2>3 DEF ViewInv
<1>10. RoomInv'
  BY <1>1 DEF RoomInv, InCall
<1>11. GrowthInv'
  <2>1. grown \in 0 .. call /\ copied \in Nat /\ Amortized(grown, copied, size, off)
    BY <1>1, <1>2 DEF StreamInv, GrowthInv, current
  <2>2. cap(current)' = Capacity(dst'.arr) - 0
    BY <1>1, <1>7 DEF cap, current, Capacity
  <2>3. Amortized(grown, copied, cap(current)', dst'.len)
    <3>1. CASE InPlace
      <4>1. cap(current)' = size
        BY <1>2, <1>7, <2>2, <3>1
      <4>2. mostNeeded \in Nat
        BY <1>2, Extremes
      <4>3. dst'.len \in Nat
        BY <1>7
      <4> DEFINE m == dst'.len
                 l == off
                 g == grown
      <4>4. g \in Nat /\ l \in Nat /\ m \in Nat /\ l <= m /\ size \in Nat /\ Amortized(g, copied, size, l)
        BY <1>2, <1>7, <2>1, <4>3
      <4> HIDE DEF m, l, g, size
      <4>5. Amortized(g, copied, size, m)
        BY <4>2, <4>4, LongerPays
      <4> QED BY <4>1, <4>5 DEF m, g
    <3>2. CASE ~InPlace
      <4>1. grown = 0 /\ copied = 0
        BY <1>3, <2>1, <3>2 DEF Amortized
      <4> QED BY <4>1, NothingCopied
    <3> QED BY <3>1, <3>2
  <2>4. Amortized(grown', copied', cap(current)', dst'.len)
    BY <1>1, <2>3
  <2> QED BY <1>1, <1>6, <2>1, <2>4 DEF GrowthInv
<1>12. ViewKept
  BY <1>1 DEF ViewKept, Bytes
<1> QED BY <1>6, <1>8, <1>9, <1>10, <1>11, <1>12 DEF StreamInv

-----------------------------------------------------------------------------
(* The reader. *)

(* A byte of a slice is a byte, and what stands there counts as a number.  *)
LEMMA ByteFacts ==
  ASSUME HeapInv, NEW s, IsSlice(s), NEW p \in Nat, p < s.len
  PROVE  ByteAt(s, p) \in Byte /\ NumberAt(s, p) \in Nat
<1>1. s.arr \in DOMAIN heap /\ s.off \in Nat /\ s.len \in Nat /\ s.off + s.len <= Capacity(s.arr)
  BY StateFacts DEF IsSlice
<1>2. Capacity(s.arr) \in Nat /\ heap[s.arr] \in [0 .. Capacity(s.arr) - 1 -> Byte]
  BY <1>1 DEF HeapInv
<1>3. s.off + p \in 0 .. Capacity(s.arr) - 1
  BY <1>1, <1>2
<1>4. ByteAt(s, p) \in Byte
  BY <1>2, <1>3 DEF ByteAt
<1>5. ByteAt(s, p) # Junk => ByteAt(s, p)[4] \in Nat
  <2> DEFINE t == ByteAt(s, p)
  <2> SUFFICES ASSUME t # Junk PROVE t[4] \in Nat
    OBVIOUS
  <2>1. t \in Nat \X Nat \X FieldNames \X Nat
    BY <1>4 DEF Byte
  <2> HIDE DEF t
  <2> QED BY <2>1
<1> QED BY <1>4, <1>5 DEF NumberAt

(* BlockLength of a header is a number, if the lengths are there.          *)
LEMMA LengthFacts ==
  ASSUME HeapInv, NEW s, IsSlice(s), NEW p \in Nat, IsHeader(s, p), HasLengths(s, p)
  PROVE  BlockLengthAt(s, p) \in Nat /\ BlockLengthAt(s, p) >= 4
<1> DEFINE t == ByteAt(s, p)
           b == part(t[1], t[2])
           cc == combine(t[1], t[2])
           o == offsetAt(t)
<1>1. s.len \in Nat /\ p + 4 <= s.len /\ t # Junk /\ t[3] \in {"header", "header64"}
  BY DEF IsHeader, IsSlice, headerBytes
<1>2. t \in Byte
  BY <1>1, ByteFacts
<1>3. t[1] \in 1 .. call /\ requests[t[1]].pack \in Packs /\ t[2] \in DOMAIN requests[t[1]].pack.parts
  BY <1>1, <1>2 DEF Byte
<1>4. IsPart(b)
  BY <1>3, PackFacts DEF part
<1>5. /\ b.excCount \in Nat /\ utlPayloadBytes(b.bitWidth) \in Nat /\ excIndexSize(b.excCount) \in Nat
      /\ b.forWidth \in 0 .. 3
  BY <1>4, PartFacts
<1>6. \A fw \in 0 .. 3 : forBaseBytes(fw) \in Nat
  BY DEF forBaseBytes, forWidthNone, forWidthU8, forWidthU16, forWidthU32
<1>7. o \in Nat /\ o >= 4
  <2> DEFINE fw == IF t[3] = "header64" THEN forWidthU32 ELSE b.forWidth
             is64 == requests[t[1]].pack.layout # "uint32"
             base == IF is64 /\ ~cc /\ fw = forWidthU32 THEN for64BaseSize ELSE forBaseBytes(fw)
             l == IF b.excCount > 0 THEN 2 ELSE 0
             k == IF cc THEN 2 ELSE 0
  <2>1. o = payloadOffset(base, b.excCount > 0, cc)
    BY DEF offsetAt
  <2>2. fw \in 0 .. 3
    BY <1>5 DEF forWidthU32
  <2>3. base \in Nat
    BY <1>6, <2>2 DEF for64BaseSize
  <2>4. o = 4 + l + base + k
    BY <2>1 DEF payloadOffset, headerBytes, svbLenBytes, block2LenBytes
  <2>5. l \in Nat /\ k \in Nat
    OBVIOUS
  <2> HIDE DEF base, l, k, o
  <2> QED BY <2>3, <2>4, <2>5
<1>8. b.excCount > 0 => NumberAt(s, p + headerBytes) \in Nat
  <2> SUFFICES ASSUME b.excCount > 0 PROVE NumberAt(s, p + 4) \in Nat
    BY DEF headerBytes
  <2>1. p + 4 + 2 <= s.len
    BY DEF HasLengths, headerBytes, svbLenBytes
  <2>2. p + 4 \in Nat /\ p + 4 < s.len
    BY <1>1, <2>1
  <2> QED BY <2>2, ByteFacts
<1>9. cc => NumberAt(s, p + o - block2LenBytes) \in Nat
  <2> SUFFICES ASSUME cc PROVE NumberAt(s, p + o - 2) \in Nat
    BY DEF block2LenBytes
  <2>1. p + o <= s.len
    BY DEF HasLengths
  <2> DEFINE q == p + o - 2
  <2>2. q \in Nat /\ q < s.len
    BY <1>1, <1>7, <2>1
  <2> HIDE DEF q
  <2>3. NumberAt(s, q) \in Nat
    BY <2>2, ByteFacts
  <2> QED BY <2>3 DEF q
<1> DEFINE x == IF b.excCount > 0 THEN excIndexSize(b.excCount) + NumberAt(s, p + headerBytes) ELSE 0
           y == IF cc THEN NumberAt(s, p + o - block2LenBytes) ELSE 0
<1>10. BlockLengthAt(s, p) = o + utlPayloadBytes(b.bitWidth) + x + y
  BY DEF BlockLengthAt
<1>11. x \in Nat
  BY <1>5, <1>8
<1>12. y \in Nat
  BY <1>9
<1> HIDE DEF o, b, x, y
<1> QED BY <1>5, <1>7, <1>10, <1>11, <1>12

(* A reader takes the caller's slice. *)
LEMMA OpenStream == ASSUME StreamInv, OpenReader PROVE StreamInv' /\ ViewKept
<1>1. /\ ~reading /\ reading' = TRUE /\ view' = dst /\ at' = start
      /\ UNCHANGED <<heap, dst, start, requests, pc, work, off, block1, block2, grown, copied>>
  BY DEF OpenReader, caller, costs
<1>2. HeapInv' /\ UNCHANGED <<call, pack, appends>>
  BY <1>1, HeapStep, StateFacts DEF StreamInv
<1>3. SliceInv'
  <2>1. IsSlice(dst) /\ dst.off = 0 /\ start \in 0 .. dst.len
    BY DEF StreamInv, SliceInv
  <2>2. \A s : IsSlice(s) => IsSlice(s)'
    BY <1>1 DEF IsSlice, Capacity
  <2>3. IsSlice(view)' /\ view'.off = 0 /\ at' \in 0 .. view'.len
    BY <1>1, <2>1 DEF IsSlice, Capacity
  <2> QED BY <1>1, <1>2, <2>3 DEF StreamInv, SliceInv, IsSlice, Capacity
<1>4. ViewInv'
  <2>1. dst.len \in Nat /\ (pc # "idle" => off = dst.len)
    BY DEF StreamInv, SliceInv, IsSlice
  <2> QED BY <1>1, <2>1 DEF ViewInv
<1>5. RoomInv' /\ GrowthInv'
  <2>1. RoomInv'
    BY <1>1 DEF StreamInv, RoomInv, InCall, InPlace, Capacity, insertPos, innerOff, part, call, pack, appends
  <2>2. GrowthInv'
    BY <1>1 DEF StreamInv, GrowthInv, InPlace, cap, Capacity, current, call, pack, appends
  <2> QED BY <2>1, <2>2
<1> QED BY <1>1, <1>2, <1>3, <1>4, <1>5 DEF StreamInv, ViewKept

(* A step of the reader that leaves memory, the caller and its calls alone.*)
LEMMA ReaderStep ==
  ASSUME StreamInv,
         UNCHANGED <<heap, dst, start, requests, pc, work, off, block1, block2, grown, copied>>,
         IF reading' THEN reading /\ view' = view /\ at' \in 0 .. view.len ELSE view' = NoSlice /\ at' = 0
  PROVE  StreamInv' /\ ViewKept
<1>1. HeapInv' /\ UNCHANGED <<call, pack, appends>>
  BY HeapStep, StateFacts DEF StreamInv
<1>2. SliceInv'
  BY <1>1 DEF StreamInv, SliceInv, IsSlice, Capacity
<1>3. ViewInv'
  BY DEF StreamInv, ViewInv
<1>4. RoomInv'
  BY DEF StreamInv, RoomInv, InCall, InPlace, Capacity, insertPos, innerOff, part, call, pack, appends
<1>5. GrowthInv'
  BY DEF StreamInv, GrowthInv, InPlace, cap, Capacity, current, call, pack, appends
<1>6. ViewKept
  BY DEF ViewKept, Bytes
<1> QED BY <1>1, <1>2, <1>3, <1>4, <1>5, <1>6 DEF StreamInv

(* A reader skips a block that it found, and never past its slice.         *)
LEMMA ReadStream == ASSUME StreamInv, ReadBlock PROVE StreamInv' /\ ViewKept
<1> DEFINE n == Found(view, at)
<1>1. /\ reading /\ at < view.len
      /\ at' = IF n = 0 THEN view.len ELSE at + BlockLengthAt(view, at)
      /\ UNCHANGED <<heap, dst, start, requests, pc, work, off, block1, block2, reading, view, grown, copied>>
  BY DEF ReadBlock, caller, costs
<1>2. HeapInv /\ IsSlice(view) /\ at \in 0 .. view.len /\ view.len \in Nat
  BY <1>1 DEF StreamInv, SliceInv, IsSlice
<1>3. at' \in 0 .. view.len
  <2>1. CASE n = 0
    BY <1>1, <1>2, <2>1
  <2>2. CASE n # 0
    <3>1. IsHeader(view, at) /\ HasLengths(view, at) /\ at + BlockLengthAt(view, at) <= view.len
      BY <2>2 DEF Found
    <3>2. at \in Nat
      BY <1>2
    <3>3. BlockLengthAt(view, at) \in Nat
      BY <1>2, <3>1, <3>2, LengthFacts
    <3> HIDE DEF n
    <3> QED BY <1>1, <1>2, <2>2, <3>1, <3>2, <3>3
  <2> QED BY <2>1, <2>2
<1> QED BY <1>1, <1>3, ReaderStep

(* A reader that is through gives its slice back.                          *)
LEMMA CloseStream == ASSUME StreamInv, CloseReader PROVE StreamInv' /\ ViewKept
BY ReaderStep DEF CloseReader, caller, costs

-----------------------------------------------------------------------------
(* What follows for handed-out bytes and for growth. *)

(* Every step keeps the invariant and what a reader holds.                 *)
LEMMA StreamNext == ASSUME StreamInv, [Next]_vars PROVE StreamInv' /\ ViewKept
<1>1. CASE Reject
  BY <1>1, RejectStream
<1>2. CASE \E r \in Packs, append \in BOOLEAN : StartPack(r, append)
  <2>1. PICK r \in Packs, append \in BOOLEAN : StartPack(r, append)
    BY <1>2
  <2> QED BY <2>1, StartStream
<1>3. CASE EnsureCapacity
  BY <1>3, EnsureStream
<1>4. CASE PackFirst
  BY <1>4, FirstStream
<1>5. CASE WrapFor64
  BY <1>5, WrapStream
<1>6. CASE PackSecond
  BY <1>6, SecondStream
<1>7. CASE LinkBlocks
  BY <1>7, LinkStream
<1>8. CASE ReturnSlice
  BY <1>8, ReturnStream
<1>9. CASE OpenReader
  BY <1>9, OpenStream
<1>10. CASE ReadBlock
  BY <1>10, ReadStream
<1>11. CASE CloseReader
  BY <1>11, CloseStream
<1>12. CASE UNCHANGED vars
  <2>1. /\ UNCHANGED <<heap, dst, start, requests, pc, work, off, block1, block2, grown, copied>>
        /\ UNCHANGED <<reading, view, at>>
    BY <1>12 DEF vars
  <2>2. IF reading' THEN reading /\ view' = view /\ at' \in 0 .. view.len ELSE view' = NoSlice /\ at' = 0
    BY <2>1 DEF StreamInv, SliceInv
  <2> QED BY <2>1, <2>2, ReaderStep
<1> QED BY <1>1, <1>2, <1>3, <1>4, <1>5, <1>6, <1>7, <1>8, <1>9, <1>10, <1>11, <1>12 DEF Next

(* For buffers and packs of any shape and any number of calls: the slices  *)
(* of the caller, of a call and of the reader lie in their arrays, a call  *)
(* writes behind the slice it was given, in the room that Append made once *)
(* at its start, and what growing has cost is bounded (pack.go:26-63,      *)
(* uint64.go:20-44 and 120-184).                                           *)
THEOREM StreamInvariance == Spec => []StreamInv
<1>1. StreamInv /\ [Next]_vars => StreamInv'
  BY StreamNext
<1> QED BY <1>1, InitStream, PTL DEF Spec

(* A slice that was handed out keeps its bytes for as long as someone      *)
(* reads it, whatever is appended behind it (pack.go:61-63,                *)
(* uint64.go:120-184).                                                     *)
THEOREM SnapshotsKept == Spec => SnapshotKept
<1> DEFINE Kept1 == reading /\ reading' => view' = view /\ Bytes(view, view.len)' = Bytes(view, view.len)
<1>1. StreamInv /\ [Next]_vars => [Kept1]_vars
  BY StreamNext DEF ViewKept
<1>2. [][Kept1]_vars <=> SnapshotKept
  BY PTL DEF SnapshotKept
<1> QED BY <1>1, <1>2, StreamInvariance, PTL DEF Spec

(* Whatever was appended, the bytes that growing has copied and the arrays *)
(* it has made are those of a buffer that doubles, and the buffer is no    *)
(* longer than twice what it holds and one more call needs (pack.go:35-40, *)
(* uint64.go:26-29).                                                       *)
THEOREM GrowthIsAmortized == Spec => []GrowthAmortized
<1>1. ASSUME StreamInv PROVE GrowthAmortized
  <2> SUFFICES ASSUME pc = "idle", grown > 0 PROVE GrowthAmortized
    BY DEF GrowthAmortized
  <2> DEFINE P == 2 ^ (grown - 1) * leastNeeded <= cap(dst)
  <2>1. copied <= cap(dst) /\ P /\ cap(dst) <= 2 * (dst.len + mostNeeded)
    BY <1>1 DEF StreamInv, GrowthInv, current, Amortized
  <2> HIDE DEF P
  <2> QED BY <2>1 DEF GrowthAmortized, P
<1> QED BY <1>1, StreamInvariance, PTL

-----------------------------------------------------------------------------
(* The bytes of a block, and what is read off them. *)

(* r is s, of p bytes, and t, of c bytes, behind it.                       *)
Behind(r, s, t, p, c, B) ==
  /\ r \in Seq(B) /\ Len(r) = p + c /\ p \in Nat /\ c \in Nat /\ DOMAIN r = 1 .. p + c
  /\ \A k \in 1 .. p : r[k] = s[k]
  /\ \A k \in 1 .. c : r[p + k] = t[k]

LEMMA JoinedOn ==
  ASSUME NEW B, NEW s, NEW t, NEW r, r = s \o t, s \in Seq(B), t \in Seq(B),
         NEW p, Len(s) = p, NEW c, Len(t) = c
  PROVE  Behind(r, s, t, p, c, B)
<1>1. /\ s \o t \in Seq(B) /\ Len(s \o t) = Len(s) + Len(t)
      /\ \A k \in 1 .. Len(s) + Len(t) : (s \o t)[k] = IF k <= Len(s) THEN s[k] ELSE t[k - Len(s)]
  BY ConcatProperties
<1>2. Len(s) \in Nat /\ Len(t) \in Nat /\ DOMAIN (s \o t) = 1 .. Len(s \o t)
  BY <1>1, LenProperties
<1>3. /\ r \in Seq(B) /\ Len(r) = p + c /\ p \in Nat /\ c \in Nat /\ DOMAIN r = 1 .. p + c
      /\ \A k \in 1 .. p + c : r[k] = IF k <= p THEN s[k] ELSE t[k - p]
  BY <1>1, <1>2
<1>4. ASSUME NEW k \in 1 .. p PROVE r[k] = s[k]
  BY <1>3
<1>5. ASSUME NEW k \in 1 .. c PROVE r[p + k] = t[k]
  <2>1. p + k \in 1 .. p + c /\ ~(p + k <= p) /\ p + k - p = k
    BY <1>3
  <2> QED BY <1>3, <2>1
<1> QED BY <1>3, <1>4, <1>5 DEF Behind

(* Four sequences. *)
Behind4(s, s1, s2, s3, s4, a, b, c, d, B) ==
  /\ s \in Seq(B) /\ Len(s) = a + b + c + d
  /\ a \in Nat /\ b \in Nat /\ c \in Nat /\ d \in Nat
  /\ \A k \in 1 .. a : s[k] = s1[k]
  /\ \A k \in 1 .. b : s[a + k] = s2[k]
  /\ \A k \in 1 .. c : s[a + b + k] = s3[k]
  /\ \A k \in 1 .. d : s[a + b + c + k] = s4[k]

LEMMA Joined4 ==
  ASSUME NEW B, NEW s1 \in Seq(B), NEW s2 \in Seq(B), NEW s3 \in Seq(B), NEW s4 \in Seq(B),
         NEW a, NEW b, NEW c, NEW d, Len(s1) = a, Len(s2) = b, Len(s3) = c, Len(s4) = d,
         NEW s, s = s1 \o s2 \o s3 \o s4
  PROVE  Behind4(s, s1, s2, s3, s4, a, b, c, d, B)
<1> DEFINE u == s1 \o s2
           v == u \o s3
<1>2. u = s1 \o s2 /\ v = u \o s3 /\ s = v \o s4
  OBVIOUS
<1> HIDE DEF u, v
<1>11. Behind(u, s1, s2, a, b, B)
  BY <1>2, JoinedOn
<1>1. /\ u \in Seq(B) /\ Len(u) = a + b /\ a \in Nat /\ b \in Nat
      /\ \A k \in 1 .. a : u[k] = s1[k]
      /\ \A k \in 1 .. b : u[a + k] = s2[k]
  BY <1>11 DEF Behind
<1>13. Behind(v, u, s3, a + b, c, B)
  BY <1>1, <1>2, JoinedOn
<1>3. /\ v \in Seq(B) /\ Len(v) = (a + b) + c /\ c \in Nat
      /\ \A k \in 1 .. a + b : v[k] = u[k]
      /\ \A k \in 1 .. c : v[(a + b) + k] = s3[k]
  BY <1>13 DEF Behind
<1>14. Behind(s, v, s4, (a + b) + c, d, B)
  BY <1>2, <1>3, JoinedOn
<1>4. /\ s \in Seq(B) /\ Len(s) = ((a + b) + c) + d /\ d \in Nat
      /\ \A k \in 1 .. (a + b) + c : s[k] = v[k]
      /\ \A k \in 1 .. d : s[((a + b) + c) + k] = s4[k]
  BY <1>14 DEF Behind
<1>5. ASSUME NEW k \in 1 .. a PROVE s[k] = s1[k]
  <2>1. k \in 1 .. a + b /\ k \in 1 .. a + b + c
    BY <1>1, <1>3
  <2> QED BY <1>1, <1>3, <1>4, <2>1
<1>6. ASSUME NEW k \in 1 .. b PROVE s[a + k] = s2[k]
  <2>1. a + k \in 1 .. a + b /\ a + k \in 1 .. a + b + c
    BY <1>1, <1>3
  <2> QED BY <1>1, <1>3, <1>4, <2>1
<1>7. ASSUME NEW k \in 1 .. c PROVE s[a + b + k] = s3[k]
  <2>1. a + b + k \in 1 .. a + b + c
    BY <1>1, <1>3
  <2> QED BY <1>1, <1>3, <1>4, <2>1
<1> QED BY <1>1, <1>3, <1>4, <1>5, <1>6, <1>7 DEF Behind4

-----------------------------------------------------------------------------
(* The bytes of a pack, one by one. *)

(* What may be written: bytes, and places that are left open.              *)
Code == (Nat \X Nat \X FieldNames \X Nat) \cup {Keep}

(* A field of size bytes, the bytes of which the value counts or repeats.  *)
IsField(s, n, i, name, size) ==
  s \in Seq(Code) /\ Len(s) = size /\ \A k \in 1 .. size : s[k] = <<n, i, name, k>>
IsNumber(s, n, i, name, val) ==
  s \in Seq(Code) /\ Len(s) = 2 /\ \A k \in 1 .. 2 : s[k] = <<n, i, name, val>>

LEMMA FieldAt ==
  ASSUME NEW n \in Nat, NEW i \in Nat, NEW name \in FieldNames, NEW size \in Nat
  PROVE  /\ IsField(Field(n, i, name, size), n, i, name, size)
         /\ IsNumber(Number(n, i, name, size), n, i, name, size)
<1>1. ASSUME NEW k \in Nat PROVE <<n, i, name, k>> \in Code
  BY DEF Code
<1> HIDE DEF Code
<1>2. Field(n, i, name, size) \in [1 .. size -> Code] /\ DOMAIN Field(n, i, name, size) = 1 .. size
      /\ \A k \in 1 .. size : Field(n, i, name, size)[k] = <<n, i, name, k>>
  BY <1>1 DEF Field
<1>3. Number(n, i, name, size) \in [1 .. 2 -> Code] /\ DOMAIN Number(n, i, name, size) = 1 .. 2
      /\ \A k \in 1 .. 2 : Number(n, i, name, size)[k] = <<n, i, name, size>>
  BY <1>1 DEF Number
<1>4. Field(n, i, name, size) \in Seq(Code) /\ Number(n, i, name, size) \in Seq(Code)
  BY <1>2, <1>3, SeqDef
<1>5. Len(Field(n, i, name, size)) = size
  BY <1>2, <1>4, LenProperties
<1>6. Len(Number(n, i, name, size)) = 2
  BY <1>3, <1>4, LenProperties
<1> QED BY <1>2, <1>3, <1>4, <1>5, <1>6 DEF IsField, IsNumber

svbLenSize(n, i) == IF part(n, i).excCount > 0 THEN 2 ELSE 0
payloadLen(n, i) ==
  utlPayloadBytes(part(n, i).bitWidth) + excIndexSize(part(n, i).excCount) + part(n, i).svbLen

(* What belongs to the payload. *)
PayloadByte(t) == t # Keep /\ t # Junk /\ t[3] \in {"payload", "index", "svb"}

LEMMA PayloadAt ==
  ASSUME NEW n \in Nat, NEW i \in Nat, IsPart(part(n, i))
  PROVE  /\ PayloadOnwards(n, i) \in Seq(Code) /\ Len(PayloadOnwards(n, i)) = payloadLen(n, i)
         /\ \A k \in 1 .. payloadLen(n, i) : PayloadByte(PayloadOnwards(n, i)[k])
<1> DEFINE v == utlPayloadBytes(part(n, i).bitWidth)
           w == excIndexSize(part(n, i).excCount)
           x == part(n, i).svbLen
           F == Nat \X Nat \X {"payload", "index", "svb"} \X Nat
           p1 == Field(n, i, "payload", v)
           p2 == Field(n, i, "index", w)
           p3 == Field(n, i, "svb", x)
<1>1. v \in Nat /\ w \in Nat /\ x \in Nat
  BY PartFacts
<1>2. /\ p1 \in [1 .. v -> F] /\ DOMAIN p1 = 1 .. v
      /\ p2 \in [1 .. w -> F] /\ DOMAIN p2 = 1 .. w
      /\ p3 \in [1 .. x -> F] /\ DOMAIN p3 = 1 .. x
  BY <1>1 DEF Field
<1>3. PayloadOnwards(n, i) = p1 \o p2 \o p3 /\ payloadLen(n, i) = v + w + x
  BY DEF PayloadOnwards, payloadLen
<1>7. F \in SUBSET Code /\ \A t \in F : PayloadByte(t)
  <2>1. F \in SUBSET Code
    BY DEF Code, FieldNames
  <2>2. ASSUME NEW t \in F PROVE PayloadByte(t)
    BY DEF PayloadByte, Keep, Junk
  <2> QED BY <2>1, <2>2
<1> HIDE DEF F, p1, p2, p3, v, w, x
<1>4. /\ p1 \in Seq(F) /\ Len(p1) = v /\ p2 \in Seq(F) /\ Len(p2) = w /\ p3 \in Seq(F) /\ Len(p3) = x
  <2>1. p1 \in Seq(F) /\ p2 \in Seq(F) /\ p3 \in Seq(F)
    BY <1>1, <1>2, SeqDef
  <2> QED BY <1>1, <1>2, <2>1, LenProperties
<1>5. p1 \o p2 \in Seq(F) /\ Len(p1 \o p2) = v + w
  BY <1>4, ConcatProperties
<1>6. PayloadOnwards(n, i) \in Seq(F) /\ Len(PayloadOnwards(n, i)) = v + w + x
  <2> DEFINE q == p1 \o p2
  <2>1. q \in Seq(F) /\ Len(q) = v + w /\ PayloadOnwards(n, i) = q \o p3
    BY <1>3, <1>5
  <2> HIDE DEF q
  <2>2. q \o p3 \in Seq(F) /\ Len(q \o p3) = Len(q) + Len(p3)
    BY <1>4, <2>1, ConcatProperties
  <2> QED BY <1>1, <1>4, <2>1, <2>2
<1>8. PayloadOnwards(n, i) \in [1 .. v + w + x -> F]
  BY <1>6, LenProperties
<1>9. PayloadOnwards(n, i) \in Seq(Code)
  <2>1. PayloadOnwards(n, i) \in [1 .. v + w + x -> Code]
    BY <1>7, <1>8
  <2>2. v + w + x \in Nat
    BY <1>1
  <2> QED BY <2>1, <2>2, SeqDef
<1> QED BY <1>3, <1>6, <1>7, <1>8, <1>9

(* The layout of a sub-block: its header h, and base f of u bytes, with    *)
(* what stands between them and in front of the payload.                   *)
Laid(code, n, i, h, f, u, mid) ==
  LET l == svbLenSize(n, i) m == Len(mid) d == payloadLen(n, i)
  IN  /\ code \in Seq(Code) /\ Len(code) = 4 + l + u + m + d
      /\ l \in Nat /\ u \in Nat /\ m \in Nat /\ d \in Nat
      /\ \A k \in 1 .. 4 : code[k] = <<n, i, h, k>>
      /\ \A k \in 1 .. l : code[4 + k] = <<n, i, "svbLen", part(n, i).svbLen>>
      /\ \A k \in 1 .. u : code[4 + l + k] = <<n, i, f, k>>
      /\ \A k \in 1 .. m : code[4 + l + u + k] = mid[k]
      /\ \A k \in 1 .. d : code[4 + l + u + m + k] = PayloadOnwards(n, i)[k]

LEMMA LaidOut ==
  ASSUME NEW n \in Nat, NEW i \in Nat, IsPart(part(n, i)), NEW h \in FieldNames, NEW f \in FieldNames,
         NEW u \in Nat, NEW mid \in Seq(Code), NEW code,
         code = Field(n, i, h, headerBytes) \o svbLenField(n, i) \o Field(n, i, f, u) \o mid
                  \o PayloadOnwards(n, i)
  PROVE  Laid(code, n, i, h, f, u, mid)
<1> DEFINE s1 == Field(n, i, h, headerBytes)
           s2 == svbLenField(n, i)
           s3 == Field(n, i, f, u)
           tail == PayloadOnwards(n, i)
           front == s1 \o s2 \o s3 \o mid
           l == svbLenSize(n, i)
           m == Len(mid)
           d == payloadLen(n, i)
           num == part(n, i).svbLen
<1>1. s1 \in Seq(Code) /\ Len(s1) = 4 /\ \A k \in 1 .. 4 : s1[k] = <<n, i, h, k>>
  <2>1. IsField(s1, n, i, h, 4)
    BY FieldAt DEF headerBytes
  <2> QED BY <2>1 DEF IsField
<1>2. s3 \in Seq(Code) /\ Len(s3) = u /\ \A k \in 1 .. u : s3[k] = <<n, i, f, k>>
  <2>1. IsField(s3, n, i, f, u)
    BY FieldAt
  <2> QED BY <2>1 DEF IsField
<1>3. s2 \in Seq(Code) /\ Len(s2) = l /\ \A k \in 1 .. l : s2[k] = <<n, i, "svbLen", num>>
  <2> DEFINE N == Number(n, i, "svbLen", num)
  <2>1. N \in Seq(Code) /\ Len(N) = 2 /\ \A k \in 1 .. 2 : N[k] = <<n, i, "svbLen", num>>
    <3>1. "svbLen" \in FieldNames /\ num \in Nat
      BY PartFacts DEF FieldNames
    <3>2. IsNumber(N, n, i, "svbLen", num)
      BY <3>1, FieldAt
    <3> QED BY <3>2 DEF IsNumber
  <2>2. s2 = IF part(n, i).excCount > 0 THEN N ELSE <<>>
    BY DEF svbLenField
  <2>3. CASE part(n, i).excCount > 0
    <3> HIDE DEF N
    <3> QED BY <2>1, <2>2, <2>3 DEF svbLenSize
  <2>4. CASE ~(part(n, i).excCount > 0)
    <3>1. s2 = <<>> /\ l = 0
      BY <2>2, <2>4 DEF svbLenSize
    <3> HIDE DEF s2, l
    <3> QED BY <3>1
  <2> QED BY <2>3, <2>4
<1>4. tail \in Seq(Code) /\ Len(tail) = d
  BY PayloadAt
<1>5. code = front \o tail
  OBVIOUS
<1> HIDE DEF s1, s2, s3, tail, l, d, num
<1>6. /\ front \in Seq(Code) /\ Len(front) = 4 + l + u + m
      /\ l \in Nat /\ m \in Nat
      /\ \A k \in 1 .. 4 : front[k] = s1[k]
      /\ \A k \in 1 .. l : front[4 + k] = s2[k]
      /\ \A k \in 1 .. u : front[4 + l + k] = s3[k]
      /\ \A k \in 1 .. m : front[4 + l + u + k] = mid[k]
  <2>1. Len(mid) = m
    OBVIOUS
  <2>2. front = s1 \o s2 \o s3 \o mid
    BY DEF front
  <2> HIDE DEF front, m
  <2>3. Behind4(front, s1, s2, s3, mid, 4, l, u, m, Code)
    BY <1>1, <1>2, <1>3, <2>1, <2>2, Joined4
  <2> QED BY <2>3 DEF Behind4
<1> HIDE DEF front, m
<1> DEFINE z == 4 + l + u + m
<1>7. Behind(code, front, tail, z, d, Code)
  <2>1. Len(front) = z
    BY <1>6
  <2> HIDE DEF z
  <2> QED BY <1>4, <1>5, <1>6, <2>1, JoinedOn
<1>8. /\ code \in Seq(Code) /\ Len(code) = z + d /\ d \in Nat
      /\ \A k \in 1 .. z : code[k] = front[k]
      /\ \A k \in 1 .. d : code[z + k] = tail[k]
  BY <1>7 DEF Behind
<1>9. \A k \in 1 .. 4 : code[k] = <<n, i, h, k>>
  <2> SUFFICES ASSUME NEW k \in 1 .. 4 PROVE code[k] = <<n, i, h, k>>
    OBVIOUS
  <2>1. k \in 1 .. z
    BY <1>6
  <2> QED BY <1>1, <1>6, <1>8, <2>1
<1>10. \A k \in 1 .. l : code[4 + k] = <<n, i, "svbLen", num>>
  <2> SUFFICES ASSUME NEW k \in 1 .. l PROVE code[4 + k] = <<n, i, "svbLen", num>>
    OBVIOUS
  <2>1. 4 + k \in 1 .. z
    BY <1>6
  <2> QED BY <1>3, <1>6, <1>8, <2>1
<1>11. \A k \in 1 .. u : code[4 + l + k] = <<n, i, f, k>>
  <2> SUFFICES ASSUME NEW k \in 1 .. u PROVE code[4 + l + k] = <<n, i, f, k>>
    OBVIOUS
  <2>1. 4 + l + k \in 1 .. z
    BY <1>6
  <2> QED BY <1>2, <1>6, <1>8, <2>1
<1>12. \A k \in 1 .. m : code[4 + l + u + k] = mid[k]
  <2> SUFFICES ASSUME NEW k \in 1 .. m PROVE code[4 + l + u + k] = mid[k]
    OBVIOUS
  <2>1. 4 + l + u + k \in 1 .. z
    BY <1>6
  <2> QED BY <1>6, <1>8, <2>1
<1> QED BY <1>6, <1>8, <1>9, <1>10, <1>11, <1>12 DEF Laid, l, m, d, num, tail

(* What is not the first byte of a block's code, nor left open.            *)
Inner(t) == t # Keep /\ ~Begins(t)

LEMMA InnerField ==
  ASSUME NEW n \in Nat, NEW i \in Nat, NEW name \in FieldNames, NEW k \in Nat,
         name \notin {"header", "header64"} \/ i # 1 \/ k # 1
  PROVE  Inner(<<n, i, name, k>>)
BY DEF Inner, Keep, Begins, Junk

LEMMA HeadOnly ==
  ASSUME NEW n \in Nat, NEW i \in Nat, NEW h \in FieldNames, NEW f \in FieldNames \ {"header", "header64"},
         NEW u, NEW mid, NEW code, Laid(code, n, i, h, f, u, mid), IsPart(part(n, i)),
         \A k \in 1 .. Len(mid) : Inner(mid[k])
  PROVE  /\ \A k \in 1 .. Len(code) : k # 1 \/ i # 1 => Inner(code[k])
         /\ code[1] # Keep /\ 1 <= Len(code)
<1> DEFINE l == svbLenSize(n, i)
           m == Len(mid)
           d == payloadLen(n, i)
           num == part(n, i).svbLen
           tail == PayloadOnwards(n, i)
<1>1. /\ code \in Seq(Code) /\ Len(code) = 4 + l + u + m + d
      /\ l \in Nat /\ u \in Nat /\ m \in Nat /\ d \in Nat
      /\ \A k \in 1 .. 4 : code[k] = <<n, i, h, k>>
      /\ \A k \in 1 .. l : code[4 + k] = <<n, i, "svbLen", num>>
      /\ \A k \in 1 .. u : code[4 + l + k] = <<n, i, f, k>>
      /\ \A k \in 1 .. m : code[4 + l + u + k] = mid[k]
      /\ \A k \in 1 .. d : code[4 + l + u + m + k] = tail[k]
  BY DEF Laid
<1>2. \A k \in 1 .. d : Inner(tail[k])
  <2> SUFFICES ASSUME NEW k \in 1 .. d PROVE Inner(tail[k])
    OBVIOUS
  <2>1. PayloadByte(tail[k])
    BY PayloadAt
  <2> HIDE DEF tail
  <2> QED BY <2>1 DEF PayloadByte, Inner, Begins
<1>3. num \in Nat /\ "svbLen" \in FieldNames
  BY PartFacts DEF FieldNames
<1>4. \A k \in 1 .. m : Inner(mid[k])
  OBVIOUS
<1> HIDE DEF l, m, d, num, tail
<1>5. ASSUME NEW k \in 1 .. Len(code), k # 1 \/ i # 1 PROVE Inner(code[k])
  <2>1. CASE k <= 4
    <3>1. code[k] = <<n, i, h, k>>
      BY <1>1, <2>1
    <3> QED BY <1>5, <3>1, InnerField
  <2>2. CASE 4 < k /\ k <= 4 + l
    <3>1. PICK j \in 1 .. l : k = 4 + j
      <4>1. k - 4 \in 1 .. l /\ k = 4 + (k - 4)
        BY <1>1, <2>2
      <4> QED BY <4>1
    <3>2. code[k] = <<n, i, "svbLen", num>>
      BY <1>1, <3>1
    <3> QED BY <1>3, <3>2, InnerField
  <2>3. CASE 4 + l < k /\ k <= 4 + l + u
    <3>1. PICK j \in 1 .. u : k = 4 + l + j
      <4>1. k - (4 + l) \in 1 .. u /\ k = 4 + l + (k - (4 + l))
        BY <1>1, <2>3
      <4> QED BY <4>1
    <3>2. code[k] = <<n, i, f, j>> /\ j \in Nat
      BY <1>1, <3>1
    <3> QED BY <3>2, InnerField
  <2>4. CASE 4 + l + u < k /\ k <= 4 + l + u + m
    <3>1. PICK j \in 1 .. m : k = 4 + l + u + j
      <4>1. k - (4 + l + u) \in 1 .. m /\ k = 4 + l + u + (k - (4 + l + u))
        BY <1>1, <2>4
      <4> QED BY <4>1
    <3>2. code[k] = mid[j]
      BY <1>1, <3>1
    <3> QED BY <1>4, <3>1, <3>2
  <2>5. CASE 4 + l + u + m < k
    <3>1. PICK j \in 1 .. d : k = 4 + l + u + m + j
      <4>1. k - (4 + l + u + m) \in 1 .. d /\ k = 4 + l + u + m + (k - (4 + l + u + m))
        BY <1>1, <2>5
      <4> QED BY <4>1
    <3>2. code[k] = tail[j]
      BY <1>1, <3>1
    <3> QED BY <1>2, <3>1, <3>2
  <2> QED BY <1>1, <2>1, <2>2, <2>3, <2>4, <2>5
<1>6. code[1] # Keep /\ 1 <= Len(code)
  <2>1. code[1] = <<n, i, h, 1>>
    BY <1>1
  <2> QED BY <1>1, <2>1 DEF Keep
<1> QED BY <1>5, <1>6

(* What packBlock returns, and what FOR64 makes of it, are laid out so.    *)
LEMMA BlockLaid ==
  ASSUME NEW n \in Nat, NEW i \in Nat, IsPart(part(n, i)), NEW len2 \in Seq(Code)
  PROVE  Laid(BlockBytes(n, i, len2), n, i, "header", "base", forBaseBytes(part(n, i).forWidth),
              IF combine(n, i) THEN len2 ELSE <<>>)
<1> DEFINE u == forBaseBytes(part(n, i).forWidth)
           mid == IF combine(n, i) THEN len2 ELSE <<>>
           code == BlockBytes(n, i, len2)
<1>1. u \in Nat
  BY PartFacts
<1>2. mid \in Seq(Code)
  BY EmptySeq
<1>3. code = Field(n, i, "header", headerBytes) \o svbLenField(n, i) \o Field(n, i, "base", u) \o mid
               \o PayloadOnwards(n, i)
  BY DEF BlockBytes
<1>4. "header" \in FieldNames /\ "base" \in FieldNames
  BY DEF FieldNames
<1> HIDE DEF u, mid, code
<1>5. Laid(code, n, i, "header", "base", u, mid)
  BY <1>1, <1>2, <1>3, <1>4, LaidOut
<1> QED BY <1>5 DEF u, mid, code

LEMMA WideLaid ==
  ASSUME NEW n \in Nat, IsPart(part(n, 1)), requests[n].pack.layout = "for64"
  PROVE  Laid(Encoded(n), n, 1, "header64", "base64", 8, <<>>)
<1> DEFINE s1 == Field(n, 1, "header64", headerBytes)
           s2 == svbLenField(n, 1)
           s3 == Field(n, 1, "base64", 8)
           tail == PayloadOnwards(n, 1)
           code == Encoded(n)
<1>1. code = s1 \o s2 \o s3 \o tail
  BY DEF Encoded, for64BaseSize
<1>2. "header64" \in FieldNames /\ "base64" \in FieldNames /\ "svbLen" \in FieldNames
  BY DEF FieldNames
<1>3. s1 \in Seq(Code) /\ s3 \in Seq(Code)
  <2>1. IsField(s1, n, 1, "header64", headerBytes) /\ IsField(s3, n, 1, "base64", 8)
    BY <1>2, FieldAt DEF headerBytes
  <2> QED BY <2>1 DEF IsField
<1>4. s2 \in Seq(Code)
  <2> DEFINE N == Number(n, 1, "svbLen", part(n, 1).svbLen)
  <2>1. IsNumber(N, n, 1, "svbLen", part(n, 1).svbLen)
    BY <1>2, PartFacts, FieldAt
  <2>2. N \in Seq(Code)
    BY <2>1 DEF IsNumber
  <2> HIDE DEF N
  <2> QED BY <2>2, EmptySeq DEF svbLenField, N
<1> HIDE DEF s1, s2, s3, tail, code
<1>5. s1 \o s2 \o s3 = s1 \o s2 \o s3 \o <<>>
  <2> DEFINE q == s1 \o s2 \o s3
  <2>1. s1 \o s2 \in Seq(Code)
    BY <1>3, <1>4, ConcatProperties
  <2>2. q \in Seq(Code)
    BY <1>3, <2>1, ConcatProperties
  <2> HIDE DEF q
  <2>3. q \o <<>> = q
    BY <2>2, ConcatEmptySeq
  <2> QED BY <2>3 DEF q
<1>6. code = Field(n, 1, "header64", headerBytes) \o svbLenField(n, 1) \o Field(n, 1, "base64", 8) \o <<>>
               \o PayloadOnwards(n, 1)
  BY <1>1, <1>5 DEF s1, s2, s3, tail
<1>7. <<>> \in Seq(Code)
  BY EmptySeq
<1>8. Laid(code, n, 1, "header64", "base64", 8, <<>>)
  BY <1>2, <1>6, <1>7, LaidOut
<1> QED BY <1>8 DEF code

(* What a reader relies on: where it finds the lengths of a block that     *)
(* begins with a header of kind h, and that no other begins inside.        *)
secondLen(n) == Len(BlockBytes(n, 2, <<>>))

Readable(n, h) ==
  LET code == Encoded(n)
      o    == offsetAt(<<n, 1, h, 1>>)
      l    == svbLenSize(n, 1)
  IN  /\ h \in {"header", "header64"} /\ code \in Seq(Code) /\ Len(code) \in Nat
      /\ o \in Nat /\ l \in Nat /\ 4 + l <= o /\ o <= Len(code)
      /\ \A k \in 1 .. 4 : code[k] = <<n, 1, h, k>>
      /\ part(n, 1).excCount > 0 => code[5] = <<n, 1, "svbLen", part(n, 1).svbLen>>
      /\ combine(n, 1) => 4 + l + 2 <= o /\ code[o - 1] = <<n, 1, "block2Len", secondLen(n)>>
      /\ Len(code) = o + payloadLen(n, 1) + IF combine(n, 1) THEN secondLen(n) ELSE 0
      /\ payloadLen(n, 1) \in Nat /\ (combine(n, 1) => secondLen(n) \in Nat)
      /\ code[1] # Keep /\ \A k \in 2 .. Len(code) : Inner(code[k])

(* A block of one sub-block. *)
LEMMA SingleReadable ==
  ASSUME NEW n \in Nat, IsPart(part(n, 1)), NEW h \in {"header", "header64"},
         NEW f \in FieldNames \ {"header", "header64"}, NEW u, Laid(Encoded(n), n, 1, h, f, u, <<>>),
         ~combine(n, 1), offsetAt(<<n, 1, h, 1>>) = payloadOffset(u, part(n, 1).excCount > 0, FALSE)
  PROVE  Readable(n, h)
<1> DEFINE code == Encoded(n)
           l == svbLenSize(n, 1)
           d == payloadLen(n, 1)
           o == offsetAt(<<n, 1, h, 1>>)
           num == part(n, 1).svbLen
<1>1. /\ code \in Seq(Code) /\ Len(code) = 4 + l + u + 0 + d
      /\ l \in Nat /\ u \in Nat /\ d \in Nat
      /\ \A k \in 1 .. 4 : code[k] = <<n, 1, h, k>>
      /\ \A k \in 1 .. l : code[4 + k] = <<n, 1, "svbLen", num>>
  BY DEF Laid
<1>2. o = 4 + l + u + 0
  BY DEF payloadOffset, headerBytes, svbLenBytes, svbLenSize
<1>3. /\ \A k \in 1 .. Len(code) : k # 1 \/ 1 # 1 => Inner(code[k])
      /\ code[1] # Keep
  <2>1. h \in FieldNames
    BY DEF FieldNames
  <2>2. \A k \in 1 .. Len(<<>>) : Inner(<<>>[k])
    OBVIOUS
  <2> QED BY <2>1, <2>2, HeadOnly
<1>4. part(n, 1).excCount > 0 => code[5] = <<n, 1, "svbLen", num>>
  <2> SUFFICES ASSUME part(n, 1).excCount > 0 PROVE code[5] = <<n, 1, "svbLen", num>>
    OBVIOUS
  <2>1. l = 2
    BY DEF svbLenSize
  <2> HIDE DEF code, l, num
  <2>2. 1 \in 1 .. l
    BY <2>1
  <2>3. code[4 + 1] = <<n, 1, "svbLen", num>>
    BY <1>1, <2>2
  <2> QED BY <2>3
<1> HIDE DEF code, l, d, o, num
<1>5. o \in Nat /\ Len(code) \in Nat /\ 4 + l <= o /\ o <= Len(code) /\ Len(code) = o + d + 0
  BY <1>1, <1>2
<1>6. \A k \in 2 .. Len(code) : Inner(code[k])
  BY <1>3
<1> QED BY <1>1, <1>3, <1>4, <1>5, <1>6 DEF Readable, code, l, d, o, num

(* A block of two. *)
LEMMA PairReadable ==
  ASSUME NEW n \in Nat, IsPart(part(n, 1)), IsPart(part(n, 2)), requests[n].pack.layout = "pair"
  PROVE  Readable(n, "header")
<1> DEFINE s2 == BlockBytes(n, 2, <<>>)
           z == secondLen(n)
           len2 == Number(n, 1, "block2Len", z)
           s1 == BlockBytes(n, 1, len2)
           code == Encoded(n)
           l == svbLenSize(n, 1)
           u == forBaseBytes(part(n, 1).forWidth)
           d == payloadLen(n, 1)
           o == offsetAt(<<n, 1, "header", 1>>)
           num == part(n, 1).svbLen
<1>0. combine(n, 1) /\ ~combine(n, 2) /\ code = s1 \o s2
  BY DEF combine, Encoded, secondLen
<1>1. "header" \in FieldNames /\ "base" \in FieldNames \ {"header", "header64"}
  BY DEF FieldNames
<1>2. Laid(s2, n, 2, "header", "base", forBaseBytes(part(n, 2).forWidth), <<>>)
  <2>1. <<>> \in Seq(Code)
    BY EmptySeq
  <2> QED BY <1>0, <2>1, BlockLaid
<1>3. s2 \in Seq(Code) /\ Len(s2) = z /\ z \in Nat /\ \A k \in 1 .. z : Inner(s2[k])
  <2>1. \A k \in 1 .. Len(<<>>) : Inner(<<>>[k])
    OBVIOUS
  <2>2. \A k \in 1 .. Len(s2) : k # 1 \/ 2 # 1 => Inner(s2[k])
    BY <1>1, <1>2, <2>1, HeadOnly
  <2>3. s2 \in Seq(Code)
    BY <1>2 DEF Laid
  <2> HIDE DEF s2
  <2> QED BY <2>2, <2>3, LenProperties DEF secondLen, s2
<1>4. len2 \in Seq(Code) /\ Len(len2) = 2 /\ \A k \in 1 .. 2 : len2[k] = <<n, 1, "block2Len", z>>
  <2>1. "block2Len" \in FieldNames
    BY DEF FieldNames
  <2>2. IsNumber(len2, n, 1, "block2Len", z)
    BY <1>3, <2>1, FieldAt
  <2> QED BY <2>2 DEF IsNumber
<1>5. Laid(s1, n, 1, "header", "base", u, len2)
  BY <1>0, <1>4, BlockLaid
<1>6. \A k \in 1 .. Len(len2) : Inner(len2[k])
  <2> SUFFICES ASSUME NEW k \in 1 .. 2 PROVE Inner(<<n, 1, "block2Len", z>>)
    BY <1>4
  <2>1. "block2Len" \in FieldNames
    BY DEF FieldNames
  <2> HIDE DEF z
  <2> QED BY <1>3, <2>1, InnerField
<1>7. o = 4 + l + u + 2
  <2> DEFINE t == <<n, 1, "header", 1>>
  <2>1. t[1] = n /\ t[2] = 1 /\ t[3] = "header"
    OBVIOUS
  <2> HIDE DEF t
  <2>2. offsetAt(t) = payloadOffset(u, part(n, 1).excCount > 0, TRUE)
    BY <1>0, <2>1 DEF offsetAt
  <2> QED BY <2>2 DEF payloadOffset, headerBytes, svbLenBytes, block2LenBytes, svbLenSize, t
<1> HIDE DEF s1, s2, z, len2, code, l, u, d, o, num
<1>8. /\ s1 \in Seq(Code) /\ Len(s1) = 4 + l + u + 2 + d
      /\ l \in Nat /\ u \in Nat /\ d \in Nat
      /\ \A k \in 1 .. 4 : s1[k] = <<n, 1, "header", k>>
      /\ \A k \in 1 .. l : s1[4 + k] = <<n, 1, "svbLen", num>>
      /\ \A k \in 1 .. 2 : s1[4 + l + u + k] = len2[k]
  BY <1>4, <1>5 DEF Laid, l, d, num
<1>9. (\A k \in 1 .. Len(s1) : k # 1 \/ 1 # 1 => Inner(s1[k])) /\ s1[1] # Keep
  BY <1>1, <1>5, <1>6, HeadOnly
<1> DEFINE p == Len(s1)
<1>10. /\ code \in Seq(Code) /\ Len(code) = p + z
       /\ \A k \in 1 .. p : code[k] = s1[k]
       /\ \A k \in 1 .. z : code[p + k] = s2[k]
  <2>1. Len(s1) = p
    OBVIOUS
  <2> HIDE DEF p
  <2>2. Behind(code, s1, s2, p, z, Code)
    BY <1>0, <1>3, <1>8, <2>1, JoinedOn
  <2> QED BY <2>2 DEF Behind
<1>11. p = 4 + l + u + 2 + d
  BY <1>8
<1> HIDE DEF p
<1>12. \A k \in 1 .. 4 : code[k] = <<n, 1, "header", k>>
  <2> SUFFICES ASSUME NEW k \in 1 .. 4 PROVE code[k] = <<n, 1, "header", k>>
    OBVIOUS
  <2>1. k \in 1 .. p
    BY <1>8, <1>11
  <2> QED BY <1>8, <1>10, <2>1
<1>13. part(n, 1).excCount > 0 => code[5] = <<n, 1, "svbLen", num>>
  <2> SUFFICES ASSUME part(n, 1).excCount > 0 PROVE code[4 + 1] = <<n, 1, "svbLen", num>>
    OBVIOUS
  <2>1. l = 2
    BY DEF svbLenSize, l
  <2>2. 1 \in 1 .. l /\ 4 + 1 \in 1 .. p
    BY <1>8, <1>11, <2>1
  <2>3. s1[4 + 1] = <<n, 1, "svbLen", num>>
    BY <1>8, <2>2
  <2> QED BY <1>10, <2>2, <2>3
<1>14. code[o - 1] = <<n, 1, "block2Len", z>>
  <2>1. o - 1 = 4 + l + u + 1 /\ o - 1 \in 1 .. p /\ 1 \in 1 .. 2
    BY <1>7, <1>8, <1>11
  <2>2. s1[4 + l + u + 1] = <<n, 1, "block2Len", z>>
    BY <1>4, <1>8, <2>1
  <2> QED BY <1>10, <2>1, <2>2
<1>15. \A k \in 2 .. Len(code) : Inner(code[k])
  <2> SUFFICES ASSUME NEW k \in 2 .. Len(code) PROVE Inner(code[k])
    OBVIOUS
  <2>1. p \in Nat /\ Len(s1) = p
    BY <1>8, <1>11
  <2>2. CASE k <= p
    <3>1. k \in 1 .. p /\ k # 1
      BY <2>1, <2>2
    <3> QED BY <1>9, <1>10, <2>1, <3>1
  <2>3. CASE p < k
    <3>1. k - p \in 1 .. z /\ k = p + (k - p)
      BY <1>3, <1>10, <2>1, <2>3
    <3> QED BY <1>3, <1>10, <3>1
  <2> QED BY <2>1, <2>2, <2>3
<1>16. code[1] # Keep
  BY <1>8, <1>9, <1>10, <1>11
<1>17. /\ o \in Nat /\ Len(code) \in Nat /\ 4 + l <= o /\ o <= Len(code) /\ 4 + l + 2 <= o
       /\ Len(code) = o + d + z
  BY <1>3, <1>7, <1>8, <1>10, <1>11
<1> QED BY <1>0, <1>3, <1>8, <1>10, <1>12, <1>13, <1>14, <1>15, <1>16, <1>17 DEF Readable, code, l, d, o, num, z

(* Whatever was packed. *)
LEMMA EncodedReadable ==
  ASSUME NEW n \in Nat, requests[n].pack \in Packs
  PROVE  \E h \in {"header", "header64"} : Readable(n, h)
<1> DEFINE r == requests[n].pack
<1>1. /\ r.layout \in {"uint32", "for64", "narrow", "pair"}
      /\ IsPart(part(n, 1)) /\ (r.layout = "pair" => IsPart(part(n, 2)))
      /\ r.layout = "narrow" => part(n, 1).forWidth # forWidthU32
  <2>1. IsPack(r)
    BY StreamAssumption
  <2>2. r.layout = "narrow" => r.parts[1].forWidth # forWidthU32
    BY <2>1 DEF IsPack
  <2> QED BY <2>2, PackFacts DEF part
<1>2. "base" \in FieldNames \ {"header", "header64"} /\ "base64" \in FieldNames \ {"header", "header64"}
  BY DEF FieldNames
<1>3. CASE r.layout \in {"uint32", "narrow"}
  <2> DEFINE u == forBaseBytes(part(n, 1).forWidth)
             t == <<n, 1, "header", 1>>
  <2>1. ~combine(n, 1) /\ combine(n, 1) = FALSE /\ Encoded(n) = BlockBytes(n, 1, <<>>)
    BY <1>3 DEF combine, Encoded
  <2>2. Laid(Encoded(n), n, 1, "header", "base", u, <<>>)
    <3>1. <<>> \in Seq(Code)
      BY EmptySeq
    <3> QED BY <1>1, <2>1, <3>1, BlockLaid
  <2>3. offsetAt(t) = payloadOffset(u, part(n, 1).excCount > 0, FALSE)
    <3>1. t[1] = n /\ t[2] = 1 /\ t[3] = "header"
      OBVIOUS
    <3> HIDE DEF t
    <3>2. combine(t[1], t[2]) = FALSE
      BY <2>1, <3>1
    <3>3. offsetAt(t) = payloadOffset(IF requests[n].pack.layout # "uint32" /\ part(n, 1).forWidth = forWidthU32
                                      THEN for64BaseSize ELSE forBaseBytes(part(n, 1).forWidth),
                                      part(n, 1).excCount > 0, FALSE)
      BY <3>1, <3>2 DEF offsetAt
    <3> QED BY <1>1, <1>3, <3>3 DEF u
  <2> HIDE DEF u
  <2> QED BY <1>1, <1>2, <2>1, <2>2, <2>3, SingleReadable
<1>4. CASE r.layout = "for64"
  <2> DEFINE t == <<n, 1, "header64", 1>>
  <2>1. ~combine(n, 1) /\ combine(n, 1) = FALSE
    BY <1>4 DEF combine
  <2>2. Laid(Encoded(n), n, 1, "header64", "base64", 8, <<>>)
    BY <1>1, <1>4, WideLaid
  <2>3. offsetAt(t) = payloadOffset(8, part(n, 1).excCount > 0, FALSE)
    <3>1. t[1] = n /\ t[2] = 1 /\ t[3] = "header64"
      OBVIOUS
    <3> HIDE DEF t
    <3>2. combine(t[1], t[2]) = FALSE
      BY <2>1, <3>1
    <3>3. offsetAt(t) = payloadOffset(IF requests[n].pack.layout # "uint32" /\ forWidthU32 = forWidthU32
                                      THEN for64BaseSize ELSE forBaseBytes(forWidthU32),
                                      part(n, 1).excCount > 0, FALSE)
      BY <3>1, <3>2 DEF offsetAt
    <3> QED BY <1>4, <3>3 DEF for64BaseSize
  <2> QED BY <1>1, <1>2, <2>1, <2>2, <2>3, SingleReadable
<1>5. CASE r.layout = "pair"
  BY <1>1, <1>5, PairReadable
<1> QED BY <1>1, <1>3, <1>4, <1>5

-----------------------------------------------------------------------------
(* The walk from block to block. *)

(* Whatever is found at each place, and however far each block goes, as    *)
(* long as it goes on: some function is the walk.                          *)
WalkOver(F, D, L, w) ==
  [p \in 0 .. L |-> IF p = L THEN <<>> ELSE IF F[p] = 0 THEN <<0>> ELSE <<F[p]>> \o w[p + D[p]]]

LEMMA WalkExists ==
  ASSUME NEW L \in Nat, NEW F, NEW D,
         \A p \in 0 .. L - 1 : F[p] # 0 => D[p] \in Nat \ {0} /\ p + D[p] <= L
  PROVE  \E w : w = WalkOver(F, D, L, w)
<1> DEFINE Body(w, p) == IF p = L THEN <<>> ELSE IF F[p] = 0 THEN <<0>> ELSE <<F[p]>> \o w[p + D[p]]
           Good(m) == \E w : DOMAIN w = 0 .. L /\ \A p \in m .. L : w[p] = Body(w, p)
           Bad == {m \in 0 .. L : ~Good(m)}
<1>1. \A m \in 0 .. L : Good(m)
  <2> SUFFICES ASSUME Bad # {} PROVE FALSE
    <3> HIDE DEF Good
    <3> QED OBVIOUS
  <2>1. Bad \in SUBSET Nat /\ \A y \in Bad : y <= L
    OBVIOUS
  <2>2. PICK m \in Bad : \A y \in Bad : y <= m
    <3> HIDE DEF Bad
    <3> QED BY <2>1, GreatestOf
  <2>3. m \in 0 .. L /\ ~Good(m)
    OBVIOUS
  <2>4. m # L
    <3> SUFFICES ASSUME m = L PROVE FALSE
      OBVIOUS
    <3> DEFINE w == [p \in 0 .. L |-> <<>>]
    <3>1. DOMAIN w = 0 .. L /\ \A p \in L .. L : w[p] = Body(w, p)
      OBVIOUS
    <3>2. Good(L)
      <4> HIDE DEF w, Body
      <4> QED BY <3>1
    <3> QED BY <2>3, <3>2
  <2>5. m + 1 \in 0 .. L /\ m + 1 \notin Bad
    <3>1. m \in 0 .. L
      BY <2>3
    <3> HIDE DEF Bad, Good
    <3> QED BY <2>2, <2>4, <3>1
  <2>6. Good(m + 1)
    BY <2>5
  <2>7. PICK w : DOMAIN w = 0 .. L /\ \A p \in m + 1 .. L : w[p] = Body(w, p)
    BY <2>6
  <2> DEFINE g == [p \in 0 .. L |-> IF p = m THEN Body(w, m) ELSE w[p]]
  <2>8. \A p \in m .. L : g[p] = Body(g, p)
    <3> SUFFICES ASSUME NEW p \in m .. L PROVE g[p] = Body(g, p)
      OBVIOUS
    <3>1. p \in 0 .. L
      BY <2>3
    <3>2. g[p] = Body(w, p)
      <4> HIDE DEF Body
      <4>1. CASE p = m
        BY <3>1, <4>1
      <4>2. CASE p # m
        <5>1. p \in m + 1 .. L
          BY <2>3, <4>2
        <5> QED BY <2>7, <3>1, <4>2, <5>1
      <4> QED BY <4>1, <4>2
    <3>3. p # L /\ F[p] # 0 => g[p + D[p]] = w[p + D[p]]
      <4> SUFFICES ASSUME p # L, F[p] # 0 PROVE g[p + D[p]] = w[p + D[p]]
        OBVIOUS
      <4>1. p \in 0 .. L - 1
        BY <3>1
      <4>2. D[p] \in Nat \ {0} /\ p + D[p] <= L
        BY <4>1
      <4>3. p + D[p] \in 0 .. L /\ p + D[p] # m
        BY <2>3, <3>1, <4>2
      <4> HIDE DEF Body
      <4> QED BY <4>3
    <3> HIDE DEF g
    <3> QED BY <3>2, <3>3
  <2>9. Good(m)
    <3>1. DOMAIN g = 0 .. L
      OBVIOUS
    <3> HIDE DEF g, Body
    <3> QED BY <2>8, <3>1
  <2> QED BY <2>3, <2>9
<1>2. PICK w : DOMAIN w = 0 .. L /\ \A p \in 0 .. L : w[p] = Body(w, p)
  <2>1. Good(0)
    <3> HIDE DEF Good
    <3> QED BY <1>1
  <2> QED BY <2>1
<1> DEFINE f == [p \in 0 .. L |-> w[p]]
<1>3. \A p \in 0 .. L : f[p] = Body(f, p)
  <2> SUFFICES ASSUME NEW p \in 0 .. L PROVE w[p] = Body(f, p)
    OBVIOUS
  <2>1. p # L /\ F[p] # 0 => f[p + D[p]] = w[p + D[p]]
    <3> SUFFICES ASSUME p # L, F[p] # 0 PROVE p + D[p] \in 0 .. L
      OBVIOUS
    <3>1. p \in 0 .. L - 1
      OBVIOUS
    <3> QED BY <3>1
  <2> HIDE DEF f
  <2> QED BY <1>2, <2>1
<1>4. f = [p \in 0 .. L |-> f[p]]
  OBVIOUS
<1> HIDE DEF f
<1>5. f = [p \in 0 .. L |-> Body(f, p)]
  BY <1>3, <1>4
<1>6. f = WalkOver(F, D, L, f)
  BY <1>5 DEF WalkOver
<1> QED BY <1>6

WalkBody(s, w) ==
  [p \in 0 .. s.len |->
     LET n == Found(s, p)
     IN  IF p = s.len THEN <<>> ELSE IF n = 0 THEN <<0>> ELSE <<n>> \o w[p + BlockLengthAt(s, p)]]

(* The walk through a slice goes from block to block, to its end.          *)
LEMMA WalkIs ==
  ASSUME HeapInv, NEW s, IsSlice(s)
  PROVE  Walk(s) = WalkBody(s, Walk(s))
<1> DEFINE L == s.len
           F == [p \in 0 .. L |-> Found(s, p)]
           D == [p \in 0 .. L |-> BlockLengthAt(s, p)]
<1>1. L \in Nat
  BY DEF IsSlice
<1>2. \A p \in 0 .. L - 1 : F[p] # 0 => D[p] \in Nat \ {0} /\ p + D[p] <= L
  <2> SUFFICES ASSUME NEW p \in 0 .. L - 1, F[p] # 0 PROVE D[p] \in Nat \ {0} /\ p + D[p] <= L
    OBVIOUS
  <2>1. p \in 0 .. L /\ p \in Nat
    BY <1>1
  <2>2. Found(s, p) # 0 /\ D[p] = BlockLengthAt(s, p)
    BY <2>1
  <2>3. IsHeader(s, p) /\ HasLengths(s, p) /\ p + BlockLengthAt(s, p) <= L
    BY <2>2 DEF Found
  <2>4. BlockLengthAt(s, p) \in Nat /\ BlockLengthAt(s, p) >= 4
    BY <2>1, <2>3, LengthFacts
  <2> HIDE DEF F, D, L
  <2> QED BY <2>2, <2>3, <2>4
<1>3. PICK w : w = WalkOver(F, D, L, w)
  <2> HIDE DEF F, D, L
  <2> QED BY <1>1, <1>2, WalkExists
<1>4. WalkOver(F, D, L, w) = WalkBody(s, w)
  <2>1. \A p \in 0 .. L : F[p] = Found(s, p) /\ D[p] = BlockLengthAt(s, p)
    OBVIOUS
  <2> HIDE DEF F, D
  <2> QED BY <2>1 DEF WalkOver, WalkBody
<1> HIDE DEF F, D, L
<1>5. w = WalkBody(s, w)
  BY <1>3, <1>4
<1> DEFINE W == CHOOSE f : f = WalkBody(s, f)
<1>6. W = WalkBody(s, W)
  <2>1. \E f : f = WalkBody(s, f)
    BY <1>5
  <2> QED BY <2>1
<1>7. Walk(s) = W
  BY DEF Walk, WalkBody
<1> QED BY <1>6, <1>7

(* The block of call n stands at p of a slice. *)
BlockStands(s, p, n) ==
  /\ requests[n].pack \in Packs /\ StandAt(Encoded(n), s.arr, s.off + p)
  /\ p + Len(Encoded(n)) <= s.len

(* A reader finds it there, and no other one inside of it.                 *)
LEMMA FoundBlock ==
  ASSUME HeapInv, NEW s, IsSlice(s), NEW p \in Nat, NEW n \in Nat, BlockStands(s, p, n)
  PROVE  /\ Len(Encoded(n)) \in Nat /\ Len(Encoded(n)) >= 4
         /\ Begins(ByteAt(s, p)) /\ ByteAt(s, p)[1] = n
         /\ \A k \in 1 .. Len(Encoded(n)) - 1 : ~Begins(ByteAt(s, p + k))
         /\ BlockLengthAt(s, p) = Len(Encoded(n)) /\ Found(s, p) = n
<1> DEFINE code == Encoded(n)
           c == Len(code)
           t == ByteAt(s, p)
           b == part(n, 1)
           x == b.excCount
           l == svbLenSize(n, 1)
           two == combine(n, 1)
           z == secondLen(n)
<1>1. PICK h \in {"header", "header64"} : Readable(n, h)
  BY EncodedReadable DEF BlockStands
<1> DEFINE head == <<n, 1, h, 1>>
           o == offsetAt(head)
<1>2. /\ code \in Seq(Code) /\ c \in Nat
      /\ o \in Nat /\ l \in Nat /\ 4 + l <= o /\ o <= c
      /\ \A k \in 1 .. 4 : code[k] = <<n, 1, h, k>>
      /\ x > 0 => code[5] = <<n, 1, "svbLen", b.svbLen>>
      /\ two => 4 + l + 2 <= o /\ code[o - 1] = <<n, 1, "block2Len", z>>
      /\ c = o + payloadLen(n, 1) + IF two THEN z ELSE 0
      /\ payloadLen(n, 1) \in Nat /\ (two => z \in Nat)
      /\ code[1] # Keep /\ \A k \in 2 .. c : Inner(code[k])
  BY <1>1 DEF Readable
<1>3. s.off \in Nat /\ s.len \in Nat /\ p + c <= s.len
  BY DEF BlockStands, IsSlice
<1>4. ASSUME NEW k \in 1 .. c PROVE ByteAt(s, p + k - 1) = code[k]
  <2>1. code[k] # Keep
    <3>1. k = 1 \/ k \in 2 .. c
      BY <1>2
    <3> HIDE DEF code, c
    <3> QED BY <1>2, <3>1 DEF Inner
  <2>2. k \in DOMAIN code
    <3> HIDE DEF code
    <3> QED BY <1>2, LenProperties
  <2>3. heap[s.arr][s.off + p + k - 1] = code[k]
    BY <2>1, <2>2 DEF BlockStands, StandAt
  <2>4. s.off + p + k - 1 = s.off + (p + k - 1)
    BY <1>2, <1>3
  <2> QED BY <2>3, <2>4 DEF ByteAt
<1> HIDE DEF code, c, t, b, x, l, two, z, head, o
<1>5. t = head /\ head[1] = n /\ head[2] = 1 /\ head[3] = h /\ head[4] = 1
  <2>1. 1 \in 1 .. c /\ p + 1 - 1 = p /\ 1 \in 1 .. 4
    BY <1>2
  <2>2. t = code[1]
    BY <1>4, <2>1 DEF t
  <2> QED BY <1>2, <2>1, <2>2 DEF head
<1>6. Begins(t) /\ t[1] = n
  BY <1>5 DEF Begins, Junk, head
<1>7. IsHeader(s, p)
  <2>1. p + headerBytes <= s.len
    BY <1>2, <1>3 DEF headerBytes
  <2>2. t # Junk /\ t[3] \in {"header", "header64"}
    BY <1>6 DEF Begins
  <2>3. ASSUME NEW k \in 0 .. headerBytes - 1 PROVE ByteAt(s, p + k) = [t EXCEPT ![4] = k + 1]
    <3>1. k + 1 \in 1 .. c /\ p + (k + 1) - 1 = p + k /\ k + 1 \in 1 .. 4
      BY <1>2 DEF headerBytes
    <3>2. ByteAt(s, p + k) = <<n, 1, h, k + 1>>
      BY <1>2, <1>4, <3>1
    <3>3. [head EXCEPT ![4] = k + 1] = <<n, 1, h, k + 1>>
      BY DEF head
    <3> QED BY <1>5, <3>2, <3>3
  <2> QED BY <2>1, <2>2, <2>3 DEF IsHeader, t
<1>8. x > 0 => l = 2
  BY DEF l, x, b, svbLenSize
<1>9. HasLengths(s, p)
  <2>1. x > 0 => p + headerBytes + svbLenBytes <= s.len
    BY <1>2, <1>3, <1>8 DEF headerBytes, svbLenBytes
  <2>2. two => p + o <= s.len
    BY <1>2, <1>3
  <2>3. offsetAt(t) = o
    BY <1>5 DEF o
  <2> QED BY <1>5, <2>1, <2>2, <2>3 DEF HasLengths, t, two, x, b
<1>10. x > 0 => NumberAt(s, p + headerBytes) = b.svbLen
  <2> SUFFICES ASSUME x > 0 PROVE NumberAt(s, p + 4) = b.svbLen
    BY DEF headerBytes
  <2>1. 5 \in 1 .. c /\ p + 5 - 1 = p + 4
    BY <1>2, <1>8
  <2>2. ByteAt(s, p + 4) = <<n, 1, "svbLen", b.svbLen>>
    BY <1>2, <1>4, <2>1
  <2>3. <<n, 1, "svbLen", b.svbLen>> # Junk /\ <<n, 1, "svbLen", b.svbLen>>[4] = b.svbLen
    BY DEF Junk
  <2> QED BY <2>2, <2>3 DEF NumberAt
<1>11. two => NumberAt(s, p + o - block2LenBytes) = z
  <2> SUFFICES ASSUME two PROVE NumberAt(s, p + o - 2) = z
    BY DEF block2LenBytes
  <2>0. o \in Nat /\ o >= 6 /\ o <= c /\ c \in Nat
    BY <1>2
  <2>1. o - 1 \in 1 .. c /\ p + (o - 1) - 1 = p + o - 2
    BY <2>0
  <2>2. ByteAt(s, p + o - 2) = <<n, 1, "block2Len", z>>
    BY <1>2, <1>4, <2>1
  <2>3. <<n, 1, "block2Len", z>> # Junk /\ <<n, 1, "block2Len", z>>[4] = z
    BY DEF Junk
  <2> QED BY <2>2, <2>3 DEF NumberAt
<1>12. BlockLengthAt(s, p) = c
  <2> DEFINE v == utlPayloadBytes(b.bitWidth)
             w == excIndexSize(b.excCount)
  <2>1. BlockLengthAt(s, p) = o + v
          + (IF x > 0 THEN w + NumberAt(s, p + headerBytes) ELSE 0)
          + (IF two THEN NumberAt(s, p + o - block2LenBytes) ELSE 0)
    BY <1>5 DEF BlockLengthAt, t, o, two, x, b
  <2>2. payloadLen(n, 1) = v + w + b.svbLen
    BY DEF payloadLen, b
  <2>3. v \in Nat /\ w \in Nat /\ b.svbLen \in Nat /\ x \in Nat /\ (x = 0 => b.svbLen = 0 /\ w = 0)
    <3>1. IsPart(b)
      BY PackFacts DEF BlockStands, part, b
    <3> QED BY <3>1, PartFacts DEF x
  <2> DEFINE N1 == NumberAt(s, p + headerBytes)
             N2 == NumberAt(s, p + o - block2LenBytes)
             pl == payloadLen(n, 1)
             y == b.svbLen
             len == BlockLengthAt(s, p)
  <2>4. /\ len = o + v + (IF x > 0 THEN w + N1 ELSE 0) + (IF two THEN N2 ELSE 0)
        /\ pl = v + w + y /\ (x > 0 => N1 = y) /\ (two => N2 = z)
        /\ c = o + pl + (IF two THEN z ELSE 0) /\ o \in Nat /\ (two => z \in Nat)
        /\ v \in Nat /\ w \in Nat /\ y \in Nat /\ x \in Nat /\ (x = 0 => y = 0 /\ w = 0)
    BY <1>2, <1>10, <1>11, <2>1, <2>2, <2>3
  <2> HIDE DEF N1, N2, pl, y, len, v, w
  <2>5. len = c
    <3>1. CASE x > 0
      BY <2>4, <3>1
    <3>2. CASE x = 0
      BY <2>4, <3>2
    <3> QED BY <2>4, <3>1, <3>2
  <2> QED BY <2>5 DEF len
<1>13. Found(s, p) = n
  <2>1. [k \in 1 .. c |-> ByteAt(s, p + k - 1)] = code
    <3>1. code = [k \in 1 .. c |-> code[k]]
      <4>1. code \in [1 .. Len(code) -> Code] /\ c = Len(code)
        BY <1>2, LenProperties DEF c
      <4> QED BY <4>1
    <3> QED BY <1>4, <3>1
  <2>2. t[1] = n /\ Encoded(n) = code
    BY <1>6 DEF code
  <2> QED BY <1>3, <1>7, <1>9, <1>12, <2>1, <2>2 DEF Found, t
<1>14. ASSUME NEW k \in 1 .. c - 1 PROVE ~Begins(ByteAt(s, p + k))
  <2>1. k + 1 \in 1 .. c /\ k + 1 \in 2 .. c /\ p + (k + 1) - 1 = p + k
    BY <1>2
  <2>2. ByteAt(s, p + k) = code[k + 1]
    BY <1>4, <2>1
  <2> QED BY <1>2, <2>1, <2>2 DEF Inner
<1>15. c >= 4
  BY <1>2
<1> QED BY <1>2, <1>6, <1>12, <1>13, <1>14, <1>15 DEF c, code, t

(* What a walk finds, now and after a step. *)
WalkFacts(s) ==
  /\ Walk(s)[s.len] = <<>>
  /\ \A p \in Nat, n \in Nat \ {0} :
       BlockStands(s, p, n) => Walk(s)[p] = <<n>> \o Walk(s)[p + Len(Encoded(n))]

LEMMA WalkNow == ASSUME HeapInv PROVE \A s : IsSlice(s) => WalkFacts(s)
<1> SUFFICES ASSUME NEW s, IsSlice(s) PROVE WalkFacts(s)
  OBVIOUS
<1> DEFINE w == Walk(s)
<1>1. w = WalkBody(s, w) /\ s.len \in Nat
  BY WalkIs DEF IsSlice
<1> HIDE DEF w
<1>2. \A p \in 0 .. s.len :
        w[p] = IF p = s.len THEN <<>> ELSE IF Found(s, p) = 0 THEN <<0>>
               ELSE <<Found(s, p)>> \o w[p + BlockLengthAt(s, p)]
  BY <1>1 DEF WalkBody
<1>3. w[s.len] = <<>>
  <2>1. s.len \in 0 .. s.len
    BY <1>1
  <2> QED BY <1>2, <2>1
<1>4. ASSUME NEW p \in Nat, NEW n \in Nat \ {0}, BlockStands(s, p, n)
      PROVE  w[p] = <<n>> \o w[p + Len(Encoded(n))]
  <2> DEFINE c == Len(Encoded(n))
  <2>1. c \in Nat /\ c >= 4 /\ BlockLengthAt(s, p) = c /\ Found(s, p) = n
    BY <1>4, FoundBlock
  <2>2. p + c <= s.len
    BY <1>4 DEF BlockStands
  <2> HIDE DEF c
  <2>3. p \in 0 .. s.len /\ p # s.len
    BY <1>1, <2>1, <2>2
  <2> QED BY <1>2, <2>1, <2>3 DEF c
<1> QED BY <1>3, <1>4 DEF WalkFacts, w

LEMMA WalkThen == ASSUME HeapInv' PROVE \A s : IsSlice(s)' => WalkFacts(s)'
<1>1. HeapInv' => (\A s : IsSlice(s) => WalkFacts(s))'
  BY WalkNow, PTL
<1> QED BY <1>1

(* Function f goes through the places of E, by N, up to L, and finds V.    *)
Goes(E, L, V, N, f) ==
  \A p \in E : p # L =>
    V[p] \in Nat /\ N[p] \in E /\ N[p] > p /\ f[p] = <<V[p]>> \o f[N[p]]

LEMMA Regrouped ==
  \A a, b, z \in Seq(Nat) : (a \o b) \o z = a \o (b \o z)
BY ConcatAssociative

TwoWalks(E, L, V, N, f, g, z) ==
  /\ L \in Nat /\ E \in SUBSET (0 .. L) /\ z \in Seq(Nat) /\ f[L] = <<>> /\ g[L] = z
  /\ Goes(E, L, V, N, f) /\ Goes(E, L, V, N, g)

(* Two walks over the same places differ by what they find at the end.     *)
LEMMA WalksAgree ==
  ASSUME NEW E, NEW L, NEW V, NEW N, NEW f, NEW g, NEW z, TwoWalks(E, L, V, N, f, g, z)
  PROVE  \A p \in E : f[p] \in Seq(Nat) /\ g[p] = f[p] \o z
<1> USE DEF TwoWalks
<1> DEFINE Good(p) == f[p] \in Seq(Nat) /\ g[p] = f[p] \o z
           Bad == {p \in E : ~Good(p)}
<1> SUFFICES ASSUME Bad # {} PROVE FALSE
  OBVIOUS
<1>0. \A e \in E : e \in Nat /\ e <= L
  OBVIOUS
<1>1. Bad \in SUBSET Nat /\ \A y \in Bad : y <= L
  <2> HIDE DEF Good
  <2>1. \A y \in Bad : y \in E
    OBVIOUS
  <2> HIDE DEF Bad
  <2> QED BY <1>0, <2>1
<1>2. PICK p \in Bad : \A y \in Bad : y <= p
  <2> HIDE DEF Bad
  <2> QED BY <1>1, GreatestOf
<1>3. p \in E /\ ~Good(p) /\ p \in Nat
  <2> HIDE DEF Good
  <2> QED BY <1>1
<1>4. p # L
  <2>1. <<>> \in Seq(Nat) /\ <<>> \o z = z
    BY EmptySeq, ConcatEmptySeq
  <2>2. Good(L)
    BY <2>1
  <2> QED BY <1>3, <2>2
<1>5. /\ V[p] \in Nat /\ N[p] \in E /\ N[p] > p
      /\ f[p] = <<V[p]>> \o f[N[p]] /\ g[p] = <<V[p]>> \o g[N[p]]
  BY <1>3, <1>4 DEF Goes
<1>6. Good(N[p])
  <2>1. N[p] \in Nat
    BY <1>0, <1>5
  <2>2. N[p] \notin Bad
    <3> HIDE DEF Bad, Good
    <3> QED BY <1>2, <1>3, <1>5, <2>1
  <2> HIDE DEF Good
  <2> QED BY <1>5, <2>2
<1>7. Good(p)
  <2> DEFINE a == <<V[p]>>
             b == f[N[p]]
  <2>1. a \in Seq(Nat) /\ b \in Seq(Nat) /\ g[N[p]] = b \o z
    BY <1>5, <1>6
  <2>2. f[p] = a \o b /\ g[p] = a \o (b \o z)
    BY <1>5, <2>1
  <2>3. z \in Seq(Nat)
    OBVIOUS
  <2> HIDE DEF a, b
  <2>4. a \o b \in Seq(Nat)
    BY <2>1, ConcatProperties
  <2>5. (a \o b) \o z = a \o (b \o z)
    BY <2>1, <2>3, Regrouped
  <2> QED BY <2>2, <2>4, <2>5
<1> QED BY <1>3, <1>7

(* The blocks of a slice. *)
LEMMA ChainBlocks ==
  ASSUME HeapInv, NEW s, IsSlice(s), Chain(s), start \in Nat, NEW p \in Heads(s),
         NEW n, n = ByteAt(s, p)[1]
  PROVE  /\ n \in 1 .. call /\ n \in Nat \ {0} /\ BlockStands(s, p, n)
         /\ p \in Nat /\ p < s.len /\ s.len \in Nat /\ s.off \in Nat
         /\ Len(Encoded(n)) \in Nat /\ Len(Encoded(n)) >= 4
         /\ p + Len(Encoded(n)) \in Ends(s) /\ p + Len(Encoded(n)) <= s.len
<1> DEFINE t == ByteAt(s, p)
           c == Len(Encoded(n))
<1>1. s.len \in Nat /\ s.off \in Nat /\ p \in Nat /\ p < s.len /\ Begins(t)
  BY DEF IsSlice, Heads
<1>2. n \in 1 .. call /\ requests[n].pack \in Packs
  <2>1. t \in Byte
    BY <1>1, ByteFacts
  <2>2. t # Junk /\ t[3] # "prefix"
    BY <1>1 DEF Begins
  <2> QED BY <2>1, <2>2 DEF Byte
<1>3. n \in Nat \ {0}
  <2>1. call \in Nat
    BY StateFacts
  <2> QED BY <1>2, <2>1
<1>4. p + c \in Ends(s) /\ StandAt(Encoded(n), s.arr, s.off + p)
  BY DEF Chain
<1>5. p + c <= s.len
  BY <1>1, <1>4 DEF Ends, Heads
<1>6. BlockStands(s, p, n)
  BY <1>2, <1>4, <1>5 DEF BlockStands
<1>7. c \in Nat /\ c >= 4
  BY <1>1, <1>3, <1>6, FoundBlock
<1> QED BY <1>1, <1>2, <1>3, <1>4, <1>5, <1>6, <1>7

blockAt(s, p) == ByteAt(s, p)[1]
nextAt(s, p) == p + Len(Encoded(blockAt(s, p)))

LEMMA ChainWalk ==
  ASSUME HeapInv, NEW s, IsSlice(s), Chain(s), start \in Nat
  PROVE  /\ Walk(s)[s.len] = <<>> /\ s.len \in Nat /\ Ends(s) \in SUBSET (0 .. s.len)
         /\ \A p \in Ends(s) : Walk(s)[p] \in Seq(Nat)
         /\ \A p \in Ends(s) : p # s.len =>
              /\ p \in Heads(s) /\ blockAt(s, p) \in Nat \ {0}
              /\ nextAt(s, p) \in Ends(s) /\ nextAt(s, p) > p
              /\ Walk(s)[p] = <<blockAt(s, p)>> \o Walk(s)[nextAt(s, p)]
<1> DEFINE w == Walk(s)
           L == s.len
           E == Ends(s)
<1>1. L \in Nat /\ E \in SUBSET (0 .. L)
  BY DEF IsSlice, Ends, Heads
<1>2. w[L] = <<>>
  BY WalkNow DEF WalkFacts
<1>3. ASSUME NEW p \in E, p # L
      PROVE  /\ p \in Heads(s) /\ blockAt(s, p) \in Nat \ {0}
             /\ nextAt(s, p) \in E /\ nextAt(s, p) > p
             /\ w[p] = <<blockAt(s, p)>> \o w[nextAt(s, p)]
  <2> DEFINE n == blockAt(s, p)
             c == Len(Encoded(n))
  <2>1. p \in Heads(s) /\ n = ByteAt(s, p)[1]
    BY <1>3 DEF Ends, blockAt
  <2> HIDE DEF n
  <2>2. n \in Nat \ {0} /\ BlockStands(s, p, n) /\ p \in Nat /\ c \in Nat /\ c >= 4 /\ p + c \in E
    BY <2>1, ChainBlocks
  <2>3. w[p] = <<n>> \o w[p + c]
    BY <2>2, WalkNow DEF WalkFacts
  <2>4. p + c > p
    BY <2>2
  <2> QED BY <2>1, <2>2, <2>3, <2>4 DEF n, nextAt
<1> DEFINE V == [p \in E |-> blockAt(s, p)]
           N == [p \in E |-> nextAt(s, p)]
<1>4. Goes(E, L, V, N, w)
  <2> SUFFICES ASSUME NEW p \in E, p # L
               PROVE  V[p] \in Nat /\ N[p] \in E /\ N[p] > p /\ w[p] = <<V[p]>> \o w[N[p]]
    BY DEF Goes
  <2>1. V[p] = blockAt(s, p) /\ N[p] = nextAt(s, p)
    OBVIOUS
  <2> HIDE DEF V, N, E, w, L
  <2> QED BY <1>3, <2>1
<1>5. <<>> \in Seq(Nat)
  BY EmptySeq
<1>6. \A p \in E : w[p] \in Seq(Nat)
  <2> DEFINE z == <<>>
  <2>1. z \in Seq(Nat) /\ w[L] = z /\ w[L] = <<>>
    BY <1>2, <1>5
  <2> HIDE DEF V, N, E, w, L, z
  <2>2. TwoWalks(E, L, V, N, w, w, z)
    BY <1>1, <1>4, <2>1 DEF TwoWalks
  <2> QED BY <2>2, WalksAgree
<1> QED BY <1>1, <1>2, <1>3, <1>6

-----------------------------------------------------------------------------
(* What stays of a slice's blocks. *)

(* What a call packed does not depend on memory. *)
LEMMA SameCode ==
  ASSUME NEW n, requests'[n] = requests[n]
  PROVE  /\ Encoded(n)' = Encoded(n)
         /\ \A i, len2 : BlockBytes(n, i, len2)' = BlockBytes(n, i, len2)
<1>1. /\ \A i : part(n, i)' = part(n, i) /\ combine(n, i)' = combine(n, i)
      /\ \A i, name, size : Field(n, i, name, size)' = Field(n, i, name, size)
      /\ \A i, name, size : Number(n, i, name, size)' = Number(n, i, name, size)
  BY DEF part, combine, Field, Number
<1>2. \A i : svbLenField(n, i)' = svbLenField(n, i) /\ PayloadOnwards(n, i)' = PayloadOnwards(n, i)
  BY <1>1 DEF svbLenField, PayloadOnwards
<1>3. \A i, len2 : BlockBytes(n, i, len2)' = BlockBytes(n, i, len2)
  BY <1>1, <1>2 DEF BlockBytes
<1>4. Encoded(n)' = Encoded(n)
  BY <1>1, <1>2, <1>3 DEF Encoded
<1> QED BY <1>3, <1>4

(* The bytes of a slice, in an array that keeps them. *)
SameBytes(s, h, g) == \A p \in 0 .. s.len - 1 : g[s.arr][s.off + p] = h[s.arr][s.off + p]

(* The calls that were made are known still. *)
SameCalls(rs, qs) == \A n \in 1 .. Len(rs) : qs[n] = rs[n]

(* A slice that keeps its bytes is made of the same blocks, and is walked  *)
(* through in the same way.                                                *)
LEMMA ChainStays ==
  ASSUME HeapInv, HeapInv', NEW s, IsSlice(s), IsSlice(s)', start' = start, start \in Nat, Chain(s),
         SameCalls(requests, requests'), SameBytes(s, heap, heap')
  PROVE  /\ Chain(s)' /\ Ends(s)' = Ends(s)
         /\ \A p \in Ends(s) : Walk(s)'[p] = Walk(s)[p]
<1> DEFINE L == s.len
           E == Ends(s)
           w == Walk(s)
           v == Walk(s)'
<1>1. L \in Nat /\ s.off \in Nat
  BY DEF IsSlice
<1>2. \A p \in 0 .. L - 1 : ByteAt(s, p)' = ByteAt(s, p)
  BY DEF ByteAt, SameBytes
<1>3. Heads(s)' = Heads(s) /\ Ends(s)' = Ends(s)
  <2>1. \A p \in start .. L - 1 : p \in 0 .. L - 1
    BY <1>1
  <2>2. \A p \in start .. L - 1 : Begins(ByteAt(s, p))' <=> Begins(ByteAt(s, p))
    BY <1>2, <2>1 DEF Begins
  <2>3. Heads(s)' = Heads(s)
    BY <2>2 DEF Heads
  <2> QED BY <2>3 DEF Ends
<1>4. ASSUME NEW p \in Heads(s), NEW n, n = ByteAt(s, p)[1]
      PROVE  /\ n \in Nat \ {0} /\ p \in Nat /\ ByteAt(s, p)'[1] = n
             /\ Encoded(n)' = Encoded(n) /\ BlockStands(s, p, n) /\ BlockStands(s, p, n)'
             /\ p + Len(Encoded(n)) \in E /\ p + Len(Encoded(n)) > p
             /\ StandAt(Encoded(n), s.arr, s.off + p)'
  <2>1. /\ n \in 1 .. call /\ n \in Nat \ {0} /\ BlockStands(s, p, n) /\ p \in Nat /\ p < L
        /\ Len(Encoded(n)) \in Nat /\ Len(Encoded(n)) >= 4
        /\ p + Len(Encoded(n)) \in E /\ p + Len(Encoded(n)) <= L
    BY <1>4, ChainBlocks
  <2>2. requests'[n] = requests[n]
    BY <2>1 DEF SameCalls, call
  <2>3. Encoded(n)' = Encoded(n)
    BY <2>2, SameCode
  <2>4. requests[n].pack \in Packs /\ StandAt(Encoded(n), s.arr, s.off + p)
    BY <2>1 DEF BlockStands
  <2>5. StandAt(Encoded(n), s.arr, s.off + p)'
    <3> DEFINE code == Encoded(n)
    <3>1. code \in Seq(Code) /\ Len(code) \in Nat
      <4>1. PICK h \in {"header", "header64"} : Readable(n, h)
        BY <2>1, <2>4, EncodedReadable
      <4> QED BY <4>1 DEF Readable
    <3>2. DOMAIN code = 1 .. Len(code)
      <4> HIDE DEF code
      <4> QED BY <3>1, LenProperties
    <3>3. ASSUME NEW k \in DOMAIN code, code[k] # Keep PROVE heap'[s.arr][s.off + p + k - 1] = code[k]
      <4>1. heap[s.arr][s.off + p + k - 1] = code[k]
        BY <2>4, <3>3 DEF StandAt
      <4>2. p + k - 1 \in 0 .. L - 1 /\ s.off + (p + k - 1) = s.off + p + k - 1
        <5> HIDE DEF code
        <5>1. k \in 1 .. Len(code) /\ p + Len(code) <= L
          BY <2>1, <3>2, <3>3 DEF code
        <5> QED BY <1>1, <2>1, <3>1, <5>1
      <4>3. heap'[s.arr][s.off + (p + k - 1)] = heap[s.arr][s.off + (p + k - 1)]
        BY <4>2 DEF SameBytes
      <4> QED BY <4>1, <4>2, <4>3
    <3>4. StandAt(code, s.arr, s.off + p)'
      <4> SUFFICES ASSUME NEW k \in DOMAIN code, code[k] # Keep
                   PROVE  heap'[s.arr][s.off + p + k - 1] = code[k]
        BY <2>3 DEF StandAt
      <4> QED BY <3>3
    <3> QED BY <3>4
  <2>6. requests'[n].pack \in Packs
    BY <2>2, <2>4
  <2>7. BlockStands(s, p, n)'
    BY <2>1, <2>3, <2>5, <2>6 DEF BlockStands
  <2>8. ByteAt(s, p)' = ByteAt(s, p)
    BY <1>1, <1>2, <2>1
  <2>9. p + Len(Encoded(n)) > p
    BY <2>1
  <2> QED BY <1>4, <2>1, <2>3, <2>5, <2>7, <2>8, <2>9
<1>5. Chain(s)'
  <2>1. start \in E /\ \A k \in 0 .. start - 1 : ByteAt(s, k) = <<0, 0, "prefix", k + 1>>
    BY DEF Chain
  <2>2. start <= L
    BY <1>1, <2>1 DEF Ends, Heads
  <2>3. \A k \in 0 .. start - 1 : ByteAt(s, k)' = <<0, 0, "prefix", k + 1>>
    <3>1. \A k \in 0 .. start - 1 : k \in 0 .. L - 1
      BY <1>1, <2>2
    <3> QED BY <1>2, <2>1, <3>1
  <2>4. ASSUME NEW p \in Heads(s)
        PROVE  /\ p + Len(Encoded(ByteAt(s, p)[1]))' \in E
               /\ StandAt(Encoded(ByteAt(s, p)[1]), s.arr, s.off + p)'
    <3>1. PICK n : n = ByteAt(s, p)[1]
      OBVIOUS
    <3>2. /\ ByteAt(s, p)'[1] = n /\ Encoded(n)' = Encoded(n) /\ p + Len(Encoded(n)) \in E
          /\ StandAt(Encoded(n), s.arr, s.off + p)'
      BY <2>4, <3>1, <1>4
    <3> QED BY <3>2
  <2> QED BY <1>3, <2>1, <2>3, <2>4 DEF Chain
<1>6. w[L] = <<>> /\ v[L] = <<>>
  <2>1. WalkFacts(s) /\ WalkFacts(s)'
    BY WalkNow, WalkThen
  <2> QED BY <2>1 DEF WalkFacts
<1> DEFINE V == [p \in E |-> blockAt(s, p)]
           N == [p \in E |-> nextAt(s, p)]
<1>7. Goes(E, L, V, N, w) /\ Goes(E, L, V, N, v)
  <2>1. ASSUME NEW p \in E, p # L
        PROVE  /\ V[p] \in Nat /\ N[p] \in E /\ N[p] > p
               /\ w[p] = <<V[p]>> \o w[N[p]] /\ v[p] = <<V[p]>> \o v[N[p]]
    <3>1. p \in Heads(s)
      BY <2>1 DEF Ends
    <3>2. PICK n : n = ByteAt(s, p)[1]
      OBVIOUS
    <3> DEFINE c == Len(Encoded(n))
    <3>3. /\ n \in Nat \ {0} /\ p \in Nat /\ Encoded(n)' = Encoded(n)
          /\ BlockStands(s, p, n) /\ BlockStands(s, p, n)' /\ p + c \in E /\ p + c > p
      BY <1>4, <3>1, <3>2
    <3>4. w[p] = <<n>> \o w[p + c]
      BY <3>3, WalkNow DEF WalkFacts
    <3>5. v[p] = <<n>> \o v[p + Len(Encoded(n)')]
      <4>1. WalkFacts(s)'
        BY WalkThen
      <4> QED BY <3>3, <4>1 DEF WalkFacts
    <3>6. V[p] = n /\ N[p] = p + c
      BY <2>1, <3>2 DEF blockAt, nextAt
    <3> HIDE DEF V, N, E, w, v, L, c
    <3>7. v[p] = <<n>> \o v[p + c]
      BY <3>3, <3>5 DEF c
    <3> QED BY <3>3, <3>4, <3>6, <3>7
  <2> HIDE DEF V, N, E, w, v, L
  <2> QED BY <2>1 DEF Goes
<1>8. \A p \in E : v[p] = w[p]
  <2> DEFINE z == <<>>
  <2>1. z \in Seq(Nat) /\ w[L] = <<>> /\ v[L] = z /\ \A x \in Seq(Nat) : x \o z = x
    BY <1>6, EmptySeq, ConcatEmptySeq
  <2>2. E \in SUBSET (0 .. L)
    BY <1>1 DEF Ends, Heads
  <2> HIDE DEF V, N, E, w, v, L, z
  <2>3. \A p \in E : w[p] \in Seq(Nat) /\ v[p] = w[p] \o z
    <3>1. TwoWalks(E, L, V, N, w, v, z)
      BY <1>1, <1>7, <2>1, <2>2 DEF TwoWalks
    <3> QED BY <3>1, WalksAgree
  <2> QED BY <2>1, <2>3
<1> QED BY <1>3, <1>5, <1>8

(* A reader stays where it is in its slice, which keeps its bytes.         *)
LEMMA WalkStays ==
  ASSUME StreamInv, StreamInv', ViewKept, UNCHANGED <<start, reading, view, at, seen>>,
         SameCalls(requests, requests'), WalkInv
  PROVE  WalkInv' /\ (reading => Walk(view)'[start] = Walk(view)[start])
<1>1. CASE reading
  <2>1. /\ Chain(view) /\ at \in Ends(view) /\ Walk(view)[start] = seen \o Walk(view)[at]
        /\ seen \in Seq(Nat)
        /\ IsSlice(view) /\ IsSlice(view)' /\ HeapInv /\ HeapInv' /\ start \in Nat
    <3>1. IsSlice(view) /\ IsSlice(view)' /\ IsSlice(dst) /\ start \in 0 .. dst.len
      BY <1>1 DEF StreamInv, SliceInv
    <3>2. start \in Nat
      BY <3>1 DEF IsSlice
    <3> QED BY <1>1, <3>1, <3>2 DEF WalkInv, StreamInv
  <2>2. PICK s : s = view
    OBVIOUS
  <2>3. IsSlice(s) /\ IsSlice(s)' /\ Chain(s) /\ at \in Ends(s) /\ start \in Ends(s)
    BY <2>1, <2>2 DEF Chain
  <2>4. SameBytes(s, heap, heap')
    <3>1. Bytes(view, view.len)' = Bytes(view, view.len)
      BY <1>1 DEF ViewKept
    <3>2. s.len \in Nat /\ s.off \in Nat
      BY <2>3 DEF IsSlice
    <3>3. [j \in 1 .. s.len |-> heap'[s.arr][s.off + j - 1]] = [j \in 1 .. s.len |-> heap[s.arr][s.off + j - 1]]
      BY <2>2, <3>1 DEF Bytes
    <3>4. ASSUME NEW p \in 0 .. s.len - 1 PROVE heap'[s.arr][s.off + p] = heap[s.arr][s.off + p]
      <4> DEFINE F == [j \in 1 .. s.len |-> heap'[s.arr][s.off + j - 1]]
                 G == [j \in 1 .. s.len |-> heap[s.arr][s.off + j - 1]]
      <4>1. p + 1 \in 1 .. s.len /\ s.off + (p + 1) - 1 = s.off + p
        BY <3>2
      <4>2. F[p + 1] = heap'[s.arr][s.off + p] /\ G[p + 1] = heap[s.arr][s.off + p]
        BY <4>1
      <4>3. F = G
        BY <3>3
      <4> HIDE DEF F, G
      <4> QED BY <4>2, <4>3
    <3> QED BY <3>4 DEF SameBytes
  <2>5. Chain(s)' /\ Ends(s)' = Ends(s) /\ \A p \in Ends(s) : Walk(s)'[p] = Walk(s)[p]
    BY <2>1, <2>3, <2>4, ChainStays
  <2>6. Walk(s)'[start] = seen \o Walk(s)'[at]
    BY <2>1, <2>2, <2>3, <2>5
  <2>7. Walk(view)'[start] = Walk(view)[start]
    BY <2>2, <2>3, <2>5
  <2> QED BY <1>1, <2>1, <2>2, <2>3, <2>5, <2>6, <2>7 DEF WalkInv
<1>2. CASE ~reading
  BY <1>2 DEF WalkInv
<1> QED BY <1>1, <1>2

(* The caller's slice, while a call writes elsewhere. *)
LEMMA SliceChainStays ==
  ASSUME StreamInv, StreamInv', UNCHANGED <<dst, start>>, SameCalls(requests, requests'),
         SameBytes(dst, heap, heap'), Chain(dst)
  PROVE  Chain(dst)' /\ Walk(dst)'[start] = Walk(dst)[start]
<1>1. IsSlice(dst) /\ IsSlice(dst)' /\ HeapInv /\ HeapInv' /\ start \in Nat
  <2>1. start \in 0 .. dst.len
    BY DEF StreamInv, SliceInv
  <2>2. start \in Nat
    BY <2>1
  <2> QED BY <2>2 DEF StreamInv, SliceInv
<1>2. PICK s : s = dst
  OBVIOUS
<1>3. IsSlice(s) /\ IsSlice(s)' /\ Chain(s) /\ start \in Ends(s) /\ SameBytes(s, heap, heap')
  BY <1>1, <1>2 DEF Chain
<1>4. Chain(s)' /\ Walk(s)'[start] = Walk(s)[start]
  BY <1>1, <1>3, ChainStays
<1> QED BY <1>2, <1>4

(* What the steps of a call keep. *)
LEMMA PhaseBytes ==
  ASSUME StreamInv, StreamInv', ViewKept, pc # "idle",
         UNCHANGED <<dst, start, requests, work, off, reading, view, at, seen>>,
         Kept(heap, heap', work.arr, off), Chain(dst), CopyInv, WalkInv
  PROVE  Chain(dst)' /\ CopyInv' /\ WalkInv' /\ Walk(dst)'[start] = Walk(dst)[start]
<1>1. /\ IsSlice(dst) /\ dst.off = 0 /\ off = dst.len /\ off \in Nat /\ dst.len <= Capacity(dst.arr)
      /\ work.arr \in 1 .. Len(heap) /\ off <= Capacity(work.arr)
      /\ dst.arr \in 1 .. Len(heap) /\ Capacity(dst.arr) \in Nat /\ Capacity(work.arr) \in Nat
  <2>1. /\ off = dst.len /\ off \in Nat /\ work.arr \in 1 .. Len(heap) /\ off <= Capacity(work.arr)
        /\ Capacity(work.arr) \in Nat
    BY CallFacts
  <2>2. IsSlice(dst) /\ dst.off = 0 /\ HeapInv
    BY DEF StreamInv, SliceInv
  <2>3. dst.arr \in 1 .. Len(heap) /\ dst.len <= Capacity(dst.arr)
    BY <2>1, <2>2 DEF IsSlice
  <2>4. Capacity(dst.arr) \in Nat
    BY <2>2, <2>3, StateFacts DEF HeapInv
  <2> QED BY <2>1, <2>2, <2>3, <2>4
<1>2. \A a \in 1 .. Len(heap) : \A j \in 0 .. Capacity(a) - 1 : j < off => heap'[a][j] = heap[a][j]
  BY DEF Kept, SizeIn, Capacity
<1>3. ASSUME NEW j \in 0 .. off - 1 PROVE heap'[dst.arr][j] = heap[dst.arr][j] /\ heap'[work.arr][j] = heap[work.arr][j]
  <2>1. j \in 0 .. Capacity(dst.arr) - 1 /\ j \in 0 .. Capacity(work.arr) - 1 /\ j < off
    BY <1>1
  <2> QED BY <1>1, <1>2, <2>1
<1>4. SameBytes(dst, heap, heap')
  <2> SUFFICES ASSUME NEW p \in 0 .. dst.len - 1 PROVE heap'[dst.arr][dst.off + p] = heap[dst.arr][dst.off + p]
    BY DEF SameBytes
  <2>1. dst.off + p = p /\ p \in 0 .. off - 1
    BY <1>1
  <2> QED BY <1>3, <2>1
<1>5. SameCalls(requests, requests')
  BY DEF SameCalls
<1>6. Chain(dst)' /\ Walk(dst)'[start] = Walk(dst)[start]
  BY <1>4, <1>5, SliceChainStays
<1>7. CopyInv'
  BY <1>3 DEF CopyInv
<1>8. WalkInv'
  BY <1>5, WalkStays
<1> QED BY <1>6, <1>7, <1>8

-----------------------------------------------------------------------------
(* What the steps of a call write. *)

LEMMA WrittenAt ==
  ASSUME NEW n \in Nat, NEW A, DOMAIN A = 0 .. n - 1, NEW i \in Nat, NEW bytes
  PROVE  /\ \A k \in DOMAIN bytes :
              k \in Nat /\ bytes[k] # Keep /\ i + k - 1 \in 0 .. n - 1 => Written(A, i, bytes)[i + k - 1] = bytes[k]
         /\ \A j \in 0 .. n - 1 :
              j - i + 1 \notin DOMAIN bytes \/ bytes[j - i + 1] = Keep => Written(A, i, bytes)[j] = A[j]
         /\ DOMAIN Written(A, i, bytes) = 0 .. n - 1
<1>1. ASSUME NEW k \in DOMAIN bytes, k \in Nat, bytes[k] # Keep, i + k - 1 \in 0 .. n - 1
      PROVE  Written(A, i, bytes)[i + k - 1] = bytes[k]
  <2>1. (i + k - 1) - i + 1 = k
    BY <1>1
  <2> QED BY <1>1, <2>1 DEF Written
<1>2. ASSUME NEW j \in 0 .. n - 1, j - i + 1 \notin DOMAIN bytes \/ bytes[j - i + 1] = Keep
      PROVE  Written(A, i, bytes)[j] = A[j]
  BY <1>2 DEF Written
<1>3. DOMAIN Written(A, i, bytes) = 0 .. n - 1
  BY DEF Written
<1> QED BY <1>1, <1>2, <1>3

(* Bytes stand in an array of h, but for those that are left open. *)
StandsIn(h, bytes, a, j) == \A k \in DOMAIN bytes : bytes[k] # Keep => h[a][j + k - 1] = bytes[k]

(* The layout of an open sub-block. *)
LEMMA OpenLaid ==
  ASSUME call \in Nat, pack \in Packs, NEW i \in DOMAIN pack.parts
  PROVE  /\ Laid(Open(i), call, i, "header", "base", forBaseBytes(part(call, i).forWidth),
                 IF combine(call, i) THEN <<Keep, Keep>> ELSE <<>>)
         /\ Open(i) \in Seq(Code) /\ Len(Open(i)) \in Nat /\ DOMAIN Open(i) = 1 .. Len(Open(i))
         /\ IsPart(part(call, i)) /\ i \in Nat
<1> DEFINE n == call
           k2 == <<Keep, Keep>>
<1>1. n \in Nat /\ i \in Nat /\ IsPart(part(n, i))
  BY PackFacts DEF part, pack
<1>2. k2 \in Seq(Code)
  <2>1. Keep \in Code
    BY DEF Code
  <2> HIDE DEF Code
  <2> QED BY <2>1
<1> HIDE DEF n, k2
<1>3. Laid(BlockBytes(n, i, k2), n, i, "header", "base", forBaseBytes(part(n, i).forWidth),
           IF combine(n, i) THEN k2 ELSE <<>>)
  BY <1>1, <1>2, BlockLaid
<1>4. BlockBytes(n, i, k2) \in Seq(Code)
  BY <1>3 DEF Laid
<1>5. Len(BlockBytes(n, i, k2)) \in Nat /\ DOMAIN BlockBytes(n, i, k2) = 1 .. Len(BlockBytes(n, i, k2))
  BY <1>4, LenProperties
<1> QED BY <1>1, <1>3, <1>4, <1>5 DEF n, k2, Open

LEMMA OutputAt ==
  ASSUME call \in Nat, call > 0, pack \in Packs, NEW i \in DOMAIN pack.parts
  PROVE  \A k \in 1 .. Len(Open(i)) : k \in DOMAIN Output(i) /\ Output(i)[k] = Open(i)[k]
<1> DEFINE o == Open(i)
           n == Len(o)
           q == request(i)
           fill == [k \in 1 .. q - n |-> Junk]
           out == Output(i)
           B == Code \cup {Junk}
<1>1. o \in Seq(Code) /\ n \in Nat
  BY OpenLaid
<1>2. q \in Nat /\ n <= q
  BY OutputFacts DEF Open
<1>3. out = o \o fill
  BY DEF Output, Open
<1> HIDE DEF o, n, q, out
<1>4. o \in Seq(B)
  <2>1. o \in [1 .. n -> Code]
    BY <1>1, LenProperties DEF n
  <2>2. o \in [1 .. n -> B]
    BY <2>1
  <2> QED BY <1>1, <2>2, SeqDef
<1>5. fill \in Seq(B) /\ Len(fill) = q - n
  <2>1. q - n \in Nat /\ fill \in [1 .. q - n -> B] /\ DOMAIN fill = 1 .. q - n
    BY <1>1, <1>2
  <2> HIDE DEF fill, B
  <2>2. fill \in Seq(B)
    BY <2>1, SeqDef
  <2> QED BY <2>1, <2>2, LenProperties
<1> HIDE DEF fill, B
<1>6. Behind(out, o, fill, n, q - n, B)
  BY <1>3, <1>4, <1>5, JoinedOn DEF n
<1> QED BY <1>1, <1>2, <1>6 DEF Behind, o, n, out

(* packBlock leaves its sub-block where it says. *)
LEMMA PackStands ==
  ASSUME StreamInv, InCall, NEW i \in DOMAIN pack.parts, NEW j \in Nat, off <= j, PackBlock(i, j)
  PROVE  /\ StandsIn(heap', Open(i), Packed(i, j).arr, Packed(i, j).off)
         /\ Kept(heap, heap', work.arr, j)
<1> DEFINE B == ByteOf(requests)
           o == Open(i)
           n == Len(o)
           q == request(i)
           out == Output(i)
<1>1. pc # "idle" /\ HeapInv
  BY DEF InCall, StreamInv
<1>2. /\ call \in Nat /\ call > 0 /\ pack \in Packs /\ off \in Nat
      /\ work.arr \in 1 .. Len(heap) /\ cap(work) = Capacity(work.arr) /\ work.off = 0
  BY <1>1, CallFacts
<1>3. out \in Seq(B \cup {Keep}) /\ q \in Nat /\ n \in Nat /\ n <= q
  BY <1>2, OutputFacts DEF Open
<1>4. HeapOf(heap, B) /\ DOMAIN heap = 1 .. Len(heap) /\ Len(heap) \in Nat
  BY <1>1, StateFacts
<1>5. /\ Capacity(work.arr) = SizeIn(heap, work.arr) /\ SizeIn(heap, work.arr) \in Nat
      /\ heap[work.arr] \in [0 .. SizeIn(heap, work.arr) - 1 -> B]
  BY <1>2, <1>4 DEF HeapOf, SizeIn, Capacity
<1>6. cap(work) - j >= q <=> Capacity(work.arr) >= j + q
  BY <1>2, <1>3, <1>5
<1>7. /\ \A k \in 1 .. n : k \in DOMAIN out /\ out[k] = o[k]
      /\ DOMAIN o = 1 .. n
  BY <1>2, OutputAt, OpenLaid
<1> HIDE DEF B, n, q, out, o
<1>8. CASE Capacity(work.arr) >= j + q
  <2> DEFINE w == work.arr
             size == SizeIn(heap, w)
             A == heap[w]
  <2>1. heap' = [heap EXCEPT ![work.arr] = Written(@, j, out)] /\ Packed(i, j).arr = work.arr /\ Packed(i, j).off = j
    <3>1. work.off + j = j
      BY <1>2
    <3> QED BY <1>6, <1>8, <3>1 DEF PackBlock, Packed, q, out
  <2>2. w \in 1 .. Len(heap) /\ WrittenInto(heap', heap, w, j, out) /\ ToWrite(out, B)
    BY <1>2, <1>3, <2>1 DEF WrittenInto, ToWrite
  <2>3. Kept(heap, heap', w, j)
    <3> HIDE DEF w
    <3> QED BY <1>3, <1>4, <2>2, WriteAt
  <2>4. heap'[w] = Written(A, j, out)
    BY <1>2, <1>4, <2>1
  <2>5. DOMAIN A = 0 .. size - 1 /\ size \in Nat /\ size >= j + q
    BY <1>5, <1>8
  <2> HIDE DEF w, size, A
  <2>6. ASSUME NEW k \in DOMAIN o, o[k] # Keep PROVE Written(A, j, out)[j + k - 1] = o[k]
    <3>1. k \in 1 .. n /\ k \in Nat /\ j + k - 1 \in 0 .. size - 1
      BY <1>3, <1>7, <2>5, <2>6
    <3>2. k \in DOMAIN out /\ out[k] = o[k]
      BY <1>7, <3>1
    <3> QED BY <2>5, <2>6, <3>1, <3>2, WrittenAt
  <2>7. StandsIn(heap', o, w, j)
    BY <2>4, <2>6 DEF StandsIn
  <2> QED BY <2>1, <2>3, <2>7 DEF o, w
<1>9. CASE ~(Capacity(work.arr) >= j + q)
  <2> DEFINE A == Written(Made(q), 0, out)
             new == [arr |-> Len(heap) + 1, off |-> 0, len |-> n]
  <2>1. heap' = Append(heap, A) /\ Packed(i, j) = new
    BY <1>6, <1>9 DEF PackBlock, Packed, q, n, o, out, Open
  <2>2. A \in [0 .. q - 1 -> B]
    <3>1. Made(q) \in [0 .. q - 1 -> B]
      BY <1>3, MadeFacts DEF B
    <3> QED BY <1>3, <3>1, WrittenFacts
  <2>3. heap'[Len(heap) + 1] = A
    <3> HIDE DEF A
    <3>1. heap \in Seq({heap[c] : c \in DOMAIN heap} \cup {A})
      BY <1>4 DEF HeapOf
    <3> QED BY <1>4, <2>1, <3>1, AppendProperties
  <2>4. Kept(heap, heap', work.arr, j)
    <3> HIDE DEF A
    <3> QED BY <1>3, <1>4, <2>1, <2>2, Allocate
  <2>5. ASSUME NEW k \in DOMAIN o, o[k] # Keep PROVE A[0 + k - 1] = o[k]
    <3>1. k \in 1 .. n /\ k \in Nat /\ 0 + k - 1 \in 0 .. q - 1
      BY <1>3, <1>7, <2>5
    <3>2. k \in DOMAIN out /\ out[k] = o[k]
      BY <1>7, <3>1
    <3>3. DOMAIN Made(q) = 0 .. q - 1
      BY DEF Made
    <3> QED BY <1>3, <2>5, <3>1, <3>2, <3>3, WrittenAt
  <2>6. StandsIn(heap', o, Len(heap) + 1, 0)
    BY <2>3, <2>5 DEF StandsIn
  <2> QED BY <2>1, <2>4, <2>6 DEF o
<1> QED BY <1>8, <1>9

(* The call's code is the same after a step that makes no call. *)
LEMMA SameOpen ==
  ASSUME requests' = requests
  PROVE  /\ call' = call /\ pack' = pack /\ Encoded(call)' = Encoded(call)
         /\ Open(1)' = Open(1) /\ Open(2)' = Open(2)
<1>1. PICK n : n = call
  OBVIOUS
<1>2. call' = n /\ call' = call /\ pack' = pack
  BY <1>1 DEF call, pack
<1>3. requests'[n] = requests[n]
  OBVIOUS
<1>4. Encoded(n)' = Encoded(n) /\ \A i, len2 : BlockBytes(n, i, len2)' = BlockBytes(n, i, len2)
  BY <1>3, SameCode
<1>5. Encoded(call)' = Encoded(call)
  BY <1>1, <1>2, <1>4
<1>6. BlockBytes(n, 1, <<Keep, Keep>>)' = BlockBytes(n, 1, <<Keep, Keep>>)
      /\ BlockBytes(n, 2, <<Keep, Keep>>)' = BlockBytes(n, 2, <<Keep, Keep>>)
  BY <1>4
<1>7. Open(1)' = Open(1) /\ Open(2)' = Open(2)
  BY <1>1, <1>2, <1>6 DEF Open
<1> QED BY <1>2, <1>5, <1>7

(* packBlock writes the first sub-block, or the only one. *)
LEMMA FirstBytes ==
  ASSUME BytesInv, StreamInv', ViewKept, PackFirst
  PROVE  BytesInv' /\ Walk(dst)'[start] = Walk(dst)[start]
<1> DEFINE lay == pack.layout
           P == Packed(1, innerOff)
<1>1. /\ pc = "first" /\ PackBlock(1, innerOff) /\ block1' = P
      /\ pc' = CASE lay = "for64" -> "wrap" [] lay = "pair" -> "second" [] OTHER -> "return"
      /\ UNCHANGED <<dst, start, requests, work, off, block2, reading, view, at, seen>>
  BY DEF PackFirst, caller, reader, costs
<1>2. StreamInv /\ Chain(dst) /\ CopyInv /\ WalkInv /\ InCall
  BY <1>1 DEF BytesInv, InCall
<1>3. call \in Nat /\ call > 0 /\ pack \in Packs /\ off \in Nat
  BY <1>1, <1>2, CallFacts
<1>4. /\ innerOff \in Nat /\ off <= innerOff /\ (lay # "for64" => innerOff = off)
      /\ InPlace => Capacity(work.arr) >= innerOff + request(1)
      /\ ~InPlace => off = 0 /\ lay = "uint32"
  BY <1>1, <1>2, FirstFits
<1>5. 1 \in DOMAIN pack.parts /\ lay \in {"uint32", "for64", "narrow", "pair"}
  BY <1>3, PackFacts
<1>6. /\ StandsIn(heap', Open(1), P.arr, P.off) /\ Kept(heap, heap', work.arr, off)
      /\ P.len = Len(Open(1))
      /\ IF Capacity(work.arr) >= innerOff + request(1) THEN P.off = innerOff ELSE P.off = 0
  BY <1>1, <1>2, <1>4, <1>5, PackStands, PackStep DEF Open
<1>7. Chain(dst)' /\ CopyInv' /\ WalkInv' /\ Walk(dst)'[start] = Walk(dst)[start]
  BY <1>1, <1>2, <1>6, PhaseBytes
<1>8. lay # "for64" => P.off = off
  BY <1>4, <1>6
<1>9. /\ call' = call /\ pack' = pack /\ Encoded(call)' = Encoded(call) /\ Open(1)' = Open(1)
  BY <1>1, SameOpen
<1> HIDE DEF P
<1>10. StandAt(Open(1), block1.arr, block1.off)'
  BY <1>1, <1>6, <1>9 DEF StandsIn, StandAt
<1>11. pc' = "return" => Encoded(call) = Open(1) /\ lay \in {"uint32", "narrow"}
  <2> SUFFICES ASSUME lay \in {"uint32", "narrow"} PROVE Encoded(call) = Open(1)
    BY <1>1, <1>5
  <2>1. combine(call, 1) = FALSE
    BY DEF combine, pack
  <2>2. BlockBytes(call, 1, <<Keep, Keep>>) = BlockBytes(call, 1, <<>>)
    BY <2>1 DEF BlockBytes
  <2>3. Encoded(call) = BlockBytes(call, 1, <<>>)
    BY DEF Encoded, pack
  <2> QED BY <2>2, <2>3 DEF Open
<1>12. PackedInv'
  <2>1. pc' # "link"
    BY <1>1, <1>5
  <2>2. pc' \in {"wrap", "second"} => block1'.len = Len(Open(1)') /\ StandAt(Open(1), block1.arr, block1.off)'
    BY <1>1, <1>6, <1>9, <1>10
  <2>3. ASSUME pc' = "return"
        PROVE  blockLen' = Len(Encoded(call)') /\ StandAt(Encoded(call), block1.arr, off)'
    <3>1. lay \in {"uint32", "narrow"} /\ Encoded(call)' = Open(1) /\ block1'.off = off
      BY <1>1, <1>8, <1>9, <1>11, <2>3
    <3>2. blockLen' = block1'.len + 0
      BY <1>9, <3>1 DEF blockLen
    <3>3. Len(Open(1)) \in Nat
      BY <1>3, <1>5, OpenLaid
    <3>4. blockLen' = Len(Open(1))
      BY <1>1, <1>6, <3>2, <3>3
    <3>5. StandAt(Encoded(call), block1.arr, off)'
      BY <1>1, <1>6, <3>1 DEF StandsIn, StandAt
    <3> QED BY <3>1, <3>4, <3>5
  <2> QED BY <2>1, <2>2, <2>3 DEF PackedInv
<1> QED BY <1>7, <1>12 DEF BytesInv

(* W is A of n bytes with others written at i. *)
WroteAt(W, A, n, i, bytes) ==
  /\ \A k \in DOMAIN bytes :
       k \in Nat /\ bytes[k] # Keep /\ i + k - 1 \in 0 .. n - 1 => W[i + k - 1] = bytes[k]
  /\ \A j \in 0 .. n - 1 : j - i + 1 \notin DOMAIN bytes \/ bytes[j - i + 1] = Keep => W[j] = A[j]
  /\ DOMAIN W = 0 .. n - 1

LEMMA WrittenSo ==
  ASSUME NEW n \in Nat, NEW A, DOMAIN A = 0 .. n - 1, NEW i \in Nat, NEW bytes,
         NEW W, W = Written(A, i, bytes)
  PROVE  WroteAt(W, A, n, i, bytes)
BY WrittenAt DEF WroteAt

(* What moving the first 4 + l bytes eight to the front, and writing bs    *)
(* and hd, makes of bytes op at place i + 8.                               *)
MovedOn(W, i, l, d, op, bs, hd) ==
  /\ \A k \in 1 .. 4 : W[i + k - 1] = hd[k]
  /\ \A k \in 1 .. l : W[i + 4 + k - 1] = op[4 + k]
  /\ \A k \in 1 .. 8 : W[i + 4 + l + k - 1] = bs[k]
  /\ \A k \in 1 .. d : W[i + 4 + l + 8 + k - 1] = op[4 + l + k]

LEMMA WrappedStands ==
  ASSUME NEW size \in Nat, NEW A, DOMAIN A = 0 .. size - 1, NEW i \in Nat, NEW l \in Nat, NEW d \in Nat,
         NEW op, \A k \in 1 .. 4 + l + d : op[k] # Keep /\ A[(i + 8) + k - 1] = op[k],
         i + 8 + 4 + l + d <= size,
         NEW mb, DOMAIN mb = 1 .. 4 + l, \A k \in 1 .. 4 + l : mb[k] = op[k],
         NEW bs, DOMAIN bs = 1 .. 8, \A k \in 1 .. 8 : bs[k] # Keep,
         NEW hd, DOMAIN hd = 1 .. 4, \A k \in 1 .. 4 : hd[k] # Keep
  PROVE  MovedOn(Written(Written(Written(A, i, mb), i + (4 + l), bs), i, hd), i, l, d, op, bs, hd)
<1> DEFINE X == Written(A, i, mb)
           Y == Written(X, i + (4 + l), bs)
           W == Written(Y, i, hd)
           p == i + (4 + l)
<1>1. WroteAt(X, A, size, i, mb)
  BY WrittenSo
<1>2. p \in Nat /\ DOMAIN X = 0 .. size - 1
  BY <1>1 DEF WroteAt
<1>13. WroteAt(Y, X, size, p, bs)
  <2>1. Y = Written(X, p, bs)
    OBVIOUS
  <2> HIDE DEF X, Y, p
  <2> QED BY <1>2, <2>1, WrittenSo
<1>14. WroteAt(W, Y, size, i, hd)
  <2>1. DOMAIN Y = 0 .. size - 1 /\ W = Written(Y, i, hd)
    BY <1>13 DEF WroteAt
  <2> HIDE DEF Y, W
  <2> QED BY <2>1, WrittenSo
<1> HIDE DEF X, Y, W
<1> USE DEF WroteAt
<1>3. WroteAt(Y, X, size, p, bs)
  BY <1>13
<1>4. WroteAt(W, Y, size, i, hd)
  BY <1>14
<1>5. ASSUME NEW k \in 1 .. 4 PROVE W[i + k - 1] = hd[k]
  <2>1. k \in DOMAIN hd /\ k \in Nat /\ i + k - 1 \in 0 .. size - 1
    OBVIOUS
  <2> QED BY <1>4, <2>1
<1>6. ASSUME NEW k \in 1 .. l PROVE W[i + 4 + k - 1] = op[4 + k]
  <2> DEFINE j == i + (4 + k) - 1
  <2>1. /\ j \in 0 .. size - 1 /\ i + 4 + k - 1 = j
        /\ j - i + 1 \notin 1 .. 4 /\ j - p + 1 \notin 1 .. 8 /\ 4 + k \in 1 .. 4 + l /\ 4 + k \in 1 .. 4 + l + d
        /\ 4 + k \in Nat
    OBVIOUS
  <2>2. W[j] = Y[j] /\ Y[j] = X[j]
    <3> HIDE DEF j, p
    <3> QED BY <1>3, <1>4, <2>1
  <2>3. X[j] = mb[4 + k]
    BY <1>1, <2>1
  <2> QED BY <2>1, <2>2, <2>3
<1>7. ASSUME NEW k \in 1 .. 8 PROVE W[i + 4 + l + k - 1] = bs[k]
  <2> DEFINE j == p + k - 1
  <2>1. /\ j \in 0 .. size - 1 /\ i + 4 + l + k - 1 = j
        /\ j - i + 1 \notin 1 .. 4 /\ k \in DOMAIN bs /\ k \in Nat
    OBVIOUS
  <2>2. W[j] = Y[j]
    <3> HIDE DEF j, p
    <3> QED BY <1>4, <2>1
  <2>3. Y[j] = bs[k]
    <3> HIDE DEF p
    <3> QED BY <1>3, <2>1
  <2> QED BY <2>1, <2>2, <2>3
<1>8. ASSUME NEW k \in 1 .. d PROVE W[i + 4 + l + 8 + k - 1] = op[4 + l + k]
  <2> DEFINE j == i + 4 + l + 8 + k - 1
  <2>1. /\ j \in 0 .. size - 1 /\ (i + 8) + (4 + l + k) - 1 = j
        /\ j - i + 1 \notin 1 .. 4 /\ j - p + 1 \notin 1 .. 8 /\ j - i + 1 \notin 1 .. 4 + l
        /\ 4 + l + k \in 1 .. 4 + l + d
    OBVIOUS
  <2>2. W[j] = Y[j] /\ Y[j] = X[j] /\ X[j] = A[j]
    <3> HIDE DEF j, p
    <3> QED BY <1>1, <1>3, <1>4, <2>1
  <2>3. A[j] = op[4 + l + k]
    BY <2>1
  <2> QED BY <2>2, <2>3
<1>9. MovedOn(W, i, l, d, op, bs, hd)
  BY <1>5, <1>6, <1>7, <1>8 DEF MovedOn
<1> QED BY <1>9 DEF W, Y, X

(* A block with a FOR64 base is the one that was packed, moved. *)
LEMMA WrapBytes ==
  ASSUME BytesInv, StreamInv', ViewKept, WrapFor64, Kept(heap, heap', work.arr, off)
  PROVE  BytesInv' /\ Walk(dst)'[start] = Walk(dst)[start]
<1> DEFINE n == call
           b == part(n, 1)
           l == svbLenSize(n, 1)
           d == payloadLen(n, 1)
           op == Open(1)
           code == Encoded(n)
           w == work.arr
           A == heap[w]
           size == Capacity(w)
           tail == PayloadOnwards(n, 1)
           num == b.svbLen
<1>1. /\ pc = "wrap" /\ pc' = "return" /\ heap' = [heap EXCEPT ![w] = Wrapped(A)]
      /\ UNCHANGED <<dst, start, requests, work, off, block1, block2, reading, view, at, seen>>
  BY DEF WrapFor64, caller, reader
<1>2. /\ StreamInv /\ Chain(dst) /\ CopyInv /\ WalkInv
      /\ block1.len = Len(op) /\ StandAt(op, block1.arr, block1.off)
  BY <1>1 DEF BytesInv, PackedInv
<1>3. /\ n \in Nat /\ n > 0 /\ pack \in Packs /\ off \in Nat /\ size \in Nat /\ w \in 1 .. Len(heap)
  BY <1>1, <1>2, CallFacts
<1>4. /\ pack.layout = "for64" /\ IsSlice(block1) /\ HeapInv /\ block1.arr = w /\ block1.off = off + 8
  BY <1>1, <1>2 DEF StreamInv, SliceInv, RoomInv, InPlace, innerOff, for64BaseSize
<1>5. 1 \in DOMAIN pack.parts /\ b.forWidth = forWidthNone
  BY <1>3, <1>4, PackFacts DEF part, pack
<1>6. combine(n, 1) = FALSE /\ forBaseBytes(b.forWidth) = 0
  <2>1. combine(n, 1) = FALSE
    BY <1>4 DEF combine, pack
  <2>2. forBaseBytes(forWidthNone) = 0
    BY DEF forBaseBytes, forWidthNone, forWidthU8, forWidthU16, forWidthU32
  <2> QED BY <1>5, <2>1, <2>2
<1>7. Laid(op, n, 1, "header", "base", 0, <<>>) /\ IsPart(part(n, 1)) /\ op \in Seq(Code)
  BY <1>3, <1>5, <1>6, OpenLaid
<1>8. Laid(code, n, 1, "header64", "base64", 8, <<>>)
  <2>1. requests[n].pack.layout = "for64"
    BY <1>4 DEF pack
  <2> QED BY <1>3, <1>7, <2>1, WideLaid
<1>9. /\ Len(op) = 4 + l + 0 + 0 + d /\ l \in Nat /\ d \in Nat
      /\ \A k \in 1 .. l : op[4 + k] = <<n, 1, "svbLen", num>>
      /\ \A k \in 1 .. d : op[4 + l + 0 + 0 + k] = tail[k]
  BY <1>7 DEF Laid
<1>10. /\ code \in Seq(Code) /\ Len(code) = 4 + l + 8 + 0 + d
       /\ \A k \in 1 .. 4 : code[k] = <<n, 1, "header64", k>>
       /\ \A k \in 1 .. l : code[4 + k] = <<n, 1, "svbLen", num>>
       /\ \A k \in 1 .. 8 : code[4 + l + k] = <<n, 1, "base64", k>>
       /\ \A k \in 1 .. d : code[4 + l + 8 + 0 + k] = tail[k]
  BY <1>8 DEF Laid
<1>11. \A k \in 1 .. Len(op) : op[k] # Keep
  <2>1. "header" \in FieldNames /\ "base" \in FieldNames \ {"header", "header64"}
    BY DEF FieldNames
  <2>2. \A k \in 1 .. Len(<<>>) : Inner(<<>>[k])
    OBVIOUS
  <2>3. /\ \A k \in 1 .. Len(op) : k # 1 \/ 1 # 1 => Inner(op[k])
        /\ op[1] # Keep
    BY <1>3, <1>7, <2>1, <2>2, HeadOnly
  <2> HIDE DEF op
  <2> QED BY <2>3 DEF Inner
<1>12. insertPos = 4 + l
  BY DEF insertPos, headerBytes, svbLenBytes, svbLenSize
<1> DEFINE mb == Bytes(block1, insertPos)
           bs == Field(n, 1, "base64", 8)
           hd == Field(n, 1, "header64", 4)
<1>13. Wrapped(A) = Written(Written(Written(A, off, mb), off + (4 + l), bs), off, hd)
  BY <1>12 DEF Wrapped, for64BaseSize, headerBytes
<1>14. DOMAIN bs = 1 .. 8 /\ (\A k \in 1 .. 8 : bs[k] # Keep /\ bs[k] = <<n, 1, "base64", k>>)
       /\ DOMAIN hd = 1 .. 4 /\ (\A k \in 1 .. 4 : hd[k] # Keep /\ hd[k] = <<n, 1, "header64", k>>)
  BY DEF Field, Keep
<1>15. DOMAIN A = 0 .. size - 1
  BY <1>3, <1>4, StateFacts DEF HeapInv
<1>16. DOMAIN op = 1 .. Len(op)
  BY <1>3, <1>5, OpenLaid
<1>17. \A k \in 1 .. Len(op) : A[(off + 8) + k - 1] = op[k]
  BY <1>2, <1>4, <1>11, <1>16 DEF StandAt
<1>18. off + 8 + Len(op) <= size
  BY <1>2, <1>4 DEF IsSlice
<1>19. DOMAIN mb = 1 .. 4 + l /\ \A k \in 1 .. 4 + l : mb[k] = A[(off + 8) + k - 1]
  BY <1>4, <1>12 DEF Bytes
<1> HIDE DEF n, b, l, d, op, code, A, size, tail, num, mb, bs, hd, w
<1>20. MovedOn(Wrapped(A), off, l, d, op, bs, hd)
  <2>1. \A k \in 1 .. 4 + l + d : op[k] # Keep /\ A[(off + 8) + k - 1] = op[k]
    BY <1>9, <1>11, <1>17
  <2>2. off + 8 + 4 + l + d <= size
    BY <1>3, <1>9, <1>18
  <2>3. \A k \in 1 .. 4 + l : mb[k] = op[k]
    BY <1>9, <1>19, <2>1
  <2>4. /\ size \in Nat /\ DOMAIN A = 0 .. size - 1 /\ off \in Nat /\ l \in Nat /\ d \in Nat
        /\ DOMAIN mb = 1 .. 4 + l /\ DOMAIN bs = 1 .. 8 /\ DOMAIN hd = 1 .. 4
        /\ (\A k \in 1 .. 8 : bs[k] # Keep) /\ (\A k \in 1 .. 4 : hd[k] # Keep)
    BY <1>3, <1>9, <1>14, <1>15, <1>19
  <2>5. MovedOn(Written(Written(Written(A, off, mb), off + (4 + l), bs), off, hd), off, l, d, op, bs, hd)
    BY <2>1, <2>2, <2>3, <2>4, WrappedStands
  <2> QED BY <1>13, <2>5
<1>21. /\ \A k \in 1 .. 4 : Wrapped(A)[off + k - 1] = code[k]
       /\ \A k \in 1 .. l : Wrapped(A)[off + 4 + k - 1] = code[4 + k]
       /\ \A k \in 1 .. 8 : Wrapped(A)[off + 4 + l + k - 1] = code[4 + l + k]
       /\ \A k \in 1 .. d : Wrapped(A)[off + 4 + l + 8 + k - 1] = code[4 + l + 8 + k]
  <2>1. ASSUME NEW k \in 1 .. d PROVE code[4 + l + 8 + k] = op[4 + l + k]
    <3>1. 4 + l + 8 + 0 + k = 4 + l + 8 + k /\ 4 + l + 0 + 0 + k = 4 + l + k
      BY <1>9
    <3> QED BY <1>9, <1>10, <3>1
  <2> QED BY <1>9, <1>10, <1>14, <1>20, <2>1 DEF MovedOn
<1>22. ASSUME NEW k \in 1 .. Len(code) PROVE Wrapped(A)[off + k - 1] = code[k]
  <2>1. CASE k <= 4
    <3>1. k \in 1 .. 4
      BY <1>9, <1>10, <2>1
    <3> QED BY <1>21, <3>1
  <2>2. CASE 4 < k /\ k <= 4 + l
    <3>1. PICK j \in 1 .. l : k = 4 + j
      <4>1. k - 4 \in 1 .. l /\ k = 4 + (k - 4)
        BY <1>9, <2>2
      <4> QED BY <4>1
    <3>2. off + k - 1 = off + 4 + j - 1
      BY <1>3, <3>1
    <3> QED BY <1>21, <3>1, <3>2
  <2>3. CASE 4 + l < k /\ k <= 4 + l + 8
    <3>1. PICK j \in 1 .. 8 : k = 4 + l + j
      <4>1. k - (4 + l) \in 1 .. 8 /\ k = 4 + l + (k - (4 + l))
        BY <1>9, <2>3
      <4> QED BY <4>1
    <3>2. off + k - 1 = off + 4 + l + j - 1
      BY <1>3, <1>9, <3>1
    <3> QED BY <1>21, <3>1, <3>2
  <2>4. CASE 4 + l + 8 < k
    <3>1. PICK j \in 1 .. d : k = 4 + l + 8 + j
      <4>1. k - (4 + l + 8) \in 1 .. d /\ k = 4 + l + 8 + (k - (4 + l + 8))
        BY <1>9, <1>10, <2>4
      <4> QED BY <4>1
    <3>2. off + k - 1 = off + 4 + l + 8 + j - 1
      BY <1>3, <1>9, <3>1
    <3> QED BY <1>21, <3>1, <3>2
  <2> QED BY <1>9, <1>10, <2>1, <2>2, <2>3, <2>4
<1>23. heap'[w] = Wrapped(A)
  <2>1. w \in DOMAIN heap
    BY <1>3, <1>4, StateFacts
  <2> QED BY <1>1, <2>1
<1>24. /\ call' = call /\ pack' = pack /\ Encoded(call)' = Encoded(call)
  BY <1>1, SameOpen
<1>25. StandAt(Encoded(call), block1.arr, off)'
  <2>1. DOMAIN code = 1 .. Len(code)
    BY <1>10, LenProperties
  <2>2. \A k \in DOMAIN code : heap'[block1.arr][off + k - 1] = code[k]
    BY <1>4, <1>22, <1>23, <2>1
  <2>3. Encoded(call)' = code
    BY <1>24 DEF code, n
  <2> QED BY <1>1, <2>2, <2>3 DEF StandAt
<1>26. blockLen' = Len(Encoded(call)')
  <2>1. blockLen' = Len(op) + 8
    BY <1>1, <1>2, <1>4, <1>24 DEF blockLen, for64BaseSize
  <2>2. Len(Encoded(call)') = Len(code)
    BY <1>24 DEF code, n
  <2> QED BY <1>9, <1>10, <2>1, <2>2
<1>27. Chain(dst)' /\ CopyInv' /\ WalkInv' /\ Walk(dst)'[start] = Walk(dst)[start]
  BY <1>1, <1>2, PhaseBytes
<1>28. PackedInv'
  BY <1>1, <1>25, <1>26 DEF PackedInv
<1> QED BY <1>27, <1>28 DEF BytesInv

(* The room of a call suffices for its second sub-block, behind the first. *)
LEMMA SecondFits ==
  ASSUME StreamInv, pc = "second"
  PROVE  /\ off + block1.len \in Nat /\ off <= off + block1.len /\ 2 \in DOMAIN pack.parts
         /\ IsSlice(block1) /\ block1.arr = work.arr /\ block1.off = off
         /\ Capacity(work.arr) >= (off + block1.len) + request(2)
<1> DEFINE j == off + block1.len
           M == MaxBlockLength32(pack.flags)
           q == request(2)
           size == Capacity(work.arr)
           n == Len(BlockBytes(call, 2, <<Keep, Keep>>))
<1>1. call \in Nat /\ call > 0 /\ pack \in Packs /\ size \in Nat /\ off \in Nat
  BY CallFacts
<1>2. /\ pack.layout = "pair" /\ IsSlice(block1) /\ block1.arr = work.arr /\ block1.off = off
      /\ block1.len <= M + 2 /\ size >= off + needed(pack)
  BY DEF StreamInv, SliceInv, RoomInv, InPlace, InCall, innerOff, block2LenBytes
<1>3. 2 \in DOMAIN pack.parts
  BY <1>1, <1>2, PackFacts
<1>4. block1.len \in Nat /\ j \in Nat /\ off <= j
  <2>1. block1.len \in Nat
    BY <1>2 DEF IsSlice
  <2> QED BY <1>1, <2>1
<1>5. q \in Nat /\ q <= M
  <2> DEFINE cc == combine(call, 2)
  <2>1. q \in Nat /\ q <= M + IF cc THEN 2 ELSE 0
    BY <1>1, <1>3, OutputFacts
  <2>2. ~cc
    BY DEF combine
  <2>3. M \in Nat
    BY BoundType
  <2> HIDE DEF q, M, cc
  <2> QED BY <2>1, <2>2, <2>3
<1>6. needed(pack) = 2 * M + 2 /\ M \in Nat
  BY <1>1, <1>2, NeededFacts
<1>7. size >= j + q
  <2> HIDE DEF M, q, size
  <2> QED BY <1>1, <1>2, <1>4, <1>5, <1>6
<1> QED BY <1>2, <1>3, <1>4, <1>7

(* packBlock writes the high halves behind block 1, which stays. *)
LEMMA SecondBytes ==
  ASSUME BytesInv, StreamInv', ViewKept, PackSecond
  PROVE  BytesInv' /\ Walk(dst)'[start] = Walk(dst)[start]
<1> DEFINE j == off + block1.len
           P == Packed(2, j)
           w == work.arr
           size == Capacity(w)
           op == Open(1)
<1>1. /\ pc = "second" /\ pc' = "link" /\ PackBlock(2, j) /\ block2' = P
      /\ UNCHANGED <<dst, start, requests, work, off, block1, reading, view, at, seen>>
  BY DEF PackSecond, caller, reader, costs
<1>2. /\ StreamInv /\ Chain(dst) /\ CopyInv /\ WalkInv /\ InCall
      /\ block1.len = Len(op) /\ StandAt(op, block1.arr, block1.off)
  BY <1>1 DEF BytesInv, PackedInv, InCall
<1>3. call \in Nat /\ call > 0 /\ pack \in Packs /\ off \in Nat /\ size \in Nat /\ w \in 1 .. Len(heap)
  BY <1>1, <1>2, CallFacts
<1>4. /\ j \in Nat /\ off <= j /\ 2 \in DOMAIN pack.parts
      /\ IsSlice(block1) /\ block1.arr = w /\ block1.off = off /\ size >= j + request(2)
  BY <1>1, <1>2, SecondFits
<1>5. /\ StandsIn(heap', Open(2), P.arr, P.off) /\ Kept(heap, heap', w, j) /\ Kept(heap, heap', w, off)
      /\ P.len = Len(Open(2)) /\ P.arr = w /\ P.off = j
  BY <1>1, <1>2, <1>4, PackStands, PackStep DEF Open
<1>6. Chain(dst)' /\ CopyInv' /\ WalkInv' /\ Walk(dst)'[start] = Walk(dst)[start]
  BY <1>1, <1>2, <1>5, PhaseBytes
<1>7. /\ Open(1)' = Open(1) /\ Open(2)' = Open(2)
  BY <1>1, SameOpen
<1>8. /\ op \in Seq(Code) /\ DOMAIN op = 1 .. Len(op) /\ Len(op) \in Nat
  BY <1>3, PackFacts, OpenLaid
<1>9. block1.off + block1.len <= size
  BY <1>4 DEF IsSlice
<1>10. \A x \in 0 .. size - 1 : x < j => heap'[w][x] = heap[w][x]
  BY <1>3, <1>5 DEF Kept, SizeIn, Capacity
<1> HIDE DEF P, op, j, size
<1>11. ASSUME NEW k \in DOMAIN op, op[k] # Keep PROVE heap'[w][off + k - 1] = op[k]
  <2>1. heap[w][off + k - 1] = op[k]
    BY <1>2, <1>4, <1>11 DEF StandAt
  <2>2. off + k - 1 \in 0 .. size - 1 /\ off + k - 1 < j
    <3>1. k \in 1 .. Len(op) /\ j = off + Len(op) /\ off + Len(op) <= size
      BY <1>2, <1>4, <1>8, <1>9, <1>11 DEF j
    <3> QED BY <1>3, <1>8, <3>1
  <2> QED BY <1>10, <2>1, <2>2
<1>12. StandAt(Open(1), block1.arr, block1.off)'
  <2>1. StandAt(op, w, off)' <=> \A k \in DOMAIN op : op[k] # Keep => heap'[w][off + k - 1] = op[k]
    BY <1>1, <1>7 DEF StandAt, op
  <2> QED BY <1>1, <1>4, <1>11, <2>1 DEF op
<1>13. StandAt(Open(2), block2.arr, block2.off)'
  BY <1>1, <1>5, <1>7 DEF StandsIn, StandAt
<1>14. PackedInv'
  BY <1>1, <1>2, <1>4, <1>5, <1>7, <1>12, <1>13 DEF PackedInv, op, j
<1> QED BY <1>6, <1>14 DEF BytesInv

(* Two layouts of a sub-block differ by what stands in front of its payload. *)
DifferAt(a, b, m1, m2, z) ==
  /\ Len(a) = Len(b) /\ Len(b) \in Nat /\ z \in Nat /\ z + 2 <= Len(b)
  /\ b[z + 1] = m2[1] /\ b[z + 2] = m2[2] /\ a[z + 1] = m1[1] /\ a[z + 2] = m1[2]
  /\ \A k \in 1 .. Len(b) : k # z + 1 /\ k # z + 2 => b[k] = a[k]

LEMMA MidOnly ==
  ASSUME NEW n \in Nat, NEW i \in Nat, NEW h, NEW f, NEW u \in Nat, NEW a, NEW b, NEW m1, NEW m2,
         Laid(a, n, i, h, f, u, m1), Laid(b, n, i, h, f, u, m2), Len(m1) = 2, Len(m2) = 2,
         NEW z, z = 4 + svbLenSize(n, i) + u
  PROVE  DifferAt(a, b, m1, m2, z)
<1> DEFINE l == svbLenSize(n, i)
           d == payloadLen(n, i)
           num == part(n, i).svbLen
           tail == PayloadOnwards(n, i)
<1>1. /\ Len(a) = 4 + l + u + 2 + d /\ l \in Nat /\ d \in Nat
      /\ \A k \in 1 .. 4 : a[k] = <<n, i, h, k>>
      /\ \A k \in 1 .. l : a[4 + k] = <<n, i, "svbLen", num>>
      /\ \A k \in 1 .. u : a[4 + l + k] = <<n, i, f, k>>
      /\ \A k \in 1 .. 2 : a[4 + l + u + k] = m1[k]
      /\ \A k \in 1 .. d : a[4 + l + u + 2 + k] = tail[k]
  BY DEF Laid
<1>2. /\ Len(b) = 4 + l + u + 2 + d
      /\ \A k \in 1 .. 4 : b[k] = <<n, i, h, k>>
      /\ \A k \in 1 .. l : b[4 + k] = <<n, i, "svbLen", num>>
      /\ \A k \in 1 .. u : b[4 + l + k] = <<n, i, f, k>>
      /\ \A k \in 1 .. 2 : b[4 + l + u + k] = m2[k]
      /\ \A k \in 1 .. d : b[4 + l + u + 2 + k] = tail[k]
  BY DEF Laid
<1> HIDE DEF l, d, num, tail
<1>3. z = 4 + l + u
  BY DEF l
<1>4. ASSUME NEW k \in 1 .. Len(b), k # z + 1, k # z + 2 PROVE b[k] = a[k]
  <2>1. CASE k <= 4
    <3>1. k \in 1 .. 4
      BY <1>1, <1>2, <2>1
    <3> QED BY <1>1, <1>2, <3>1
  <2>2. CASE 4 < k /\ k <= 4 + l
    <3>1. PICK j \in 1 .. l : k = 4 + j
      <4>1. k - 4 \in 1 .. l /\ k = 4 + (k - 4)
        BY <1>1, <2>2
      <4> QED BY <4>1
    <3> QED BY <1>1, <1>2, <3>1
  <2>3. CASE 4 + l < k /\ k <= 4 + l + u
    <3>1. PICK j \in 1 .. u : k = 4 + l + j
      <4>1. k - (4 + l) \in 1 .. u /\ k = 4 + l + (k - (4 + l))
        BY <1>1, <2>3
      <4> QED BY <4>1
    <3> QED BY <1>1, <1>2, <3>1
  <2>4. CASE 4 + l + u + 2 < k
    <3>1. PICK j \in 1 .. d : k = 4 + l + u + 2 + j
      <4>1. k - (4 + l + u + 2) \in 1 .. d /\ k = 4 + l + u + 2 + (k - (4 + l + u + 2))
        BY <1>1, <1>2, <2>4
      <4> QED BY <4>1
    <3> QED BY <1>1, <1>2, <3>1
  <2>5. k <= 4 + l + u \/ 4 + l + u + 2 < k
    <3>1. l \in Nat /\ u \in Nat /\ k \in Nat
      BY <1>1, <1>2
    <3> QED BY <1>3, <1>4, <3>1
  <2> QED BY <1>1, <1>2, <2>1, <2>2, <2>3, <2>4, <2>5
<1>5. Len(b) \in Nat /\ z \in Nat /\ z + 2 <= Len(b)
  BY <1>1, <1>2, <1>3
<1>6. b[z + 1] = m2[1] /\ b[z + 2] = m2[2] /\ a[z + 1] = m1[1] /\ a[z + 2] = m1[2]
  <2>1. 1 \in 1 .. 2 /\ 2 \in 1 .. 2
    OBVIOUS
  <2> QED BY <1>1, <1>2, <1>3, <2>1
<1> QED BY <1>1, <1>2, <1>4, <1>5, <1>6 DEF DifferAt

(* A pack of two sub-blocks, from the two that were packed. *)
LEMMA PairCode ==
  ASSUME call \in Nat, pack \in Packs, pack.layout = "pair", NEW z2, z2 = Len(Open(2)),
         NEW z, z = 4 + svbLenSize(call, 1) + forBaseBytes(part(call, 1).forWidth)
  PROVE  /\ Open(1) \in Seq(Code) /\ Open(2) \in Seq(Code) /\ Encoded(call) \in Seq(Code)
         /\ Len(Open(1)) \in Nat /\ z2 \in Nat /\ Len(Encoded(call)) = Len(Open(1)) + z2
         /\ DOMAIN Open(1) = 1 .. Len(Open(1)) /\ DOMAIN Open(2) = 1 .. z2
         /\ DOMAIN Encoded(call) = 1 .. Len(Open(1)) + z2
         /\ z \in Nat /\ z + 2 <= Len(Open(1))
         /\ Encoded(call)[z + 1] = <<call, 1, "block2Len", z2>>
         /\ Encoded(call)[z + 2] = <<call, 1, "block2Len", z2>>
         /\ \A k \in 1 .. Len(Open(1)) : k # z + 1 /\ k # z + 2 => Encoded(call)[k] = Open(1)[k]
         /\ \A k \in 1 .. z2 : Encoded(call)[Len(Open(1)) + k] = Open(2)[k]
<1> DEFINE n == call
           o1 == Open(1)
           o2 == Open(2)
           num == Number(n, 1, "block2Len", z2)
           s1 == BlockBytes(n, 1, num)
           code == Encoded(n)
           u == forBaseBytes(part(n, 1).forWidth)
           k2 == <<Keep, Keep>>
<1>1. 1 \in DOMAIN pack.parts /\ 2 \in DOMAIN pack.parts
  BY PackFacts
<1>2. combine(n, 1) = TRUE /\ combine(n, 2) = FALSE
  BY DEF combine, pack
<1>3. /\ Laid(o1, n, 1, "header", "base", u, k2) /\ o1 \in Seq(Code) /\ Len(o1) \in Nat
      /\ DOMAIN o1 = 1 .. Len(o1) /\ IsPart(part(n, 1))
      /\ o2 \in Seq(Code) /\ z2 \in Nat /\ DOMAIN o2 = 1 .. z2
  BY <1>1, <1>2, OpenLaid
<1>4. o2 = BlockBytes(n, 2, <<>>)
  BY <1>2 DEF Open, BlockBytes
<1>5. code = s1 \o o2
  BY <1>4 DEF Encoded, pack
<1>6. IsNumber(num, n, 1, "block2Len", z2)
  BY <1>3, FieldAt DEF FieldNames
<1>7. num \in Seq(Code) /\ Len(num) = 2 /\ num[1] = <<n, 1, "block2Len", z2>> /\ num[2] = <<n, 1, "block2Len", z2>>
  BY <1>6 DEF IsNumber
<1>8. Laid(s1, n, 1, "header", "base", u, num)
  <2> HIDE DEF num
  <2>1. Laid(BlockBytes(n, 1, num), n, 1, "header", "base", u, IF combine(n, 1) THEN num ELSE <<>>)
    BY <1>3, <1>7, BlockLaid
  <2> QED BY <1>2, <2>1
<1>9. s1 \in Seq(Code)
  BY <1>8 DEF Laid
<1>10. Len(k2) = 2 /\ u \in Nat
  BY <1>3, PartFacts
<1>11. z = 4 + svbLenSize(n, 1) + u
  OBVIOUS
<1>0. n \in Nat
  OBVIOUS
<1> HIDE DEF n, o1, o2, num, s1, code, u, k2
<1>12. /\ Len(s1) = Len(o1) /\ Len(o1) \in Nat /\ z \in Nat /\ z + 2 <= Len(o1)
       /\ s1[z + 1] = num[1] /\ s1[z + 2] = num[2]
       /\ \A k \in 1 .. Len(s1) : k # z + 1 /\ k # z + 2 => s1[k] = o1[k]
  <2>1. DifferAt(o1, s1, k2, num, z)
    BY <1>0, <1>3, <1>7, <1>8, <1>10, <1>11, MidOnly
  <2> QED BY <2>1 DEF DifferAt
<1> DEFINE m == Len(o1)
<1>13. Behind(code, s1, o2, m, z2, Code)
  <2>1. Len(s1) = m /\ Len(o2) = z2
    BY <1>12 DEF o2
  <2> HIDE DEF m
  <2> QED BY <1>3, <1>5, <1>9, <2>1, JoinedOn
<1>14. /\ code \in Seq(Code) /\ Len(code) = m + z2 /\ DOMAIN code = 1 .. m + z2
       /\ \A k \in 1 .. m : code[k] = s1[k]
       /\ \A k \in 1 .. z2 : code[m + k] = o2[k]
  BY <1>13 DEF Behind
<1>15. code[z + 1] = <<n, 1, "block2Len", z2>> /\ code[z + 2] = <<n, 1, "block2Len", z2>>
  <2>1. z + 1 \in 1 .. m /\ z + 2 \in 1 .. m
    BY <1>12
  <2> QED BY <1>7, <1>12, <1>14, <2>1
<1>16. \A k \in 1 .. m : k # z + 1 /\ k # z + 2 => code[k] = o1[k]
  BY <1>12, <1>14
<1> QED BY <1>3, <1>12, <1>14, <1>15, <1>16 DEF n, o1, o2, code

(* writeBlock2Len fills in what packBlock left open. *)
LEMMA LinkBytes ==
  ASSUME BytesInv, StreamInv', ViewKept, LinkBlocks, Kept(heap, heap', work.arr, off)
  PROVE  BytesInv' /\ Walk(dst)'[start] = Walk(dst)[start]
<1> DEFINE n == call
           b == part(n, 1)
           u == forBaseBytes(b.forWidth)
           z == 4 + svbLenSize(n, 1) + u
           w == work.arr
           A == heap[w]
           size == Capacity(w)
           o1 == Open(1)
           o2 == Open(2)
           m == Len(o1)
           z2 == Len(o2)
           code == Encoded(n)
           pOff == payloadOffset(u, b.excCount > 0, TRUE)
           place == block1.off + pOff - block2LenBytes
           num == Number(n, 1, "block2Len", block2.len)
<1>1. /\ pc = "link" /\ pc' = "return"
      /\ heap' = [heap EXCEPT ![block1.arr] = Written(@, place, num)]
      /\ UNCHANGED <<dst, start, requests, work, off, block1, block2, reading, view, at, seen>>
  BY DEF LinkBlocks, caller, reader
<1>2. /\ StreamInv /\ Chain(dst) /\ CopyInv /\ WalkInv
      /\ block1.len = m /\ StandAt(o1, block1.arr, block1.off)
      /\ block2.arr = block1.arr /\ block2.off = off + block1.len
      /\ block2.len = z2 /\ StandAt(o2, block2.arr, block2.off)
  BY <1>1 DEF BytesInv, PackedInv
<1>3. /\ n \in Nat /\ n > 0 /\ pack \in Packs /\ off \in Nat /\ size \in Nat /\ w \in 1 .. Len(heap)
  BY <1>1, <1>2, CallFacts
<1>4. /\ pack.layout = "pair" /\ IsSlice(block1) /\ IsSlice(block2) /\ HeapInv
      /\ block1.arr = w /\ block1.off = off
  BY <1>1, <1>2 DEF StreamInv, SliceInv, RoomInv, InPlace, innerOff
<1>5. /\ m \in Nat /\ z2 \in Nat /\ code \in Seq(Code) /\ Len(code) = m + z2 /\ DOMAIN code = 1 .. m + z2
      /\ DOMAIN o1 = 1 .. m /\ DOMAIN o2 = 1 .. z2
      /\ z \in Nat /\ z + 2 <= m
      /\ code[z + 1] = <<n, 1, "block2Len", z2>> /\ code[z + 2] = <<n, 1, "block2Len", z2>>
      /\ \A k \in 1 .. m : k # z + 1 /\ k # z + 2 => code[k] = o1[k]
      /\ \A k \in 1 .. z2 : code[m + k] = o2[k]
  BY <1>3, <1>4, PairCode
<1>6. place = off + z /\ u \in Nat
  <2> DEFINE l == svbLenSize(n, 1)
  <2>1. pOff = 4 + l + u + 2
    BY DEF payloadOffset, headerBytes, svbLenBytes, block2LenBytes, svbLenSize
  <2>2. u \in Nat /\ l \in Nat
    <3>1. IsPart(b)
      BY <1>3, PackFacts DEF part, pack
    <3> QED BY <3>1, PartFacts DEF svbLenSize
  <2>3. place = off + pOff - 2 /\ z = 4 + l + u
    BY <1>4 DEF block2LenBytes
  <2> HIDE DEF l, u, pOff, place, z
  <2> QED BY <1>3, <2>1, <2>2, <2>3
<1>7. DOMAIN A = 0 .. size - 1 /\ w \in DOMAIN heap
  BY <1>3, <1>4, StateFacts DEF HeapInv
<1>8. DOMAIN num = 1 .. 2 /\ \A k \in 1 .. 2 : num[k] = <<n, 1, "block2Len", z2>>
  BY <1>2 DEF Number
<1>9. off + m <= size /\ off + m + z2 <= size
  <2>1. block2.off + block2.len <= size
    BY <1>2, <1>4 DEF IsSlice
  <2>2. off + m + z2 <= size
    BY <1>2, <2>1
  <2> HIDE DEF m, z2, size
  <2> QED BY <1>3, <1>5, <2>2
<1>10. \A k \in 1 .. m : code[k] # Keep
  <2>1. requests[n].pack \in Packs
    BY <1>3 DEF pack
  <2>2. PICK h \in {"header", "header64"} : Readable(n, h)
    BY <1>3, <2>1, EncodedReadable
  <2>3. code[1] # Keep /\ \A k \in 2 .. Len(code) : Inner(code[k])
    BY <2>2 DEF Readable
  <2> HIDE DEF code, m, z2
  <2>4. ASSUME NEW k \in 1 .. m PROVE code[k] # Keep
    <3>1. k = 1 \/ k \in 2 .. Len(code)
      BY <1>5
    <3> QED BY <2>3, <3>1 DEF Inner
  <2> QED BY <2>4
<1>11. heap'[w] = Written(A, off + z, num)
  BY <1>1, <1>4, <1>6, <1>7
<1>12. \A k \in DOMAIN o1 : o1[k] # Keep => A[off + k - 1] = o1[k]
  BY <1>2, <1>4 DEF StandAt
<1>13. \A k \in DOMAIN o2 : o2[k] # Keep => A[off + m + k - 1] = o2[k]
  BY <1>2, <1>4 DEF StandAt
<1>14. \A k \in 1 .. z2 : o2[k] # Keep
  <2>1. 2 \in DOMAIN pack.parts
    BY <1>3, <1>4, PackFacts
  <2>2. combine(n, 2) = FALSE
    BY DEF combine
  <2>3. Laid(o2, n, 2, "header", "base", forBaseBytes(part(n, 2).forWidth), <<>>) /\ IsPart(part(n, 2))
    BY <1>3, <2>1, <2>2, OpenLaid
  <2>4. "header" \in FieldNames /\ "base" \in FieldNames \ {"header", "header64"}
    BY DEF FieldNames
  <2>5. \A k \in 1 .. Len(<<>>) : Inner(<<>>[k])
    OBVIOUS
  <2>6. \A k \in 1 .. Len(o2) : k # 1 \/ 2 # 1 => Inner(o2[k])
    BY <1>3, <2>3, <2>4, <2>5, HeadOnly
  <2> HIDE DEF o2
  <2> QED BY <2>6 DEF Inner
<1> DEFINE W == Written(A, off + z, num)
<1> HIDE DEF n, b, u, z, A, size, o1, o2, m, z2, code, num, W
<1>15. WroteAt(W, A, size, off + z, num)
  <2>1. off + z \in Nat
    BY <1>3, <1>5
  <2> QED BY <1>3, <1>7, <2>1, WrittenSo DEF W
<1>16. /\ \A k \in 1 .. 2 : num[k] # Keep /\ (off + z) + k - 1 \in 0 .. size - 1 => W[(off + z) + k - 1] = num[k]
       /\ \A j \in 0 .. size - 1 : j - (off + z) + 1 \notin 1 .. 2 => W[j] = A[j]
  BY <1>8, <1>15 DEF WroteAt
<1>17. ASSUME NEW k \in 1 .. m PROVE W[off + k - 1] = code[k]
  <2>1. CASE k = z + 1 \/ k = z + 2
    <3>1. PICK j \in 1 .. 2 : k = z + j
      <4>1. 1 \in 1 .. 2 /\ 2 \in 1 .. 2
        OBVIOUS
      <4> QED BY <2>1, <4>1
    <3>2. code[k] = num[j] /\ num[j] # Keep
      <4>1. j = 1 \/ j = 2
        OBVIOUS
      <4>2. code[k] = <<n, 1, "block2Len", z2>>
        BY <1>5, <3>1, <4>1
      <4>3. num[j] = <<n, 1, "block2Len", z2>>
        BY <1>8
      <4> QED BY <1>10, <4>2, <4>3
    <3>3. (off + z) + j - 1 \in 0 .. size - 1 /\ off + k - 1 = (off + z) + j - 1
      BY <1>3, <1>5, <1>9, <3>1
    <3> QED BY <1>16, <3>2, <3>3
  <2>2. CASE k # z + 1 /\ k # z + 2
    <3>1. code[k] = o1[k] /\ o1[k] # Keep
      BY <1>5, <1>10, <2>2
    <3>2. off + k - 1 \in 0 .. size - 1 /\ (off + k - 1) - (off + z) + 1 \notin 1 .. 2
      BY <1>3, <1>5, <1>9, <2>2
    <3>3. A[off + k - 1] = o1[k]
      BY <1>5, <1>12, <3>1
    <3> QED BY <1>16, <3>1, <3>2, <3>3
  <2> QED BY <2>1, <2>2
<1>18. ASSUME NEW k \in 1 .. z2 PROVE W[off + m + k - 1] = o2[k]
  <2>1. off + m + k - 1 \in 0 .. size - 1 /\ (off + m + k - 1) - (off + z) + 1 \notin 1 .. 2
    BY <1>3, <1>5, <1>9
  <2>2. A[off + m + k - 1] = o2[k]
    BY <1>5, <1>13, <1>14
  <2> QED BY <1>16, <2>1, <2>2
<1>19. ASSUME NEW k \in 1 .. m + z2 PROVE W[off + k - 1] = code[k]
  <2>1. CASE k <= m
    <3>1. k \in 1 .. m
      BY <1>5, <2>1
    <3> QED BY <1>17, <3>1
  <2>2. CASE m < k
    <3>1. PICK j \in 1 .. z2 : k = m + j
      <4>1. k - m \in 1 .. z2 /\ k = m + (k - m)
        BY <1>5, <2>2
      <4> QED BY <4>1
    <3>2. off + k - 1 = off + m + j - 1
      BY <1>3, <1>5, <3>1
    <3> QED BY <1>5, <1>18, <3>1, <3>2
  <2> QED BY <1>5, <2>1, <2>2
<1>20. /\ call' = call /\ pack' = pack /\ Encoded(call)' = Encoded(call)
  BY <1>1, SameOpen
<1>21. StandAt(Encoded(call), block1.arr, off)'
  <2>1. \A k \in DOMAIN code : heap'[block1.arr][off + k - 1] = code[k]
    BY <1>4, <1>5, <1>11, <1>19 DEF W
  <2>2. Encoded(call)' = code
    BY <1>20 DEF code, n
  <2> QED BY <1>1, <2>1, <2>2 DEF StandAt
<1>22. blockLen' = Len(Encoded(call)')
  <2>1. blockLen' = m + z2
    BY <1>1, <1>2, <1>4, <1>20 DEF blockLen
  <2>2. Len(Encoded(call)') = Len(code)
    BY <1>20 DEF code, n
  <2> QED BY <1>5, <2>1, <2>2
<1>23. Chain(dst)' /\ CopyInv' /\ WalkInv' /\ Walk(dst)'[start] = Walk(dst)[start]
  BY <1>1, <1>2, PhaseBytes
<1>24. PackedInv'
  BY <1>1, <1>21, <1>22 DEF PackedInv
<1> QED BY <1>23, <1>24 DEF BytesInv

-----------------------------------------------------------------------------
(* The other steps. *)

(* A slice in arrays to which others are added. *)
LEMMA AddedKeeps ==
  ASSUME HeapInv, NEW A, heap' = Append(heap, A)
  PROVE  /\ heap'[Len(heap) + 1] = A /\ Len(heap') = Len(heap) + 1
         /\ \A a \in 1 .. Len(heap) : heap'[a] = heap[a]
<1>1. heap \in Seq({heap[c] : c \in DOMAIN heap} \cup {A})
  BY DEF HeapInv
<1>2. Len(heap) \in Nat
  BY StateFacts
<1> QED BY <1>1, <1>2, AppendProperties

(* Bytes are not what leaves a place open. *)
LEMMA ByteStands == Keep \notin Byte
BY DEF Byte, Keep, Junk

LEMMA EnsureBytes ==
  ASSUME BytesInv, StreamInv', ViewKept, EnsureCapacity
  PROVE  BytesInv' /\ Walk(dst)'[start] = Walk(dst)[start]
<1>1. /\ pc = "ensure" /\ pc' = "first"
      /\ IF room >= needed(pack) THEN UNCHANGED <<heap, work>>
         ELSE /\ heap' = Append(heap, Grown)
              /\ work' = [arr |-> Len(heap) + 1, off |-> 0, len |-> off]
      /\ UNCHANGED <<dst, start, requests, off, block1, block2, reading, view, at, seen>>
  BY DEF EnsureCapacity, caller, reader, costs
<1>2. /\ StreamInv /\ Chain(dst) /\ CopyInv /\ WalkInv /\ HeapInv /\ IsSlice(dst)
  BY <1>1 DEF BytesInv, StreamInv, SliceInv
<1>3. /\ pack \in Packs /\ off \in Nat /\ off = dst.len /\ IsSlice(work) /\ work.off = 0
      /\ work.arr \in 1 .. Len(heap) /\ Capacity(work.arr) \in Nat /\ off <= Capacity(work.arr)
      /\ cap(work) = Capacity(work.arr)
  BY <1>1, <1>2, CallFacts
<1>4. dst.arr \in 1 .. Len(heap) /\ dst.off = 0
  BY <1>2 DEF IsSlice, StreamInv, SliceInv
<1>5. \A a \in 1 .. Len(heap) : heap'[a] = heap[a]
  <2>1. CASE UNCHANGED heap
    BY <2>1
  <2>2. CASE heap' = Append(heap, Grown)
    BY <1>2, <2>2, AddedKeeps
  <2> QED BY <1>1, <2>1, <2>2
<1>6. SameCalls(requests, requests') /\ SameBytes(dst, heap, heap')
  BY <1>1, <1>4, <1>5 DEF SameCalls, SameBytes
<1>7. Chain(dst)' /\ Walk(dst)'[start] = Walk(dst)[start]
  BY <1>1, <1>2, <1>6, SliceChainStays
<1>8. WalkInv'
  BY <1>1, <1>2, <1>6, WalkStays
<1>9. CopyInv'
  <2>1. ASSUME NEW j \in 0 .. off - 1 PROVE heap'[work'.arr][j] = heap[work.arr][j]
    <3>1. CASE room >= needed(pack)
      BY <1>1, <3>1
    <3>2. CASE ~(room >= needed(pack))
      <4>1. heap' = Append(heap, Grown) /\ work'.arr = Len(heap) + 1
        BY <1>1, <3>2
      <4>2. heap'[work'.arr] = Grown
        BY <1>2, <4>1, AddedKeeps
      <4> DEFINE c == newCap
                 bytes == Bytes(work, off)
      <4>3. c \in Nat /\ off <= c
        <5>1. needed(pack) \in Nat
          BY <1>3, NeededFacts
        <5> QED BY <1>3, <5>1 DEF newCap
      <4>4. DOMAIN Made(c) = 0 .. c - 1
        BY DEF Made
      <4>5. DOMAIN bytes = 1 .. off /\ bytes[j + 1] = heap[work.arr][j]
        <5>1. j + 1 \in 1 .. off /\ 0 + (j + 1) - 1 = j
          BY <1>3
        <5> QED BY <1>3, <5>1 DEF Bytes
      <4>6. heap[work.arr][j] # Keep
        <5>1. heap[work.arr] \in [0 .. Capacity(work.arr) - 1 -> Byte]
          BY <1>2, <1>3, StateFacts DEF HeapInv
        <5>2. j \in 0 .. Capacity(work.arr) - 1
          BY <1>3
        <5>3. heap[work.arr][j] \in Byte
          BY <5>1, <5>2
        <5> QED BY <5>3, ByteStands
      <4>7. Grown = Written(Made(c), 0, bytes)
        BY DEF Grown
      <4> HIDE DEF c, bytes
      <4>8. WroteAt(Grown, Made(c), c, 0, bytes)
        BY <4>3, <4>4, <4>7, WrittenSo
      <4>9. j + 1 \in DOMAIN bytes /\ j + 1 \in Nat /\ 0 + (j + 1) - 1 = j /\ j \in 0 .. c - 1
        BY <1>3, <4>3, <4>5
      <4>10. Grown[j] = bytes[j + 1]
        BY <4>5, <4>6, <4>8, <4>9 DEF WroteAt
      <4> QED BY <4>2, <4>5, <4>10
    <3> QED BY <3>1, <3>2
  <2>2. \A j \in 0 .. off - 1 : heap[work.arr][j] = heap[dst.arr][j]
    BY <1>1, <1>2 DEF CopyInv
  <2>3. heap'[dst.arr] = heap[dst.arr]
    BY <1>4, <1>5
  <2> QED BY <1>1, <2>1, <2>2, <2>3 DEF CopyInv
<1>10. PackedInv'
  BY <1>1 DEF PackedInv
<1> QED BY <1>7, <1>8, <1>9, <1>10 DEF BytesInv

(* A step that makes a call. *)
LEMMA CallAdded ==
  ASSUME HeapInv, NEW x, requests' = Append(requests, x)
  PROVE  SameCalls(requests, requests')
<1>1. requests \in Seq({requests[n] : n \in 1 .. Len(requests)} \cup {x}) /\ Len(requests) \in Nat
  <2> DEFINE S == {requests[n] : n \in 1 .. Len(requests)} \cup {x}
  <2>1. requests \in Seq([pack : Packs \cup {NoPack}, append : BOOLEAN])
    BY DEF HeapInv
  <2>2. Len(requests) \in Nat /\ requests = [n \in 1 .. Len(requests) |-> requests[n]]
    BY <2>1, LenProperties
  <2>3. requests \in [1 .. Len(requests) -> S]
    BY <2>2
  <2> QED BY <2>2, <2>3, SeqDef
<1> QED BY <1>1, AppendProperties DEF SameCalls

LEMMA RejectBytes ==
  ASSUME BytesInv, StreamInv', ViewKept, Reject
  PROVE  BytesInv' /\ Walk(dst)'[start] = Walk(dst)[start]
<1>1. /\ pc = "idle" /\ pc' = "idle" /\ requests' = Append(requests, [pack |-> NoPack, append |-> FALSE])
      /\ UNCHANGED <<heap, dst, start, reading, view, at, seen>>
  BY DEF Reject, reader, costs
<1>2. StreamInv /\ Chain(dst) /\ WalkInv /\ HeapInv
  BY DEF BytesInv, StreamInv
<1>3. SameCalls(requests, requests') /\ SameBytes(dst, heap, heap')
  BY <1>1, <1>2, CallAdded DEF SameBytes
<1>4. Chain(dst)' /\ Walk(dst)'[start] = Walk(dst)[start]
  BY <1>1, <1>2, <1>3, SliceChainStays
<1>5. WalkInv'
  BY <1>1, <1>2, <1>3, WalkStays
<1>6. CopyInv' /\ PackedInv'
  BY <1>1 DEF CopyInv, PackedInv
<1> QED BY <1>4, <1>5, <1>6 DEF BytesInv

LEMMA StartBytes ==
  ASSUME BytesInv, StreamInv', ViewKept, NEW r, NEW append \in BOOLEAN, StartPack(r, append)
  PROVE  /\ BytesInv'
         /\ append => Walk(dst)'[start] = Walk(dst)[start]
         /\ ~append => ~reading /\ Walk(dst)'[start'] = <<>>
<1>1. /\ pc' \in {"first", "ensure"} /\ (append \/ ~reading)
      /\ requests' = Append(requests, [pack |-> r, append |-> append])
      /\ work' = dst /\ off' = offset(append)
      /\ IF append THEN UNCHANGED <<dst, start>> ELSE dst' = [dst EXCEPT !.len = 0] /\ start' = 0
      /\ UNCHANGED <<heap, reading, view, at, seen>>
  BY DEF StartPack, reader, costs
<1>2. StreamInv /\ Chain(dst) /\ WalkInv /\ HeapInv /\ IsSlice(dst)
  BY DEF BytesInv, StreamInv, SliceInv
<1>3. SameCalls(requests, requests')
  BY <1>1, <1>2, CallAdded
<1>4. PackedInv'
  BY <1>1 DEF PackedInv
<1>5. CASE append
  <2>1. SameBytes(dst, heap, heap')
    BY <1>1 DEF SameBytes
  <2>2. UNCHANGED <<dst, start>>
    BY <1>1, <1>5
  <2>3. Chain(dst)' /\ Walk(dst)'[start] = Walk(dst)[start]
    BY <1>2, <1>3, <2>1, <2>2, SliceChainStays
  <2>4. WalkInv'
    BY <1>1, <1>2, <1>3, <2>2, WalkStays
  <2>5. CopyInv'
    BY <1>1, <2>2 DEF CopyInv
  <2> QED BY <1>4, <1>5, <2>3, <2>4, <2>5 DEF BytesInv
<1>6. CASE ~append
  <2>1. ~reading /\ dst' = [dst EXCEPT !.len = 0] /\ start' = 0
    BY <1>1, <1>6
  <2>2. seen' = <<>> /\ ~reading'
    BY <1>1, <1>2, <2>1 DEF WalkInv
  <2>3. WalkInv'
    BY <2>2 DEF WalkInv
  <2>4. off' = 0
    BY <1>1, <1>6 DEF offset
  <2>5. CopyInv'
    BY <2>4 DEF CopyInv
  <2>6. dst'.len = 0
    BY <1>2, <2>1 DEF IsSlice
  <2>7. Heads(dst)' = {}
    BY <2>1, <2>6 DEF Heads
  <2>8. Chain(dst)'
    BY <2>1, <2>6, <2>7 DEF Chain, Ends
  <2>9. Walk(dst)'[start'] = <<>>
    <3>1. PICK s : s = dst'
      OBVIOUS
    <3>2. IsSlice(s)' /\ HeapInv'
      BY <3>1 DEF StreamInv, SliceInv
    <3>3. WalkFacts(s)'
      BY <3>2, WalkThen
    <3>4. Walk(s)'[s.len] = <<>>
      BY <3>3 DEF WalkFacts
    <3> QED BY <2>1, <2>6, <3>1, <3>4
  <2> QED BY <1>4, <1>6, <2>1, <2>3, <2>5, <2>8, <2>9 DEF BytesInv
<1> QED BY <1>5, <1>6

(* Slice r is slice s and the block of call n behind it. *)
Extends(r, s, n) ==
  /\ IsSlice(s) /\ IsSlice(r) /\ s.off = 0 /\ r.off = 0 /\ n \in Nat \ {0}
  /\ BlockStands(r, s.len, n) /\ r.len = s.len + Len(Encoded(n))
  /\ \A p \in 0 .. s.len - 1 : ByteAt(r, p) = ByteAt(s, p)

LEMMA ExtendedChain ==
  ASSUME HeapInv, NEW s, NEW r, NEW n, Extends(r, s, n), Chain(s), start \in Nat
  PROVE  /\ Chain(r) /\ Walk(s)[start] \in Seq(Nat)
         /\ Walk(r)[start] = Walk(s)[start] \o <<n>>
<1> DEFINE L == s.len
           c == Len(Encoded(n))
           E == Ends(s)
           w == Walk(s)
           v == Walk(r)
<1>1. /\ IsSlice(s) /\ IsSlice(r) /\ s.off = 0 /\ r.off = 0 /\ n \in Nat \ {0} /\ n \in Nat
      /\ BlockStands(r, L, n) /\ r.len = L + c
      /\ \A p \in 0 .. L - 1 : ByteAt(r, p) = ByteAt(s, p)
      /\ L \in Nat
  BY DEF Extends, IsSlice
<1>2. /\ c \in Nat /\ c >= 4 /\ Begins(ByteAt(r, L)) /\ ByteAt(r, L)[1] = n
      /\ \A k \in 1 .. c - 1 : ~Begins(ByteAt(r, L + k))
  BY <1>1, FoundBlock
<1>3. /\ w[L] = <<>> /\ E \in SUBSET (0 .. L)
      /\ \A p \in E : w[p] \in Seq(Nat)
      /\ \A p \in E : p # L =>
           /\ p \in Heads(s) /\ blockAt(s, p) \in Nat \ {0}
           /\ nextAt(s, p) \in E /\ nextAt(s, p) > p
           /\ w[p] = <<blockAt(s, p)>> \o w[nextAt(s, p)]
  BY <1>1, ChainWalk
<1>4. start \in E /\ start <= L
  <2>1. start \in E
    BY DEF Chain
  <2> QED BY <1>1, <1>3, <2>1
<1>5. Heads(r) = Heads(s) \cup {L}
  <2>1. ASSUME NEW p \in Heads(s) PROVE p \in Heads(r)
    <3>1. p \in start .. L - 1 /\ Begins(ByteAt(s, p))
      BY DEF Heads
    <3>2. p \in 0 .. L - 1 /\ p \in start .. r.len - 1
      <4> HIDE DEF c, L
      <4> QED BY <1>1, <1>2, <3>1
    <3>3. ByteAt(r, p) = ByteAt(s, p)
      BY <1>1, <3>2
    <3> QED BY <3>1, <3>2, <3>3 DEF Heads
  <2>2. L \in Heads(r)
    <3>1. L \in start .. r.len - 1
      <4> HIDE DEF c, L
      <4> QED BY <1>1, <1>2, <1>4
    <3> QED BY <1>2, <3>1 DEF Heads
  <2>3. ASSUME NEW p \in Heads(r), p # L PROVE p \in Heads(s)
    <3>1. p \in start .. r.len - 1 /\ Begins(ByteAt(r, p))
      BY DEF Heads
    <3>2. p \in start .. L - 1
      <4>1. CASE p < L
        BY <1>1, <3>1, <4>1
      <4>2. CASE p > L
        <5>1. p - L \in 1 .. c - 1 /\ L + (p - L) = p
          <6> HIDE DEF c, L
          <6> QED BY <1>1, <1>2, <3>1, <4>2
        <5>2. ~Begins(ByteAt(r, p))
          BY <1>2, <5>1
        <5> QED BY <3>1, <5>2
      <4> QED BY <1>1, <2>3, <3>1, <4>1, <4>2
    <3>3. ByteAt(r, p) = ByteAt(s, p)
      <4>1. p \in 0 .. L - 1
        BY <1>1, <3>2
      <4> QED BY <1>1, <4>1
    <3> QED BY <3>1, <3>2, <3>3 DEF Heads
  <2> QED BY <2>1, <2>2, <2>3
<1>6. Ends(r) = E \cup {L + c}
  BY <1>1, <1>5 DEF Ends
<1>7. ASSUME NEW p \in Heads(s), NEW x, x = blockAt(s, p)
      PROVE  /\ x \in Nat \ {0} /\ p \in Nat /\ ByteAt(r, p)[1] = x
             /\ p + Len(Encoded(x)) \in E /\ BlockStands(r, p, x)
  <2>1. /\ x \in Nat \ {0} /\ BlockStands(s, p, x) /\ p \in Nat /\ p < L
        /\ Len(Encoded(x)) \in Nat /\ Len(Encoded(x)) >= 4
        /\ p + Len(Encoded(x)) \in E /\ p + Len(Encoded(x)) <= L
    BY <1>1, <1>7, ChainBlocks DEF blockAt
  <2>2. ByteAt(r, p) = ByteAt(s, p)
    BY <1>1, <2>1
  <2> DEFINE code == Encoded(x)
  <2>3. requests[x].pack \in Packs /\ StandAt(code, s.arr, s.off + p)
    BY <2>1 DEF BlockStands
  <2>4. DOMAIN code = 1 .. Len(code)
    <3>1. PICK h \in {"header", "header64"} : Readable(x, h)
      BY <2>1, <2>3, EncodedReadable
    <3>2. code \in Seq(Code)
      BY <3>1 DEF Readable
    <3> HIDE DEF code
    <3> QED BY <3>2, LenProperties
  <2>5. StandAt(code, r.arr, r.off + p)
    <3> SUFFICES ASSUME NEW k \in DOMAIN code, code[k] # Keep PROVE heap[r.arr][r.off + p + k - 1] = code[k]
      BY DEF StandAt
    <3>1. heap[s.arr][s.off + p + k - 1] = code[k]
      BY <2>3 DEF StandAt
    <3>2. p + k - 1 \in 0 .. L - 1 /\ 0 + (p + k - 1) = 0 + p + k - 1
      <4>1. k \in 1 .. Len(code) /\ p + Len(code) <= L /\ Len(code) \in Nat
        BY <2>1, <2>4
      <4> HIDE DEF code, L
      <4> QED BY <1>1, <2>1, <4>1
    <3>3. ByteAt(r, p + k - 1) = ByteAt(s, p + k - 1)
      BY <1>1, <3>2
    <3> QED BY <1>1, <3>1, <3>2, <3>3 DEF ByteAt
  <2>6. p + Len(code) <= r.len
    <3> HIDE DEF code, c, L
    <3> QED BY <1>1, <1>2, <2>1 DEF code
  <2>7. BlockStands(r, p, x)
    BY <2>3, <2>5, <2>6 DEF BlockStands
  <2> QED BY <1>7, <2>1, <2>2, <2>7 DEF blockAt
<1>8. Chain(r)
  <2>1. \A k \in 0 .. start - 1 : ByteAt(r, k) = <<0, 0, "prefix", k + 1>>
    <3> SUFFICES ASSUME NEW k \in 0 .. start - 1 PROVE ByteAt(r, k) = <<0, 0, "prefix", k + 1>>
      OBVIOUS
    <3>1. k \in 0 .. L - 1
      BY <1>1, <1>4
    <3> QED BY <1>1, <3>1 DEF Chain
  <2>2. start \in Ends(r)
    BY <1>4, <1>6
  <2>3. ASSUME NEW p \in Heads(r)
        PROVE  /\ p + Len(Encoded(ByteAt(r, p)[1])) \in Ends(r)
               /\ StandAt(Encoded(ByteAt(r, p)[1]), r.arr, r.off + p)
    <3>1. CASE p = L
      BY <1>1, <1>2, <1>6, <3>1 DEF BlockStands
    <3>2. CASE p \in Heads(s)
      <4>1. PICK x : x = blockAt(s, p)
        OBVIOUS
      <4>2. ByteAt(r, p)[1] = x /\ p + Len(Encoded(x)) \in E /\ BlockStands(r, p, x)
        BY <1>7, <3>2, <4>1
      <4> QED BY <1>6, <4>2 DEF BlockStands
    <3> QED BY <1>5, <3>1, <3>2
  <2> QED BY <2>1, <2>2, <2>3 DEF Chain
<1>9. v[L] = <<n>>
  <2>1. WalkFacts(r)
    BY <1>1, WalkNow
  <2>2. v[L + c] = <<>>
    BY <1>1, <2>1 DEF WalkFacts
  <2>3. v[L] = <<n>> \o v[L + c]
    BY <1>1, <2>1 DEF WalkFacts
  <2>4. <<n>> \o <<>> = <<n>>
    BY <1>1, ConcatEmptySeq
  <2> QED BY <2>2, <2>3, <2>4
<1> DEFINE V == [p \in E |-> blockAt(s, p)]
           N == [p \in E |-> nextAt(s, p)]
<1>10. Goes(E, L, V, N, w) /\ Goes(E, L, V, N, v)
  <2>1. ASSUME NEW p \in E, p # L
        PROVE  /\ V[p] \in Nat /\ N[p] \in E /\ N[p] > p
               /\ w[p] = <<V[p]>> \o w[N[p]] /\ v[p] = <<V[p]>> \o v[N[p]]
    <3>1. p \in Heads(s) /\ nextAt(s, p) \in E /\ nextAt(s, p) > p
          /\ w[p] = <<blockAt(s, p)>> \o w[nextAt(s, p)]
      BY <1>3, <2>1
    <3>2. PICK x : x = blockAt(s, p)
      OBVIOUS
    <3>3. x \in Nat \ {0} /\ p \in Nat /\ BlockStands(r, p, x)
      BY <1>7, <3>1, <3>2
    <3>4. v[p] = <<x>> \o v[p + Len(Encoded(x))]
      BY <1>1, <3>3, WalkNow DEF WalkFacts
    <3>5. V[p] = x /\ N[p] = nextAt(s, p) /\ N[p] = p + Len(Encoded(x))
      BY <2>1, <3>2 DEF nextAt
    <3> HIDE DEF V, N, E, w, v, L
    <3> QED BY <3>1, <3>2, <3>3, <3>4, <3>5
  <2> HIDE DEF V, N, E, w, v, L
  <2> QED BY <2>1 DEF Goes
<1>11. \A p \in E : v[p] = w[p] \o <<n>>
  <2> DEFINE z == <<n>>
  <2>1. z \in Seq(Nat) /\ v[L] = z /\ w[L] = <<>>
    BY <1>1, <1>3, <1>9
  <2> HIDE DEF V, N, E, w, v, L, z
  <2>2. TwoWalks(E, L, V, N, w, v, z)
    BY <1>1, <1>3, <1>10, <2>1 DEF TwoWalks
  <2>3. \A p \in E : w[p] \in Seq(Nat) /\ v[p] = w[p] \o z
    BY <2>2, WalksAgree
  <2> QED BY <2>3 DEF z
<1> QED BY <1>3, <1>4, <1>8, <1>11

(* The block that a call returns stands behind the caller's slice. *)
LEMMA ReturnBytes ==
  ASSUME BytesInv, StreamInv', ViewKept, ReturnSlice
  PROVE  /\ BytesInv' /\ call \in Nat \ {0} /\ call' = call
         /\ Walk(dst)[start] \in Seq(Nat)
         /\ Walk(dst)'[start] = Walk(dst)[start] \o <<call>>
<1> DEFINE code == Encoded(call)
           L == dst.len
<1>1. /\ pc = "return" /\ pc' = "idle"
      /\ dst' = IF pack.layout = "uint32" /\ ~appends THEN block1
                ELSE [work EXCEPT !.len = off + blockLen]
      /\ UNCHANGED <<heap, start, requests, reading, view, at, seen>>
  BY DEF ReturnSlice, reader, costs
<1>2. /\ StreamInv /\ Chain(dst) /\ CopyInv /\ WalkInv /\ HeapInv
      /\ blockLen = Len(code) /\ StandAt(code, block1.arr, off)
  BY <1>1 DEF BytesInv, PackedInv, StreamInv
<1>3. /\ call \in Nat /\ call > 0 /\ pack \in Packs /\ IsSlice(work) /\ work.off = 0
      /\ off = dst.len /\ off \in Nat /\ (~appends => off = 0)
  BY <1>1, <1>2, CallFacts
<1>4. /\ IsSlice(block1) /\ IsSlice(dst) /\ dst.off = 0
      /\ InPlace => block1.arr = work.arr
      /\ ~InPlace => block1.off = 0
  BY <1>1, <1>2 DEF StreamInv, SliceInv, RoomInv
<1>5. start \in Nat
  <2>1. start \in 0 .. dst.len
    BY <1>2 DEF StreamInv, SliceInv
  <2> QED BY <1>3, <2>1
<1>6. dst'.arr = block1.arr /\ dst'.off = 0 /\ dst'.len = L + Len(code)
      /\ \A j \in 0 .. L - 1 : heap[block1.arr][j] = heap[dst.arr][j]
  <2>1. CASE InPlace
    <3>1. dst' = [work EXCEPT !.len = off + blockLen]
      BY <1>1, <2>1 DEF InPlace
    <3>2. dst'.arr = work.arr /\ dst'.off = 0 /\ dst'.len = off + blockLen
      BY <1>3, <3>1 DEF IsSlice
    <3> QED BY <1>1, <1>2, <1>3, <1>4, <2>1, <3>2 DEF CopyInv
  <2>2. CASE ~InPlace
    <3>1. pack.layout = "uint32" /\ ~appends /\ off = 0 /\ block1.off = 0
      BY <1>3, <1>4, <2>2 DEF InPlace
    <3>2. dst' = block1
      BY <1>1, <3>1
    <3>3. blockLen = block1.len + 0 /\ block1.len \in Nat
      BY <1>4, <3>1 DEF blockLen, IsSlice
    <3>4. dst'.len = L + Len(code)
      BY <1>2, <1>3, <3>1, <3>2, <3>3
    <3>5. \A j \in 0 .. L - 1 : FALSE
      BY <1>3, <3>1
    <3> HIDE DEF code
    <3> QED BY <3>1, <3>2, <3>4, <3>5
  <2> QED BY <2>1, <2>2
<1>7. PICK r, n : r = dst' /\ n = call
  OBVIOUS
<1>8. IsSlice(r)' /\ IsSlice(r)
  <2>1. IsSlice(r)'
    BY <1>7 DEF StreamInv, SliceInv
  <2>2. IsSlice(r)
    BY <1>1, <2>1 DEF IsSlice, Capacity
  <2> QED BY <2>1, <2>2
<1>9. Extends(r, dst, n)
  <2>1. n \in Nat \ {0} /\ requests[n].pack \in Packs
    BY <1>3, <1>7 DEF pack
  <2>2. L \in Nat
    BY <1>4 DEF IsSlice
  <2>3. \A p \in 0 .. L - 1 : ByteAt(r, p) = ByteAt(dst, p)
    <3> SUFFICES ASSUME NEW p \in 0 .. L - 1 PROVE ByteAt(r, p) = ByteAt(dst, p)
      OBVIOUS
    <3>1. 0 + p = p
      BY <2>2
    <3> QED BY <1>4, <1>6, <1>7, <3>1 DEF ByteAt
  <2>4. BlockStands(r, L, n)
    <3>1. StandAt(Encoded(n), r.arr, r.off + L)
      <4>1. r.off + L = off
        BY <1>3, <1>6, <1>7, <2>2
      <4> QED BY <1>2, <1>6, <1>7, <4>1
    <3>2. L + Len(Encoded(n)) <= r.len
      <4>1. r.len = L + Len(Encoded(n)) /\ r.len \in Nat
        BY <1>6, <1>7, <1>8 DEF IsSlice
      <4> QED BY <4>1
    <3> QED BY <2>1, <3>1, <3>2 DEF BlockStands
  <2> QED BY <1>4, <1>6, <1>7, <1>8, <2>1, <2>3, <2>4 DEF Extends
<1>10. PICK s : s = dst
  OBVIOUS
<1>11. /\ Chain(r) /\ Walk(s)[start] \in Seq(Nat) /\ Walk(r)[start] = Walk(s)[start] \o <<n>>
  <2>1. Extends(r, s, n) /\ Chain(s)
    BY <1>2, <1>9, <1>10
  <2> QED BY <1>2, <1>5, <2>1, ExtendedChain
<1>12. /\ Chain(r)' /\ \A p \in Ends(r) : Walk(r)'[p] = Walk(r)[p]
  <2>1. SameCalls(requests, requests') /\ SameBytes(r, heap, heap')
    BY <1>1 DEF SameCalls, SameBytes
  <2>2. HeapInv /\ HeapInv'
    BY <1>2 DEF StreamInv
  <2> QED BY <1>1, <1>5, <1>8, <1>11, <2>1, <2>2, ChainStays
<1>13. Walk(r)'[start] = Walk(s)[start] \o <<n>>
  BY <1>11, <1>12 DEF Chain
<1>14. Chain(dst)' /\ Walk(dst)'[start] = Walk(dst)[start] \o <<call>>
  BY <1>7, <1>10, <1>12, <1>13
<1>15. WalkInv'
  <2>1. SameCalls(requests, requests')
    BY <1>1 DEF SameCalls
  <2> QED BY <1>1, <1>2, <2>1, WalkStays
<1>16. CopyInv' /\ PackedInv' /\ call' = call
  BY <1>1 DEF CopyInv, PackedInv, call
<1> QED BY <1>3, <1>10, <1>11, <1>14, <1>15, <1>16 DEF BytesInv

(* The reader's steps leave memory and the call alone. *)
ReaderSteps == UNCHANGED <<heap, dst, start, requests, pc, work, off, block1, block2>>

LEMMA ReaderBytes ==
  ASSUME BytesInv, StreamInv', ReaderSteps
  PROVE  /\ Chain(dst)' /\ CopyInv' /\ PackedInv' /\ Walk(dst)'[start] = Walk(dst)[start]
         /\ Walk(dst)[start] \in Seq(Nat) /\ start \in Nat
         /\ \A s : IsSlice(s) /\ Chain(s) =>
              Chain(s)' /\ Ends(s)' = Ends(s) /\ \A p \in Ends(s) : Walk(s)'[p] = Walk(s)[p]
<1>1. UNCHANGED <<heap, dst, start, requests, pc, work, off, block1, block2>>
  BY DEF ReaderSteps
<1>2. StreamInv /\ Chain(dst) /\ CopyInv /\ PackedInv /\ HeapInv /\ HeapInv' /\ IsSlice(dst)
  BY DEF BytesInv, StreamInv, SliceInv
<1>3. SameCalls(requests, requests') /\ \A s : SameBytes(s, heap, heap')
  BY <1>1 DEF SameCalls, SameBytes
<1>4. start \in Nat
  <2>1. start \in 0 .. dst.len
    BY <1>2 DEF StreamInv, SliceInv
  <2> QED BY <2>1
<1>5. CopyInv'
  BY <1>1, <1>2 DEF CopyInv
<1>6. PackedInv'
  <2>1. /\ call' = call /\ pack' = pack /\ Encoded(call)' = Encoded(call)
        /\ Open(1)' = Open(1) /\ Open(2)' = Open(2)
    BY <1>1, SameOpen
  <2>2. blockLen' = blockLen
    BY <1>1, <2>1 DEF blockLen
  <2>3. pc \in {"wrap", "second", "link"} =>
          block1'.len = Len(Open(1)') /\ StandAt(Open(1), block1.arr, block1.off)'
    BY <1>1, <1>2, <2>1 DEF PackedInv, StandAt
  <2>4. pc = "link" =>
          /\ block2'.arr = block1'.arr /\ block2'.off = off' + block1'.len
          /\ block2'.len = Len(Open(2)') /\ StandAt(Open(2), block2.arr, block2.off)'
    BY <1>1, <1>2, <2>1 DEF PackedInv, StandAt
  <2>5. pc = "return" => blockLen' = Len(Encoded(call)') /\ StandAt(Encoded(call), block1.arr, off)'
    BY <1>1, <1>2, <2>1, <2>2 DEF PackedInv, StandAt
  <2> QED BY <1>1, <2>3, <2>4, <2>5 DEF PackedInv
<1>7. Chain(dst)' /\ Walk(dst)'[start] = Walk(dst)[start]
  BY <1>1, <1>2, <1>3, SliceChainStays
<1>8. ASSUME NEW s, IsSlice(s), Chain(s)
      PROVE  Chain(s)' /\ Ends(s)' = Ends(s) /\ \A p \in Ends(s) : Walk(s)'[p] = Walk(s)[p]
  <2>1. IsSlice(s)'
    BY <1>1, <1>8 DEF IsSlice, Capacity
  <2> QED BY <1>1, <1>2, <1>3, <1>4, <1>8, <2>1, ChainStays
<1>9. Walk(dst)[start] \in Seq(Nat)
  BY <1>2, <1>4, ChainWalk DEF Chain
<1> QED BY <1>4, <1>5, <1>6, <1>7, <1>8, <1>9

LEMMA OpenBytes ==
  ASSUME BytesInv, StreamInv', OpenReader
  PROVE  /\ BytesInv' /\ Walk(dst)'[start] = Walk(dst)[start]
         /\ Walk(view)'[start] = Walk(dst)[start]
<1>1. /\ ReaderSteps /\ reading' = TRUE /\ view' = dst /\ at' = start /\ seen' = <<>> /\ start' = start
  BY DEF OpenReader, caller, ReaderSteps
<1>2. /\ Chain(dst)' /\ CopyInv' /\ PackedInv' /\ Walk(dst)'[start] = Walk(dst)[start]
      /\ Walk(dst)[start] \in Seq(Nat) /\ start \in Nat
      /\ \A s : IsSlice(s) /\ Chain(s) =>
           Chain(s)' /\ Ends(s)' = Ends(s) /\ \A p \in Ends(s) : Walk(s)'[p] = Walk(s)[p]
  BY <1>1, ReaderBytes
<1>3. PICK s : s = dst
  OBVIOUS
<1>4. IsSlice(s) /\ Chain(s) /\ start \in Ends(s) /\ Walk(s)[start] \in Seq(Nat)
  BY <1>2, <1>3 DEF BytesInv, StreamInv, SliceInv, Chain
<1>5. Chain(s)' /\ Ends(s)' = Ends(s) /\ Walk(s)'[start] = Walk(s)[start]
  BY <1>2, <1>4
<1>6. Walk(s)'[start] = <<>> \o Walk(s)'[start] /\ <<>> \in Seq(Nat)
  <2> DEFINE w == Walk(s)[start]
  <2>1. w \in Seq(Nat)
    BY <1>4
  <2> HIDE DEF w
  <2>2. w = <<>> \o w /\ <<>> \in Seq(Nat)
    BY <2>1, ConcatEmptySeq, EmptySeq
  <2> QED BY <1>5, <2>2 DEF w
<1>7. WalkInv'
  BY <1>1, <1>3, <1>4, <1>5, <1>6 DEF WalkInv
<1>8. Walk(view)'[start] = Walk(dst)[start]
  BY <1>1, <1>3, <1>5
<1> QED BY <1>2, <1>7, <1>8 DEF BytesInv

(* The reader finds the next block of its slice. *)
LEMMA ReadBytes ==
  ASSUME BytesInv, StreamInv', ReadBlock
  PROVE  /\ BytesInv' /\ Walk(dst)'[start] = Walk(dst)[start]
         /\ Walk(view)'[start] = Walk(view)[start] /\ Walk(view)[start] \in Seq(Nat) /\ seen \in Seq(Nat)
         /\ Len(seen) < Len(Walk(view)[start])
         /\ seen' = Append(seen, Walk(view)[start][Len(seen) + 1])
<1>1. /\ ReaderSteps /\ reading /\ at < view.len /\ UNCHANGED <<reading, view, start>>
      /\ seen' = Append(seen, Found(view, at))
      /\ at' = IF Found(view, at) = 0 THEN view.len ELSE at + BlockLengthAt(view, at)
  BY DEF ReadBlock, caller, ReaderSteps
<1>2. /\ Chain(dst)' /\ CopyInv' /\ PackedInv' /\ Walk(dst)'[start] = Walk(dst)[start]
      /\ start \in Nat
      /\ \A s : IsSlice(s) /\ Chain(s) =>
           Chain(s)' /\ Ends(s)' = Ends(s) /\ \A p \in Ends(s) : Walk(s)'[p] = Walk(s)[p]
  BY <1>1, ReaderBytes
<1>3. PICK s : s = view
  OBVIOUS
<1>4. /\ IsSlice(s) /\ Chain(s) /\ at \in Ends(s) /\ seen \in Seq(Nat) /\ HeapInv
      /\ Walk(s)[start] = seen \o Walk(s)[at] /\ start \in Ends(s)
  BY <1>1, <1>3 DEF BytesInv, WalkInv, StreamInv, SliceInv, Chain
<1>5. Chain(s)' /\ Ends(s)' = Ends(s) /\ \A p \in Ends(s) : Walk(s)'[p] = Walk(s)[p]
  BY <1>2, <1>4
<1>6. PICK n : n = blockAt(s, at)
  OBVIOUS
<1> DEFINE rest == Walk(s)[nextAt(s, at)]
           W == Walk(s)[start]
<1>7. /\ at \in Heads(s) /\ n \in Nat \ {0} /\ nextAt(s, at) \in Ends(s)
      /\ Walk(s)[at] = <<n>> \o rest /\ rest \in Seq(Nat) /\ W \in Seq(Nat)
  <2>1. s.len \in Nat /\ Ends(s) \in SUBSET (0 .. s.len) /\ at # s.len
    <3>1. s.len \in Nat /\ Ends(s) \in SUBSET (0 .. s.len)
      BY <1>2, <1>4, ChainWalk
    <3>2. at \in Nat
      BY <1>4, <3>1
    <3> QED BY <1>1, <1>3, <3>1, <3>2
  <2>2. /\ \A p \in Ends(s) : Walk(s)[p] \in Seq(Nat)
        /\ \A p \in Ends(s) : p # s.len =>
              /\ p \in Heads(s) /\ blockAt(s, p) \in Nat \ {0} /\ nextAt(s, p) \in Ends(s)
              /\ Walk(s)[p] = <<blockAt(s, p)>> \o Walk(s)[nextAt(s, p)]
    BY <1>2, <1>4, ChainWalk
  <2> QED BY <1>4, <1>6, <2>1, <2>2
<1>8. Found(s, at) = n /\ at + BlockLengthAt(s, at) = nextAt(s, at)
  <2>1. BlockStands(s, at, n) /\ at \in Nat
    BY <1>2, <1>4, <1>6, <1>7, ChainBlocks DEF blockAt
  <2>2. BlockLengthAt(s, at) = Len(Encoded(n)) /\ Found(s, at) = n
    BY <1>4, <1>7, <2>1, FoundBlock
  <2> QED BY <1>6, <2>2 DEF nextAt
<1>9. seen' = Append(seen, n) /\ at' = nextAt(s, at)
  BY <1>1, <1>3, <1>7, <1>8
<1> HIDE DEF rest, W
<1>10. /\ Append(seen, n) \in Seq(Nat) /\ W = Append(seen, n) \o rest
       /\ Len(seen) < Len(W) /\ W[Len(seen) + 1] = n
  <2> DEFINE a == Append(seen, n)
             b == <<n>>
             m == Len(seen)
  <2>1. b \in Seq(Nat) /\ Len(b) = 1 /\ b[1] = n
    BY <1>7
  <2>2. /\ a \in Seq(Nat) /\ Len(a) = m + 1 /\ a[m + 1] = n /\ m \in Nat
    BY <1>4, <1>7, AppendProperties, LenProperties
  <2>3. a = seen \o b
    BY <1>4, <1>7, AppendIsConcat
  <2>4. W = seen \o (b \o rest)
    BY <1>4, <1>7 DEF W
  <2> HIDE DEF a, b
  <2>5. (seen \o b) \o rest = seen \o (b \o rest)
    BY <1>4, <1>7, <2>1, Regrouped
  <2>6. W = a \o rest
    BY <2>3, <2>4, <2>5
  <2>7. /\ Len(a \o rest) = Len(a) + Len(rest) /\ Len(rest) \in Nat
        /\ \A k \in 1 .. Len(a) + Len(rest) : (a \o rest)[k] = IF k <= Len(a) THEN a[k] ELSE rest[k - Len(a)]
    BY <1>7, <2>2, ConcatProperties, LenProperties
  <2>8. m + 1 \in 1 .. Len(a) + Len(rest) /\ m + 1 <= Len(a) /\ m < Len(a) + Len(rest)
    BY <2>2, <2>7
  <2> QED BY <2>2, <2>6, <2>7, <2>8 DEF a
<1>11. WalkInv'
  <2>1. at' \in Ends(s)' /\ seen' \in Seq(Nat)
    BY <1>5, <1>7, <1>9, <1>10
  <2>2. Walk(s)'[start] = seen' \o Walk(s)'[at']
    <3>1. Walk(s)'[start] = W /\ Walk(s)'[at'] = rest
      BY <1>4, <1>5, <1>7, <1>9 DEF W, rest
    <3> QED BY <1>9, <1>10, <3>1
  <2> QED BY <1>1, <1>3, <1>5, <2>1, <2>2 DEF WalkInv
<1>12. Walk(view)'[start] = Walk(view)[start]
  BY <1>1, <1>3, <1>4, <1>5
<1> QED BY <1>2, <1>3, <1>4, <1>7, <1>9, <1>10, <1>11, <1>12 DEF BytesInv, W

(* It closes its slice when it has found all of it. *)
LEMMA CloseBytes ==
  ASSUME BytesInv, StreamInv', CloseReader
  PROVE  BytesInv' /\ Walk(dst)'[start] = Walk(dst)[start] /\ seen = Walk(view)[start]
<1>1. /\ ReaderSteps /\ reading /\ at = view.len /\ reading' = FALSE /\ seen' = <<>>
  BY DEF CloseReader, caller, ReaderSteps
<1>2. /\ Chain(dst)' /\ CopyInv' /\ PackedInv' /\ Walk(dst)'[start] = Walk(dst)[start] /\ start \in Nat
  BY <1>1, ReaderBytes
<1>3. /\ IsSlice(view) /\ seen \in Seq(Nat) /\ HeapInv /\ Walk(view)[start] = seen \o Walk(view)[at]
  BY <1>1 DEF BytesInv, WalkInv, StreamInv, SliceInv
<1>4. Walk(view)[at] = <<>>
  BY <1>1, <1>3, WalkNow DEF WalkFacts
<1>5. seen = Walk(view)[start]
  BY <1>3, <1>4, ConcatEmptySeq
<1>6. WalkInv'
  BY <1>1 DEF WalkInv
<1> QED BY <1>2, <1>5, <1>6 DEF BytesInv

-----------------------------------------------------------------------------
(* The caller's buffer to begin with. *)
LEMMA InitBytes == ASSUME Init PROVE BytesInv /\ Walk(dst)[start] = <<>>
<1>1. PICK d \in Buffers :
        /\ heap = <<[i \in 0 .. d.cap - 1 |-> IF i < d.len THEN <<0, 0, "prefix", i + 1>> ELSE Junk]>>
        /\ dst = [arr |-> 1, off |-> 0, len |-> d.len] /\ start = d.len
  BY DEF Init
<1>2. /\ d.cap \in Nat /\ d.len \in 0 .. d.cap
      /\ pc = "idle" /\ reading = FALSE /\ seen = <<>>
  BY StreamAssumption DEF Init
<1>3. StreamInv /\ HeapInv /\ IsSlice(dst)
  BY InitStream DEF StreamInv, SliceInv
<1>4. dst.arr = 1 /\ dst.off = 0 /\ dst.len = start /\ start \in Nat /\ start <= d.cap
  BY <1>1, <1>2
<1>5. ASSUME NEW k \in 0 .. start - 1 PROVE ByteAt(dst, k) = <<0, 0, "prefix", k + 1>>
  <2>1. k \in 0 .. d.cap - 1 /\ 0 + k = k /\ k < d.len
    BY <1>1, <1>2, <1>4, <1>5
  <2> DEFINE A == [i \in 0 .. d.cap - 1 |-> IF i < d.len THEN <<0, 0, "prefix", i + 1>> ELSE Junk]
  <2>2. A[k] = <<0, 0, "prefix", k + 1>>
    BY <2>1
  <2>3. heap[1] = A
    BY <1>1
  <2> HIDE DEF A
  <2> QED BY <1>4, <2>1, <2>2, <2>3 DEF ByteAt
<1>6. Heads(dst) = {} /\ Ends(dst) = {start}
  <2>1. Heads(dst) = {}
    <3>1. \A p \in start .. dst.len - 1 : FALSE
      BY <1>4
    <3> QED BY <3>1 DEF Heads
  <2> QED BY <1>4, <2>1 DEF Ends
<1>7. Chain(dst)
  BY <1>5, <1>6 DEF Chain
<1>8. CopyInv /\ PackedInv /\ WalkInv
  BY <1>2 DEF CopyInv, PackedInv, WalkInv
<1>9. Walk(dst)[start] = <<>>
  BY <1>3, <1>4, WalkNow DEF WalkFacts
<1> QED BY <1>3, <1>7, <1>8, <1>9 DEF BytesInv

(* What nothing touches. *)
LEMMA StutterBytes ==
  ASSUME BytesInv, StreamInv', ViewKept, UNCHANGED vars
  PROVE  BytesInv' /\ Walk(dst)'[start] = Walk(dst)[start]
<1>1. ReaderSteps /\ UNCHANGED <<start, requests, reading, view, at, seen>>
  BY DEF vars, ReaderSteps
<1>2. Chain(dst)' /\ CopyInv' /\ PackedInv' /\ Walk(dst)'[start] = Walk(dst)[start]
  BY <1>1, ReaderBytes
<1>3. WalkInv'
  <2>1. SameCalls(requests, requests')
    BY <1>1 DEF SameCalls
  <2> QED BY <1>1, <2>1, WalkStays DEF BytesInv
<1> QED BY <1>2, <1>3 DEF BytesInv

LEMMA BytesNext == ASSUME BytesInv, [Next]_vars PROVE BytesInv'
<1>0. StreamInv /\ StreamInv' /\ ViewKept
  BY StreamNext DEF BytesInv
<1>1. CASE Reject
  BY <1>0, <1>1, RejectBytes
<1>2. CASE \E r \in Packs, append \in BOOLEAN : StartPack(r, append)
  <2>1. PICK r \in Packs, append \in BOOLEAN : StartPack(r, append)
    BY <1>2
  <2> QED BY <1>0, <2>1, StartBytes
<1>3. CASE EnsureCapacity
  BY <1>0, <1>3, EnsureBytes
<1>4. CASE PackFirst
  BY <1>0, <1>4, FirstBytes
<1>5. CASE WrapFor64
  <2>1. Kept(heap, heap', work.arr, off)
    BY <1>0, <1>5, WrapStream
  <2> QED BY <1>0, <1>5, <2>1, WrapBytes
<1>6. CASE PackSecond
  BY <1>0, <1>6, SecondBytes
<1>7. CASE LinkBlocks
  <2>1. Kept(heap, heap', work.arr, off)
    BY <1>0, <1>7, LinkStream
  <2> QED BY <1>0, <1>7, <2>1, LinkBytes
<1>8. CASE ReturnSlice
  BY <1>0, <1>8, ReturnBytes
<1>9. CASE OpenReader
  BY <1>0, <1>9, OpenBytes
<1>10. CASE ReadBlock
  BY <1>0, <1>10, ReadBytes
<1>11. CASE CloseReader
  BY <1>0, <1>11, CloseBytes
<1>12. CASE UNCHANGED vars
  BY <1>0, <1>12, StutterBytes
<1> QED BY <1>1, <1>2, <1>3, <1>4, <1>5, <1>6, <1>7, <1>8, <1>9, <1>10, <1>11, <1>12 DEF Next

(* For buffers and packs of any shape and any number of calls: the bytes   *)
(* of the caller's slice are its prefix and one whole block for each call  *)
(* that appended to it, in their order, also across reallocations, moved   *)
(* headers and lengths that are written afterwards; and a reader of an     *)
(* earlier slice stands between two blocks and has found all those in      *)
(* front of it (pack.go:26-63, uint64.go:20-44 and 120-185,                *)
(* block_length.go:3-64).                                                  *)
THEOREM BytesInvariance == Spec => []BytesInv
<1>1. BytesInv /\ [Next]_vars => BytesInv'
  BY BytesNext
<1>2. Init => BytesInv
  BY InitBytes
<1> QED BY <1>1, <1>2, PTL DEF Spec

-----------------------------------------------------------------------------
(* The buffer as a stream of blocks. *)

returned == IF pc = "idle" THEN call ELSE call - 1
taken    == IF reading THEN StreamOf(view, start) ELSE <<>>

(* The streams of the caller and of the reader are what walking finds.     *)
Streams ==
  /\ StreamOf(dst, start) = Walk(dst)[start]
  /\ taken = IF reading THEN Walk(view)[start] ELSE <<>>

LEMMA StreamsHeld == ASSUME BytesInv PROVE Streams
<1>1. ASSUME NEW s, Chain(s) PROVE StreamOf(s, start) = Walk(s)[start]
  BY <1>1 DEF StreamOf, Chain
<1> QED BY <1>1 DEF BytesInv, WalkInv, Streams, taken

LEMMA StreamsThen == ASSUME BytesInv' PROVE Streams'
<1>1. BytesInv' => Streams'
  BY StreamsHeld, PTL
<1> QED BY <1>1

(* What a step does to the streams. *)
SameBlocks == StreamOf(dst, start)' = StreamOf(dst, start)
SameView   == UNCHANGED <<reading, taken, seen>>

LEMMA BlocksStay ==
  ASSUME BytesInv, BytesInv', UNCHANGED start, Walk(dst)'[start] = Walk(dst)[start]
  PROVE  SameBlocks
BY StreamsHeld, StreamsThen DEF Streams, SameBlocks

LEMMA ViewStaysOpen ==
  ASSUME BytesInv, BytesInv', ViewKept, UNCHANGED <<start, reading, view, at, seen>>,
         SameCalls(requests, requests')
  PROVE  SameView
<1>1. reading => Walk(view)'[start] = Walk(view)[start]
  BY WalkStays DEF BytesInv
<1>2. Streams /\ Streams'
  BY StreamsHeld, StreamsThen
<1> QED BY <1>1, <1>2 DEF Streams, SameView

(* A step within a call. *)
LEMMA PhaseSimulation ==
  ASSUME BytesInv, BytesInv', ViewKept,
         UNCHANGED <<start, requests, reading, view, at, seen>>, pc # "idle", pc' # "idle",
         Walk(dst)'[start] = Walk(dst)[start]
  PROVE  UNCHANGED Stream!vars
<1>1. SameBlocks
  BY BlocksStay
<1>2. SameView
  <2>1. SameCalls(requests, requests')
    BY DEF SameCalls
  <2> QED BY <2>1, ViewStaysOpen
<1>3. returned' = returned
  BY DEF returned, call
<1> QED BY <1>1, <1>2, <1>3 DEF SameBlocks, SameView, returned, taken, Stream!vars

LEMMA RejectSimulation ==
  ASSUME BytesInv, BytesInv', StreamInv', ViewKept, Reject
  PROVE  Stream!Next
<1>1. /\ pc = "idle" /\ pc' = "idle" /\ call < MaxCalls
      /\ requests' = Append(requests, [pack |-> NoPack, append |-> FALSE])
      /\ UNCHANGED <<heap, start, reading, view, at, seen>>
  BY DEF Reject, caller, reader, costs
<1>2. HeapInv
  BY DEF BytesInv, StreamInv
<1>3. call' = call + 1 /\ SameCalls(requests, requests')
  BY <1>1, <1>2, CallStep, CallAdded
<1>4. SameBlocks
  BY <1>1, RejectBytes, BlocksStay
<1>5. SameView
  BY <1>1, <1>3, ViewStaysOpen
<1>6. returned' = returned + 1
  BY <1>1, <1>3 DEF returned
<1>7. Stream!Reject
  BY <1>4, <1>5, <1>6 DEF SameBlocks, SameView, returned, taken, Stream!Reject
<1> QED BY <1>7 DEF Stream!Next

LEMMA StartSimulation ==
  ASSUME BytesInv, BytesInv', StreamInv', ViewKept, NEW r \in Packs, NEW append \in BOOLEAN,
         StartPack(r, append)
  PROVE  [Stream!Next]_(Stream!vars)
<1>1. /\ pc = "idle" /\ pc' # "idle" /\ call < MaxCalls
      /\ requests' = Append(requests, [pack |-> r, append |-> append])
      /\ IF append THEN UNCHANGED <<dst, start>> ELSE start' = 0
      /\ UNCHANGED <<heap, reading, view, at, seen>>
  BY DEF StartPack, reader, costs
<1>2. HeapInv
  BY DEF BytesInv, StreamInv
<1>3. call' = call + 1 /\ SameCalls(requests, requests') /\ call \in Nat
  BY <1>1, <1>2, CallStep, CallAdded, StateFacts
<1>4. returned' = returned
  BY <1>1, <1>3 DEF returned
<1>5. CASE append
  <2>1. UNCHANGED start /\ Walk(dst)'[start] = Walk(dst)[start]
    BY <1>1, <1>5, StartBytes
  <2>2. SameBlocks /\ SameView
    BY <1>1, <1>3, <2>1, BlocksStay, ViewStaysOpen
  <2>3. UNCHANGED Stream!vars
    BY <1>4, <2>2 DEF SameBlocks, SameView, returned, taken, Stream!vars
  <2> QED BY <2>3
<1>6. CASE ~append
  <2>1. ~reading /\ Walk(dst)'[start'] = <<>>
    BY <1>6, StartBytes
  <2>2. StreamOf(dst, start)' = <<>>
    BY <2>1, StreamsThen DEF Streams
  <2>3. SameView
    BY <1>1, <2>1 DEF SameView, taken
  <2>4. Stream!Discard
    BY <1>4, <2>1, <2>2, <2>3 DEF SameView, returned, taken, Stream!Discard
  <2> QED BY <2>4 DEF Stream!Next
<1> QED BY <1>5, <1>6

LEMMA ReturnSimulation ==
  ASSUME BytesInv, BytesInv', StreamInv', ViewKept, ReturnSlice
  PROVE  Stream!Next
<1>1. /\ pc = "return" /\ pc' = "idle" /\ UNCHANGED <<start, requests, reading, view, at, seen>>
  BY DEF ReturnSlice, reader, costs
<1>2. /\ call \in Nat \ {0} /\ call' = call /\ Walk(dst)[start] \in Seq(Nat)
      /\ Walk(dst)'[start] = Walk(dst)[start] \o <<call>>
  BY ReturnBytes
<1>3. SameView
  <2>1. SameCalls(requests, requests')
    BY <1>1 DEF SameCalls
  <2> QED BY <1>1, <2>1, ViewStaysOpen
<1>4. returned = call - 1 /\ returned' = returned + 1 /\ returned + 1 = call
  BY <1>1, <1>2 DEF returned
<1>5. StreamOf(dst, start)' = Append(StreamOf(dst, start), returned + 1)
  <2>1. Append(Walk(dst)[start], call) = Walk(dst)[start] \o <<call>>
    BY <1>2, AppendIsConcat
  <2> QED BY <1>1, <1>2, <1>4, <2>1, StreamsHeld, StreamsThen DEF Streams
<1>6. Stream!Add
  BY <1>3, <1>4, <1>5 DEF SameView, returned, taken, Stream!Add
<1> QED BY <1>6 DEF Stream!Next

(* The reader's steps. *)
LEMMA ReaderKeepsCalls ==
  ASSUME ReaderSteps PROVE returned' = returned
BY DEF ReaderSteps, returned, call

LEMMA OpenSimulation ==
  ASSUME BytesInv, BytesInv', StreamInv', OpenReader
  PROVE  Stream!Next
<1>1. /\ ReaderSteps /\ ~reading /\ reading' = TRUE /\ seen' = <<>> /\ UNCHANGED start
  BY DEF OpenReader, caller, ReaderSteps
<1>2. Walk(dst)'[start] = Walk(dst)[start] /\ Walk(view)'[start] = Walk(dst)[start]
  BY OpenBytes
<1>3. SameBlocks
  BY <1>1, <1>2, BlocksStay
<1>4. taken' = StreamOf(dst, start)
  BY <1>1, <1>2, StreamsHeld, StreamsThen DEF Streams
<1>5. returned' = returned
  BY <1>1, ReaderKeepsCalls
<1>6. Stream!Open
  BY <1>1, <1>3, <1>4, <1>5 DEF SameBlocks, returned, taken, Stream!Open
<1> QED BY <1>6 DEF Stream!Next

LEMMA ReadSimulation ==
  ASSUME BytesInv, BytesInv', StreamInv', ReadBlock
  PROVE  Stream!Next
<1>1. /\ ReaderSteps /\ reading /\ UNCHANGED <<start, reading>>
  BY DEF ReadBlock, caller, ReaderSteps
<1>2. /\ Walk(dst)'[start] = Walk(dst)[start] /\ Walk(view)'[start] = Walk(view)[start]
      /\ Len(seen) < Len(Walk(view)[start])
      /\ seen' = Append(seen, Walk(view)[start][Len(seen) + 1])
  BY ReadBytes
<1>3. SameBlocks
  BY <1>1, <1>2, BlocksStay
<1>4. taken = Walk(view)[start] /\ taken' = taken
  BY <1>1, <1>2, StreamsHeld, StreamsThen DEF Streams
<1>5. returned' = returned
  BY <1>1, ReaderKeepsCalls
<1>6. Len(seen) < Len(taken) /\ seen' = Append(seen, taken[Len(seen) + 1])
  BY <1>2, <1>4
<1>7. Stream!Read
  BY <1>1, <1>3, <1>4, <1>5, <1>6 DEF SameBlocks, returned, taken, Stream!Read
<1> QED BY <1>7 DEF Stream!Next

LEMMA CloseSimulation ==
  ASSUME BytesInv, BytesInv', StreamInv', CloseReader
  PROVE  Stream!Next
<1>1. /\ ReaderSteps /\ reading /\ reading' = FALSE /\ seen' = <<>> /\ UNCHANGED start
  BY DEF CloseReader, caller, ReaderSteps
<1>2. Walk(dst)'[start] = Walk(dst)[start] /\ seen = Walk(view)[start]
  BY CloseBytes
<1>3. SameBlocks
  BY <1>1, <1>2, BlocksStay
<1>4. seen = taken /\ taken' = <<>>
  BY <1>1, <1>2, StreamsHeld DEF Streams, taken
<1>5. returned' = returned
  BY <1>1, ReaderKeepsCalls
<1>6. Stream!Close
  BY <1>1, <1>3, <1>4, <1>5 DEF SameBlocks, returned, taken, Stream!Close
<1> QED BY <1>6 DEF Stream!Next

LEMMA StreamSimulation == BytesInv /\ [Next]_vars => [Stream!Next]_(Stream!vars)
<1> SUFFICES ASSUME BytesInv, [Next]_vars PROVE [Stream!Next]_(Stream!vars)
  OBVIOUS
<1>0. StreamInv' /\ ViewKept /\ BytesInv' /\ StreamInv
  BY StreamNext, BytesNext DEF BytesInv
<1>1. CASE Reject
  BY <1>0, <1>1, RejectSimulation
<1>2. CASE \E r \in Packs, append \in BOOLEAN : StartPack(r, append)
  <2>1. PICK r \in Packs, append \in BOOLEAN : StartPack(r, append)
    BY <1>2
  <2> QED BY <1>0, <2>1, StartSimulation
<1>3. CASE EnsureCapacity
  <2>1. pc = "ensure" /\ pc' = "first" /\ UNCHANGED <<start, requests, reading, view, at, seen>>
    BY <1>3 DEF EnsureCapacity, caller, reader
  <2> QED BY <1>0, <1>3, <2>1, EnsureBytes, PhaseSimulation
<1>4. CASE PackFirst
  <2>1. pc = "first" /\ pc' # "idle" /\ UNCHANGED <<start, requests, reading, view, at, seen>>
    BY <1>4 DEF PackFirst, caller, reader
  <2> QED BY <1>0, <1>4, <2>1, FirstBytes, PhaseSimulation
<1>5. CASE WrapFor64
  <2>1. pc = "wrap" /\ pc' = "return" /\ UNCHANGED <<start, requests, reading, view, at, seen>>
    BY <1>5 DEF WrapFor64, caller, reader
  <2>2. Walk(dst)'[start] = Walk(dst)[start]
    BY <1>0, <1>5, WrapStream, WrapBytes
  <2> QED BY <1>0, <2>1, <2>2, PhaseSimulation
<1>6. CASE PackSecond
  <2>1. pc = "second" /\ pc' = "link" /\ UNCHANGED <<start, requests, reading, view, at, seen>>
    BY <1>6 DEF PackSecond, caller, reader
  <2> QED BY <1>0, <1>6, <2>1, SecondBytes, PhaseSimulation
<1>7. CASE LinkBlocks
  <2>1. pc = "link" /\ pc' = "return" /\ UNCHANGED <<start, requests, reading, view, at, seen>>
    BY <1>7 DEF LinkBlocks, caller, reader
  <2>2. Walk(dst)'[start] = Walk(dst)[start]
    BY <1>0, <1>7, LinkStream, LinkBytes
  <2> QED BY <1>0, <2>1, <2>2, PhaseSimulation
<1>8. CASE ReturnSlice
  BY <1>0, <1>8, ReturnSimulation
<1>9. CASE OpenReader
  BY <1>0, <1>9, OpenSimulation
<1>10. CASE ReadBlock
  BY <1>0, <1>10, ReadSimulation
<1>11. CASE CloseReader
  BY <1>0, <1>11, CloseSimulation
<1>12. CASE UNCHANGED vars
  <2>1. UNCHANGED <<pc, start, requests, reading, view, at, seen>>
    BY <1>12 DEF vars
  <2>2. SameBlocks
    BY <1>0, <1>12, <2>1, StutterBytes, BlocksStay
  <2>3. SameView
    <3>1. SameCalls(requests, requests')
      BY <2>1 DEF SameCalls
    <3> QED BY <1>0, <2>1, <3>1, ViewStaysOpen
  <2>4. returned' = returned
    BY <2>1 DEF returned, call
  <2>5. UNCHANGED Stream!vars
    BY <2>2, <2>3, <2>4 DEF SameBlocks, SameView, returned, taken, Stream!vars
  <2> QED BY <2>5
<1> QED BY <1>1, <1>2, <1>3, <1>4, <1>5, <1>6, <1>7, <1>8, <1>9, <1>10, <1>11, <1>12 DEF Next

(* For buffers and packs of any shape and any number of calls: what a      *)
(* reader that skips from block to block finds in the caller's slice are   *)
(* the calls that appended to it, in their order; a call adds its own at   *)
(* the moment it returns, whatever a reader does meanwhile, and a reader   *)
(* finds each block of its slice once and no other, up to the end          *)
(* (pack.go:26-63, uint64.go:120-185, block_length.go:3-64).  This is      *)
(* Implements but for its fairness.                                        *)
THEOREM StreamSafety == Spec => Stream!Init /\ [][Stream!Next]_(Stream!vars)
<1>1. Init => Stream!Init
  <2> SUFFICES ASSUME Init PROVE Stream!Init
    OBVIOUS
  <2>1. requests = <<>> /\ pc = "idle" /\ reading = FALSE /\ seen = <<>>
    BY DEF Init
  <2>2. returned = 0 /\ taken = <<>>
    BY <2>1 DEF returned, taken, call
  <2>3. StreamOf(dst, start) = <<>>
    BY InitBytes, StreamsHeld DEF Streams
  <2> QED BY <2>1, <2>2, <2>3 DEF returned, taken, Stream!Init
<1>2. BytesInv /\ [Next]_vars => [Stream!Next]_(Stream!vars)
  BY StreamSimulation
<1> QED BY <1>1, <1>2, BytesInvariance, PTL DEF Spec
=============================================================================

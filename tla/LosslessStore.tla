--------------------------- MODULE LosslessStore ----------------------------
(***************************************************************************)
(* What the codec promises its user, apart from how a block is encoded:    *)
(* Decompress returns exactly the values of the last Compress, Get returns *)
(* one of them, and neither ever fails on a block that Compress produced.  *)
(* README.md:5 ("a lossless integer compression and bitpacking library").  *)
(***************************************************************************)
EXTENDS Integers

CONSTANTS Values,        \* the slices a user may pass
          MaxLength,     \* the longest slice that Compress accepts
          Positions      \* the positions a user may ask for

VARIABLES content,       \* the values of the last block, << >> before any
          reply          \* what the last call returned

vars == <<content, reply>>

NoValues == <<>>
Ok(s)    == [err |-> "none", vals |-> s]
Error(e) == [err |-> e, vals |-> NoValues]

Init == content = NoValues /\ reply = Ok(NoValues)

(* Slices start at index 0: a slice of n values has domain 0 .. n-1. *)
Acceptable(v) == DOMAIN v # {} /\ \A i \in DOMAIN v : i < MaxLength

Compress(v) ==
  IF Acceptable(v)
  THEN content' = v /\ reply' = Ok(NoValues)
  ELSE reply' = Error("ErrInvalidBuffer") /\ UNCHANGED content

Decompress == DOMAIN content # {} /\ reply' = Ok(content) /\ UNCHANGED content

Get(pos) ==
  /\ DOMAIN content # {}
  /\ reply' = IF pos \in DOMAIN content
              THEN Ok([i \in {pos} |-> content[i]])
              ELSE Error("ErrPositionOutOfRange")
  /\ UNCHANGED content

Next == \/ \E v \in Values : Compress(v)
        \/ Decompress
        \/ \E pos \in Positions : Get(pos)

Spec == Init /\ [][Next]_vars
=============================================================================

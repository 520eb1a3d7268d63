----------------------------- MODULE BlockStream ----------------------------
(***************************************************************************)
(* What appending promises, apart from buffers: the blocks that were       *)
(* packed with Append follow each other in the order of the calls, and     *)
(* whoever walks through them while more are appended finds exactly those  *)
(* that were there when it began.  Blocks are known by the number of the   *)
(* call that packed them.                                                  *)
(* pack.go:61-63 ("The returned slice includes the preserved prefix        *)
(* followed by the new block"), block_length.go:5 ("enabling efficient     *)
(* block skipping").                                                       *)
(***************************************************************************)
EXTENDS Naturals, Sequences

VARIABLES calls,    \* how many calls have returned
          blocks,   \* the stream, as the caller holds it
          reading,  \* whether someone walks through it
          view,     \* what was there when the walk began
          seen      \* what the walk has found

vars == <<calls, blocks, reading, view, seen>>

Init == calls = 0 /\ blocks = <<>> /\ reading = FALSE /\ view = <<>> /\ seen = <<>>

Add == /\ calls' = calls + 1 /\ blocks' = Append(blocks, calls + 1)
       /\ UNCHANGED <<reading, view, seen>>

(* Whoever packs without Append gives up what the buffer held. *)
Discard == /\ ~reading /\ blocks' = <<>>
           /\ UNCHANGED <<calls, reading, view, seen>>

Reject == calls' = calls + 1 /\ UNCHANGED <<blocks, reading, view, seen>>

Open == /\ ~reading /\ reading' = TRUE
        /\ view' = blocks /\ seen' = <<>>
        /\ UNCHANGED <<calls, blocks>>

Read == /\ reading /\ Len(seen) < Len(view)
        /\ seen' = Append(seen, view[Len(seen) + 1])
        /\ UNCHANGED <<calls, blocks, reading, view>>

Close == /\ reading /\ reading' = FALSE
         /\ seen = view /\ view' = <<>> /\ seen' = <<>>
         /\ UNCHANGED <<calls, blocks>>

Next == Add \/ Discard \/ Reject \/ Open \/ Read \/ Close

(* Whoever has begun to read comes to the end. *)
Spec == Init /\ [][Next]_vars /\ WF_vars(Read)
=============================================================================

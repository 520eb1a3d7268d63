--------------------------- MODULE MCAppendStream ---------------------------
(***************************************************************************)
(* One pack of each layout, with and without exceptions, of which the      *)
(* longest fill the room that Append makes for them; a buffer that is      *)
(* empty, and one that holds a prefix and has room for exactly one block.  *)
(***************************************************************************)
EXTENDS AppendStreamInv

Part(bitWidth, forWidth, excCount, svbLen) ==
  [bitWidth |-> bitWidth, forWidth |-> forWidth, excCount |-> excCount, svbLen |-> svbLen]

Of(layout, parts) == [layout |-> layout, flags |-> {}, parts |-> parts]

(* The longest block has seven steps, a base and eight exceptions. *)
MCPacks ==
  {Of("uint32", <<Part(7, 3, 8, 34)>>),
   Of("for64", <<Part(0, 0, 0, 0)>>), Of("for64", <<Part(1, 0, 3, 4)>>),
   Of("narrow", <<Part(0, 2, 5, 9)>>),
   Of("pair", <<Part(1, 3, 1, 2), Part(7, 0, 0, 0)>>)}

MCBuffers == {[cap |-> 0, len |-> 0], [cap |-> 79, len |-> 3]}
=============================================================================

--------------------------- MODULE MCKeyboardInput ---------------------------
(***************************************************************************)
(* One reader, the terminal, as in this kernel.                            *)
(***************************************************************************)
EXTENDS KeyboardInput

\* The second and the fifth code are 0xE0.
MCPrefixes == {2, 5}

\* A list of three nodes, and one more to choose from.
MCNodes == 1 .. 4
=============================================================================

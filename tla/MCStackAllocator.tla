--------------------------- MODULE MCStackAllocator ---------------------------
(***************************************************************************)
(* Seven stacks of two units; the map grows twice.                         *)
(***************************************************************************)
EXTENDS StackAllocator
=============================================================================

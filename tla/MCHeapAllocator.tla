--------------------------- MODULE MCHeapAllocator ---------------------------
(***************************************************************************)
(* A heap of a few chunks.  In the kernel the first block is the           *)
(* StackAllocator (kernel.cpp:400), which is never freed.                  *)
(***************************************************************************)
EXTENDS HeapAllocator

\* The payload of the first block.
FirstBlock == {Base + 3}

\* A word that looks like a small free chunk.
FreeGarbage == [used |-> FALSE, size |-> 1]
=============================================================================

--------------------------- MODULE MCVirtualMemory ---------------------------
(***************************************************************************)
(* Tables of four entries; a heap region whose pages are entries of two L1 *)
(* tables, and a stack region that has no table but the L4 in common with  *)
(* it.                                                                     *)
(***************************************************************************)
EXTENDS VirtualMemory

MCRegions == {"heap", "stack"}

MCFirst == [heap |-> 12, stack |-> 256]
MCHigh  == [heap |-> 18, stack |-> 256 + PageWords]

\* The heap asks for any number of words, and so ends anywhere in a page: just
\* behind the first page of an L1 table, too.  A stack is a page.
MCRequests == [heap |-> {1, 3}, stack |-> {PageWords}]

\* The last page of the heap region.
MCStray == {18}
=============================================================================

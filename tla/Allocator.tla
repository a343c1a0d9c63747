------------------------------ MODULE Allocator ------------------------------
(***************************************************************************)
(* What every allocator of the kernel promises its callers: the memory it  *)
(* gives out lies in its region, and nobody else has been given any of it. *)
(***************************************************************************)
EXTENDS Integers

CONSTANT Region  \* the addresses the allocator may give out

VARIABLES
  blocks,  \* the blocks given out and not freed, [at, words]
  held     \* how many times a block was given out and not freed; with it,
           \* giving out a block a second time is not a step that changes nothing

Extent(b) == b.at .. b.at + b.words - 1

Disjoint(b, c) == Extent(b) \cap Extent(c) = {}

Init == blocks = {} /\ held = 0

\* A new block is given out.
Allocate ==
  \E b \in blocks' \ blocks :
    /\ blocks' = blocks \cup {b} /\ held' = held + 1
    /\ Extent(b) \subseteq Region
    /\ \A c \in blocks : Disjoint(b, c)

\* A block is given back.
Deallocate == \E b \in blocks : blocks' = blocks \ {b} /\ held' = held - 1

Spec == Init /\ [][Allocate \/ Deallocate]_<<blocks, held>>
=============================================================================

---------------------------- MODULE StackAllocator ----------------------------
(***************************************************************************)
(* The stacks of processes (vmem_stack_allocator.cpp).  They lie one above *)
(* the other; an entry of the map says where a stack ends and whether it   *)
(* is in use.  A stack that was freed is given out again.                  *)
(*                                                                         *)
(* Addresses are counted in units of STACK_ALIGNMENT.  No handler calls    *)
(* the allocator, so the steps of a call are only separate to keep the     *)
(* sum of the sizes in a variable, as the code does.                       *)
(***************************************************************************)
EXTENDS Integers, FiniteSets

CONSTANTS
  Base,       \* _region.BaseAddress
  Limit,      \* bound: no address beyond this one is reserved
  Requests,   \* the sizes callers ask for, rounded up
  MapGrowth   \* by how many entries the map grows; 32 in the code

\* All callers ask for STACK_ALIGNMENT bytes (kernel_procs.cpp:89, 107).
ASSUME StacksAssumption ==
  /\ Base \in Nat /\ Limit \in Nat /\ Base < Limit
  /\ MapGrowth \in Nat \ {0}
  /\ Requests \subseteq Nat \ {0} /\ \E n \in Requests : Requests = {n}

Entry == [allocated : BOOLEAN, size : Nat, addr : Nat]

\* What the constructor of _stack_entry leaves; it sets only IsAllocated, and
\* nothing reads the rest.
Empty == [allocated |-> FALSE, size |-> 0, addr |-> 0]

VARIABLES
  stackMap,       \* _stackMap
  stackMapCount,  \* _stackMapCount, the entries the map has
  numStacks,      \* _numStacks, the entries in use
  lastAddr,       \* _lastAddr: what has been reserved ends here
  live,           \* the stacks callers own
  held,           \* how many stacks they were given and have not freed
  pc,             \* "idle" or in the "search" loop of _allocate
  i, retStack,    \* its variables ...
  alignedBytes    \* ... and its argument

local == <<pc, i, retStack, alignedBytes>>
vars  == <<stackMap, stackMapCount, numStacks, lastAddr, live, held, local>>

TypeOK ==
  /\ stackMapCount \in Nat /\ numStacks \in 0 .. stackMapCount
  /\ stackMap \in [0 .. stackMapCount - 1 -> Entry]
  /\ lastAddr \in Base .. Limit
  /\ live \subseteq [at : Nat, words : Requests]
  /\ held \in Nat
  /\ pc \in {"idle", "search"}
  /\ i \in 0 .. numStacks /\ retStack \in Base .. Limit
  /\ alignedBytes \in Requests

Init ==
  /\ stackMapCount = 0 /\ numStacks = 0
  /\ stackMap = [k \in 0 .. -1 |-> Empty]
  /\ lastAddr = Base
  /\ live = {} /\ held = 0
  /\ pc = "idle" /\ i = 0 /\ retStack = Base
  /\ alignedBytes \in Requests
-----------------------------------------------------------------------------
(* _allocate. *)

\* Within the bound, there is room for a new stack, or an old one to use again.
Room(n) == lastAddr + n <= Limit

FreeFrom(k) == \E j \in k .. numStacks - 1 : ~stackMap[j].allocated

Allocate(n) ==
  /\ pc = "idle"
  /\ Room(n) \/ FreeFrom(0)
  /\ pc' = "search" /\ i' = 0 /\ retStack' = Base /\ alignedBytes' = n
  /\ UNCHANGED <<stackMap, stackMapCount, numStacks, lastAddr, live, held>>

\* Fault: a free entry that is large enough is passed like one in use.
Free_Strict == {k \in DOMAIN stackMap : ~stackMap[k].allocated /\ stackMap[k].size > alignedBytes}

\* The entries that the search takes: all that are free, whatever their size.
Free == {k \in DOMAIN stackMap : ~stackMap[k].allocated}

\* An entry in use: the stack is above it.
Pass ==
  /\ pc = "search" /\ i < numStacks
  /\ i \notin Free
  /\ retStack' = retStack + stackMap[i].size
  /\ i' = i + 1
  /\ UNCHANGED <<stackMap, stackMapCount, numStacks, lastAddr, live, held, pc, alignedBytes>>

\* Entry i becomes a stack of this size, and its upper end goes to the caller.
Take(map, size) ==
  /\ stackMap' = [map EXCEPT ![i] =
                    [allocated |-> TRUE, size |-> size, addr |-> retStack + size]]
  /\ live' = live \cup {[at |-> retStack + size - alignedBytes, words |-> alignedBytes]}
  /\ held' = held + 1
  /\ pc' = "idle"
  /\ UNCHANGED <<i, retStack, alignedBytes>>

\* The first entry that is free.
Reuse ==
  /\ pc = "search" /\ i < numStacks
  /\ i \in Free
  /\ Take(stackMap, IF stackMap[i].size >= alignedBytes
                      THEN stackMap[i].size ELSE alignedBytes)
  /\ UNCHANGED <<stackMapCount, numStacks, lastAddr>>

\* Fault: the entries are not copied to the larger map.
Grown_Forgets(n) == [k \in 0 .. n - 1 |-> Empty]

\* Fault: the new map is as large as the old one.
Grown_OldSize(n) ==
  [k \in 0 .. n - MapGrowth - 1 |-> IF k < numStacks THEN stackMap[k] ELSE Empty]

\* The map with n entries.
Grown(n) == [k \in 0 .. n - 1 |-> IF k < numStacks THEN stackMap[k] ELSE Empty]

\* No entry is free: a new one, in a larger map if this one is full.
Extend ==
  /\ pc = "search" /\ i = numStacks
  /\ stackMapCount' = IF i >= stackMapCount THEN stackMapCount + MapGrowth
                                            ELSE stackMapCount
  /\ lastAddr' = lastAddr + alignedBytes
  /\ numStacks' = numStacks + 1
  /\ Take(IF i >= stackMapCount THEN Grown(stackMapCount + MapGrowth) ELSE stackMap,
          alignedBytes)
-----------------------------------------------------------------------------
(* _deallocate. *)

\* Fault: the last entry of the map is not looked at.
Entries_ButTheLast == 0 .. stackMapCount - 2

\* The entries the loop looks at.
Entries == 0 .. stackMapCount - 1

\* The first entry in use with this address, if there is one, is freed.
Deallocate(b) ==
  /\ pc = "idle"
  /\ live' = live \ {b} /\ held' = held - 1
  /\ LET found(k) == stackMap[k].addr = b.at + b.words /\ stackMap[k].allocated
     IN  stackMap' = [k \in DOMAIN stackMap |->
           IF k \in Entries /\ found(k) /\ (\A j \in Entries : j < k => ~found(j))
             THEN [stackMap[k] EXCEPT !.allocated = FALSE] ELSE stackMap[k]]
  /\ UNCHANGED <<stackMapCount, numStacks, lastAddr, local>>

Next ==
  \/ (\E n \in Requests : Allocate(n)) \/ Pass \/ Reuse \/ Extend
  \/ \E b \in live : Deallocate(b)

Spec == Init /\ [][Next]_vars
-----------------------------------------------------------------------------
(* Properties. *)

\* The stack of an entry, as its owner sees it.
StackOf(k) == [at |-> stackMap[k].addr - stackMap[k].size, words |-> stackMap[k].size]

\* The map knows which stacks are in use, also after it was replaced.
MapKnowsStacks ==
  live = {StackOf(k) : k \in {j \in 0 .. numStacks - 1 : stackMap[j].allocated}}

\* No two processes have a word of stack in common, and no stack lies outside
\* what has been reserved for stacks.
Abstract == INSTANCE Allocator WITH Region <- Base .. Limit - 1, blocks <- live
AllocatorSpec == Abstract!Spec

\* Addresses are reserved only when every stack there is is in use.
ReusesFreedStacks ==
  [][lastAddr' # lastAddr => \A k \in 0 .. numStacks - 1 : stackMap[k].allocated]_vars
-----------------------------------------------------------------------------
(* The inductive invariant behind AllocatorSpec. *)

Size == CHOOSE n \in Requests : TRUE

\* Where the stacks below entry k end.
EndBelow(k) == IF k = 0 THEN Base ELSE stackMap[k - 1].addr

\* The stacks lie one above the other, entries that were never used look free,
\* and the sum of the search loop is where the ones it has passed end.
Stacked ==
  /\ \A k \in 0 .. numStacks - 1 :
       /\ stackMap[k].size = Size
       /\ stackMap[k].addr = EndBelow(k) + Size
       /\ Base + Size <= stackMap[k].addr /\ stackMap[k].addr <= lastAddr
  /\ \A j, k \in 0 .. numStacks - 1 : j < k => stackMap[j].addr + Size <= stackMap[k].addr
  /\ \A k \in numStacks .. stackMapCount - 1 : ~stackMap[k].allocated
  /\ lastAddr = EndBelow(numStacks)
  /\ pc = "search" => /\ retStack = EndBelow(i)
                      /\ \A k \in 0 .. i - 1 : stackMap[k].allocated
                      /\ Room(Size) \/ FreeFrom(i)

Counted == IsFiniteSet(live) /\ held = Cardinality(live)

IndInv == TypeOK /\ MapKnowsStacks /\ Stacked /\ Counted
=============================================================================

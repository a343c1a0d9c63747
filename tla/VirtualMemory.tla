---------------------------- MODULE VirtualMemory ----------------------------
(***************************************************************************)
(* Virtual memory: IdentityAllocator::Initialize, which takes the pages of *)
(* the identity map; IVMemAllocator::_allocate, which extends a region of  *)
(* virtual addresses and the page tables for it; PageFaultHandler, which   *)
(* gives a page its frame when it is first touched.  All of them take      *)
(* pages from PageAllocator.                                               *)
(*                                                                         *)
(* Addresses are counted in words.  A node is what an entry of a page      *)
(* table points to: <<0, v>> is the frame of virtual page v, <<1, i>> the  *)
(* i-th L1 table, and so on; the L4 table is always there.  A table is all *)
(* zeros when it is taken.  The comparison of the L4 entry's address with  *)
(* _region.HighAddress is left out: it never holds.  So are the two words  *)
(* by which HeapAllocator::Initialize moves _lastAddr on its own.          *)
(***************************************************************************)
EXTENDS PageAllocator

CONSTANTS
  Fan,        \* ENTRIES_PER_PAGE, the entries of a table
  PageWords,  \* PAGE_SIZE_BYTES, in words
  Regions,    \* the allocators that inherit from IVMemAllocator
  First,      \* _firstAddr of each
  High,       \* bound: how far each grows
  Requests,   \* how many words each reserves at a time
  Stray       \* addresses touched by mistake

VPageOf(a) == a \div PageWords
VPages == UNION {VPageOf(First[r]) .. VPageOf(High[r]) : r \in Regions}

\* The virtual pages that one node of a level is for.
Span(level) == <<1, Fan, Fan * Fan, Fan * Fan * Fan>>[level + 1]

Node(level, v) == <<level, v \div Span(level)>>
Nodes  == {Node(level, v) : level \in 0 .. 3, v \in VPages}
NoPage == -1

ASSUME MemoryAssumption ==
  /\ Fan \in Nat \ {0} /\ PageWords \in Nat \ {0}
  /\ First \in [Regions -> Nat] /\ High \in [Regions -> Nat]
  /\ \A r \in Regions : Requests[r] \subseteq Nat \ {0}

\* The tables of the identity map: one entry for each page of physical memory.
Tables(level) == (NumPages + Span(level) - 1) \div Span(level)
IdentityPages == 1 + Tables(3) + Tables(2) + Tables(1)

VARIABLES
  backing,    \* the physical page of each node
  allocated,  \* the pages whose L1 entry has bit 9, "allocated"
  lastAddr,   \* _lastAddr of each region
  reserved,   \* what _allocate has returned: address and words
  pc,         \* what the kernel is doing
  level,      \* _allocate is about to look at this level, ...
  it, end     \* ... for address retIterator = it; ret + alignedBytes = end

vmVars == <<backing, allocated, lastAddr, reserved, pc, level, it, end>>
vars   == <<pageVars, vmVars>>

Control ==
  {"booting",   \* in IdentityAllocator::Initialize
   "idle",      \* outside the memory management
   "reserving", \* in the loop of IVMemAllocator::_allocate
   "lost"}      \* in GetL1EntryPtr, behind a table that is not there

TypeOK ==
  /\ PagesTypeOK
  /\ backing \in [Nodes -> Page \cup {NoPage}]
  /\ allocated \subseteq VPages
  /\ lastAddr \in [Regions -> Nat]
  /\ reserved \subseteq [at : Nat, words : Nat]
  /\ pc \in Control
  /\ level \in 0 .. 3 /\ it \in Nat /\ end \in Nat

\* PageAllocator::Initialize has run, IdentityAllocator::Initialize has set
\* the protected mode.
Init ==
  /\ PagesInit /\ ~isProtected
  /\ backing = [n \in Nodes |-> NoPage]
  /\ allocated = {}
  /\ lastAddr = First
  /\ reserved = {}
  /\ pc = "booting" /\ level = 0 /\ it = 0 /\ end = IdentityPages
-----------------------------------------------------------------------------
(* IdentityAllocator::Initialize.  Its tables translate physical addresses *)
(* to themselves; they matter here as pages that are protected.            *)

StartIdentityMap ==
  /\ pc = "booting" /\ it = 0 /\ ~isProtected
  /\ SetProtectedMode
  /\ UNCHANGED vmVars

IdentityTable ==
  /\ pc = "booting" /\ isProtected
  /\ it < end
  /\ AllocatePage
  /\ it' = it + 1
  /\ UNCHANGED <<backing, allocated, lastAddr, reserved, pc, level, end>>

EndIdentityMap ==
  /\ pc = "booting" /\ it = end
  /\ ClearProtectedMode
  /\ pc' = "idle"
  /\ UNCHANGED <<backing, allocated, lastAddr, reserved, level, it, end>>
-----------------------------------------------------------------------------
(* IVMemAllocator::_allocate. *)

\* n words of region r are taken; the loop over their pages begins.
Reserve(r, n) ==
  /\ pc = "idle"
  /\ lastAddr[r] + n <= High[r]
  /\ lastAddr' = [lastAddr EXCEPT ![r] = @ + n]
  /\ reserved' = reserved \cup {[at |-> lastAddr[r], words |-> n]}
  /\ it' = lastAddr[r] /\ end' = lastAddr[r] + n
  /\ pc' = "reserving" /\ level' = 3
  /\ UNCHANGED <<pageVars, backing, allocated>>

\* Fault: a table is taken whether or not the entry is present.
Descend_TakesAgain ==
  /\ pc = "reserving" /\ level > 0
  /\ AllocatePage
  /\ backing' = [backing EXCEPT ![Node(level, VPageOf(it))] = lastPage]
  /\ level' = level - 1
  /\ UNCHANGED <<allocated, lastAddr, reserved, pc, it, end>>

\* If the entry for it does not point to a table yet, one is taken.
Descend ==
  /\ pc = "reserving" /\ level > 0
  /\ LET n == Node(level, VPageOf(it))
     IN  IF backing[n] = NoPage
           THEN AllocatePage /\ backing' = [backing EXCEPT ![n] = lastPage]
           ELSE UNCHANGED <<pageVars, backing>>
  /\ level' = level - 1
  /\ UNCHANGED <<allocated, lastAddr, reserved, pc, it, end>>

\* Fault: the loop runs while retIterator < ret + alignedBytes.
Another_Strict(a) == a < end

\* The loop condition, retIterator <= ret + alignedBytes.
Another(a) == a <= end

\* The L1 entry is marked as allocated, and the iterator goes a page further.
MarkAllocated ==
  /\ pc = "reserving" /\ level = 0
  /\ allocated' = allocated \cup {VPageOf(it)}
  /\ it' = it + PageWords
  /\ IF Another(it + PageWords)
       THEN level' = 3 /\ UNCHANGED pc
       ELSE pc' = "idle" /\ UNCHANGED level
  /\ UNCHANGED <<pageVars, backing, lastAddr, reserved, end>>
-----------------------------------------------------------------------------
(* Page faults. *)

HasTables(v) == \A l \in 1 .. 3 : backing[Node(l, v)] # NoPage

\* Fault: the handler maps the page to the page it hands out next.
PageFaultHandler_WrongFrame(v) ==
  IF HasTables(v)
    THEN /\ AllocatePage
         /\ backing' = [backing EXCEPT ![Node(0, v)] = NextPage(lastPage)]
         /\ UNCHANGED pc
    ELSE pc' = "lost" /\ UNCHANGED <<pageVars, backing>>

\* PageFaultHandler.  *l1 & (1 << 9) != (1 << 9) is *l1 & 0: the allocated bit
\* is not looked at.  Where a table is missing GetL1EntryPtr follows a null
\* pointer.
PageFaultHandler(v) ==
  IF HasTables(v)
    THEN /\ AllocatePage
         /\ backing' = [backing EXCEPT ![Node(0, v)] = lastPage]
         /\ UNCHANGED pc
    ELSE pc' = "lost" /\ UNCHANGED <<pageVars, backing>>

\* The words a caller may use of what it was given.  The first word behind it
\* is among them: that is where a stack begins (stack[0], kernel_procs.cpp:108).
Usable == UNION {b.at .. b.at + b.words : b \in reserved}

\* A word is touched whose page has no frame.
Touch(a) ==
  /\ pc = "idle"
  /\ backing[Node(0, VPageOf(a))] = NoPage
  /\ PageFaultHandler(VPageOf(a))
  /\ UNCHANGED <<allocated, lastAddr, reserved, level, it, end>>

Next ==
  \/ StartIdentityMap \/ IdentityTable \/ EndIdentityMap
  \/ (\E r \in Regions : \E n \in Requests[r] : Reserve(r, n))
  \/ Descend \/ MarkAllocated
  \/ (\E a \in Usable \cup Stray : Touch(a))

Spec == Init /\ [][Next]_vars
-----------------------------------------------------------------------------
(* Properties. *)

\* No physical page is used twice: not as tables, not as frames of two virtual
\* pages, and none of the pages of the list or of the identity map.  The list
\* of the page allocator agrees.
NoSharedPage ==
  /\ OneOwner
  /\ \A n \in Nodes : backing[n] # NoPage =>
       /\ ~freePages[backing[n]].protected
       /\ \A m \in Nodes \ {n} : backing[m] # backing[n]

\* Page v has its tables and is marked.
Ready(v) == HasTables(v) /\ v \in allocated

\* The loop of _allocate steps over the start of the page in which b ends.
Missed(b) == VPageOf(b.at) + b.words \div PageWords < VPageOf(b.at + b.words)

\* "Make sure everything except L1 entry is present" (vmem_allocator.cpp:84),
\* as far as the code does: what _allocate has returned, and the word behind
\* it, can be touched, but for the page in which the last request of a region
\* ends, if that request is not in whole pages and the loop steps over this
\* page.  The next request of the region makes it good.
ReservedCanBeTouched ==
  pc # "reserving" =>
    \A b \in reserved : \A a \in b.at .. b.at + b.words :
      \/ Ready(VPageOf(a))
      \/ /\ Missed(b) /\ VPageOf(a) = VPageOf(b.at + b.words)
         /\ \E r \in Regions : lastAddr[r] = b.at + b.words

\* A translation never changes once it is there: what a program stored stays
\* where it looks for it.
TranslationsAreStable ==
  [][\A n \in Nodes : backing[n] # NoPage => backing'[n] = backing[n]]_vars
=============================================================================

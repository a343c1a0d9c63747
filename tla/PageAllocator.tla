---------------------------- MODULE PageAllocator ----------------------------
(***************************************************************************)
(* Physical memory (page_allocator.cpp).  The region is a row of pages; a  *)
(* list of entries, one for each page, is kept in its first pages.  A page *)
(* is given out by advancing _lastAddr; the list is written and never read *)
(* again.                                                                  *)
(*                                                                         *)
(* _deallocate is not here: nobody calls it, and it begins with a wait for *)
(* a debugger that never ends.                                             *)
(***************************************************************************)
EXTENDS Integers

CONSTANTS
  NumPages,   \* _numPages, the pages between BaseAddress and HighAddress
  ListPages   \* pagesNeeded, the pages of the list

ASSUME PagesAssumption ==
  /\ NumPages \in Nat /\ ListPages \in Nat \ {0} /\ ListPages < NumPages

\* The pages of the region, and the one behind it.
Page == 0 .. NumPages

VARIABLES
  lastPage,     \* _lastAddr, as a page
  freePages,    \* _freePages: IsFree and Protected of each page
  isProtected,  \* _isProtected
  owners        \* how many times each page has been given out

pageVars == <<lastPage, freePages, isProtected, owners>>

PagesTypeOK ==
  /\ lastPage \in Page
  /\ freePages \in [Page -> [free : BOOLEAN, protected : BOOLEAN]]
  /\ isProtected \in BOOLEAN
  /\ owners \in [Page -> Nat]

\* Initialize: the pages of the list are not free, and belong to the allocator.
\* What lies behind the region is no entry; a zero is as good as anything.
PagesInit ==
  /\ lastPage = ListPages
  /\ freePages = [p \in Page |->
       [free |-> ListPages <= p /\ p < NumPages, protected |-> p < ListPages]]
  /\ isProtected = FALSE
  /\ owners = [p \in Page |-> IF p < ListPages THEN 1 ELSE 0]

\* Where _lastAddr goes from page p.
NextPage(p) == IF p + 1 > NumPages THEN 0 ELSE p + 1

\* _allocate: lastPage is given out, however many bytes are asked for.
AllocatePage ==
  /\ lastPage' = NextPage(lastPage)
  /\ freePages' = [freePages EXCEPT ![lastPage] =
                     [free |-> FALSE, protected |-> isProtected]]
  /\ owners' = [owners EXCEPT ![lastPage] = @ + 1]
  /\ UNCHANGED isProtected

SetProtectedMode ==
  isProtected' = TRUE /\ UNCHANGED <<lastPage, freePages, owners>>

ClearProtectedMode ==
  isProtected' = FALSE /\ UNCHANGED <<lastPage, freePages, owners>>

PagesNext == AllocatePage \/ SetProtectedMode \/ ClearProtectedMode

PagesSpec == PagesInit /\ [][PagesNext]_pageVars
-----------------------------------------------------------------------------
(* Properties. *)

\* Until _lastAddr goes round, a page has one owner at most, and the list says
\* which pages are free.
OneOwner ==
  \A p \in 0 .. NumPages - 1 : owners[p] <= 1 /\ (freePages[p].free <=> owners[p] = 0)

\* "Loop _last chunk around if it goes out of bounds"
\* (page_allocator.cpp:64): only pages of the region are given out.
InBounds == owners[NumPages] = 0
=============================================================================

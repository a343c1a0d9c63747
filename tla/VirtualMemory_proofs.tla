------------------------ MODULE VirtualMemory_proofs ------------------------
(***************************************************************************)
(* For every size of memory, of tables and of regions, every sequence of  *)
(* requests and every stray access: no page is used twice until the        *)
(* counter of the page allocator comes round; what is reserved can be      *)
(* touched, although _allocate takes tables page by page, but for the one  *)
(* page that its loop may step over; and no translation ever changes.      *)
(***************************************************************************)
EXTENDS VirtualMemory, TLAPS

\* The loop of _allocate stays in its region.
Inside ==
  /\ \A r \in Regions : First[r] <= lastAddr[r]
  /\ pc = "reserving" =>
       \E r \in Regions : First[r] <= it /\ it <= end /\ end <= High[r]
-----------------------------------------------------------------------------
\* A quotient times the divisor is what is left without the remainder.
LEMMA DivFacts ==
  ASSUME NEW a \in Nat, NEW w \in Nat \ {0}
  PROVE  a \div w \in Nat /\ w * (a \div w) <= a /\ a < w * (a \div w) + w
OBVIOUS

\* Multiples of w that are less than w apart are the same.
LEMMA MultiplesApart ==
  ASSUME NEW d \in Int, NEW k \in Int, NEW w \in Nat \ {0}, w * d < w * k + w
  PROVE  d <= k
OBVIOUS

\* The page of an address between two others lies between their pages.
LEMMA PageMonotone ==
  ASSUME NEW a \in Nat, NEW b \in Nat, a <= b
  PROVE  VPageOf(a) \in Nat /\ VPageOf(a) <= VPageOf(b)
BY DivFacts, MultiplesApart, MemoryAssumption DEF VPageOf

\* The words of a page, from where it begins.
LEMMA PageOfWords ==
  ASSUME NEW k \in Nat, NEW a \in Nat, PageWords * k <= a, a < PageWords * k + PageWords
  PROVE  VPageOf(a) = k
BY DivFacts, MultiplesApart, MemoryAssumption DEF VPageOf

\* The words of a region have pages for which there are nodes.
LEMMA InRegion ==
  ASSUME NEW r \in Regions, NEW a \in Nat, First[r] <= a, a <= High[r]
  PROVE  VPageOf(a) \in VPages
<1>1. First[r] \in Nat /\ High[r] \in Nat
  BY MemoryAssumption
<1>2. /\ VPageOf(First[r]) \in Nat /\ VPageOf(a) \in Nat /\ VPageOf(High[r]) \in Nat
      /\ VPageOf(First[r]) <= VPageOf(a) /\ VPageOf(a) <= VPageOf(High[r])
  BY <1>1, PageMonotone
<1>3. VPageOf(a) \in VPageOf(First[r]) .. VPageOf(High[r])
  BY <1>2
<1> HIDE DEF VPageOf
<1> QED BY <1>3 DEF VPages

\* A node is for a whole number of pages.
LEMMA SpanFacts == (\A l \in 0 .. 3 : Span(l) \in Nat \ {0}) /\ Span(0) = 1
<1>1. /\ Span(0) = 1 /\ Span(1) = Fan
      /\ Span(2) = Fan * Fan /\ Span(3) = Fan * Fan * Fan
  BY DEF Span
<1>2. Fan \in Nat \ {0} /\ Fan * Fan \in Nat \ {0}
  BY MemoryAssumption
<1>3. Fan * Fan * Fan \in Nat \ {0}
  BY <1>2
<1>4. \A l \in 0 .. 3 : l = 0 \/ l = 1 \/ l = 2 \/ l = 3
  OBVIOUS
<1> QED BY <1>1, <1>2, <1>3, <1>4

\* The frame of a page is the node of this page alone.
LEMMA FrameNode ==
  /\ \A v \in VPages : Node(0, v) = <<0, v>>
  /\ \A v \in VPages : \A l \in 0 .. 3 : Node(l, v) \in Nodes
<1>1. VPages \subseteq Nat
  <2> SUFFICES ASSUME NEW r \in Regions, NEW v \in VPageOf(First[r]) .. VPageOf(High[r])
               PROVE  v \in Nat
    BY DEF VPages
  <2>1. First[r] \in Nat /\ High[r] \in Nat
    BY MemoryAssumption
  <2>2. VPageOf(First[r]) \in Nat /\ VPageOf(High[r]) \in Nat
    BY <2>1, PageMonotone
  <2> QED BY <2>2
<1>2. \A v \in VPages : v \div 1 = v
  BY <1>1
<1> QED BY <1>2, SpanFacts DEF Node, Nodes

\* The number of pages of the identity map is a number.
LEMMA IdentityPagesIsNat == IdentityPages \in Nat
<1>1. ASSUME NEW l \in 0 .. 3 PROVE Tables(l) \in Nat
  <2>1. Span(l) \in Nat \ {0} /\ NumPages \in Nat
    BY SpanFacts, PagesAssumption
  <2>2. NumPages + Span(l) - 1 \in Nat
    BY <2>1
  <2> QED BY <2>1, <2>2, DivFacts DEF Tables
<1> QED BY <1>1 DEF IdentityPages
-----------------------------------------------------------------------------
\* A page is given out, whichever it is.
LEMMA AllocatePageTypes ==
  ASSUME PagesTypeOK, AllocatePage
  PROVE  PagesTypeOK' /\ lastPage \in Page /\ lastPage # NoPage
<1>1. lastPage \in Page /\ NumPages \in Nat
  BY PagesAssumption DEF PagesTypeOK
<1>2. lastPage' \in Page /\ lastPage # NoPage
  BY <1>1 DEF AllocatePage, NextPage, Page, NoPage
<1>3. freePages' \in [Page -> [free : BOOLEAN, protected : BOOLEAN]]
  BY DEF AllocatePage, PagesTypeOK
<1>4. owners' \in [Page -> Nat]
  BY <1>1 DEF AllocatePage, PagesTypeOK
<1> QED BY <1>1, <1>2, <1>3, <1>4 DEF PagesTypeOK, AllocatePage

\* A page is put behind an entry, or the entry is there.
LEMMA BackingTypes ==
  ASSUME PagesTypeOK, backing \in [Nodes -> Page \cup {NoPage}], NEW n,
         \/ AllocatePage /\ backing' = [backing EXCEPT ![n] = lastPage]
         \/ UNCHANGED <<pageVars, backing>>
  PROVE  PagesTypeOK' /\ backing' \in [Nodes -> Page \cup {NoPage}]
<1>1. CASE AllocatePage /\ backing' = [backing EXCEPT ![n] = lastPage]
  BY <1>1, AllocatePageTypes
<1>2. CASE UNCHANGED <<pageVars, backing>>
  BY <1>2 DEF PagesTypeOK, pageVars
<1> QED BY <1>1, <1>2

\* The kernel starts with the types, and with its tables inside memory.
LEMMA InitTypes == Init => TypeOK /\ Inside
<1> SUFFICES ASSUME Init PROVE TypeOK /\ Inside
  OBVIOUS
<1>1. PagesTypeOK
  <2>1. lastPage \in Page
    BY PagesAssumption DEF Init, PagesInit, Page
  <2>2. owners \in [Page -> Nat] /\ isProtected \in BOOLEAN
    BY DEF Init, PagesInit
  <2>3. freePages \in [Page -> [free : BOOLEAN, protected : BOOLEAN]]
    BY PagesAssumption DEF Init, PagesInit, Page
  <2> QED BY <2>1, <2>2, <2>3 DEF PagesTypeOK
<1>2. backing \in [Nodes -> Page \cup {NoPage}] /\ allocated \subseteq VPages
  BY DEF Init
<1>3. lastAddr \in [Regions -> Nat] /\ reserved \subseteq [at : Nat, words : Nat]
  BY MemoryAssumption DEF Init
<1>4. pc \in Control /\ pc # "reserving"
  BY DEF Init, Control
<1>5. level \in 0 .. 3 /\ it \in Nat /\ end \in Nat
  BY IdentityPagesIsNat DEF Init
<1>6. \A r \in Regions : First[r] <= lastAddr[r]
  BY MemoryAssumption DEF Init
<1> QED BY <1>1, <1>2, <1>3, <1>4, <1>5, <1>6 DEF TypeOK, Inside

\* The types, and the loop in its region, for any requests and any stray
\* access.
LEMMA Typed ==
  ASSUME TypeOK, Inside, [Next]_vars
  PROVE  TypeOK' /\ Inside'
<1>0. /\ PagesTypeOK /\ backing \in [Nodes -> Page \cup {NoPage}]
      /\ lastAddr \in [Regions -> Nat] /\ reserved \subseteq [at : Nat, words : Nat]
      /\ level \in 0 .. 3 /\ it \in Nat /\ end \in Nat
      /\ PageWords \in Nat /\ allocated \subseteq VPages /\ pc \in Control
  BY MemoryAssumption DEF TypeOK
<1>1. CASE StartIdentityMap
  <2>1. PagesTypeOK' /\ UNCHANGED vmVars
    BY <1>0, <1>1 DEF StartIdentityMap, SetProtectedMode, PagesTypeOK
  <2> QED BY <2>1 DEF TypeOK, Inside, vmVars
<1>2. CASE IdentityTable
  <2>1. PagesTypeOK'
    BY <1>0, <1>2, AllocatePageTypes DEF IdentityTable
  <2>2. /\ UNCHANGED <<backing, allocated, lastAddr, reserved, pc, level, end>>
        /\ it' \in Nat /\ pc # "reserving"
    BY <1>0, <1>2 DEF IdentityTable
  <2> QED BY <2>1, <2>2 DEF TypeOK, Inside
<1>3. CASE EndIdentityMap
  <2>1. PagesTypeOK' /\ pc' \in Control /\ pc' # "reserving"
    BY <1>0, <1>3 DEF EndIdentityMap, ClearProtectedMode, PagesTypeOK, Control
  <2>2. UNCHANGED <<backing, allocated, lastAddr, reserved, level, it, end>>
    BY <1>3 DEF EndIdentityMap
  <2> QED BY <2>1, <2>2 DEF TypeOK, Inside
<1>4. ASSUME NEW r \in Regions, NEW n \in Requests[r], Reserve(r, n)
      PROVE  TypeOK' /\ Inside'
  <2>1. /\ n \in Nat /\ First[r] \in Nat /\ High[r] \in Nat /\ lastAddr[r] \in Nat
        /\ First[r] <= lastAddr[r]
    BY <1>0, MemoryAssumption DEF Inside
  <2>2. /\ lastAddr' = [lastAddr EXCEPT ![r] = @ + n] /\ lastAddr[r] + n <= High[r]
        /\ reserved' = reserved \cup {[at |-> lastAddr[r], words |-> n]}
        /\ it' = lastAddr[r] /\ end' = lastAddr[r] + n /\ level' = 3
        /\ UNCHANGED <<pageVars, backing, allocated>>
    BY <1>4 DEF Reserve
  <2>3. pc' \in Control
    BY <1>4 DEF Reserve, Control
  <2>4. lastAddr' \in [Regions -> Nat] /\ \A q \in Regions : First[q] <= lastAddr'[q]
    BY <1>0, <2>1, <2>2, MemoryAssumption DEF Inside
  <2>5. PagesTypeOK'
    BY <1>0, <2>2 DEF PagesTypeOK, pageVars
  <2>6. reserved' \subseteq [at : Nat, words : Nat]
    BY <1>0, <2>1, <2>2
  <2>7. First[r] <= it' /\ it' <= end' /\ end' <= High[r] /\ it' \in Nat /\ end' \in Nat
    BY <2>1, <2>2
  <2> QED BY <1>0, <2>2, <2>3, <2>4, <2>5, <2>6, <2>7 DEF TypeOK, Inside
<1>5. CASE Descend
  <2>1. PagesTypeOK' /\ backing' \in [Nodes -> Page \cup {NoPage}]
    BY <1>0, <1>5, BackingTypes DEF Descend
  <2>2. level' \in 0 .. 3 /\ UNCHANGED <<allocated, lastAddr, reserved, pc, it, end>>
    BY <1>0, <1>5 DEF Descend
  <2> QED BY <1>0, <2>1, <2>2 DEF TypeOK, Inside
<1>6. CASE MarkAllocated
  <2>1. /\ allocated' = allocated \cup {VPageOf(it)} /\ it' = it + PageWords
        /\ UNCHANGED <<pageVars, backing, lastAddr, reserved, end>>
        /\ pc = "reserving"
    BY <1>6 DEF MarkAllocated
  <2>2. PICK r \in Regions : First[r] <= it /\ it <= end /\ end <= High[r]
    BY <2>1 DEF Inside
  <2>3. First[r] \in Nat /\ High[r] \in Nat
    BY MemoryAssumption
  <2>4. VPageOf(it) \in VPages
    BY <1>0, <2>2, <2>3, InRegion
  <2>5. PagesTypeOK'
    BY <1>0, <2>1 DEF PagesTypeOK, pageVars
  <2>6. level' \in 0 .. 3 /\ it' \in Nat /\ First[r] <= it'
    BY <1>0, <1>6, <2>1, <2>2, <2>3 DEF MarkAllocated
  <2>7. pc' \in Control /\ (pc' = "reserving" => it' <= end')
    BY <1>6, <2>1 DEF MarkAllocated, Another, Control
  <2> QED BY <1>0, <2>1, <2>2, <2>4, <2>5, <2>6, <2>7 DEF TypeOK, Inside
<1>7. ASSUME NEW a, Touch(a) PROVE TypeOK' /\ Inside'
  <2>1. PagesTypeOK' /\ backing' \in [Nodes -> Page \cup {NoPage}]
    BY <1>0, <1>7, BackingTypes DEF Touch, PageFaultHandler
  <2>2. UNCHANGED <<allocated, lastAddr, reserved, level, it, end>>
    BY <1>7 DEF Touch
  <2>3. pc' \in Control /\ pc' # "reserving"
    BY <1>7 DEF Touch, PageFaultHandler, Control
  <2> QED BY <1>0, <2>1, <2>2, <2>3 DEF TypeOK, Inside
<1>8. CASE UNCHANGED vars
  BY <1>8 DEF TypeOK, PagesTypeOK, Inside, vars, pageVars, vmVars
<1> QED BY <1>1, <1>2, <1>3, <1>4, <1>5, <1>6, <1>7, <1>8 DEF Next

\* Every variable keeps its type: the loop of _allocate marks no page outside
\* its region.
THEOREM TypeCorrect == Spec => []TypeOK
BY InitTypes, Typed, PTL DEF Spec

\* A page is only put where there is none, so what a program stored stays
\* where it looks for it.
LEMMA EntriesStay ==
  ASSUME TypeOK, [Next]_vars, NEW n \in Nodes, backing[n] # NoPage
  PROVE  backing'[n] = backing[n]
<1>1. CASE Descend \/ \E a \in Usable \cup Stray : Touch(a)
  <2>1. \/ UNCHANGED backing
        \/ \E m : backing[m] = NoPage /\ backing' = [backing EXCEPT ![m] = lastPage]
    BY <1>1 DEF Descend, Touch, PageFaultHandler
  <2> QED BY <2>1 DEF TypeOK
<1>2. CASE StartIdentityMap \/ IdentityTable \/ EndIdentityMap \/ MarkAllocated
  BY <1>2 DEF StartIdentityMap, IdentityTable, EndIdentityMap, MarkAllocated, vmVars
<1>3. CASE \E r \in Regions : \E k \in Requests[r] : Reserve(r, k)
  BY <1>3 DEF Reserve
<1>4. CASE UNCHANGED vars
  BY <1>4 DEF vars, vmVars
<1> QED BY <1>1, <1>2, <1>3, <1>4 DEF Next

\* No step of reservation or of the page fault handler changes an entry that is
\* there (vmem_allocator.cpp:86-136, kernel.cpp:66-85).
THEOREM TranslationsStay == Spec => TranslationsAreStable
<1>1. ASSUME TypeOK, [Next]_vars
      PROVE  [\A n \in Nodes : backing[n] # NoPage => backing'[n] = backing[n]]_vars
  BY <1>1, EntriesStay
<1> QED BY <1>1, TypeCorrect, PTL DEF Spec, TranslationsAreStable
-----------------------------------------------------------------------------
\* The counter separates the pages that are given out from those that are not,
\* as long as it has not come round.
Counter ==
  /\ lastPage \in ListPages .. NumPages
  /\ \A p \in Page :
       /\ p < lastPage => owners[p] = 1 /\ ~freePages[p].free
       /\ p >= lastPage => owners[p] = 0 /\ (p < NumPages => freePages[p].free)

\* What tables and entries point to was given out to them.
Backed ==
  /\ \A n \in Nodes : backing[n] # NoPage =>
       backing[n] \in 0 .. lastPage - 1 /\ ~freePages[backing[n]].protected
  /\ \A n, m \in Nodes : n # m /\ backing[n] # NoPage => backing[m] # backing[n]

\* Pages are protected while the identity map is made, and nothing else is
\* done then.
BootFirst == isProtected => pc = "booting"

\* A page that was never given out is given out.
LEMMA NewPage ==
  ASSUME PagesTypeOK, Counter, AllocatePage, lastPage' # 0
  PROVE  /\ Counter' /\ lastPage' = lastPage + 1 /\ lastPage \in Nat
         /\ \A p \in 0 .. lastPage - 1 : freePages'[p] = freePages[p]
         /\ freePages'[lastPage].protected = isProtected
<1>1. /\ NumPages \in Nat /\ lastPage \in Nat /\ ListPages \in Nat
      /\ lastPage <= NumPages /\ ListPages <= lastPage /\ lastPage \in Page
  BY PagesAssumption DEF Counter, Page
<1>2. lastPage' = lastPage + 1 /\ lastPage + 1 <= NumPages
  BY <1>1 DEF AllocatePage, NextPage
<1>3. /\ owners'[lastPage] = owners[lastPage] + 1
      /\ freePages'[lastPage].free = FALSE /\ freePages'[lastPage].protected = isProtected
      /\ \A p \in Page : p # lastPage => owners'[p] = owners[p] /\ freePages'[p] = freePages[p]
  BY <1>1 DEF AllocatePage, PagesTypeOK
<1>4. owners[lastPage] = 0
  BY <1>1 DEF Counter
<1>5. ASSUME NEW p \in Page
      PROVE  /\ p < lastPage' => owners'[p] = 1 /\ ~freePages'[p].free
             /\ p >= lastPage' => owners'[p] = 0 /\ (p < NumPages => freePages'[p].free)
  <2>1. p \in Nat
    BY <1>1 DEF Page
  <2>2. CASE p = lastPage
    BY <2>1, <2>2, <1>1, <1>2, <1>3, <1>4
  <2>3. CASE p # lastPage
    BY <2>1, <2>3, <1>1, <1>2, <1>3 DEF Counter
  <2> QED BY <2>2, <2>3
<1>6. \A p \in 0 .. lastPage - 1 : p \in Page /\ p # lastPage
  BY <1>1 DEF Page
<1> QED BY <1>1, <1>2, <1>3, <1>5, <1>6 DEF Counter

\* The new page is put behind an entry that had none.
LEMMA NewEntry ==
  ASSUME PagesTypeOK, backing \in [Nodes -> Page \cup {NoPage}], Counter, Backed,
         ~isProtected, AllocatePage, lastPage' # 0, NEW n, backing[n] = NoPage,
         backing' = [backing EXCEPT ![n] = lastPage]
  PROVE  Counter' /\ Backed'
<1>1. /\ Counter' /\ lastPage' = lastPage + 1 /\ lastPage \in Nat
      /\ \A p \in 0 .. lastPage - 1 : freePages'[p] = freePages[p]
      /\ ~freePages'[lastPage].protected
  BY NewPage
<1>2. \A m \in Nodes : backing'[m] = IF m = n THEN lastPage ELSE backing[m]
  OBVIOUS
<1>3. \A m \in Nodes : backing[m] # NoPage => backing[m] \in 0 .. lastPage - 1
  BY DEF Backed
<1>4. ASSUME NEW m \in Nodes, backing'[m] # NoPage
      PROVE  backing'[m] \in 0 .. lastPage' - 1 /\ ~freePages'[backing'[m]].protected
  <2>1. CASE m = n
    BY <2>1, <1>1, <1>2
  <2>2. CASE m # n
    <3>1. backing'[m] = backing[m] /\ backing[m] \in 0 .. lastPage - 1
      BY <2>2, <1>2, <1>3, <1>4
    <3>2. ~freePages[backing[m]].protected
      BY <3>1, <1>4 DEF Backed
    <3> QED BY <3>1, <3>2, <1>1
  <2> QED BY <2>1, <2>2
<1>5. ASSUME NEW m \in Nodes, NEW k \in Nodes, m # k, backing'[m] # NoPage
      PROVE  backing'[k] # backing'[m]
  <2>1. CASE m = n
    <3>1. backing'[m] = lastPage /\ backing'[k] = backing[k]
      BY <2>1, <1>2, <1>5
    <3>2. lastPage # NoPage
      BY <1>1 DEF NoPage
    <3> QED BY <3>1, <3>2, <1>1, <1>3
  <2>2. CASE m # n
    <3>1. backing'[m] = backing[m] /\ backing[m] \in 0 .. lastPage - 1
      BY <2>2, <1>2, <1>3, <1>5
    <3>2. CASE k = n
      BY <3>1, <3>2, <1>1, <1>2
    <3>3. CASE k # n
      BY <3>1, <3>3, <1>2, <1>5 DEF Backed
    <3> QED BY <3>2, <3>3
  <2> QED BY <2>1, <2>2
<1> QED BY <1>1, <1>4, <1>5 DEF Backed

\* At the start only the pages of the list itself are taken.
LEMMA SharingInit == Init => Counter /\ Backed /\ BootFirst
<1> SUFFICES ASSUME Init PROVE Counter /\ Backed /\ BootFirst
  OBVIOUS
<1>1. Counter
  <2>1. \A p \in Page : p \in Nat
    BY PagesAssumption DEF Page
  <2>2. lastPage = ListPages /\ lastPage \in ListPages .. NumPages
    BY PagesAssumption DEF Init, PagesInit
  <2>3. \A p \in Page :
          /\ owners[p] = IF p < ListPages THEN 1 ELSE 0
          /\ freePages[p].free <=> ListPages <= p /\ p < NumPages
    BY DEF Init, PagesInit
  <2> QED BY <2>1, <2>2, <2>3, PagesAssumption DEF Counter
<1>2. Backed /\ BootFirst
  BY DEF Init, Backed, BootFirst
<1> QED BY <1>1, <1>2

\* No step shares a page but one in which the counter comes round.
LEMMA SharingStep ==
  ASSUME TypeOK, Counter, Backed, BootFirst, [Next]_vars, [lastPage' # 0]_vars
  PROVE  Counter' /\ Backed' /\ BootFirst'
<1>0. PagesTypeOK /\ backing \in [Nodes -> Page \cup {NoPage}]
  BY DEF TypeOK
<1>1. CASE StartIdentityMap \/ EndIdentityMap
  <2>1. /\ UNCHANGED <<lastPage, freePages, owners, backing>>
        /\ isProtected' => pc' = "booting"
    BY <1>1 DEF StartIdentityMap, EndIdentityMap, SetProtectedMode, ClearProtectedMode, vmVars
  <2> QED BY <2>1 DEF Counter, Backed, BootFirst
<1>2. CASE IdentityTable
  <2>1. /\ AllocatePage /\ pc = "booting" /\ UNCHANGED <<backing, pc, isProtected>>
        /\ it' = it + 1 /\ it < end /\ it \in Nat
    BY <1>2 DEF IdentityTable, AllocatePage, TypeOK
  <2>2. it' # it
    BY <2>1
  <2>3. lastPage' # 0
    BY <2>2 DEF vars, vmVars
  <2>4. /\ Counter' /\ lastPage' = lastPage + 1 /\ lastPage \in Nat
        /\ \A p \in 0 .. lastPage - 1 : freePages'[p] = freePages[p]
    BY <1>0, <2>1, <2>3, NewPage
  <2>5. \A n \in Nodes : backing[n] # NoPage => backing[n] \in 0 .. lastPage - 1
    BY DEF Backed
  <2>6. \A p \in 0 .. lastPage - 1 : p \in 0 .. lastPage' - 1
    BY <2>4
  <2>7. Backed'
    BY <2>1, <2>4, <2>5, <2>6 DEF Backed
  <2> QED BY <2>1, <2>4, <2>7 DEF BootFirst
<1>3. CASE UNCHANGED <<pageVars, backing>> /\ (pc = "booting" => pc' = "booting")
  BY <1>3 DEF Counter, Backed, BootFirst, pageVars
<1>4. ASSUME NEW r \in Regions, NEW k \in Requests[r], Reserve(r, k)
      PROVE  Counter' /\ Backed' /\ BootFirst'
  BY <1>3, <1>4 DEF Reserve
<1>5. CASE MarkAllocated
  BY <1>3, <1>5 DEF MarkAllocated
<1>6. ASSUME NEW n, AllocatePage, backing[n] = NoPage,
             backing' = [backing EXCEPT ![n] = lastPage],
             pc # "booting", UNCHANGED pc
      PROVE  Counter' /\ Backed' /\ BootFirst'
  <2>1. ~isProtected /\ UNCHANGED isProtected
    BY <1>6 DEF BootFirst, AllocatePage
  <2>2. lastPage' # lastPage
    <3>1. lastPage \in Nat /\ NumPages \in Nat /\ ListPages > 0 /\ lastPage >= ListPages
      BY PagesAssumption DEF Counter
    <3> QED BY <1>6, <3>1, PagesAssumption DEF AllocatePage, NextPage
  <2>3. lastPage' # 0
    BY <2>2 DEF vars, pageVars
  <2> QED BY <1>0, <1>6, <2>1, <2>3, NewEntry DEF BootFirst
<1>7. CASE Descend
  <2>1. pc = "reserving" /\ UNCHANGED pc
    BY <1>7 DEF Descend
  <2>2. CASE backing[Node(level, VPageOf(it))] = NoPage
    BY <1>6, <1>7, <2>1, <2>2 DEF Descend
  <2>3. CASE backing[Node(level, VPageOf(it))] # NoPage
    BY <1>3, <1>7, <2>1, <2>3 DEF Descend
  <2> QED BY <2>2, <2>3
<1>8. ASSUME NEW a, Touch(a) PROVE Counter' /\ Backed' /\ BootFirst'
  <2>1. pc = "idle" /\ backing[Node(0, VPageOf(a))] = NoPage
    BY <1>8 DEF Touch
  <2>2. CASE HasTables(VPageOf(a))
    BY <1>6, <1>8, <2>1, <2>2 DEF Touch, PageFaultHandler
  <2>3. CASE ~HasTables(VPageOf(a))
    BY <1>3, <1>8, <2>1, <2>3 DEF Touch, PageFaultHandler
  <2> QED BY <2>2, <2>3
<1>9. CASE UNCHANGED vars
  BY <1>3, <1>9 DEF vars, vmVars
<1> QED BY <1>1, <1>2, <1>4, <1>5, <1>7, <1>8, <1>9 DEF Next

\* Until _lastAddr comes round, no physical page is used twice
\* (page_allocator.cpp:52-75): not as two tables, not as a table and a frame,
\* and none of the list's or of the identity map's; and the list is right.
THEOREM NoPageIsShared == Spec /\ [][lastPage' # 0]_vars => []NoSharedPage
<1>1. ASSUME Counter, Backed PROVE NoSharedPage
  <2>1. ASSUME NEW p \in 0 .. NumPages - 1
        PROVE  owners[p] <= 1 /\ (freePages[p].free <=> owners[p] = 0)
    <3>1. p \in Page /\ p \in Nat /\ p < NumPages /\ lastPage \in Nat
      BY <1>1, PagesAssumption DEF Page, Counter
    <3>2. CASE p < lastPage
      BY <1>1, <3>1, <3>2 DEF Counter
    <3>3. CASE p >= lastPage
      BY <1>1, <3>1, <3>3 DEF Counter
    <3> QED BY <3>1, <3>2, <3>3
  <2>2. OneOwner
    BY <2>1 DEF OneOwner
  <2> QED BY <1>1, <2>2 DEF NoSharedPage, Backed
<1>2. Init => Counter /\ Backed /\ BootFirst
  BY SharingInit
<1> QED BY <1>1, <1>2, SharingStep, TypeCorrect, PTL DEF Spec
-----------------------------------------------------------------------------
\* A page further on, the page is the next one.
LEMMA NextPageOf ==
  ASSUME NEW a \in Nat
  PROVE  VPageOf(a + PageWords) = VPageOf(a) + 1
<1> DEFINE k == VPageOf(a)
<1>1. k \in Nat /\ PageWords * k <= a /\ a < PageWords * k + PageWords /\ PageWords \in Nat
  BY DivFacts, MemoryAssumption DEF VPageOf
<1>2. PageWords * (k + 1) = PageWords * k + PageWords
  BY <1>1
<1> HIDE DEF k
<1>3. /\ k + 1 \in Nat /\ a + PageWords \in Nat
      /\ PageWords * (k + 1) <= a + PageWords
      /\ a + PageWords < PageWords * (k + 1) + PageWords
  BY <1>1, <1>2
<1>4. VPageOf(a + PageWords) = k + 1
  BY <1>3, PageOfWords
<1> QED BY <1>4 DEF k

\* How often the loop goes on: once for each whole page that is asked for.
LEMMA WholePagesOf ==
  ASSUME NEW k \in Nat, NEW n \in Nat, PageWords * k <= n, n < PageWords * k + PageWords
  PROVE  n \div PageWords = k
BY PageOfWords DEF VPageOf

\* What a block covers, the word behind it included.
Extent(b) == b.at .. b.at + b.words

\* The block that is being reserved: the pages before the one that is next are
\* ready, and so are the tables above the level that is next.
Half(b) ==
  /\ end = b.at + b.words
  /\ \E k \in Nat : it = b.at + PageWords * k /\ VPageOf(it) = VPageOf(b.at) + k
  /\ \A v \in VPageOf(b.at) .. VPageOf(it) - 1 : Ready(v)
  /\ \A l \in level + 1 .. 3 : backing[Node(l, VPageOf(it))] # NoPage

\* A block that has been reserved: its first page is ready, and the others are
\* but for one that the loop steps over.
Whole(b) ==
  /\ Ready(VPageOf(b.at))
  /\ \A a \in Extent(b) :
       Ready(VPageOf(a)) \/ (Missed(b) /\ VPageOf(a) = VPageOf(b.at + b.words))

\* Blocks lie in their regions.
Placed == \A b \in reserved : \E r \in Regions : First[r] <= b.at /\ b.at + b.words <= High[r]

\* Where a block ends its region ends, or another block begins.
EndsAt(b) ==
  \/ \E r \in Regions : lastAddr[r] = b.at + b.words
  \/ \E c \in reserved : c.at = b.at + b.words

ReadyInv ==
  /\ Placed
  /\ \A b \in reserved : EndsAt(b)
  /\ pc # "reserving" => \A b \in reserved : Whole(b)
  /\ pc = "reserving" => \E b \in reserved : Half(b) /\ \A c \in reserved \ {b} : Whole(c)

\* What is ready stays ready.
LEMMA ReadyStays ==
  ASSUME TypeOK, [Next]_vars, NEW v \in VPages
  PROVE  /\ \A l \in 0 .. 3 : backing[Node(l, v)] # NoPage => backing'[Node(l, v)] # NoPage
         /\ Ready(v) => Ready(v)'
<1>1. \A l \in 0 .. 3 : backing[Node(l, v)] # NoPage => backing'[Node(l, v)] # NoPage
  BY FrameNode, EntriesStay
<1>2. allocated \subseteq allocated'
  <2>1. UNCHANGED allocated \/ MarkAllocated
    BY DEF Next, StartIdentityMap, IdentityTable, EndIdentityMap, Reserve, Descend, Touch,
           vars, vmVars
  <2> QED BY <2>1 DEF MarkAllocated
<1>3. HasTables(v) => HasTables(v)'
  BY <1>1 DEF HasTables
<1> QED BY <1>1, <1>2, <1>3 DEF Ready

\* The words of a block have pages of its region.
LEMMA BlockPages ==
  ASSUME TypeOK, Placed, NEW b \in reserved
  PROVE  /\ b.at \in Nat /\ b.words \in Nat /\ b.at \in Extent(b)
         /\ \A a \in Extent(b) : VPageOf(a) \in VPages /\ a \in Nat
<1>1. PICK r \in Regions : First[r] <= b.at /\ b.at + b.words <= High[r]
  BY DEF Placed
<1>2. b.at \in Nat /\ b.words \in Nat /\ First[r] \in Nat /\ High[r] \in Nat
  BY MemoryAssumption DEF TypeOK
<1>3. \A a \in Extent(b) : a \in Nat /\ First[r] <= a /\ a <= High[r]
  BY <1>1, <1>2 DEF Extent
<1>4. b.at \in Extent(b)
  BY <1>2 DEF Extent
<1> QED BY <1>2, <1>3, <1>4, InRegion

\* A block that has been reserved stays as good as it is.
LEMMA WholeStays ==
  ASSUME TypeOK, Placed, [Next]_vars, NEW b \in reserved, Whole(b)
  PROVE  Whole(b)'
<1>1. VPageOf(b.at) \in VPages /\ \A a \in Extent(b) : VPageOf(a) \in VPages
  BY BlockPages
<1>2. \A v \in VPages : Ready(v) => Ready(v)'
  BY ReadyStays
<1> QED BY <1>1, <1>2 DEF Whole

\* A reservation begins.
LEMMA ReserveStep ==
  ASSUME TypeOK, Inside, ReadyInv, NEW r \in Regions, NEW n \in Requests[r], Reserve(r, n)
  PROVE  ReadyInv'
<1>0. PICK b : b = [at |-> lastAddr[r], words |-> n]
  OBVIOUS
<1>1. /\ pc = "idle" /\ pc' = "reserving"
      /\ lastAddr' = [lastAddr EXCEPT ![r] = @ + n] /\ lastAddr[r] + n <= High[r]
      /\ reserved' = reserved \cup {b}
      /\ it' = lastAddr[r] /\ end' = lastAddr[r] + n /\ level' = 3
      /\ UNCHANGED <<backing, allocated>>
  BY <1>0 DEF Reserve
<1>2. /\ n \in Nat /\ lastAddr[r] \in Nat /\ lastAddr \in [Regions -> Nat]
      /\ First[r] <= lastAddr[r] /\ PageWords \in Nat
  BY MemoryAssumption DEF TypeOK, Inside
<1>3. b.at = lastAddr[r] /\ b.words = n
  BY <1>0
<1>4. Placed'
  BY <1>1, <1>2, <1>3 DEF ReadyInv, Placed
<1>5. \A c \in reserved' : EndsAt(c)'
  <2>1. lastAddr'[r] = b.at + b.words /\ \A q \in Regions \ {r} : lastAddr'[q] = lastAddr[q]
    BY <1>1, <1>2, <1>3
  <2>2. ASSUME NEW c \in reserved PROVE EndsAt(c)'
    <3>1. CASE \E q \in Regions \ {r} : lastAddr[q] = c.at + c.words
      BY <3>1, <2>1 DEF EndsAt
    <3>2. CASE lastAddr[r] = c.at + c.words
      BY <3>2, <1>1, <1>3 DEF EndsAt
    <3>3. CASE \E d \in reserved : d.at = c.at + c.words
      BY <3>3, <1>1 DEF EndsAt
    <3> QED BY <3>1, <3>2, <3>3 DEF ReadyInv, EndsAt
  <2>3. EndsAt(b)'
    BY <2>1 DEF EndsAt
  <2> QED BY <1>1, <2>2, <2>3
<1>6. Half(b)'
  <2>1. VPageOf(b.at) \in Nat
    BY <1>2, <1>3, PageMonotone
  <2>2. /\ it' = b.at /\ end' = b.at + b.words /\ level' + 1 .. 3 = {}
        /\ it' = b.at + PageWords * 0
    BY <1>1, <1>2, <1>3
  <2>3. VPageOf(it') = VPageOf(b.at) + 0 /\ VPageOf(b.at) .. VPageOf(it') - 1 = {}
    BY <2>1, <2>2
  <2> QED BY <2>2, <2>3 DEF Half
<1>7. \A c \in reserved' \ {b} : Whole(c)'
  BY <1>1 DEF ReadyInv, Whole, Ready, HasTables
<1>8. b \in reserved'
  BY <1>1
<1> QED BY <1>1, <1>4, <1>5, <1>6, <1>7, <1>8 DEF ReadyInv

\* A table is there for one more level.
LEMMA DescendStep ==
  ASSUME TypeOK, Inside, ReadyInv, Descend
  PROVE  ReadyInv'
<1>1. /\ pc = "reserving" /\ pc' = "reserving" /\ level' = level - 1
      /\ UNCHANGED <<allocated, lastAddr, reserved, it, end>>
  BY DEF Descend
<1>2. /\ level \in 1 .. 3 /\ it \in Nat /\ end \in Nat /\ lastPage # NoPage
      /\ backing \in [Nodes -> Page \cup {NoPage}]
  <2>1. lastPage \in Nat
    BY PagesAssumption DEF TypeOK, PagesTypeOK, Page
  <2>2. level > 0
    BY DEF Descend
  <2> QED BY <2>1, <2>2 DEF TypeOK, NoPage
<1>3. PICK b \in reserved : Half(b) /\ \A c \in reserved \ {b} : Whole(c)
  BY <1>1 DEF ReadyInv
<1>4. b.at \in Nat /\ b.words \in Nat /\ \A a \in Extent(b) : VPageOf(a) \in VPages
  BY BlockPages DEF ReadyInv
<1>5. VPageOf(it) \in VPages
  <2>1. PICK r \in Regions : First[r] <= it /\ it <= end /\ end <= High[r]
    BY <1>1 DEF Inside
  <2>2. First[r] \in Nat /\ High[r] \in Nat
    BY MemoryAssumption
  <2> QED BY <1>2, <2>1, <2>2, InRegion
<1>6. backing'[Node(level, VPageOf(it))] # NoPage
  <2>1. Node(level, VPageOf(it)) \in Nodes
    BY <1>2, <1>5, FrameNode
  <2> QED BY <1>2, <2>1 DEF Descend
<1>7. VPageOf(it) \in Nat /\ VPageOf(b.at) .. VPageOf(it) \subseteq VPages
  <2>1. PICK r \in Regions : First[r] <= b.at /\ b.at + b.words <= High[r]
    BY DEF ReadyInv, Placed
  <2>2. First[r] \in Nat /\ High[r] \in Nat /\ it <= High[r]
    BY <1>1, <1>2, <1>3, <1>4, <2>1, MemoryAssumption DEF Half, Inside
  <2>3. /\ VPageOf(First[r]) \in Nat /\ VPageOf(First[r]) <= VPageOf(b.at)
        /\ VPageOf(it) \in Nat /\ VPageOf(it) <= VPageOf(High[r])
        /\ VPageOf(High[r]) \in Nat /\ VPageOf(b.at) \in Nat
    BY <1>2, <1>4, <2>1, <2>2, PageMonotone
  <2>4. VPageOf(b.at) .. VPageOf(it) \subseteq VPageOf(First[r]) .. VPageOf(High[r])
    BY <2>3
  <2> HIDE DEF VPageOf
  <2> QED BY <2>3, <2>4 DEF VPages
<1>8. \A v \in VPageOf(b.at) .. VPageOf(it) - 1 : Ready(v)'
  <2> SUFFICES ASSUME NEW v \in VPageOf(b.at) .. VPageOf(it) - 1 PROVE Ready(v)'
    OBVIOUS
  <2>1. v \in VPageOf(b.at) .. VPageOf(it)
    BY <1>7
  <2>2. v \in VPages /\ Ready(v)
    BY <2>1, <1>3, <1>7 DEF Half
  <2> QED BY <2>2, ReadyStays DEF Next
<1>9. \A l \in level' + 1 .. 3 : backing'[Node(l, VPageOf(it))] # NoPage
  <2> SUFFICES ASSUME NEW l \in level' + 1 .. 3 PROVE backing'[Node(l, VPageOf(it))] # NoPage
    OBVIOUS
  <2>1. CASE l = level
    BY <2>1, <1>6
  <2>2. CASE l # level
    <3>1. l \in level + 1 .. 3 /\ l \in 0 .. 3
      BY <2>2, <1>1, <1>2
    <3>2. backing[Node(l, VPageOf(it))] # NoPage
      BY <3>1, <1>3 DEF Half
    <3> QED BY <3>1, <3>2, <1>5, ReadyStays DEF Next
  <2> QED BY <2>1, <2>2
<1>10. Half(b)'
  BY <1>1, <1>3, <1>8, <1>9 DEF Half
<1>11. \A c \in reserved \ {b} : Whole(c)'
  BY <1>3, WholeStays DEF ReadyInv, Next
<1>12. Placed' /\ \A c \in reserved' : EndsAt(c)'
  BY <1>1 DEF ReadyInv, Placed, EndsAt
<1> QED BY <1>1, <1>10, <1>11, <1>12 DEF ReadyInv

\* A page is ready, and the loop goes on or ends.
LEMMA MarkStep ==
  ASSUME TypeOK, Inside, ReadyInv, MarkAllocated
  PROVE  ReadyInv'
<1>1. /\ pc = "reserving" /\ level = 0
      /\ allocated' = allocated \cup {VPageOf(it)} /\ it' = it + PageWords
      /\ UNCHANGED <<backing, lastAddr, reserved, end>>
  BY DEF MarkAllocated
<1>2. it \in Nat /\ end \in Nat /\ PageWords \in Nat \ {0} /\ it <= end
  BY <1>1, MemoryAssumption DEF TypeOK, Inside
<1>3. PICK b \in reserved : Half(b) /\ \A c \in reserved \ {b} : Whole(c)
  BY <1>1 DEF ReadyInv
<1>4. b.at \in Nat /\ b.words \in Nat /\ end = b.at + b.words /\ b.at \in Extent(b)
  BY <1>3, BlockPages DEF Half, ReadyInv
<1>5. PICK k \in Nat : it = b.at + PageWords * k /\ VPageOf(it) = VPageOf(b.at) + k
  BY <1>3 DEF Half
<1>6. /\ VPageOf(it) \in Nat /\ VPageOf(b.at) \in Nat
      /\ VPageOf(it') = VPageOf(it) + 1
  BY <1>1, <1>2, <1>4, PageMonotone, NextPageOf
<1>7. \A v : Ready(v) => Ready(v)'
  BY <1>1 DEF Ready, HasTables
<1>8. ASSUME NEW v, v = VPageOf(it) PROVE Ready(v)'
  BY <1>1, <1>3, <1>8 DEF Ready, HasTables, Half
<1>9. \A v \in VPageOf(b.at) .. VPageOf(it) : Ready(v)'
  <2> SUFFICES ASSUME NEW v \in VPageOf(b.at) .. VPageOf(it) PROVE Ready(v)'
    OBVIOUS
  <2>1. v = VPageOf(it) \/ v \in VPageOf(b.at) .. VPageOf(it) - 1
    BY <1>6
  <2> QED BY <2>1, <1>3, <1>7, <1>8 DEF Half
<1>10. \A c \in reserved \ {b} : Whole(c)'
  BY <1>3, WholeStays DEF ReadyInv, Next
<1>11. Placed' /\ \A c \in reserved' : EndsAt(c)'
  BY <1>1 DEF ReadyInv, Placed, EndsAt
<1>12. CASE Another(it + PageWords)
  <2>1. level' = 3 /\ pc' = "reserving"
    BY <1>1, <1>12 DEF MarkAllocated
  <2>2. /\ it' = b.at + PageWords * (k + 1) /\ k + 1 \in Nat
        /\ VPageOf(it') = VPageOf(b.at) + (k + 1)
    <3>1. PageWords * (k + 1) = PageWords * k + PageWords
      BY <1>2
    <3> HIDE DEF VPageOf
    <3> QED BY <3>1, <1>1, <1>2, <1>4, <1>5, <1>6
  <2>3. level' + 1 .. 3 = {} /\ VPageOf(it') - 1 = VPageOf(it)
    BY <2>1, <1>6
  <2>4. Half(b)'
    BY <1>1, <1>4, <1>9, <2>2, <2>3 DEF Half
  <2> QED BY <1>1, <2>1, <2>4, <1>10, <1>11 DEF ReadyInv
<1>13. CASE ~Another(it + PageWords)
  <2>1. pc' = "idle" /\ end < it + PageWords
    BY <1>1, <1>2, <1>13 DEF MarkAllocated, Another
  <2>2. /\ VPageOf(b.at) \in VPageOf(b.at) .. VPageOf(it)
        /\ VPageOf(end) \in Nat /\ VPageOf(end) <= VPageOf(it) + 1
    <3>1. VPageOf(end) \in Nat /\ VPageOf(end) <= VPageOf(it')
      BY <1>1, <1>2, <2>1, PageMonotone
    <3> QED BY <3>1, <1>4, <1>5, <1>6
  <2>3. b.words \div PageWords = k
    <3>1. PageWords * k \in Nat
      BY <1>2
    <3>2. PageWords * k <= b.words /\ b.words < PageWords * k + PageWords
      BY <3>1, <1>2, <1>4, <1>5, <2>1
    <3> QED BY <3>2, <1>4, WholePagesOf
  <2>4. ASSUME NEW a \in Extent(b), ~Ready(VPageOf(a))'
        PROVE  Missed(b) /\ VPageOf(a) = VPageOf(b.at + b.words)
    <3>1. a \in Nat /\ b.at <= a /\ a <= end
      BY <1>4 DEF Extent
    <3>2. VPageOf(a) \in Nat /\ VPageOf(b.at) <= VPageOf(a) /\ VPageOf(a) <= VPageOf(end)
      BY <3>1, <1>2, <1>4, PageMonotone
    <3>3. VPageOf(a) > VPageOf(it)
      BY <3>2, <1>6, <1>9, <2>4
    <3>4. VPageOf(a) = VPageOf(end) /\ VPageOf(b.at) + k < VPageOf(end)
      BY <3>2, <3>3, <2>2, <1>5, <1>6
    <3> QED BY <3>4, <2>3, <1>4 DEF Missed
  <2>5. Whole(b)'
    <3>1. Ready(VPageOf(b.at))'
      BY <2>2, <1>9
    <3>2. \A a \in Extent(b) :
            Ready(VPageOf(a))' \/ (Missed(b) /\ VPageOf(a) = VPageOf(b.at + b.words))
      BY <2>4
    <3> QED BY <3>1, <3>2 DEF Whole
  <2>6. \A c \in reserved' : Whole(c)'
    BY <1>1, <1>10, <2>5
  <2> QED BY <2>1, <2>6, <1>11 DEF ReadyInv
<1> QED BY <1>12, <1>13

\* Whatever is touched, by mistake too, what is ready stays ready.
LEMMA TouchStep ==
  ASSUME TypeOK, ReadyInv, NEW a \in Usable \cup Stray, Touch(a)
  PROVE  ReadyInv'
<1>1. /\ pc = "idle" /\ pc' # "reserving"
      /\ UNCHANGED <<allocated, lastAddr, reserved, level, it, end>>
  BY DEF Touch, PageFaultHandler
<1>2. \A b \in reserved : Whole(b)'
  BY <1>1, WholeStays DEF ReadyInv, Next
<1>3. Placed' /\ \A b \in reserved' : EndsAt(b)'
  BY <1>1 DEF ReadyInv, Placed, EndsAt
<1> QED BY <1>1, <1>2, <1>3 DEF ReadyInv

\* What is reserved, in whole pages or not, and the word behind it where a
\* stack begins (kernel_procs.cpp:108), has all its tables and is marked
\* (vmem_allocator.cpp:84-135), whatever else was touched (kernel.cpp:73); only
\* the page in which the last request of a region ends may be missing, if the
\* loop stepped over it.
THEOREM ReservedIsReady == Spec => []ReservedCanBeTouched
<1>1. Init => ReadyInv
  BY DEF Init, ReadyInv, Placed
<1>2. ASSUME TypeOK, Inside, ReadyInv, [Next]_vars PROVE ReadyInv'
  <2>1. CASE StartIdentityMap \/ IdentityTable \/ EndIdentityMap \/ UNCHANGED vars
    <3>1. UNCHANGED <<backing, allocated, lastAddr, reserved>>
      BY <2>1 DEF StartIdentityMap, IdentityTable, EndIdentityMap, vmVars, vars
    <3>2. \/ pc # "reserving" /\ pc' # "reserving"
          \/ UNCHANGED <<pc, it, end, level>>
      BY <2>1 DEF StartIdentityMap, IdentityTable, EndIdentityMap, vmVars, vars
    <3> QED BY <1>2, <3>1, <3>2
            DEF ReadyInv, Placed, EndsAt, Whole, Half, Ready, HasTables
  <2>2. CASE \E r \in Regions : \E n \in Requests[r] : Reserve(r, n)
    BY <1>2, <2>2, ReserveStep
  <2>3. CASE Descend \/ MarkAllocated
    BY <1>2, <2>3, DescendStep, MarkStep
  <2>4. CASE \E a \in Usable \cup Stray : Touch(a)
    BY <1>2, <2>4, TouchStep
  <2> QED BY <1>2, <2>1, <2>2, <2>3, <2>4 DEF Next
<1>3. ASSUME ReadyInv PROVE ReservedCanBeTouched
  <2> SUFFICES ASSUME pc # "reserving", NEW b \in reserved, NEW a \in Extent(b),
                      ~Ready(VPageOf(a))
               PROVE  /\ Missed(b) /\ VPageOf(a) = VPageOf(b.at + b.words)
                      /\ \E r \in Regions : lastAddr[r] = b.at + b.words
    BY DEF ReservedCanBeTouched, Extent
  <2>1. Missed(b) /\ VPageOf(a) = VPageOf(b.at + b.words) /\ EndsAt(b)
    BY <1>3 DEF ReadyInv, Whole
  <2>2. ~ \E c \in reserved : c.at = b.at + b.words
    BY <1>3, <2>1 DEF ReadyInv, Whole
  <2> QED BY <2>1, <2>2 DEF EndsAt
<1> QED BY <1>1, <1>2, <1>3, InitTypes, Typed, PTL DEF Spec
=============================================================================

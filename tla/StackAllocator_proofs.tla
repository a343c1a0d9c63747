------------------------ MODULE StackAllocator_proofs ------------------------
(***************************************************************************)
(* The stacks that StackAllocator gives out never overlap and lie in what  *)
(* was reserved, for every number of stacks, every size of a stack and     *)
(* every growth of the map.                                                *)
(***************************************************************************)
EXTENDS StackAllocator, FiniteSetTheorems, TLAPS

\* There is one size.
LEMMA SizeFacts == Size \in Nat \ {0} /\ Requests = {Size}
BY StacksAssumption DEF Size

\* A call does not ask for anything else.
LEMMA Asked == TypeOK => alignedBytes = Size
BY SizeFacts DEF TypeOK

\* Where the stacks below an entry end is an address that is reserved.
LEMMA EndsInReserved ==
  ASSUME TypeOK, Stacked, NEW k \in 0 .. numStacks
  PROVE  EndBelow(k) \in Nat /\ Base <= EndBelow(k) /\ EndBelow(k) <= lastAddr
<1>1. CASE k = 0
  BY <1>1, StacksAssumption DEF TypeOK, EndBelow
<1>2. CASE k # 0
  <2>1. k - 1 \in 0 .. numStacks - 1 /\ stackMap[k - 1] \in Entry
    BY <1>2 DEF TypeOK
  <2> QED
    BY <1>2, <2>1, SizeFacts, StacksAssumption DEF TypeOK, Stacked, EndBelow, Entry
<1> QED BY <1>1, <1>2

\* One more stack is given out.
LEMMA OneMore ==
  ASSUME Counted, NEW b, b \notin live, live' = live \cup {b}, held' = held + 1
  PROVE  Counted' /\ held' \in Nat
BY FS_AddElement, FS_CardinalityType DEF Counted

\* One stack less.
LEMMA OneLess ==
  ASSUME Counted, NEW b \in live, live' = live \ {b}, held' = held - 1
  PROVE  Counted' /\ held' \in Nat
<1>1. IsFiniteSet(live') /\ Cardinality(live') = Cardinality(live) - 1
  BY FS_RemoveElement DEF Counted
<1> QED BY <1>1, FS_CardinalityType DEF Counted
-----------------------------------------------------------------------------
\* The initial state has no stacks.
LEMMA Initially == Init => IndInv
<1> SUFFICES ASSUME Init PROVE IndInv OBVIOUS
<1>1. TypeOK
  BY StacksAssumption DEF Init, TypeOK, Entry
<1>2. MapKnowsStacks
  BY DEF Init, MapKnowsStacks
<1>3. Stacked
  BY StacksAssumption DEF Init, Stacked, EndBelow
<1>4. Counted
  BY FS_EmptySet DEF Init, Counted
<1> QED BY <1>1, <1>2, <1>3, <1>4 DEF IndInv

\* A call begins.
LEMMA AllocateStep ==
  ASSUME IndInv, NEW n \in Requests, Allocate(n) PROVE IndInv'
<1> USE DEF IndInv
<1>0. n = Size BY SizeFacts
<1>1. TypeOK'
  BY StacksAssumption DEF Allocate, TypeOK
<1>2. MapKnowsStacks'
  BY DEF Allocate, MapKnowsStacks, StackOf
<1>3. Stacked'
  BY <1>0, SizeFacts, StacksAssumption
     DEF Allocate, Stacked, TypeOK, EndBelow, Room, FreeFrom, Entry
<1>4. Counted'
  BY DEF Allocate, Counted
<1> QED BY <1>1, <1>2, <1>3, <1>4

\* The search goes on behind an entry in use.
LEMMA PassStep == ASSUME IndInv, Pass PROVE IndInv'
<1> USE DEF IndInv
<1>0. /\ i \in 0 .. numStacks - 1 /\ stackMap[i] \in Entry /\ stackMap[i].allocated
      /\ retStack' = EndBelow(i + 1) /\ i' = i + 1
  BY SizeFacts DEF Pass, Free, Entry, TypeOK, Stacked, EndBelow
<1>1. TypeOK'
  BY <1>0, EndsInReserved, StacksAssumption DEF Pass, TypeOK
<1>2. MapKnowsStacks'
  BY DEF Pass, MapKnowsStacks, StackOf
<1>3. Stacked'
  <2>1. \A k \in 0 .. i' - 1 : stackMap[k].allocated
    BY <1>0 DEF Pass, Stacked, TypeOK
  <2>2. Room(Size) \/ FreeFrom(i')
    BY <1>0 DEF Pass, Stacked, TypeOK, FreeFrom
  <2> QED
    BY <1>0, <2>1, <2>2 DEF Pass, Stacked, EndBelow, Room, FreeFrom
<1>4. Counted'
  BY DEF Pass, Counted
<1> QED BY <1>1, <1>2, <1>3, <1>4
-----------------------------------------------------------------------------
\* A free stack is given out again where it was.
LEMMA ReuseStep ==
  ASSUME IndInv, Reuse
  PROVE  /\ IndInv'
         /\ live' = live \cup {StackOf(i)}
         /\ held' = held + 1
         /\ i \in 0 .. numStacks - 1 /\ ~stackMap[i].allocated
<1> USE DEF IndInv
<1>0. /\ i \in 0 .. numStacks - 1 /\ stackMap[i] \in Entry /\ ~stackMap[i].allocated
      /\ stackMap[i].size = Size /\ stackMap[i].addr = retStack + Size
      /\ alignedBytes = Size /\ Size \in Nat \ {0} /\ retStack \in Nat
  BY SizeFacts, Asked, StacksAssumption DEF Reuse, Free, TypeOK, Stacked
<1>1. /\ stackMap' = [stackMap EXCEPT ![i] =
                        [allocated |-> TRUE, size |-> Size, addr |-> retStack + Size]]
      /\ live' = live \cup {[at |-> retStack, words |-> Size]}
  BY <1>0 DEF Reuse, Take
<1>h. held' = held + 1
  BY DEF Reuse, Take
<1>c. Counted' /\ held' \in Nat
  <2>1. \A k \in 0 .. numStacks - 1 : k # i => stackMap[k].addr # stackMap[i].addr
    BY <1>0 DEF TypeOK, Stacked, Entry
  <2>2. \A k \in 0 .. numStacks - 1 : k # i => StackOf(k).at # retStack
    BY <1>0, <2>1 DEF TypeOK, Stacked, StackOf, Entry
  <2>3. [at |-> retStack, words |-> Size] \notin live
    BY <1>0, <2>2 DEF MapKnowsStacks
  <2> QED BY <1>1, <1>h, <2>3, OneMore
<1>2. TypeOK'
  BY <1>0, <1>1, <1>c, SizeFacts, StacksAssumption DEF Reuse, Take, TypeOK, Entry
<1>3. /\ \A k \in 0 .. numStacks - 1 : k # i => stackMap'[k] = stackMap[k]
      /\ stackMap'[i] = [allocated |-> TRUE, size |-> Size, addr |-> retStack + Size]
      /\ \A k \in 0 .. numStacks - 1 :
           stackMap'[k].size = stackMap[k].size /\ stackMap'[k].addr = stackMap[k].addr
  <2>1. i \in DOMAIN stackMap /\ \A k \in 0 .. numStacks - 1 : k \in DOMAIN stackMap
    BY <1>0 DEF TypeOK
  <2>2. /\ \A k \in 0 .. numStacks - 1 : k # i => stackMap'[k] = stackMap[k]
        /\ stackMap'[i] = [allocated |-> TRUE, size |-> Size, addr |-> retStack + Size]
    BY <1>1, <2>1
  <2> QED BY <1>0, <2>2
<1>4. StackOf(i) = [at |-> retStack, words |-> Size]
  BY <1>0 DEF StackOf
<1>5. MapKnowsStacks'
  <2>1. \A k \in 0 .. numStacks - 1 : StackOf(k)' = StackOf(k)
    BY <1>3 DEF StackOf
  <2>2. {j \in 0 .. numStacks - 1 : stackMap[j].allocated}' =
        {j \in 0 .. numStacks - 1 : stackMap[j].allocated} \cup {i}
    BY <1>0, <1>3 DEF Reuse
  <2> QED
    BY <1>0, <1>1, <1>4, <2>1, <2>2 DEF MapKnowsStacks, Reuse
<1>6. Stacked'
  <2>1. \A k \in 0 .. numStacks : EndBelow(k)' = EndBelow(k)
    BY <1>3 DEF EndBelow, TypeOK
  <2>2. pc' = "idle" /\ UNCHANGED <<stackMapCount, numStacks, lastAddr>>
    BY DEF Reuse, Take
  <2>3. \A k \in numStacks .. stackMapCount - 1 : stackMap'[k] = stackMap[k]
    BY <1>0, <1>1 DEF TypeOK
  <2>4. \A k \in 0 .. numStacks - 1 :
          stackMap'[k].size = stackMap[k].size /\ stackMap'[k].addr = stackMap[k].addr
    BY <1>3
  <2>5. \A k \in 0 .. numStacks - 1 : EndBelow(k)' = EndBelow(k)
    BY <2>1 DEF TypeOK
  <2>6. EndBelow(numStacks)' = EndBelow(numStacks)
    <3>1. PICK n \in 0 .. numStacks : n = numStacks
      BY DEF TypeOK
    <3> QED BY <2>1, <2>2, <3>1 DEF EndBelow
  <2> QED BY <2>2, <2>3, <2>4, <2>5, <2>6 DEF Stacked
<1> QED BY <1>0, <1>1, <1>h, <1>c, <1>2, <1>4, <1>5, <1>6

\* A new stack lies above all others.
LEMMA ExtendStep ==
  ASSUME IndInv, Extend
  PROVE  /\ IndInv'
         /\ live' = live \cup {[at |-> lastAddr, words |-> Size]}
         /\ held' = held + 1
         /\ lastAddr + Size <= Limit
         /\ \A k \in 0 .. numStacks - 1 : stackMap[k].allocated
<1> USE DEF IndInv
<1>0. /\ i = numStacks /\ retStack = lastAddr /\ alignedBytes = Size
      /\ Size \in Nat \ {0} /\ lastAddr \in Nat /\ Room(Size)
      /\ \A k \in 0 .. numStacks - 1 : stackMap[k].allocated
  BY SizeFacts, Asked, StacksAssumption
     DEF Extend, TypeOK, Stacked, FreeFrom
<1> DEFINE new == [allocated |-> TRUE, size |-> Size, addr |-> lastAddr + Size]
<1>n. PICK n \in Nat : n = numStacks
  BY DEF TypeOK
<1>1. /\ stackMap' \in [0 .. stackMapCount' - 1 -> Entry]
      /\ stackMapCount' \in Nat /\ n < stackMapCount'
      /\ stackMap'[n] = new
      /\ \A k \in 0 .. n - 1 : stackMap'[k] = stackMap[k]
      /\ \A k \in n + 1 .. stackMapCount' - 1 : ~stackMap'[k].allocated
  <2>1. new \in Entry BY <1>0 DEF Entry
  <2>2. CASE n >= stackMapCount
    <3> DEFINE map == Grown(stackMapCount + MapGrowth)
    <3>1. /\ stackMapCount' = stackMapCount + MapGrowth
          /\ stackMap' = [map EXCEPT ![n] = new]
      BY <1>0, <1>n, <2>2 DEF Extend, Take
    <3>2. map \in [0 .. stackMapCount + MapGrowth - 1 -> Entry]
      BY StacksAssumption DEF Grown, TypeOK, Entry, Empty
    <3>3. n = stackMapCount /\ n \in 0 .. stackMapCount + MapGrowth - 1
      BY <1>n, <2>2, StacksAssumption DEF TypeOK
    <3>4. /\ \A k \in 0 .. n - 1 : map[k] = stackMap[k]
          /\ \A k \in n + 1 .. stackMapCount + MapGrowth - 1 : map[k] = Empty
      BY <1>n, <3>3, StacksAssumption DEF Grown
    <3>5. ~Empty.allocated
      BY DEF Empty
    <3> HIDE DEF map, new
    <3> QED
      BY <2>1, <3>1, <3>2, <3>3, <3>4, <3>5, StacksAssumption DEF TypeOK
  <2>3. CASE n < stackMapCount
    <3>1. /\ stackMapCount' = stackMapCount
          /\ stackMap' = [stackMap EXCEPT ![n] = new]
      <4>1. ~ (i >= stackMapCount)
        BY <1>0, <1>n, <2>3 DEF TypeOK
      <4> QED BY <1>0, <1>n, <4>1 DEF Extend, Take
    <3> HIDE DEF new
    <3>2. \A k \in n + 1 .. stackMapCount - 1 : ~stackMap[k].allocated
      BY <1>n DEF Stacked
    <3> QED BY <1>n, <2>1, <2>3, <3>1, <3>2 DEF TypeOK
  <2> QED BY <1>n, <2>2, <2>3 DEF TypeOK
<1>e. /\ stackMap'[n].size = Size /\ stackMap'[n].addr = lastAddr + Size
      /\ stackMap'[n].allocated
      /\ \A k \in 0 .. n - 1 : stackMap'[k] = stackMap[k]
      /\ \A k \in n + 1 .. stackMapCount' - 1 : ~stackMap'[k].allocated
  <2>1. new.size = Size /\ new.addr = lastAddr + Size /\ new.allocated
    OBVIOUS
  <2> HIDE DEF new
  <2> QED BY <1>1, <2>1
<1> HIDE DEF new
<1>2. /\ live' = live \cup {[at |-> lastAddr, words |-> Size]}
      /\ numStacks' = n + 1 /\ lastAddr' = lastAddr + Size /\ pc' = "idle"
      /\ alignedBytes' = Size /\ i' = i /\ retStack' = retStack /\ held' = held + 1
  BY <1>0, <1>n DEF Extend, Take
<1>c. Counted' /\ held' \in Nat
  <2>1. \A k \in 0 .. n - 1 : StackOf(k).at # lastAddr
    BY <1>0, <1>n DEF TypeOK, Stacked, StackOf, Entry
  <2>2. [at |-> lastAddr, words |-> Size] \notin live
    BY <1>n, <2>1 DEF MapKnowsStacks
  <2> QED BY <1>2, <2>2, OneMore
<1>3. TypeOK'
  <2>1. [at |-> lastAddr, words |-> Size] \in [at : Nat, words : Requests]
    BY <1>0, SizeFacts
  <2>2. numStacks' \in 0 .. stackMapCount' /\ i' \in 0 .. numStacks'
    BY <1>0, <1>n, <1>1, <1>2
  <2>3. lastAddr' \in Base .. Limit /\ retStack' \in Base .. Limit
    BY <1>0, <1>2, StacksAssumption DEF TypeOK, Room
  <2> QED
    BY <1>1, <1>2, <1>c, <2>1, <2>2, <2>3, SizeFacts DEF TypeOK
<1>4. MapKnowsStacks'
  <2>1. \A k \in 0 .. n - 1 : StackOf(k)' = StackOf(k)
    BY <1>e DEF StackOf
  <2>2. StackOf(n)' = [at |-> lastAddr, words |-> Size]
    BY <1>0, <1>e DEF StackOf
  <2>3. /\ \A k \in 0 .. n - 1 : stackMap'[k].allocated /\ stackMap[k].allocated
        /\ stackMap'[n].allocated
    BY <1>0, <1>n, <1>e
  <2>4. live = {StackOf(k) : k \in 0 .. n - 1}
    BY <1>n, <2>3 DEF MapKnowsStacks
  <2>5. {j \in 0 .. n : stackMap'[j].allocated} = (0 .. n - 1) \cup {n}
    BY <2>3
  <2>6. {j \in 0 .. numStacks' - 1 : stackMap'[j].allocated} = (0 .. n - 1) \cup {n}
    BY <1>2, <2>5
  <2>7. {StackOf(k)' : k \in (0 .. n - 1) \cup {n}} =
        {StackOf(k) : k \in 0 .. n - 1} \cup {StackOf(n)'}
    BY <2>1
  <2> QED BY <1>2, <2>2, <2>4, <2>6, <2>7 DEF MapKnowsStacks
<1>5. Stacked'
  <2>1. \A k \in 0 .. n : EndBelow(k)' = EndBelow(k)
    <3>1. TAKE k \in 0 .. n
    <3>2. k # 0 => k - 1 \in 0 .. n - 1
      OBVIOUS
    <3> QED BY <1>e, <3>2 DEF EndBelow
  <2>2. EndBelow(n) = lastAddr /\ EndBelow(n + 1)' = lastAddr + Size
    BY <1>n, <1>e DEF EndBelow, Stacked
  <2>3. \A k \in 0 .. n :
          /\ stackMap'[k].size = Size
          /\ stackMap'[k].addr = EndBelow(k)' + Size
          /\ Base + Size <= stackMap'[k].addr /\ stackMap'[k].addr <= lastAddr + Size
    <3>1. TAKE k \in 0 .. n
    <3>2. CASE k = n
      BY <1>0, <1>e, <2>1, <2>2, <3>2, StacksAssumption DEF TypeOK
    <3>3. CASE k \in 0 .. n - 1
      BY <1>0, <1>n, <1>e, <2>1, <3>3, StacksAssumption DEF Stacked, TypeOK, Entry
    <3> QED BY <3>2, <3>3
  <2>4. \A j, k \in 0 .. n : j < k => stackMap'[j].addr + Size <= stackMap'[k].addr
    <3>1. TAKE j, k \in 0 .. n
    <3>2. CASE k = n /\ j \in 0 .. n - 1
      BY <1>0, <1>n, <1>e, <3>2, StacksAssumption, SMTT(40) DEF Stacked, TypeOK, Entry
    <3>3. CASE k \in 0 .. n - 1
      BY <1>0, <1>n, <1>e, <3>3 DEF Stacked
    <3> QED BY <3>2, <3>3
  <2>5. \A k \in numStacks' .. stackMapCount' - 1 : ~stackMap'[k].allocated
    BY <1>1, <1>2
  <2> QED
    BY <1>2, <2>2, <2>3, <2>4, <2>5 DEF Stacked
<1> QED BY <1>0, <1>2, <1>c, <1>3, <1>4, <1>5 DEF Room
-----------------------------------------------------------------------------
\* A stack is freed: the map has one entry for it, and that entry is found.
LEMMA DeallocateStep ==
  ASSUME IndInv, NEW b \in live, Deallocate(b) PROVE IndInv'
<1> USE DEF IndInv
<1>0. PICK m \in 0 .. numStacks - 1 : stackMap[m].allocated /\ b = StackOf(m)
  BY DEF MapKnowsStacks
<1>1. \A k \in 0 .. numStacks - 1 :
        /\ stackMap[k] \in Entry /\ stackMap[k].size = Size
        /\ StackOf(k).at + StackOf(k).words = stackMap[k].addr
  BY SizeFacts DEF TypeOK, Stacked, StackOf, Entry
<1>2. \A j, k \in 0 .. numStacks - 1 : j # k => stackMap[j].addr # stackMap[k].addr
  BY <1>1, SizeFacts DEF TypeOK, Stacked, Entry
<1>3. stackMap' = [stackMap EXCEPT ![m].allocated = FALSE]
  <2> DEFINE found(k) == stackMap[k].addr = b.at + b.words /\ stackMap[k].allocated
  <2>1. m \in Entries /\ found(m)
    BY <1>0, <1>1 DEF Entries, TypeOK
  <2>2. \A k \in Entries : k # m => ~found(k)
    <3>1. TAKE k \in Entries
    <3>2. CASE k \in 0 .. numStacks - 1
      BY <1>0, <1>1, <1>2, <3>2
    <3>3. CASE k \in numStacks .. stackMapCount - 1
      BY <3>3 DEF Stacked
    <3> QED BY <3>2, <3>3 DEF Entries, TypeOK
  <2>3. \A k \in DOMAIN stackMap :
          (k \in Entries /\ found(k) /\ \A j \in Entries : j < k => ~found(j)) <=> k = m
    BY <2>1, <2>2 DEF Entries, TypeOK
  <2>4. stackMap' = [k \in DOMAIN stackMap |->
           IF k \in Entries /\ found(k) /\ (\A j \in Entries : j < k => ~found(j))
             THEN [stackMap[k] EXCEPT !.allocated = FALSE] ELSE stackMap[k]]
    BY DEF Deallocate
  <2> QED
    BY <2>1, <2>3, <2>4 DEF TypeOK
<1>4. /\ live' = live \ {b} /\ held' = held - 1 /\ pc = "idle"
      /\ UNCHANGED <<stackMapCount, numStacks, lastAddr, pc, i, retStack, alignedBytes>>
  BY DEF Deallocate, local
<1>5. /\ \A k \in 0 .. stackMapCount - 1 : k # m => stackMap'[k] = stackMap[k]
      /\ stackMap'[m].size = stackMap[m].size /\ stackMap'[m].addr = stackMap[m].addr
      /\ ~stackMap'[m].allocated
  BY <1>0, <1>1, <1>3 DEF TypeOK, Entry
<1>c. Counted' /\ held' \in Nat
  BY <1>4, OneLess
<1>6. TypeOK'
  <2>1. [stackMap[m] EXCEPT !.allocated = FALSE] \in Entry
    BY <1>1 DEF Entry
  <2> QED BY <1>3, <1>4, <1>c, <2>1 DEF TypeOK
<1>7. MapKnowsStacks'
  <2>1. \A k \in 0 .. numStacks - 1 : StackOf(k)' = StackOf(k)
    BY <1>5 DEF StackOf, TypeOK
  <2>2. {j \in 0 .. numStacks - 1 : stackMap'[j].allocated} =
        {j \in 0 .. numStacks - 1 : stackMap[j].allocated} \ {m}
    BY <1>5 DEF TypeOK
  <2>3. \A k \in 0 .. numStacks - 1 : k # m => StackOf(k) # b
    BY <1>0, <1>1, <1>2
  <2> QED BY <1>0, <1>4, <2>1, <2>2, <2>3 DEF MapKnowsStacks
<1>8. Stacked'
  <2>1. \A k \in 0 .. numStacks - 1 :
          stackMap'[k].size = stackMap[k].size /\ stackMap'[k].addr = stackMap[k].addr
    BY <1>5 DEF TypeOK
  <2>2. \A k \in 0 .. numStacks : EndBelow(k)' = EndBelow(k)
    BY <2>1 DEF EndBelow, TypeOK
  <2>3. \A k \in numStacks .. stackMapCount - 1 : ~stackMap'[k].allocated
    BY <1>5 DEF Stacked, TypeOK
  <2> QED BY <1>4, <2>1, <2>2, <2>3 DEF Stacked, TypeOK
<1> QED BY <1>c, <1>6, <1>7, <1>8
-----------------------------------------------------------------------------
\* The invariant behind all that follows.
THEOREM Inductive == Spec => []IndInv
<1>1. Init => IndInv
  BY Initially
<1>2. IndInv /\ [Next]_vars => IndInv'
  <2>1. SUFFICES ASSUME IndInv, [Next]_vars PROVE IndInv'
    OBVIOUS
  <2>2. CASE \E n \in Requests : Allocate(n)
    BY <2>1, <2>2, AllocateStep
  <2>3. CASE Pass
    BY <2>1, <2>3, PassStep
  <2>4. CASE Reuse
    BY <2>1, <2>4, ReuseStep
  <2>5. CASE Extend
    BY <2>1, <2>5, ExtendStep
  <2>6. CASE \E b \in live : Deallocate(b)
    BY <2>1, <2>6, DeallocateStep
  <2>7. CASE UNCHANGED vars
    BY <2>1, <2>7
       DEF vars, local, IndInv, TypeOK, MapKnowsStacks, StackOf, Stacked, EndBelow,
           Room, FreeFrom, Counted
  <2> QED BY <2>1, <2>2, <2>3, <2>4, <2>5, <2>6, <2>7 DEF Next
<1> QED BY <1>1, <1>2, PTL DEF Spec

\* Every variable keeps its type: the search never leaves the map.
THEOREM TypeCorrect == Spec => []TypeOK
<1>1. IndInv => TypeOK
  BY DEF IndInv
<1> QED BY <1>1, Inductive, PTL

\* The map has an entry for every stack that is in use, whatever was freed,
\* given out again or copied to a larger map before (_allocate, _deallocate).
THEOREM MapIsRight == Spec => []MapKnowsStacks
<1>1. IndInv => MapKnowsStacks
  BY DEF IndInv
<1> QED BY <1>1, Inductive, PTL

\* _allocate reserves addresses only if no stack is free.
THEOREM FreedStacksAreReused == Spec => ReusesFreedStacks
<1>1. IndInv /\ [Next]_vars =>
        [lastAddr' # lastAddr => \A k \in 0 .. numStacks - 1 : stackMap[k].allocated]_vars
  BY ExtendStep DEF Next, Allocate, Pass, Reuse, Deallocate, vars
<1> QED BY <1>1, Inductive, PTL DEF Spec, ReusesFreedStacks

\* The stack a call gives out, [at, at + Size), shares nothing with the others.
LEMMA Given ==
  ASSUME IndInv, NEW at \in Nat, Base <= at, at + Size <= Limit,
         live' = live \cup {[at |-> at, words |-> Size]}, held' = held + 1,
         \A c \in live : c.at + Size <= at \/ at + Size <= c.at
  PROVE  Abstract!Allocate
<1> DEFINE b == [at |-> at, words |-> Size]
<1>1. \A c \in live : c \in [at : Nat, words : Nat] /\ c.words = Size
  BY SizeFacts DEF IndInv, TypeOK
<1>2. b.at = at /\ b.words = Size
  OBVIOUS
<1>3. b \in live' \ live
  BY <1>2, SizeFacts
<1>4. Abstract!Extent(b) \subseteq Base .. Limit - 1
  BY <1>2, SizeFacts, StacksAssumption DEF Abstract!Extent
<1>5. \A c \in live : Abstract!Disjoint(b, c)
  BY <1>1, <1>2, SizeFacts DEF Abstract!Disjoint, Abstract!Extent
<1> HIDE DEF b
<1>6. live' = live \cup {b}
  BY DEF b
<1> QED BY <1>3, <1>4, <1>5, <1>6 DEF Abstract!Allocate

\* The stack allocator is an Allocator: no two processes share a word of stack
\* (_allocate, _deallocate).
THEOREM Implements == Spec => AllocatorSpec
<1>1. Init => Abstract!Init
  BY DEF Init, Abstract!Init
<1>2. IndInv /\ [Next]_vars => [Abstract!Allocate \/ Abstract!Deallocate]_<<live, held>>
  <2>1. SUFFICES ASSUME IndInv, [Next]_vars
                 PROVE  Abstract!Allocate \/ Abstract!Deallocate \/ UNCHANGED <<live, held>>
    OBVIOUS
  <2>2. CASE Reuse
    <3>1. /\ live' = live \cup {StackOf(i)} /\ held' = held + 1
          /\ i \in 0 .. numStacks - 1 /\ ~stackMap[i].allocated
      BY <2>1, <2>2, ReuseStep
    <3>2. \A k \in 0 .. numStacks - 1 :
            /\ stackMap[k] \in Entry /\ stackMap[k].size = Size
            /\ Base + Size <= stackMap[k].addr /\ stackMap[k].addr <= lastAddr
            /\ StackOf(k) = [at |-> stackMap[k].addr - Size, words |-> Size]
      BY <2>1 DEF IndInv, TypeOK, Stacked, StackOf
    <3>3. \A c \in live : \E k \in 0 .. numStacks - 1 : k # i /\ c = StackOf(k)
      BY <2>1, <3>1 DEF IndInv, MapKnowsStacks
    <3>4. \A k \in 0 .. numStacks - 1 : k # i =>
            \/ StackOf(k).at + Size <= StackOf(i).at
            \/ StackOf(i).at + Size <= StackOf(k).at
      <4>1. TAKE k \in 0 .. numStacks - 1
      <4>2. HAVE k # i
      <4>3. stackMap[k].addr + Size <= stackMap[i].addr \/ stackMap[i].addr + Size <= stackMap[k].addr
        BY <2>1, <3>1, <4>2 DEF IndInv, Stacked
      <4> QED BY <3>1, <3>2, <4>3, SizeFacts DEF Entry
    <3> DEFINE at == StackOf(i).at
    <3>5. /\ at \in Nat /\ Base <= at /\ at + Size <= Limit
          /\ StackOf(i) = [at |-> at, words |-> Size]
      BY <2>1, <3>1, <3>2, SizeFacts, StacksAssumption DEF IndInv, TypeOK, Entry
    <3>6. \A c \in live : c.at + Size <= at \/ at + Size <= c.at
      BY <3>3, <3>4
    <3> HIDE DEF at
    <3> QED BY <2>1, <3>1, <3>5, <3>6, Given
  <2>3. CASE Extend
    <3>1. /\ live' = live \cup {[at |-> lastAddr, words |-> Size]}
          /\ held' = held + 1 /\ lastAddr + Size <= Limit
      BY <2>1, <2>3, ExtendStep
    <3>2. lastAddr \in Nat /\ Base <= lastAddr
      BY <2>1, StacksAssumption DEF IndInv, TypeOK
    <3>3. \A c \in live : c.at + Size <= lastAddr
      <4>1. TAKE c \in live
      <4>2. PICK k \in 0 .. numStacks - 1 : c = StackOf(k)
        BY <2>1 DEF IndInv, MapKnowsStacks
      <4>3. stackMap[k] \in Entry /\ stackMap[k].size = Size /\ stackMap[k].addr <= lastAddr
        BY <2>1 DEF IndInv, TypeOK, Stacked
      <4> QED BY <3>2, <4>2, <4>3, SizeFacts DEF StackOf, Entry
    <3> QED BY <2>1, <3>1, <3>2, <3>3, Given
  <2>4. CASE \E b \in live : Deallocate(b)
    BY <2>4 DEF Deallocate, Abstract!Deallocate
  <2>5. CASE (\E n \in Requests : Allocate(n)) \/ Pass \/ UNCHANGED vars
    BY <2>5 DEF Allocate, Pass, vars
  <2> QED BY <2>1, <2>2, <2>3, <2>4, <2>5 DEF Next
<1> QED BY <1>1, <1>2, Inductive, PTL DEF Spec, AllocatorSpec, Abstract!Spec
=============================================================================

---------------------------- MODULE HeapAllocator ----------------------------
(***************************************************************************)
(* The kernel heap (vmem_heap_allocator.cpp), behind operator new and      *)
(* delete.  Memory is a row of 8-byte words.  The heap is a row of chunks, *)
(* each with a header word and a footer word that hold the same            *)
(* _mem_chunk; a new chunk is taken from the first free chunk that is      *)
(* large enough, or after the last.                                        *)
(*                                                                         *)
(* Processes hold the processor until they yield, so only one of them is   *)
(* in the heap at a time; but an interrupt handler that calls delete (the  *)
(* keyboard handler does, in LLRemove) can come between any two of its     *)
(* steps.  That is Spec, the code as it is.  Nothing protects the row of   *)
(* chunks then, and there is a place in every call where the handler       *)
(* breaks it.  ApartSpec leaves out just these: it is where the properties *)
(* hold.                                                                   *)
(*                                                                         *)
(* A word that was never written reads as a free chunk of size 0.          *)
(***************************************************************************)
EXTENDS Integers

CONSTANTS
  Base,          \* the word of _firstAddr
  Limit,         \* bound: the heap never grows beyond this word
  Requests,      \* how many words callers ask for
  Permanent,     \* blocks that are never freed
  Garbage        \* what callers may write into a word they own

Words == 0 .. Limit
Control ==
  {"idle",    \* no process is in the heap
   "search",  \* in the loop of _allocate
   "header",  \* before IsAllocated = true
   "footer",  \* before the header is copied to the footer
   "merge"}   \* in _deallocate, before the previous chunk is looked at
Chunk == [used : BOOLEAN, size : Nat]

ASSUME HeapAssumption ==
  /\ Base \in Nat /\ Limit \in Nat /\ Base + 4 <= Limit
  /\ Requests \subseteq Nat \ {0}
  /\ Garbage \in Chunk

VARIABLES
  mem,       \* each word, read as a _mem_chunk: IsAllocated and Size
  lastAddr,  \* _lastAddr: two words beyond the end of the last chunk
  live,      \* the blocks callers own: payload address, words asked for
  held,      \* how many blocks they were given and have not freed
  pc,        \* where the process in the heap is
  cur,       \* curChunk and retChunk of _allocate, firstChunk of _deallocate
  need,      \* alignedBytes of _allocate, the old Size in _deallocate
  words,     \* bytes, the argument of _allocate
  freed      \* history: a handler has freed something during this search

local == <<pc, cur, need, words>>
vars  == <<mem, lastAddr, live, held, local, freed>>

TypeOK ==
  /\ mem \in [Words -> [used : BOOLEAN, size : 0 .. Limit]]
  /\ lastAddr \in Words
  /\ live \subseteq [at : Words, words : Requests]
  /\ held \in Nat
  /\ pc \in Control
  /\ cur \in Words /\ need \in Words /\ words \in Requests \cup {0}
  /\ freed \in BOOLEAN

\* The first chunk is one that is never freed; its footer is never written.
Init ==
  /\ mem = [a \in Words |-> IF a = Base THEN [used |-> TRUE, size |-> 2]
                                        ELSE [used |-> FALSE, size |-> 0]]
  /\ lastAddr = Base + 4
  /\ live = {} /\ held = 0
  /\ pc = "idle" /\ cur = Base /\ need = 0 /\ words = 0 /\ freed = FALSE
-----------------------------------------------------------------------------
(* _allocate. *)

\* Fault: a used chunk that is large enough is taken.
MemoryFits_Used(chunk, size) == chunk.size = 0 \/ chunk.size >= size

\* Fault: memory beyond the last chunk does not count as free.
MemoryFits_NeverFresh(chunk, size) == ~chunk.used /\ chunk.size >= size

\* Fault: only memory beyond the last chunk counts as free.
MemoryFits_OnlyFresh(chunk, size) == ~chunk.used /\ chunk.size = 0

MemoryFits(chunk, size) == ~chunk.used /\ (chunk.size = 0 \/ chunk.size >= size)

\* A header and a footer are added to what the caller asks for.
Allocate(n) ==
  /\ pc = "idle"
  /\ lastAddr + n + 2 <= Limit
  /\ pc' = "search"
  /\ cur' = Base
  /\ need' = n + 2
  /\ words' = n
  /\ UNCHANGED <<mem, lastAddr, live, held, freed>>

\* while (!_memoryFits(...)): on to the next chunk.
Skip ==
  /\ pc = "search"
  /\ ~MemoryFits(mem[cur], need)
  /\ cur' = cur + mem[cur].size
  /\ UNCHANGED <<mem, lastAddr, live, held, pc, need, words, freed>>

\* Fault: the rest of a larger chunk is forgotten.
Take_Shrinks ==
  /\ pc = "search"
  /\ MemoryFits(mem[cur], need)
  /\ lastAddr' = IF cur + need >= lastAddr THEN lastAddr + need ELSE lastAddr
  /\ pc' = "header" /\ freed' = FALSE
  /\ UNCHANGED <<mem, live, held, cur, need, words>>

\* A chunk that fits: beyond the last one the heap grows, and a chunk that
\* is too large is taken whole.
Take ==
  /\ pc = "search"
  /\ MemoryFits(mem[cur], need)
  /\ IF cur + need >= lastAddr
       THEN /\ lastAddr' = lastAddr + need
            /\ cur' = cur + mem[cur].size
            /\ UNCHANGED need
       ELSE /\ need' = IF mem[cur].size > need THEN mem[cur].size ELSE need
            /\ UNCHANGED <<lastAddr, cur>>
  /\ pc' = "header" /\ freed' = FALSE
  /\ UNCHANGED <<mem, live, held, words>>

WriteHeader ==
  /\ pc = "header"
  /\ mem' = [mem EXCEPT ![cur] = [used |-> TRUE, size |-> need]]
  /\ pc' = "footer"
  /\ UNCHANGED <<lastAddr, live, held, cur, need, words, freed>>

\* Fault: the footer is a word too far.
WriteFooter_Past ==
  /\ pc = "footer"
  /\ mem' = [mem EXCEPT ![cur + need] = mem[cur]]
  /\ live' = live \cup {[at |-> cur + 1, words |-> words]} /\ held' = held + 1
  /\ pc' = "idle"
  /\ UNCHANGED <<lastAddr, cur, need, words, freed>>

\* The header is copied to the footer, and the block is the caller's.
WriteFooter ==
  /\ pc = "footer"
  /\ mem' = [mem EXCEPT ![cur + need - 1] = mem[cur]]
  /\ live' = live \cup {[at |-> cur + 1, words |-> words]} /\ held' = held + 1
  /\ pc' = "idle"
  /\ UNCHANGED <<lastAddr, cur, need, words, freed>>
-----------------------------------------------------------------------------
(* _deallocate. *)

\* The chunk at f is marked as free, in its header and its footer.
Released(m, f) ==
  LET free == [used |-> FALSE, size |-> m[f].size]
  IN  [m EXCEPT ![f] = free, ![f + m[f].size - 1] = free]

\* Fault: the header of the previous chunk is not updated.
Joined_FooterOnly(m, f, footer) ==
  LET prev == m[f - 1]
      both == [used |-> FALSE, size |-> prev.size + m[f].size]
  IN  IF prev.used THEN m ELSE [m EXCEPT ![f - 1] = both, ![footer] = both]

\* If the word before f, the footer of the previous chunk, says that it is
\* free, the two become one: its old footer, its header and the footer of f
\* get the new size.
Joined(m, f, footer) ==
  LET prev == m[f - 1]
      both == [used |-> FALSE, size |-> prev.size + m[f].size]
  IN  IF prev.used THEN m
      ELSE [m EXCEPT ![f - 1] = both, ![f - prev.size] = both, ![footer] = both]

Deallocate(b) ==
  /\ pc = "idle"
  /\ b.at \notin Permanent
  /\ mem' = Released(mem, b.at - 1)
  /\ live' = live \ {b} /\ held' = held - 1
  /\ pc' = "merge"
  /\ cur' = b.at - 1
  /\ need' = mem[b.at - 1].size
  /\ UNCHANGED <<lastAddr, words, freed>>

Merge ==
  /\ pc = "merge"
  /\ mem' = Joined(mem, cur, cur + need - 1)
  /\ pc' = "idle"
  /\ UNCHANGED <<lastAddr, live, held, cur, need, words, freed>>

\* All of _deallocate for the chunk at f.
Freed(m, f) == Joined(Released(m, f), f, f + m[f].size - 1)

\* An interrupt handler frees a block; nothing interrupts the handler.
HandlerDeallocate(b) ==
  /\ b.at \notin Permanent
  /\ mem' = Freed(mem, b.at - 1)
  /\ live' = live \ {b} /\ held' = held - 1
  /\ freed' = (freed \/ pc = "search")
  /\ UNCHANGED <<lastAddr, local>>

\* What the interrupted call does not notice: the chunk at which the search is
\* is not joined with the one before it, and the chunk that is being taken or
\* released is not the one before the freed chunk.
Apart(b) ==
  \/ pc = "idle"
  \/ pc = "search" /\ (b.at - 1 = cur => mem[cur - 1].used)
  \/ pc \in {"header", "footer", "merge"} /\ b.at - 1 # cur + need
-----------------------------------------------------------------------------
\* A caller writes to a block it owns.
Write(b) ==
  /\ pc = "idle"
  /\ mem' = [a \in Words |-> IF a \in b.at .. b.at + b.words - 1 THEN Garbage ELSE mem[a]]
  /\ UNCHANGED <<lastAddr, live, held, local, freed>>

\* The code of _allocate and _deallocate.
Execute == Skip \/ Take \/ WriteHeader \/ WriteFooter \/ Merge

\* What processes do.
Process ==
  \/ \E n \in Requests : Allocate(n)
  \/ Execute
  \/ \E b \in live : Deallocate(b) \/ Write(b)

Next == Process \/ \E b \in live : HandlerDeallocate(b)

Spec == Init /\ [][Next]_vars

\* The handler keeps apart from the call it interrupts.
ApartNext == Process \/ \E b \in live : Apart(b) /\ HandlerDeallocate(b)

ApartSpec == Init /\ [][ApartNext]_vars

\* The processor goes on executing.
FairSpec == ApartSpec /\ WF_vars(Execute)
-----------------------------------------------------------------------------
(* Properties. *)

\* Where the last chunk ends.
End == lastAddr - 2

\* The chunks that the search loop passes, and the word where it leaves them.
Chunks ==
  LET from[a \in Words] ==
        {a} \cup IF a >= End \/ mem[a].size = 0 \/ a + mem[a].size > Limit
                   THEN {} ELSE from[a + mem[a].size]
  IN  from[Base]

\* The row of chunks stays whole: the search always arrives at the end of the
\* last chunk, and what a free and what a used chunk is, is what the callers
\* own.
ChunksFillTheHeap ==
  pc = "idle" =>
    /\ End \in Chunks /\ mem[End] = [used |-> FALSE, size |-> 0]
    /\ {a \in Chunks : mem[a].used} = {Base} \cup {b.at - 1 : b \in live}
    /\ \A b \in live : mem[b.at - 1].size >= b.words + 2

\* "Update the previous chunk's header chunk to match the changes to the
\* footer chunk" (vmem_heap_allocator.cpp:82): headers and footers agree,
\* which is what _deallocate relies on to find the previous chunk.
HeadersMatchFooters ==
  pc = "idle" =>
    \A a \in Chunks \ {Base, End} : mem[a + mem[a].size - 1] = mem[a]

\* What a caller owns, nobody else has been given, and no _mem_chunk is
\* written there.
Abstract == INSTANCE Allocator WITH Region <- Base + 3 .. Limit, blocks <- live
AllocatorSpec == Abstract!Spec

\* "Free the first and allocate something new to make sure it fits there"
\* (kernel.cpp:461): the heap grows only when no free chunk is large enough,
\* unless a handler freed one behind the back of the search.
GrowsOnlyWhenFull ==
  [][lastAddr' # lastAddr /\ ~freed
       => \A a \in Chunks \ {End} : mem[a].used \/ mem[a].size < need]_vars

\* Every call returns: the search loop of _allocate ends.
CallsReturn == pc # "idle" ~> pc = "idle"
=============================================================================

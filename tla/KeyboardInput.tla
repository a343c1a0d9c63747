---------------------------- MODULE KeyboardInput ----------------------------
(***************************************************************************)
(* Waiting for a key: PS2KeyboardDriver::GetNextVirtualKey and Interrupt   *)
(* (drvr_ps2kybd.cpp), the Queue of scan codes between them (queue.h), and *)
(* the ProcessBlocker the driver inherits (process_blocker.cpp) with its   *)
(* linked list (linked_list.h).                                            *)
(*                                                                         *)
(* A reader runs with interrupts enabled, so the keyboard interrupt comes  *)
(* between any two of its steps, in the middle of LLInsertLast too; the    *)
(* interrupt handler itself is not interrupted.  Of the scheduler the      *)
(* module uses what CooperativeScheduler promises: at a yield the          *)
(* processor goes to some process that is not blocked.  NoProc and the     *)
(* snakes are Other: they read no keys and are always ready.               *)
(*                                                                         *)
(* A deleted list node keeps what it held until operator new hands it out  *)
(* again, which may be at any time or never.                               *)
(***************************************************************************)
EXTENDS Integers

CONSTANTS
  Readers,   \* the processes that call GetNextVirtualKey; here the terminal
  Other,     \* everybody else
  Null,      \* nullptr
  Count,     \* _count, the slots of the queue; 32 in drvr_ps2kybd.h
  Slack,     \* assumption on the typist: at most Slack codes wait to be read
  MaxCodes,  \* bound: the keyboard sends at most MaxCodes codes
  Prefixes,  \* which of them are 0xE0, "more codes to follow"
  Nodes      \* bound: the places operator new has for list nodes

ASSUME QueueAssumption ==
  /\ Count \in Nat \ {0} /\ Slack \in Nat \ {0} /\ MaxCodes \in Nat
  /\ Prefixes \subseteq 1 .. MaxCodes
ASSUME NamesAssumption == Other \notin Readers /\ Null \notin Nodes \cup Readers

VARIABLES
  objs,        \* Queue::_objs; the codes are numbered in the order of arrival
  head, tail,  \* Queue::_head, _tail
  sent,        \* how many codes the keyboard has sent
  popped,      \* how many codes the readers have popped
  isBlocked,   \* context_t::IsBlocked of each reader
  first,       \* ProcessBlocker::_blockedProcs_p
  link, data,  \* ll_node_t::Next and Data of each node
  allocated,   \* the nodes operator new has given out
  cpu,         \* who has the processor
  pc,          \* where each reader is
  node, walk,  \* newNode and curNode of a reader in LLInsertLast
  irq          \* the interrupt in progress: prev and cur of LLRemove, or Null

queue == <<objs, head, tail, sent, popped>>
list  == <<first, link, data, allocated, node, walk>>
vars  == <<objs, head, tail, sent, popped, isBlocked, first, link, data,
           allocated, cpu, pc, node, walk, irq>>

Control ==
  {"idle",       \* outside GetNextVirtualKey
   "test",       \* at its entry, before IsEmpty
   "blocking",   \* IsEmpty was true: in Block, before IsBlocked = true
   "inserting",  \* before the new list node is made
   "walking",    \* in the search loop of LLInsertLast
   "yielding",   \* before ProcessYield
   "yielded",    \* somebody else got the processor
   "popping"}    \* before Pop

TypeOK ==
  /\ objs \in [0 .. Count - 1 -> 0 .. MaxCodes]
  /\ head \in 0 .. Count - 1 /\ tail \in 0 .. Count - 1
  /\ sent \in 0 .. MaxCodes /\ popped \in Nat
  /\ isBlocked \in [Readers -> BOOLEAN]
  /\ first \in Nodes \cup {Null}
  /\ link \in [Nodes -> Nodes \cup {Null}] /\ data \in [Nodes -> Readers \cup {Null}]
  /\ allocated \subseteq Nodes
  /\ cpu \in Readers \cup {Other}
  /\ pc \in [Readers -> Control]
  /\ {node, walk} \subseteq [Readers -> Nodes \cup {Null}]
  /\ irq \in [prev : Nodes \cup {Null}, cur : Nodes] \cup {Null}

Init ==
  /\ objs = [i \in 0 .. Count - 1 |-> 0]
  /\ head = 0 /\ tail = 0 /\ sent = 0 /\ popped = 0
  /\ isBlocked = [p \in Readers |-> FALSE]
  /\ first = Null
  /\ link = [n \in Nodes |-> Null] /\ data = [n \in Nodes |-> Null]
  /\ allocated = {}
  /\ cpu = Other
  /\ pc = [p \in Readers |-> "idle"]
  /\ node = [p \in Readers |-> Null] /\ walk = [p \in Readers |-> Null]
  /\ irq = Null
-----------------------------------------------------------------------------
(* Queue. *)

IsEmpty == head = tail

\* Fault: the index does not go back to 0.
NextSlot_NoWrap(i) == i + 1

\* _head++ or _tail++, back to 0 at _count.
NextSlot(i) == IF i + 1 = Count THEN 0 ELSE i + 1

\* Fault: the index is advanced before the code is stored.
Push_AfterAdvance(code) ==
  /\ objs' = [objs EXCEPT ![NextSlot(tail)] = code]
  /\ tail' = NextSlot(tail)

\* Push does not look whether the queue is full.
Push(code) ==
  /\ objs' = [objs EXCEPT ![tail] = code]
  /\ tail' = NextSlot(tail)
-----------------------------------------------------------------------------
(* The keyboard interrupt. *)

\* Fault: the interrupt wakes nobody.
UnblockFirst_Nothing == UNCHANGED <<isBlocked, irq>>

\* ProcessBlocker::UnblockFirst: the process at the head is unblocked, and
\* LLRemove starts to search the list for it.
UnblockFirst ==
  IF first = Null
    THEN UNCHANGED <<isBlocked, irq>>
    ELSE /\ isBlocked' = [isBlocked EXCEPT ![data[first]] = FALSE]
         /\ irq' = [prev |-> Null, cur |-> first]

\* PS2KeyboardDriver::Interrupt: store the code, wake a waiting process.
Interrupt ==
  /\ irq = Null
  /\ sent < MaxCodes /\ sent - popped < Slack
  /\ sent' = sent + 1
  /\ Push(sent + 1)
  /\ UnblockFirst
  /\ UNCHANGED <<head, popped, list, cpu, pc>>

\* One turn of the loop of LLRemove.  Every node of the process is unlinked
\* and deleted, except the head, which was passed by value.  The loop goes on
\* through the Next of a node it has deleted.
LLRemove ==
  /\ irq # Null
  /\ LET found == data[irq.cur] = data[first] /\ irq.prev # Null
         next  == link[irq.cur]
     IN  /\ link' = IF found THEN [link EXCEPT ![irq.prev] = next] ELSE link
         /\ allocated' = IF found THEN allocated \ {irq.cur} ELSE allocated
         /\ irq' = IF link'[irq.cur] = Null THEN Null
                   ELSE [prev |-> irq.cur, cur |-> link'[irq.cur]]
  /\ UNCHANGED <<queue, isBlocked, first, data, node, walk, cpu, pc>>
-----------------------------------------------------------------------------
(* GetNextVirtualKey. *)

\* The next step of p is the one at label from, and leads to label to.
Step(p, from, to) ==
  /\ irq = Null
  /\ cpu = p /\ pc[p] = from
  /\ pc' = [pc EXCEPT ![p] = to]

Call(p) ==
  Step(p, "idle", "test") /\ UNCHANGED <<queue, isBlocked, list, cpu, irq>>

\* if (_kbBuffer.IsEmpty())
Test(p) ==
  /\ Step(p, "test", IF IsEmpty THEN "blocking" ELSE "popping")
  /\ UNCHANGED <<queue, isBlocked, list, cpu, irq>>

\* ProcessBlocker::Block: IsBlocked = true ...
SetBlocked(p) ==
  /\ Step(p, "blocking", "inserting")
  /\ isBlocked' = [isBlocked EXCEPT ![p] = TRUE]
  /\ UNCHANGED <<queue, list, cpu, irq>>

\* ... a node is made, which becomes the head of an empty list, and is taken
\* to the end of another ...
NewNode(p) ==
  /\ Step(p, "inserting", IF first = Null THEN "yielding" ELSE "walking")
  /\ \E n \in Nodes \ allocated :
       /\ allocated' = allocated \cup {n}
       /\ link' = [link EXCEPT ![n] = Null]
       /\ data' = [data EXCEPT ![n] = p]
       /\ node' = [node EXCEPT ![p] = n]
       /\ first' = IF first = Null THEN n ELSE first
  /\ walk' = [walk EXCEPT ![p] = first]
  /\ UNCHANGED <<queue, isBlocked, cpu, irq>>

\* ... by LLInsertLast: a turn of its loop ...
Walk(p) ==
  /\ Step(p, "walking", "walking")
  /\ link[walk[p]] # Null
  /\ walk' = [walk EXCEPT ![p] = link[walk[p]]]
  /\ UNCHANGED <<queue, isBlocked, first, link, data, allocated, node, cpu, irq>>

\* ... and curNode->Next = newNode ...
AppendNode(p) ==
  /\ Step(p, "walking", "yielding")
  /\ link[walk[p]] = Null
  /\ link' = [link EXCEPT ![walk[p]] = node[p]]
  /\ UNCHANGED <<queue, isBlocked, first, data, allocated, node, walk, cpu, irq>>

\* ... and ProcessYield.
Yield(p) ==
  /\ Step(p, "yielding", "yielded")
  /\ cpu' \in {q \in Readers : ~isBlocked[q]} \cup {Other}
  /\ UNCHANGED <<queue, isBlocked, list, irq>>

\* The reader runs again and leaves Block.
Return(p) ==
  Step(p, "yielded", "popping") /\ UNCHANGED <<queue, isBlocked, list, cpu, irq>>

\* Pop, whatever is there.  After a prefix GetNextVirtualKey calls itself;
\* otherwise the code is translated and returned.
Pop(p) ==
  /\ Step(p, "popping", IF objs[head] \in Prefixes THEN "test" ELSE "idle")
  /\ head' = NextSlot(head)
  /\ popped' = popped + 1
  /\ UNCHANGED <<objs, tail, sent, isBlocked, list, cpu, irq>>

\* The terminal yields between two calls when it starts a process.
YieldIdle(p) ==
  /\ Step(p, "idle", "test")
  /\ cpu' = Other
  /\ UNCHANGED <<queue, isBlocked, list, irq>>

\* Somebody else yields, and p gets the processor.
Resume(p) ==
  /\ irq = Null
  /\ cpu = Other
  /\ ~isBlocked[p]
  /\ cpu' = p
  /\ UNCHANGED <<queue, isBlocked, list, pc, irq>>

\* The code a reader executes.
Execute(p) ==
  \/ Call(p) \/ Test(p) \/ SetBlocked(p) \/ NewNode(p) \/ Walk(p) \/ AppendNode(p)
  \/ Yield(p) \/ Return(p) \/ Pop(p) \/ YieldIdle(p)

Next ==
  \/ Interrupt \/ LLRemove
  \/ \E p \in Readers : Execute(p) \/ Resume(p)

\* The processor goes on with the handler or the reader it executes, and a
\* reader that is not blocked gets the processor (ReadyRuns of
\* ProcessManager).  No key need ever come.
Fairness ==
  /\ WF_vars(LLRemove)
  /\ \A p \in Readers : WF_vars(Execute(p)) /\ WF_vars(Resume(p))

Spec == Init /\ [][Next]_vars
FairSpec == Spec /\ Fairness
-----------------------------------------------------------------------------
(* Properties. *)

\* Codes are popped in the order the keyboard sent them, each once, and never
\* from an empty queue, though GetNextVirtualKey does not test again after
\* Block (drvr_ps2kybd.cpp:151-157): what Pop is about to return is the code
\* after the last one returned.
PopsInOrder ==
  \A p \in Readers : pc[p] = "popping" => popped < sent /\ objs[head] = popped + 1

\* A wakeup that comes between the test and the yield is lost, but the next
\* one is not: what was sent before the reader slept is returned once another
\* code comes.  This holds as long as the list lets the handler and the reader
\* out of their loops (InterruptReturns).
WokenByNextKey ==
  ([]<>(irq = Null) /\ \A p \in Readers : []<>(pc[p] # "walking"))
  => \A p \in Readers, n \in 1 .. MaxCodes :
       (pc[p] = "yielded" /\ sent = n /\ <>(sent > n)) ~> popped >= n

\* "Waits until a virtual key is available, then returns it"
\* (drvr_ps2kybd.h:37): a key that waits is returned.
AvailableKeyIsReturned == \A n \in 1 .. MaxCodes : sent >= n ~> popped >= n

\* "Unblock processes waiting on this" (drvr_ps2kybd.cpp:143): the interrupt
\* does so and returns.  It need not: LLRemove deletes a stale node, of a
\* process that was woken between SetBlocked and AppendNode, and unlinks the
\* next one from that deleted node; the list then points at freed memory, and
\* the node that new makes there is hung behind itself.
InterruptReturns == irq # Null ~> irq = Null
=============================================================================

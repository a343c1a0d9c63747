--------------------------- MODULE ProcessManager ---------------------------
(***************************************************************************)
(* The cooperative process manager: ProcessManager (kernel_procs.cpp), the *)
(* run list it keeps in RRScheduler (rr_scheduler.h, linked_list.h), and   *)
(* the context switch of interrupt vector 0x70 (kernel_interrupt_stubs.asm *)
(* common_handler).                                                        *)
(*                                                                         *)
(* One processor executes one thread at a time.  A thread is a process, or *)
(* the boot thread (Null) that runs Kernel::SwapIn.  Processes give the    *)
(* processor up only through int 0x70 (ProcessYield); int 0x71             *)
(* (ProcessExit) unloads the running process but returns to it.  Both      *)
(* gates are interrupt gates, so a handler is never preempted; the         *)
(* keyboard interrupt preempts everything else, and all it does to this    *)
(* component is to clear IsBlocked of a process.                           *)
(*                                                                         *)
(* Process ids are never reused and Insert appends, so a list node is      *)
(* named by the id of the process whose context_t it holds.                *)
(***************************************************************************)
EXTENDS Integers

CONSTANTS
  MaxPid,    \* bound: CreateProcess is called at most MaxPid times
  Creators,  \* the processes whose code calls ProcessCreate and StartProcess
  Exiters,   \* the processes whose code calls ProcessExit
  Null       \* nullptr; also names the boot thread

NoProc   == 0   \* FIRST_PROC_ID, the process that only yields
Terminal == 1   \* the first process that Kernel::SwapIn creates
Pid      == 0 .. MaxPid

ASSUME MaxPidAssumption == MaxPid \in Nat /\ Terminal <= MaxPid
ASSUME NullAssumption == Null \notin Int
\* The processes of this kernel: only the terminal creates others (the
\* snakes), only snakes exit, NoProc and the terminal never do.
ASSUME ClientsAssumption ==
  /\ Creators \subseteq Pid
  /\ Exiters \subseteq Pid \ {NoProc, Terminal}
  /\ Creators \cap Exiters = {}

VARIABLES
  numProcs,  \* _numProcs, the next process id
  nodes,     \* the list nodes that are allocated
  link,      \* ll_node_t::Next; a freed node keeps what it held
  curPtr,    \* RRScheduler::_curPtr
  curProc,   \* __curProc__
  nextProc,  \* __nextProc__
  blocked,   \* context_t::IsBlocked
  stacks,    \* the processes whose stack is allocated
  context,   \* whose registers the context_t of a process holds
  cpu,       \* the thread whose registers the processor holds
  target,    \* the id the running thread is going to start, or Null
  pc         \* where the running thread is

vars == <<numProcs, nodes, link, curPtr, curProc, nextProc, blocked, stacks,
          context, cpu, target, pc>>
list == <<nodes, link, curPtr>>

Control ==
  {"user",      \* in the process's own code, or in Kernel::SwapIn
   "starting",  \* in the search loop of StartProcess
   "yielding",  \* about to execute int 0x70 and nothing else
   "handler",   \* in ProcYeildHandler
   "exited",    \* int 0x71 returned: the code up to the next int 0x70
   "off"}       \* in the final while (true) of Terminal

TypeOK ==
  /\ numProcs \in 1 .. MaxPid + 1
  /\ nodes \subseteq Pid
  /\ link \in [Pid -> Pid \cup {Null}]
  /\ curPtr \in Pid
  /\ {curProc, nextProc, cpu, target} \subseteq Pid \cup {Null}
  /\ blocked \in [Pid -> BOOLEAN]
  /\ stacks \subseteq Pid
  /\ context \in [Pid -> Pid \cup {Null}]
  /\ pc \in Control
-----------------------------------------------------------------------------
(* RRScheduler over the linked list.  _listHead is the node of NoProc from *)
(* the first Insert on: LLRemove gets the head by value and cannot move it.*)

Head == NoProc

\* Fault: GetNext does not go back to the head.
Succ_NoWrap(n) == link[n]

\* Fault: GetNext stays on the last node.
Succ_StaysOnLast(n) == IF link[n] = Null THEN n ELSE link[n]

\* Where _curPtr goes from node n: its successor, or the head from the last.
Succ(n) == IF link[n] = Null THEN Head ELSE link[n]

\* Fault: the new node is hung behind the head.
Insert_BehindHead(p) ==
  /\ nodes' = nodes \cup {p}
  /\ link' = [link EXCEPT ![Head] = p, ![p] = link[Head]]
  /\ UNCHANGED curPtr

\* LLInsertLast: the new node is hung behind the last one.
Insert(p) ==
  LET last == CHOOSE n \in nodes : link[n] = Null
  IN  /\ nodes' = nodes \cup {p}
      /\ link' = [link EXCEPT ![last] = p, ![p] = Null]
      /\ UNCHANGED curPtr

\* Fault: the node is deleted and stays linked.
Remove_StaysLinked(p) ==
  /\ nodes' = nodes \ {p}
  /\ UNCHANGED <<link, curPtr>>

\* Fault: the node stays in the list.
Remove_Nothing(p) == UNCHANGED list

\* LLRemove: the node is unlinked from its predecessor and deleted, except
\* the head, whose removal is lost.  Nobody moves _curPtr off a deleted node.
Remove(p) ==
  /\ IF p = Head \/ p \notin nodes
       THEN UNCHANGED <<nodes, link>>
       ELSE /\ nodes' = nodes \ {p}
            /\ link' = [n \in Pid |-> IF n \in nodes /\ link[n] = p
                                        THEN link[p] ELSE link[n]]
  /\ UNCHANGED curPtr
-----------------------------------------------------------------------------
\* ProcessManager::Initialize and SwapIn have run: NoProc is in the list and
\* no process has the processor.
Init ==
  /\ numProcs = NoProc + 1
  /\ nodes = {NoProc}
  /\ link = [p \in Pid |-> Null]
  /\ curPtr = NoProc
  /\ curProc = Null /\ nextProc = Null
  /\ blocked = [p \in Pid |-> FALSE]
  /\ stacks = {NoProc}
  /\ context = [p \in Pid |-> IF p = NoProc THEN p ELSE Null]
  /\ cpu = Null
  /\ target = Null
  /\ pc = "user"

\* The running thread calls CreateProcess.  Kernel::SwapIn does once, the
\* terminal once for each snake of setup_snakes; both then start the first
\* process they created (kernel.cpp:543, snakes.cpp:559).
CreateProcess ==
  /\ pc = "user"
  /\ cpu \in Creators \/ (cpu = Null /\ numProcs = Terminal)
  /\ numProcs <= MaxPid
  /\ numProcs' = numProcs + 1
  /\ stacks' = stacks \cup {numProcs}
  /\ context' = [context EXCEPT ![numProcs] = numProcs]
  /\ Insert(numProcs)
  /\ target' = IF target = Null THEN numProcs ELSE target
  /\ UNCHANGED <<curProc, nextProc, blocked, cpu, pc>>

\* StartProcess is entered ...
StartProcess ==
  /\ pc = "user"
  /\ target # Null
  /\ pc' = "starting"
  /\ UNCHANGED <<list, numProcs, curProc, nextProc, blocked, stacks, context,
                 cpu, target>>

\* ... and takes nodes off the scheduler until it has the one it looks for.
FindStarted ==
  /\ pc = "starting"
  /\ curPtr' = Succ(curPtr)
  /\ IF curPtr = target
       THEN nextProc' = curPtr /\ target' = Null /\ pc' = "yielding"
       ELSE UNCHANGED <<nextProc, target, pc>>
  /\ UNCHANGED <<nodes, link, numProcs, curProc, blocked, stacks, context, cpu>>

\* Fault: GetNext does not advance.
ScheduleNext_NoAdvance ==
  /\ curProc' = nextProc
  /\ nextProc' = curPtr
  /\ UNCHANGED curPtr

\* ProcessManager::ScheduleNext, with RRScheduler::GetNext.
ScheduleNext ==
  /\ curProc' = nextProc
  /\ nextProc' = curPtr
  /\ curPtr' = Succ(curPtr)

\* Fault: the registers are saved after the switch of __curProc__.
SaveContext_AfterSchedule == context' = [context EXCEPT ![nextProc] = cpu]

\* common_handler on entry: the registers go into the context of GetCurProc().
SaveContext == context' = IF curProc = Null THEN context
                          ELSE [context EXCEPT ![curProc] = cpu]

\* int 0x70: common_handler saves, ProcYeildHandler schedules once.
Yield ==
  /\ \/ pc = "user" /\ cpu # Null /\ target = Null
     \/ pc \in {"yielding", "exited"}
  /\ SaveContext
  /\ ScheduleNext
  /\ pc' = "handler"
  /\ UNCHANGED <<nodes, link, numProcs, blocked, stacks, cpu, target>>

\* ProcYeildHandler goes on as long as the process it chose is blocked.
SkipBlocked ==
  /\ pc = "handler"
  /\ blocked[curProc]
  /\ ScheduleNext
  /\ UNCHANGED <<nodes, link, numProcs, blocked, stacks, context, cpu, target, pc>>

\* Fault: the chosen process gets the processor even when it is blocked.
Dispatch_Blocked ==
  /\ pc = "handler"
  /\ cpu' = context[curProc]
  /\ pc' = "user"
  /\ UNCHANGED <<list, numProcs, curProc, nextProc, blocked, stacks, context, target>>

\* common_handler on the way out: the registers come from GetCurProc().
Dispatch ==
  /\ pc = "handler"
  /\ ~blocked[curProc]
  /\ cpu' = context[curProc]
  /\ pc' = "user"
  /\ UNCHANGED <<list, numProcs, curProc, nextProc, blocked, stacks, context, target>>

\* ProcessBlocker::Block(GetCurProc()), called by a process that waits for a
\* key.  The yield at its end is Yield from "yielding".
Block ==
  /\ pc = "user" /\ target = Null
  /\ cpu \notin {Null, NoProc}
  /\ blocked' = [blocked EXCEPT ![curProc] = TRUE]
  /\ pc' = "yielding"
  /\ UNCHANGED <<list, numProcs, curProc, nextProc, stacks, context, cpu, target>>

\* An interrupt calls ProcessBlocker::UnblockFirst for process p.
Unblock(p) ==
  /\ pc # "handler"
  /\ blocked[p]
  /\ blocked' = [blocked EXCEPT ![p] = FALSE]
  /\ UNCHANGED <<list, numProcs, curProc, nextProc, stacks, context, cpu, target, pc>>

\* ProcessManager::UnloadProcess(GetCurProc()), from ProcExitHandler.
UnloadProcess ==
  /\ stacks' = stacks \ {curProc}
  /\ Remove(curProc)

\* int 0x71.  common_handler switches contexts for vector 0x70 only, so the
\* handler returns to the process it unloaded.
ProcessExit ==
  /\ pc = "user" /\ target = Null
  /\ UnloadProcess
  /\ pc' = "exited"
  /\ UNCHANGED <<numProcs, curProc, nextProc, blocked, context, cpu, target>>

Exit == cpu \in Exiters /\ ProcessExit

\* The terminal was told to exit: it spins for ever and never yields again.
TurnOff ==
  /\ pc = "user" /\ target = Null
  /\ cpu = Terminal
  /\ pc' = "off"
  /\ UNCHANGED <<list, numProcs, curProc, nextProc, blocked, stacks, context,
                 cpu, target>>

Spin == pc = "off" /\ UNCHANGED vars

Next ==
  \/ CreateProcess \/ StartProcess \/ FindStarted
  \/ Yield \/ SkipBlocked \/ Dispatch
  \/ Block \/ (\E p \in Pid : Unblock(p))
  \/ Exit \/ TurnOff \/ Spin

\* The processor executes what comes next, Kernel::SwapIn first.  Yield is
\* among it because every loop of a process contains a yield: NoProc
\* (kernel_procs.cpp:19), the snakes (snakes.cpp:248, 278), the terminal's
\* wait for a key (drvr_ps2kybd.cpp:153), StartProcess (kernel_procs.cpp:154).
Run ==
  \/ cpu = Null /\ CreateProcess
  \/ StartProcess \/ FindStarted \/ Yield \/ SkipBlocked \/ Dispatch

Spec == Init /\ [][Next]_vars
FairSpec == Spec /\ WF_vars(Run)
-----------------------------------------------------------------------------
(* Properties. *)

\* No process executes after it was unloaded: outside the tail of ProcessExit
\* the thread on the processor has its list node and its stack, and so have
\* the scheduled ones ("Free the stack", "Remove the process from the
\* scheduler", kernel_procs.cpp:160-164).
NothingUnloadedRuns ==
  /\ cpu # Null /\ pc \notin {"handler", "exited"} => cpu \in nodes \cap stacks
  /\ pc = "handler" => curProc \in nodes \cap stacks

\* The scheduler's two pointers into the list never dangle: Remove deletes a
\* node without moving _curPtr or __nextProc__ off it (rr_scheduler.h:43).
NoDanglingPointer ==
  /\ curPtr \in nodes
  /\ nextProc \in nodes \cup {Null}

\* A context switch never mixes up register sets: outside the handler the
\* registers on the processor are those of GetCurProc(), and every context
\* holds those of its own process.
RegistersBelong ==
  /\ pc # "handler" => cpu = curProc
  /\ \A p \in nodes : context[p] = p

\* The links of the list visit every process that was created and not removed
\* exactly once, in the order of creation.
ListInCreationOrder ==
  /\ \A n \in nodes : link[n] = Null => \A m \in nodes : m <= n
  /\ \A n \in nodes : link[n] # Null =>
       link[n] \in nodes /\ link[n] > n /\ \A m \in nodes : m <= n \/ link[n] <= m

\* ProcYeildHandler returns: its while loop always comes to a process that is
\* not blocked.
YieldReturns == pc = "handler" ~> pc # "handler"

\* Nobody starves: a process that stays in the list and unblocked gets the
\* processor, unless the terminal has stopped the machine.
ReadyRuns ==
  \A p \in Pid :
    (p \in nodes /\ ~blocked[p])
      ~> ((cpu = p /\ pc # "handler") \/ blocked[p] \/ p \notin nodes \/ pc = "off")

Abstract == INSTANCE CooperativeScheduler
              WITH Idle <- NoProc, Nobody <- Null,
                   count <- numProcs, members <- nodes, running <- cpu,
                   waiting <- {p \in nodes : blocked[p]}

\* The list, the pointers, the contexts and the handler implement a
\* cooperative scheduler.
CooperativeSchedulerSpec == Abstract!Spec
-----------------------------------------------------------------------------
(* The inductive invariant behind NothingUnloadedRuns: what keeps a process *)
(* that exits off the scheduler's two pointers is how far they run ahead.   *)

\* Every node but the head hangs behind one, and there is a last node.
Linked ==
  /\ \A p \in nodes \ {Head} : \E n \in nodes : link[n] = p
  /\ \E n \in nodes : link[n] = Null

\* The processes that exist.
Population ==
  /\ nodes \subseteq 0 .. numProcs - 1
  /\ NoProc \in nodes
  /\ numProcs > Terminal => Terminal \in nodes
  /\ stacks = nodes
  /\ target # Null => target \in nodes
  /\ \A p \in Pid : blocked[p] => p < numProcs

\* Once a process is scheduled, __nextProc__ is behind __curProc__ and _curPtr
\* behind __nextProc__, or at the head when a process was appended since.
RunsAhead ==
  /\ curPtr \in nodes
  /\ nextProc \in nodes \cup {Null}
  /\ pc \in {"yielding", "handler", "exited"} \/ (pc = "user" /\ cpu # Null) =>
       nextProc # Null /\ curPtr \in {Succ(nextProc), Head}
  /\ pc \in {"user", "yielding", "handler"} /\ curProc \in Exiters =>
       nextProc \in {Succ(curProc), Head} /\ curPtr = Succ(nextProc)

\* Who has the processor, and what the handler chose.
Holder ==
  /\ pc = "handler" => curProc # Null
  /\ curProc # Null /\ pc # "exited" => curProc \in nodes
  /\ cpu # Null \/ pc # "user" \/ target # Null => numProcs > Terminal
  /\ target # Null => pc \in {"user", "starting"} /\ curProc \notin Exiters
  /\ pc = "starting" => target # Null
  /\ pc = "exited" => curProc # Null

IndInv == TypeOK /\ ListInCreationOrder /\ Linked /\ Population /\ RunsAhead
            /\ Holder /\ RegistersBelong
=============================================================================

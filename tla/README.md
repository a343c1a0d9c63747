# HyperOS in TLA+

HyperOS is a small 64-bit kernel: one address space, one processor, processes
that give the processor up themselves, and interrupts that do not ask. This
directory holds TLA+ models of its parts, TLC runs that check them on small
instances, and TLAPS proofs of what matters most for all instances. Line numbers
refer to the sources under `src/`.

## 1. Inventory

The boot code enters `kernel_main`, which reads the multiboot tags, picks a
memory region, and initialises and swaps in one `Kernel`. `Kernel::SwapIn`
creates the heap, the stack allocator, the scheduler, the process manager and
the drivers, tests the heap, and starts the terminal as the first process. From
then on the machine executes processes and interrupt handlers.

| Component | Code | State | Operations | What makes it correct |
|---|---|---|---|---|
| Process manager | `kernel_procs.cpp` | `__curProc__`, `__nextProc__`, `_numProcs`, a `context_t` and a stack per process | `CreateProcess`, `StartProcess`, `ProcessYield` (int 0x70), `ProcessExit` (int 0x71), `UnloadProcess` | an unloaded or blocked process never gets the processor; contexts are not mixed up; every ready process runs |
| Scheduler | `rr_scheduler.h`, `linked_list.h` | the list of contexts, `_curPtr` | `GetNext`, `Insert`, `Remove` | no pointer to a deleted node; everybody has a turn |
| Context switch | `kernel_interrupt_stubs.asm` | the registers | `common_handler` | registers come back to the process they belong to |
| Process blocker | `process_blocker.cpp` | a list of blocked processes | `Block`, `UnblockFirst`, `UnblockAll` | whoever blocks is woken; whoever is woken leaves the list |
| Keyboard driver | `drvr_ps2kybd.cpp`, `queue.h` | a queue of scan codes | `Interrupt`, `GetNextVirtualKey`, `Load`, `SetScanCodeSet` | keys are returned in order, each once, and none is waited for that is there |
| Kernel heap | `vmem_heap_allocator.cpp` | a row of chunks with headers and footers | `_allocate`, `_deallocate` behind `new` and `delete` | blocks do not overlap; free memory is found again |
| Stack allocator | `vmem_stack_allocator.cpp` | a map of stacks | `_allocate`, `_deallocate` | stacks do not overlap |
| Page allocator | `page_allocator.cpp` | a counter and a list of pages | `_allocate`, protected mode | a page has one owner |
| Virtual memory | `vmem_allocator.cpp`, `mem_identity_allocator.cpp`, `PageFaultHandler` in `kernel.cpp` | page tables | reserving, the identity map, page faults | what is reserved can be touched; a translation never changes; frames are not shared |
| Kernel lifecycle | `kernel.cpp`, `kernel_main.cpp` | one pointer per component | `Initialize`, `SwapIn`, `SwapOut` | everything is there before it is used; errors are reported |
| Keyboard controller | `drvr_ps2kybd.cpp`, `.h` | its registers, what the keyboard still answers | `Load` with its waits, keys | `Load` ends; no byte stays in the output buffer |
| Terminal | `proc_terminal.cpp`, `key_codes.h`, `vga.cpp` | an input line, the cursor, the text buffer | keys, commands | the commands are compared with what was typed; what was typed is on the screen |
| Snakes | `snakes.cpp` | a board, snakes, their array and list | one process each | they stay apart, yield in every turn and do not use what they freed |
| Interrupts | `kernel_interrupt.cpp`, `kernel_pic.cpp`, `kernel_gdt.cpp`, `kernel_tss.cpp` | IDT, handlers, PIC masks, GDT, TSS | install, swap in, dispatch, acknowledge | the right handler runs on a stack of its own, and its interrupt is acknowledged |
| Boot information | `kernel_multiboot.cpp` | modules, regions, strings | `Load`, `GetBestMemRegion` | copies stay in their arrays or an error is reported; the region chosen conflicts with nothing |
| The rest | driver manager, number formatting, serial port, ATA stub, headers | | | not used, output only, or no state |

How they interact: processes call the process manager through software
interrupts and the drivers through plain calls; `CreateProcess` calls the stack
allocator and, through list nodes, the heap; heap and stacks reserve virtual
addresses from the page tables, and these take pages from the page allocator,
some at reservation and some in the page fault handler; the keyboard interrupt
shares the queue and the list of blocked processes with the process it
interrupts, and the heap too, as it deletes list nodes.

What is hard: steps of a process interleaved with the keyboard interrupt; the
scheduler's two pointers, which run ahead of the processor while processes come
and go; a process that executes after it was unloaded; long sequences of
allocations; the ends of queues and regions. The file `PROJECT.json` lists
these hazards line by line with the properties that watch them.

## 2. Modules

| Module | Models | Composition |
|---|---|---|
| `CooperativeScheduler` | what the process manager promises, abstractly | |
| `ProcessManager` | process manager, scheduler list, context switch | implements `CooperativeScheduler` |
| `ProcessManager_proofs` | theorems about `ProcessManager` | extends it |
| `KeyboardInput` | keyboard interrupt, queue, process blocker with its list, readers | uses what `CooperativeScheduler` promises of a yield |
| `Allocator` | what an allocator promises, abstractly | |
| `HeapAllocator` | the kernel heap | implements `Allocator` |
| `HeapAllocator_proofs` | theorems about `HeapAllocator` | extends it |
| `StackAllocator` | the stacks of processes | implements `Allocator` |
| `StackAllocator_proofs` | theorems about `StackAllocator` | extends it |
| `PageAllocator` | physical pages | |
| `VirtualMemory` | identity map, reservation, page tables, page faults | extends `PageAllocator` |
| `VirtualMemory_proofs` | theorems about `VirtualMemory` and `PageAllocator` | extends it |
| `Interrupts` | interrupt table, handlers, the two 8259 | |
| `KeyboardController` | the 8042, the keyboard, `KeyboardDriver::Load` | |
| `KernelLifecycle` | `kernel_main`, `Initialize`, `SwapIn`, GDT and TSS | extends `Interrupts` and `KeyboardController` |
| `KernelLifecycle_proofs` | theorems about `KernelLifecycle` | extends it |
| `BootInformation` | multiboot tags, `GetBestMemRegion` | |
| `BootInformation_proofs` | theorems about `BootInformation` | extends it |
| `KeyCodes` | scan codes, virtual keys | |
| `VGA` | the text buffer and the cursor | |
| `Terminal` | the line editor and its commands | extends `KeyCodes` and `VGA` |
| `Input_proofs` | theorems about `KeyboardInput` and `Terminal` | extends both |
| `Snakes` | the hungry snakes, `setup_snakes`, the board and the screen | relies on `CooperativeScheduler`: a turn is not interleaved with another |
| `Snakes_proofs` | theorems about `Snakes` | extends it |
| `MC...` | values of the constants for TLC | |

Operators whose names contain an underscore (`Succ_NoWrap`, `Take_Shrinks`)
are faults: each is a definition of the model with a mistake somebody could make
in that code, and shows that the property named next to it in `PROJECT.json`
notices. No specification uses them.

### ProcessManager

A thread is a process or the boot thread. `pc` says where the running one is:
in its own code, in the search loop of `StartProcess`, about to yield, in
`ProcYeildHandler`, behind a return from `ProcessExit`, or switched off. `Yield`
is int 0x70: `common_handler` saves the registers into the context of
`__curProc__` and the handler calls `ScheduleNext` once; `SkipBlocked` is one
turn of its loop; `Dispatch` restores the registers from `__curProc__`, which is
another process by now. `ProcessExit` unloads the running process and returns to
it, so the process goes on in state `exited` until its next yield, as in the
code. Registers are abstracted to the process whose they are. `Remove` is
`LLRemove` with the head passed by value: the head stays.

The kernel's use of the manager is in `Creators` and `Exiters`: only the
terminal creates processes (the snakes), only snakes exit. This matters. With
nobody but NoProc and one process that exits, the scheduler would have chosen
that process again before it left, and it would run unloaded; the terminal,
which never leaves, prevents that.

### KeyboardInput

The reader is modelled step by step, since the interrupt may come between any two
instructions: test, `IsBlocked = true`, new node, each turn of the list loop,
append, yield, pop. `Interrupt` pushes and unblocks the head; `LLRemove` is one
turn of its loop, during which nothing else runs. A deleted node keeps its
content until `new` hands it out again, which is a nondeterministic choice. After
`Block` the code pops without a second test, and so does the model.

### HeapAllocator

Memory is a function from words to `_mem_chunk`; a chunk has a header word and
a footer word; 8 bytes are a word. `_allocate` is four actions and `_deallocate`
two, as an interrupt handler can free in the middle: `HandlerDeallocate` is all of
`_deallocate`, at any step of the call that it interrupts. The
first chunk is the one that `Initialize` makes. Callers write into the blocks
they own (`Write`). `Garbage` is what they write, chosen to look like a free
chunk.

`Spec` is the code as it is, and nothing in it keeps the handler from breaking the
row of chunks. `ApartSpec` leaves out the frees that do (`Apart`): of the chunk at
which the search of `_allocate` stands, when the chunk before it is free, so that the two are joined;
and, while a chunk is being taken or released, of the chunk behind it. Everywhere
else the handler may free during a call, and the properties and theorems are about
`ApartSpec`. Section 3 says what TLC finds with `Spec`. `freed` is a history variable:
a chunk that is freed behind the search is free although the heap grows.

`Allocator` counts in `held` how many blocks callers hold. A set alone would not
notice that a block is given out a second time: nothing would change.

### StackAllocator

`Allocate` starts the search loop of `_allocate`; `Pass` is one turn of it,
`Reuse` its end at a free entry, `Extend` its end behind the last one, with the
larger map and the addresses that `IVMemAllocator::_allocate` reserves. Nothing
interrupts the allocator; the steps are there because the address of a stack is
the sum the loop has in `retStack`. Addresses are counted in units of
`STACK_ALIGNMENT`. Callers ask for one size (`kernel_procs.cpp:89, 107`), and
`StacksAssumption` says so.

### Snakes

A turn is `Begin` (which places the first food), `Crawl` (erase, move, draw),
and, when the head is on the food, `Eat`, after which a snake that is full is
freed, its process unloaded, and the freed snake drawn once more (`DrawFreed`),
since `ProcessExit` returns. `pc` is `yielded` between turns. Any process may be
next, which is more than the scheduler allows. `Random` is a nondeterministic
choice. The screen is what the game and the terminal's `ClearConsole` put there;
text that is typed is not shown.

### PageAllocator and VirtualMemory

`lastPage` is `_lastAddr`; `owners` counts how often each page was given out and
is the only variable that the code does not have. A node of `VirtualMemory` is
what a table entry points to: a frame or a table. Reservation descends one
level per action and takes a page where the entry is not present. Requests are of
any number of words, as the heap rounds to 8 bytes (`kernel.h:82`) and not to pages.
A page fault takes a page when a word is touched whose page has no frame, marked or
not (`kernel.cpp:73`): a word that was reserved, or one of `Stray`, which nobody
reserved. If the page has no table either, the handler follows a null pointer
(`pc = "lost"`). One word behind a block counts as usable because `CreateProcess`
writes there (`stack[0]`, `kernel_procs.cpp:108`). `HeapAllocator::Initialize` adds the
size of its first chunk to `_lastAddr` once more than it has reserved; this gap in the
addresses is left out.

### Interrupts, KeyboardController and KernelLifecycle

`Interrupts` has the table and its gates, the interrupt flag, and of the two 8259
what the code relies on: masks, requests, what is in service, priorities and the
end of interrupt. A line is taken when the flag is on, it is not masked, and
nothing of higher priority is in service. `Remap` is one action: interrupts are
off. `KeyboardController` is `Load` as a list of waits and register accesses;
`Waits` says when a step cannot go on yet. The keyboard answers commands after
any time, and keys can be pressed at any time, with the one output buffer that
controller and keyboard share.

`KernelLifecycle` puts them together. `stage` says where `kernel_main` is; each
stage is an action, the parts of `SwapIn` are built one by one, and an interrupt
may come between any two steps once `sti` has been executed. What can fail in this
kernel fails in one alternative of the action: a region that is not RAM (the type
is uninitialised when no region was found), a TSS that is busy, a `Load` that gets
the wrong answer. A `SwapIn` that failed is called again, as `kernel_main` does. Of
a descriptor the model keeps what kind it is, with the busy bit that `ltr` sets
and tests.

### BootInformation

`Load` walks the tags; one action per kind of tag, in any order, since multiboot
leaves the order open. Modules, which have a tag each, and sections of the kernel are
passed one by one. Of strings the lengths count, against the sizes of the arrays; of
modules and entries of the map also what is behind the arrays. One module too many
passes the test at line 54 and is stored over the count of modules; after that, `Load`
may have written anywhere (`control = "lost"`) or go on. An entry too many is
stored over the count of regions and `_highestVirtAddress`, and the loop goes on for
as many entries as that count now says. Tags whose contents no other code reads are
`OtherTag`.
`GetBestMemRegion` looks at one entry per step (`Consider`) and then raises the
base above the kernel (`RaiseBase`). `Placed` says what a boot loader guarantees:
the kernel and the modules lie in RAM and do not overlap.

### KeyCodes, VGA and Terminal

`VirtualKey` translates a scan code of the first set by the table of
`key_codes.h`, release bit included. `VGA` writes characters and wraps at the end
of rows and of the screen. `Terminal` is the double loop of `TerminalProcess`: the
outer test (`Obey`, `TurnOff`) compares the beginning of `input` with the commands;
the inner loop receives codes. `input` comes from `new char[]` and is never
cleared, so it begins with anything (`Contents`). Three history variables hold what
was found there, the codes so far and where the line began; no action reads them. Some
definitions are named `Terminal...` because `KeyboardInput` has one of the same name, and
one module has the proofs about both.

## 3. Runs

| Run | Instance | Shows |
|---|---|---|
| `processes` | NoProc, terminal, four snakes | `NothingUnloadedRuns`, `NoDanglingPointer`, `RegistersBelong`, `ListInCreationOrder`, that `CooperativeScheduler` is implemented, `YieldReturns`, `ReadyRuns` |
| `keyboard` | one reader, four slots, nine codes, two prefixes | `PopsInOrder`, `WokenByNextKey` |
| `heap` | a heap of a few chunks, every order of operations, with a handler that frees in the middle of them where `Apart` allows | `ChunksFillTheHeap`, `HeadersMatchFooters`, `AllocatorSpec`, `GrowsOnlyWhenFull`, `CallsReturn` |
| `stacks` | seven stacks, a map that grows by three | `MapKnowsStacks`, `AllocatorSpec`, `ReusesFreedStacks` |
| `memory` | 40 pages of two words, tables of four entries, a heap with requests of one and three words, a stack region, touches of words that nobody reserved | `NoSharedPage`, `ReservedCanBeTouched`, `TranslationsAreStable` |
| `snakes` | two snakes on a board of 4 by 3 | `SnakesApart`, `FoodIsFree`, `NoTrails` |
| `lifecycle` | timer, keyboard and a device of the second controller; three configurations left by the firmware, two answers to the self test | `KeyboardInterruptsReachTheDriver`, `FaultsCanBeHandled`, `NothingIsBuiltTwice`, `KeysAreRead`, `LoadReturns` |
| `terminal` | seven scan codes, a screen of four by two, an input of three characters | `InputIsOverlay`, `EchoIsLine` |
| `boot` | five memory maps, two with an entry too many; two kernels; up to three modules for one place; tags in every order | `CopiesFit`, `RegionIsFree`, and in `TypeOK` that the strings end inside their arrays |
| `keyboard_lost_wakeup` | one key | violated: "Waits until a virtual key is available, then returns it." |
| `keyboard_interrupt` | nine codes | violated: the interrupt handler returns |
| `snakes_twice` | two "snakes" commands | violated: "turn each snake loose as an individual LWP" |

Each passing run but `memory` checks the `TypeOK` of its module too (`TerminalTypeOK` of
`Terminal`); that of `VirtualMemory` is proved.

Runs that end in a violation state what a comment of the code says; the
counterexample of TLC is the disagreement. In short:

* A key that arrives between `IsEmpty()` and `IsBlocked = true` is stored while
  its reader goes to sleep. The next key wakes it (`WokenByNextKey`), and the
  reader is one key behind from then on until it catches up.
* The interrupt may never return from `LLRemove`. The counterexample has four calls
  of `Block`. The first makes the node that stays at the head. In the second the
  interrupt comes between `IsBlocked = true` and the append, finds nothing to unlink,
  and wakes the reader, whose node is appended all the same: it is stale. The third
  appends a node behind the stale one, and the interrupt deletes both; but its loop
  goes on with `prev` at the stale node, which it has just deleted, and takes the last node
  off that one (`linked_list.h:45, 56`), so that the head still points at the last node,
  which is free. In the fourth `new` hands out just this node, `LLInsertLast` finds it
  at the end of the list and links it to itself, and the next interrupt goes round and
  round.
* The array of snakes is static and the processes hold pointers into it: a second
  "snakes" command leaves the old snakes without a process and gives the new ones
  two each.

Others, found while modelling. They have no run of their own; the change of a
`.cfg` or of a property named here shows them:

* Heap: the interrupt's `delete` is a call into the heap, which is not protected
  against interrupts. `ApartSpec` leaves out the frees that the interrupted call does
  not notice. With any one kind of them let in again, TLC finds `HeadersMatchFooters`
  violated. With those in the search, before the header or before the footer is written,
  it finds `ChunksFillTheHeap` and `AllocatorSpec` violated too: blocks overlap. No comment
  or test says that the handler may free there, or that it may not. If the first block
  of the heap were ever freed, `_deallocate` would take the unwritten footer of the
  first chunk for a free one (`Permanent = {}`); that block is the `StackAllocator` and
  is never freed.
* Virtual memory: the loop that reserves pages goes on by whole pages from inside one,
  and misses the page in which a request ends if it ends earlier in that page than it began in
  its own. "Make sure everything except L1 entry is present" and "Mark L1 as
  allocated" (`vmem_allocator.cpp:84, 132`) are not true of this page until the next
  request of the region begins there. `ReservedCanBeTouched` says that nothing else is
  ever missing; without its second disjunct TLC finds it violated by two requests of
  the heap. The page fault handler would stop at the missing mark, but its test
  (`kernel.cpp:73`) is always false, as `!=` binds more tightly than `&`: the page gets
  its frame. Only where the page is the first of an L1 table there is no
  entry to look at, and the handler follows a null pointer. `Touch` reaches this state
  without any stray word (`Stray = {}`), with heap requests of one and three words that
  end just behind the last page of a table.
* Page allocator: it gives out the page behind its region, and then starts again
  with pages that are in use (`NumPages = 18` and the invariant `InBounds`). The
  comment at `page_allocator.h:41` says that 0 is free, and the code writes 1.
* Keyboard: the queue has 32 slots and the constant of 64 (`drvr_ps2kybd.h:53`)
  is unused; with more waiting codes than slots `PopsInOrder` is violated
  (`Slack = 5`). `LLRemove` gets the head of its list by value, so the process
  at the head of the list of blocked processes stays there for ever, although
  `process_blocker.cpp:41` says "remove it from this list" (`WokenByNextKey` holds
  all the same, because a blocked process is found there).
* Loading the keyboard: the waits of `Load` have no limit. `LoadReturns` names
  the exceptions: firmware that left interrupts of port 1 off or of port 2 on, a key
  pressed during `Load`, and a self test that fails. Without the premise on the
  configuration, or without one of the disjuncts, TLC finds it violated.
* Lifecycle: `lidt` loads a limit of half of the table, so that vectors from 128 on
  would fault; only lower ones are used (0x70, 0x71, the exceptions, the IRQs). A
  `SwapIn` that is called again never gets past `ltr`, since the TSS is busy; this is
  what keeps the heap from being initialised twice (`NothingIsBuiltTwice`).
* Boot information: "best" is the region with the highest end, and
  `kernel_main.cpp:24` speaks of the biggest; `RegionIsBiggest` is violated. One
  module more than the array holds is accepted, since the count is compared with
  `>` (`kernel_multiboot.cpp:54`), and overwrites the count. Hence the second disjunct of
  `CopiesFit`: without it TLC finds it violated by two modules for one place. Two and more
  too many are reported. Entries of the map are not counted before they are copied (line
  111): `RegionIsFree` has the premise `MapFits`, without which TLC finds it violated, as
  the entry that is one too many overwrites `_highestVirtAddress`.
* Terminal: as many characters are compared as the command has, and the input is
  never cleared, although the terminal tells the user "Input buffer is full. Press enter
  to clear." (`proc_terminal.cpp:52`); Enter only sets `charOffset` to 0. So after "snakes", the line "s" starts the snakes again, and "snakesx"
  does too. The prefix 0xE0 is skipped and not remembered. `KEY_BRACE_R`
  (`key_codes.h:131`) has the code 0x71, which is a q.

### Bounds

* Processes: pids are never reused, so a run of `MaxPid` creations is a whole
  life. The pointers look two nodes ahead; four snakes that come and go in any
  order put every combination of deleted and blocked nodes in their way, and
  creation is interleaved with exits. The proofs remove the bound.
* Keyboard: nine codes go round the queue of four slots twice. `Slack` bounds
  how many codes wait; the code has no such bound and the queue runs over
  without it. One reader, as in the kernel, suffices: it may be on the list of
  blocked processes more than once.
* Heap: the limit allows three or four chunks, enough for a chunk with a free
  neighbour on either side, a chunk that is taken whole, a last chunk that
  grows, and a free in the middle of each. The proofs remove the bound.
* Stacks: seven are enough for the map to grow twice and for a freed stack in
  each of its parts. The proofs remove the bound.
* Snakes: two on twelve cells meet, block each other and get stuck; one starts
  coiled up at the wall, like the last one of the code; one is full with its
  first meal, the other with its second.
* Memory: requests of half a page and of one and a half begin and end in either half of
  a page; the heap region crosses the boundary of an L1 table, and the pages
  suffice for all tables and frames, so the counter does not come round. The
  proofs remove the bounds on sizes.
* Lifecycle: one line before the keyboard's, its own, and one of the second
  controller, so that priorities, both controllers and the cascade take part; two
  keys, enough for one to come while the interrupt of the other is served. The
  configurations and answers of the self test are the ones between which the code
  or the controller distinguishes. The proofs hold for all devices.
* Terminal: seven codes fill the input twice and cross the ends of rows and of the
  screen; the commands have two characters in common with each other and with what
  the heap may hold. The proofs remove the bounds.
* Boot: entries of the map in and out of order, with holes, and one too many; the
  kernel in one section and in three; modules that fit, one too many, and two;
  strings that fit and that do not. The proofs remove the bounds.

### Fairness

`ProcessManager` assumes weak fairness of `Run`: the processor executes the next
instruction. Yielding is part of it because every loop of a process yields:
NoProc (`kernel_procs.cpp:19`), the snakes (`snakes.cpp:248, 278`), the
terminal's wait for a key and `StartProcess`. The one loop that does not, at
the end of the terminal (`proc_terminal.cpp:72`), is the state `off`, and
`ReadyRuns` makes an exception of it. Nothing forces a process to block or to
exit, or a key to come. `KeyboardInput` assumes that the handler and the reader
go on executing, and that a reader that is not blocked gets the processor, which is
`ReadyRuns`. `WokenByNextKey` has a premise of its own: that the two list loops
end, since `keyboard_interrupt` shows that they may not. `HeapAllocator` assumes
that a call goes on executing; no caller has to call. `KernelLifecycle` assumes
that the boot thread, the processes and the handler go on executing, that the
keyboard answers, and strong fairness of taking an interrupt: requests wait at the
controller while interrupts are off or a handler runs, and are taken when the moment
comes, which comes again and again. Nothing forces a key to be pressed.

## 4. Proofs

`ProcessManager_proofs` proves, for every number of processes and every set of
processes that exit (the terminal and NoProc excepted), what the run `processes`
checks for six:

| Theorem | States |
|---|---|
| `Inductive` | `Spec => []IndInv` |
| `TypeCorrect` | `Spec => []TypeOK` |
| `UnloadedNeverRuns` | `Spec => []NothingUnloadedRuns` |
| `PointersStayValid` | `Spec => []NoDanglingPointer` |
| `ContextsNeverMix` | `Spec => []RegistersBelong` |
| `ListStaysOrdered` | `Spec => []ListInCreationOrder` |
| `Implements` | `Spec => CooperativeSchedulerSpec` |

`NothingUnloadedRuns` is not inductive: `Remove` does not move the pointers, so
why do they never point to the node that is deleted? The reason is `RunsAhead`:
when a process runs, `__nextProc__` is its successor and `_curPtr` the successor
of that. A process that exits is neither the head nor alone with the head, hence
neither pointer is at it. There is one exception, a process that was the last of
the list when the pointers passed it and has got a successor since: then
`__nextProc__` is at the head. `IndInv` conjoins `RunsAhead` with the shape of
the list (`ListInCreationOrder`, `Linked`), with who exists (`Population`) and
with who holds the processor (`Holder`). The lemmas `SuccFacts`, `InsertFacts`
and those after them say what the list operations do to that shape, and the step
lemmas take one action each. `Implements` uses `IndInv` to show that each step
is a step or a stutter of `CooperativeScheduler`.

`StackAllocator_proofs` proves, for every number of stacks, every size and every
growth of the map:

| Theorem | States |
|---|---|
| `Inductive` | `Spec => []IndInv` |
| `MapIsRight` | `Spec => []MapKnowsStacks` |
| `FreedStacksAreReused` | `Spec => ReusesFreedStacks` |
| `Implements` | `Spec => AllocatorSpec` |

`_allocate` never compares two stacks. They are disjoint because they lie one
above the other (`Stacked`): an entry's stack ends a stack's size above the end
of the one below it, and the sum in the search loop is where the entries it has
passed end. `_deallocate` finds the right entry because no two have the same end,
and because entries that were never used look free. `Counted` ties `held` to the
set of stacks.

`HeapAllocator_proofs` proves, for every size of memory, every set of requests and
whatever callers write, with handlers that free in the middle of calls, but only where
`Apart` allows (`ApartSpec`). The theorems assume that the first block is permanent
(`Base + 3 \in Permanent`; it is the `StackAllocator`):

| Theorem | States |
|---|---|
| `Inductive` | `ApartSpec => []IndInv` |
| `Implements` | `ApartSpec => AllocatorSpec` |
| `RowIsWhole` | `ApartSpec => []ChunksFillTheHeap` |
| `FootersAgree` | `ApartSpec => []HeadersMatchFooters` |
| `GrowsWhenFull` | `ApartSpec => GrowsOnlyWhenFull` |
| `TypeCorrect` | `ApartSpec => []TypeOK` (given that what callers write, read as a size, is no larger than the memory) |

None of this holds of `Spec`, in which the handler frees anywhere: section 3 says what
TLC finds at each place that `Apart` excludes. So the theorems say what the code would
guarantee if the handler's `delete` kept away from just these places, and that there are
no others; they do not say that the kernel is safe from it.
The heap has no list of chunks; a chunk is where the one before it ends, and
`_deallocate` finds the one before by a footer. `Row(B, E, m)` says that the words
of a set `B` are where chunks begin: each one's size leads to another member with
none between, each but the first has one before it, and footers agree with headers. The
invariant is that there is such a set, with `Owners`: a block lies in a used chunk
of its own. A handler that frees leaves such a set too (`Leaves`, `FreedRow`), and does
not touch the words that the interrupted call goes on with (`Away`, `FreedElsewhere`): one
lemma for each place at which it comes (`HandlerSearch`, `HandlerHeader`, ...). Between two words that are written, the row is right for the memory
that will be (`Footing`), or for a row that ends earlier (`Taking`). One lemma for
each change to a row (`Remarked`, `Extended`, `JoinedFacts`, `Written`) does the work;
that two chunks share no word (`ChunksApart`) makes the abstract specification hold.

The properties follow the chunks by recursion, from the first header, as the code does
(`Chunks`), while the invariant only says that there is a set `B`. `ChunksAreTheRow`
says that they are the same. It needs no induction over the recursion: a recursive
function is any solution of its equation, so the proof gives one (from each word, the
words in every set that is closed under "the next chunk"), and whatever solution is
meant, a least word of `B` that it misses, or that it has too much, would have one
before it (`Smallest`). `GrowsOnlyWhenFull` needs to know what the search has seen:
while no handler has freed anything (`~freed`), no chunk that it has passed fits
(`Searching`).

`VirtualMemory_proofs` proves, for every size of memory, tables, pages and regions:

| Theorem | States |
|---|---|
| `TypeCorrect` | `Spec => []TypeOK` |
| `TranslationsStay` | `Spec => TranslationsAreStable` |
| `NoPageIsShared` | `Spec /\ [][lastPage' # 0]_vars => []NoSharedPage` |
| `ReservedIsReady` | `Spec => []ReservedCanBeTouched` |

The premise of `NoPageIsShared` is that the counter of the page allocator does not
come round; then it separates what was given out from what was not (`Counter`),
and what entries point to lies below it (`Backed`). `ReservedIsReady` is about the
loop of `_allocate`, for requests of any number of words and any stray touches: `Half`
says that the pages before that of the iterator are ready and the iterator is a number
of whole pages from where it began, so that at the end at most one page is missing
(`Whole`). `EndsAt` is why the next request makes it good: where one block of a region
ends, the next one begins.

`Input_proofs` proves `TypeCorrect` (`Spec => []TypeOK`) for any number of
readers, and, for one reader and a queue in which fewer codes wait than it has places
(`Slack < Count`), `Inductive` and `CodesInOrder` (`Spec => []PopsInOrder`), for any
size of the queue and any number of codes. `QueueHolds` says what the ring buffer
holds and where its indices are. `AwakeForCode` is why the reader may pop without a
second test: it wakes up only for a code that came since, and nobody else takes it.

About `Terminal` it proves, for a screen of any size, an input of any length that is no
longer than the screen (`LineAssumption`: 512 characters on 2000), any texts and
commands, anything in the heap and any number of scan codes:

| Theorem | States |
|---|---|
| `TerminalTypeCorrect` | `TerminalSpec => []TerminalTypeOK` |
| `InputIsWhatWasTyped` | `TerminalSpec => []InputIsOverlay` |
| `EchoIsWhatWasTyped` | `TerminalSpec => []EchoIsLine` |
| `CommandsAreFound` | at the test, a line that begins with a command is taken for it |

The invariant, `LineInv`, is the three together, and that the column is 0 whenever the
line is tested, since `Obey` sets `charOffset` to 0 without looking at the codes. A
column is the number of presses since the last Return (`Column`); one more code adds one
to it, or none, or ends the line, and leaves the columns of all codes before it
(`ColumnAppend`, `ColumnBefore`). So that code becomes the last press in its own place of
the input and in no other (`OverlaidAppend`). A character that the full input has no
room for is in a column behind the last place. On the screen the cursor goes to the next
element, and from the last one to the first (`After`), which is the remainder that
`EchoIsLine` speaks of (`Places`); what was typed before stays there because the input is
not longer than the screen (`EchoStep`). `WriteString` is recursive. As with the chunks of
the heap no induction over the recursion is needed: its equation has a solution, as a
smallest number of characters without one would be one more than a number that has one
(`WrittenExists`), and every value of the solution that is meant is a screen, by the
same argument (`WriteStringFacts`).

`CommandsAreFound` follows from `InputIsOverlay`: within a line the columns grow
(`ColumnsGrow`), so no later press is in the place of a character of the last line. Its
converse is false, as the findings say of the line "s" after "snakes".

`KernelLifecycle_proofs` proves for any devices, configurations and answers:

| Theorem | States |
|---|---|
| `Inductive` | `Spec => []IndInv` |
| `InterruptsReachTheDriver` | `Spec => []KeyboardInterruptsReachTheDriver` |
| `FaultsReachTheirHandlers` | `Spec => []FaultsCanBeHandled` |
| `PartsAreBuiltOnce` | `Spec => []NothingIsBuiltTwice` |

Interrupts are on long before the keyboard's handler is installed. What protects the
kernel is the mask of the keyboard's line, which only `UnmaskKeyboard` clears
(`Initialized`); and it stays right when `SwapIn` fails and is called again, because
`taskReg # 0` from the first `ltr` on, and then the TSS is busy (`TaskDescriptor`).

`TypeCorrect` is `Spec => []TypeOK`: no gate, descriptor, stack, line of a controller or
step of `Load` is out of its table, and what the driver sends and reads are bytes, also
after the bits of the configuration were set one by one (`BitFacts`). It assumes that
firmware and keyboard send bytes (`BytesAssumption`).

`Snakes_proofs` proves for every screen and for any number of snakes of any length that
start apart from each other (`ApartAssumption`; each begins with steps of at most one
cell, `StartsAssumption`):

| Theorem | States |
|---|---|
| `Inductive` | `Spec => []IndInv` |
| `SnakesStayApart` | `Spec => []SnakesApart` |
| `FoodStaysFree` | `Spec => []FoodIsFree` |
| `NothingIsLeft` | `Spec => []NoTrails` |
| `TypeCorrect` | `Spec => []TypeOK` |

They are for a command that is typed once (`MaxCommands = 1`); the run `snakes_twice` is
the second time, when the processes of the first game take up the snakes of the second.
A snake only goes where no snake of the list is (`Obstructed`). So that this keeps the
living apart, the list must have each of them, and each once (`Loose`): `Without` takes
the first node of an identifier off the list, and a second would stay. The screen is
erased and drawn from the bodies in the middle of a move, hence `Shown`, which counts
the freed snake that is drawn again as black; and `OnTurn` says that at most the snake
whose turn it is has its head on the food, until it has eaten. A snake that cannot move
keeps its head where it is, and one that was coiled up at a wall lies on itself:
`InOnePiece` allows that, `Apart` is about two snakes.

`BootInformation_proofs` proves for any tags in any order, maps, modules and sections:
`Inductive`, `TypeCorrect` (`Spec => []TypeOK`), `ModulesAreKept` (`Spec => []CopiesFit`)
and `PagesAreFree` (`Spec => []RegionIsFree`). None has a premise on how many modules or
entries there are; what is lost when there are too many is in the properties. Only
modules at the very first bytes of memory are excluded (`MachineAssumption`), since their
start, stored over the count, would be a count that fits. Since the order of the tags is open, the invariant says
for each tag what is right once it has been seen (`TagsSeen`), and for the loops how
much of the sections and the map they have passed. `ModuleCount` ties the count to the
tags that were passed.

Assumptions on constants are the named `ASSUME`s of the modules, and those the
theorems state themselves. For `ProcessManager`: `MaxPid` is a natural number of at
least 1, `Null` is no integer, the terminal and NoProc do not exit, and nobody
both creates and exits. For `StackAllocator`: there is one size, and addresses and
the growth of the map are natural numbers.

Only model-checked:

* liveness (`YieldReturns`, `ReadyRuns`, `WokenByNextKey`, `CallsReturn`,
  `KeysAreRead`, `LoadReturns`), which is out of the prover's reach;
* two commands to start the snakes, two and more readers of the keyboard, and the other
  cases that a theorem above excludes by an assumption of its own.

## 5. What is not modelled

* The driver manager: nothing is ever installed in it; `KernelLifecycle` has it as
  a part that is built and whose `SwapIn` loops over no driver.
* The serial port: no `SerialPort` is created. The ATA stub, the file system header
  and the ELF header: nothing uses them.
* The boot code: straight-line code that enters long mode and calls `kernel_main`.
* `SwapOut` and `Unload`, which nothing calls; `SetMask`, `EnableAPIC`, `_getreg`.
* `UnblockAll` and the destructors: no object that has one is destroyed.
* `PageAllocator::_deallocate`: no caller, and it starts with a wait for a
  debugger that never ends. `IVMemAllocator::_deallocate` is empty.
* Values of registers, the formatting of numbers (only error messages use it), the
  attributes of characters on the screen, `ScrollDown` (no caller).
* Scan code sets 2 and 3: their tables are in `key_codes.h`, and set 1 is the one
  that is chosen.
* Page tables are taken to be all zeros when they are allocated, which is true
  of memory that nobody has used; the code does not clear them.
* `run_snake` and its `move_snake`: `proc_terminal.cpp:34` only asks for hungry
  snakes. `kill_snake`, `snakeFromLWpid`: nothing calls them.

## 6. Plan

Done, in order of importance: the process manager decides what runs at all,
everything else relies on memory, and all of it on coming up in the right order.

1. `ProcessManager`, `CooperativeScheduler`, proofs.
2. `KeyboardInput`, proofs.
3. `HeapAllocator`, `Allocator`, proofs.
4. `PageAllocator`, `VirtualMemory`, proofs.
5. `StackAllocator`, proofs.
6. `Snakes`, proofs.
7. `Interrupts`, `KeyboardController`, `KernelLifecycle`, proofs.
8. `BootInformation`, proofs.
9. `KeyCodes`, `VGA`, `Terminal`, proofs.

Left:

* `ProcessManager` composed with `StackAllocator`, which implements its `stacks`,
  and `KeyboardInput` with `ProcessManager`, which implements its `cpu`.
* The heap and the list of blocked processes in one specification, so that the handler
  frees just the nodes that `LLRemove` unlinks.
* `KeyboardInput` and `Terminal` in one specification, in which the code that a reader
  pops is the one that the line editor receives.

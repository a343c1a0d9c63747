--------------------------- MODULE KernelLifecycle ---------------------------
(***************************************************************************)
(* How the kernel comes up: kernel_main, Kernel::Initialize and            *)
(* Kernel::SwapIn (kernel.cpp), with the descriptor tables they fill and   *)
(* load (kernel_gdt.cpp, kernel_tss.cpp), on top of Interrupts and         *)
(* KeyboardController.                                                     *)
(*                                                                         *)
(* From the sti in SwapIn on, interrupts come between any two steps; the   *)
(* keyboard and its controller go on all the time, and keys may be pressed *)
(* before anybody is ready for them.  Every step may fail that can fail in *)
(* this kernel.  The inner work of the allocators, the scheduler and the   *)
(* process manager is in modules of their own.                             *)
(***************************************************************************)
EXTENDS Interrupts, KeyboardController

CONSTANT
  RegionTypes   \* what kernelRegion->Type may be: GetBestMemRegion leaves it
                \* uninitialized when it finds no region

ASSUME KeyboardLineAssumption == 1 \in Lines

VARIABLES
  stage,     \* where kernel_main is
  region,    \* kernelRegion->Type
  stacks,    \* the entries IST1 .. IST7 of _tss[0] that are set
  gdt,       \* _gdts[0].Table up to NumEntries, and with it the busy bit
  gdtLimit,  \* how many entries lgdt has loaded
  taskReg,   \* the selector ltr has loaded, or 0
  built,     \* the parts SwapIn has initialized
  part,      \* the one it initializes next
  isLoaded,  \* Kernel::_isLoaded
  codes      \* the scan codes KBHandler has pushed

tables == <<stacks, gdt, gdtLimit, taskReg>>
boot == <<region, built, part, isLoaded, codes>>
vars == <<stage, boot, tables, interruptVars, keyboardVars>>

\* The parts of "if (!_isLoaded)" before the keyboard, in order.
BuildOrder == <<"heap", "stacks", "scheduler", "processes", "drivers", "vga">>

Parts == {BuildOrder[i] : i \in DOMAIN BuildOrder}

Stages == {"Initialize", "tables", "idt", "SwapIn", "tss", "swapInIDT", "enable",
           "build", "keyboard", "install", "unmask", "memoryTests", "start",
           "running", "returned", "debugger"}

Descriptors == {"null", "code", "tss", "tss high", "busy tss"}

TypeOK ==
  /\ InterruptsTypeOK /\ KeyboardTypeOK
  /\ stage \in Stages /\ region \in RegionTypes
  /\ stacks \subseteq 1 .. 7
  /\ gdt \in Seq(Descriptors) /\ Len(gdt) <= 8
  /\ gdtLimit \in 0 .. 8 /\ taskReg \in {0, 16}
  /\ built \subseteq Parts
  /\ part \in 1 .. Len(BuildOrder) + 1
  /\ isLoaded \in BOOLEAN
  /\ codes \in Nat

\* Kernel::Kernel and the managers' constructors.
Init ==
  /\ InterruptsInit /\ KeyboardInit
  /\ stage = "Initialize" /\ region \in RegionTypes
  /\ stacks = {} /\ gdt = <<>> /\ gdtLimit = 0 /\ taskReg = 0
  /\ built = {} /\ part = 1 /\ isLoaded = FALSE /\ codes = 0

\* The boot thread goes on when no interrupt is being handled.
At(name) == stage = name /\ vector = NoVector
-----------------------------------------------------------------------------
(* GDTManager and TSSManager. *)

TSS_SELECTOR  == 16     \* GLOBAL_DESCRIPTOR_TABLE_TSS
CODE_SELECTOR == 8      \* GLOBAL_DESCRIPTOR_TABLE_KERNEL_CODE_INDEX

\* A descriptor of 64 bits is one entry, the one of 128 bits of a TSS is two.
AddEntry(table, descriptor) ==
  table \o IF descriptor = "tss" THEN <<"tss", "tss high">> ELSE <<descriptor>>

\* A new table begins with a null descriptor.
AllocateGDT == <<"null">>

GDTOfInitialize == AddEntry(AddEntry(AllocateGDT, "code"), "tss")

\* SetStack refuses other indices; the rest is in the TSS already.
SetStacks(indices) == stacks \cup (indices \cap 1 .. 7)

\* The index of a selector in the table, which starts at 1 here.
Entry(selector) == selector \div 8 + 1

DescriptorAt(selector) ==
  IF Entry(selector) \in 1 .. gdtLimit THEN gdt[Entry(selector)] ELSE "none"
-----------------------------------------------------------------------------
(* Kernel::Initialize. *)

\* The page allocator takes RAM only; then the identity map and CR3.
InitializeMemory ==
  /\ At("Initialize")
  /\ stage' = IF region = "RAM" THEN "tables" ELSE "returned"
  /\ UNCHANGED <<boot, tables, interruptVars, keyboardVars>>

\* Fault: one stack too few, as if number 7 were set elsewhere.
InitializeTables_SixStacks ==
  /\ At("tables")
  /\ stacks' = SetStacks(1 .. 6)
  /\ gdt' = GDTOfInitialize
  /\ stage' = "idt"
  /\ UNCHANGED <<boot, gdtLimit, taskReg, interruptVars, keyboardVars>>

\* AllocateTSS, the seven stacks, AllocateGDT and its entries.
InitializeTables ==
  /\ At("tables")
  /\ stacks' = SetStacks(1 .. 7)
  /\ gdt' = GDTOfInitialize
  /\ stage' = "idt"
  /\ UNCHANGED <<boot, gdtLimit, taskReg, interruptVars, keyboardVars>>

\* The handlers of the exceptions, and their stacks.
ExceptionHandlers ==
  [v \in {0, 4, 5, 6, 8, 10, 11, 12, 13, 14, 17, 18} |->
     CASE v = 13 -> Gate("GPHandler", 1)
       [] v = 14 -> Gate("PageFaultHandler", 2)
       [] v = 11 -> Gate("StackSegmentFaultHandler", 3)
       [] v = 12 -> Gate("StackSegmentFaultHandler", 4)
       [] v = 10 -> Gate("InvalidTSSHandler", 5)
       [] v = 8  -> Gate("DoubleFaultHandler", 6)
       [] v = 0  -> Gate("DivideError", 0)
       [] v = 5  -> Gate("BoundRangeHandler", 0)
       [] v = 18 -> Gate("MachineCheckHandler", 0)
       [] v = 4  -> Gate("OverflowHandler", 0)
       [] v = 17 -> Gate("AlignmentCheckHandler", 0)
       [] v = 6  -> Gate("InvalidOpCodeHandler", 0)]

\* cli, Remap, AllocateIDT and the handlers.
InitializeIDT ==
  /\ At("idt")
  /\ interruptFlag' = FALSE
  /\ Remap(32)
  /\ AllocateIDT(ExceptionHandlers)
  /\ stage' = "SwapIn"
  /\ UNCHANGED <<boot, tables, idtEntries, vector, handled, keyboardVars>>
-----------------------------------------------------------------------------
(* Kernel::SwapIn, which kernel_main calls again whenever it returns. *)

SwapInGDT ==
  /\ At("SwapIn")
  /\ gdtLimit' = Len(gdt)
  /\ stage' = "tss"
  /\ UNCHANGED <<boot, stacks, gdt, taskReg, interruptVars, keyboardVars>>

\* Fault: SwapIn passes over the TSS when it was loaded before.
SwapInTSS_Skips ==
  /\ At("tss")
  /\ stage' = "swapInIDT"
  /\ IF taskReg # 0 THEN UNCHANGED tables
     ELSE /\ taskReg' = TSS_SELECTOR
          /\ gdt' = [gdt EXCEPT ![Entry(TSS_SELECTOR)] = "busy tss"]
          /\ UNCHANGED <<stacks, gdtLimit>>
  /\ UNCHANGED <<boot, interruptVars, keyboardVars>>

\* ltr marks the descriptor busy; of a descriptor that is not an available
\* TSS it makes a general protection fault, whose handler waits for a
\* debugger with interrupts off.
SwapInTSS ==
  /\ At("tss")
  /\ IF DescriptorAt(TSS_SELECTOR) = "tss"
       THEN /\ taskReg' = TSS_SELECTOR
            /\ gdt' = [gdt EXCEPT ![Entry(TSS_SELECTOR)] = "busy tss"]
            /\ stage' = "swapInIDT"
            /\ UNCHANGED interruptVars
       ELSE /\ stage' = "debugger"
            /\ interruptFlag' = FALSE
            /\ UNCHANGED <<gdt, taskReg, idt, pic, vector, handled>>
  /\ UNCHANGED <<boot, stacks, gdtLimit, keyboardVars>>

SwapInInterrupts ==
  /\ At("swapInIDT")
  /\ SwapInIDT
  /\ stage' = "enable"
  /\ UNCHANGED <<boot, tables, gates, pic, vector, handled, keyboardVars>>

EnableInterrupts ==
  /\ At("enable")
  /\ interruptFlag' = TRUE
  /\ stage' = IF isLoaded THEN "start" ELSE "build"
  /\ part' = 1
  /\ UNCHANGED <<region, built, isLoaded, codes, tables, idt, pic, vector, handled, keyboardVars>>

\* The heap, the stack allocator, the scheduler, the process manager (which
\* installs its two handlers), the driver manager and the screen.
Build ==
  /\ At("build")
  /\ built' = built \cup {BuildOrder[part]}
  /\ part' = part + 1
  /\ stage' = IF part = Len(BuildOrder) THEN "keyboard" ELSE "build"
  /\ gates' = IF BuildOrder[part] # "processes" THEN gates
              ELSE [gates EXCEPT ![112] = Gate("ProcYeildHandler", 7),
                                 ![113] = Gate("ProcExitHandler", 7)]
  /\ UNCHANGED <<region, isLoaded, codes, tables, interruptFlag, idtEntries, pic,
                 vector, handled, keyboardVars>>

LoadKeyboard ==
  /\ At("keyboard")
  /\ \/ LoadStep /\ UNCHANGED stage
     \/ LoadEnds /\ stage' = "install"
     \/ LoadFails /\ stage' = "SwapIn"
  /\ UNCHANGED <<boot, tables, interruptVars>>

InstallKeyboardHandler ==
  /\ At("install")
  /\ InstallHandler(33, "KBHandler", 0)
  /\ stage' = "unmask"
  /\ UNCHANGED <<boot, tables, interruptFlag, idtEntries,
                 pic, vector, handled, keyboardVars>>

UnmaskKeyboard ==
  /\ At("unmask")
  /\ ClearMask(1)
  /\ stage' = "memoryTests"
  /\ UNCHANGED <<boot, tables, interruptFlag, idt, offset1,
                 requested, inService, vector, handled, keyboardVars>>

\* The tests of the heap (Flags is 0b10 in kernel_main), which end with
\* RES_NOT_AVAILABLE when the heap does not give a freed block out again.
MemoryTests ==
  /\ At("memoryTests")
  /\ \/ stage' = "start" /\ isLoaded' = TRUE
     \/ stage' = "SwapIn" /\ UNCHANGED isLoaded
  /\ UNCHANGED <<region, built, part, codes, tables, interruptVars, keyboardVars>>

\* The process manager, the scheduler and the driver manager (which has no
\* driver) are swapped in, and the terminal is started on the boot thread.
StartTerminal ==
  /\ At("start")
  /\ stage' = "running"
  /\ UNCHANGED <<boot, tables, interruptVars, keyboardVars>>

\* The processes of the kernel: their interrupts 0x70 and 0x71 run with
\* interrupts off, and return.
Processes ==
  /\ At("running")
  /\ interruptFlag' = ~interruptFlag
  /\ UNCHANGED <<stage, boot, tables, idt, pic, vector,
                 handled, keyboardVars>>

\* WaitForDebugger, and the hlt after kernel_main.
Stopped ==
  /\ stage \in {"returned", "debugger"} /\ vector = NoVector
  /\ UNCHANGED vars
-----------------------------------------------------------------------------
(* The devices and the interrupts. *)

\* A byte arrives from the keyboard or its controller.
KeyboardSends ==
  /\ Arrive
  /\ IF RaisesLine THEN Raise(1) ELSE UNCHANGED requested
  /\ UNCHANGED <<stage, boot, tables, interruptFlag, idt,
                 offset1, masked, inService, vector, handled, step, kbLoaded>>

KeyIsPressed ==
  /\ PressKey
  /\ UNCHANGED <<stage, boot, tables, interruptVars, step, kbLoaded>>

\* The other devices, the timer among them.
DeviceRaises(line) ==
  /\ line \notin requested
  /\ Raise(line)
  /\ UNCHANGED <<stage, boot, tables, interruptFlag, idt,
                 offset1, masked, inService, vector, handled, keyboardVars>>

Interrupt(line) ==
  /\ Acknowledge(line)
  /\ UNCHANGED <<stage, boot, tables, keyboardVars>>

\* IRQHandle calls the handler of the vector; KBHandler reads the byte and
\* pushes it.
Handler ==
  /\ vector # NoVector /\ ~handled
  /\ handled' = TRUE
  /\ IF gates[vector].handler = "KBHandler"
       THEN ReadDataReg /\ codes' = codes + 1
       ELSE UNCHANGED <<controller, codes>>
  /\ UNCHANGED <<stage, region, built, part, isLoaded, tables, interruptFlag, idt, pic,
                 vector, step, kbLoaded>>

ReturnFromInterrupt ==
  /\ EndOfInterrupt
  /\ UNCHANGED <<stage, boot, tables, keyboardVars>>

BootThread ==
  \/ InitializeMemory \/ InitializeTables \/ InitializeIDT
  \/ SwapInGDT \/ SwapInTSS \/ SwapInInterrupts \/ EnableInterrupts
  \/ Build \/ LoadKeyboard \/ InstallKeyboardHandler \/ UnmaskKeyboard
  \/ MemoryTests \/ StartTerminal

Next ==
  \/ BootThread \/ Processes \/ Stopped
  \/ KeyboardSends \/ KeyIsPressed
  \/ \E line \in Lines \ {1} : DeviceRaises(line)
  \/ \E line \in Lines : Interrupt(line)
  \/ Handler \/ ReturnFromInterrupt

Spec == Init /\ [][Next]_vars

\* The processor goes on, answers arrive, and a request that can be taken
\* again and again is taken: a device that keeps its line up waits for the
\* moment when interrupts are on.
FairSpec ==
  /\ Spec
  /\ WF_vars(BootThread) /\ WF_vars(Processes)
  /\ WF_vars(Handler) /\ WF_vars(ReturnFromInterrupt)
  /\ WF_vars(KeyboardSends)
  /\ \A line \in Lines : SF_vars(Interrupt(line))
-----------------------------------------------------------------------------
(* Properties. *)

\* Interrupts are on from SwapIn's sti, long before the keyboard is loaded
\* and its handler installed (kernel.cpp:376, 439, 448): a keyboard interrupt
\* is nevertheless never taken before KBHandler is in its gate, the driver is
\* loaded and every part that the handler or a process needs is there.
KeyboardInterruptsReachTheDriver ==
  vector = 33 =>
    /\ gates[33].handler = "KBHandler" /\ kbLoaded
    /\ built = Parts

\* From the first access to the heap on, and whenever interrupts are on, a
\* page fault finds its handler, on a stack of its own: every gate with a
\* stack is in the half of the table that is loaded and has its stack in the
\* TSS, and the code segment and the TSS are where their selectors say.
FaultsCanBeHandled ==
  stage = "build" \/ built # {} \/ interruptFlag =>
    /\ gates[14] = Gate("PageFaultHandler", 2)
    /\ \A v \in Vectors : gates[v].ist # 0 => gates[v].ist \in stacks /\ v < idtEntries
    /\ taskReg = TSS_SELECTOR /\ DescriptorAt(taskReg) = "busy tss"
    /\ DescriptorAt(CODE_SELECTOR) = "code"

\* kernel_main calls SwapIn again whenever it fails, with _isLoaded still
\* false: the heap and what lives in it are nevertheless never initialized a
\* second time under the pointers into it, as that SwapIn does not get past
\* the TSS, which is busy.
NothingIsBuiltTwice ==
  stage = "build" => BuildOrder[part] \notin built

\* In the running kernel no byte of the keyboard is left in the controller,
\* which would send no other: its edge was not lost while the line was masked
\* or in service or interrupts were off, and not handled by anybody else.
KeysAreRead == (stage = "running" /\ outputFull) ~> ~outputFull

\* The waits of the driver have no limit and take data for the status
\* (drvr_ps2kybd.h:91): Load comes to an end all the same, when the firmware
\* has left interrupts of port 1 on and those of port 2 off, no key is
\* pressed and the controller is not broken.  Any of these can keep it.
LoadReturns ==
  (stage = "keyboard" /\ step = 1 /\ Bit(config, 0) /\ ~Bit(config, 1))
    ~> (stage # "keyboard" \/ keysSent > 0 \/ data \in SelfTests \ {85})
-----------------------------------------------------------------------------
(* The inductive invariant. *)

TypesOfTables ==
  /\ stage \in Stages
  /\ gates = [v \in Vectors |-> gates[v]]
  /\ \A v \in Vectors : gates[v].ist \in 0 .. 7
  /\ stacks \subseteq 1 .. 7 /\ taskReg \in {0, TSS_SELECTOR}

Early == stage \in {"Initialize", "tables", "idt", "returned"}

\* What Initialize leaves: the tables, the controllers masked but for the
\* keyboard's line, and that one only when there is somebody to take its
\* interrupts.
Initialized ==
  /\ ~Early \/ stage = "idt" => stacks = 1 .. 7
  /\ ~Early =>
    /\ offset1 = 32
    /\ gates[14] = Gate("PageFaultHandler", 2)
    /\ \A v \in Vectors : gates[v].ist # 0 => v < 128
    /\ 1 \notin masked => gates[33].handler = "KBHandler" /\ kbLoaded /\ built = Parts
    /\ stage \in {"install", "unmask"} => kbLoaded
    /\ stage = "unmask" => gates[33].handler = "KBHandler"

\* The descriptor of the TSS is busy once ltr has loaded it.
TaskDescriptor ==
  /\ ~Early \/ stage = "idt" =>
       /\ gdt \in Seq(Descriptors) /\ Len(gdt) = 4 /\ gdt[2] = "code"
       /\ gdt[3] = IF taskReg = 0 THEN "tss" ELSE "busy tss"
  /\ stage = "tss" \/ taskReg # 0 => gdtLimit = 4

\* The first call of SwapIn up to its sti: nothing is built, and nothing can
\* interrupt.
FirstSwapIn ==
  /\ taskReg = 0 \/ stage \in {"swapInIDT", "enable"} =>
       built = {} /\ ~isLoaded /\ ~interruptFlag /\ vector = NoVector
  /\ taskReg = 0 => Early \/ stage \in {"SwapIn", "tss"}

\* From ltr on.
TablesLoaded ==
  taskReg # 0 =>
    /\ ~Early
    /\ stage # "swapInIDT" => idtEntries = 128
    /\ stage = "build" => part \in 1 .. 6 /\ built = {BuildOrder[i] : i \in 1 .. part - 1}
    /\ stage \notin {"swapInIDT", "enable", "build"} => built = Parts

IndInv ==
  /\ TypesOfTables /\ Initialized /\ TaskDescriptor /\ FirstSwapIn /\ TablesLoaded
  /\ KeyboardInterruptsReachTheDriver
=============================================================================

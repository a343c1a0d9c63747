----------------------------- MODULE Interrupts -----------------------------
(***************************************************************************)
(* How a device reaches its handler: the interrupt descriptor table and    *)
(* IRQHandle (kernel_interrupt.cpp), the driver of the two 8259 interrupt  *)
(* controllers (kernel_pic.cpp), and, modelled from how this code uses     *)
(* them, the processor's interrupt flag and the controllers themselves.    *)
(*                                                                         *)
(* A request is latched when its line rises, whether the line is masked or *)
(* not.  An interrupt comes in three steps, between which devices go on:   *)
(* the processor acknowledges it, its handler runs, and IRQHandle tells    *)
(* the controller and returns.                                             *)
(*                                                                         *)
(* One table of the MAX_IDT is ever allocated, so the handle is left out.  *)
(* The operators without a guard are calls: KernelLifecycle says when.     *)
(***************************************************************************)
EXTENDS Integers

CONSTANTS
  Lines,      \* the lines of the controllers with a device on them, in 0 .. 15
  NoVector    \* no interrupt is being handled

ASSUME LinesAssumption == Lines \subseteq 0 .. 15

VARIABLES
  interruptFlag,  \* RFLAGS.IF
  idtEntries,     \* how many gates lidt has loaded; then __global_idt_manager__ is set
  gates,          \* _idts[0]: Functions[v].Handler and Table[v].IST
  offset1,        \* PICDriver::_off1
  masked,         \* the lines whose mask bit is set
  requested,      \* the lines with a latched request
  inService,      \* the lines acknowledged whose interrupt has not ended
  vector,         \* the interrupt the processor is handling, or NoVector
  handled         \* its handler has returned to IRQHandle

pic == <<offset1, masked, requested, inService>>
idt == <<idtEntries, gates>>
interruptVars == <<interruptFlag, idt, pic, vector, handled>>

IRQ_COUNT == 256
Vectors == 0 .. IRQ_COUNT - 1

ASSUME NoVectorAssumption == NoVector \notin Vectors

\* What InstallHandler writes: the function that IRQHandle calls, and the
\* stack of the TSS that the processor changes to (0 for none).
Gate(handler, ist) == [handler |-> handler, ist |-> ist]

\* The functions that this kernel puts into gates.
Handlers ==
  {"none", "DefaultInterruptHandler", "GPHandler", "PageFaultHandler",
   "StackSegmentFaultHandler", "InvalidTSSHandler", "DoubleFaultHandler", "DivideError",
   "BoundRangeHandler", "MachineCheckHandler", "OverflowHandler", "AlignmentCheckHandler",
   "InvalidOpCodeHandler", "ProcYeildHandler", "ProcExitHandler", "KBHandler"}

InterruptsTypeOK ==
  /\ interruptFlag \in BOOLEAN /\ idtEntries \in 0 .. IRQ_COUNT /\ handled \in BOOLEAN
  /\ gates \in [Vectors -> [handler : Handlers, ist : 0 .. 7]]
  /\ offset1 \in {0, 32}
  /\ masked \subseteq 0 .. 15 /\ inService \subseteq 0 .. 15
  /\ requested \subseteq Lines
  /\ vector \in Vectors \cup {NoVector}

\* The boot loader leaves with interrupts off and any lines unmasked.
InterruptsInit ==
  /\ interruptFlag = FALSE
  /\ idtEntries = 0
  /\ gates = [v \in Vectors |-> Gate("none", 0)]
  /\ offset1 = 0
  /\ masked \in {{}, 0 .. 15}
  /\ requested = {} /\ inService = {}
  /\ vector = NoVector /\ handled = FALSE
-----------------------------------------------------------------------------
(* IDTManager. *)

InstallHandler(v, handler, ist) ==
  gates' = [gates EXCEPT ![v] = Gate(handler, ist)]

\* A default handler for all vectors, then those of table in its place.
AllocateIDT(table) ==
  gates' = [v \in Vectors |-> IF v \in DOMAIN table THEN table[v]
                              ELSE Gate("DefaultInterruptHandler", 0)]

\* cli, lidt; __global_idt_manager__ = this.  The limit is given as 8 bytes for
\* a gate, which has 16: the table that is loaded ends with vector 127.
SwapInIDT ==
  /\ interruptFlag' = FALSE
  /\ idtEntries' = (IRQ_COUNT * 8) \div 16
-----------------------------------------------------------------------------
(* PICDriver. *)

\* Fault: the masks that were read before the initialization are written back.
Remap_RestoresMasks(offset) ==
  /\ offset1' = offset
  /\ requested' = {} /\ inService' = {}
  /\ UNCHANGED masked

\* Fault: the offsets of the two controllers are swapped.
Remap_Swapped(offset) ==
  /\ offset1' = offset + 8
  /\ requested' = {} /\ inService' = {}
  /\ masked' = 0 .. 15

\* The initialization forgets every request and every interrupt in service;
\* then 0xFF is written to both masks.
Remap(offset) ==
  /\ offset1' = offset
  /\ requested' = {} /\ inService' = {}
  /\ masked' = 0 .. 15

ClearMask(line) == masked' = masked \ {line}

Highest(lines) == {l \in lines : \A k \in lines : l <= k}

\* Fault: the controllers are never told that an interrupt has ended.
SendEOI_Never(irq) == UNCHANGED inService

\* An EOI ends the interrupt of highest priority in service: on the first
\* controller, and for irq >= 8 on the second one too.
SendEOI(irq) ==
  inService' = (inService \ Highest(inService \cap 0 .. 7))
                 \ (IF irq >= 8 THEN Highest(inService \cap 8 .. 15) ELSE {})
-----------------------------------------------------------------------------
(* The controllers and the processor. *)

\* A rising edge on a line.
Raise(line) == requested' = requested \cup {line}

\* The second controller, lines 8 to 15, is behind line 2 of the first.
Priority(line) == IF line < 3 THEN line ELSE IF line < 8 THEN line + 8 ELSE line - 6

Deliverable(line) ==
  /\ interruptFlag
  /\ line \in requested \ masked
  /\ line >= 8 => 2 \notin masked
  /\ \A l \in inService : Priority(line) < Priority(l)

\* The processor takes the most urgent request; the gates are interrupt
\* gates (Attr 0x8E), so its handler runs with interrupts off.
Acknowledge(line) ==
  /\ Deliverable(line)
  /\ \A l \in Lines : Deliverable(l) => Priority(line) <= Priority(l)
  /\ vector' = line + offset1
  /\ handled' = FALSE
  /\ interruptFlag' = FALSE
  /\ requested' = requested \ {line}
  /\ inService' = inService \cup {line} \cup (IF line >= 8 THEN {2} ELSE {})
  /\ UNCHANGED <<idt, offset1, masked>>

\* IRQHandle after its handler has returned: <= where the first controller
\* ends before offset1 + 8.  Then iretq.
EndOfInterrupt ==
  /\ vector # NoVector /\ handled
  /\ IF vector \in offset1 .. offset1 + 8
       THEN SendEOI(vector - 32) ELSE UNCHANGED inService
  /\ vector' = NoVector /\ handled' = FALSE
  /\ interruptFlag' = TRUE
  /\ UNCHANGED <<idt, offset1, masked, requested>>
=============================================================================

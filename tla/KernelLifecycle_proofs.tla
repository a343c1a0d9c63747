----------------------- MODULE KernelLifecycle_proofs -----------------------
(***************************************************************************)
(* Interrupts, faults and failures never find the kernel half built, for   *)
(* all devices, whatever the keyboard, its controller and its firmware do. *)
(***************************************************************************)
EXTENDS KernelLifecycle, SequenceTheorems, TLAPS

\* The parts that SwapIn builds are six different ones.
LEMMA PartFacts ==
  /\ Len(BuildOrder) = 6 /\ {BuildOrder[i] : i \in 1 .. 1 - 1} = {}
  /\ \A p \in 1 .. 6 : BuildOrder[p] \notin {BuildOrder[i] : i \in 1 .. p - 1}
  /\ \A p \in 1 .. 6 : {BuildOrder[i] : i \in 1 .. p - 1} \cup {BuildOrder[p]}
                         = {BuildOrder[i] : i \in 1 .. p}
  /\ \A p \in 1 .. 6 : {BuildOrder[i] : i \in 1 .. p - 1} # Parts
  /\ Parts = {BuildOrder[i] : i \in 1 .. 6}
<1>1. DOMAIN BuildOrder = 1 .. 6 /\ Len(BuildOrder) = 6
  BY DEF BuildOrder
<1>2. \A p, i \in 1 .. 6 : i < p => BuildOrder[i] # BuildOrder[p]
  BY DEF BuildOrder
<1>3. \A p \in 1 .. 6 : BuildOrder[p] \notin {BuildOrder[i] : i \in 1 .. p - 1}
  BY <1>2
<1>4. \A p \in 1 .. 6 : {BuildOrder[i] : i \in 1 .. p - 1} \cup {BuildOrder[p]}
                         = {BuildOrder[i] : i \in 1 .. p}
  <2> SUFFICES ASSUME NEW p \in 1 .. 6
               PROVE  {BuildOrder[i] : i \in 1 .. p - 1} \cup {BuildOrder[p]}
                        = {BuildOrder[i] : i \in 1 .. p}
    OBVIOUS
  <2>1. 1 .. p = (1 .. p - 1) \cup {p}
    OBVIOUS
  <2> QED BY <2>1
<1>5. Parts = {BuildOrder[i] : i \in 1 .. 6}
  BY <1>1 DEF Parts
<1>6. \A p \in 1 .. 6 : {BuildOrder[i] : i \in 1 .. p - 1} # Parts
  <2> SUFFICES ASSUME NEW p \in 1 .. 6
               PROVE  {BuildOrder[i] : i \in 1 .. p - 1} # Parts
    OBVIOUS
  <2>1. BuildOrder[p] \in Parts
    BY <1>5
  <2> QED BY <2>1, <1>3
<1>7. {BuildOrder[i] : i \in 1 .. 1 - 1} = {}
  OBVIOUS
<1> QED BY <1>6, <1>7, <1>1, <1>3, <1>4, <1>5, <1>6

\* The vectors that the kernel installs a handler for in SwapIn.
LEMMA VectorFacts == {14, 33, 112, 113} \subseteq Vectors /\ NoVector # 33
BY NoVectorAssumption DEF Vectors, IRQ_COUNT

\* The selectors of the code and of the TSS are right for the table that
\* Initialize fills.
LEMMA TableFacts ==
  /\ GDTOfInitialize \in Seq(Descriptors) /\ Len(GDTOfInitialize) = 4
  /\ GDTOfInitialize[2] = "code" /\ GDTOfInitialize[3] = "tss"
  /\ Entry(TSS_SELECTOR) = 3 /\ Entry(CODE_SELECTOR) = 2
<1>1. /\ "null" \in Descriptors /\ "code" \in Descriptors
      /\ "tss" \in Descriptors /\ "tss high" \in Descriptors
  BY DEF Descriptors
<1>2. GDTOfInitialize = (<<"null">> \o <<"code">>) \o <<"tss", "tss high">>
  BY DEF GDTOfInitialize, AddEntry, AllocateGDT
<1>3. Entry(TSS_SELECTOR) = 3 /\ Entry(CODE_SELECTOR) = 2
  BY DEF Entry, TSS_SELECTOR, CODE_SELECTOR
<1>4. ASSUME NEW n \in Descriptors, NEW c \in Descriptors,
             NEW d \in Descriptors, NEW e \in Descriptors,
             GDTOfInitialize = (<<n>> \o <<c>>) \o <<d, e>>
      PROVE  /\ GDTOfInitialize \in Seq(Descriptors) /\ Len(GDTOfInitialize) = 4
             /\ GDTOfInitialize[2] = c /\ GDTOfInitialize[3] = d
  BY <1>4
<1> QED BY <1>1, <1>2, <1>3, <1>4

\* Nothing is built before the first part.
LEMMA FirstPart == {} = {BuildOrder[i] : i \in 1 .. 1 - 1} /\ 1 \in 1 .. 6
OBVIOUS

\* The number of the next part.
LEMMA NextPart ==
  ASSUME NEW p \in 1 .. 6, NEW next, next = p + 1
  PROVE  next - 1 = p /\ (p # 6 => next \in 1 .. 6)
OBVIOUS

\* The keyboard's line is masked after the initialization.
LEMMA RemapFacts ==
  ASSUME Remap(32)
  PROVE  offset1' = 32 /\ 1 \in masked'
BY DEF Remap

\* The exceptions with a stack have a gate in the half that is loaded.
LEMMA ExceptionFacts ==
  ASSUME AllocateIDT(ExceptionHandlers)
  PROVE  /\ gates' = [v \in Vectors |-> gates'[v]]
         /\ \A v \in Vectors : gates'[v].ist \in 0 .. 7
         /\ gates'[14] = Gate("PageFaultHandler", 2)
         /\ \A v \in Vectors : gates'[v].ist # 0 => v < 128
<1>1. \A v \in DOMAIN ExceptionHandlers : ExceptionHandlers[v].ist \in 0 .. 7
  BY DEF ExceptionHandlers, Gate
<1>2. gates' = [v \in Vectors |-> IF v \in DOMAIN ExceptionHandlers THEN ExceptionHandlers[v]
                                ELSE Gate("DefaultInterruptHandler", 0)]
  BY DEF AllocateIDT
<1>3. \A v \in Vectors : gates'[v].ist \in 0 .. 7
  BY <1>1, <1>2 DEF Gate
<1>4. DOMAIN ExceptionHandlers = {0, 4, 5, 6, 8, 10, 11, 12, 13, 14, 17, 18}
  BY DEF ExceptionHandlers
<1>5. \A v \in Vectors : gates'[v].ist # 0 => v < 128
  <2> SUFFICES ASSUME NEW v \in Vectors, v \notin DOMAIN ExceptionHandlers
               PROVE  gates'[v].ist = 0
    BY <1>4
  <2> QED BY <1>2 DEF Gate
<1>6. gates'[14] = ExceptionHandlers[14]
  BY <1>2, <1>4 DEF Vectors, IRQ_COUNT
<1>7. ExceptionHandlers[14] = Gate("PageFaultHandler", 2)
  BY SMTT(40) DEF ExceptionHandlers
<1> QED BY <1>2, <1>3, <1>5, <1>6, <1>7

\* The gates that Initialize leaves, and that every later handler keeps.
GatesAreRight(table) ==
  /\ table = [v \in Vectors |-> table[v]]
  /\ \A v \in Vectors : table[v].ist \in 0 .. 7 /\ (table[v].ist # 0 => v < 128)

\* What Build does to the gates: the handlers of the process manager.
LEMMA TwoGatesFacts ==
  ASSUME GatesAreRight(gates),
         gates' = [gates EXCEPT ![112] = Gate("ProcYeildHandler", 7),
                                ![113] = Gate("ProcExitHandler", 7)]
  PROVE  GatesAreRight(gates') /\ gates'[14] = gates[14] /\ gates'[33] = gates[33]
<1>1. gates' = [v \in Vectors |-> IF v = 113 THEN Gate("ProcExitHandler", 7)
                               ELSE IF v = 112 THEN Gate("ProcYeildHandler", 7) ELSE gates[v]]
  BY DEF GatesAreRight
<1>2. ASSUME NEW v \in Vectors
      PROVE  gates'[v].ist \in 0 .. 7 /\ (gates'[v].ist # 0 => v < 128)
  <2>1. gates[v].ist \in 0 .. 7 /\ (gates[v].ist # 0 => v < 128)
    BY DEF GatesAreRight
  <2>2. gates'[v] = IF v = 113 THEN Gate("ProcExitHandler", 7)
                  ELSE IF v = 112 THEN Gate("ProcYeildHandler", 7) ELSE gates[v]
    BY <1>1
  <2> QED BY ONLY <2>1, <2>2 DEF Gate
<1>3. gates' = [v \in Vectors |-> gates'[v]]
  BY <1>1
<1>4. GatesAreRight(gates')
  BY <1>2, <1>3 DEF GatesAreRight
<1>5. gates'[14] = gates[14] /\ gates'[33] = gates[33]
  BY <1>1, VectorFacts DEF Gate
<1> QED BY <1>4, <1>5

\* What InstallKeyboardHandler does to the gates.
LEMMA KeyboardGateFacts ==
  ASSUME GatesAreRight(gates), gates' = [gates EXCEPT ![33] = Gate("KBHandler", 0)]
  PROVE  GatesAreRight(gates') /\ gates'[14] = gates[14] /\ gates'[33].handler = "KBHandler"
<1>1. gates' = [v \in Vectors |-> IF v = 33 THEN Gate("KBHandler", 0) ELSE gates[v]]
  BY DEF GatesAreRight
<1>2. ASSUME NEW v \in Vectors
      PROVE  gates'[v].ist \in 0 .. 7 /\ (gates'[v].ist # 0 => v < 128)
  <2>1. gates[v].ist \in 0 .. 7 /\ (gates[v].ist # 0 => v < 128)
    BY DEF GatesAreRight
  <2>2. gates'[v] = IF v = 33 THEN Gate("KBHandler", 0) ELSE gates[v]
    BY <1>1
  <2> QED BY ONLY <2>1, <2>2 DEF Gate
<1>3. gates' = [v \in Vectors |-> gates'[v]]
  BY <1>1
<1>4. GatesAreRight(gates')
  BY <1>2, <1>3 DEF GatesAreRight
<1>5. gates'[14] = gates[14] /\ gates'[33].handler = "KBHandler"
  BY <1>1, VectorFacts DEF Gate
<1> QED BY <1>4, <1>5

\* ltr changes the descriptor of the TSS alone.
LEMMA BusyTable ==
  ASSUME NEW table \in Seq(Descriptors), Len(table) = 4, NEW busy \in Descriptors,
         NEW new, new = [table EXCEPT ![3] = busy]
  PROVE  /\ new \in Seq(Descriptors) /\ Len(new) = 4
         /\ new[2] = table[2] /\ new[3] = busy
<1>1. PICK i \in Nat : i = 3 /\ i \in 1 .. Len(table)
  OBVIOUS
<1>2. new = [table EXCEPT ![i] = busy]
  BY <1>1
<1>3. /\ new \in Seq(Descriptors) /\ Len(new) = Len(table)
      /\ \A j \in 1 .. Len(table) : new[j] = IF j = i THEN busy ELSE table[j]
  BY <1>1, <1>2, ExceptSeq
<1> QED BY <1>1, <1>3

\* The same for the tables of the kernel.
LEMMA BusyFacts ==
  ASSUME gdt \in Seq(Descriptors), Len(gdt) = 4, gdt' = [gdt EXCEPT ![3] = "busy tss"]
  PROVE  /\ gdt' \in Seq(Descriptors) /\ Len(gdt') = 4
         /\ gdt'[2] = gdt[2] /\ gdt'[3] = "busy tss"
<1>1. PICK busy \in Descriptors : busy = "busy tss"
  BY DEF Descriptors
<1>2. gdt' = [gdt EXCEPT ![3] = busy] /\ gdt \in Seq(Descriptors) /\ Len(gdt) = 4
  BY <1>1
<1>3. gdt' \in Seq(Descriptors) /\ Len(gdt') = 4 /\ gdt'[2] = gdt[2] /\ gdt'[3] = busy
  BY ONLY busy \in Descriptors, <1>2, BusyTable
<1> QED BY ONLY <1>1, <1>3

\* What lgdt has loaded is found by its selectors.
LEMMA DescriptorFacts ==
  ASSUME gdtLimit = 4
  PROVE  /\ DescriptorAt(TSS_SELECTOR) = gdt[3] /\ DescriptorAt(CODE_SELECTOR) = gdt[2]
         /\ TSS_SELECTOR # 0
BY TableFacts DEF DescriptorAt, TSS_SELECTOR

\* lidt loads half of the gates.
LEMMA LoadedFacts ==
  ASSUME SwapInIDT
  PROVE  interruptFlag' = FALSE /\ idtEntries' = 128
BY DEF SwapInIDT, IRQ_COUNT

\* The line of a vector.
LEMMA LineFacts ==
  ASSUME NEW line \in Lines, line + 32 = 33
  PROVE  line = 1
BY LinesAssumption

-----------------------------------------------------------------------------
\* Before Initialize.
LEMMA Initially == Init => IndInv
<1> SUFFICES ASSUME Init PROVE IndInv
  OBVIOUS
<1> USE DEF Init, InterruptsInit, KeyboardInit
<1>1. TypesOfTables
  BY DEF TypesOfTables, Stages, Gate
<1>2. vector # 33
  BY VectorFacts
<1> QED
  BY <1>1, <1>2 DEF IndInv, Early, Initialized, TaskDescriptor, FirstSwapIn, TablesLoaded,
     KeyboardInterruptsReachTheDriver

\* Initialize.
LEMMA InitializeStep ==
  ASSUME IndInv, InitializeMemory \/ InitializeTables \/ InitializeIDT
  PROVE  IndInv'
<1> USE DEF IndInv, TypesOfTables, Early, Initialized, TaskDescriptor, FirstSwapIn,
            TablesLoaded, KeyboardInterruptsReachTheDriver, At, Stages, boot, tables,
            interruptVars, idt, pic, keyboardVars
<1>1. vector' = NoVector /\ NoVector # 33
  BY VectorFacts DEF InitializeMemory, InitializeTables, InitializeIDT
<1>2. CASE InitializeMemory
  BY <1>1, <1>2 DEF InitializeMemory
<1>3. CASE InitializeTables
  BY <1>1, <1>3, TableFacts DEF InitializeTables, SetStacks
<1>4. CASE InitializeIDT
  <2>1. /\ gates' = [v \in Vectors |-> gates'[v]]
        /\ \A v \in Vectors : gates'[v].ist \in 0 .. 7
        /\ gates'[14] = Gate("PageFaultHandler", 2)
        /\ \A v \in Vectors : gates'[v].ist # 0 => v < 128
    BY <1>4, ExceptionFacts DEF InitializeIDT
  <2>2. offset1' = 32 /\ 1 \in masked'
    BY <1>4, RemapFacts DEF InitializeIDT
  <2>3. /\ stage' = "SwapIn" /\ interruptFlag' = FALSE
        /\ UNCHANGED <<boot, tables, idtEntries, kbLoaded>>
    BY <1>4 DEF InitializeIDT
  <2>4. stage = "idt" /\ stacks = 1 .. 7 /\ taskReg = 0
    BY <1>4 DEF InitializeIDT
  <2>5. built = {} /\ ~isLoaded
    BY <2>4
  <2>6. TypesOfTables' /\ TaskDescriptor' /\ TablesLoaded'
    BY <2>1, <2>3, <2>4
  <2>7. Initialized'
    <3>1. stage' = "SwapIn" /\ stacks' = 1 .. 7
      BY <2>3, <2>4
    <3> QED BY <2>1, <2>2, <3>1
  <2>8. FirstSwapIn' /\ KeyboardInterruptsReachTheDriver'
    BY <1>1, <2>3, <2>5
  <2> QED BY <2>6, <2>7, <2>8
<1> QED BY <1>2, <1>3, <1>4

\* SwapIn up to its sti.  A second call ends at ltr.
LEMMA SwapInStep ==
  ASSUME IndInv, SwapInGDT \/ SwapInTSS \/ SwapInInterrupts \/ EnableInterrupts
  PROVE  IndInv'
<1> USE DEF IndInv, TypesOfTables, Early, Initialized, TaskDescriptor, FirstSwapIn,
            TablesLoaded, KeyboardInterruptsReachTheDriver, At, Stages, boot, tables,
            interruptVars, idt, pic, keyboardVars
<1>1. vector' = NoVector /\ NoVector # 33
  BY VectorFacts DEF SwapInGDT, SwapInTSS, SwapInInterrupts, EnableInterrupts
<1>2. CASE SwapInGDT
  BY <1>1, <1>2 DEF SwapInGDT
<1>3. CASE SwapInTSS
  <2>1. stage = "tss" /\ gdtLimit = 4 /\ Len(gdt) = 4 /\ gdt \in Seq(Descriptors)
    BY <1>3 DEF SwapInTSS
  <2>2. DescriptorAt(TSS_SELECTOR) = gdt[3]
    BY <2>1, DescriptorFacts
  <2>3. CASE gdt[3] = "tss"
    <3>1. /\ taskReg' = TSS_SELECTOR /\ stage' = "swapInIDT"
          /\ gdt' = [gdt EXCEPT ![3] = "busy tss"]
          /\ UNCHANGED <<boot, stacks, gdtLimit, interruptVars, keyboardVars>>
      BY <1>3, <2>2, <2>3, TableFacts DEF SwapInTSS
    <3>2. taskReg = 0
      BY <2>1, <2>3
    <3>3. /\ gdt' \in Seq(Descriptors) /\ Len(gdt') = 4
          /\ gdt'[2] = "code" /\ gdt'[3] = "busy tss"
      BY <2>1, <3>1, BusyFacts
    <3>4. TSS_SELECTOR # 0
      BY <2>1, DescriptorFacts
    <3>5. TaskDescriptor'
      BY <2>1, <3>1, <3>3, <3>4
    <3>6. TypesOfTables' /\ Initialized' /\ KeyboardInterruptsReachTheDriver'
      BY <1>1, <2>1, <3>1
    <3>7. FirstSwapIn' /\ TablesLoaded'
      BY <2>1, <3>1, <3>2, <3>4
    <3> QED BY <3>5, <3>6, <3>7
  <2>4. CASE gdt[3] # "tss"
    <3>1. /\ stage' = "debugger" /\ interruptFlag' = FALSE
          /\ UNCHANGED <<boot, tables, idt, pic, vector, keyboardVars>>
      BY <1>3, <2>2, <2>4 DEF SwapInTSS
    <3>2. taskReg # 0
      BY <2>1, <2>4
    <3> QED BY <1>1, <2>1, <3>1, <3>2
  <2> QED BY <2>3, <2>4
<1>4. CASE SwapInInterrupts
  <2>1. stage = "swapInIDT" /\ stage' = "enable" /\ interruptFlag' = FALSE /\ idtEntries' = 128
    BY <1>4, LoadedFacts DEF SwapInInterrupts
  <2>2. UNCHANGED <<boot, tables, gates, pic, vector, handled, keyboardVars>>
    BY <1>4 DEF SwapInInterrupts
  <2> QED BY <1>1, <2>1, <2>2
<1>5. CASE EnableInterrupts
  <2>1. stage = "enable" /\ built = {} /\ ~isLoaded /\ taskReg # 0
    BY <1>5 DEF EnableInterrupts
  <2>2. stage' = "build" /\ part' = 1 /\ interruptFlag' = TRUE
    BY <1>5, <2>1 DEF EnableInterrupts
  <2>3. UNCHANGED <<built, isLoaded, tables, idt, pic, vector, keyboardVars>>
    BY <1>5 DEF EnableInterrupts
  <2>4. built' = {BuildOrder[i] : i \in 1 .. part' - 1} /\ part' \in 1 .. 6
    BY <2>1, <2>2, <2>3, FirstPart
  <2>5. TypesOfTables' /\ Initialized' /\ TaskDescriptor' /\ KeyboardInterruptsReachTheDriver'
    BY <1>1, <2>1, <2>2, <2>3
  <2>6. FirstSwapIn' /\ TablesLoaded'
    BY <2>1, <2>2, <2>3, <2>4
  <2> QED BY <2>5, <2>6
<1> QED BY <1>2, <1>3, <1>4, <1>5

\* The rest of SwapIn, and the processes.
LEMMA BuildStep ==
  ASSUME IndInv,
         \/ Build \/ LoadKeyboard \/ InstallKeyboardHandler \/ UnmaskKeyboard
         \/ MemoryTests \/ StartTerminal \/ Processes \/ Stopped
  PROVE  IndInv'
<1> USE DEF IndInv, TypesOfTables, Early, Initialized, TaskDescriptor, FirstSwapIn,
            TablesLoaded, KeyboardInterruptsReachTheDriver, At, Stages, boot, tables,
            interruptVars, idt, pic, keyboardVars, controller
<1>1. vector' = NoVector /\ NoVector # 33
  BY VectorFacts DEF Build, LoadKeyboard, InstallKeyboardHandler, UnmaskKeyboard, MemoryTests,
     StartTerminal, Processes, Stopped, vars
<1>2. CASE Build
  <2>1. stage = "build" /\ part \in 1 .. 6 /\ taskReg # 0
    BY <1>2 DEF Build
  <2>2. built' = {BuildOrder[i] : i \in 1 .. part}
    BY <1>2, <2>1, PartFacts DEF Build
  <2>3. /\ part' = part + 1
        /\ stage' = IF part = 6 THEN "keyboard" ELSE "build"
    BY <1>2, PartFacts DEF Build
  <2>4. UNCHANGED <<isLoaded, tables, interruptFlag, idtEntries, pic, vector, keyboardVars>>
    BY <1>2 DEF Build
  <2>5. GatesAreRight(gates') /\ gates'[14] = gates[14] /\ gates'[33] = gates[33]
    <3> GatesAreRight(gates)
      BY <2>1 DEF GatesAreRight
    <3>1. CASE gates' = gates
      BY <3>1
    <3>2. CASE gates' = [gates EXCEPT ![112] = Gate("ProcYeildHandler", 7),
                                      ![113] = Gate("ProcExitHandler", 7)]
      BY <3>2, TwoGatesFacts
    <3> QED BY <1>2, <3>1, <3>2 DEF Build
  <2>6. part' - 1 = part /\ (part # 6 => part' \in 1 .. 6)
    BY <2>1, <2>3, NextPart
  <2>7. part = 6 => built' = Parts
    BY <2>2, PartFacts
  <2>8. 1 \in masked
    BY <2>1, PartFacts, ZenonT(60)
  <2>9. TypesOfTables' /\ TaskDescriptor'
    <3>1. gates' = [v \in Vectors |-> gates'[v]] /\ \A v \in Vectors : gates'[v].ist \in 0 .. 7
      BY <2>5 DEF GatesAreRight
    <3>2. stage' \in Stages /\ stage' \notin {"tss", "idt"}
      BY <2>3
    <3> QED BY <2>1, <2>4, <3>1, <3>2
  <2>10. Initialized'
    BY <2>1, <2>3, <2>4, <2>5, <2>8 DEF GatesAreRight
  <2>11. FirstSwapIn' /\ KeyboardInterruptsReachTheDriver'
    BY <1>1, <2>1, <2>3, <2>4
  <2>12. TablesLoaded'
    BY <2>1, <2>2, <2>3, <2>4, <2>6, <2>7
  <2> QED BY <2>9, <2>10, <2>11, <2>12
<1>3. CASE LoadKeyboard
  <2>1. stage = "keyboard" /\ stage' \in {"keyboard", "install", "SwapIn"} /\ taskReg # 0
    BY <1>3 DEF LoadKeyboard
  <2>2. kbLoaded => kbLoaded'
    BY <1>3 DEF LoadKeyboard, LoadStep, LoadEnds, LoadFails
  <2>3. stage' = "install" => kbLoaded'
    BY <1>3, <2>1 DEF LoadKeyboard, LoadStep, LoadEnds, LoadFails
  <2>4. UNCHANGED <<boot, tables, interruptVars>>
    BY <1>3 DEF LoadKeyboard
  <2> QED BY <1>1, <2>1, <2>2, <2>3, <2>4
<1>4. CASE InstallKeyboardHandler
  <2>1. stage = "install" /\ stage' = "unmask" /\ taskReg # 0 /\ kbLoaded
    BY <1>4 DEF InstallKeyboardHandler
  <2>2. UNCHANGED <<boot, tables, interruptFlag, idtEntries, pic, vector, keyboardVars>>
    BY <1>4 DEF InstallKeyboardHandler
  <2>3. gates' = [gates EXCEPT ![33] = Gate("KBHandler", 0)]
    BY <1>4 DEF InstallKeyboardHandler, InstallHandler
  <2>4. GatesAreRight(gates)
    BY <2>1 DEF GatesAreRight
  <2>5. GatesAreRight(gates') /\ gates'[14] = gates[14] /\ gates'[33].handler = "KBHandler"
    BY <2>3, <2>4, KeyboardGateFacts
  <2>6. TypesOfTables' /\ TaskDescriptor' /\ FirstSwapIn' /\ TablesLoaded'
    BY <2>1, <2>2, <2>5 DEF GatesAreRight
  <2>7. Initialized' /\ KeyboardInterruptsReachTheDriver'
    BY <1>1, <2>1, <2>2, <2>5 DEF GatesAreRight
  <2> QED BY <2>6, <2>7
<1>5. CASE UnmaskKeyboard
  BY <1>1, <1>5 DEF UnmaskKeyboard, ClearMask
<1>6. CASE MemoryTests
  BY <1>1, <1>6 DEF MemoryTests
<1>7. CASE StartTerminal
  BY <1>1, <1>7 DEF StartTerminal
<1>8. CASE Processes
  BY <1>1, <1>8 DEF Processes
<1>9. CASE Stopped
  BY <1>1, <1>9 DEF Stopped, vars
<1> QED BY <1>2, <1>3, <1>4, <1>5, <1>6, <1>7, <1>8, <1>9

\* The devices, the controllers and the handlers.
LEMMA InterruptStep ==
  ASSUME IndInv,
         \/ KeyboardSends \/ KeyIsPressed
         \/ \E line \in Lines : DeviceRaises(line)
         \/ \E line \in Lines : Interrupt(line)
         \/ Handler \/ ReturnFromInterrupt
  PROVE  IndInv'
<1> USE DEF IndInv, TypesOfTables, Early, Initialized, TaskDescriptor, FirstSwapIn,
            TablesLoaded, KeyboardInterruptsReachTheDriver, Stages, boot, tables,
            interruptVars, idt, pic, keyboardVars
<1>1. CASE \/ KeyboardSends \/ KeyIsPressed \/ Handler
           \/ \E line \in Lines : DeviceRaises(line)
  <2>1. UNCHANGED <<stage, tables, built, part, isLoaded, interruptFlag, idt, offset1, masked,
                    vector, kbLoaded>>
    BY <1>1 DEF KeyboardSends, KeyIsPressed, Handler, DeviceRaises
  <2> QED BY <2>1, ZenonT(60)
<1>2. ASSUME NEW line \in Lines, Interrupt(line)
      PROVE  IndInv'
  <2>1. /\ interruptFlag /\ ~interruptFlag' /\ line \notin masked /\ vector' = line + offset1
        /\ UNCHANGED <<stage, boot, tables, idt, offset1, masked, keyboardVars>>
    BY <1>2 DEF Interrupt, Acknowledge, Deliverable
  <2>2. taskReg # 0 /\ stage \notin {"swapInIDT", "enable"} /\ ~Early
    BY <2>1
  <2>3. offset1 = 32
    BY <2>2
  <2>4. vector' = 33 => line = 1
    BY <2>1, <2>3, LineFacts
  <2>5. KeyboardInterruptsReachTheDriver'
    BY <2>1, <2>2, <2>4
  <2> QED BY <2>1, <2>2, <2>5
<1>3. CASE ReturnFromInterrupt
  <2>1. /\ vector # NoVector /\ vector' = NoVector
        /\ UNCHANGED <<stage, boot, tables, idt, offset1, masked, keyboardVars>>
    BY <1>3 DEF ReturnFromInterrupt, EndOfInterrupt
  <2>2. taskReg # 0 /\ stage \notin {"swapInIDT", "enable"}
    BY <2>1
  <2> QED BY <2>1, <2>2, VectorFacts
<1> QED BY <1>1, <1>2, <1>3
-----------------------------------------------------------------------------
\* The invariant of the start, for all lines, keys and firmware.
THEOREM Inductive == Spec => []IndInv
<1>1. ASSUME IndInv, [Next]_vars PROVE IndInv'
  <2>1. CASE UNCHANGED vars
    BY <1>1, <2>1 DEF vars, boot, tables, interruptVars, idt, pic, keyboardVars, controller,
       IndInv, TypesOfTables, Early, Initialized, TaskDescriptor, FirstSwapIn, TablesLoaded,
       KeyboardInterruptsReachTheDriver
  <2> QED BY <1>1, <2>1, InitializeStep, SwapInStep, BuildStep, InterruptStep
          DEF Next, BootThread
<1> QED BY <1>1, Initially, PTL DEF Spec

\* A keyboard interrupt finds its handler, the driver and the whole kernel,
\* although interrupts are on long before (kernel.cpp:376).
THEOREM InterruptsReachTheDriver == Spec => []KeyboardInterruptsReachTheDriver
<1>1. IndInv => KeyboardInterruptsReachTheDriver
  BY DEF IndInv
<1> QED BY <1>1, Inductive, PTL

\* Whenever interrupts are on or the heap is there, a fault finds its handler
\* and its stack (kernel_interrupt.cpp, kernel_gdt.cpp, kernel_tss.cpp).
THEOREM FaultsReachTheirHandlers == Spec => []FaultsCanBeHandled
<1>1. ASSUME IndInv PROVE FaultsCanBeHandled
  <2> SUFFICES ASSUME stage = "build" \/ built # {} \/ interruptFlag
               PROVE  FaultsCanBeHandled
    BY DEF FaultsCanBeHandled
  <2>1. taskReg = TSS_SELECTOR /\ stage # "swapInIDT" /\ ~Early
    <3>1. taskReg # 0
      BY <1>1 DEF IndInv, FirstSwapIn, Early
    <3>2. stage # "swapInIDT"
      BY <1>1 DEF IndInv, FirstSwapIn
    <3> QED BY <1>1, <3>1, <3>2 DEF IndInv, TypesOfTables, TablesLoaded
  <2>2. taskReg # 0
    BY <2>1 DEF TSS_SELECTOR
  <2>3. idtEntries = 128 /\ stacks = 1 .. 7 /\ gates[14] = Gate("PageFaultHandler", 2)
    BY <1>1, <2>1, <2>2 DEF IndInv, TablesLoaded, Initialized
  <2>4. \A v \in Vectors : gates[v].ist # 0 => gates[v].ist \in stacks /\ v < idtEntries
    BY <1>1, <2>1, <2>3 DEF IndInv, Initialized, TypesOfTables
  <2>5. gdtLimit = 4 /\ gdt[3] = "busy tss" /\ gdt[2] = "code"
    BY <1>1, <2>1, <2>2 DEF IndInv, TaskDescriptor
  <2>6. DescriptorAt(taskReg) = "busy tss" /\ DescriptorAt(CODE_SELECTOR) = "code"
    BY <2>1, <2>5, DescriptorFacts
  <2> QED BY <2>1, <2>3, <2>4, <2>6 DEF FaultsCanBeHandled
<1> QED BY <1>1, Inductive, PTL

\* No part of the kernel is initialized twice, whatever fails and however
\* often kernel_main calls SwapIn again (kernel_main.cpp).
THEOREM PartsAreBuiltOnce == Spec => []NothingIsBuiltTwice
<1>1. ASSUME IndInv PROVE NothingIsBuiltTwice
  BY <1>1, PartFacts DEF IndInv, TablesLoaded, FirstSwapIn, Early, NothingIsBuiltTwice
<1> QED BY <1>1, Inductive, PTL
-----------------------------------------------------------------------------
(* The types, which need the invariant where a table is indexed. *)

\* A gate of the handlers and the stacks that there are.
GateType == [handler : Handlers, ist : 0 .. 7]

\* The table keeps its type when gates are replaced.
LEMMA GateFacts ==
  /\ Gate("none", 0) \in GateType /\ Gate("DefaultInterruptHandler", 0) \in GateType
  /\ Gate("ProcYeildHandler", 7) \in GateType /\ Gate("ProcExitHandler", 7) \in GateType
  /\ Gate("KBHandler", 0) \in GateType
  /\ \A v \in DOMAIN ExceptionHandlers : ExceptionHandlers[v] \in GateType
<1>1. \A h \in Handlers, i \in 0 .. 7 : Gate(h, i) \in GateType
  BY DEF Gate, GateType
<1>2. /\ Gate("none", 0) \in GateType /\ Gate("DefaultInterruptHandler", 0) \in GateType
      /\ Gate("ProcYeildHandler", 7) \in GateType /\ Gate("ProcExitHandler", 7) \in GateType
      /\ Gate("KBHandler", 0) \in GateType
  BY <1>1 DEF Handlers
<1>3. ASSUME NEW v \in DOMAIN ExceptionHandlers
      PROVE  ExceptionHandlers[v] \in GateType
  <2>1. v \in {0, 4, 5, 6, 8, 10, 11, 12, 13, 14, 17, 18}
    BY DEF ExceptionHandlers
  <2>2. ExceptionHandlers[v] \in
          {Gate("GPHandler", 1), Gate("PageFaultHandler", 2),
           Gate("StackSegmentFaultHandler", 3), Gate("StackSegmentFaultHandler", 4),
           Gate("InvalidTSSHandler", 5), Gate("DoubleFaultHandler", 6),
           Gate("DivideError", 0), Gate("BoundRangeHandler", 0),
           Gate("MachineCheckHandler", 0), Gate("OverflowHandler", 0),
           Gate("AlignmentCheckHandler", 0), Gate("InvalidOpCodeHandler", 0)}
    BY <2>1, SMTT(40) DEF ExceptionHandlers
  <2> QED BY <1>1, <2>2 DEF Handlers
<1> QED BY <1>2, <1>3

\* A bit of a byte that is set, or taken away, makes another byte.
LEMMA BitFacts ==
  ASSUME NEW byte \in 0 .. 255, NEW on \in BOOLEAN
  PROVE  WithBit(byte, 4, on) \in 0 .. 255 /\ WithBit(byte, 5, on) \in 0 .. 255
<1>1. 2^4 = 16 /\ 2^5 = 32
  OBVIOUS
<1>2. WithBit(byte, 4, on) \in 0 .. 255
  BY <1>1 DEF WithBit, Bit
<1>3. WithBit(byte, 5, on) \in 0 .. 255
  BY <1>1 DEF WithBit, Bit
<1> QED BY <1>2, <1>3

\* The calls of Load.
LEMMA LoadFacts ==
  /\ Len(LoadSteps) = 22 /\ DOMAIN LoadSteps = 1 .. 22
  /\ \A i \in 1 .. 22 : LoadSteps[i][2] \in 0 .. 255
<1>1. Len(LoadSteps) = 22 /\ DOMAIN LoadSteps = 1 .. 22
  BY DEF LoadSteps
<1>2. \A i \in 1 .. 22 : LoadSteps[i][2] \in 0 .. 255
  BY SMTT(60) DEF LoadSteps, ACKNOWLEDGED
<1> QED BY <1>1, <1>2

\* What arrives, is sent and is read are bytes.
LEMMA KeyboardStep ==
  ASSUME KeyboardTypeOK,
         \/ LoadStep \/ LoadEnds \/ LoadFails
         \/ (Arrive \/ PressKey \/ ReadDataReg) /\ UNCHANGED <<step, kbLoaded>>
         \/ UNCHANGED keyboardVars
  PROVE  KeyboardTypeOK'
<1> USE DEF KeyboardTypeOK
<1>1. CASE LoadStep
  <2> DEFINE call == LoadSteps[step][1]
             byte == LoadSteps[step][2]
  <2>1. /\ step \in 1 .. 22 /\ byte \in 0 .. 255 /\ Len(LoadSteps) = 22
        /\ kbLoaded' = kbLoaded
        /\ step' = IF Waits(call) THEN step ELSE step + 1
    BY <1>1, LoadFacts DEF LoadStep
  <2>2. Command(byte) \/ Data(byte) \/ ReadDataReg
    BY <1>1 DEF LoadStep
  <2>3. step' \in 1 .. Len(LoadSteps) + 1
    BY <2>1
  <2> HIDE DEF byte, call
  <2>4. /\ data' \in 0 .. 255 /\ outputFull' \in BOOLEAN /\ keysSent' \in 0 .. MaxKeys
        /\ expecting' \in BOOLEAN
    BY <2>2 DEF Command, Data, ReadDataReg
  <2>5. config' \in 0 .. 255
    <3>1. CASE Command(byte)
      <4>1. config' \in {config, WithBit(config, 4, TRUE), WithBit(config, 5, TRUE),
                         WithBit(config, 4, FALSE)}
        BY <3>1 DEF Command
      <4>2. TRUE \in BOOLEAN /\ FALSE \in BOOLEAN /\ config \in 0 .. 255
        OBVIOUS
      <4>3. /\ WithBit(config, 4, TRUE) \in 0 .. 255 /\ WithBit(config, 4, FALSE) \in 0 .. 255
            /\ WithBit(config, 5, TRUE) \in 0 .. 255
        BY ONLY <4>2, BitFacts
      <4> QED BY ONLY <4>1, <4>2, <4>3, Zenon
    <3>2. CASE Data(byte)
      BY <2>1, <3>2 DEF Data
    <3>3. CASE ReadDataReg
      BY <3>3 DEF ReadDataReg
    <3> QED BY <2>2, <3>1, <3>2, <3>3, Zenon
  <2>6. answers' \in Seq(0 .. 255)
    <3>1. CASE Command(byte)
      <4>1. \/ answers' = answers
            \/ \E x \in 0 .. 255 : answers' = Append(answers, x)
        BY <3>1, BytesAssumption DEF Command
      <4>2. \A x \in 0 .. 255 : Append(answers, x) \in Seq(0 .. 255)
        OBVIOUS
      <4> QED BY <4>1, <4>2, Zenon
    <3>2. CASE Data(byte)
      <4>1. \/ answers' = answers \/ answers' = answers \o <<250, 170>>
            \/ answers' = answers \o <<250>>
        BY <3>2 DEF Data, ACKNOWLEDGED
      <4>2. <<250, 170>> \in Seq(0 .. 255) /\ <<250>> \in Seq(0 .. 255)
        OBVIOUS
      <4>3. /\ answers \o <<250, 170>> \in Seq(0 .. 255)
            /\ answers \o <<250>> \in Seq(0 .. 255)
        BY <4>2, ConcatProperties
      <4> QED BY <4>1, <4>3, Zenon
    <3>3. CASE ReadDataReg
      BY <3>3 DEF ReadDataReg
    <3> QED BY <2>2, <3>1, <3>2, <3>3
  <2> QED BY <2>1, <2>3, <2>4, <2>5, <2>6
<1>2. CASE LoadEnds \/ LoadFails
  <2>1. /\ UNCHANGED <<data, answers, config, expecting, keysSent>>
        /\ outputFull' \in BOOLEAN /\ kbLoaded' \in BOOLEAN /\ step' \in {step, 1}
    BY <1>2 DEF LoadEnds, LoadFails, ReadDataReg, controller
  <2> QED BY <2>1, LoadFacts
<1>3. CASE (Arrive \/ PressKey \/ ReadDataReg) /\ UNCHANGED <<step, kbLoaded>>
  <2>1. CASE Arrive
    <3>1. Head(answers) \in 0 .. 255 /\ Tail(answers) \in Seq(0 .. 255)
      BY <2>1, HeadTailProperties DEF Arrive
    <3> QED BY <1>3, <2>1, <3>1 DEF Arrive
  <2>2. CASE PressKey
    <3>1. keysSent' \in 0 .. MaxKeys
      BY <2>2, BytesAssumption DEF PressKey
    <3>2. PICK code \in 0 .. 255 : answers' = Append(answers, code)
      BY <2>2, BytesAssumption DEF PressKey
    <3> QED BY <1>3, <2>2, <3>1, <3>2 DEF PressKey
  <2>3. CASE ReadDataReg
    BY <1>3, <2>3 DEF ReadDataReg
  <2> QED BY <1>3, <2>1, <2>2, <2>3
<1>4. CASE UNCHANGED keyboardVars
  BY <1>4 DEF keyboardVars, controller
<1> QED BY <1>1, <1>2, <1>3, <1>4

\* The interrupts and the controllers keep their types in each step.
LEMMA InterruptsStep ==
  ASSUME InterruptsTypeOK, IndInv, Next
  PROVE  InterruptsTypeOK'
<1> USE DEF InterruptsTypeOK
<1> HIDE DEF IndInv
<1>1. CASE UNCHANGED interruptVars
  BY <1>1 DEF interruptVars, idt, pic
<1>2. CASE InitializeIDT
  <2>1. gates' \in [Vectors -> GateType]
    BY <1>2, GateFacts DEF InitializeIDT, AllocateIDT
  <2> QED BY <1>2, <2>1 DEF InitializeIDT, Remap, GateType
<1>3. CASE SwapInTSS
  BY <1>3 DEF SwapInTSS, interruptVars, idt, pic
<1>4. CASE SwapInInterrupts
  <2>1. /\ interruptFlag' \in BOOLEAN /\ IRQ_COUNT = 256
        /\ idtEntries' = (IRQ_COUNT * 8) \div 16
    BY <1>4 DEF SwapInInterrupts, SwapInIDT, IRQ_COUNT
  <2>2. idtEntries' \in 0 .. IRQ_COUNT
    BY <2>1
  <2> QED BY <1>4, <2>1, <2>2 DEF SwapInInterrupts, pic
<1>5. CASE EnableInterrupts
  BY <1>5 DEF EnableInterrupts, idt, pic
<1>6. CASE Build
  <2>1. gates \in [Vectors -> GateType]
    BY DEF GateType
  <2>2. \/ gates' = gates
        \/ gates' = [gates EXCEPT ![112] = Gate("ProcYeildHandler", 7),
                                  ![113] = Gate("ProcExitHandler", 7)]
    BY <1>6 DEF Build
  <2>3. gates' \in [Vectors -> GateType]
    BY <2>1, <2>2, GateFacts
  <2> QED BY <1>6, <2>3 DEF Build, pic, GateType
<1>7. CASE InstallKeyboardHandler
  <2>1. gates' = [gates EXCEPT ![33] = Gate("KBHandler", 0)]
    BY <1>7 DEF InstallKeyboardHandler, InstallHandler
  <2>2. gates' \in [Vectors -> GateType]
    BY <2>1, GateFacts DEF GateType
  <2> QED BY <1>7, <2>2 DEF InstallKeyboardHandler, pic, GateType
<1>8. CASE UnmaskKeyboard
  BY <1>8 DEF UnmaskKeyboard, ClearMask, idt
<1>9. CASE Processes
  BY <1>9 DEF Processes, idt, pic
<1>10. CASE KeyboardSends
  BY <1>10, KeyboardLineAssumption DEF KeyboardSends, Raise, idt
<1>11. ASSUME NEW line \in Lines, DeviceRaises(line) PROVE InterruptsTypeOK'
  BY <1>11 DEF DeviceRaises, Raise, idt
<1>12. ASSUME NEW line \in Lines, Interrupt(line) PROVE InterruptsTypeOK'
  <2>1. line \in 0 .. 15 /\ 2 \in 0 .. 15
    BY LinesAssumption
  <2>2. line + offset1 \in Vectors
    BY <2>1 DEF Vectors, IRQ_COUNT
  <2> QED BY <1>12, <2>1, <2>2 DEF Interrupt, Acknowledge, idt
<1>13. CASE Handler
  BY <1>13 DEF Handler, idt, pic
<1>14. CASE ReturnFromInterrupt
  <2>1. inService' \subseteq inService
    BY <1>14 DEF ReturnFromInterrupt, EndOfInterrupt, SendEOI
  <2> QED BY <1>14, <2>1 DEF ReturnFromInterrupt, EndOfInterrupt, idt
<1>15. \/ InitializeMemory \/ InitializeTables \/ SwapInGDT \/ LoadKeyboard \/ MemoryTests
       \/ StartTerminal \/ Stopped \/ KeyIsPressed
       => UNCHANGED interruptVars
  BY DEF InitializeMemory, InitializeTables, SwapInGDT, LoadKeyboard, MemoryTests, StartTerminal,
         Stopped, KeyIsPressed, vars
<1> QED
  BY <1>1, <1>2, <1>3, <1>4, <1>5, <1>6, <1>7, <1>8, <1>9, <1>10, <1>11, <1>12, <1>13, <1>14,
     <1>15 DEF Next, BootThread

\* Where the boot thread is, and what it has built, keep their types.
BootTypeOK ==
  /\ stage \in Stages /\ region \in RegionTypes
  /\ stacks \subseteq 1 .. 7
  /\ gdt \in Seq(Descriptors) /\ Len(gdt) <= 8
  /\ gdtLimit \in 0 .. 8 /\ taskReg \in {0, 16}
  /\ built \subseteq Parts
  /\ part \in 1 .. Len(BuildOrder) + 1
  /\ isLoaded \in BOOLEAN
  /\ codes \in Nat

\* A step of the boot thread, or of the handler that counts the scan codes.
LEMMA BootStep ==
  ASSUME BootTypeOK, IndInv, Next
  PROVE  BootTypeOK'
<1> USE DEF BootTypeOK
<1>1. CASE UNCHANGED <<stage, boot, tables>>
  BY <1>1 DEF boot, tables
<1>2. CASE \/ InitializeMemory \/ InitializeIDT \/ SwapInInterrupts \/ LoadKeyboard
           \/ InstallKeyboardHandler \/ UnmaskKeyboard \/ StartTerminal
  <2>1. UNCHANGED <<boot, tables>> /\ stage' \in Stages
    BY <1>2 DEF InitializeMemory, InitializeIDT, SwapInInterrupts, LoadKeyboard,
                InstallKeyboardHandler, UnmaskKeyboard, StartTerminal, Stages
  <2> QED BY <2>1 DEF boot, tables
<1>3. CASE InitializeTables
  <2>1. stacks' \subseteq 1 .. 7 /\ stage' \in Stages
    BY <1>3 DEF InitializeTables, SetStacks, Stages
  <2>2. gdt' \in Seq(Descriptors) /\ Len(gdt') <= 8
    BY <1>3, TableFacts DEF InitializeTables
  <2> QED BY <1>3, <2>1, <2>2 DEF InitializeTables, boot
<1>4. CASE SwapInGDT
  <2>1. Len(gdt) \in 0 .. 8
    <3> DEFINE n == Len(gdt)
    <3>1. n \in Nat
      BY LenProperties
    <3>2. n <= 8
      OBVIOUS
    <3> HIDE DEF n
    <3>3. n \in 0 .. 8
      BY <3>1, <3>2
    <3> QED BY <3>3 DEF n
  <2>2. gdtLimit' \in 0 .. 8
    BY <1>4, <2>1 DEF SwapInGDT
  <2> QED BY <1>4, <2>2 DEF SwapInGDT, boot, Stages
<1>5. CASE SwapInTSS
  <2>1. UNCHANGED <<boot, stacks, gdtLimit>> /\ stage' \in Stages /\ taskReg' \in {0, 16}
    BY <1>5 DEF SwapInTSS, Stages, TSS_SELECTOR
  <2>2. stage = "tss" /\ gdt \in Seq(Descriptors) /\ Len(gdt) = 4
    BY <1>5 DEF SwapInTSS, At, IndInv, TaskDescriptor, Early
  <2>3. gdt' = gdt \/ gdt' = [gdt EXCEPT ![3] = "busy tss"]
    BY <1>5, TableFacts DEF SwapInTSS
  <2>4. gdt' \in Seq(Descriptors) /\ Len(gdt') <= 8
    BY <2>2, <2>3, BusyFacts
  <2> QED BY <2>1, <2>4 DEF boot
<1>6. CASE EnableInterrupts
  <2>1. part' \in 1 .. Len(BuildOrder) + 1 /\ stage' \in Stages
    BY <1>6, PartFacts DEF EnableInterrupts, Stages
  <2> QED BY <1>6, <2>1 DEF EnableInterrupts, tables
<1>7. CASE Build
  <2>1. stage = "build" /\ part \in 1 .. 6
    BY <1>7 DEF Build, At, IndInv, FirstSwapIn, TablesLoaded, Early
  <2>2. part' \in 1 .. Len(BuildOrder) + 1 /\ stage' \in Stages
    BY <1>7, <2>1, PartFacts DEF Build, Stages
  <2>3. BuildOrder[part] \in Parts
    BY <2>1, PartFacts
  <2>4. built' \subseteq Parts
    BY <1>7, <2>3 DEF Build
  <2> QED BY <1>7, <2>2, <2>4 DEF Build, tables
<1>8. CASE MemoryTests
  BY <1>8 DEF MemoryTests, tables, Stages
<1>9. CASE Handler
  BY <1>9 DEF Handler, tables
<1>10. \/ Processes \/ Stopped \/ KeyboardSends \/ KeyIsPressed \/ ReturnFromInterrupt
       \/ (\E line \in Lines : DeviceRaises(line) \/ Interrupt(line))
       => UNCHANGED <<stage, boot, tables>>
  BY DEF Processes, Stopped, KeyboardSends, KeyIsPressed, ReturnFromInterrupt, DeviceRaises,
         Interrupt, vars
<1> QED BY <1>1, <1>2, <1>3, <1>4, <1>5, <1>6, <1>7, <1>8, <1>9, <1>10 DEF Next, BootThread

\* Every index that the start uses lies in its table: no descriptor, gate,
\* stack, part or byte is out of range (kernel.cpp:163-500).
THEOREM TypeCorrect == Spec => []TypeOK
<1>1. TypeOK <=> InterruptsTypeOK /\ KeyboardTypeOK /\ BootTypeOK
  BY DEF TypeOK, BootTypeOK
<1>2. Init => TypeOK
  <2> SUFFICES ASSUME Init PROVE TypeOK
    OBVIOUS
  <2>1. gates \in [Vectors -> GateType]
    BY GateFacts DEF Init, InterruptsInit
  <2>2. /\ masked \subseteq 0 .. 15 /\ vector \in Vectors \cup {NoVector}
        /\ idtEntries \in 0 .. IRQ_COUNT
    BY DEF Init, InterruptsInit, IRQ_COUNT
  <2>3. InterruptsTypeOK
    BY <2>1, <2>2 DEF Init, InterruptsInit, InterruptsTypeOK, GateType
  <2>4. /\ 0 \in 0 .. 255 /\ 0 \in 0 .. MaxKeys /\ 1 \in 1 .. Len(LoadSteps) + 1
        /\ <<>> \in Seq(0 .. 255)
    BY BytesAssumption, LoadFacts
  <2>5. KeyboardTypeOK
    BY <2>4, BytesAssumption DEF Init, KeyboardInit, KeyboardTypeOK
  <2>6. <<>> \in Seq(Descriptors) /\ Len(<<>>) = 0 /\ 1 \in 1 .. Len(BuildOrder) + 1
    BY PartFacts
  <2>7. /\ stage = "Initialize" /\ region \in RegionTypes /\ stacks = {} /\ gdt = <<>>
        /\ gdtLimit = 0 /\ taskReg = 0 /\ built = {} /\ part = 1 /\ isLoaded = FALSE /\ codes = 0
    BY DEF Init
  <2>8. stage \in Stages /\ gdt \in Seq(Descriptors) /\ Len(gdt) <= 8
    BY <2>6, <2>7 DEF Stages
  <2>9. /\ gdtLimit \in 0 .. 8 /\ taskReg \in {0, 16} /\ codes \in Nat
        /\ part \in 1 .. Len(BuildOrder) + 1
    BY <2>6, <2>7
  <2>10. BootTypeOK
    BY <2>7, <2>8, <2>9 DEF BootTypeOK
  <2> QED BY <1>1, <2>3, <2>5, <2>10
<1>3. ASSUME TypeOK, IndInv, [Next]_vars PROVE TypeOK'
  <2>1. InterruptsTypeOK /\ KeyboardTypeOK /\ BootTypeOK
    BY <1>1, <1>3
  <2>2. CASE Next
    <3>1. \/ LoadStep \/ LoadEnds \/ LoadFails
          \/ (Arrive \/ PressKey \/ ReadDataReg) /\ UNCHANGED <<step, kbLoaded>>
          \/ UNCHANGED keyboardVars
      BY <2>2 DEF Next, BootThread, InitializeMemory, InitializeTables, InitializeIDT, SwapInGDT,
                  SwapInTSS, SwapInInterrupts, EnableInterrupts, Build, LoadKeyboard,
                  InstallKeyboardHandler, UnmaskKeyboard, MemoryTests, StartTerminal, Processes,
                  Stopped, KeyboardSends, KeyIsPressed, DeviceRaises, Interrupt, Handler,
                  ReturnFromInterrupt, keyboardVars, vars
    <3>2. KeyboardTypeOK'
      BY <2>1, <3>1, KeyboardStep
    <3>3. InterruptsTypeOK'
      BY <1>3, <2>1, <2>2, InterruptsStep
    <3>4. BootTypeOK'
      BY <1>3, <2>1, <2>2, BootStep
    <3> QED BY <3>2, <3>3, <3>4 DEF TypeOK, BootTypeOK
  <2>3. CASE UNCHANGED vars
    <3>1. UNCHANGED interruptVars /\ UNCHANGED keyboardVars /\ UNCHANGED <<stage, boot, tables>>
      BY <2>3 DEF vars
    <3>2. InterruptsTypeOK'
      BY <2>1, <3>1 DEF interruptVars, idt, pic, InterruptsTypeOK
    <3>3. KeyboardTypeOK'
      BY <2>1, <3>1, KeyboardStep
    <3>4. BootTypeOK'
      BY <2>1, <3>1 DEF boot, tables, BootTypeOK
    <3> QED BY <3>2, <3>3, <3>4 DEF TypeOK, BootTypeOK
  <2> QED BY <1>3, <2>2, <2>3
<1> QED BY <1>2, <1>3, Inductive, PTL DEF Spec
=============================================================================

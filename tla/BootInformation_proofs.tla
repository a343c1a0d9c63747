----------------------- MODULE BootInformation_proofs -----------------------
(***************************************************************************)
(* For every memory map, every kernel, any number of modules and every     *)
(* order of the tags: the page allocator gets RAM above the kernel if the  *)
(* map fits its array, and Load runs over an array only if something does  *)
(* not fit.                                                                *)
(***************************************************************************)
EXTENDS BootInformation, TLAPS

\* MemAlignAddress never goes down.
LEMMA AlignFacts ==
  ASSUME NEW address \in Nat
  PROVE  MemAlignAddress(address) \in Nat /\ address <= MemAlignAddress(address)
<1>1. (address + 7) \div 8 \in Nat /\ address < ((address + 7) \div 8) * 8 + 1
  OBVIOUS
<1> QED BY <1>1 DEF MemAlignAddress

\* What is copied of a string fits, with the byte that ends it.
LEMMA CopiedFits ==
  ASSUME NEW size \in TextSizes, NEW max \in Nat \ {0}
  PROVE  Copied(size, max) - 1 \in 0 .. max - 1
BY BoundsAssumption DEF Copied

\* The machine and what it is made of.
LEMMA MachineFacts ==
  ASSUME TypeOK
  PROVE  /\ map \in Seq(MapEntry) /\ sections \in Seq(SectionHeader)
         /\ loaded \in Seq(ModuleTag)
         /\ \A m \in DOMAIN loaded : loaded[m].start >= MAX_LOADABLE_MODULES
         /\ \A e \in DOMAIN map : map[e] \in MapEntry /\ RegionOf(map[e]) \in Region
         /\ \A s \in DOMAIN sections : End(sections[s]) \in Nat
<1>1. /\ map \in Seq(MapEntry) /\ sections \in Seq(SectionHeader)
      /\ loaded \in Seq(ModuleTag)
      /\ \A m \in DOMAIN loaded : loaded[m].start >= MAX_LOADABLE_MODULES
  BY MachineAssumption DEF TypeOK
<1>2. \A e \in DOMAIN map : map[e] \in MapEntry
  BY <1>1
<1>3. \A e \in DOMAIN map : RegionOf(map[e]) \in Region
  BY <1>2 DEF MapEntry, Region, RegionOf
<1>4. \A s \in DOMAIN sections : sections[s] \in SectionHeader
  BY <1>1
<1>5. \A s \in DOMAIN sections : End(sections[s]) \in Nat
  BY <1>4 DEF SectionHeader, End
<1> QED BY <1>1, <1>2, <1>3, <1>5

\* Before the first tag.
LEMMA Initially == Init => IndInv
<1> SUFFICES ASSUME Init PROVE IndInv
  OBVIOUS
<1>1. TypeOK
  <2>1. kernelMem \in Region
    BY DEF Init, Region, Types
  <2>2. cmdEnd \in 0 .. BOOT_CMD_MAX_CHARS - 1 /\ nameEnd \in 0 .. BOOTLOADER_NAME_MAX_CHARS - 1
    BY BoundsAssumption DEF Init
  <2>3. /\ modules \in Seq([start : Nat, size : Int]) /\ Len(modules) <= MAX_LOADABLE_MODULES
        /\ told \in Nat /\ numModules \in Nat
        /\ memRegions \in Seq(Region) /\ Len(memRegions) <= MAX_MEM_REGIONS
    BY BoundsAssumption DEF Init
  <2>4. sizeMatches \in BOOLEAN
    BY Zenon DEF Init
  <2>5. /\ map \in Maps /\ sections \in SectionLists /\ loaded \in ModuleLists
        /\ seen \subseteq Tags /\ control \in Control /\ res = "RES_SUCCESS"
        /\ index \in Nat \ {0} /\ highestVirtAddress \in Nat
    BY DEF Init, Control
  <2> HIDE DEF Init
  <2> QED BY <2>1, <2>2, <2>3, <2>4, <2>5, Zenon DEF TypeOK
<1>2. HasRAM
  BY DEF Init, HasRAM
<1>3. ModuleCount
  BY MachineFacts, <1>1, BoundsAssumption DEF Init, ModuleCount
<1> QED
  BY <1>1, <1>2, <1>3 DEF Init, IndInv, TagsSeen, CopiesFit, SectionsPassed,
     AllSectionsPassed, MapIsCopied, SearchHasRAM, RegionIsFree
-----------------------------------------------------------------------------
\* Every action keeps the types.
LEMMA TypeStep ==
  ASSUME IndInv, Next
  PROVE  TypeOK'
<1> USE DEF IndInv
<1> USE MachineFacts, BoundsAssumption
<1>1. CASE BootCommandLine
  BY <1>1, CopiedFits DEF BootCommandLine, Pass, TypeOK, machine, texts, moduleVars, Tags
<1>2. CASE BootLoaderName
  BY <1>2, CopiedFits DEF BootLoaderName, Pass, TypeOK, machine, texts, moduleVars, Tags
<1>3. CASE Module
  <2> DEFINE mod == loaded[told + 1]
  <2>1. told \in Nat /\ numModules \in Nat /\ mod \in ModuleTag
    <3>1. told \in Nat /\ numModules \in Nat
      BY DEF TypeOK
    <3>2. told + 1 \in 1 .. Len(loaded)
      BY <1>3, <3>1 DEF Module
    <3> QED BY <3>1, <3>2
  <2>2. told' \in Nat /\ numModules' \in Nat
    BY <1>3, <2>1 DEF Module, ModuleTag
  <2>3. modules' \in Seq([start : Nat, size : Int]) /\ Len(modules') <= MAX_LOADABLE_MODULES
    <3> DEFINE new == StoredModule(mod)
    <3>1. /\ modules \in Seq([start : Nat, size : Int])
          /\ Len(modules) <= MAX_LOADABLE_MODULES /\ Len(modules) \in Nat
      BY DEF TypeOK
    <3>2. new \in [start : Nat, size : Int]
      BY <2>1 DEF ModuleTag, StoredModule
    <3>3. CASE modules' = modules
      BY <3>1, <3>3
    <3>4. CASE numModules < MAX_LOADABLE_MODULES /\ modules' = Append(modules, new)
      <4>1. Len(modules) < MAX_LOADABLE_MODULES
        <5>1. told <= MAX_LOADABLE_MODULES => Len(modules) = numModules
          BY DEF ModuleCount
        <5>2. told > MAX_LOADABLE_MODULES => numModules > MAX_LOADABLE_MODULES
          BY DEF ModuleCount
        <5> QED BY <2>1, <3>1, <3>4, <5>1, <5>2
      <4> HIDE DEF new
      <4>2. /\ Append(modules, new) \in Seq([start : Nat, size : Int])
            /\ Len(Append(modules, new)) = Len(modules) + 1
        BY <3>1, <3>2
      <4> QED BY <3>1, <3>4, <4>1, <4>2
    <3> QED BY <1>3, <3>3, <3>4 DEF Module
  <2>4. /\ res' \in {"RES_SUCCESS", "RES_OUT_OF_MEMORY", "RES_UNSUPPORTED"}
        /\ control' \in Control
        /\ UNCHANGED <<machine, seen, index, texts, memRegions, highestVirtAddress, kernelMem>>
    BY <1>3 DEF Module, TypeOK, Control
  <2> QED BY <2>2, <2>3, <2>4 DEF TypeOK, machine, texts
<1>5. CASE MemoryMap
  <2>1. /\ memRegions' \in Seq(Region) /\ Len(memRegions') <= MAX_MEM_REGIONS
        /\ highestVirtAddress' \in Nat
    <3>1. CASE Len(map) <= MAX_MEM_REGIONS
      <4>1. /\ memRegions' = [i \in 1 .. Len(map) |-> RegionOf(map[i])]
            /\ highestVirtAddress' = highestVirtAddress
        BY <1>5, <3>1 DEF MemoryMap
      <4>2. Len(map) \in Nat /\ \A i \in 1 .. Len(map) : RegionOf(map[i]) \in Region
        OBVIOUS
      <4>3. memRegions' \in Seq(Region) /\ Len(memRegions') = Len(map)
        BY <4>1, <4>2
      <4> QED BY <3>1, <4>1, <4>3 DEF TypeOK
    <3>2. CASE ~(Len(map) <= MAX_MEM_REGIONS)
      <4> DEFINE over == RegionOf(map[MAX_MEM_REGIONS + 1])
      <4>1. /\ MAX_MEM_REGIONS \in Nat /\ Len(map) \in Nat
            /\ MAX_MEM_REGIONS + 1 \in DOMAIN map
            /\ 1 .. MAX_MEM_REGIONS \subseteq DOMAIN map
        BY <3>2
      <4>2. over \in Region /\ over.base \in Nat /\ over.high \in Nat
        BY <4>1 DEF Region
      <4>3. PICK n \in Nat : /\ n <= MAX_MEM_REGIONS
                             /\ memRegions' = [i \in 1 .. n |-> RegionOf(map[i])]
        <5> HIDE DEF over
        <5>1. CASE over.base <= MAX_MEM_REGIONS
          BY <1>5, <3>2, <4>2, <5>1 DEF MemoryMap, over
        <5>2. CASE ~(over.base <= MAX_MEM_REGIONS)
          <6>1. memRegions' = [i \in 1 .. MAX_MEM_REGIONS |-> RegionOf(map[i])]
            BY <1>5, <3>2, <5>2 DEF MemoryMap, over
          <6>2. MAX_MEM_REGIONS \in Nat /\ MAX_MEM_REGIONS <= MAX_MEM_REGIONS
            BY <4>1
          <6> QED BY <6>1, <6>2
        <5> QED BY <5>1, <5>2
      <4>4. \A i \in 1 .. n : RegionOf(map[i]) \in Region
        BY <4>1, <4>3
      <4>5. memRegions' \in Seq(Region) /\ Len(memRegions') = n
        BY <4>3, <4>4
      <4>6. highestVirtAddress' = over.high
        BY <1>5, <3>2 DEF MemoryMap
      <4> QED BY <4>2, <4>3, <4>5, <4>6
    <3> QED BY <3>1, <3>2
  <2>2. control' \in Control
    BY <1>5 DEF MemoryMap, TypeOK, Control
  <2> HIDE DEF Control
  <2>3. /\ UNCHANGED <<index, res, texts, moduleVars, machine, kernelMem>>
        /\ seen' \subseteq Tags
    BY <1>5 DEF MemoryMap, Pass, TypeOK, Tags
  <2> QED BY <2>1, <2>2, <2>3 DEF TypeOK, machine, texts, moduleVars
<1>7. CASE OtherTag
  BY <1>7 DEF OtherTag, Pass, TypeOK, machine, texts, moduleVars, Tags
<1>8. CASE ElfSymbols
  BY <1>8 DEF ElfSymbols, Pass, TypeOK, Control, machine, texts, moduleVars, Tags
<1>9. CASE Section
  BY <1>9 DEF Section, TypeOK, machine, texts, moduleVars
<1>10. CASE SectionsEnd
  BY <1>10 DEF SectionsEnd, TypeOK, Control, machine, texts, moduleVars
<1>11. CASE EndTag
  BY <1>11 DEF EndTag, TypeOK, Control, machine, texts, moduleVars
<1>12. CASE GetBestMemRegion
  <2>1. kernelMem' \in Region
    BY <1>12 DEF GetBestMemRegion, TypeOK, Region
  <2> QED BY <1>12, <2>1 DEF GetBestMemRegion, TypeOK, Control, machine, texts, moduleVars
<1>13. CASE Consider
  BY <1>13 DEF Consider, TypeOK, machine, texts, moduleVars
<1>14. CASE RaiseBase
  <2>1. kernelMem' \in Region
    BY <1>14, AlignFacts DEF RaiseBase, TypeOK, Region
  <2> QED BY <1>14, <2>1 DEF RaiseBase, TypeOK, Control, machine, texts, moduleVars
<1> QED BY <1>1, <1>2, <1>3, <1>5, <1>7, <1>8, <1>9, <1>10, <1>11, <1>12, <1>13, <1>14 DEF Next

\* Where control is tells which tags and modules were passed, and the count of
\* modules is right until it is overwritten.
LEMMA CountStep ==
  ASSUME IndInv, Next
  PROVE  HasRAM' /\ TagsSeen' /\ ModuleCount' /\ CopiesFit'
<1> USE DEF IndInv, HasRAM, TagsSeen, ModuleCount, CopiesFit, MapFits, Pass, machine, texts,
            moduleVars
<1>0. /\ told \in Nat /\ numModules \in Nat /\ MAX_LOADABLE_MODULES \in Nat
      /\ modules \in Seq([start : Nat, size : Int]) /\ Len(modules) \in Nat
      /\ Len(loaded) \in Nat
  BY MachineFacts, BoundsAssumption DEF TypeOK
<1>1. CASE Module
  <2>1. /\ control = "load" /\ told < Len(loaded) /\ told' = told + 1
        /\ control' \in {"load", "lost"}
        /\ UNCHANGED <<machine, seen>>
    BY <1>1 DEF Module
  <2>2. HasRAM' /\ TagsSeen'
    BY <2>1
  <2>3. CASE /\ numModules > MAX_LOADABLE_MODULES /\ res' = "RES_OUT_OF_MEMORY"
             /\ UNCHANGED <<control, modules, numModules>>
    BY <1>0, <2>1, <2>2, <2>3
  <2>4. CASE /\ numModules < MAX_LOADABLE_MODULES
             /\ modules' = Append(modules, StoredModule(loaded[told + 1]))
             /\ numModules' = numModules + 1 /\ UNCHANGED <<control, res>>
    <3>1. Len(modules') = Len(modules) + 1
      BY <1>0, <2>4
    <3>2. told <= MAX_LOADABLE_MODULES
      BY <1>0, <2>4
    <3> QED BY <1>0, <2>1, <2>2, <2>4, <3>1, <3>2
  <2>5. CASE /\ numModules = MAX_LOADABLE_MODULES
             /\ numModules' = loaded[told + 1].start + 1 /\ UNCHANGED <<res, modules>>
    <3>1. told = MAX_LOADABLE_MODULES
      BY <1>0, <2>5
    <3>2. told + 1 \in DOMAIN loaded
      BY <1>0, <2>1, MachineFacts
    <3>3. numModules' > MAX_LOADABLE_MODULES
      <4>1. loaded[told + 1] \in ModuleTag
        BY <3>2, MachineFacts
      <4>2. loaded[told + 1].start >= MAX_LOADABLE_MODULES
        BY <3>2, MachineFacts
      <4>3. loaded[told + 1].start \in Nat
        BY <4>1 DEF ModuleTag
      <4> QED BY <1>0, <2>5, <4>2, <4>3
    <3> QED BY <1>0, <2>1, <2>2, <2>5, <3>1, <3>3
  <2> QED BY <1>1, <2>3, <2>4, <2>5 DEF Module
<1>2. CASE MemoryMap
  BY <1>2 DEF MemoryMap
<1>3. CASE EndTag
  BY <1>0, <1>3 DEF EndTag
<1>4. CASE BootCommandLine \/ BootLoaderName \/ OtherTag \/ ElfSymbols
  BY <1>4 DEF BootCommandLine, BootLoaderName, OtherTag, ElfSymbols
<1>5. CASE Section \/ SectionsEnd \/ GetBestMemRegion \/ Consider \/ RaiseBase
  BY <1>5 DEF Section, SectionsEnd, GetBestMemRegion, Consider, RaiseBase
<1> QED BY <1>1, <1>2, <1>3, <1>4, <1>5 DEF Next

\* The tags that are passed before the search.
LEMMA LoadStep ==
  ASSUME IndInv, MapFits,
         BootCommandLine \/ BootLoaderName \/ Module \/ MemoryMap \/ OtherTag \/ ElfSymbols
  PROVE  /\ SectionsPassed' /\ AllSectionsPassed' /\ MapIsCopied' /\ SearchHasRAM'
         /\ RegionIsFree'
<1> USE DEF IndInv, TagsSeen, SectionsPassed, AllSectionsPassed, MapIsCopied,
            SearchHasRAM, RegionIsFree, HasRAM, Pass, machine, texts, moduleVars
<1>1. CASE BootCommandLine \/ BootLoaderName \/ OtherTag
  BY <1>1 DEF BootCommandLine, BootLoaderName, OtherTag
<1>2. CASE Module
  BY <1>2 DEF Module
<1>3. CASE MemoryMap
  BY <1>3 DEF MemoryMap, MapFits
<1>4. CASE ElfSymbols
  BY <1>4, MachineFacts, SMTT(40) DEF ElfSymbols
<1> QED BY <1>1, <1>2, <1>3, <1>4

\* The loop over the sections, and the end of Load.
LEMMA SectionStep ==
  ASSUME IndInv, MapFits, Section \/ SectionsEnd \/ EndTag
  PROVE  /\ SectionsPassed' /\ AllSectionsPassed' /\ MapIsCopied' /\ SearchHasRAM'
         /\ RegionIsFree'
<1> USE DEF IndInv, TagsSeen, SectionsPassed, AllSectionsPassed, MapIsCopied,
            SearchHasRAM, RegionIsFree, HasRAM, machine, texts, moduleVars
<1>1. CASE Section
  <2>1. /\ \A s \in DOMAIN sections : End(sections[s]) \in Nat
        /\ highestVirtAddress \in Nat /\ index \in Nat \ {0}
        /\ index \in DOMAIN sections /\ DOMAIN sections \subseteq Nat
    BY <1>1, MachineFacts DEF TypeOK, Section
  <2>2. /\ highestVirtAddress <= highestVirtAddress'
        /\ End(sections[index]) <= highestVirtAddress'
        /\ highestVirtAddress' \in Nat
    BY <1>1, <2>1 DEF Section
  <2>3. SectionsPassed'
    <3> SUFFICES ASSUME NEW s \in DOMAIN sections, s < index + 1
                 PROVE  End(sections[s]) <= highestVirtAddress'
      BY <1>1 DEF Section, End
    <3>1. CASE s = index
      BY <2>2, <3>1
    <3>2. CASE s < index
      <4>1. End(sections[s]) <= highestVirtAddress
        BY <1>1, <3>2 DEF Section
      <4> QED BY <2>1, <2>2, <4>1
    <3> QED BY <2>1, <3>1, <3>2
  <2> QED BY <1>1, <2>3 DEF Section
<1>2. CASE SectionsEnd
  <2>1. \A s \in DOMAIN sections : s < index
    BY <1>2, MachineFacts DEF SectionsEnd, TypeOK
  <2> QED BY <1>2, <2>1 DEF SectionsEnd, End
<1>3. CASE EndTag
  BY <1>3 DEF EndTag, End
<1> QED BY <1>1, <1>2, <1>3

\* The search for the region.
LEMMA SearchStep ==
  ASSUME IndInv, MapFits, GetBestMemRegion \/ Consider \/ RaiseBase
  PROVE  /\ SectionsPassed' /\ AllSectionsPassed' /\ MapIsCopied' /\ SearchHasRAM'
         /\ RegionIsFree'
<1> USE DEF IndInv, TagsSeen, SectionsPassed, AllSectionsPassed, MapIsCopied,
            HasRAM, machine, texts, moduleVars
<1>1. CASE GetBestMemRegion
  <2>1. kernelMem' = [kernelMem EXCEPT !.high = 0] /\ kernelMem'.high = 0
    BY <1>1 DEF GetBestMemRegion, TypeOK, Region
  <2>2. \A e \in DOMAIN map : ~(e < 1)
    BY MachineFacts
  <2> QED
    BY <1>1, <2>1, <2>2 DEF GetBestMemRegion, SearchHasRAM, RegionIsFree, End
<1>2. CASE Consider
  <2>1. /\ index \in DOMAIN map /\ memRegions[index] = RegionOf(map[index])
        /\ DOMAIN map \subseteq Nat /\ index \in Nat
        /\ map[index] \in MapEntry
    BY <1>2, MachineFacts DEF Consider, TypeOK
  <2>2. RAM(memRegions[index]) <=> RAM(map[index])
    BY <2>1 DEF RAM, RegionOf
  <2>3. SearchHasRAM'
    <3>1. CASE RAM(map[index]) /\ memRegions[index].high >= kernelMem.high
      BY <1>2, <2>1, <2>2, <3>1 DEF Consider, SearchHasRAM
    <3>2. CASE RAM(map[index]) /\ ~(memRegions[index].high >= kernelMem.high)
      <4>1. kernelMem.high # 0
        BY <2>1, <3>2 DEF RegionOf, MapEntry
      <4> QED BY <1>2, <2>2, <3>2, <4>1 DEF Consider, SearchHasRAM
    <3>3. CASE ~RAM(map[index])
      <4>1. \A e \in DOMAIN map : e < index + 1 => e < index \/ e = index
        BY <2>1
      <4> QED BY <1>2, <2>2, <3>3, <4>1 DEF Consider, SearchHasRAM
    <3> QED BY <3>1, <3>2, <3>3
  <2> QED BY <1>2, <2>3 DEF Consider, RegionIsFree, End
<1>3. CASE RaiseBase
  <2>1. PICK e \in DOMAIN map : RAM(map[e]) /\ kernelMem = RegionOf(map[e])
    <3>1. \A e \in DOMAIN map : e < index
      BY <1>3, MachineFacts DEF RaiseBase, TypeOK
    <3> QED BY <1>3, <3>1 DEF RaiseBase, SearchHasRAM
  <2>2. /\ map[e] \in MapEntry
        /\ kernelMem.base = map[e].base /\ kernelMem.high = map[e].base + map[e].length
        /\ kernelMem.base \in Nat
    BY <2>1, MachineFacts DEF RegionOf, MapEntry
  <2>3. /\ highestVirtAddress \in Nat
        /\ MemAlignAddress(highestVirtAddress) \in Nat
        /\ highestVirtAddress <= MemAlignAddress(highestVirtAddress)
    BY AlignFacts DEF TypeOK
  <2>4. /\ kernelMem.base <= kernelMem'.base /\ kernelMem'.high = kernelMem.high
        /\ highestVirtAddress <= kernelMem'.base /\ kernelMem'.base \in Nat
    <3>1. kernelMem \in Region
      BY DEF TypeOK
    <3>2. CASE kernelMem.base < MemAlignAddress(highestVirtAddress)
      BY <1>3, <2>2, <2>3, <3>1, <3>2 DEF RaiseBase, Region
    <3>3. CASE ~(kernelMem.base < MemAlignAddress(highestVirtAddress))
      BY <1>3, <2>2, <2>3, <3>3 DEF RaiseBase
    <3> QED BY <3>2, <3>3
  <2>5. \A s \in DOMAIN sections : End(sections[s]) <= kernelMem'.base
    <3>1. \A s \in DOMAIN sections : End(sections[s]) \in Nat
                                     /\ End(sections[s]) <= highestVirtAddress
      BY <1>3, MachineFacts DEF RaiseBase
    <3> QED BY <2>3, <2>4, <3>1
  <2>6. RegionIsFree'
    BY <1>3, <2>1, <2>2, <2>4, <2>5 DEF RaiseBase, RegionIsFree, End
  <2> QED BY <1>3, <2>6 DEF RaiseBase, SearchHasRAM, End
<1> QED BY <1>1, <1>2, <1>3
-----------------------------------------------------------------------------
\* The inductive invariant holds: what Load has stored so far is right for
\* the tags, sections and entries that it has passed.
THEOREM Inductive == Spec => []IndInv
<1>1. Init => IndInv
  BY Initially
<1>2. IndInv /\ [Next]_vars => IndInv'
  <2> SUFFICES ASSUME IndInv, [Next]_vars PROVE IndInv'
    OBVIOUS
  <2>1. CASE Next
    <3>1. TypeOK'
      BY <2>1, TypeStep
    <3>2. HasRAM' /\ TagsSeen' /\ ModuleCount' /\ CopiesFit'
      BY <2>1, CountStep
    <3>3. MapFits' <=> MapFits
      BY <2>1 DEF Next, MapFits, Pass, machine, BootCommandLine, BootLoaderName, Module,
         MemoryMap, OtherTag, ElfSymbols, Section, SectionsEnd, EndTag, GetBestMemRegion,
         Consider, RaiseBase
    <3>4. CASE MapFits
      <4>1. /\ SectionsPassed' /\ AllSectionsPassed' /\ MapIsCopied' /\ SearchHasRAM'
            /\ RegionIsFree'
        BY <2>1, <3>4, LoadStep, SectionStep, SearchStep DEF Next
      <4> QED BY <3>1, <3>2, <4>1 DEF IndInv
    <3>5. CASE ~MapFits
      BY <3>1, <3>2, <3>3, <3>5 DEF IndInv, RegionIsFree
    <3> QED BY <3>4, <3>5
  <2>2. CASE UNCHANGED vars
    BY <2>2 DEF vars, machine, texts, moduleVars, IndInv, TypeOK, HasRAM, TagsSeen,
       ModuleCount, CopiesFit, MapFits, SectionsPassed, AllSectionsPassed, MapIsCopied,
       SearchHasRAM, RegionIsFree, End
  <2> QED BY <2>1, <2>2
<1> QED BY <1>1, <1>2, PTL DEF Spec

\* Every variable keeps its type, whatever the sizes of strings and the numbers
\* of modules and entries are: a string ends in its array
\* (kernel_multiboot.cpp:25, 40).
THEOREM TypeCorrect == Spec => []TypeOK
<1>1. IndInv => TypeOK
  BY DEF IndInv
<1> QED BY <1>1, Inductive, PTL

\* Load runs over its arrays only if there are more modules or entries than
\* fit; when it succeeds every module is stored and counted, unless exactly one
\* is too many (kernel_multiboot.cpp:54).
THEOREM ModulesAreKept == Spec => []CopiesFit
<1>1. IndInv => CopiesFit
  BY DEF IndInv
<1> QED BY <1>1, Inductive, PTL

\* If the entries of the map fit, the memory that the page allocator gets is
\* RAM, and above the kernel.
THEOREM PagesAreFree == Spec => []RegionIsFree
<1>1. IndInv => RegionIsFree
  BY DEF IndInv
<1> QED BY <1>1, Inductive, PTL
=============================================================================

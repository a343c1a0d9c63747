--------------------------- MODULE BootInformation ---------------------------
(***************************************************************************)
(* What the boot loader tells the kernel, and the memory the kernel makes  *)
(* of it: MultiBootManager::Load, which passes over the tags up to the end *)
(* tag, and GetBestMemRegion (kernel_multiboot.cpp), as kernel_main calls  *)
(* them.                                                                   *)
(*                                                                         *)
(* The machine, that is the memory map and where the boot loader has put   *)
(* the sections of the kernel and the modules, is chosen once; the tags    *)
(* that tell of it come in any order, each once, a module tag for every    *)
(* module.  The boot loader always sends the map and the sections.         *)
(*                                                                         *)
(* Modules and entries of the map are copied one by one into arrays of     *)
(* fixed size.  Behind _modules lies _numModueles, and behind _memRegions  *)
(* lie _numMemRegions and _highestVirtAddress (kernel_multiboot.h:243-252; *)
(* BaseAddress and StartAddress come first in their structs): the element  *)
(* that is one too many overwrites the counters.                           *)
(***************************************************************************)
EXTENDS Integers, Sequences

CONSTANTS
  Maps,          \* the memory maps: sequences of [base, length, type]
  SectionLists,  \* what sections the kernel has: sequences of [address, size]
  ModuleLists,   \* what modules were loaded: sequences of [start, end]
  TextSizes,     \* the sizes of strings, with the byte that ends them
  BOOT_CMD_MAX_CHARS, BOOTLOADER_NAME_MAX_CHARS,   \* 1024, 32
  MAX_LOADABLE_MODULES, MAX_MEM_REGIONS            \* 8, 128

Types == {"RESERVED", "RAM", "ACPI", "PRESERVED"}

\* memory_region_t.
Region == [base : Nat, high : Nat, type : Types]

\* What the boot loader sends: an entry of the map, the header of a section,
\* and a module.
MapEntry == [base : Nat, length : Nat, type : Types]
SectionHeader == [address : Nat, size : Nat]
ModuleTag == [start : Nat, end : Nat]

ASSUME BoundsAssumption ==
  /\ BOOT_CMD_MAX_CHARS \in Nat \ {0} /\ BOOTLOADER_NAME_MAX_CHARS \in Nat \ {0}
  /\ MAX_LOADABLE_MODULES \in Nat /\ MAX_MEM_REGIONS \in Nat
  /\ TextSizes \subseteq Nat \ {0}
\* No module is loaded to the very first bytes of memory.
ASSUME MachineAssumption ==
  /\ Maps \subseteq Seq(MapEntry)
  /\ SectionLists \subseteq Seq(SectionHeader)
  /\ ModuleLists \subseteq Seq(ModuleTag)
  /\ \A list \in ModuleLists : \A m \in DOMAIN list : list[m].start >= MAX_LOADABLE_MODULES

VARIABLES
  map, sections, loaded,  \* the machine
  sizeMatches,    \* its sections are as large as elf_section_header_t
  seen,           \* the tags passed, but for those of modules
  control,        \* where kernel_main is
  index,          \* the i of the loop it is in
  res,            \* what Load will return
  cmdEnd,         \* where _bootCMD ends
  nameEnd,        \* where _bootLoaderName ends
  told,           \* how many module tags were passed
  modules,        \* _modules, as far as it was written
  numModules,     \* _numModueles
  memRegions,     \* _memRegions up to _numMemRegions
  highestVirtAddress, \* _highestVirtAddress
  kernelMem       \* kernelMem of kernel_main

machine == <<map, sections, loaded, sizeMatches>>
texts == <<cmdEnd, nameEnd>>
moduleVars == <<told, modules, numModules>>
vars == <<machine, seen, control, index, res, texts, moduleVars, memRegions,
          highestVirtAddress, kernelMem>>

Tags == {"BOOT_COMMAND_LINE", "BOOT_LOADER_NAME", "MEMORY_MAP", "EFL_SYMBOLS", "OTHER"}

Control ==
  {"load",     \* in the loop of Load
   "sections", \* in its loop over the sections
   "loaded", "search", "done",  \* Load has succeeded; in GetBestMemRegion; behind it
   "returned", \* Load has failed, and kernel_main has returned
   "lost"}     \* Load has written to memory that is not its own

TypeOK ==
  /\ map \in Maps /\ sections \in SectionLists /\ loaded \in ModuleLists
  /\ sizeMatches \in BOOLEAN
  /\ seen \subseteq Tags
  /\ control \in Control
  /\ index \in Nat \ {0}
  /\ res \in {"RES_SUCCESS", "RES_OUT_OF_MEMORY", "RES_UNSUPPORTED"}
  /\ cmdEnd \in 0 .. BOOT_CMD_MAX_CHARS - 1
  /\ nameEnd \in 0 .. BOOTLOADER_NAME_MAX_CHARS - 1
  /\ told \in Nat /\ numModules \in Nat
  /\ modules \in Seq([start : Nat, size : Int]) /\ Len(modules) <= MAX_LOADABLE_MODULES
  /\ memRegions \in Seq(Region) /\ Len(memRegions) <= MAX_MEM_REGIONS
  /\ highestVirtAddress \in Nat
  /\ kernelMem \in Region

RAM(entry) == entry.type = "RAM"

\* What the boot loader guarantees: sections and modules are in RAM, and
\* apart from each other.
Within(first, last, entry) ==
  RAM(entry) /\ entry.base <= first /\ last <= entry.base + entry.length

Placed ==
  /\ \A s \in DOMAIN sections : \E e \in DOMAIN map :
       Within(sections[s].address, sections[s].address + sections[s].size, map[e])
  /\ \A m \in DOMAIN loaded : \E e \in DOMAIN map :
       Within(loaded[m].start, loaded[m].end, map[e])
  /\ \A s \in DOMAIN sections, m \in DOMAIN loaded :
       \/ sections[s].address + sections[s].size <= loaded[m].start
       \/ loaded[m].end <= sections[s].address

\* MultiBootManager::MultiBootManager; kernelMem is not initialized.
Init ==
  /\ map \in Maps /\ sections \in SectionLists /\ loaded \in ModuleLists
  /\ \E e \in DOMAIN map : RAM(map[e])
  /\ Placed
  /\ sizeMatches \in BOOLEAN
  /\ seen = {} /\ control = "load" /\ index = 1 /\ res = "RES_SUCCESS"
  /\ cmdEnd = 0 /\ nameEnd = 0
  /\ told = 0 /\ modules = <<>> /\ numModules = 0
  /\ memRegions = <<>> /\ highestVirtAddress = 0
  /\ kernelMem \in [base : {0}, high : {0}, type : {"RESERVED", "RAM"}]
-----------------------------------------------------------------------------
(* MultiBootManager::Load, a tag at a time. *)

Pass(tag) ==
  /\ control = "load" /\ tag \notin seen
  /\ seen' = seen \cup {tag}
  /\ UNCHANGED <<machine, kernelMem>>

\* Fault: the size of the tag is taken as it is.
Copied_All(size, max) == size

\* How many bytes of a string are copied; the last one is then set to '\0'.
Copied(size, max) == IF size > max THEN max ELSE size

BootCommandLine ==
  /\ Pass("BOOT_COMMAND_LINE")
  /\ \E size \in TextSizes : cmdEnd' = Copied(size, BOOT_CMD_MAX_CHARS) - 1
  /\ UNCHANGED <<control, index, res, nameEnd, moduleVars, memRegions, highestVirtAddress>>

BootLoaderName ==
  /\ Pass("BOOT_LOADER_NAME")
  /\ \E size \in TextSizes : nameEnd' = Copied(size, BOOTLOADER_NAME_MAX_CHARS) - 1
  /\ UNCHANGED <<control, index, res, cmdEnd, moduleVars, memRegions, highestVirtAddress>>

\* What is stored of a module.
StoredModule(mod) == [start |-> mod.start, size |-> mod.end - mod.start]

\* Fault: a module for which there is no place is passed over in silence.
Module_Silent ==
  /\ control = "load" /\ told < Len(loaded)
  /\ told' = told + 1
  /\ IF numModules > MAX_LOADABLE_MODULES
       THEN UNCHANGED <<modules, numModules>>
       ELSE /\ modules' = Append(modules, StoredModule(loaded[told + 1]))
            /\ numModules' = numModules + 1
  /\ UNCHANGED <<machine, seen, control, index, res, texts, memRegions, highestVirtAddress,
                 kernelMem>>

\* The tag of the next module.  The test is >, so that one module too many is
\* stored: its start becomes the count, and where its size and its name are
\* then written nobody knows.
Module ==
  /\ control = "load" /\ told < Len(loaded)
  /\ told' = told + 1
  /\ LET mod == loaded[told + 1]
     IN  \/ /\ numModules > MAX_LOADABLE_MODULES
            /\ res' = "RES_OUT_OF_MEMORY"
            /\ UNCHANGED <<control, modules, numModules>>
         \/ /\ numModules < MAX_LOADABLE_MODULES
            /\ modules' = Append(modules, StoredModule(mod))
            /\ numModules' = numModules + 1
            /\ UNCHANGED <<control, res>>
         \/ /\ numModules = MAX_LOADABLE_MODULES
            /\ numModules' = mod.start + 1
            /\ control' \in {"load", "lost"}
            /\ UNCHANGED <<res, modules>>
  /\ UNCHANGED <<machine, seen, index, texts, memRegions, highestVirtAddress, kernelMem>>

\* What is stored of an entry of the map.
RegionOf(entry) ==
  [base |-> entry.base, high |-> entry.base + entry.length, type |-> entry.type]

\* The entries that fit.  The one behind them is stored over the count, which
\* is now where it begins, and over _highestVirtAddress; the loop goes on for
\* as many entries as that, over what lies behind, unless it ends there.
MemoryMap ==
  /\ Pass("MEMORY_MAP")
  /\ IF Len(map) <= MAX_MEM_REGIONS
       THEN /\ memRegions' = [i \in 1 .. Len(map) |-> RegionOf(map[i])]
            /\ UNCHANGED <<control, highestVirtAddress>>
       ELSE LET over == RegionOf(map[MAX_MEM_REGIONS + 1])
                ends == over.base <= MAX_MEM_REGIONS
            IN  /\ memRegions' = [i \in 1 .. IF ends THEN over.base ELSE MAX_MEM_REGIONS
                                     |-> RegionOf(map[i])]
                /\ highestVirtAddress' = over.high
                /\ control' = IF ends THEN control ELSE "lost"
  /\ UNCHANGED <<index, res, texts, moduleVars>>

\* Memory sizes, the boot device, VBE information and the frame buffer are
\* copied and never read; other tags are passed over.
OtherTag ==
  /\ Pass("OTHER")
  /\ UNCHANGED <<control, index, res, texts, moduleVars, memRegions, highestVirtAddress>>

\* The loop over the sections begins, whether their size is right or not.
ElfSymbols ==
  /\ Pass("EFL_SYMBOLS")
  /\ control' = "sections" /\ index' = 1
  /\ res' = IF sizeMatches THEN res ELSE "RES_UNSUPPORTED"
  /\ UNCHANGED <<texts, moduleVars, memRegions, highestVirtAddress>>

End(section) == section.address + section.size

\* Fault: the last section is taken for the highest.
Section_Last ==
  /\ control = "sections" /\ index <= Len(sections)
  /\ highestVirtAddress' = End(sections[index])
  /\ index' = index + 1
  /\ UNCHANGED <<machine, seen, control, res, texts, moduleVars, memRegions, kernelMem>>

Section ==
  /\ control = "sections" /\ index <= Len(sections)
  /\ highestVirtAddress' = IF highestVirtAddress < End(sections[index])
                           THEN End(sections[index]) ELSE highestVirtAddress
  /\ index' = index + 1
  /\ UNCHANGED <<machine, seen, control, res, texts, moduleVars, memRegions, kernelMem>>

SectionsEnd ==
  /\ control = "sections" /\ index > Len(sections)
  /\ control' = "load"
  /\ UNCHANGED <<machine, seen, index, res, texts, moduleVars, memRegions,
                 highestVirtAddress, kernelMem>>

\* The end tag.
EndTag ==
  /\ control = "load"
  /\ {"MEMORY_MAP", "EFL_SYMBOLS"} \subseteq seen /\ told = Len(loaded)
  /\ control' = IF res = "RES_SUCCESS" THEN "loaded" ELSE "returned"
  /\ UNCHANGED <<machine, seen, index, res, texts, moduleVars, memRegions,
                 highestVirtAddress, kernelMem>>
-----------------------------------------------------------------------------
(* MultiBootManager::GetBestMemRegion. *)

GetBestMemRegion ==
  /\ control = "loaded"
  /\ control' = "search" /\ index' = 1
  /\ kernelMem' = [kernelMem EXCEPT !.high = 0]
  /\ UNCHANGED <<machine, seen, res, texts, moduleVars, memRegions, highestVirtAddress>>

\* One turn of the loop.
Consider ==
  /\ control = "search" /\ index <= Len(memRegions)
  /\ kernelMem' = IF RAM(memRegions[index]) /\ memRegions[index].high >= kernelMem.high
                  THEN memRegions[index] ELSE kernelMem
  /\ index' = index + 1
  /\ UNCHANGED <<machine, seen, control, res, texts, moduleVars, memRegions, highestVirtAddress>>

\* MemAlignAddress(address, 8).
MemAlignAddress(address) == ((address + 7) \div 8) * 8

\* If the region begins below the end of the kernel, its base is raised.
RaiseBase ==
  /\ control = "search" /\ index > Len(memRegions)
  /\ control' = "done"
  /\ kernelMem' = IF kernelMem.base < MemAlignAddress(highestVirtAddress)
                  THEN [kernelMem EXCEPT !.base = MemAlignAddress(highestVirtAddress)]
                  ELSE kernelMem
  /\ UNCHANGED <<machine, seen, index, res, texts, moduleVars, memRegions, highestVirtAddress>>

Next ==
  \/ BootCommandLine \/ BootLoaderName \/ Module \/ MemoryMap \/ OtherTag \/ ElfSymbols \/ Section \/ SectionsEnd \/ EndTag
  \/ GetBestMemRegion \/ Consider \/ RaiseBase

Spec == Init /\ [][Next]_vars
-----------------------------------------------------------------------------
(* Properties. *)

MapFits == Len(map) <= MAX_MEM_REGIONS

\* Load writes to memory that is not its own only if there are more modules or
\* more entries than fit; and when it succeeds it has stored every module and
\* the count of them (kernel_multiboot.cpp:54-76), unless exactly one module
\* is too many: that one it does not notice.
CopiesFit ==
  /\ control = "lost" => Len(loaded) > MAX_LOADABLE_MODULES \/ ~MapFits
  /\ control \in {"loaded", "search", "done"} =>
       \/ Len(modules) = Len(loaded) /\ numModules = Len(loaded)
       \/ Len(loaded) = MAX_LOADABLE_MODULES + 1

\* The memory that the page allocator gets (kernel_main.cpp:25, 40) is RAM
\* up to the end of an entry of the map, and above every section of the
\* kernel, in whatever order the tags and the sections come: no page that is
\* given out holds code or data of the kernel.  With more entries than fit the
\* count and _highestVirtAddress are lost, and nothing of this is left.
RegionIsFree ==
  control = "done" /\ MapFits =>
    /\ \E e \in DOMAIN map : /\ RAM(map[e]) /\ map[e].base <= kernelMem.base
                             /\ kernelMem.high = map[e].base + map[e].length
    /\ \A s \in DOMAIN sections : End(sections[s]) <= kernelMem.base

\* What is left of an entry above the kernel.
Usable(entry) ==
  LET end == entry.base + entry.length
      from == MemAlignAddress(highestVirtAddress)
  IN  IF entry.base < from THEN end - from ELSE entry.length

\* kernel_main.cpp:24 "This gets the biggest area of memory that does not
\* conflict with anything.": no entry has more RAM above the kernel.
RegionIsBiggest ==
  control = "done" =>
    \A e \in DOMAIN map : RAM(map[e]) => Usable(map[e]) <= kernelMem.high - kernelMem.base
-----------------------------------------------------------------------------
(* The inductive invariant. *)

HasRAM == \E e \in DOMAIN map : RAM(map[e])

\* Where control is tells which tags and modules were passed.
TagsSeen ==
  /\ control = "sections" => "EFL_SYMBOLS" \in seen
  /\ control \in {"loaded", "search", "done"} =>
       {"MEMORY_MAP", "EFL_SYMBOLS"} \subseteq seen /\ told = Len(loaded) /\ res = "RES_SUCCESS"

\* The count is right until it is overwritten, and from then on every module
\* makes Load fail.
ModuleCount ==
  /\ told <= Len(loaded)
  /\ told <= MAX_LOADABLE_MODULES => numModules = told /\ Len(modules) = told
  /\ told > MAX_LOADABLE_MODULES => numModules > MAX_LOADABLE_MODULES
  /\ told > MAX_LOADABLE_MODULES + 1 => res # "RES_SUCCESS"

\* Of the sections that were passed none ends above _highestVirtAddress.
SectionsPassed ==
  control = "sections" =>
    \A s \in DOMAIN sections : s < index => End(sections[s]) <= highestVirtAddress

\* Once the loop is over none does at all.
AllSectionsPassed ==
  "EFL_SYMBOLS" \in seen /\ control # "sections" =>
    \A s \in DOMAIN sections : End(sections[s]) <= highestVirtAddress

MapIsCopied ==
  "MEMORY_MAP" \in seen => memRegions = [i \in 1 .. Len(map) |-> RegionOf(map[i])]

\* The search has an entry with RAM, unless it has not met one yet.
SearchHasRAM ==
  control = "search" =>
    \/ kernelMem.high = 0 /\ \A e \in DOMAIN map : e < index => ~RAM(map[e])
    \/ \E e \in DOMAIN map : RAM(map[e]) /\ kernelMem = RegionOf(map[e])

IndInv ==
  /\ TypeOK /\ HasRAM /\ TagsSeen /\ ModuleCount /\ CopiesFit /\ RegionIsFree
  /\ MapFits => SectionsPassed /\ AllSectionsPassed /\ MapIsCopied /\ SearchHasRAM
=============================================================================

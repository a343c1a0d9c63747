-------------------------- MODULE MCBootInformation --------------------------
(***************************************************************************)
(* Small machines: low memory, a hole, and one or two regions above it.    *)
(* There is room for five entries of the map and one module; there are     *)
(* machines with an entry, and with one and two modules, too many.         *)
(***************************************************************************)
EXTENDS BootInformation

Entry(base, length, type) == [base |-> base, length |-> length, type |-> type]

MCMaps ==
  {<<Entry(0, 10, "RAM"), Entry(10, 6, "RESERVED"), Entry(16, 64, "RAM"),
     Entry(80, 8, "ACPI"), Entry(100, 20, "RAM")>>,
   <<Entry(16, 40, "RAM"), Entry(0, 10, "RAM"), Entry(56, 8, "RESERVED")>>,
   <<Entry(0, 64, "RAM"), Entry(64, 8, "PRESERVED")>>,
   <<Entry(10, 6, "RESERVED"), Entry(16, 64, "RAM"), Entry(80, 8, "ACPI"),
     Entry(88, 4, "ACPI"), Entry(100, 20, "RAM"), Entry(2, 8, "RAM")>>,
   <<Entry(0, 10, "RAM"), Entry(10, 6, "RESERVED"), Entry(16, 64, "RAM"),
     Entry(80, 8, "ACPI"), Entry(88, 4, "ACPI"), Entry(100, 20, "RAM")>>}

\* The kernel in one and in three sections, the last of them below another.
MCSectionLists ==
  {<<[address |-> 16, size |-> 5]>>,
   <<[address |-> 16, size |-> 8], [address |-> 40, size |-> 3], [address |-> 24, size |-> 4]>>}

MCModules == <<[start |-> 44, end |-> 50], [start |-> 30, end |-> 36], [start |-> 52, end |-> 56]>>

MCModuleLists == {SubSeq(MCModules, 1, n) : n \in 0 .. 3}

\* A string that fits, and ones at and over the limits.
MCTextSizes == {1, 3, 4, 5}
=============================================================================

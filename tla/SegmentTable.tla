---------------------------- MODULE SegmentTable ----------------------------
(***************************************************************************)
(* BuildSegmentTable and FreeSegmentTable (PciConfigAccess.c): from the    *)
(* configuration table of the firmware over RSDP, XSDT and MCFG to an      *)
(* array of PCI_SEGMENT_INFO, and the configuration reads made with it.    *)
(*                                                                         *)
(* Lengths are in bytes, as in the code.  Arithmetic on them is that of    *)
(* UINTN.  Segments is the array as a sequence, <<>> being NULL: the code  *)
(* never asks for an empty array.                                          *)
(***************************************************************************)
EXTENDS PciConfigAccess, Integers

CONSTANTS
  WordModulus,  \* 2^64: UINTN
  Firmwares,    \* what SystemTable->ConfigurationTable may hold
  Reads         \* the configuration reads considered

HeaderSize     == 36   \* EFI_ACPI_DESCRIPTION_HEADER
XsdtEntrySize  == 8    \* UINT64
McfgHeaderSize == 44   \* ..._CONFIGURATION_BASE_ADDRESS_TABLE_HEADER
McfgEntrySize  == 16   \* MCFG_ENTRY

(* n is the number of whole entries in the length bytes of a table. *)
Holds(length, header, size, n) ==
  IF length < header THEN n = 0
  ELSE header + n * size <= length /\ length < header + (n + 1) * size

(* A table the XSDT points to.  entries is empty for one that is no MCFG. *)
AcpiTables ==
  {t \in [isMcfg: BOOLEAN, Length: 0 .. WordModulus - 1, entries: Seq(PCI_SEGMENT_INFO)] :
     t.isMcfg => Holds(t.Length, McfgHeaderSize, McfgEntrySize, Len(t.entries))}

Xsdts ==
  {x \in [Length: 0 .. WordModulus - 1, tables: Seq(AcpiTables)] :
     Holds(x.Length, HeaderSize, XsdtEntrySize, Len(x.tables))}

(* An entry of the configuration table; the two GUIDs of the code are one
   GUID, that of ACPI 2.0.  hasXsdt: XsdtAddress is not 0. *)
ConfigurationTables == [isAcpi: BOOLEAN, hasXsdt: BOOLEAN, xsdt: Xsdts]

ASSUME FirmwareAssumption == Firmwares \subseteq Seq(ConfigurationTables)
ASSUME WordAssumption == WordModulus \in Nat \ {0}
ASSUME ReadAssumption == Reads \subseteq Requests

VARIABLES
  configuration,   \* the firmware's table; it does not change
  pc, index,
  rsdp, mcfg,      \* which configuration table, and which table of its XSDT; 0 is NULL
  entryCount,      \* XsdtEntryCount, then McfgEntryCount
  Segments, Count, \* the PCI_SEGMENT_TABLE
  held             \* the array is allocated and not yet freed

vars == <<configuration, pc, index, rsdp, mcfg, entryCount, Segments, Count, held>>
table == <<Segments, Count, held>>

Init ==
  /\ configuration \in Firmwares
  /\ pc = "rsdp" /\ index = 1 /\ rsdp = 0 /\ mcfg = 0 /\ entryCount = 0
  /\ Segments = <<>> /\ Count = 0 /\ held = FALSE

-----------------------------------------------------------------------------
Xsdt == configuration[rsdp].xsdt
Mcfg == Xsdt.tables[mcfg]

(* (Length - sizeof (header)) / sizeof (entry). *)
EntryCount(length, header, size) == ((length - header) % WordModulus) \div size

PassConfigurationTable ==
  /\ pc = "rsdp" /\ index <= Len(configuration)
  /\ ~configuration[index].isAcpi
  /\ index' = index + 1
  /\ UNCHANGED <<configuration, pc, rsdp, mcfg, entryCount, table>>

FindRsdp ==
  /\ pc = "rsdp" /\ index <= Len(configuration)
  /\ configuration[index].isAcpi
  /\ rsdp' = index
  /\ pc' = "openXsdt"
  /\ UNCHANGED <<configuration, index, mcfg, entryCount, table>>

NoRsdp ==
  /\ pc = "rsdp" /\ index > Len(configuration)
  /\ pc' = "reading"
  /\ UNCHANGED <<configuration, index, rsdp, mcfg, entryCount, table>>

(* A length that is too short would underflow the count.  Variant: unchecked. *)
OpensXsdtUnchecked == configuration[rsdp].hasXsdt
OpensXsdt == configuration[rsdp].hasXsdt /\ Xsdt.Length >= HeaderSize

OpenXsdt ==
  /\ pc = "openXsdt"
  /\ IF OpensXsdt
       THEN /\ entryCount' = EntryCount(Xsdt.Length, HeaderSize, XsdtEntrySize)
            /\ index' = 1
            /\ pc' = "xsdt"
       ELSE pc' = "reading" /\ UNCHANGED <<index, entryCount>>
  /\ UNCHANGED <<configuration, rsdp, mcfg, table>>

(* Variant: the loop counts only the tables it looks into. *)
PassAcpiTableUncounted ==
  /\ pc = "xsdt" /\ index <= entryCount
  /\ ~Xsdt.tables[index].isMcfg
  /\ UNCHANGED vars

PassAcpiTable ==
  /\ pc = "xsdt" /\ index <= entryCount
  /\ ~Xsdt.tables[index].isMcfg
  /\ index' = index + 1
  /\ UNCHANGED <<configuration, pc, rsdp, mcfg, entryCount, table>>

FindMcfg ==
  /\ pc = "xsdt" /\ index <= entryCount
  /\ Xsdt.tables[index].isMcfg
  /\ mcfg' = index
  /\ pc' = "openMcfg"
  /\ UNCHANGED <<configuration, index, rsdp, entryCount, table>>

NoMcfg ==
  /\ pc = "xsdt" /\ index > entryCount
  /\ pc' = "reading"
  /\ UNCHANGED <<configuration, index, rsdp, mcfg, entryCount, table>>

(* An MCFG without room for one entry is no MCFG.  Variant: one with room for
   exactly one is none either. *)
OpenMcfgWantsMore ==
  /\ pc = "openMcfg"
  /\ IF Mcfg.Length <= McfgHeaderSize + McfgEntrySize
       THEN pc' = "reading" /\ UNCHANGED entryCount
       ELSE /\ entryCount' = EntryCount(Mcfg.Length, McfgHeaderSize, McfgEntrySize)
            /\ pc' = "allocate"
  /\ UNCHANGED <<configuration, index, rsdp, mcfg, table>>

OpenMcfg ==
  /\ pc = "openMcfg"
  /\ IF Mcfg.Length < McfgHeaderSize + McfgEntrySize
       THEN pc' = "reading" /\ UNCHANGED entryCount
       ELSE /\ entryCount' = EntryCount(Mcfg.Length, McfgHeaderSize, McfgEntrySize)
            /\ pc' = "allocate"
  /\ UNCHANGED <<configuration, index, rsdp, mcfg, table>>

-----------------------------------------------------------------------------
Zero == [Seg |-> 0, EcamBase |-> 0, StartBus |-> 0, EndBus |-> 0]

(* AllocateZeroPool.  Variant: Count is set here and not after the copy. *)
AllocateAndCount ==
  /\ pc = "allocate"
  /\ Segments' = [i \in 1 .. entryCount |-> Zero]
  /\ Count' = entryCount
  /\ held' = TRUE
  /\ index' = 1
  /\ pc' = "copy"
  /\ UNCHANGED <<configuration, rsdp, mcfg, entryCount>>

Allocate ==
  /\ pc = "allocate"
  /\ Segments' = [i \in 1 .. entryCount |-> Zero]
  /\ held' = TRUE
  /\ index' = 1
  /\ pc' = "copy"
  /\ UNCHANGED <<configuration, rsdp, mcfg, entryCount, Count>>

NoMemory ==
  /\ pc = "allocate"
  /\ pc' = "reading"
  /\ UNCHANGED <<configuration, index, rsdp, mcfg, entryCount, table>>

CopyEntry ==
  /\ pc = "copy" /\ index <= entryCount
  /\ Segments' = [Segments EXCEPT ![index] = Mcfg.entries[index]]
  /\ index' = index + 1
  /\ UNCHANGED <<configuration, pc, rsdp, mcfg, entryCount, Count, held>>

(* Variant: the loop's last index is taken for the number of entries. *)
SetCountFromIndex ==
  /\ pc = "copy" /\ index > entryCount
  /\ Count' = index
  /\ pc' = "reading"
  /\ UNCHANGED <<configuration, index, rsdp, mcfg, entryCount, Segments, held>>

SetCount ==
  /\ pc = "copy" /\ index > entryCount
  /\ Count' = entryCount
  /\ pc' = "reading"
  /\ UNCHANGED <<configuration, index, rsdp, mcfg, entryCount, Segments, held>>

(* FreeSegmentTable. *)
FreeSegmentTable ==
  /\ pc = "reading"
  /\ held' = IF Segments = <<>> THEN held ELSE FALSE
  /\ Segments' = <<>> /\ Count' = 0
  /\ pc' = "done"
  /\ UNCHANGED <<configuration, index, rsdp, mcfg, entryCount>>

Next ==
  \/ PassConfigurationTable \/ FindRsdp \/ NoRsdp
  \/ OpenXsdt \/ PassAcpiTable \/ FindMcfg \/ NoMcfg \/ OpenMcfg
  \/ Allocate \/ NoMemory \/ CopyEntry \/ SetCount \/ FreeSegmentTable

Spec == Init /\ [][Next]_vars

-----------------------------------------------------------------------------
(* Every variable keeps its type. *)
TypeOK ==
  /\ configuration \in Firmwares
  /\ pc \in {"rsdp", "openXsdt", "xsdt", "openMcfg", "allocate", "copy",
             "reading", "done"}
  /\ index \in Nat \ {0}
  /\ rsdp \in 0 .. Len(configuration)
  /\ mcfg \in Nat
  /\ entryCount \in 0 .. WordModulus - 1
  /\ Segments \in Seq(PCI_SEGMENT_INFO)
  /\ Count \in 0 .. Len(Segments)
  /\ held \in BOOLEAN

(* No loop of BuildSegmentTable leaves the table it is in: an XSDT entry, an
   MCFG entry or a Segments[Index] that is touched lies within the Length of
   its table, or within the array, whatever lengths the firmware states. *)
WithinTables ==
  /\ pc = "xsdt" /\ index <= entryCount => index \in DOMAIN Xsdt.tables
  /\ pc = "copy" /\ index <= entryCount =>
       index \in DOMAIN Segments /\ index \in DOMAIN Mcfg.entries

First(S) == CHOOSE i \in S : \A j \in S : i <= j

(* What the firmware announces: the entries of the first MCFG of the first
   ACPI entry. *)
Announced ==
  LET acpi  == {i \in DOMAIN configuration : configuration[i].isAcpi}
      c     == configuration[First(acpi)]
      mcfgs == {j \in DOMAIN c.xsdt.tables : c.xsdt.tables[j].isMcfg}
  IN IF acpi = {} \/ ~c.hasXsdt \/ mcfgs = {} THEN <<>>
     ELSE c.xsdt.tables[First(mcfgs)].entries

(* The table as its readers see it. *)
View == SubSeq(Segments, 1, Count)

(* The table is empty or complete at every instant: Count never covers an
   entry that has not been copied. *)
NeverPartial == View \in {<<>>, Announced}

(* BuildSegmentTable returns the table the firmware announces, or an empty
   one if the allocation fails, and nothing in between. *)
BuildsTable ==
  [][pc # "reading" /\ pc' = "reading" =>
       View' = IF pc = "allocate" THEN <<>> ELSE Announced]_vars

(* The firmware's windows: a segment has one base, and no two windows share
   an address. *)
Sound(Windows) ==
  \A i, j \in DOMAIN Windows :
    LET e == Windows[i]
        f == Windows[j]
    IN /\ e.EcamBase # 0
       /\ e.Seg = f.Seg => e.EcamBase = f.EcamBase
       /\ i # j => \/ e.EcamBase + (e.EndBus + 1) * BusSize <= f.EcamBase + f.StartBus * BusSize
                  \/ f.EcamBase + (f.EndBus + 1) * BusSize <= e.EcamBase + e.StartBus * BusSize

Covered(r) ==
  \E i \in DOMAIN Announced : /\ Announced[i].Seg = r.Seg
                             /\ r.Bus \in Announced[i].StartBus .. Announced[i].EndBus

(* A read reaches the register asked for, of the function asked for, through
   the ports or through the ECAM window of its segment.  It answers all ones
   if the segment has no window, and off the ports if there was no memory for
   the table.  (A bus that no range of its segment covers is not judged: the
   code reads ECAM there all the same.) *)
ReadsReachFunction ==
  pc = "reading" /\ Sound(Announced) =>
    \A r \in Reads :
      LET legacy == IsLegacy(r.Seg, r.Register)
      IN legacy \/ Covered(r) \/ EntriesFor(Announced, r.Seg) = {} =>
           PciCfgRead(View, Announced, r) =
             IF legacy \/ (Covered(r) /\ View # <<>>) THEN r ELSE AllOnes
=============================================================================

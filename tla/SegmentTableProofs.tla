------------------------- MODULE SegmentTableProofs -------------------------
(***************************************************************************)
(* What SegmentTable keeps, for every firmware: the loops stay within the  *)
(* tables, the table built is the one announced or empty, and a read       *)
(* reaches the register it asks for.                                       *)
(***************************************************************************)
EXTENDS SegmentTable, SequenceTheorems, WellFoundedInduction, TLAPS

-----------------------------------------------------------------------------
(* How far the search has come. *)
RsdpFound ==
  /\ rsdp \in DOMAIN configuration /\ configuration[rsdp].isAcpi
  /\ \A i \in DOMAIN configuration : i < rsdp => ~configuration[i].isAcpi

XsdtFound == RsdpFound /\ configuration[rsdp].hasXsdt /\ Xsdt.Length >= HeaderSize

McfgFound ==
  /\ XsdtFound
  /\ mcfg \in DOMAIN Xsdt.tables /\ Xsdt.tables[mcfg].isMcfg
  /\ \A j \in DOMAIN Xsdt.tables : j < mcfg => ~Xsdt.tables[j].isMcfg

EntriesFound == McfgFound /\ entryCount = Len(Mcfg.entries) /\ entryCount > 0

SearchInv ==
  /\ pc = "rsdp" => \A i \in DOMAIN configuration : i < index => ~configuration[i].isAcpi
  /\ pc = "openXsdt" => RsdpFound
  /\ pc = "xsdt" => /\ XsdtFound /\ entryCount = Len(Xsdt.tables)
                    /\ \A j \in DOMAIN Xsdt.tables : j < index => ~Xsdt.tables[j].isMcfg
  /\ pc = "openMcfg" => McfgFound
  /\ pc \in {"allocate", "copy"} => EntriesFound

Empty == Segments = <<>> /\ Count = 0 /\ ~held

(* The array is NULL until it is allocated, filled from the front, and either
   NULL or whole for the readers. *)
ArrayInv ==
  /\ pc \notin {"copy", "reading"} => Empty
  /\ pc = "copy" => /\ Len(Segments) = entryCount /\ Count = 0 /\ held
                    /\ index <= entryCount + 1
                    /\ \A i \in 1 .. index - 1 : Segments[i] = Mcfg.entries[i]
  /\ pc = "reading" => \/ Empty
                       \/ /\ Segments = Announced /\ Segments # <<>>
                          /\ Count = Len(Segments) /\ held

IInv == TypeOK /\ SearchInv /\ ArrayInv

-----------------------------------------------------------------------------
(* What is in the firmware's tables. *)
LEMMA FirmwareType ==
  ASSUME configuration \in Firmwares
  PROVE  /\ configuration \in Seq(ConfigurationTables)
         /\ DOMAIN configuration = 1 .. Len(configuration)
         /\ Len(configuration) \in Nat
PROOF
  BY FirmwareAssumption

LEMMA XsdtType ==
  ASSUME configuration \in Firmwares, NEW i \in DOMAIN configuration
  PROVE  /\ configuration[i].isAcpi \in BOOLEAN
         /\ configuration[i].hasXsdt \in BOOLEAN
         /\ configuration[i].xsdt \in Xsdts
         /\ configuration[i].xsdt.Length \in 0 .. WordModulus - 1
         /\ configuration[i].xsdt.tables \in Seq(AcpiTables)
         /\ Holds(configuration[i].xsdt.Length, HeaderSize, XsdtEntrySize,
                  Len(configuration[i].xsdt.tables))
PROOF
  <1>1. configuration[i] \in ConfigurationTables
    BY FirmwareType
  <1>2. configuration[i].xsdt \in Xsdts
    BY <1>1 DEF ConfigurationTables
  <1>3. QED
    BY <1>1, <1>2 DEF ConfigurationTables, Xsdts

LEMMA TableType ==
  ASSUME configuration \in Firmwares, NEW i \in DOMAIN configuration,
         NEW j \in DOMAIN configuration[i].xsdt.tables
  PROVE  LET t == configuration[i].xsdt.tables[j]
         IN /\ t.isMcfg \in BOOLEAN
            /\ t.Length \in 0 .. WordModulus - 1
            /\ t.entries \in Seq(PCI_SEGMENT_INFO)
            /\ t.isMcfg => Holds(t.Length, McfgHeaderSize, McfgEntrySize, Len(t.entries))
PROOF
  <1>1. configuration[i].xsdt.tables \in Seq(AcpiTables)
    BY XsdtType
  <1>2. configuration[i].xsdt.tables[j] \in AcpiTables
    BY <1>1
  <1>3. QED
    BY <1>2 DEF AcpiTables

(* The division of the code counts the whole entries. *)
LEMMA CountsXsdt ==
  ASSUME NEW length \in 0 .. WordModulus - 1, length >= HeaderSize, NEW n \in Nat,
         Holds(length, HeaderSize, XsdtEntrySize, n)
  PROVE  EntryCount(length, HeaderSize, XsdtEntrySize) = n
PROOF
  <1>1. (length - 36) % WordModulus = length - 36
    BY WordAssumption DEF HeaderSize
  <1>2. (length - 36) \div 8 = n
    BY WordAssumption DEF Holds, HeaderSize, XsdtEntrySize
  <1>3. QED
    BY <1>1, <1>2 DEF EntryCount, HeaderSize, XsdtEntrySize

LEMMA CountsMcfg ==
  ASSUME NEW length \in 0 .. WordModulus - 1, length >= McfgHeaderSize, NEW n \in Nat,
         Holds(length, McfgHeaderSize, McfgEntrySize, n)
  PROVE  EntryCount(length, McfgHeaderSize, McfgEntrySize) = n
PROOF
  <1>1. (length - 44) % WordModulus = length - 44
    BY WordAssumption DEF McfgHeaderSize
  <1>2. (length - 44) \div 16 = n
    BY WordAssumption DEF Holds, McfgHeaderSize, McfgEntrySize
  <1>3. QED
    BY <1>1, <1>2 DEF EntryCount, McfgHeaderSize, McfgEntrySize

(* The announcement is the MCFG that the search finds, or nothing if the
   search finds none. *)
LEMMA AnnouncedMcfg ==
  ASSUME configuration \in Firmwares, McfgFound
  PROVE  Announced = Mcfg.entries
PROOF
  <1>. DEFINE acpi  == {i \in DOMAIN configuration : configuration[i].isAcpi}
              mcfgs == {j \in DOMAIN Xsdt.tables : Xsdt.tables[j].isMcfg}
  <1>1. First(acpi) = rsdp
    BY FirmwareType DEF McfgFound, XsdtFound, RsdpFound, First
  <1>2. Xsdt.tables \in Seq(AcpiTables)
    BY XsdtType DEF McfgFound, XsdtFound, RsdpFound, Xsdt
  <1>3. First(mcfgs) = mcfg
    BY <1>2 DEF McfgFound, First
  <1>4. acpi # {} /\ mcfgs # {}
    BY DEF McfgFound, XsdtFound, RsdpFound
  <1>5. QED
    BY <1>1, <1>3, <1>4 DEF Announced, McfgFound, XsdtFound, Xsdt, Mcfg

LEMMA AnnouncedNothing ==
  ASSUME configuration \in Firmwares,
         \/ \A i \in DOMAIN configuration : ~configuration[i].isAcpi
         \/ RsdpFound /\ ~configuration[rsdp].hasXsdt
         \/ RsdpFound /\ \A j \in DOMAIN Xsdt.tables : ~Xsdt.tables[j].isMcfg
  PROVE  Announced = <<>>
PROOF
  <1>. DEFINE acpi == {i \in DOMAIN configuration : configuration[i].isAcpi}
  <1>1. CASE \A i \in DOMAIN configuration : ~configuration[i].isAcpi
    BY <1>1 DEF Announced
  <1>2. CASE RsdpFound
    <2>1. First(acpi) = rsdp
      BY <1>2, FirmwareType DEF RsdpFound, First
    <2>2. QED
      BY <1>2, <2>1 DEF Announced, Xsdt, RsdpFound
  <1>3. QED
    BY <1>1, <1>2

-----------------------------------------------------------------------------
(* What the firmware's part of an action leaves alone. *)
LEMMA SameFirmware ==
  ASSUME UNCHANGED <<configuration, rsdp>>
  PROVE  /\ Xsdt' = Xsdt /\ RsdpFound' = RsdpFound /\ XsdtFound' = XsdtFound
         /\ Announced' = Announced
PROOF
  BY DEF Xsdt, RsdpFound, XsdtFound, Announced

LEMMA SameMcfg ==
  ASSUME UNCHANGED <<configuration, rsdp, mcfg>>
  PROVE  /\ Mcfg' = Mcfg /\ McfgFound' = McfgFound
         /\ entryCount' = entryCount => EntriesFound' = EntriesFound
PROOF
  BY SameFirmware DEF Mcfg, McfgFound, EntriesFound

LEMMA InitInv == Init => IInv
PROOF
  <1>. SUFFICES ASSUME Init PROVE IInv
    OBVIOUS
  <1>1. TypeOK
    <2>1. Len(configuration) \in Nat
      BY FirmwareType DEF Init
    <2>2. Segments \in Seq(PCI_SEGMENT_INFO) /\ Len(Segments) = 0
      BY DEF Init
    <2>3. 0 \in 0 .. WordModulus - 1
      BY WordAssumption
    <2>4. rsdp \in 0 .. Len(configuration) /\ Count \in 0 .. Len(Segments)
      BY <2>1, <2>2 DEF Init
    <2>5. QED
      <3>1. held \in BOOLEAN
        BY DEF Init
      <3>2. pc \in {"rsdp"} /\ index \in Nat \ {0} /\ mcfg \in Nat
        BY DEF Init
      <3>3. configuration \in Firmwares /\ entryCount \in 0 .. WordModulus - 1
        BY <2>3 DEF Init
      <3>4. QED
        BY <2>2, <2>4, <3>1, <3>2, <3>3 DEF TypeOK
  <1>2. SearchInv
    BY FirmwareType DEF Init, SearchInv
  <1>3. ArrayInv
    BY DEF Init, ArrayInv, Empty
  <1>4. QED
    BY <1>1, <1>2, <1>3 DEF IInv

(* The search for the RSDP. *)
LEMMA RsdpSteps ==
  IInv /\ (PassConfigurationTable \/ FindRsdp \/ NoRsdp) => IInv'
PROOF
  <1>. SUFFICES ASSUME IInv, PassConfigurationTable \/ FindRsdp \/ NoRsdp PROVE IInv'
    OBVIOUS
  <1>. USE DEF IInv, table
  <1>0. configuration \in Firmwares
    BY DEF TypeOK
  <1>1. CASE PassConfigurationTable
    <2>1. TypeOK'
      BY <1>1 DEF PassConfigurationTable, TypeOK
    <2>2. SearchInv'
      BY <1>0, <1>1, FirmwareType DEF PassConfigurationTable, TypeOK, SearchInv
    <2>3. ArrayInv'
      BY <1>1 DEF PassConfigurationTable, ArrayInv, Empty
    <2>4. QED
      BY <2>1, <2>2, <2>3
  <1>2. CASE FindRsdp
    <2>1. TypeOK'
      <3>1. Len(configuration) \in Nat
        BY <1>0, FirmwareType
      <3>2. index \in 0 .. Len(configuration)
        BY <1>2, <3>1 DEF FindRsdp, TypeOK
      <3>3. QED
        BY <1>2, <3>2 DEF FindRsdp, TypeOK
    <2>2. SearchInv'
      <3>1. RsdpFound'
        <4>1. index \in DOMAIN configuration
          BY <1>0, <1>2, FirmwareType DEF FindRsdp, TypeOK
        <4>2. \A i \in DOMAIN configuration : i < index => ~configuration[i].isAcpi
          BY <1>2 DEF FindRsdp, SearchInv
        <4>3. QED
          BY <1>2, <4>1, <4>2 DEF FindRsdp, RsdpFound
      <3>2. QED
        BY <3>1, <1>2 DEF FindRsdp, SearchInv
    <2>3. ArrayInv'
      BY <1>2 DEF FindRsdp, ArrayInv, Empty
    <2>4. QED
      BY <2>1, <2>2, <2>3
  <1>3. CASE NoRsdp
    <2>1. TypeOK'
      BY <1>3 DEF NoRsdp, TypeOK
    <2>2. SearchInv'
      BY <1>3 DEF NoRsdp, SearchInv
    <2>3. ArrayInv'
      BY <1>3 DEF NoRsdp, ArrayInv, Empty
    <2>4. QED
      BY <2>1, <2>2, <2>3
  <1>4. QED
    BY <1>1, <1>2, <1>3

(* The search for the MCFG. *)
LEMMA OpenXsdtStep == IInv /\ OpenXsdt => IInv'
PROOF
  <1>. SUFFICES ASSUME IInv, OpenXsdt PROVE IInv'
    OBVIOUS
  <1>. USE DEF IInv, table
  <1>0. configuration \in Firmwares /\ RsdpFound
    BY DEF TypeOK, SearchInv, OpenXsdt
  <1>1. rsdp \in DOMAIN configuration
    BY <1>0 DEF RsdpFound
  <1>2. /\ Len(Xsdt.tables) \in Nat /\ DOMAIN Xsdt.tables = 1 .. Len(Xsdt.tables)
        /\ Xsdt.Length \in 0 .. WordModulus - 1
        /\ Holds(Xsdt.Length, HeaderSize, XsdtEntrySize, Len(Xsdt.tables))
    BY <1>0, <1>1, XsdtType DEF Xsdt
  <1>3. EntryCount(Xsdt.Length, HeaderSize, XsdtEntrySize) \in 0 .. WordModulus - 1
    BY <1>2, WordAssumption DEF EntryCount, HeaderSize, XsdtEntrySize
  <1>4. TypeOK'
    <2>1. /\ pc' \in {"xsdt", "reading"} /\ index' \in Nat \ {0}
          /\ entryCount' \in 0 .. WordModulus - 1
      BY <1>3 DEF OpenXsdt, TypeOK
    <2>2. QED
      BY <2>1 DEF OpenXsdt, TypeOK
  <1>5. SearchInv'
    <2>1. CASE OpensXsdt
      <3>1. XsdtFound
        BY <1>0, <2>1 DEF XsdtFound, OpensXsdt
      <3>2. XsdtFound' /\ Xsdt' = Xsdt
        BY <3>1, SameFirmware DEF OpenXsdt
      <3>3. EntryCount(Xsdt.Length, HeaderSize, XsdtEntrySize) = Len(Xsdt.tables)
        BY <1>2, <2>1, CountsXsdt DEF OpensXsdt
      <3>4. QED
        <4>1. /\ pc' = "xsdt" /\ index' = 1
              /\ entryCount' = EntryCount(Xsdt.Length, HeaderSize, XsdtEntrySize)
          BY <2>1 DEF OpenXsdt
        <4>2. Xsdt'.tables = Xsdt.tables
          BY <3>2
        <4>3. \A j \in DOMAIN Xsdt'.tables : ~(j < 1)
          BY <1>2, <4>2
        <4>4. QED
          BY <3>2, <3>3, <4>1, <4>2, <4>3 DEF SearchInv
    <2>2. CASE ~OpensXsdt
      BY <2>2 DEF OpenXsdt, SearchInv
    <2>3. QED
      BY <2>1, <2>2
  <1>6. ArrayInv'
    BY DEF OpenXsdt, ArrayInv, Empty
  <1>7. QED
    BY <1>4, <1>5, <1>6

LEMMA McfgSteps == IInv /\ (PassAcpiTable \/ FindMcfg \/ NoMcfg) => IInv'
PROOF
  <1>. SUFFICES ASSUME IInv, PassAcpiTable \/ FindMcfg \/ NoMcfg PROVE IInv'
    OBVIOUS
  <1>. USE DEF IInv, table
  <1>0. configuration \in Firmwares /\ XsdtFound
    BY DEF TypeOK, SearchInv, PassAcpiTable, FindMcfg, NoMcfg
  <1>1. rsdp \in DOMAIN configuration
    BY <1>0 DEF XsdtFound, RsdpFound
  <1>2. Len(Xsdt.tables) \in Nat /\ DOMAIN Xsdt.tables = 1 .. Len(Xsdt.tables)
    BY <1>0, <1>1, XsdtType DEF Xsdt
  <1>3. entryCount = Len(Xsdt.tables) /\ \A j \in DOMAIN Xsdt.tables : j < index => ~Xsdt.tables[j].isMcfg
    BY DEF SearchInv, PassAcpiTable, FindMcfg, NoMcfg
  <1>4. XsdtFound' /\ Xsdt' = Xsdt
    BY <1>0, SameFirmware DEF PassAcpiTable, FindMcfg, NoMcfg
  <1>5. CASE PassAcpiTable
    <2>1. TypeOK'
      BY <1>5 DEF PassAcpiTable, TypeOK
    <2>2. SearchInv'
      BY <1>2, <1>3, <1>4, <1>5 DEF PassAcpiTable, TypeOK, SearchInv
    <2>3. ArrayInv'
      BY <1>5 DEF PassAcpiTable, ArrayInv, Empty
    <2>4. QED
      BY <2>1, <2>2, <2>3
  <1>6. CASE FindMcfg
    <2>1. TypeOK'
      BY <1>6 DEF FindMcfg, TypeOK
    <2>2. McfgFound'
      <3>1. mcfg' \in DOMAIN Xsdt.tables /\ Xsdt.tables[mcfg'].isMcfg
        BY <1>2, <1>3, <1>6 DEF FindMcfg, TypeOK
      <3>2. \A j \in DOMAIN Xsdt.tables : j < mcfg' => ~Xsdt.tables[j].isMcfg
        BY <1>3, <1>6 DEF FindMcfg
      <3>3. QED
        BY <1>4, <3>1, <3>2 DEF McfgFound
    <2>3. SearchInv'
      BY <1>6, <2>2 DEF FindMcfg, SearchInv
    <2>4. ArrayInv'
      BY <1>6 DEF FindMcfg, ArrayInv, Empty
    <2>5. QED
      BY <2>1, <2>3, <2>4
  <1>7. CASE NoMcfg
    <2>1. TypeOK'
      BY <1>7 DEF NoMcfg, TypeOK
    <2>2. SearchInv'
      BY <1>7 DEF NoMcfg, SearchInv
    <2>3. ArrayInv'
      BY <1>7 DEF NoMcfg, ArrayInv, Empty
    <2>4. QED
      BY <2>1, <2>2, <2>3
  <1>8. QED
    BY <1>5, <1>6, <1>7

LEMMA McfgEntries ==
  ASSUME configuration \in Firmwares, McfgFound
  PROVE  /\ Mcfg.entries \in Seq(PCI_SEGMENT_INFO) /\ Len(Mcfg.entries) \in Nat
         /\ Mcfg.Length \in 0 .. WordModulus - 1
         /\ Holds(Mcfg.Length, McfgHeaderSize, McfgEntrySize, Len(Mcfg.entries))
PROOF
  <1>1. rsdp \in DOMAIN configuration /\ mcfg \in DOMAIN configuration[rsdp].xsdt.tables
    BY DEF McfgFound, XsdtFound, RsdpFound, Xsdt
  <1>2. /\ Mcfg.Length \in 0 .. WordModulus - 1
        /\ Mcfg.entries \in Seq(PCI_SEGMENT_INFO)
        /\ Mcfg.isMcfg => Holds(Mcfg.Length, McfgHeaderSize, McfgEntrySize, Len(Mcfg.entries))
    BY <1>1, TableType DEF Mcfg, Xsdt
  <1>3. Mcfg.isMcfg
    BY DEF McfgFound, Mcfg
  <1>4. QED
    BY <1>2, <1>3

LEMMA OpenMcfgStep == IInv /\ OpenMcfg => IInv'
PROOF
  <1>. SUFFICES ASSUME IInv, OpenMcfg PROVE IInv'
    OBVIOUS
  <1>. USE DEF IInv, table
  <1>0. configuration \in Firmwares /\ McfgFound
    BY DEF TypeOK, SearchInv, OpenMcfg
  <1>1. /\ Len(Mcfg.entries) \in Nat /\ Mcfg.Length \in 0 .. WordModulus - 1
        /\ Holds(Mcfg.Length, McfgHeaderSize, McfgEntrySize, Len(Mcfg.entries))
    BY <1>0, McfgEntries
  <1>2. EntryCount(Mcfg.Length, McfgHeaderSize, McfgEntrySize) \in 0 .. WordModulus - 1
    BY <1>1, WordAssumption DEF EntryCount, McfgHeaderSize, McfgEntrySize
  <1>3. TypeOK'
    BY <1>2 DEF OpenMcfg, TypeOK
  <1>4. SearchInv'
    <2>1. CASE Mcfg.Length < McfgHeaderSize + McfgEntrySize
      BY <2>1 DEF OpenMcfg, SearchInv
    <2>2. CASE ~(Mcfg.Length < McfgHeaderSize + McfgEntrySize)
      <3>1. Mcfg.Length >= McfgHeaderSize
        BY <1>1, <2>2 DEF McfgHeaderSize, McfgEntrySize
      <3>2. EntryCount(Mcfg.Length, McfgHeaderSize, McfgEntrySize) = Len(Mcfg.entries)
        BY <1>1, <3>1, CountsMcfg
      <3>3. Len(Mcfg.entries) > 0
        BY <1>1, <2>2 DEF Holds, McfgHeaderSize, McfgEntrySize
      <3>4. McfgFound' /\ Mcfg' = Mcfg
        BY <1>0, SameMcfg DEF OpenMcfg
      <3>5. EntriesFound'
        BY <2>2, <3>2, <3>3, <3>4 DEF OpenMcfg, EntriesFound
      <3>6. QED
        BY <2>2, <3>5 DEF OpenMcfg, SearchInv
    <2>3. QED
      BY <2>1, <2>2
  <1>5. ArrayInv'
    BY DEF OpenMcfg, ArrayInv, Empty
  <1>6. QED
    BY <1>3, <1>4, <1>5

(* The allocation, the copy and the release. *)
LEMMA ViewIs ==
  /\ Count = 0 => View = <<>>
  /\ Segments \in Seq(PCI_SEGMENT_INFO) /\ Count = Len(Segments) => View = Segments
PROOF
  BY SubSeqProperties DEF View

LEMMA AllocateStep == IInv /\ (Allocate \/ NoMemory) => IInv'
PROOF
  <1>. SUFFICES ASSUME IInv, Allocate \/ NoMemory PROVE IInv'
    OBVIOUS
  <1>. USE DEF IInv, table
  <1>0. configuration \in Firmwares /\ EntriesFound /\ entryCount \in Nat /\ entryCount > 0
    BY WordAssumption DEF TypeOK, SearchInv, Allocate, NoMemory, EntriesFound
  <1>1. EntriesFound' /\ Mcfg' = Mcfg
    BY <1>0, SameMcfg DEF Allocate, NoMemory
  <1>2. CASE Allocate
    <2>1. Zero \in PCI_SEGMENT_INFO
      BY DEF Zero, PCI_SEGMENT_INFO, SegmentNumbers
    <2>2. Segments' \in Seq(PCI_SEGMENT_INFO) /\ Len(Segments') = entryCount
      BY <1>0, <1>2, <2>1 DEF Allocate
    <2>3. Count' \in 0 .. Len(Segments')
      BY <1>0, <1>2, <2>2 DEF Allocate, ArrayInv, Empty
    <2>4. TypeOK'
      BY <1>2, <2>2, <2>3 DEF Allocate, TypeOK
    <2>5. SearchInv'
      BY <1>1, <1>2 DEF Allocate, SearchInv
    <2>6. ArrayInv'
      BY <1>0, <1>1, <1>2, <2>2 DEF Allocate, ArrayInv, Empty
    <2>7. QED
      BY <2>4, <2>5, <2>6
  <1>3. CASE NoMemory
    <2>1. TypeOK'
      BY <1>3 DEF NoMemory, TypeOK
    <2>2. SearchInv'
      BY <1>3 DEF NoMemory, SearchInv
    <2>3. ArrayInv'
      BY <1>3 DEF NoMemory, ArrayInv, Empty
    <2>4. QED
      BY <2>1, <2>2, <2>3
  <1>4. QED
    BY <1>2, <1>3

LEMMA CopyStep == IInv /\ (CopyEntry \/ SetCount) => IInv'
PROOF
  <1>. SUFFICES ASSUME IInv, CopyEntry \/ SetCount PROVE IInv'
    OBVIOUS
  <1>. USE DEF IInv, table
  <1>0. configuration \in Firmwares /\ EntriesFound /\ entryCount \in Nat /\ entryCount > 0
    BY WordAssumption DEF TypeOK, SearchInv, CopyEntry, SetCount, EntriesFound
  <1>1. EntriesFound' /\ Mcfg' = Mcfg /\ Announced' = Announced
    BY <1>0, SameMcfg, SameFirmware DEF CopyEntry, SetCount
  <1>2. Mcfg.entries \in Seq(PCI_SEGMENT_INFO) /\ Len(Mcfg.entries) = entryCount
    BY <1>0, McfgEntries DEF EntriesFound
  <1>3. Segments \in Seq(PCI_SEGMENT_INFO) /\ Len(Segments) = entryCount
    BY DEF TypeOK, ArrayInv, CopyEntry, SetCount
  <1>4. /\ Count = 0 /\ held /\ index <= entryCount + 1 /\ index \in Nat \ {0}
        /\ \A i \in 1 .. index - 1 : Segments[i] = Mcfg.entries[i]
    BY DEF TypeOK, ArrayInv, CopyEntry, SetCount
  <1>5. CASE CopyEntry
    <2>1. Mcfg.entries[index] \in PCI_SEGMENT_INFO
      BY <1>2, <1>4, <1>5 DEF CopyEntry
    <2>2. Segments' \in Seq(PCI_SEGMENT_INFO) /\ Len(Segments') = entryCount
      <3>1. index \in 1 .. Len(Segments)
        BY <1>3, <1>4, <1>5 DEF CopyEntry
      <3>2. Segments' = [Segments EXCEPT ![index] = Mcfg.entries[index]]
        BY <1>5 DEF CopyEntry
      <3>3. QED
        BY <1>3, <2>1, <3>1, <3>2, ExceptSeq
    <2>3. TypeOK'
      BY <1>0, <1>4, <1>5, <2>2 DEF CopyEntry, TypeOK
    <2>4. SearchInv'
      BY <1>1, <1>5 DEF CopyEntry, SearchInv
    <2>5. \A i \in 1 .. index' - 1 : Segments'[i] = Mcfg'.entries[i]
      BY <1>1, <1>3, <1>4, <1>5 DEF CopyEntry
    <2>6. ArrayInv'
      BY <1>1, <1>4, <1>5, <2>2, <2>5 DEF CopyEntry, ArrayInv
    <2>7. QED
      BY <2>3, <2>4, <2>6
  <1>6. CASE SetCount
    <2>1. TypeOK'
      BY <1>0, <1>3, <1>6 DEF SetCount, TypeOK
    <2>2. SearchInv'
      BY <1>6 DEF SetCount, SearchInv
    <2>3. Segments = Mcfg.entries
      <3>1. \A i \in 1 .. Len(Segments) : Segments[i] = Mcfg.entries[i]
        BY <1>0, <1>3, <1>4, <1>6 DEF SetCount
      <3>2. QED
        BY <1>2, <1>3, <3>1
    <2>4. Segments = Announced
      BY <1>0, <2>3, AnnouncedMcfg DEF EntriesFound
    <2>5. ArrayInv'
      <3>1. Segments # <<>>
        BY <1>0, <1>3
      <3>2. QED
        BY <1>1, <1>3, <1>4, <1>6, <2>4, <3>1 DEF SetCount, ArrayInv
    <2>6. QED
      BY <2>1, <2>2, <2>5
  <1>7. QED
    BY <1>5, <1>6

LEMMA FreeStep == IInv /\ FreeSegmentTable => IInv'
PROOF
  <1>. SUFFICES ASSUME IInv, FreeSegmentTable PROVE IInv'
    OBVIOUS
  <1>. USE DEF IInv
  <1>1. ~held'
    BY DEF FreeSegmentTable, ArrayInv, Empty
  <1>2. Empty'
    BY <1>1 DEF FreeSegmentTable, Empty
  <1>3. Segments' \in Seq(PCI_SEGMENT_INFO) /\ Count' \in 0 .. Len(Segments')
    BY DEF FreeSegmentTable
  <1>4. TypeOK'
    BY <1>1, <1>3 DEF FreeSegmentTable, TypeOK
  <1>5. QED
    BY <1>2, <1>4 DEF FreeSegmentTable, SearchInv, ArrayInv

LEMMA NextInv == IInv /\ [Next]_vars => IInv'
PROOF
  <1>. SUFFICES ASSUME IInv, [Next]_vars PROVE IInv'
    OBVIOUS
  <1>1. CASE UNCHANGED vars
    <2>1. /\ UNCHANGED <<configuration, rsdp, mcfg, entryCount, pc, index>>
          /\ UNCHANGED <<Segments, Count, held>>
      BY <1>1 DEF vars
    <2>2. /\ Xsdt' = Xsdt /\ Mcfg' = Mcfg /\ RsdpFound' = RsdpFound
          /\ XsdtFound' = XsdtFound /\ McfgFound' = McfgFound
          /\ EntriesFound' = EntriesFound /\ Announced' = Announced
      BY <2>1, SameFirmware, SameMcfg
    <2>3. QED
      BY <2>1, <2>2 DEF IInv, TypeOK, SearchInv, ArrayInv, Empty
  <1>2. CASE Next
    BY <1>2, RsdpSteps, OpenXsdtStep, McfgSteps, OpenMcfgStep, AllocateStep, CopyStep,
       FreeStep DEF Next
  <1>3. QED
    BY <1>1, <1>2

(* Every variable keeps its type, whatever the firmware's tables state. *)
THEOREM TypeCorrect == Spec => []TypeOK
PROOF
  <1>1. IInv => TypeOK
    BY DEF IInv
  <1>2. QED
    BY InitInv, NextInv, <1>1, PTL DEF Spec

(* No loop of BuildSegmentTable leaves the table it is in, whatever lengths
   the firmware states. *)
THEOREM WithinTablesCorrect == Spec => []WithinTables
PROOF
  <1>1. IInv => WithinTables
    <2>. SUFFICES ASSUME IInv PROVE WithinTables
      OBVIOUS
    <2>0. configuration \in Firmwares /\ index \in Nat \ {0}
      BY DEF IInv, TypeOK
    <2>1. ASSUME pc = "xsdt", index <= entryCount PROVE index \in DOMAIN Xsdt.tables
      <3>1. XsdtFound /\ entryCount = Len(Xsdt.tables)
        BY <2>1 DEF IInv, SearchInv
      <3>2. Xsdt.tables \in Seq(AcpiTables)
        BY <2>0, <3>1, XsdtType DEF XsdtFound, RsdpFound, Xsdt
      <3>3. QED
        BY <2>0, <2>1, <3>1, <3>2
    <2>2. ASSUME pc = "copy", index <= entryCount
          PROVE  index \in DOMAIN Segments /\ index \in DOMAIN Mcfg.entries
      <3>1. EntriesFound /\ Len(Segments) = entryCount /\ Segments \in Seq(PCI_SEGMENT_INFO)
        BY <2>2 DEF IInv, SearchInv, ArrayInv, TypeOK
      <3>2. Mcfg.entries \in Seq(PCI_SEGMENT_INFO) /\ Len(Mcfg.entries) = entryCount
        BY <2>0, <3>1, McfgEntries DEF EntriesFound
      <3>3. QED
        BY <2>0, <2>2, <3>1, <3>2
    <2>3. QED
      BY <2>1, <2>2 DEF WithinTables
  <1>2. QED
    BY InitInv, NextInv, <1>1, PTL DEF Spec

LEMMA InvNeverPartial == IInv => NeverPartial
PROOF
  BY ViewIs DEF IInv, TypeOK, ArrayInv, Empty, NeverPartial

(* The readers see the announced table or an empty one, at every instant. *)
THEOREM NeverPartialCorrect == Spec => []NeverPartial
PROOF
  BY InitInv, NextInv, InvNeverPartial, PTL DEF Spec

(* Every return of BuildSegmentTable hands over the announced table, or an
   empty one if the allocation failed. *)
LEMMA StepBuildsTable ==
  ASSUME IInv, Next, pc # "reading", pc' = "reading"
  PROVE  View' = IF pc = "allocate" THEN <<>> ELSE Announced
PROOF
  <1>. USE DEF table
  <1>0. configuration \in Firmwares /\ IInv'
    BY NextInv DEF IInv, TypeOK
  <1>1. Count' = 0 => View' = <<>>
    BY SubSeqProperties DEF View
  <1>2. CASE NoRsdp
    <2>1. \A i \in DOMAIN configuration : ~configuration[i].isAcpi
      <3>1. /\ index > Len(configuration) /\ index \in Nat
            /\ \A i \in DOMAIN configuration : i < index => ~configuration[i].isAcpi
        BY <1>2 DEF NoRsdp, IInv, TypeOK, SearchInv
      <3>2. QED
        BY <1>0, <3>1, FirmwareType
    <2>2. Announced = <<>>
      BY <1>0, <2>1, AnnouncedNothing
    <2>3. QED
      BY <1>1, <1>2, <2>2 DEF NoRsdp, IInv, ArrayInv, Empty
  <1>3. CASE OpenXsdt
    <2>1. RsdpFound /\ ~OpensXsdt /\ pc = "openXsdt" /\ Count' = 0
      BY <1>3 DEF OpenXsdt, IInv, SearchInv, ArrayInv, Empty
    <2>2. /\ Xsdt.tables \in Seq(AcpiTables) /\ Xsdt.Length \in 0 .. WordModulus - 1
          /\ Holds(Xsdt.Length, HeaderSize, XsdtEntrySize, Len(Xsdt.tables))
      BY <1>0, <2>1, XsdtType DEF RsdpFound, Xsdt
    <2>3. CASE ~configuration[rsdp].hasXsdt
      BY <1>0, <1>1, <2>1, <2>3, AnnouncedNothing
    <2>4. CASE configuration[rsdp].hasXsdt
      <3>1. Xsdt.Length < HeaderSize
        BY <2>1, <2>2, <2>4 DEF OpensXsdt, HeaderSize
      <3>2. Len(Xsdt.tables) = 0
        BY <2>2, <3>1 DEF Holds
      <3>3. \A j \in DOMAIN Xsdt.tables : ~Xsdt.tables[j].isMcfg
        BY <2>2, <3>2
      <3>4. QED
        BY <1>0, <1>1, <2>1, <3>3, AnnouncedNothing
    <2>5. QED
      BY <2>3, <2>4
  <1>4. CASE NoMcfg
    <2>1. /\ XsdtFound /\ entryCount = Len(Xsdt.tables) /\ pc = "xsdt" /\ Count' = 0
          /\ \A j \in DOMAIN Xsdt.tables : j < index => ~Xsdt.tables[j].isMcfg
      BY <1>4 DEF NoMcfg, IInv, SearchInv, ArrayInv, Empty
    <2>2. Xsdt.tables \in Seq(AcpiTables)
      BY <1>0, <2>1, XsdtType DEF XsdtFound, RsdpFound, Xsdt
    <2>3. \A j \in DOMAIN Xsdt.tables : ~Xsdt.tables[j].isMcfg
      BY <1>4, <2>1, <2>2 DEF NoMcfg, IInv, TypeOK
    <2>4. QED
      BY <1>0, <1>1, <2>1, <2>3, AnnouncedNothing DEF XsdtFound
  <1>5. CASE OpenMcfg
    <2>1. /\ McfgFound /\ Mcfg.Length < McfgHeaderSize + McfgEntrySize
          /\ pc = "openMcfg" /\ Count' = 0
      BY <1>5 DEF OpenMcfg, IInv, SearchInv, ArrayInv, Empty
    <2>2. /\ Mcfg.entries \in Seq(PCI_SEGMENT_INFO) /\ Len(Mcfg.entries) \in Nat
          /\ Mcfg.Length \in 0 .. WordModulus - 1
          /\ Holds(Mcfg.Length, McfgHeaderSize, McfgEntrySize, Len(Mcfg.entries))
      BY <1>0, <2>1, McfgEntries
    <2>3. Len(Mcfg.entries) = 0
      BY <2>1, <2>2 DEF Holds, McfgHeaderSize, McfgEntrySize
    <2>4. Announced = Mcfg.entries
      BY <1>0, <2>1, AnnouncedMcfg
    <2>5. Announced = <<>>
      BY <2>2, <2>3, <2>4
    <2>6. QED
      BY <1>1, <2>1, <2>5
  <1>6. CASE NoMemory
    BY <1>1, <1>6 DEF NoMemory, IInv, ArrayInv, Empty
  <1>7. CASE SetCount
    <2>1. /\ Segments' \in Seq(PCI_SEGMENT_INFO) /\ Count' = Len(Segments') /\ Count' # 0
          /\ pc = "copy" /\ UNCHANGED <<configuration, rsdp>>
      BY <1>0, <1>7 DEF SetCount, IInv, TypeOK, SearchInv, ArrayInv, EntriesFound
    <2>2. Segments' = Announced'
      BY <1>0, <1>7, <2>1 DEF SetCount, IInv, ArrayInv, Empty
    <2>3. View' = Segments'
      BY <2>1, SubSeqProperties DEF View
    <2>4. QED
      BY <2>1, <2>2, <2>3, SameFirmware
  <1>8. QED
    BY <1>2, <1>3, <1>4, <1>5, <1>6, <1>7
       DEF Next, PassConfigurationTable, FindRsdp, PassAcpiTable, FindMcfg, Allocate,
           CopyEntry, FreeSegmentTable

THEOREM BuildsTableCorrect == Spec => BuildsTable
PROOF
  <1>1. IInv /\ [Next]_vars =>
          [pc # "reading" /\ pc' = "reading" =>
             View' = IF pc = "allocate" THEN <<>> ELSE Announced]_vars
    BY StepBuildsTable
  <1>2. QED
    BY InitInv, NextInv, <1>1, PTL DEF Spec, BuildsTable

-----------------------------------------------------------------------------
(* ECAM addresses.  The four parts of an offset do not overlap. *)
LEMMA DecodesOffset ==
  ASSUME NEW r \in Requests
  PROVE  LET off == EcamOffset(r)
         IN /\ off \in Nat /\ r.Bus * BusSize <= off /\ off < (r.Bus + 1) * BusSize
            /\ off \div BusSize = r.Bus /\ (off \div DevSize) % 32 = r.Dev
            /\ (off \div FunSize) % 8 = r.Fun /\ off % FunSize = r.Register
PROOF
  <1>1. r.Bus \in 0 .. 255 /\ r.Dev \in 0 .. 31 /\ r.Fun \in 0 .. 7 /\ r.Register \in 0 .. 4095
    BY DEF Requests, FunSize
  <1>a. PICK b \in 0 .. 255 : b = r.Bus
    BY <1>1
  <1>b. PICK d \in 0 .. 31 : d = r.Dev
    BY <1>1
  <1>c. PICK f \in 0 .. 7 : f = r.Fun
    BY <1>1
  <1>d. PICK g \in 0 .. 4095 : g = r.Register
    BY <1>1
  <1>2. b = r.Bus /\ d = r.Dev /\ f = r.Fun /\ g = r.Register
    BY <1>a, <1>b, <1>c, <1>d
  <1>3. EcamOffset(r) = b * 1048576 + d * 32768 + f * 4096 + g
    BY <1>2 DEF EcamOffset, BusSize, DevSize, FunSize
  <1>4. b * 1048576 + d * 32768 + f * 4096 + g \in Nat
    OBVIOUS
  <1>5. PICK off \in Nat : off = b * 1048576 + d * 32768 + f * 4096 + g
    BY <1>4
  <1>6. b * 1048576 <= off /\ off < (b + 1) * 1048576
    BY <1>5, SMT
  <1>7. off \div 1048576 = b
    BY <1>5, SMT
  <1>8. off \div 32768 = b * 32 + d
    BY <1>5, SMT
  <1>9. off \div 4096 = (b * 32 + d) * 8 + f
    BY <1>5, SMT
  <1>10. off % 4096 = g
    BY <1>5, SMT
  <1>11. (b * 32 + d) % 32 = d
    BY SMT
  <1>12. ((b * 32 + d) * 8 + f) % 8 = f
    BY SMT
  <1>13. EcamOffset(r) = off
    BY <1>3, <1>5
  <1>14. /\ off \div 1048576 = b /\ (off \div 32768) % 32 = d
         /\ (off \div 4096) % 8 = f /\ off % 4096 = g
    BY <1>7, <1>8, <1>9, <1>10, <1>11, <1>12, SMT
  <1>15. QED
    BY <1>2, <1>6, <1>13, <1>14 DEF BusSize, DevSize, FunSize

(* A set of natural numbers has a smallest one. *)
LEMMA SmallestIn ==
  ASSUME NEW S \in SUBSET Nat, S # {}
  PROVE  \E i \in S : \A j \in S : i <= j
PROOF
  <1>. DEFINE R == {ss \in Nat \X Nat : ss[1] < ss[2]}
  <1>1. IsWellFoundedOn(R, Nat)
    BY NatLessThanWellFounded DEF OpToRel
  <1>2. PICK i \in S : \A j \in S : ~(<<j, i>> \in R)
    <2>. HIDE DEF R
    <2>1. QED
      BY <1>1, WFMin
  <1>3. ASSUME NEW j \in S PROVE i <= j
    <2>1. <<j, i>> \in Nat \X Nat /\ <<j, i>>[1] = j /\ <<j, i>>[2] = i
      OBVIOUS
    <2>2. ~(j < i)
      BY <1>2, <2>1
    <2>3. i \in Nat /\ j \in Nat
      OBVIOUS
    <2>4. QED
      BY <2>2, <2>3
  <1>4. QED
    BY <1>3

(* What is announced stands in a table of the firmware. *)
LEMMA AnnouncedEntries ==
  ASSUME configuration \in Firmwares
  PROVE  \/ Announced = <<>>
         \/ \E i \in DOMAIN configuration : \E j \in DOMAIN configuration[i].xsdt.tables :
              Announced = configuration[i].xsdt.tables[j].entries
PROOF
  <1>. DEFINE acpi  == {i \in DOMAIN configuration : configuration[i].isAcpi}
              c     == configuration[First(acpi)]
              mcfgs == {j \in DOMAIN c.xsdt.tables : c.xsdt.tables[j].isMcfg}
  <1>1. CASE acpi = {} \/ ~c.hasXsdt \/ mcfgs = {}
    BY <1>1 DEF Announced
  <1>2. CASE ~(acpi = {} \/ ~c.hasXsdt \/ mcfgs = {})
    <2>1. First(acpi) \in acpi
      <3>1. acpi \in SUBSET Nat
        BY FirmwareType
      <3>2. \E i \in acpi : \A j \in acpi : i <= j
        BY <1>2, <3>1, SmallestIn
      <3>3. QED
        BY <3>2 DEF First
    <2>2. c.xsdt.tables \in Seq(AcpiTables)
      BY <2>1, XsdtType
    <2>3. First(mcfgs) \in mcfgs
      <3>1. mcfgs \in SUBSET Nat
        <4>. HIDE DEF c
        <4>1. DOMAIN c.xsdt.tables = 1 .. Len(c.xsdt.tables) /\ Len(c.xsdt.tables) \in Nat
          BY <2>2
        <4>2. QED
          BY <4>1
      <3>2. \E i \in mcfgs : \A j \in mcfgs : i <= j
        BY <1>2, <3>1, SmallestIn
      <3>3. QED
        BY <3>2 DEF First
    <2>4. Announced = c.xsdt.tables[First(mcfgs)].entries
      BY <1>2, Zenon DEF Announced
    <2>5. QED
      BY <2>1, <2>3, <2>4
  <1>3. QED
    BY <1>1, <1>2

(* With one base per segment, the first entry of a segment has the base of all. *)
LEMMA BaseOfSegment ==
  ASSUME NEW W \in Seq(PCI_SEGMENT_INFO), Sound(W), NEW i \in DOMAIN W
  PROVE  FindEcamBaseForSegment(W, W[i].Seg) = W[i].EcamBase
PROOF
  <1>. DEFINE hits == EntriesFor(W, W[i].Seg)
              k    == CHOOSE k \in hits : \A j \in hits : k <= j
  <1>1. hits \in SUBSET Nat /\ i \in hits /\ hits \subseteq DOMAIN W
    BY DEF EntriesFor
  <1>2. k \in hits
    <2>1. \E m \in hits : \A j \in hits : m <= j
      BY <1>1, SmallestIn
    <2>2. QED
      BY <2>1
  <1>3. W[k].Seg = W[i].Seg
    BY <1>2 DEF EntriesFor
  <1>4. W[k].EcamBase = W[i].EcamBase
    BY <1>1, <1>2, <1>3 DEF Sound
  <1>5. QED
    BY <1>1, <1>4 DEF FindEcamBaseForSegment

(* The fields of a window as numbers of their own. *)
LEMMA WindowFields ==
  ASSUME NEW e \in PCI_SEGMENT_INFO
  PROVE  e.EcamBase \in Nat /\ e.StartBus \in Nat /\ e.EndBus \in Nat
PROOF
  <1>1. e.EcamBase \in Nat /\ e.StartBus \in 0 .. 255 /\ e.EndBus \in 0 .. 255
    BY DEF PCI_SEGMENT_INFO
  <1>2. QED
    BY <1>1

LEMMA InOwnWindow ==
  ASSUME NEW e \in PCI_SEGMENT_INFO, NEW bus \in Nat, bus \in e.StartBus .. e.EndBus,
         NEW off \in Nat, bus * BusSize <= off, off < (bus + 1) * BusSize
  PROVE  InWindow(e, e.EcamBase + off)
PROOF
  <1>1. PICK base \in Nat : base = e.EcamBase
    BY WindowFields
  <1>2. PICK first \in Nat : first = e.StartBus
    BY WindowFields
  <1>3. PICK last \in Nat : last = e.EndBus
    BY WindowFields
  <1>4. first <= bus /\ bus <= last
    BY <1>2, <1>3
  <1>5. bus * 1048576 <= off /\ off < (bus + 1) * 1048576
    BY DEF BusSize
  <1>6. first * 1048576 <= bus * 1048576 /\ (bus + 1) * 1048576 <= (last + 1) * 1048576
    BY <1>4, SMT
  <1>7. base + first * 1048576 <= base + off /\ base + off < base + (last + 1) * 1048576
    BY <1>5, <1>6, SMT
  <1>8. QED
    BY <1>1, <1>2, <1>3, <1>7 DEF InWindow, BusSize

(* Two windows, one ending where the other begins or before, share no address. *)
LEMMA WindowsApart ==
  ASSUME NEW e \in PCI_SEGMENT_INFO, NEW f \in PCI_SEGMENT_INFO, NEW a \in Nat,
         InWindow(e, a),
         \/ e.EcamBase + (e.EndBus + 1) * BusSize <= f.EcamBase + f.StartBus * BusSize
         \/ f.EcamBase + (f.EndBus + 1) * BusSize <= e.EcamBase + e.StartBus * BusSize
  PROVE  ~InWindow(f, a)
PROOF
  <1>. DEFINE low(w)  == w.EcamBase + w.StartBus * BusSize
              high(w) == w.EcamBase + (w.EndBus + 1) * BusSize
  <1>1. ASSUME NEW w \in PCI_SEGMENT_INFO PROVE low(w) \in Nat /\ high(w) \in Nat
    BY WindowFields DEF BusSize
  <1>2. PICK le \in Nat : le = low(e)
    BY <1>1
  <1>3. PICK he \in Nat : he = high(e)
    BY <1>1
  <1>4. PICK lf \in Nat : lf = low(f)
    BY <1>1
  <1>5. PICK hf \in Nat : hf = high(f)
    BY <1>1
  <1>6. le <= a /\ a < he /\ (he <= lf \/ hf <= le)
    BY <1>2, <1>3, <1>4, <1>5 DEF InWindow
  <1>7. ~(lf <= a /\ a < hf)
    BY <1>6, SMT
  <1>8. QED
    BY <1>4, <1>5, <1>7 DEF InWindow

(* In disjoint windows, an ECAM address answers for the request it was made
   from. *)
LEMMA WindowAnswers ==
  ASSUME NEW W \in Seq(PCI_SEGMENT_INFO), Sound(W), NEW r \in Requests,
         NEW i \in DOMAIN W, W[i].Seg = r.Seg, r.Bus \in W[i].StartBus .. W[i].EndBus
  PROVE  /\ GetEcamAddress(W, r) # 0
         /\ MmioRead(W, GetEcamAddress(W, r)) = r
PROOF
  <1>. DEFINE off == EcamOffset(r)
              a   == W[i].EcamBase + off
              hits == {j \in 1 .. Len(W) : InWindow(W[j], a)}
  <1>1. /\ W[i] \in PCI_SEGMENT_INFO /\ W[i].EcamBase \in Nat /\ W[i].EcamBase # 0
        /\ r.Bus \in Nat
    <2>1. W[i] \in PCI_SEGMENT_INFO
      OBVIOUS
    <2>2. W[i].EcamBase # 0
      BY DEF Sound
    <2>3. r.Bus \in 0 .. 255
      BY DEF Requests
    <2>4. QED
      BY <2>1, <2>2, <2>3, WindowFields
  <1>2. /\ off \in Nat
        /\ off \div BusSize = r.Bus /\ (off \div DevSize) % 32 = r.Dev
        /\ (off \div FunSize) % 8 = r.Fun /\ off % FunSize = r.Register
        /\ r.Bus * BusSize <= off /\ off < (r.Bus + 1) * BusSize
    BY DecodesOffset
  <1>. HIDE DEF off
  <1>3. FindEcamBaseForSegment(W, r.Seg) = W[i].EcamBase
    BY BaseOfSegment
  <1>4. GetEcamAddress(W, r) = a
    BY <1>1, <1>3 DEF GetEcamAddress, off
  <1>5. a # 0 /\ a \in Nat
    BY <1>1, <1>2
  <1>6. InWindow(W[i], a)
    BY <1>1, <1>2, InOwnWindow
  <1>7. ASSUME NEW j \in DOMAIN W, j # i PROVE ~InWindow(W[j], a)
    <2>1. \/ W[i].EcamBase + (W[i].EndBus + 1) * BusSize <= W[j].EcamBase + W[j].StartBus * BusSize
          \/ W[j].EcamBase + (W[j].EndBus + 1) * BusSize <= W[i].EcamBase + W[i].StartBus * BusSize
      BY <1>7 DEF Sound
    <2>2. W[j] \in PCI_SEGMENT_INFO
      OBVIOUS
    <2>3. QED
      BY <1>1, <1>5, <1>6, <2>1, <2>2, WindowsApart
  <1>8. DOMAIN W = 1 .. Len(W)
    OBVIOUS
  <1>9. hits = {i}
    BY <1>6, <1>7, <1>8
  <1>10. MmioRead(W, a) = Decode(W[i], a)
    BY <1>9 DEF MmioRead
  <1>11. a - W[i].EcamBase = off
    BY <1>1, <1>2
  <1>12. Decode(W[i], a) = [Seg |-> r.Seg, Bus |-> r.Bus, Dev |-> r.Dev, Fun |-> r.Fun,
                            Register |-> r.Register]
    BY <1>2, <1>11 DEF Decode
  <1>13. r = [Seg |-> r.Seg, Bus |-> r.Bus, Dev |-> r.Dev, Fun |-> r.Fun, Register |-> r.Register]
    BY DEF Requests
  <1>14. QED
    BY <1>4, <1>5, <1>10, <1>12, <1>13

LEMMA NoBase ==
  ASSUME NEW W, NEW r, EntriesFor(W, r.Seg) = {}
  PROVE  GetEcamAddress(W, r) = 0
PROOF
  BY DEF GetEcamAddress, FindEcamBaseForSegment

(* With the table built, a configuration read reaches the register and the
   function it names, on every machine whose windows are disjoint. *)
THEOREM ReadsReachFunctionCorrect == Spec => []ReadsReachFunction
PROOF
  <1>1. IInv => ReadsReachFunction
    <2>. SUFFICES ASSUME IInv, pc = "reading", Sound(Announced), NEW r \in Reads,
                         \/ IsLegacy(r.Seg, r.Register) \/ Covered(r)
                         \/ EntriesFor(Announced, r.Seg) = {}
                  PROVE  PciCfgRead(View, Announced, r) =
                           IF IsLegacy(r.Seg, r.Register) \/ (Covered(r) /\ View # <<>>)
                           THEN r ELSE AllOnes
      BY DEF ReadsReachFunction
    <2>0. r \in Requests
      BY ReadAssumption
    <2>1. CASE IsLegacy(r.Seg, r.Register)
      BY <2>1 DEF PciCfgRead
    <2>2. CASE ~IsLegacy(r.Seg, r.Register) /\ View = <<>>
      <3>1. EntriesFor(View, r.Seg) = {}
        BY <2>2 DEF EntriesFor
      <3>2. QED
        BY <2>2, <3>1, NoBase DEF PciCfgRead
    <2>3. CASE ~IsLegacy(r.Seg, r.Register) /\ View # <<>>
      <3>1. View = Announced /\ Announced \in Seq(PCI_SEGMENT_INFO)
        BY <2>3, ViewIs DEF IInv, TypeOK, ArrayInv, Empty
      <3>2. CASE Covered(r)
        <4>1. PICK i \in DOMAIN Announced :
                Announced[i].Seg = r.Seg /\ r.Bus \in Announced[i].StartBus .. Announced[i].EndBus
          BY <3>2 DEF Covered
        <4>2. /\ GetEcamAddress(Announced, r) # 0
              /\ MmioRead(Announced, GetEcamAddress(Announced, r)) = r
          BY <2>0, <3>1, <4>1, WindowAnswers
        <4>3. QED
          BY <2>3, <3>1, <3>2, <4>2 DEF PciCfgRead
      <3>3. CASE ~Covered(r)
        BY <2>3, <3>1, <3>3, NoBase DEF PciCfgRead
      <3>4. QED
        BY <3>2, <3>3
    <2>4. QED
      BY <2>1, <2>2, <2>3
  <1>2. QED
    BY InitInv, NextInv, <1>1, PTL DEF Spec
=============================================================================

--------------------------- MODULE PciUtilProofs ---------------------------
(***************************************************************************)
(* Proofs about the whole program, on every machine, under every firmware  *)
(* and for every command line: what is proved of its parts carries over,   *)
(* whatever way the program returns it holds nothing, and what it shows is *)
(* what the command line asks for.                                         *)
(*                                                                         *)
(* CliP, TableP and TreeP are the parts once more, with the proofs about   *)
(* them.                                                                   *)
(***************************************************************************)
EXTENDS PciUtil, FiniteSetTheorems, TLAPS

CliP == INSTANCE CliParserProofs WITH pc <- cliPc, held <- packages

TableP == INSTANCE SegmentTableProofs WITH
            Reads <- {}, pc <- segPc, index <- segIndex, held <- arrayHeld

(* The scan finds one of the machines and any table. *)
AnyPlatform == [hw: Machines, table: Seq(Tree!SegmentInfos)]

TreeP == INSTANCE PciTreeProofs WITH
           Platforms <- AnyPlatform,
           table <- Table!View, pc <- treePc, index <- treeIndex
-----------------------------------------------------------------------------
(* The device list before the scan. *)
TreeBegin ==
  /\ hw \in Machines
  /\ heap = <<>> /\ freed = {} /\ root = Tree!NULL
  /\ treePc = "segment" /\ treeIndex = 1 /\ segRoot = Tree!NULL /\ tail = Tree!NULL
  /\ scans = <<>> /\ walks = <<>> /\ frees = <<>>
  /\ report = <<>> /\ lost = {}

(* No part begins before the one it needs is done: the list is untouched until
   the table is built, and the table stands as long as there is a list. *)
OrderInv ==
  /\ step \in {"parse", "build", "list", "returned"}
  /\ step = "parse" => segPc = "rsdp"
  /\ step # "parse" => cliPc = "done"
  /\ step \in {"build", "list"} \/ segPc # "rsdp" =>
       Result \notin {"PciParseHelp", "PciParseError"}
  /\ step \in {"parse", "build"} => segPc # "done" /\ TreeBegin
  /\ step = "list" => segPc = "reading" /\ TreeP!FreeInv
  /\ step = "returned" => \/ segPc = "rsdp" /\ TreeBegin
                          \/ segPc = "done" /\ freed = Tree!Ids /\ root = Tree!NULL

ProgramInv == CliP!GrammarInv /\ TableP!IInv /\ OrderInv

-----------------------------------------------------------------------------
(* The parts and their copies. *)
LEMMA ParserSteps ==
  /\ Cli!Init => CliP!Init
  /\ Cli!Next \/ UNCHANGED cliVars => [CliP!Next]_(CliP!vars)
<1>1. Cli!Init => CliP!Init
  BY Zenon DEF Cli!Init, CliP!Init, Cli!Leftovers, CliP!Leftovers, Cli!Modes, CliP!Modes
<1>2. Cli!Parse => CliP!Parse
  BY Zenon DEF Cli!Parse, CliP!Parse, Cli!ZeroOptions, CliP!ZeroOptions
<1>3. Cli!ParseFails => CliP!ParseFails
  BY Zenon DEF Cli!ParseFails, CliP!ParseFails, Cli!ZeroOptions, CliP!ZeroOptions
<1>4. Cli!ReportProblem => CliP!ReportProblem
  BY Zenon DEF Cli!ReportProblem, CliP!ReportProblem
<1>5. Cli!Help => CliP!Help
  BY Zenon DEF Cli!Help, CliP!Help
<1>6. Cli!NoHelp => CliP!NoHelp
  BY Zenon DEF Cli!NoHelp, CliP!NoHelp
<1>7. Cli!NoParameter => CliP!NoParameter
  BY Zenon DEF Cli!NoParameter, CliP!NoParameter, Cli!ModeIs, CliP!ModeIs
<1>8. Cli!TreeParameter => CliP!TreeParameter
  BY Zenon DEF Cli!TreeParameter, CliP!TreeParameter, Cli!ModeIs, CliP!ModeIs,
       Cli!Parameter, CliP!Parameter, Cli!TreeWord, CliP!TreeWord
<1>9. Cli!AllParameter => CliP!AllParameter
  BY Zenon DEF Cli!AllParameter, CliP!AllParameter, Cli!ModeIs, CliP!ModeIs,
       Cli!Parameter, CliP!Parameter, Cli!AllWord, CliP!AllWord
<1>20. \A text : Cli!ColonCount(text) = CliP!ColonCount(text)
  BY Zenon DEF Cli!ColonCount, CliP!ColonCount, Cli!Colon, CliP!Colon, Cli!Cardinality,
     CliP!Cardinality
<1>10. Cli!BeginBdf => CliP!BeginBdf
  BY <1>20, Zenon DEF Cli!BeginBdf, CliP!BeginBdf, Cli!Fail, CliP!Fail,
       Cli!TreeWord, CliP!TreeWord, Cli!AllWord, CliP!AllWord
<1>11. Cli!Field = CliP!Field
  <2>1. Cli!MAX_UINT16 = CliP!MAX_UINT16
    BY SMT DEF Cli!MAX_UINT16, CliP!MAX_UINT16
  <2> QED BY <2>1, Zenon DEF Cli!Field, CliP!Field, Cli!Colon, CliP!Colon, Cli!Dot, CliP!Dot,
       Cli!Nul, CliP!Nul
<1>12. Cli!ParseField => CliP!ParseField
  BY <1>11, Zenon DEF Cli!ParseField, CliP!ParseField, Cli!Convert, CliP!Convert, Cli!FieldFits,
       CliP!FieldFits, Cli!At, CliP!At, Cli!Nul, CliP!Nul, Cli!Fail, CliP!Fail
<1>13. Cli!SingleParameter => CliP!SingleParameter
  BY Zenon DEF Cli!SingleParameter, CliP!SingleParameter, Cli!ModeIs, CliP!ModeIs
<1>14. Cli!ParseReadType => CliP!ParseReadType
  BY Zenon DEF Cli!ParseReadType, CliP!ParseReadType, Cli!WidthOf, CliP!WidthOf, Cli!Convert,
       CliP!Convert, Cli!Fail, CliP!Fail
<1>15. Cli!Free => CliP!Free
  BY Zenon DEF Cli!Free, CliP!Free
<1>16. Cli!Next => CliP!Next
  BY <1>2, <1>3, <1>4, <1>5, <1>6, <1>7, <1>8, <1>9, <1>10, <1>12, <1>13, <1>14, <1>15
  DEF Cli!Next, CliP!Next
<1>17. UNCHANGED cliVars => UNCHANGED CliP!vars
  BY DEF cliVars, CliP!vars
<1> QED BY <1>1, <1>16, <1>17
LEMMA ParserProperties ==
  /\ CliP!TypeOK => Cli!TypeOK
  /\ CliP!Understood(command) => Cli!Understood(command)
<1>1. Cli!MAX_UINT16 = CliP!MAX_UINT16
  BY SMT DEF Cli!MAX_UINT16, CliP!MAX_UINT16
<1>2. Cli!UINT16 = CliP!UINT16 /\ Cli!UINT8 = CliP!UINT8
  BY <1>1, Zenon DEF Cli!UINT16, CliP!UINT16, Cli!UINT8, CliP!UINT8
<1>3. DOMAIN Cli!Field = DOMAIN CliP!Field
  BY <1>1, Zenon DEF Cli!Field, CliP!Field, Cli!Colon, CliP!Colon, Cli!Dot, CliP!Dot, Cli!Nul, CliP!Nul
<1>4. Cli!PCI_CLI_OPTIONS = CliP!PCI_CLI_OPTIONS
  BY <1>2, Zenon DEF Cli!PCI_CLI_OPTIONS, CliP!PCI_CLI_OPTIONS, Cli!Modes, CliP!Modes
<1>5. CliP!TypeOK => Cli!TypeOK
  BY <1>3, <1>4, Zenon DEF Cli!TypeOK, CliP!TypeOK, Cli!Results, CliP!Results
<1>6. \A text : CliP!IsBusDevFun(text) <=> Cli!IsBusDevFun(text)
  BY Zenon DEF Cli!IsBusDevFun, CliP!IsBusDevFun, Cli!Colon, CliP!Colon, Cli!Dot, CliP!Dot
<1>7. \A text : CliP!IsAddress(text) <=> Cli!IsAddress(text)
  BY <1>2, <1>6, Zenon DEF Cli!IsAddress, CliP!IsAddress, Cli!Colon, CliP!Colon
<1>8. CliP!Understood(command) => Cli!Understood(command)
  BY <1>7, Zenon DEF Cli!Understood, CliP!Understood, Cli!InUsage, CliP!InUsage,
     Cli!LookedAt, CliP!LookedAt, Cli!TreeWord, CliP!TreeWord, Cli!AllWord, CliP!AllWord
<1> QED BY <1>5, <1>8

LEMMA BuilderSteps ==
  /\ Table!Init => TableP!Init
  /\ Table!Next \/ UNCHANGED segVars => [TableP!Next]_(TableP!vars)
<1>1. Table!Init => TableP!Init
  BY Zenon DEF Table!Init, TableP!Init
<1>2. Table!table = TableP!table /\ Table!table' = TableP!table'
  BY Zenon DEF Table!table, TableP!table
<1>3. Table!PassConfigurationTable => TableP!PassConfigurationTable
  BY Zenon DEF Table!PassConfigurationTable, TableP!PassConfigurationTable, Table!table, TableP!table
<1>4. Table!FindRsdp => TableP!FindRsdp
  BY Zenon DEF Table!FindRsdp, TableP!FindRsdp, Table!table, TableP!table
<1>5. Table!NoRsdp => TableP!NoRsdp
  BY Zenon DEF Table!NoRsdp, TableP!NoRsdp, Table!table, TableP!table
<1>6. Table!OpenXsdt => TableP!OpenXsdt
  BY Zenon DEF Table!OpenXsdt, TableP!OpenXsdt, Table!table, TableP!table, Table!OpensXsdt,
     TableP!OpensXsdt, Table!Xsdt, TableP!Xsdt, Table!EntryCount, TableP!EntryCount,
     Table!HeaderSize, TableP!HeaderSize, Table!XsdtEntrySize, TableP!XsdtEntrySize
<1>7. Table!PassAcpiTable => TableP!PassAcpiTable
  BY Zenon DEF Table!PassAcpiTable, TableP!PassAcpiTable, Table!table, TableP!table,
     Table!Xsdt, TableP!Xsdt
<1>8. Table!FindMcfg => TableP!FindMcfg
  BY Zenon DEF Table!FindMcfg, TableP!FindMcfg, Table!table, TableP!table,
     Table!Xsdt, TableP!Xsdt
<1>9. Table!NoMcfg => TableP!NoMcfg
  BY Zenon DEF Table!NoMcfg, TableP!NoMcfg, Table!table, TableP!table
<1>10. Table!OpenMcfg => TableP!OpenMcfg
  BY Zenon DEF Table!OpenMcfg, TableP!OpenMcfg, Table!table, TableP!table, Table!Mcfg, TableP!Mcfg,
     Table!Xsdt, TableP!Xsdt, Table!EntryCount, TableP!EntryCount, Table!McfgHeaderSize,
     TableP!McfgHeaderSize, Table!McfgEntrySize, TableP!McfgEntrySize
<1>11. Table!Allocate => TableP!Allocate
  BY Zenon DEF Table!Allocate, TableP!Allocate, Table!Zero, TableP!Zero
<1>12. Table!NoMemory => TableP!NoMemory
  BY Zenon DEF Table!NoMemory, TableP!NoMemory, Table!table, TableP!table
<1>13. Table!CopyEntry => TableP!CopyEntry
  BY Zenon DEF Table!CopyEntry, TableP!CopyEntry, Table!Mcfg, TableP!Mcfg, Table!Xsdt, TableP!Xsdt
<1>14. Table!SetCount => TableP!SetCount
  BY Zenon DEF Table!SetCount, TableP!SetCount
<1>15. Table!FreeSegmentTable => TableP!FreeSegmentTable
  BY Zenon DEF Table!FreeSegmentTable, TableP!FreeSegmentTable
<1>16. Table!Next => TableP!Next
  BY <1>3, <1>4, <1>5, <1>6, <1>7, <1>8, <1>9, <1>10, <1>11, <1>12, <1>13, <1>14, <1>15
  DEF Table!Next, TableP!Next
<1>17. UNCHANGED segVars => UNCHANGED TableP!vars
  BY DEF segVars, TableP!vars
<1> QED BY <1>1, <1>16, <1>17

LEMMA BuilderProperties ==
  /\ TableP!TypeOK => Table!TypeOK
  /\ TableP!Announced = Table!Announced
  /\ TableP!View = Table!View
  /\ TableP!ConfigurationTables = Table!ConfigurationTables
<1>1. TableP!SegmentNumbers = Table!SegmentNumbers
  BY SMT DEF TableP!SegmentNumbers, Table!SegmentNumbers
<1>2. TableP!PCI_SEGMENT_INFO = Table!PCI_SEGMENT_INFO
  BY <1>1, Zenon DEF TableP!PCI_SEGMENT_INFO, Table!PCI_SEGMENT_INFO
<1>3. TableP!TypeOK => Table!TypeOK
  BY <1>2, Zenon DEF TableP!TypeOK, Table!TypeOK
<1>4. TableP!View = Table!View
  BY Zenon DEF TableP!View, Table!View
<1>5. TableP!Announced = Table!Announced
  BY Zenon DEF TableP!Announced, Table!Announced, TableP!First, Table!First
<1>6. TableP!AcpiTables = Table!AcpiTables
  BY <1>2, Zenon DEF TableP!AcpiTables, Table!AcpiTables, TableP!Holds, Table!Holds,
     TableP!McfgHeaderSize, Table!McfgHeaderSize, TableP!McfgEntrySize, Table!McfgEntrySize
<1>7. TableP!Xsdts = Table!Xsdts
  BY <1>6, Zenon DEF TableP!Xsdts, Table!Xsdts, TableP!Holds, Table!Holds,
     TableP!HeaderSize, Table!HeaderSize, TableP!XsdtEntrySize, Table!XsdtEntrySize
<1>8. TableP!ConfigurationTables = Table!ConfigurationTables
  BY <1>7, Zenon DEF TableP!ConfigurationTables, Table!ConfigurationTables
<1> QED BY <1>3, <1>4, <1>5, <1>8
LEMMA TreeSteps ==
  /\ Tree!Scan => TreeP!Next
  /\ Tree!Walk => TreeP!Next
  /\ Tree!Free => TreeP!Next
  /\ Tree!Visit => TreeP!Visit
  /\ Tree!ReturnFromWalk => TreeP!ReturnFromWalk
<1>0. Tree!platform = TreeP!platform /\ Tree!platform' = TreeP!platform'
  BY Zenon DEF Tree!platform, TreeP!platform
<1>a. \A l : Tree!Answers(l) <=> TreeP!Answers(l)
  <2>1. \A t, seg : Tree!FindEcamBaseForSegment(t, seg) = TreeP!FindEcamBaseForSegment(t, seg)
    BY Zenon DEF Tree!FindEcamBaseForSegment, TreeP!FindEcamBaseForSegment, Tree!EntriesFor,
       TreeP!EntriesFor
  <2>2. QED
    BY <2>1, Zenon DEF Tree!Answers, TreeP!Answers, Tree!HasRoute, TreeP!HasRoute,
       Tree!IsLegacy, TreeP!IsLegacy, Tree!LegacySize, TreeP!LegacySize
<1>1. Tree!SkipAbsent => TreeP!SkipAbsent
    BY <1>0, <1>a, Zenon DEF Tree!SkipAbsent, TreeP!SkipAbsent, Tree!InFunctionLoop,
     TreeP!InFunctionLoop, Tree!Here, TreeP!Here, Tree!SetTop, TreeP!SetTop, Tree!Top,
     TreeP!Top, Tree!locals, TreeP!locals
<1>2. Tree!NoMemory => TreeP!NoMemory
    BY <1>0, <1>a, Zenon DEF Tree!NoMemory, TreeP!NoMemory, Tree!InFunctionLoop,
     TreeP!InFunctionLoop, Tree!Here, TreeP!Here, Tree!SetTop, TreeP!SetTop, Tree!Top,
     TreeP!Top, Tree!LoopBound, TreeP!LoopBound, Tree!locals, TreeP!locals
<1>3. Tree!AddNode => TreeP!AddNode
    BY <1>0, <1>a, Zenon DEF Tree!AddNode, TreeP!AddNode, Tree!InFunctionLoop,
     TreeP!InFunctionLoop, Tree!Here, TreeP!Here, Tree!SetTop, TreeP!SetTop, Tree!Top,
     TreeP!Top, Tree!LoopBound, TreeP!LoopBound, Tree!WithNode, TreeP!WithNode,
     Tree!CreateNode, TreeP!CreateNode, Tree!ScanBehind, TreeP!ScanBehind, Tree!ScanFrame,
     TreeP!ScanFrame, Tree!NULL, TreeP!NULL, Tree!locals, TreeP!locals
<1>4. Tree!NextDevice => TreeP!NextDevice
    BY <1>0, Zenon DEF Tree!NextDevice, TreeP!NextDevice, Tree!SetTop, TreeP!SetTop, Tree!Top,
     TreeP!Top, Tree!locals, TreeP!locals
<1>5. Tree!ReturnToBridge => TreeP!ReturnToBridge
    BY <1>0, Zenon DEF Tree!ReturnToBridge, TreeP!ReturnToBridge, Tree!Top, TreeP!Top,
     Tree!Below, TreeP!Below, Tree!locals, TreeP!locals
<1>6. Tree!ReturnToSegment => TreeP!ReturnToSegment
    BY <1>0, Zenon DEF Tree!ReturnToSegment, TreeP!ReturnToSegment, Tree!Top, TreeP!Top
<1>7. Tree!BeginSegment => TreeP!BeginSegment
    BY <1>0, Zenon DEF Tree!BeginSegment, TreeP!BeginSegment, Tree!Starts, TreeP!Starts,
     Tree!ScanFrame, TreeP!ScanFrame, Tree!NULL, TreeP!NULL, Tree!locals, TreeP!locals
<1>8. Tree!SkipEmptySegment => TreeP!SkipEmptySegment
    BY <1>0, Zenon DEF Tree!SkipEmptySegment, TreeP!SkipEmptySegment, Tree!NULL, TreeP!NULL
<1>9. Tree!LinkSegment => TreeP!LinkSegment
    BY <1>0, Zenon DEF Tree!LinkSegment, TreeP!LinkSegment, Tree!NULL, TreeP!NULL
<1>10. Tree!LastSiblingStep => TreeP!LastSiblingStep
    BY <1>0, Zenon DEF Tree!LastSiblingStep, TreeP!LastSiblingStep, Tree!NULL, TreeP!NULL
<1>11. Tree!LastSiblingReturn => TreeP!LastSiblingReturn
    BY <1>0, Zenon DEF Tree!LastSiblingReturn, TreeP!LastSiblingReturn, Tree!NULL, TreeP!NULL
<1>12. Tree!EndSegments => TreeP!EndSegments
    BY <1>0, Zenon DEF Tree!EndSegments, TreeP!EndSegments, Tree!Starts, TreeP!Starts,
     Tree!locals, TreeP!locals
<1>13. Tree!BeginWalk => TreeP!BeginWalk
    BY <1>0, Zenon DEF Tree!BeginWalk, TreeP!BeginWalk, Tree!locals, TreeP!locals
<1>14. Tree!SkipWalk => TreeP!SkipWalk
    BY <1>0, Zenon DEF Tree!SkipWalk, TreeP!SkipWalk, Tree!FreeFrame, TreeP!FreeFrame,
     Tree!NULL, TreeP!NULL, Tree!locals, TreeP!locals
<1>15. Tree!Visit => TreeP!Visit
    BY <1>0, Zenon DEF Tree!Visit, TreeP!Visit, Tree!Top, TreeP!Top, Tree!SetTop, TreeP!SetTop,
     Tree!NULL, TreeP!NULL, Tree!locals, TreeP!locals
<1>16. Tree!ReturnFromWalk => TreeP!ReturnFromWalk
    BY <1>0, Zenon DEF Tree!ReturnFromWalk, TreeP!ReturnFromWalk, Tree!Top, TreeP!Top,
     Tree!Below, TreeP!Below, Tree!FreeFrame, TreeP!FreeFrame, Tree!NULL, TreeP!NULL,
     Tree!locals, TreeP!locals
<1>17. Tree!FreeEnter => TreeP!FreeEnter
    BY <1>0, Zenon DEF Tree!FreeEnter, TreeP!FreeEnter, Tree!Top, TreeP!Top, Tree!SetTop,
     TreeP!SetTop, Tree!FreeFrame, TreeP!FreeFrame, Tree!NULL, TreeP!NULL, Tree!locals,
     TreeP!locals
<1>18. Tree!Release => TreeP!Release
    BY <1>0, Zenon DEF Tree!Release, TreeP!Release, Tree!Top, TreeP!Top, Tree!SetTop,
     TreeP!SetTop, Tree!NULL, TreeP!NULL, Tree!locals, TreeP!locals
<1>19. Tree!ReturnFromFree => TreeP!ReturnFromFree
    BY <1>0, Zenon DEF Tree!ReturnFromFree, TreeP!ReturnFromFree, Tree!Top, TreeP!Top,
     Tree!Below, TreeP!Below, Tree!NULL, TreeP!NULL, Tree!locals, TreeP!locals
<1>. QED
  BY <1>1, <1>2, <1>3, <1>4, <1>5, <1>6, <1>7, <1>8, <1>9, <1>10, <1>11, <1>12, <1>13, <1>14, <1>15, <1>16, <1>17, <1>18, <1>19
  DEF Tree!Scan, Tree!Walk, Tree!Free, TreeP!Scan, TreeP!Walk, TreeP!Free, TreeP!Next
LEMMA PlatformsFit ==
  /\ \A p \in AnyPlatform :
       /\ DOMAIN p.hw \subseteq TreeP!Locations
       /\ p.hw \in [DOMAIN p.hw -> TreeP!Headers]
       /\ p.table \in Seq(TreeP!SegmentInfos)
  /\ LastBus \in Nat /\ LastDev \in Nat /\ LastFun \in Nat
  /\ DepthModulus \in Nat \ {0} /\ PoolSize \in Nat
<1>1. \A p \in AnyPlatform :
        /\ DOMAIN p.hw \subseteq TreeP!Locations
        /\ p.hw \in [DOMAIN p.hw -> TreeP!Headers]
        /\ p.table \in Seq(TreeP!SegmentInfos)
  <2>1. Tree!SegmentNumbers = TreeP!SegmentNumbers
    BY SMT DEF Tree!SegmentNumbers, TreeP!SegmentNumbers
  <2>2. /\ Tree!Locations = TreeP!Locations /\ Tree!Headers = TreeP!Headers
        /\ Tree!SegmentInfos = TreeP!SegmentInfos
    BY <2>1, Zenon DEF Tree!Locations, TreeP!Locations, Tree!Headers, TreeP!Headers,
       Tree!SegmentInfos, TreeP!SegmentInfos
  <2>3. QED
    BY <2>2, MachineAssumption, Zenon DEF AnyPlatform
<1>2. /\ LastBus \in Nat /\ LastDev \in Nat /\ LastFun \in Nat
      /\ DepthModulus \in Nat \ {0} /\ PoolSize \in Nat
  BY MachineAssumption
<1> QED BY <1>1, <1>2

LEMMA TreeInvariant ==
  /\ TreeP!Init => TreeP!FreeInv
  /\ TreeP!FreeInv /\ [TreeP!Next]_(TreeP!vars) => TreeP!FreeInv'
  /\ TreeP!FreeInv => TreeP!TypeOK /\ TreeP!NothingLeaked
<1>3. TreeP!Init => TreeP!FreeInv
  BY TreeP!InitFree, PlatformsFit
<1>4. TreeP!FreeInv /\ [TreeP!Next]_(TreeP!vars) => TreeP!FreeInv'
  BY TreeP!NextFree, PlatformsFit
<1>5. TreeP!FreeInv => TreeP!TypeOK /\ TreeP!NothingLeaked
  BY Zenon DEF TreeP!FreeInv, TreeP!HolderInv, TreeP!ShapeInv, TreeP!TypeInv, TreeP!FreeOK
<1>. QED
  BY <1>3, <1>4, <1>5
-----------------------------------------------------------------------------
(* What is proved of the parts, whose assumptions are those of the whole. *)
LEMMA ParserInvariant ==
  /\ CliP!Init => CliP!GrammarInv
  /\ CliP!GrammarInv /\ [CliP!Next]_(CliP!vars) => CliP!GrammarInv'
  /\ CliP!GrammarInv => CliP!TypeOK /\ CliP!NothingHeld /\ CliP!AcceptsUsage
<1>1. MaxUint64 \in Nat /\ MaxUint64 >= CliP!MAX_UINT16
  <2>1. Cli!MAX_UINT16 = CliP!MAX_UINT16
    BY SMT DEF Cli!MAX_UINT16, CliP!MAX_UINT16
  <2> QED BY <2>1, CommandAssumption, Zenon
<1>2. CommandLines \subseteq CliP!CommandLine
  <2>1. Cli!Texts = CliP!Texts
    BY Zenon DEF Cli!Texts, CliP!Texts, Cli!Colon, CliP!Colon, Cli!Dot, CliP!Dot, Cli!Other,
       CliP!Other, Cli!AllWord, CliP!AllWord, Cli!TreeWord, CliP!TreeWord
  <2>2. Cli!CommandLine = CliP!CommandLine
    BY <2>1, Zenon DEF Cli!CommandLine, CliP!CommandLine
  <2> QED BY <2>2, CommandAssumption, Zenon
<1>3. CliP!Init => CliP!GrammarInv
  BY CliP!InitGrammar, <1>1, <1>2
<1>4. CliP!GrammarInv /\ [CliP!Next]_(CliP!vars) => CliP!GrammarInv'
  BY CliP!NextGrammar, <1>1, <1>2
<1>5. CliP!GrammarInv => CliP!TypeOK /\ CliP!NothingHeld
  BY Zenon DEF CliP!GrammarInv, CliP!IInv, CliP!HeldInv, CliP!NothingHeld
<1>6. CliP!GrammarInv => CliP!AcceptsUsage
  BY CliP!GrammarUsage, <1>1, <1>2
<1> QED BY <1>3, <1>4, <1>5, <1>6

LEMMA BuilderInvariant ==
  /\ TableP!Init => TableP!IInv
  /\ TableP!IInv /\ [TableP!Next]_(TableP!vars) => TableP!IInv'
  /\ TableP!IInv => /\ TableP!TypeOK
                    /\ segPc \notin {"copy", "reading"} => ~arrayHeld /\ Table!View = <<>>
                    /\ Table!View \in Seq(Tree!SegmentInfos)
<1>1. Firmwares \subseteq Seq(TableP!ConfigurationTables)
  BY BuilderProperties, FirmwareAssumption, Zenon
<1>2. WordModulus \in Nat \ {0}
  BY FirmwareAssumption
<1>3. {} \subseteq TableP!Requests
  OBVIOUS
<1>4. TableP!Init => TableP!IInv
  BY TableP!InitInv, <1>1, <1>2, <1>3
<1>5. TableP!IInv /\ [TableP!Next]_(TableP!vars) => TableP!IInv'
  BY TableP!NextInv, <1>1, <1>2, <1>3
<1>6. ASSUME TableP!IInv, segPc \notin {"copy", "reading"}
      PROVE  ~arrayHeld /\ Table!View = <<>>
  <2>1. Segments = <<>> /\ Count = 0 /\ ~arrayHeld
    BY <1>6, Zenon DEF TableP!IInv, TableP!ArrayInv, TableP!Empty
  <2>2. Table!View = <<>>
    BY <2>1 DEF Table!View
  <2> QED BY <2>1, <2>2
<1>7. ASSUME TableP!IInv PROVE Table!View \in Seq(Tree!SegmentInfos)
  <2>1. configuration \in Firmwares
    BY <1>7, Zenon DEF TableP!IInv, TableP!TypeOK
  <2>2. TableP!NeverPartial
    BY <1>7, TableP!InvNeverPartial, <1>1, <1>2, <1>3
  <2>3. CASE TableP!View = <<>>
    <3>1. Table!View = <<>>
      BY <2>3, BuilderProperties, Zenon
    <3>2. \A S : <<>> \in Seq(S)
      OBVIOUS
    <3> QED BY <3>1, <3>2, Zenon
  <2>4. CASE TableP!View = TableP!Announced /\ TableP!View # <<>>
    <3>1. \/ TableP!Announced = <<>>
          \/ \E i \in DOMAIN configuration : \E j \in DOMAIN configuration[i].xsdt.tables :
               TableP!Announced = configuration[i].xsdt.tables[j].entries
      BY <2>1, TableP!AnnouncedEntries, <1>1, <1>2, <1>3
    <3> QED BY <2>1, <2>4, <3>1, BuilderProperties, FirmwareAssumption, Zenon
  <2> QED BY <2>2, <2>3, <2>4, Zenon DEF TableP!NeverPartial
<1>8. TableP!IInv => TableP!TypeOK
  BY Zenon DEF TableP!IInv
<1> QED BY <1>4, <1>5, <1>6, <1>7, <1>8
LEMMA TreeBegins ==
  /\ Tree!Init => TreeBegin
  /\ TreeBegin /\ Table!View \in Seq(Tree!SegmentInfos) => TreeP!Init
<1>1. ASSUME Tree!Init PROVE TreeBegin
  <2>1. PICK p \in {[hw |-> m, table |-> <<>>] : m \in Machines} : hw = p.hw
    BY <1>1, Zenon DEF Tree!Init
  <2>2. hw \in Machines
    BY <2>1
  <2> QED BY <1>1, <2>2, Zenon DEF Tree!Init, TreeBegin
<1>2. ASSUME TreeBegin, Table!View \in Seq(Tree!SegmentInfos)
      PROVE  TreeP!Init
  <2>1. [hw |-> hw, table |-> Table!View] \in AnyPlatform
    BY <1>2 DEF AnyPlatform, TreeBegin
  <2>2. \E p \in AnyPlatform : hw = p.hw /\ Table!View = p.table
    BY <2>1
  <2>3. Tree!NULL = TreeP!NULL
    BY Zenon DEF Tree!NULL, TreeP!NULL
  <2> QED BY <1>2, <2>2, <2>3, Zenon DEF TreeBegin, TreeP!Init
<1> QED BY <1>1, <1>2

(* A step of the program is a step of one part, and a stutter of the others. *)
LEMMA PartSteps ==
  ASSUME [Next]_vars
  PROVE  /\ [CliP!Next]_(CliP!vars)
         /\ [TableP!Next]_(TableP!vars)
         /\ UNCHANGED treeVars \/ (step = "list" /\ [TreeP!Next]_(TreeP!vars))
<1>1. Cli!Next \/ UNCHANGED cliVars
  BY Zenon DEF Next, vars, ParseArguments, ReturnAtOnce, BeginBuild, BuildSegmentTable, BeginScan,
     ScanAllSegments, ShowSingle, BeginWalk, Visit, EndWalk, FreeDeviceList, FreeSegmentTable
<1>2. Table!Next \/ UNCHANGED segVars
  BY Zenon DEF Next, vars, ParseArguments, ReturnAtOnce, BeginBuild, BuildSegmentTable, BeginScan,
     ScanAllSegments, ShowSingle, BeginWalk, Visit, EndWalk, FreeDeviceList, FreeSegmentTable,
     Table!Next
<1>3. \/ UNCHANGED treeVars
      \/ step = "list" /\ (Tree!Scan \/ Tree!Walk \/ Tree!Free)
  BY Zenon DEF Next, vars, ParseArguments, ReturnAtOnce, BeginBuild, BuildSegmentTable, BeginScan,
     ScanAllSegments, ShowSingle, BeginWalk, Visit, EndWalk, FreeDeviceList, FreeSegmentTable,
     Tree!Walk
<1> QED BY <1>1, <1>2, <1>3, ParserSteps, BuilderSteps, TreeSteps, Zenon
LEMMA InitProgram == Init => ProgramInv
<1> SUFFICES ASSUME Init PROVE ProgramInv
  OBVIOUS
<1>1. CliP!GrammarInv /\ TableP!IInv /\ TreeBegin
  BY ParserSteps, BuilderSteps, ParserInvariant, BuilderInvariant, TreeBegins, Zenon DEF Init
<1>2. step = "parse" /\ segPc = "rsdp"
  BY Zenon DEF Init, Table!Init
<1> QED BY <1>1, <1>2 DEF ProgramInv, OrderInv

LEMMA NextProgram == ProgramInv /\ [Next]_vars => ProgramInv'
<1> SUFFICES ASSUME ProgramInv, [Next]_vars PROVE ProgramInv'
  OBVIOUS
<1>1. CliP!GrammarInv' /\ TableP!IInv'
  BY PartSteps, ParserInvariant, BuilderInvariant, Zenon DEF ProgramInv
<1> SUFFICES OrderInv'
  BY <1>1, Zenon DEF ProgramInv
<1>2. OrderInv
  BY Zenon DEF ProgramInv
<1>3. step = "list" /\ [TreeP!Next]_(TreeP!vars) => TreeP!FreeInv'
  BY <1>2, TreeInvariant, Zenon DEF OrderInv
<1>4. UNCHANGED treeVars => (TreeBegin => TreeBegin')
  BY Zenon DEF treeVars, TreeBegin, Tree!NULL
<1>5. CASE UNCHANGED vars
  <2>1. UNCHANGED <<step, segPc, cliPc, Result>> /\ UNCHANGED treeVars
    BY <1>5, Zenon DEF vars, cliVars, segVars
  <2>2. [TreeP!Next]_(TreeP!vars)
    BY <1>5, Zenon DEF vars, segVars, treeVars, TreeP!vars, Table!View
  <2>3. freed' = freed /\ root' = root /\ Tree!Ids' = Tree!Ids /\ Tree!NULL' = Tree!NULL
    BY <2>1, Zenon DEF treeVars, Tree!Ids, Tree!NULL
  <2> QED BY <1>2, <1>3, <1>4, <2>1, <2>2, <2>3, Zenon DEF OrderInv
<1>6. CASE ParseArguments
  <2>1. step = "parse" /\ UNCHANGED <<step, segPc>> /\ UNCHANGED treeVars
    BY <1>6, Zenon DEF ParseArguments, segVars
  <2> QED BY <1>2, <1>4, <2>1, Zenon DEF OrderInv
<1>7. CASE ReturnAtOnce
  <2>1. step = "parse" /\ step' = "returned" /\ cliPc' = "done" /\ UNCHANGED segPc
        /\ UNCHANGED treeVars
    BY <1>7, Zenon DEF ReturnAtOnce, segVars, cliVars
  <2> QED BY <1>2, <1>4, <2>1, Zenon DEF OrderInv
<1>8. CASE BeginBuild
  <2>1. /\ step = "parse" /\ step' = "build" /\ cliPc' = "done" /\ UNCHANGED segPc
        /\ Result' \notin {"PciParseHelp", "PciParseError"} /\ UNCHANGED treeVars
    BY <1>8 DEF BeginBuild, segVars, cliVars, ReturnsAtOnce
  <2> QED BY <1>2, <1>4, <2>1, Zenon DEF OrderInv
<1>9. CASE BuildSegmentTable
  <2>1. step = "build" /\ UNCHANGED <<step, cliPc, Result>> /\ UNCHANGED treeVars
    BY <1>9, Zenon DEF BuildSegmentTable, cliVars
  <2>2. segPc' # "done"
    BY <1>9 DEF BuildSegmentTable, Table!Next, Table!PassConfigurationTable, Table!FindRsdp,
       Table!NoRsdp, Table!OpenXsdt, Table!PassAcpiTable, Table!FindMcfg, Table!NoMcfg,
       Table!OpenMcfg, Table!Allocate, Table!NoMemory, Table!CopyEntry, Table!SetCount,
       Table!FreeSegmentTable
  <2> QED BY <1>2, <1>4, <2>1, <2>2, Zenon DEF OrderInv
<1>10. CASE BeginScan
  <2>1. /\ step = "build" /\ step' = "list" /\ segPc' = "reading"
        /\ UNCHANGED <<cliPc, Result>> /\ UNCHANGED treeVars
    BY <1>10 DEF BeginScan, Built, cliVars, segVars
  <2>2. TreeP!FreeInv
    BY <1>2, <2>1, BuilderInvariant, TreeBegins, TreeInvariant, Zenon DEF ProgramInv, OrderInv
  <2>3. [TreeP!Next]_(TreeP!vars)
    BY <1>10, Zenon DEF BeginScan, segVars, treeVars, TreeP!vars, Table!View
  <2>4. TreeP!FreeInv'
    BY <2>2, <2>3, TreeInvariant, Zenon
  <2> QED BY <1>2, <2>1, <2>4, Zenon DEF OrderInv
<1>11. CASE ScanAllSegments \/ ShowSingle \/ BeginWalk \/ Visit \/ EndWalk \/ FreeDeviceList
  <2>1. step = "list" /\ UNCHANGED <<step, segPc, cliPc, Result>>
    BY <1>11, Zenon DEF ScanAllSegments, ShowSingle, BeginWalk, Visit, EndWalk, FreeDeviceList,
       cliVars, segVars
  <2>2. Tree!Scan \/ Tree!Walk \/ Tree!Free
    BY <1>11, Zenon DEF ScanAllSegments, ShowSingle, BeginWalk, Visit, EndWalk, FreeDeviceList,
       Tree!Walk
  <2>3. TreeP!FreeInv'
    BY <1>3, <2>1, <2>2, TreeSteps, Zenon
  <2> QED BY <1>2, <2>1, <2>3, Zenon DEF OrderInv
<1>12. CASE FreeSegmentTable
  <2>1. /\ step = "list" /\ treePc = "done" /\ step' = "returned" /\ segPc' = "done"
        /\ UNCHANGED <<cliPc, Result>> /\ UNCHANGED treeVars
    BY <1>12, Zenon DEF FreeSegmentTable, Table!FreeSegmentTable, cliVars
  <2>2. freed = TreeP!Ids /\ root = TreeP!NULL
    BY <1>2, <2>1, TreeInvariant, Zenon DEF OrderInv, TreeP!NothingLeaked
  <2>3. freed' = Tree!Ids' /\ root' = Tree!NULL'
    BY <2>1, <2>2, Zenon DEF treeVars, Tree!Ids, TreeP!Ids, Tree!NULL, TreeP!NULL
  <2> QED BY <1>2, <2>1, <2>3, Zenon DEF OrderInv
<1> QED
  BY <1>5, <1>6, <1>7, <1>8, <1>9, <1>10, <1>11, <1>12, Zenon DEF Next

(* What the parts rely on when it is read from the whole. *)
LEMMA TreeTypes == TreeP!TypeOK => Tree!TypeOK
<1>0. Tree!SegmentNumbers = TreeP!SegmentNumbers
  BY SMT DEF Tree!SegmentNumbers, TreeP!SegmentNumbers
<1>1. /\ Tree!Locations = TreeP!Locations /\ Tree!Headers = TreeP!Headers
      /\ Tree!SegmentInfos = TreeP!SegmentInfos
  BY <1>0, Zenon DEF Tree!Locations, TreeP!Locations, Tree!Headers, TreeP!Headers,
     Tree!SegmentInfos, TreeP!SegmentInfos
<1>2. /\ Tree!Ids = TreeP!Ids /\ Tree!Ptr = TreeP!Ptr /\ Tree!Starts = TreeP!Starts
      /\ Tree!WalkFrames = TreeP!WalkFrames /\ Tree!FreeFrames = TreeP!FreeFrames
  BY Zenon DEF Tree!Ids, TreeP!Ids, Tree!Ptr, TreeP!Ptr, Tree!Starts, TreeP!Starts,
     Tree!WalkFrames, TreeP!WalkFrames, Tree!FreeFrames, TreeP!FreeFrames
<1>3. Tree!NODE = TreeP!NODE /\ Tree!ScanFrames = TreeP!ScanFrames
  BY <1>0, <1>1, <1>2, Zenon DEF Tree!NODE, TreeP!NODE, Tree!ScanFrames, TreeP!ScanFrames
<1>4. TreeP!PlatformTypeOK => Tree!PlatformTypeOK
  BY <1>1, Zenon DEF Tree!PlatformTypeOK, TreeP!PlatformTypeOK
<1>5. TreeP!HeapTypeOK => Tree!HeapTypeOK
  BY <1>2, <1>3, Zenon DEF Tree!HeapTypeOK, TreeP!HeapTypeOK
<1>6. TreeP!ControlTypeOK => Tree!ControlTypeOK
  BY <1>2, Zenon DEF Tree!ControlTypeOK, TreeP!ControlTypeOK
<1>7. TreeP!StackTypeOK => Tree!StackTypeOK
  BY <1>2, <1>3, Zenon DEF Tree!StackTypeOK, TreeP!StackTypeOK
<1> QED BY <1>4, <1>5, <1>6, <1>7, Zenon DEF Tree!TypeOK, TreeP!TypeOK

(* On every machine, under every firmware and for every command line the
   variables keep their types, and no part runs before the one it needs is
   done: a table is searched for only on a valid command line, and stands from
   before the first node is made until the last is freed. *)
THEOREM TypeCorrect == Spec => []TypeOK
<1>1. ASSUME ProgramInv PROVE TypeOK
  <2>1. CliP!GrammarInv /\ TableP!IInv /\ OrderInv
    BY <1>1, Zenon DEF ProgramInv
  <2>2. Cli!TypeOK /\ Table!TypeOK
    BY <2>1, ParserInvariant, ParserProperties, BuilderInvariant, BuilderProperties, Zenon
  <2>3. step # "returned" => Tree!TypeOK
    <3>1. step # "returned" => TreeP!FreeInv
      BY <2>1, BuilderInvariant, TreeBegins, TreeInvariant DEF OrderInv
    <3> QED BY <3>1, TreeInvariant, TreeTypes, Zenon
  <2>4. segPc # "rsdp" => Cli!Understood(command)
    <3>1. ASSUME segPc # "rsdp" PROVE CliP!Understood(command)
      <4>1. cliPc = "done" /\ Result \notin {"PciParseHelp", "PciParseError"}
        BY <2>1, <3>1, Zenon DEF OrderInv
      <4>2. CliP!AcceptsUsage
        BY <2>1, ParserInvariant, Zenon
      <4> QED BY <4>1, <4>2 DEF CliP!AcceptsUsage
    <3> QED BY <3>1, ParserProperties, Zenon
  <2>5. /\ step \in {"parse", "build", "list", "returned"}
        /\ heap # <<>> => segPc \in {"reading", "done"}
        /\ segPc = "done" => freed = Tree!Ids
    BY <2>1 DEF OrderInv, TreeBegin
  <2> QED BY <2>2, <2>3, <2>4, <2>5, Zenon DEF TypeOK
<1> QED BY <1>1, InitProgram, NextProgram, PTL DEF Spec

(* Whatever way the program returns, on every machine and under every firmware,
   it has given back the package, the table and every node. *)
THEOREM NothingHeldCorrect == Spec => []NothingHeld
<1>1. ASSUME ProgramInv PROVE NothingHeld
  <2> SUFFICES ASSUME step = "returned"
               PROVE  /\ packages = {} /\ ~arrayHeld /\ Table!View = <<>>
                      /\ freed = Tree!Ids /\ root = Tree!NULL
    BY Zenon DEF NothingHeld
  <2>1. CliP!GrammarInv /\ TableP!IInv /\ OrderInv
    BY <1>1, Zenon DEF ProgramInv
  <2>2. cliPc = "done" /\ segPc \in {"rsdp", "done"}
    BY <2>1 DEF OrderInv
  <2>3. packages = {}
    BY <2>1, <2>2, ParserInvariant, Zenon DEF CliP!NothingHeld
  <2>4. ~arrayHeld /\ Table!View = <<>>
    BY <2>1, <2>2, BuilderInvariant
  <2>5. TreeBegin => freed = Tree!Ids /\ root = Tree!NULL
    BY DEF TreeBegin, Tree!Ids
  <2>6. freed = Tree!Ids /\ root = Tree!NULL
    BY <2>1, <2>5 DEF OrderInv
  <2> QED BY <2>3, <2>4, <2>6
<1> QED BY <1>1, InitProgram, NextProgram, PTL DEF Spec
-----------------------------------------------------------------------------
(* The numbering of the buses is a property of the machine and the table. *)
Machine(h, t) ==
  INSTANCE PciInventory WITH
    Platforms <- {}, hw <- h, table <- t, lost <- {}, listing <- <<>>, phase <- "closed"

NumberedOn(h, t) == Machine(h, t)!Numbered

LEMMA NumberedMachine == Inventory!Numbered <=> NumberedOn(hw, Table!View)
<1>1. Inventory!Starts = Machine(hw, Table!View)!Starts
  BY Zenon DEF Inventory!Starts, Machine!Starts
<1>2. Inventory!Functions = Machine(hw, Table!View)!Functions
  <2>1. \A t, s, r : Inventory!HasRoute(t, s, r) <=> Machine(hw, Table!View)!HasRoute(t, s, r)
    BY Zenon DEF Inventory!HasRoute, Machine!HasRoute, Inventory!IsLegacy, Machine!IsLegacy,
       Inventory!LegacySize, Machine!LegacySize, Inventory!FindEcamBaseForSegment,
       Machine!FindEcamBaseForSegment, Inventory!EntriesFor, Machine!EntriesFor
  <2> QED BY <2>1, Zenon DEF Inventory!Functions, Machine!Functions, Inventory!Exists,
       Machine!Exists
<1>3. Inventory!Bridges = Machine(hw, Table!View)!Bridges
  BY <1>2, Zenon DEF Inventory!Bridges, Machine!Bridges
<1> QED BY <1>1, <1>3, SMT DEF NumberedOn, Inventory!Numbered, Machine!Numbered

(* The inventory and its copy, once the list is made. *)
LEMMA InventoryCopy ==
  /\ NumberedOn(hw, Table!View) <=> TreeP!Inventory!Numbered
  /\ ~TreeP!Scanning =>
       /\ Inventory!Listed = TreeP!Inventory!Listed
       /\ \A l : /\ Inventory!Path(l) = TreeP!Inventory!Path(l)
                 /\ Inventory!Entry(l) = TreeP!Inventory!Entry(l)
  /\ \A p, q : TreeP!Inventory!Precedes(p, q) => Inventory!Precedes(p, q)
<1>1. Inventory!Starts = TreeP!Inventory!Starts
  BY Zenon DEF Inventory!Starts, TreeP!Inventory!Starts
<1>2. Inventory!Functions = TreeP!Inventory!Functions
  <2>1. \A t, s, r : Inventory!HasRoute(t, s, r) <=> TreeP!Inventory!HasRoute(t, s, r)
    BY Zenon DEF Inventory!HasRoute, TreeP!Inventory!HasRoute, Inventory!IsLegacy,
       TreeP!Inventory!IsLegacy, Inventory!LegacySize, TreeP!Inventory!LegacySize,
       Inventory!FindEcamBaseForSegment, TreeP!Inventory!FindEcamBaseForSegment,
       Inventory!EntriesFor, TreeP!Inventory!EntriesFor
  <2> QED BY <2>1, Zenon DEF Inventory!Functions, TreeP!Inventory!Functions, Inventory!Exists,
       TreeP!Inventory!Exists
<1>3. Inventory!Bridges = TreeP!Inventory!Bridges
  BY <1>2, Zenon DEF Inventory!Bridges, TreeP!Inventory!Bridges
<1>4. Inventory!Numbered <=> TreeP!Inventory!Numbered
  BY <1>1, <1>3, SMT DEF Inventory!Numbered, TreeP!Inventory!Numbered
<1>5. ASSUME ~TreeP!Scanning
      PROVE  /\ Inventory!Listed = TreeP!Inventory!Listed
             /\ \A l : /\ Inventory!Path(l) = TreeP!Inventory!Path(l)
                       /\ Inventory!Entry(l) = TreeP!Inventory!Entry(l)
  <2>0. (IF TreeP!Scanning THEN {} ELSE lost) = lost
    BY <1>5
  <2>1. \A s, b : Inventory!StartsAt(s, b) = TreeP!Inventory!StartsAt(s, b)
    BY <1>1, Zenon DEF Inventory!StartsAt, TreeP!Inventory!StartsAt
  <2>2. \A p, s, b : Inventory!BridgesTo(p, s, b) = TreeP!Inventory!BridgesTo(p, s, b)
    BY <1>3, <2>0, Zenon DEF Inventory!BridgesTo, TreeP!Inventory!BridgesTo
  <2>3. \A p, l : Inventory!PathOver(p, l) = TreeP!Inventory!PathOver(p, l)
    BY Zenon DEF Inventory!PathOver, TreeP!Inventory!PathOver, Inventory!Place,
       TreeP!Inventory!Place
  <2>4. \A p, s, b : Inventory!NextPath(p, s, b) = TreeP!Inventory!NextPath(p, s, b)
    <3>1. SUFFICES ASSUME NEW p, NEW s, NEW b
                   PROVE  Inventory!NextPath(p, s, b) = TreeP!Inventory!NextPath(p, s, b)
      BY Zenon
    <3>2. Inventory!NextPath(p, s, b) =
            TreeP!FirstOf(Inventory!StartsAt(s, b), Inventory!BridgesTo(p, s, b),
                          Inventory!PathOver(p, TreeP!Any(Inventory!BridgesTo(p, s, b))))
      BY Zenon DEF Inventory!NextPath, TreeP!FirstOf, TreeP!Any
    <3>3. TreeP!Inventory!NextPath(p, s, b) =
            TreeP!FirstOf(TreeP!Inventory!StartsAt(s, b), TreeP!Inventory!BridgesTo(p, s, b),
                          TreeP!Inventory!PathOver(p, TreeP!Any(TreeP!Inventory!BridgesTo(p, s, b))))
      BY Zenon DEF TreeP!Inventory!NextPath, TreeP!FirstOf, TreeP!Any
    <3> QED BY <2>1, <2>2, <2>3, <3>2, <3>3, Zenon
  <2>5. \A s : Inventory!BusPath(s) = TreeP!Inventory!BusPath(s)
    BY <2>4, Zenon DEF Inventory!BusPath, TreeP!Inventory!BusPath
  <2>6. \A l : Inventory!Path(l) = TreeP!Inventory!Path(l)
    BY <2>5, Zenon DEF Inventory!Path, TreeP!Inventory!Path, Inventory!Place,
       TreeP!Inventory!Place
  <2>7. \A l : Inventory!Entry(l) = TreeP!Inventory!Entry(l)
    BY <2>6, Zenon DEF Inventory!Entry, TreeP!Inventory!Entry
  <2>8. Inventory!Listed = TreeP!Inventory!Listed
    BY <1>2, <2>0, <2>5, Zenon DEF Inventory!Listed, TreeP!Inventory!Listed
  <2> QED BY <2>6, <2>7, <2>8, Zenon
<1>6. \A p, q : TreeP!Inventory!Precedes(p, q) => Inventory!Precedes(p, q)
  BY Zenon DEF Inventory!Precedes, TreeP!Inventory!Precedes
<1> QED BY <1>4, <1>5, <1>6, NumberedMachine, Zenon

(* What is proved of the list, on the machine and with the table at hand. *)
LEMMA ListInvariant ==
  ASSUME DepthModulus > LastBus
  PROVE  /\ TreeP!Init => TreeP!WalkInv /\ TreeP!Described
         /\ TreeP!Init /\ NumberedOn(hw, Table!View) => TreeP!ListInv
         /\ TreeP!WalkInv /\ [TreeP!Next]_(TreeP!vars) => TreeP!WalkInv'
         /\ TreeP!WalkInv => TreeP!TypeInv
         /\ TreeP!WalkInv /\ TreeP!Described /\ [TreeP!Next]_(TreeP!vars) => TreeP!Described'
         /\ TreeP!ListInv /\ [TreeP!Next]_(TreeP!vars) => TreeP!ListInv'
<1>1. TreeP!Init => TreeP!WalkInv
  BY TreeP!InitWalk, PlatformsFit
<1>2. TreeP!Init => TreeP!Described
  BY DEF TreeP!Init, TreeP!Described, TreeP!Ids
<1>3. TreeP!Init /\ NumberedOn(hw, Table!View) => TreeP!ListInv
  <2>1. TreeP!Init /\ TreeP!Inventory!Numbered => TreeP!ListInv
    BY TreeP!InitList, PlatformsFit
  <2> QED BY <2>1, InventoryCopy, Zenon
<1>4. TreeP!WalkInv /\ [TreeP!Next]_(TreeP!vars) => TreeP!WalkInv'
  BY TreeP!NextWalk, PlatformsFit
<1>5. TreeP!WalkInv => TreeP!TypeInv
  BY Zenon DEF TreeP!WalkInv, TreeP!OrderInv, TreeP!HolderInv, TreeP!ShapeInv
<1>6. TreeP!WalkInv /\ TreeP!Described /\ [TreeP!Next]_(TreeP!vars) => TreeP!Described'
  BY <1>5, TreeP!NextDescribed, PlatformsFit
<1>7. TreeP!ListInv /\ [TreeP!Next]_(TreeP!vars) => TreeP!ListInv'
  BY TreeP!NextList, PlatformsFit
<1> QED BY <1>1, <1>2, <1>3, <1>4, <1>5, <1>6, <1>7

-----------------------------------------------------------------------------
(* What is shown, while the list stands: nothing before its time, the single
   device, or the functions reported so far. *)
SingleLoc ==
  [Seg |-> Options.Seg, Bus |-> Options.Bus, Dev |-> Options.Dev, Fun |-> Options.Fun]

SingleShown ==
  Shown(SingleLoc, 0, IsPcieDevice(SingleLoc), Options.ReadType, Options.ExtendFlag, FALSE)

FunctionShown(i) ==
  IF Options.Mode = "PciCmdAll" THEN VisitAllDevice(heap[report[i].Node])
  ELSE VisitTreeDevice(heap[report[i].Node], report[i].Depth)

HasLength(s, n) == s = [i \in 1 .. n |-> s[i]]

NotYetShown == treePc \notin {"walk", "free", "done"} /\ shown = <<>>

DeviceShown ==
  /\ Options.Mode = "PciCmdSingle" /\ treePc \in {"free", "done"}
  /\ shown = <<SingleShown>>

FunctionsShown ==
  /\ Walks /\ treePc \in {"walk", "free", "done"}
  /\ HasLength(shown, Len(report))
  /\ \A i \in 1 .. Len(report) : shown[i] = FunctionShown(i)
  /\ treePc = "walk" \/ Len(report) = Len(heap)

ShownOK == NotYetShown \/ DeviceShown \/ FunctionsShown

ListOK ==
  /\ TreeP!WalkInv /\ TreeP!Described
  /\ NumberedOn(hw, Table!View) => TreeP!ListInv
  /\ ShownOK

ShowInv ==
  /\ step \in {"build", "list"} \/ segPc # "rsdp" => Options.Mode # "PciCmdNone"
  /\ step \in {"parse", "build"} \/ (step = "returned" /\ segPc = "rsdp") => shown = <<>>
  /\ step = "list" => ListOK

Longer(s, n, e, t) ==
  HasLength(t, n + 1) /\ t[n + 1] = e /\ \A i \in 1 .. n : t[i] = s[i]

LEMMA AppendLength ==
  ASSUME NEW n \in Nat, NEW s, HasLength(s, n), NEW e, NEW t, t = Append(s, e)
  PROVE  Longer(s, n, e, t)
<1>1. PICK S : S = {s[i] : i \in 1 .. n} \cup {e}
  OBVIOUS
<1>2. s \in [1 .. n -> S] /\ e \in S
  BY <1>1 DEF HasLength
<1>3. s \in Seq(S) /\ Len(s) = n
  BY <1>2
<1>4. /\ t \in Seq(S) /\ Len(t) = n + 1 /\ t[n + 1] = e
      /\ \A i \in 1 .. n : t[i] = s[i]
  BY <1>2, <1>3
<1>5. t \in [1 .. n + 1 -> S]
  <2>1. \A u \in Seq(S) : u \in [1 .. Len(u) -> S]
    OBVIOUS
  <2> QED BY <1>4, <2>1, Zenon
<1> QED BY <1>4, <1>5 DEF HasLength, Longer

(* A function is shown the same as long as nothing it is shown from changes. *)
LEMMA SameShown ==
  ASSUME UNCHANGED <<hw, Table!View, Options>>
  PROVE  /\ SingleShown' = SingleShown
         /\ Walks' <=> Walks
         /\ heap' = heap => \A i : report'[i] = report[i] => FunctionShown(i)' = FunctionShown(i)
<1>1. SingleShown' = SingleShown
  BY Zenon DEF SingleShown, SingleLoc, Shown, IsPcieDevice
<1>2. Walks' <=> Walks
  BY Zenon DEF Walks
<1>3. ASSUME heap' = heap, NEW i, report'[i] = report[i]
      PROVE  FunctionShown(i)' = FunctionShown(i)
  BY <1>3, Zenon DEF FunctionShown, VisitAllDevice, VisitTreeDevice, Shown
<1> QED BY <1>1, <1>2, <1>3

LEMMA SameFunctions ==
  ASSUME FunctionsShown, UNCHANGED <<hw, Table!View, Options, shown, heap, report>>,
         treePc' = treePc \/ (treePc' \in {"free", "done"} /\ Len(report) = Len(heap))
  PROVE  FunctionsShown'
<1>1. Walks' /\ HasLength(shown, Len(report))'
  BY SameShown, Zenon DEF FunctionsShown, HasLength
<1>2. ASSUME NEW i \in 1 .. Len(report') PROVE shown'[i] = FunctionShown(i)'
  <2>1. i \in 1 .. Len(report) /\ report'[i] = report[i]
    BY Zenon
  <2>2. shown[i] = FunctionShown(i) /\ FunctionShown(i)' = FunctionShown(i)
    BY <2>1, SameShown, Zenon DEF FunctionsShown
  <2> QED BY <2>2, Zenon
<1>3. treePc' \in {"walk", "free", "done"} /\ (treePc' = "walk" \/ Len(report') = Len(heap'))
  BY DEF FunctionsShown
<1> QED BY <1>1, <1>2, <1>3, Zenon DEF FunctionsShown

LEMMA StutterShown ==
  ASSUME ShownOK, UNCHANGED <<hw, Table!View, Options, shown, heap, report, treePc>>
  PROVE  ShownOK'
<1>1. CASE NotYetShown
  BY <1>1, Zenon DEF NotYetShown, ShownOK
<1>2. CASE DeviceShown
  BY <1>2, SameShown, Zenon DEF DeviceShown, ShownOK
<1>3. CASE FunctionsShown
  BY <1>3, SameFunctions, Zenon DEF ShownOK
<1> QED BY <1>1, <1>2, <1>3, Zenon DEF ShownOK

LEMMA VisitShown ==
  ASSUME TreeP!WalkInv, ShownOK, Visit
  PROVE  ShownOK'
<1>1. PICK r, D, n : r = Len(report) /\ D = Len(walks) /\ n = walks[D].Node
  OBVIOUS
<1>2. TreeP!NodeVisited(D, r, n)
  <2>1. TreeP!TypeInv /\ TreeP!Visit
    BY TreeSteps, Zenon DEF Visit, TreeP!WalkInv, TreeP!OrderInv, TreeP!HolderInv, TreeP!ShapeInv
  <2>2. TreeP!NodeVisited(Len(walks), Len(report), walks[Len(walks)].Node)
    BY <2>1, TreeP!VisitEffect, PlatformsFit
  <2> QED BY <1>1, <2>2, Zenon
<1>3. /\ UNCHANGED <<hw, Table!View, Options, heap, treePc>> /\ treePc = "walk"
      /\ r \in Nat /\ Len(report') = r + 1
      /\ \A i \in 1 .. r : report'[i] = report[i]
  <2>1. /\ UNCHANGED <<hw, heap, treePc>> /\ treePc = "walk"
        /\ r \in Nat /\ Len(report') = r + 1
        /\ \A i \in 1 .. r : report'[i] = report[i]
    BY <1>2, Zenon DEF TreeP!NodeVisited
  <2>2. UNCHANGED <<Table!View, Options>>
    BY Zenon DEF Visit, cliVars, segVars, Table!View
  <2> QED BY <2>1, <2>2
<1>4. FunctionsShown
  BY <1>3 DEF ShownOK, NotYetShown, DeviceShown
<1>5. shown' = Append(shown, FunctionShown(r + 1)')
  <2>1. shown' = Append(shown, IF Options.Mode = "PciCmdAll" THEN VisitAllDevice(heap[report'[r + 1].Node])
                               ELSE VisitTreeDevice(heap[report'[r + 1].Node], report'[r + 1].Depth))
    BY <1>3, Zenon DEF Visit
  <2> QED BY <1>3, <2>1, Zenon DEF FunctionShown, VisitAllDevice, VisitTreeDevice, Shown
<1>6. /\ HasLength(shown', r + 1) /\ shown'[r + 1] = FunctionShown(r + 1)'
      /\ \A i \in 1 .. r : shown'[i] = shown[i]
  <2>1. HasLength(shown, r)
    BY <1>1, <1>4, Zenon DEF FunctionsShown
  <2>2. Longer(shown, r, FunctionShown(r + 1)', shown')
    BY <1>3, <1>5, <2>1, AppendLength, Zenon
  <2> QED BY <2>2, Zenon DEF Longer
<1>7. ASSUME NEW i \in 1 .. r PROVE shown'[i] = FunctionShown(i)'
  <2>1. shown[i] = FunctionShown(i)
    BY <1>1, <1>4, Zenon DEF FunctionsShown
  <2>2. FunctionShown(i)' = FunctionShown(i)
    BY <1>3, SameShown, Zenon
  <2> QED BY <1>6, <2>1, <2>2, Zenon
<1>8. \A i \in 1 .. Len(report') : i \in 1 .. r \/ i = r + 1
  BY <1>3
<1>9. HasLength(shown, Len(report))'
  BY <1>3, <1>6, Zenon DEF HasLength
<1>10. Walks' /\ treePc' = "walk"
  BY <1>3, <1>4, SameShown, Zenon DEF FunctionsShown
<1>11. FunctionsShown'
  BY <1>6, <1>7, <1>8, <1>9, <1>10, Zenon DEF FunctionsShown
<1> QED BY <1>11, Zenon DEF ShownOK

(* A step of the program while the list stands. *)
ListStep ==
  ScanAllSegments \/ ShowSingle \/ BeginWalk \/ Visit \/ EndWalk \/ FreeDeviceList

LEMMA ListStepShown ==
  ASSUME TreeP!WalkInv, ShownOK, ListStep
  PROVE  ShownOK'
<1>1. UNCHANGED <<Options, Table!View>>
  BY Zenon DEF ListStep, ScanAllSegments, ShowSingle, BeginWalk, Visit, EndWalk, FreeDeviceList,
     cliVars, segVars, Table!View
<1>2. CASE ScanAllSegments
  <2>1. /\ treePc \in {"segment", "scan", "link", "last"} /\ shown' = shown
        /\ treePc' \in {"segment", "scan", "link", "last", "scanned"}
    BY <1>2 DEF ScanAllSegments, Tree!Scan, Tree!BeginSegment, Tree!SkipAbsent, Tree!NoMemory,
       Tree!AddNode, Tree!NextDevice, Tree!ReturnToBridge, Tree!ReturnToSegment,
       Tree!SkipEmptySegment, Tree!LinkSegment, Tree!LastSiblingStep, Tree!LastSiblingReturn,
       Tree!EndSegments, Tree!InFunctionLoop
  <2>2. shown = <<>>
    BY <2>1 DEF ShownOK, NotYetShown, DeviceShown, FunctionsShown
  <2> QED BY <2>1, <2>2 DEF ShownOK, NotYetShown
<1>3. CASE ShowSingle
  <2>1. /\ treePc' = "free" /\ hw' = hw /\ Options.Mode = "PciCmdSingle"
        /\ shown' = <<SingleShown>>
    BY <1>3, Zenon DEF ShowSingle, Tree!SkipWalk, Tree!platform, SingleShown, SingleLoc
  <2>2. SingleShown' = SingleShown
    BY <1>1, <2>1, SameShown, Zenon
  <2>3. DeviceShown'
    BY <1>1, <2>1, <2>2 DEF DeviceShown
  <2> QED BY <2>3, Zenon DEF ShownOK
<1>4. CASE BeginWalk
  <2>1. /\ treePc = "scanned" /\ treePc' = "walk" /\ Walks /\ UNCHANGED <<hw, shown, report>>
    BY <1>4, Zenon DEF BeginWalk, Tree!BeginWalk, Tree!platform
  <2>2. report = <<>> /\ shown = <<>>
    BY <2>1 DEF ShownOK, NotYetShown, DeviceShown, FunctionsShown, TreeP!WalkInv, TreeP!WalkOK
  <2>3. 1 .. Len(report') = {} /\ HasLength(shown', Len(report'))
    BY <2>1, <2>2 DEF HasLength
  <2>4. Walks'
    BY <1>1, <2>1, SameShown, Zenon
  <2>5. HasLength(shown, Len(report))'
    BY <2>3, Zenon DEF HasLength
  <2>6. FunctionsShown'
    BY <2>1, <2>3, <2>4, <2>5, Zenon DEF FunctionsShown
  <2> QED BY <2>6, Zenon DEF ShownOK
<1>5. CASE Visit
  BY <1>5, VisitShown
<1>6. CASE EndWalk
  <2>1. /\ treePc = "walk" /\ treePc' \in {"walk", "free"}
        /\ UNCHANGED <<hw, shown, report, heap>> /\ Tree!ReturnFromWalk
    BY <1>6 DEF EndWalk, Tree!ReturnFromWalk, Tree!platform
  <2>2. FunctionsShown
    BY <2>1 DEF ShownOK, NotYetShown, DeviceShown
  <2>3. treePc' = "free" => Len(report) = Len(heap)
    BY <2>1, TreeSteps, TreeP!WalkReturns, PlatformsFit
  <2>4. FunctionsShown'
    BY <1>1, <2>1, <2>2, <2>3, SameFunctions
  <2> QED BY <2>4, Zenon DEF ShownOK
<1>7. CASE FreeDeviceList
  <2>1. /\ treePc = "free" /\ treePc' \in {"free", "done"}
        /\ UNCHANGED <<hw, shown, report, heap>>
    BY <1>7 DEF FreeDeviceList, Tree!Free, Tree!FreeEnter, Tree!Release, Tree!ReturnFromFree,
       Tree!platform
  <2>2. CASE DeviceShown
    <3>1. SingleShown' = SingleShown
      BY <1>1, <2>1, SameShown, Zenon
    <3>2. DeviceShown'
      BY <1>1, <2>1, <2>2, <3>1 DEF DeviceShown
    <3> QED BY <3>2, Zenon DEF ShownOK
  <2>3. CASE FunctionsShown
    <3>1. Len(report) = Len(heap)
      BY <2>1, <2>3 DEF FunctionsShown
    <3>2. FunctionsShown'
      BY <1>1, <2>1, <2>3, <3>1, SameFunctions
    <3> QED BY <3>2, Zenon DEF ShownOK
  <2> QED BY <2>1, <2>2, <2>3 DEF ShownOK, NotYetShown
<1> QED BY <1>2, <1>3, <1>4, <1>5, <1>6, <1>7 DEF ListStep

LEMMA ListStepOK ==
  ASSUME DepthModulus > LastBus, ListOK, step = "list",
         ListStep \/ UNCHANGED <<shown, Table!View, Options, treeVars>>
  PROVE  ListOK'
<1>1. [TreeP!Next]_(TreeP!vars)
  <2>1. CASE ListStep
    <3>1. Tree!Scan \/ Tree!Walk \/ Tree!Free
      BY <2>1, Zenon DEF ListStep, ScanAllSegments, ShowSingle, BeginWalk, Visit, EndWalk,
         FreeDeviceList, Tree!Walk
    <3> QED BY <3>1, TreeSteps, Zenon
  <2>2. CASE UNCHANGED <<shown, Table!View, Options, treeVars>>
    BY <2>2, Zenon DEF treeVars, TreeP!vars
  <2> QED BY <2>1, <2>2
<1>2. UNCHANGED <<hw, Table!View>>
  <2>1. CASE ListStep
    <3>1. Table!View' = Table!View
      BY <2>1, Zenon DEF ListStep, ScanAllSegments, ShowSingle, BeginWalk, Visit, EndWalk,
         FreeDeviceList, segVars, Table!View
    <3>2. Tree!Scan => UNCHANGED Tree!platform
      BY Zenon DEF Tree!Scan, Tree!BeginSegment, Tree!SkipAbsent, Tree!NoMemory, Tree!AddNode,
         Tree!NextDevice, Tree!ReturnToBridge, Tree!ReturnToSegment, Tree!SkipEmptySegment,
         Tree!LinkSegment, Tree!LastSiblingStep, Tree!LastSiblingReturn, Tree!EndSegments
    <3>3. Tree!Walk \/ Tree!Free => UNCHANGED Tree!platform
      BY Zenon DEF Tree!Walk, Tree!BeginWalk, Tree!SkipWalk, Tree!Visit, Tree!ReturnFromWalk,
         Tree!Free, Tree!FreeEnter, Tree!Release, Tree!ReturnFromFree
    <3>4. Tree!Scan \/ Tree!Walk \/ Tree!Free
      BY <2>1, Zenon DEF ListStep, ScanAllSegments, ShowSingle, BeginWalk, Visit, EndWalk,
         FreeDeviceList, Tree!Walk
    <3>5. hw' = hw
      BY <3>2, <3>3, <3>4, Zenon DEF Tree!platform
    <3> QED BY <3>1, <3>5
  <2>2. CASE UNCHANGED <<shown, Table!View, Options, treeVars>>
    BY <2>2, Zenon DEF treeVars
  <2> QED BY <2>1, <2>2
<1>3. TreeP!WalkInv' /\ TreeP!Described'
  BY <1>1, ListInvariant, Zenon DEF ListOK
<1>4. NumberedOn(hw, Table!View)' => TreeP!ListInv'
  <2>1. NumberedOn(hw, Table!View)' => NumberedOn(hw, Table!View)
    BY <1>2, Zenon
  <2>2. TreeP!ListInv => TreeP!ListInv'
    BY <1>1, ListInvariant, Zenon
  <2> QED BY <2>1, <2>2, Zenon DEF ListOK
<1>5. ShownOK'
  <2>1. CASE ListStep
    BY <2>1, ListStepShown, Zenon DEF ListOK
  <2>2. CASE UNCHANGED <<shown, Table!View, Options, treeVars>>
    <3>1. UNCHANGED <<hw, Table!View, Options, shown, heap, report, treePc>>
      BY <2>2, Zenon DEF treeVars
    <3> QED BY <3>1, StutterShown, Zenon DEF ListOK
  <2> QED BY <2>1, <2>2
<1> QED BY <1>3, <1>4, <1>5, Zenon DEF ListOK

LEMMA InitShow == Init => ShowInv
<1> SUFFICES ASSUME Init PROVE ShowInv
  OBVIOUS
<1>1. step = "parse" /\ shown = <<>> /\ segPc = "rsdp"
  BY Zenon DEF Init, Table!Init
<1> QED BY <1>1 DEF ShowInv

LEMMA NextShow ==
  ASSUME DepthModulus > LastBus, ProgramInv, ShowInv, [Next]_vars
  PROVE  ShowInv'
<1>1. OrderInv /\ TableP!IInv
  BY Zenon DEF ProgramInv
<1>2. CASE UNCHANGED vars
  <2>1. /\ UNCHANGED <<step, segPc>>
        /\ UNCHANGED <<shown, Table!View, Options, treeVars>>
    BY <1>2, Zenon DEF vars, cliVars, segVars, Table!View
  <2>2. step = "list" => ListOK'
    BY <2>1, ListStepOK, Zenon DEF ShowInv
  <2> QED BY <2>1, <2>2, Zenon DEF ShowInv
<1>3. CASE ParseArguments
  <2>1. step = "parse" /\ segPc = "rsdp" /\ UNCHANGED <<step, segPc, shown>>
    BY <1>1, <1>3, Zenon DEF ParseArguments, segVars, OrderInv
  <2> QED BY <2>1 DEF ShowInv
<1>4. CASE ReturnAtOnce
  <2>1. step = "parse" /\ segPc = "rsdp" /\ step' = "returned" /\ UNCHANGED <<segPc, shown>>
    BY <1>1, <1>4, Zenon DEF ReturnAtOnce, segVars, OrderInv
  <2> QED BY <2>1 DEF ShowInv
<1>5. CASE BeginBuild
  <2>1. /\ step = "parse" /\ step' = "build" /\ UNCHANGED <<Options, shown>>
        /\ Options.Mode # "PciCmdNone"
    BY <1>5 DEF BeginBuild, cliVars, ReturnsAtOnce
  <2> QED BY <2>1 DEF ShowInv
<1>6. CASE BuildSegmentTable
  <2>1. step = "build" /\ UNCHANGED <<step, Options, shown>>
    BY <1>6, Zenon DEF BuildSegmentTable, cliVars
  <2> QED BY <2>1 DEF ShowInv
<1>7. CASE BeginScan
  <2>1. /\ step = "build" /\ step' = "list" /\ UNCHANGED <<shown, Options, segPc>>
        /\ UNCHANGED <<shown, Table!View, Options, treeVars>>
    BY <1>7, Zenon DEF BeginScan, cliVars, segVars, Table!View
  <2>2. TreeP!Init
    BY <1>1, <2>1, BuilderInvariant, TreeBegins, Zenon DEF OrderInv
  <2>3. TreeP!WalkInv /\ TreeP!Described /\ (NumberedOn(hw, Table!View) => TreeP!ListInv)
    BY <2>2, ListInvariant, Zenon
  <2>4. treePc = "segment" /\ shown = <<>>
    BY <1>1, <2>1 DEF OrderInv, TreeBegin, ShowInv
  <2>5. ShownOK
    BY <2>4 DEF ShownOK, NotYetShown
  <2>6. TreeP!WalkInv' /\ TreeP!Described' /\ (TreeP!ListInv => TreeP!ListInv')
    <3>1. [TreeP!Next]_(TreeP!vars)
      BY <2>1, Zenon DEF treeVars, TreeP!vars
    <3> QED BY <2>3, <3>1, ListInvariant, Zenon
  <2>7. UNCHANGED <<hw, Table!View, Options, shown, heap, report, treePc>>
    BY <2>1, Zenon DEF treeVars
  <2>8. ShownOK'
    BY <2>5, <2>7, StutterShown, Zenon
  <2>9. NumberedOn(hw, Table!View)' => NumberedOn(hw, Table!View)
    BY <2>7, Zenon
  <2>10. ListOK'
    BY <2>3, <2>6, <2>8, <2>9, Zenon DEF ListOK
  <2>11. Options'.Mode # "PciCmdNone"
    BY <2>1, Zenon DEF ShowInv
  <2> QED BY <2>1, <2>10, <2>11 DEF ShowInv
<1>8. CASE ListStep
  <2>1. step = "list" /\ UNCHANGED <<step, segPc, Options>>
    BY <1>8, Zenon DEF ListStep, ScanAllSegments, ShowSingle, BeginWalk, Visit, EndWalk,
       FreeDeviceList, cliVars, segVars
  <2>2. ListOK'
    BY <1>8, <2>1, ListStepOK, Zenon DEF ShowInv
  <2>3. Options.Mode # "PciCmdNone"
    BY <2>1 DEF ShowInv
  <2> QED BY <2>1, <2>2, <2>3 DEF ShowInv
<1>9. CASE FreeSegmentTable
  <2>1. /\ step = "list" /\ step' = "returned" /\ segPc' = "done" /\ UNCHANGED Options
    BY <1>9, Zenon DEF FreeSegmentTable, Table!FreeSegmentTable, cliVars
  <2>2. Options.Mode # "PciCmdNone"
    BY <2>1 DEF ShowInv
  <2> QED BY <2>1, <2>2 DEF ShowInv
<1> QED BY <1>2, <1>3, <1>4, <1>5, <1>6, <1>7, <1>8, <1>9, Zenon DEF Next, ListStep

-----------------------------------------------------------------------------
(* The options are those of a valid command line, once a table is searched. *)
LEMMA Accepted ==
  ASSUME ProgramInv, step \in {"build", "list"} \/ segPc # "rsdp"
  PROVE  /\ Valid /\ Options = Cli!Said(command)
         /\ Options.ReadType \in {0, 8, 16, 32} /\ Options.ExtendFlag \in BOOLEAN
<1>1. CliP!GrammarInv /\ OrderInv
  BY Zenon DEF ProgramInv
<1>2. cliPc = "done" /\ Result \notin {"PciParseHelp", "PciParseError"}
  BY <1>1, Zenon DEF OrderInv
<1>3. CliP!AcceptsUsage /\ CliP!OptionsAsSaid /\ CliP!TypeOK
  BY <1>1, ParserInvariant, Zenon DEF CliP!GrammarInv
<1>4. command.status = "success" /\ ~command.help /\ CliP!Understood(command)
      /\ Result = "PciParseOk"
  BY <1>2, <1>3 DEF CliP!AcceptsUsage
<1>5. CliP!Said(command) = Cli!Said(command)
  BY Zenon DEF CliP!Said, Cli!Said, CliP!ZeroOptions, Cli!ZeroOptions, CliP!TreeWord, Cli!TreeWord,
     CliP!AllWord, Cli!AllWord
<1>6. Options = Cli!Said(command)
  BY <1>2, <1>3, <1>4, <1>5, Zenon DEF CliP!OptionsAsSaid
<1>7. Options.ReadType \in {0, 8, 16, 32} /\ Options.ExtendFlag \in BOOLEAN
  BY <1>3 DEF CliP!TypeOK, CliP!PCI_CLI_OPTIONS
<1> QED BY <1>4, <1>6, <1>7, ParserProperties, Zenon DEF Valid

LEMMA TableShown == ASSUME ProgramInv PROVE Table!View \in {<<>>, Table!Announced}
<1>1. TableP!IInv
  BY Zenon DEF ProgramInv
<1>2. TableP!NeverPartial
  <2>1. Firmwares \subseteq Seq(TableP!ConfigurationTables)
    BY BuilderProperties, FirmwareAssumption, Zenon
  <2>2. WordModulus \in Nat \ {0} /\ {} \subseteq TableP!Requests
    BY FirmwareAssumption
  <2> QED BY <1>1, <2>1, <2>2, TableP!InvNeverPartial
<1> QED BY <1>2, BuilderProperties, Zenon DEF TableP!NeverPartial

LEMMA SingleAsked ==
  ASSUME ListOK, DeviceShown, treePc = "free", NEW o, o = Options
  PROVE  ShowsSingle(o)
<1>1. PICK loc : loc = SingleLoc
  OBVIOUS
<1>2. /\ Len(shown) = 1 /\ shown[1].Loc = loc /\ shown[1].IsPcie = IsPcieDevice(loc)
  BY <1>1 DEF DeviceShown, SingleShown, Shown
<1>3. \A f \in {"Seg", "Bus", "Dev", "Fun"} : loc[f] = o[f]
  BY <1>1 DEF SingleLoc
<1>4. IsPcieDevice(loc) => loc \in DOMAIN hw
  BY Zenon DEF IsPcieDevice
<1>5. ASSUME NEW n \in Tree!Ids, heap[n].Loc = loc
      PROVE  heap[n].IsPcie = IsPcieDevice(loc)
  <2>1. TreeP!Answers(loc) /\ heap[n].IsPcie = hw[loc].pcie
    BY <1>5, Zenon DEF ListOK, TreeP!Described, Tree!Ids, TreeP!Ids
  <2>2. loc \in DOMAIN hw /\ HasRoute(Table!View, loc.Seg, 0)
    BY <2>1, Zenon DEF TreeP!Answers, TreeP!HasRoute, HasRoute, TreeP!IsLegacy, IsLegacy,
       TreeP!LegacySize, LegacySize, TreeP!FindEcamBaseForSegment, FindEcamBaseForSegment,
       TreeP!EntriesFor, EntriesFor
  <2>3. hw[loc].pcie \in BOOLEAN
    <3>1. TreeP!PlatformTypeOK
      BY Zenon DEF ListOK, TreeP!WalkInv, TreeP!OrderInv, TreeP!HolderInv, TreeP!ShapeInv,
         TreeP!TypeInv, TreeP!TypeOK
    <3>2. hw[loc] \in TreeP!Headers
      BY <2>2, <3>1, Zenon DEF TreeP!PlatformTypeOK
    <3> QED BY <3>2 DEF TreeP!Headers
  <2>4. IsPcieDevice(loc) <=> hw[loc].pcie
    BY <2>2, Zenon DEF IsPcieDevice
  <2>5. IsPcieDevice(loc) \in BOOLEAN
    BY DEF IsPcieDevice
  <2> QED BY <2>1, <2>3, <2>4, <2>5
<1> QED BY <1>2, <1>3, <1>4, <1>5, Zenon DEF ShowsSingle

LEMMA Counting ==
  ASSUME NEW n \in Nat, NEW f, f = [i \in 1 .. n |-> f[i]],
         \A i, j \in 1 .. n : i < j => f[i] # f[j],
         NEW S, S = {f[i] : i \in 1 .. n}
  PROVE  Cardinality(S) = n
<1>1. f \in [1 .. n -> S]
  OBVIOUS
<1>2. \A i, j \in 1 .. n : f[i] = f[j] => i = j
  <2>1. \A i, j \in 1 .. n : i < j \/ j < i \/ i = j
    OBVIOUS
  <2> QED BY <2>1
<1>3. f \in Bijection(1 .. n, S)
  BY <1>1, <1>2 DEF Bijection, Injection, Surjection, IsInjective
<1>4. ExistsBijection(1 .. n, S)
  BY <1>3, Zenon DEF ExistsBijection
<1> QED BY <1>4, FS_CountingElements, Zenon

LEMMA MachineAsked ==
  ASSUME ListOK, FunctionsShown, treePc = "free", Inventory!Numbered,
         NEW all \in BOOLEAN, all <=> Options.Mode = "PciCmdAll"
  PROVE  ShowsMachine(all)
<1>0. PICK r : r = Len(report)
  OBVIOUS
<1>1. ~TreeP!Scanning /\ Len(report) = Len(heap) /\ TreeP!ListInv
  <2>1. TreeP!ListInv
    BY NumberedMachine, Zenon DEF ListOK
  <2> QED BY <2>1 DEF TreeP!Scanning, FunctionsShown
<1>2. TreeP!Complete
  BY <1>1, TreeP!WholeListing, PlatformsFit
<1>3. /\ Inventory!Listed = {heap[i].Loc : i \in 1 .. r} /\ r \in Nat
      /\ \A i, j \in 1 .. r :
           i < j => /\ heap[i].Loc # heap[j].Loc
                    /\ Inventory!Precedes(Inventory!Path(heap[i].Loc), Inventory!Path(heap[j].Loc))
      /\ \A i \in 1 .. r :
           /\ report[i].Node = i
           /\ heap[i].IsPcie = Inventory!Entry(heap[i].Loc).IsPcie
           /\ heap[i].IsBridge = Inventory!Entry(heap[i].Loc).IsBridge
           /\ report[i].Depth = Inventory!Entry(heap[i].Loc).Depth
  <2>2. \A i \in 1 .. r : /\ Inventory!Path(heap[i].Loc) = TreeP!Inventory!Path(heap[i].Loc)
                           /\ Inventory!Entry(heap[i].Loc) = TreeP!Inventory!Entry(heap[i].Loc)
    BY <1>1, InventoryCopy, Zenon
  <2>3. Inventory!Listed = {heap[i].Loc : i \in 1 .. r} /\ r \in Nat
    BY <1>0, <1>1, <1>2, InventoryCopy, Zenon DEF TreeP!Complete
  <2>4. ASSUME NEW i \in 1 .. r, NEW j \in 1 .. r, i < j
        PROVE  /\ heap[i].Loc # heap[j].Loc
               /\ Inventory!Precedes(Inventory!Path(heap[i].Loc), Inventory!Path(heap[j].Loc))
    <3>1. /\ heap[i].Loc # heap[j].Loc
          /\ TreeP!Inventory!Precedes(TreeP!Inventory!Path(heap[i].Loc),
                                      TreeP!Inventory!Path(heap[j].Loc))
      BY <1>0, <1>2, <2>4, Zenon DEF TreeP!Complete
    <3>2. TreeP!Inventory!Precedes(Inventory!Path(heap[i].Loc), Inventory!Path(heap[j].Loc))
      BY <2>2, <3>1, Zenon
    <3> QED BY <3>1, <3>2, Zenon DEF TreeP!Inventory!Precedes, Inventory!Precedes
  <2>5. ASSUME NEW i \in 1 .. r
        PROVE  /\ report[i].Node = i
               /\ heap[i].IsPcie = Inventory!Entry(heap[i].Loc).IsPcie
               /\ heap[i].IsBridge = Inventory!Entry(heap[i].Loc).IsBridge
               /\ report[i].Depth = Inventory!Entry(heap[i].Loc).Depth
    <3>1. /\ report[i].Node = i
          /\ heap[i].IsPcie = TreeP!Inventory!Entry(heap[i].Loc).IsPcie
          /\ heap[i].IsBridge = TreeP!Inventory!Entry(heap[i].Loc).IsBridge
          /\ report[i].Depth = TreeP!Inventory!Entry(heap[i].Loc).Depth
      BY <1>0, <1>2, Zenon DEF TreeP!Complete
    <3> QED BY <2>2, <3>1, Zenon
  <2> QED BY <2>3, <2>4, <2>5, Zenon
<1>4. Len(shown) = r /\ DOMAIN shown = 1 .. r
  <2>1. shown = [i \in 1 .. r |-> shown[i]]
    BY <1>0, Zenon DEF FunctionsShown, HasLength
  <2> QED BY <1>3, <2>1
<1>5. ASSUME NEW i \in 1 .. r
      PROVE  /\ shown[i].Loc = heap[i].Loc /\ shown[i].IsPcie = heap[i].IsPcie
             /\ shown[i].IndentNum = IF all THEN 0 ELSE report[i].Depth
             /\ all => shown[i].IsBridge = heap[i].IsBridge
  <2>1. shown[i] = FunctionShown(i) /\ report[i].Node = i
    BY <1>0, <1>3, Zenon DEF FunctionsShown
  <2>2. CASE all
    <3>1. shown[i] = VisitAllDevice(heap[i])
      BY <2>1, <2>2, Zenon DEF FunctionShown
    <3> QED BY <2>2, <3>1 DEF VisitAllDevice, Shown
  <2>3. CASE ~all
    <3>1. shown[i] = VisitTreeDevice(heap[i], report[i].Depth)
      BY <2>1, <2>3, Zenon DEF FunctionShown
    <3>2. /\ shown[i].Loc = heap[i].Loc /\ shown[i].IsPcie = heap[i].IsPcie
          /\ shown[i].IndentNum = report[i].Depth
      BY <3>1 DEF VisitTreeDevice, Shown
    <3> QED BY <2>3, <3>2, Zenon
  <2> QED BY <2>2, <2>3
<1>6. Len(shown) = Cardinality(Inventory!Listed)
  <2>1. PICK f : f = [i \in 1 .. r |-> heap[i].Loc]
    OBVIOUS
  <2>2. \A i \in 1 .. r : f[i] = heap[i].Loc
    BY <2>1
  <2>3. f = [i \in 1 .. r |-> f[i]]
    BY <2>1
  <2>4. ASSUME NEW i \in 1 .. r, NEW j \in 1 .. r, i < j
        PROVE  f[i] # f[j]
    <3>1. heap[i].Loc # heap[j].Loc
      BY <1>3, <2>4, Zenon
    <3> QED BY <2>2, <3>1, Zenon
  <2>5. PICK S : S = Inventory!Listed
    OBVIOUS
  <2>6. S = {f[i] : i \in 1 .. r}
    <3>1. S = {heap[i].Loc : i \in 1 .. r}
      BY <1>3, <2>5, Zenon
    <3> QED BY <2>1, <3>1
  <2>7. r \in Nat
    BY <1>3
  <2>8. Cardinality(S) = r
    BY <2>3, <2>4, <2>6, <2>7, Counting
  <2> QED BY <1>4, <2>5, <2>8, Zenon
<1>7. ASSUME NEW i \in DOMAIN shown, NEW j \in DOMAIN shown, i < j
      PROVE  Inventory!Precedes(Inventory!Path(shown[i].Loc), Inventory!Path(shown[j].Loc))
  BY <1>3, <1>4, <1>5, <1>7, Zenon
<1>8. ASSUME NEW i \in DOMAIN shown
      PROVE  /\ shown[i].Loc \in Inventory!Listed
             /\ shown[i].IsPcie = Inventory!Entry(shown[i].Loc).IsPcie
             /\ shown[i].IndentNum = IF all THEN 0 ELSE Inventory!Entry(shown[i].Loc).Depth
             /\ all => shown[i].IsBridge = Inventory!Entry(shown[i].Loc).IsBridge
  <2>1. i \in 1 .. r
    BY <1>4, <1>8, Zenon
  <2>2. PICK l, e : l = heap[i].Loc /\ e = Inventory!Entry(l)
    OBVIOUS
  <2>3. /\ shown[i].Loc = l /\ shown[i].IsPcie = heap[i].IsPcie
        /\ shown[i].IndentNum = IF all THEN 0 ELSE report[i].Depth
        /\ all => shown[i].IsBridge = heap[i].IsBridge
    BY <1>5, <2>1, <2>2, Zenon
  <2>4. heap[i].IsPcie = e.IsPcie /\ heap[i].IsBridge = e.IsBridge /\ report[i].Depth = e.Depth
    BY <1>3, <2>1, <2>2, Zenon
  <2>5. l \in Inventory!Listed
    <3>1. l \in {heap[k].Loc : k \in 1 .. r}
      BY <2>1, <2>2
    <3> QED BY <1>3, <3>1, Zenon
  <2>6. e = Inventory!Entry(shown[i].Loc)
    BY <2>2, <2>3, Zenon
  <2>7. shown[i].IndentNum = IF all THEN 0 ELSE e.Depth
    BY <2>3, <2>4, Zenon
  <2> QED BY <2>3, <2>4, <2>5, <2>6, <2>7, Zenon
<1> QED BY <1>6, <1>7, <1>8, Zenon DEF ShowsMachine

LEMMA Asked ==
  ASSUME ProgramInv, ShowInv
  PROVE  ShowsWhatIsAsked
<1>1. PICK o : o = Cli!Said(command)
  OBVIOUS
<1>2. ASSUME step = "list", treePc = "free"
      PROVE  /\ Valid /\ o.Mode # "PciCmdNone"
             /\ \A i \in DOMAIN shown :
                  /\ shown[i].Table = Table!View
                  /\ shown[i].Table \in {<<>>, Table!Announced}
                  /\ shown[i].ReadType = IF o.Mode = "PciCmdTree" THEN 0 ELSE o.ReadType
                  /\ shown[i].ExtendSpace = (o.Mode # "PciCmdTree" /\ o.ExtendFlag)
             /\ IF o.Mode = "PciCmdSingle" THEN ShowsSingle(o)
                ELSE Inventory!Numbered => ShowsMachine(o.Mode = "PciCmdAll")
  <2>1. Valid /\ o = Options /\ o.ExtendFlag \in BOOLEAN
    BY <1>1, <1>2, Accepted, Zenon
  <2>2. o.Mode # "PciCmdNone" /\ ListOK /\ Table!View \in {<<>>, Table!Announced}
    BY <1>2, <2>1, TableShown DEF ShowInv
  <2>3. CASE DeviceShown
    <3>1. o.Mode = "PciCmdSingle" /\ shown = <<SingleShown>>
      BY <2>1, <2>3 DEF DeviceShown
    <3>2. /\ DOMAIN shown = {1} /\ shown[1].Table = Table!View
          /\ shown[1].ReadType = o.ReadType /\ shown[1].ExtendSpace = o.ExtendFlag
      BY <2>1, <3>1 DEF SingleShown, Shown
    <3>3. ShowsSingle(o)
      BY <1>2, <2>1, <2>2, <2>3, SingleAsked
    <3> QED BY <2>1, <2>2, <3>1, <3>2, <3>3
  <2>4. CASE FunctionsShown
    <3>1. o.Mode \in {"PciCmdAll", "PciCmdTree"}
      BY <2>1, <2>4 DEF FunctionsShown, Walks
    <3>2. ASSUME NEW i \in DOMAIN shown
          PROVE  /\ shown[i].Table = Table!View
                 /\ shown[i].ReadType = IF o.Mode = "PciCmdTree" THEN 0 ELSE o.ReadType
                 /\ shown[i].ExtendSpace = (o.Mode # "PciCmdTree" /\ o.ExtendFlag)
      <4>1. shown[i] = FunctionShown(i)
        <5>1. DOMAIN shown = 1 .. Len(report)
          <6>1. shown = [k \in 1 .. Len(report) |-> shown[k]]
            BY <2>4, Zenon DEF FunctionsShown, HasLength
          <6> QED BY <6>1
        <5> QED BY <2>4, <5>1, Zenon DEF FunctionsShown
      <4>2. CASE o.Mode = "PciCmdAll"
        <5>1. shown[i] = VisitAllDevice(heap[report[i].Node])
          BY <2>1, <4>1, <4>2 DEF FunctionShown
        <5> QED BY <2>1, <4>2, <5>1 DEF VisitAllDevice, Shown
      <4>3. CASE o.Mode = "PciCmdTree"
        <5>1. shown[i] = VisitTreeDevice(heap[report[i].Node], report[i].Depth)
          BY <2>1, <4>1, <4>3 DEF FunctionShown
        <5>2. /\ shown[i].Table = Table!View /\ shown[i].ReadType = 0
              /\ shown[i].ExtendSpace = FALSE
          BY <5>1 DEF VisitTreeDevice, Shown
        <5>3. (o.Mode # "PciCmdTree" /\ o.ExtendFlag) = FALSE
          BY <4>3, Zenon
        <5> QED BY <4>3, <5>2, <5>3, Zenon
      <4> QED BY <3>1, <4>2, <4>3
    <3>3. Inventory!Numbered => ShowsMachine(o.Mode = "PciCmdAll")
      BY <1>2, <2>1, <2>2, <2>4, MachineAsked
    <3> QED BY <2>1, <2>2, <3>1, <3>2, <3>3
  <2> QED BY <1>2, <2>2, <2>3, <2>4 DEF ListOK, ShownOK, NotYetShown
<1>3. ASSUME step = "returned", Valid => o.Mode = "PciCmdNone" PROVE shown = <<>>
  <2>1. CASE segPc = "rsdp"
    BY <1>3, <2>1 DEF ShowInv
  <2>2. CASE segPc # "rsdp"
    <3>1. Valid /\ Options = o
      BY <1>1, <2>2, Accepted, Zenon
    <3>2. Options.Mode # "PciCmdNone"
      BY <2>2 DEF ShowInv
    <3> QED BY <1>3, <3>1, <3>2
  <2> QED BY <2>1, <2>2
<1> QED BY <1>1, <1>2, <1>3, Zenon DEF ShowsWhatIsAsked

(* End to end, on every machine, under every firmware and for every command
   line: nothing is shown for a command line that is not valid or asks for
   nothing; the device asked for is shown once, in the width asked for; and on
   a machine whose firmware has numbered the buses "all" and "pcitree" show
   exactly its functions, each once, in depth-first order, through the table
   the firmware announces or without one. *)
THEOREM ShowsWhatIsAskedCorrect ==
  ASSUME DepthModulus > LastBus
  PROVE  Spec => []ShowsWhatIsAsked
<1>1. ProgramInv /\ ShowInv => ShowsWhatIsAsked
  BY Asked
<1>2. Init => ProgramInv /\ ShowInv
  BY InitProgram, InitShow
<1>3. ProgramInv /\ ShowInv /\ [Next]_vars => (ProgramInv /\ ShowInv)'
  BY NextProgram, NextShow
<1> QED BY <1>1, <1>2, <1>3, PTL DEF Spec
=============================================================================

------------------------------ MODULE PciUtil ------------------------------
(***************************************************************************)
(* PciUtilEntryPoint (PciUtil.c): the whole program.  ParseArguments,      *)
(* BuildSegmentTable and the operations on the device list are those of    *)
(* CliParser, SegmentTable and PciTree, run one after the other; the scan  *)
(* and the walk use the segment table that was built.  What is shown of a  *)
(* function is recorded with the arguments of the calls that show it;      *)
(* RegisterDump and PciIdNames say how it looks.                           *)
(***************************************************************************)
EXTENDS PciConfigAccess, FiniteSets

CONSTANTS
  MaxUint64, CommandLines,                    \* as in CliParser
  WordModulus, Firmwares,                     \* as in SegmentTable
  LastBus, LastDev, LastFun, DepthModulus, PoolSize,  \* as in PciTree
  Machines                                    \* the hardware: functions at locations

VARIABLES
  step,    \* what the entry point is doing
  shown,   \* history: the functions shown
  command, cliPc, Options, Cursor, Result, packages,
  configuration, segPc, segIndex, rsdp, mcfg, entryCount, Segments, Count, arrayHeld,
  hw, heap, freed, root, treePc, treeIndex, segRoot, tail, scans, walks, frees, report, lost

cliVars  == <<command, cliPc, Options, Cursor, Result, packages>>
segVars  == <<configuration, segPc, segIndex, rsdp, mcfg, entryCount, Segments, Count, arrayHeld>>
treeVars == <<hw, heap, freed, root, treePc, treeIndex, segRoot, tail, scans, walks, frees,
              report, lost>>
vars == <<step, shown, cliVars, segVars, treeVars>>

Cli == INSTANCE CliParser WITH pc <- cliPc, held <- packages

Table == INSTANCE SegmentTable WITH
           Reads <- {}, pc <- segPc, index <- segIndex, held <- arrayHeld

Tree == INSTANCE PciTree WITH
          Platforms <- {[hw |-> m, table |-> <<>>] : m \in Machines},
          table <- Table!View, pc <- treePc, index <- treeIndex

ASSUME CommandAssumption ==
  /\ MaxUint64 \in Nat /\ MaxUint64 >= Cli!MAX_UINT16
  /\ CommandLines \subseteq Cli!CommandLine

(* The ranges of a segment are of buses that exist. *)
ASSUME FirmwareAssumption ==
  /\ WordModulus \in Nat \ {0}
  /\ Firmwares \subseteq Seq(Table!ConfigurationTables)
  /\ \A c \in Firmwares : \A i \in DOMAIN c : \A j \in DOMAIN c[i].xsdt.tables :
       c[i].xsdt.tables[j].entries \in Seq(Tree!SegmentInfos)

ASSUME MachineAssumption ==
  /\ LastBus \in Nat /\ LastDev \in Nat /\ LastFun \in Nat
  /\ DepthModulus \in Nat \ {0} /\ PoolSize \in Nat
  /\ \A m \in Machines : DOMAIN m \subseteq Tree!Locations /\ m \in [DOMAIN m -> Tree!Headers]

Init ==
  /\ step = "parse" /\ shown = <<>>
  /\ Cli!Init /\ Table!Init /\ Tree!Init

-----------------------------------------------------------------------------
ParseArguments ==
  /\ step = "parse"
  /\ Cli!Next
  /\ UNCHANGED <<step, shown, segVars, treeVars>>

(* Variant: only help ends the program. *)
ReturnsAtOnceOnHelp == Result = "PciParseHelp" \/ Options.Mode = "PciCmdNone"
ReturnsAtOnce ==
  Result \in {"PciParseHelp", "PciParseError"} \/ Options.Mode = "PciCmdNone"

ReturnAtOnce ==
  /\ step = "parse" /\ cliPc = "done" /\ ReturnsAtOnce
  /\ step' = "returned"
  /\ UNCHANGED <<shown, cliVars, segVars, treeVars>>

BeginBuild ==
  /\ step = "parse" /\ cliPc = "done" /\ ~ReturnsAtOnce
  /\ step' = "build"
  /\ UNCHANGED <<shown, cliVars, segVars, treeVars>>

BuildSegmentTable ==
  /\ step = "build" /\ segPc # "reading"
  /\ Table!Next
  /\ UNCHANGED <<step, shown, cliVars, treeVars>>

(* BuildSegmentTable has returned.  Variant: the scan comes before it. *)
BuiltAtOnce == TRUE
Built == segPc = "reading"

BeginScan ==
  /\ step = "build" /\ Built
  /\ step' = "list"
  /\ UNCHANGED <<shown, cliVars, segVars, treeVars>>

ScanAllSegments ==
  /\ step = "list"
  /\ UNCHANGED <<step, shown, cliVars, segVars>>
  /\ Tree!Scan

-----------------------------------------------------------------------------
(* The calls that show a function: DisplayDeviceName, and, unless ReadType is
   0, DumpDeviceRegisters and DumpBar; all of them read through the table. *)
Shown(loc, indent, pcie, readType, extend, bridge) ==
  [Loc |-> loc, IndentNum |-> indent, IsPcie |-> pcie, ReadType |-> readType,
   ExtendSpace |-> extend, IsBridge |-> bridge, Table |-> Table!View]

(* The single device, whether or not it is there.  IsPcieDevice is asked anew;
   without a function or a route it reads all ones. *)
IsPcieDevice(loc) ==
  loc \in DOMAIN hw /\ HasRoute(Table!View, loc.Seg, 0) /\ hw[loc].pcie

ShowSingle ==
  /\ step = "list" /\ Options.Mode = "PciCmdSingle"
  /\ LET loc == [Seg |-> Options.Seg, Bus |-> Options.Bus, Dev |-> Options.Dev,
                 Fun |-> Options.Fun]
     IN shown' = <<Shown(loc, 0, IsPcieDevice(loc), Options.ReadType,
                         Options.ExtendFlag, FALSE)>>
  /\ UNCHANGED <<step, cliVars, segVars>>
  /\ Tree!SkipWalk

(* Variant: the single device is not told from the others. *)
WalksAlways == TRUE
Walks == Options.Mode \in {"PciCmdAll", "PciCmdTree"}

BeginWalk ==
  /\ step = "list" /\ Walks
  /\ UNCHANGED <<step, shown, cliVars, segVars>>
  /\ Tree!BeginWalk

VisitAllDevice(node) ==
  Shown(node.Loc, 0, node.IsPcie, Options.ReadType, Options.ExtendFlag, node.IsBridge)

VisitTreeDevice(node, Depth) == Shown(node.Loc, Depth, node.IsPcie, 0, FALSE, FALSE)

Visit ==
  /\ step = "list"
  /\ UNCHANGED <<step, cliVars, segVars>>
  /\ Tree!Visit
  /\ LET call == report'[Len(report')]
     IN shown' = Append(shown,
                   IF Options.Mode = "PciCmdAll" THEN VisitAllDevice(heap[call.Node])
                   ELSE VisitTreeDevice(heap[call.Node], call.Depth))

EndWalk ==
  /\ step = "list"
  /\ UNCHANGED <<step, shown, cliVars, segVars>>
  /\ Tree!ReturnFromWalk

FreeDeviceList ==
  /\ step = "list"
  /\ UNCHANGED <<step, shown, cliVars, segVars>>
  /\ Tree!Free

(* Variant: the program returns without it. *)
FreeSegmentTableForgotten ==
  /\ step = "list" /\ treePc = "done"
  /\ step' = "returned"
  /\ UNCHANGED <<shown, cliVars, segVars, treeVars>>

FreeSegmentTable ==
  /\ step = "list" /\ treePc = "done"
  /\ Table!FreeSegmentTable
  /\ step' = "returned"
  /\ UNCHANGED <<shown, cliVars, treeVars>>

Next ==
  \/ ParseArguments \/ ReturnAtOnce \/ BeginBuild \/ BuildSegmentTable \/ BeginScan
  \/ ScanAllSegments \/ ShowSingle \/ BeginWalk \/ Visit \/ EndWalk
  \/ FreeDeviceList \/ FreeSegmentTable

Spec == Init /\ [][Next]_vars
(* The processor goes on executing the program. *)
FairSpec == Spec /\ WF_vars(Next)

-----------------------------------------------------------------------------
(* Every part keeps its types, and none runs before the one it needs is done:
   no table is searched without a valid command line, no bus scanned without a
   whole table, no table freed while there is a list. *)
TypeOK ==
  /\ step \in {"parse", "build", "list", "returned"}
  /\ Cli!TypeOK /\ Table!TypeOK
  /\ step # "returned" => Tree!TypeOK
  /\ segPc # "rsdp" => Cli!Understood(command)
  /\ heap # <<>> => segPc \in {"reading", "done"}
  /\ segPc = "done" => freed = Tree!Ids

(* The functions of the machine, as PciInventory finds them with the table. *)
Inventory ==
  INSTANCE PciInventory WITH
    Platforms <- {}, table <- Table!View, listing <- <<>>, phase <- "closed"

(* What is shown once the showing is over: the device asked for, read with the
   width asked for; or each function of the machine once, in depth-first order,
   in full for "all" and as an indented line for "pcitree". *)
Valid == command.status = "success" /\ ~command.help /\ Cli!Understood(command)

ShowsMachine(all) ==
  /\ Len(shown) = Cardinality(Inventory!Listed)
  /\ \A i, j \in DOMAIN shown :
       i < j => Inventory!Precedes(Inventory!Path(shown[i].Loc), Inventory!Path(shown[j].Loc))
  /\ \A i \in DOMAIN shown :
       LET l == shown[i].Loc
           e == Inventory!Entry(l)
       IN /\ l \in Inventory!Listed
          /\ shown[i].IsPcie = e.IsPcie
          /\ shown[i].IndentNum = IF all THEN 0 ELSE e.Depth
          /\ all => shown[i].IsBridge = e.IsBridge

ShowsSingle(o) ==
  /\ Len(shown) = 1
  /\ \A f \in {"Seg", "Bus", "Dev", "Fun"} : shown[1].Loc[f] = o[f]
  /\ shown[1].IsPcie => shown[1].Loc \in DOMAIN hw
  /\ \A n \in Tree!Ids : heap[n].Loc = shown[1].Loc => heap[n].IsPcie = shown[1].IsPcie

(* End to end, from the command line to what is shown: nothing at all for a
   command line that is not understood or asks for nothing, although a failed parse
   leaves options half filled in; otherwise exactly the functions asked for,
   read in the width asked for and through the table the firmware announces. *)
ShowsWhatIsAsked ==
  LET o == Cli!Said(command)
  IN /\ step = "list" /\ treePc = "free" =>
          /\ Valid /\ o.Mode # "PciCmdNone"
          /\ \A i \in DOMAIN shown :
               /\ shown[i].Table = Table!View
               /\ shown[i].Table \in {<<>>, Table!Announced}
               /\ shown[i].ReadType = IF o.Mode = "PciCmdTree" THEN 0 ELSE o.ReadType
               /\ shown[i].ExtendSpace = (o.Mode # "PciCmdTree" /\ o.ExtendFlag)
          /\ IF o.Mode = "PciCmdSingle" THEN ShowsSingle(o)
             ELSE Inventory!Numbered => ShowsMachine(o.Mode = "PciCmdAll")
     /\ step = "returned" /\ (Valid => o.Mode = "PciCmdNone") => shown = <<>>

(* Whatever way the program returns, the package, the table and every node are
   back in the pool, and no pointer to the array or the list is left. *)
NothingHeld ==
  step = "returned" =>
    packages = {} /\ ~arrayHeld /\ Table!View = <<>> /\ freed = Tree!Ids /\ root = Tree!NULL

(* The program returns. *)
Returns == <>(step = "returned")
=============================================================================

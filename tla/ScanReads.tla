----------------------------- MODULE ScanReads -----------------------------
(***************************************************************************)
(* The scan of PciTree.c on a machine that loses devices while it runs     *)
(* (hot removal, a card that stops answering).  PciTree takes what the     *)
(* scan reads of a function as one answer; here each register read of      *)
(* ScanPciBus is a step of its own, and between any two of them a device   *)
(* may go.  Segments, walk and release are those of PciTree.               *)
(***************************************************************************)
EXTENDS PciTree

VARIABLES
  gone,   \* the functions that have ceased to answer
  probe   \* locals of the running ScanPciBus: what it has read of its function

scanVars == <<vars, gone, probe>>

Stages == {"vendor", "multi", "bridge", "pcie", "create", "secondary"}
Unread == [stage |-> "vendor", IsBridgeFlag |-> FALSE, IsPcie |-> FALSE]

ReadsInit == Init /\ gone = {} /\ probe = Unread

(* What the registers of a function read now: of one that is gone, all ones.
   IsPcieDevice answers FALSE on all ones, also if the function goes while it
   follows the list, so its answer is that of its last read. *)
AllOnesHeader == [multi |-> TRUE, bridge |-> TRUE, secondary |-> LastBus, pcie |-> FALSE]
Registers(l)  == IF l \in gone THEN AllOnesHeader ELSE hw[l]

Reading(stage) == InFunctionLoop /\ probe.stage = stage
Current        == Here(Top(scans))
Proceed(stage) == probe' = [probe EXCEPT !.stage = stage]
NextFunction(f) == [f EXCEPT !.Fun = @ + 1]

untouched == <<platform, freed, root, pc, locals, walks, frees, report, gone>>

ReadVendor ==
  /\ Reading("vendor")
  /\ IF Answers(Current) /\ Current \notin gone
       THEN Proceed(IF Current.Fun = 0 THEN "multi" ELSE "bridge") /\ UNCHANGED scans
       ELSE scans' = SetTop(scans, NextFunction(Top(scans))) /\ UNCHANGED probe
  /\ UNCHANGED <<heap, lost, untouched>>

LoopBoundNow(f) ==
  IF Registers(Current).multi THEN [f EXCEPT !.MaxFun = LastFun + 1] ELSE f

ReadMulti ==
  /\ Reading("multi")
  /\ scans' = SetTop(scans, LoopBoundNow(Top(scans)))
  /\ Proceed("bridge")
  /\ UNCHANGED <<heap, lost, untouched>>

ReadBridge ==
  /\ Reading("bridge")
  /\ probe' = [probe EXCEPT !.stage = "pcie", !.IsBridgeFlag = Registers(Current).bridge]
  /\ UNCHANGED <<heap, scans, lost, untouched>>

(* Variant: function 0 is asked for the whole device. *)
PcieOfDevice(l) == LET first == [l EXCEPT !.Fun = 0]
                   IN first \in DOMAIN hw /\ Registers(first).pcie
PcieNow(l) == Registers(l).pcie

ReadPcie ==
  /\ Reading("pcie")
  /\ probe' = [probe EXCEPT !.stage = "create", !.IsPcie = PcieNow(Current)]
  /\ UNCHANGED <<heap, scans, lost, untouched>>

(* CreateNode returns NULL.  Variant: the function is tried again. *)
CreateRetries ==
  /\ Reading("create")
  /\ lost' = lost \cup {Current}
  /\ probe' = Unread
  /\ UNCHANGED <<heap, scans, untouched>>

CreateFails ==
  /\ Reading("create")
  /\ scans' = SetTop(scans, NextFunction(Top(scans)))
  /\ lost' = lost \cup {Current}
  /\ probe' = Unread
  /\ UNCHANGED <<heap, untouched>>

(* The node is linked before the bus behind it is known.  Variant: Tail does
   not move on behind a bridge. *)
WithTailLeft(f, new) ==
  IF f.Tail = NULL THEN [f EXCEPT !.Head = new, !.Tail = new]
  ELSE IF probe.IsBridgeFlag THEN f ELSE [f EXCEPT !.Tail = new]
WithTail(f, new) ==
  [f EXCEPT !.Head = IF f.Tail = NULL THEN new ELSE @, !.Tail = new]

Create ==
  /\ Reading("create")
  /\ Len(heap) < PoolSize
  /\ LET f == Top(scans)
         n == Len(heap) + 1
         g == WithTail(f, n)
     IN /\ heap' = [WithNode(f) EXCEPT ![n].IsBridge = probe.IsBridgeFlag,
                                       ![n].IsPcie = probe.IsPcie]
        /\ IF probe.IsBridgeFlag
             THEN Proceed("secondary") /\ scans' = SetTop(scans, g)
             ELSE probe' = Unread /\ scans' = SetTop(scans, NextFunction(g))
  /\ UNCHANGED <<lost, untouched>>

(* Variants: the locals of the new activation are not its own; the activation
   returns when the bridge has gone. *)
BusBehind(f) == ScanFrame(f.Seg, Registers(Current).secondary, Len(heap))

ReadSecondaryKeepsLocals ==
  /\ Reading("secondary")
  /\ LET f == Top(scans)
     IN scans' = Append(SetTop(scans, NextFunction(f)), BusBehind(f))
  /\ UNCHANGED <<probe, heap, lost, untouched>>

ReadSecondaryOrReturn ==
  /\ Reading("secondary")
  /\ LET f == Top(scans)
     IN scans' = IF Current \in gone THEN SetTop(scans, [f EXCEPT !.Dev = LastDev + 1])
                 ELSE Append(SetTop(scans, NextFunction(f)), BusBehind(f))
  /\ probe' = Unread
  /\ UNCHANGED <<heap, lost, untouched>>

ReadSecondary ==
  /\ Reading("secondary")
  /\ LET f == Top(scans)
     IN scans' = Append(SetTop(scans, NextFunction(f)), BusBehind(f))
  /\ probe' = Unread
  /\ UNCHANGED <<heap, lost, untouched>>

(* The rest of the program is that of PciTree. *)
Otherwise ==
  /\ \/ BeginSegment \/ NextDevice \/ ReturnToBridge \/ ReturnToSegment
     \/ SkipEmptySegment \/ LinkSegment \/ LastSiblingStep \/ LastSiblingReturn
     \/ EndSegments \/ Walk \/ Free
  /\ UNCHANGED <<gone, probe>>

(* All functions of a device go at once.  After the scan the tree is not read
   from the machine any more, and nothing here changes. *)
Remove ==
  /\ pc = "scan"
  /\ \E l \in DOMAIN hw \ gone :
       gone' = gone \cup {m \in DOMAIN hw : [m EXCEPT !.Fun = 0] = [l EXCEPT !.Fun = 0]}
  /\ UNCHANGED <<vars, probe>>

Program ==
  \/ ReadVendor \/ ReadMulti \/ ReadBridge \/ ReadPcie
  \/ Create \/ CreateFails \/ ReadSecondary \/ Otherwise

ReadsNext == Program \/ Remove

ReadsSpec == ReadsInit /\ [][ReadsNext]_scanVars
(* The processor goes on executing the program; devices need not go. *)
FairReadsSpec == ReadsSpec /\ WF_scanVars(Program)

-----------------------------------------------------------------------------
(* Every variable keeps its type; a function is in the middle of being read
   only while its activation of ScanPciBus runs. *)
ReadsTypeOK ==
  /\ TypeOK
  /\ gone \subseteq DOMAIN hw
  /\ probe \in [stage: Stages, IsBridgeFlag: BOOLEAN, IsPcie: BOOLEAN]
  /\ probe.stage # "vendor" => InFunctionLoop /\ Current \in DOMAIN hw

(* Also on such a machine one pointer holds each node until the list is freed,
   and then all nodes are: a bridge that goes, or a function that turns into a
   bridge when it goes, leaves the tree a tree. *)
TreeSurvives == SingleHolder /\ LinksForward /\ NothingDangling /\ NothingLeaked

(* A node says of a function that is still there what its registers say: what
   was read of another one never gets into it. *)
FlagsOfFunction ==
  \A n \in Ids : heap[n].Loc \notin gone =>
    /\ heap[n].IsBridge = hw[heap[n].Loc].bridge
    /\ heap[n].IsPcie = hw[heap[n].Loc].pcie

(* What goes hides nothing but itself and what is behind it: the tree has every
   function that is left and that is reached over bridges that are left, each
   of them to a bus above its own (PciInventory). *)
Remaining ==
  INSTANCE PciInventory WITH
    hw <- [l \in DOMAIN hw \ gone |-> hw[l]], listing <- <<>>, phase <- "scan"

RemainingListed == ~Scanning => Remaining!Listed \subseteq {heap[n].Loc : n \in Ids}

(* On a machine that loses nothing, the scan that reads register by register is
   that of PciTree, which takes a function in one step: the step is the one
   that makes the node.  Until then function 0 has not raised MaxFun, and from
   then on the bus behind a bridge is being scanned. *)
SteadySpec == ReadsInit /\ [][Program]_scanVars

AtomicScans ==
  LET f == Top(scans)
  IN CASE probe.stage = "secondary" ->
            Append(SetTop(scans, NextFunction(f)), ScanBehind(f, Len(heap)))
       [] probe.stage \in {"bridge", "pcie", "create"} /\ f.Fun = 0 ->
            SetTop(scans, [f EXCEPT !.MaxFun = 1])
       [] OTHER -> scans

Atomic == INSTANCE PciTree WITH scans <- AtomicScans

ScansAsIfAtomic == Atomic!Spec

(* The program returns, however many devices go. *)
ReturnsAnyway == <>(pc = "done")
=============================================================================

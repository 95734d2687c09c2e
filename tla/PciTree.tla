------------------------------ MODULE PciTree ------------------------------
(***************************************************************************)
(* PciTree.c: the scan of every segment into a tree of NODEs, the walk     *)
(* that reports the tree, and the release of its memory, in the order      *)
(* PciUtilEntryPoint calls them.                                           *)
(*                                                                         *)
(* The program is one thread; what varies is the platform it runs on and   *)
(* which allocations fail.  Each recursive function has a stack of its     *)
(* activations, the running one last.  A NODE pointer is the position of   *)
(* the node in heap, NULL is 0.                                            *)
(***************************************************************************)
EXTENDS PciConfigAccess

CONSTANTS
  LastBus,       \* 0xFF, the largest bus number
  LastDev,       \* 0x1F, the largest device number
  LastFun,       \* 7, the largest function number
  DepthModulus,  \* 256: Depth is a UINT8
  PoolSize,      \* how many nodes the memory pool can hold
  Platforms      \* the machines considered: hardware and segment table

NULL == 0

Locations ==
  [Seg: SegmentNumbers, Bus: 0 .. LastBus, Dev: 0 .. LastDev, Fun: 0 .. LastFun]

(* The registers the scan reads: bit 7 and bit 0 of the header type, the
   secondary bus number, and the answer of IsPcieDevice (CapabilityList). *)
Headers ==
  [multi: BOOLEAN, bridge: BOOLEAN, secondary: 0 .. LastBus, pcie: BOOLEAN]

(* The table BuildSegmentTable made. *)
SegmentInfos ==
  [Seg: SegmentNumbers, EcamBase: Nat, StartBus: 0 .. LastBus, EndBus: 0 .. LastBus]

ASSUME GeometryAssumption ==
  /\ LastBus \in Nat /\ LastDev \in Nat /\ LastFun \in Nat
  /\ DepthModulus \in Nat \ {0}
  /\ PoolSize \in Nat

(* hw is what answers: the locations at which the vendor ID reads neither
   all ones nor zero.  It is any set of functions, bridges pointing anywhere. *)
ASSUME PlatformAssumption ==
  \A p \in Platforms :
    /\ DOMAIN p.hw \subseteq Locations
    /\ p.hw \in [DOMAIN p.hw -> Headers]
    /\ p.table \in Seq(SegmentInfos)

VARIABLES
  hw, table,    \* the platform; neither changes
  heap,         \* the nodes allocated so far, in the order of allocation
  freed,        \* the nodes given back to the pool
  root,         \* List->Root
  pc,           \* where the program stands
  index, segRoot, tail,  \* locals of ScanAllSegments
  scans,        \* activations of ScanPciBus
  walks,        \* activations of PciTreeWalk
  frees,        \* activations of FreeSubtree
  report,       \* the calls of Visitor: node and depth
  lost          \* history: the functions whose node could not be allocated

platform == <<hw, table>>
locals   == <<index, segRoot, tail>>
vars == <<hw, table, heap, freed, root, pc, index, segRoot, tail,
          scans, walks, frees, report, lost>>

-----------------------------------------------------------------------------
Ids == 1 .. Len(heap)

NODE ==
  [Loc: Locations, IsPcie: BOOLEAN, IsBridge: BOOLEAN,
   FirstChild: Nat, NextSibling: Nat]

(* ScanAllSegments starts at each entry of the table; without a table, at
   segment 0, bus 0. *)
Starts ==
  IF table = <<>> THEN <<[Seg |-> 0, StartBus |-> 0]>> ELSE table

(* The vendor ID read finds a function.  All registers of the scan are below
   0x100; a read without a route answers all ones. *)
Answers(l) == l \in DOMAIN hw /\ HasRoute(table, l.Seg, 0)

Top(s)    == s[Len(s)]
Below(s)  == SubSeq(s, 1, Len(s) - 1)
SetTop(s, e) == [s EXCEPT ![Len(s)] = e]

Init ==
  /\ \E p \in Platforms : hw = p.hw /\ table = p.table
  /\ heap = <<>> /\ freed = {} /\ root = NULL
  /\ pc = "segment" /\ index = 1 /\ segRoot = NULL /\ tail = NULL
  /\ scans = <<>> /\ walks = <<>> /\ frees = <<>>
  /\ report = <<>> /\ lost = {}

-----------------------------------------------------------------------------
(* ScanPciBus.  Out is the node whose FirstChild SubtreeHead points to, or
   NULL in the outermost call. *)
ScanFrame(s, b, out) ==
  [Seg |-> s, Bus |-> b, Dev |-> 0, Fun |-> 0, MaxFun |-> 1,
   Head |-> NULL, Tail |-> NULL, Out |-> out]

Here(f) == [Seg |-> f.Seg, Bus |-> f.Bus, Dev |-> f.Dev, Fun |-> f.Fun]

InFunctionLoop ==
  /\ pc = "scan"
  /\ Top(scans).Dev <= LastDev
  /\ Top(scans).Fun < Top(scans).MaxFun

(* The loop bound after function 0 has shown its multi-function bit. *)
LoopBoundOneShort(f) ==   \* variant: the last function is never reached
  IF f.Fun = 0 /\ hw[Here(f)].multi THEN LastFun ELSE f.MaxFun

LoopBoundOneMore(f) ==    \* variant: one function too many
  IF f.Fun = 0 /\ hw[Here(f)].multi THEN LastFun + 2 ELSE f.MaxFun

LoopBound(f) ==
  IF f.Fun = 0 /\ hw[Here(f)].multi THEN LastFun + 1 ELSE f.MaxFun

SkipAbsent ==
  /\ InFunctionLoop
  /\ LET f == Top(scans)
     IN /\ ~Answers(Here(f))
        /\ scans' = SetTop(scans, [f EXCEPT !.Fun = @ + 1])
  /\ UNCHANGED <<platform, heap, freed, root, pc, locals, walks, frees, report, lost>>

(* CreateNode returns NULL: the function, and all behind it, is passed over. *)
NoMemory ==
  /\ InFunctionLoop
  /\ LET f == Top(scans)
     IN /\ Answers(Here(f))
        /\ scans' = SetTop(scans, [f EXCEPT !.Fun = @ + 1, !.MaxFun = LoopBound(f)])
        /\ lost' = lost \cup {Here(f)}
  /\ UNCHANGED <<platform, heap, freed, root, pc, locals, walks, frees, report>>

(* CreateNode, on zeroed memory. *)
CreateNode(l) ==
  [Loc |-> l, IsPcie |-> hw[l].pcie, IsBridge |-> hw[l].bridge,
   FirstChild |-> NULL, NextSibling |-> NULL]

(* The heap with the new node.  Variant: it goes to the front of the chain. *)
WithNodeInFront(f) ==
  Append(heap, [CreateNode(Here(f)) EXCEPT !.NextSibling = f.Head])

WithNode(f) ==
  Append(IF f.Tail = NULL THEN heap
         ELSE [heap EXCEPT ![f.Tail].NextSibling = Len(heap) + 1],
         CreateNode(Here(f)))

(* The call for the bus behind a bridge.  Variant: the primary bus is taken
   for the secondary one. *)
ScanBehindOnPrimary(f, new) == ScanFrame(f.Seg, f.Bus, new)

ScanBehind(f, new) == ScanFrame(f.Seg, hw[Here(f)].secondary, new)

(* The new node goes to the end of the chain; the bus behind a bridge is then
   scanned, this activation resting at the next function meanwhile. *)
AddNode ==
  /\ InFunctionLoop
  /\ Len(heap) < PoolSize
  /\ LET f   == Top(scans)
         new == Len(heap) + 1
         g   == [f EXCEPT !.Fun = @ + 1, !.MaxFun = LoopBound(f), !.Tail = new,
                          !.Head = IF f.Tail = NULL THEN new ELSE @]
     IN /\ Answers(Here(f))
        /\ heap' = WithNode(f)
        /\ scans' = IF hw[Here(f)].bridge
                      THEN Append(SetTop(scans, g), ScanBehind(f, new))
                      ELSE SetTop(scans, g)
  /\ UNCHANGED <<platform, freed, root, pc, locals, walks, frees, report, lost>>

NextDevice ==
  /\ pc = "scan"
  /\ LET f == Top(scans)
     IN /\ f.Dev <= LastDev /\ f.Fun >= f.MaxFun
        /\ scans' = SetTop(scans, [f EXCEPT !.Dev = @ + 1, !.Fun = 0, !.MaxFun = 1])
  /\ UNCHANGED <<platform, heap, freed, root, pc, locals, walks, frees, report, lost>>

(* *SubtreeHead = Head, in a recursive call: the bridge gets its children. *)
ReturnToBridge ==
  /\ pc = "scan" /\ Len(scans) > 1
  /\ LET f == Top(scans)
     IN /\ f.Dev > LastDev
        /\ heap' = [heap EXCEPT ![f.Out].FirstChild = f.Head]
  /\ scans' = Below(scans)
  /\ UNCHANGED <<platform, freed, root, pc, locals, walks, frees, report, lost>>

(* ... and in the outermost one: SegRoot, or List->Root without a table. *)
ReturnToSegment ==
  /\ pc = "scan" /\ Len(scans) = 1
  /\ Top(scans).Dev > LastDev
  /\ IF table = <<>>
       THEN root' = Top(scans).Head /\ pc' = "scanned" /\ UNCHANGED segRoot
       ELSE segRoot' = Top(scans).Head /\ pc' = "link" /\ UNCHANGED root
  /\ scans' = <<>>
  /\ UNCHANGED <<platform, heap, freed, index, tail, walks, frees, report, lost>>

-----------------------------------------------------------------------------
(* ScanAllSegments. *)
BeginSegment ==
  /\ pc = "segment" /\ index <= Len(Starts)
  /\ scans' = <<ScanFrame(Starts[index].Seg, Starts[index].StartBus, NULL)>>
  /\ pc' = "scan"
  /\ UNCHANGED <<platform, heap, freed, root, locals, walks, frees, report, lost>>

(* An empty segment is skipped.  Variant: without going on to the next. *)
SkipEmptySegmentAgain ==
  /\ pc = "link" /\ segRoot = NULL
  /\ pc' = "segment"
  /\ UNCHANGED <<platform, heap, freed, root, locals, scans, walks, frees, report, lost>>

SkipEmptySegment ==
  /\ pc = "link" /\ segRoot = NULL
  /\ index' = index + 1
  /\ pc' = "segment"
  /\ UNCHANGED <<platform, heap, freed, root, segRoot, tail, scans, walks, frees,
                 report, lost>>

(* The segment's chain is hung on the last node of the one before, and
   LastSibling sets out for the end of it.  Variant: it becomes the list. *)
LinkSegmentAsRoot ==
  /\ pc = "link" /\ segRoot # NULL
  /\ root' = segRoot
  /\ tail' = segRoot
  /\ pc' = "last"
  /\ UNCHANGED <<platform, heap, freed, index, segRoot, scans, walks, frees, report, lost>>

LinkSegment ==
  /\ pc = "link" /\ segRoot # NULL
  /\ IF tail = NULL
       THEN root' = segRoot /\ UNCHANGED heap
       ELSE heap' = [heap EXCEPT ![tail].NextSibling = segRoot] /\ UNCHANGED root
  /\ tail' = segRoot
  /\ pc' = "last"
  /\ UNCHANGED <<platform, freed, index, segRoot, scans, walks, frees, report, lost>>

LastSiblingStep ==
  /\ pc = "last" /\ heap[tail].NextSibling # NULL
  /\ tail' = heap[tail].NextSibling
  /\ UNCHANGED <<platform, heap, freed, root, pc, index, segRoot, scans, walks, frees,
                 report, lost>>

LastSiblingReturn ==
  /\ pc = "last" /\ heap[tail].NextSibling = NULL
  /\ index' = index + 1
  /\ pc' = "segment"
  /\ UNCHANGED <<platform, heap, freed, root, segRoot, tail, scans, walks, frees,
                 report, lost>>

EndSegments ==
  /\ pc = "segment" /\ index > Len(Starts)
  /\ pc' = "scanned"
  /\ UNCHANGED <<platform, heap, freed, root, locals, scans, walks, frees, report, lost>>

-----------------------------------------------------------------------------
(* A fresh activation of FreeSubtree: what follows the scan and the walk. *)
FreeFrame(n) == [Node |-> n, NextSib |-> NULL, entered |-> FALSE]

(* PciTreeWalk, for "all" and "pcitree"; a single device is shown without it. *)
BeginWalk ==
  /\ pc = "scanned"
  /\ walks' = <<[Node |-> root, Depth |-> 0]>>
  /\ pc' = "walk"
  /\ UNCHANGED <<platform, heap, freed, root, locals, scans, frees, report, lost>>

SkipWalk ==
  /\ pc = "scanned"
  /\ frees' = <<FreeFrame(root)>>
  /\ pc' = "free"
  /\ UNCHANGED <<platform, heap, freed, root, locals, scans, walks, report, lost>>

(* Visitor is called, then the children are walked, then the siblings.
   Variant: the siblings before the children. *)
VisitSiblingsFirst ==
  /\ pc = "walk" /\ Top(walks).Node # NULL
  /\ LET f    == Top(walks)
         node == heap[f.Node]
         rest == [f EXCEPT !.Node = node.NextSibling]
     IN /\ report' = Append(report, [Node |-> f.Node, Depth |-> f.Depth])
        /\ walks' = IF node.FirstChild = NULL THEN SetTop(walks, rest)
                    ELSE Append(SetTop(walks, [Node  |-> node.FirstChild,
                                               Depth |-> (f.Depth + 1) % DepthModulus]),
                                rest)
  /\ UNCHANGED <<platform, heap, freed, root, pc, locals, scans, frees, lost>>

Visit ==
  /\ pc = "walk" /\ Top(walks).Node # NULL
  /\ LET f    == Top(walks)
         node == heap[f.Node]
         rest == SetTop(walks, [f EXCEPT !.Node = node.NextSibling])
     IN /\ report' = Append(report, [Node |-> f.Node, Depth |-> f.Depth])
        /\ walks' = IF node.FirstChild = NULL THEN rest
                    ELSE Append(rest, [Node  |-> node.FirstChild,
                                       Depth |-> (f.Depth + 1) % DepthModulus])
  /\ UNCHANGED <<platform, heap, freed, root, pc, locals, scans, frees, lost>>

ReturnFromWalk ==
  /\ pc = "walk" /\ Top(walks).Node = NULL
  /\ walks' = Below(walks)
  /\ IF Len(walks) > 1
       THEN UNCHANGED <<pc, frees>>
       ELSE /\ pc' = "free"
            /\ frees' = <<FreeFrame(root)>>
  /\ UNCHANGED <<platform, heap, freed, root, locals, scans, report, lost>>

-----------------------------------------------------------------------------
(* FreeDeviceList.  entered: NextSib is saved and the children are being
   freed or have been.  Variants: the chain of siblings is freed by a call too,
   as well as by the loop; the children are forgotten. *)
FreeEnterSiblingsToo ==
  /\ pc = "free" /\ Top(frees).Node # NULL /\ ~Top(frees).entered
  /\ LET f    == Top(frees)
         node == heap[f.Node]
         g    == [f EXCEPT !.NextSib = node.NextSibling, !.entered = TRUE]
     IN frees' = SetTop(frees, g) \o <<FreeFrame(node.NextSibling), FreeFrame(node.FirstChild)>>
  /\ UNCHANGED <<platform, heap, freed, root, pc, locals, scans, walks, report, lost>>

FreeEnterAlone ==
  /\ pc = "free" /\ Top(frees).Node # NULL /\ ~Top(frees).entered
  /\ LET f == Top(frees)
     IN frees' = SetTop(frees, [f EXCEPT !.NextSib = heap[f.Node].NextSibling, !.entered = TRUE])
  /\ UNCHANGED <<platform, heap, freed, root, pc, locals, scans, walks, report, lost>>

FreeEnter ==
  /\ pc = "free" /\ Top(frees).Node # NULL /\ ~Top(frees).entered
  /\ LET f    == Top(frees)
         node == heap[f.Node]
         g    == [f EXCEPT !.NextSib = node.NextSibling, !.entered = TRUE]
     IN frees' = IF node.FirstChild = NULL THEN SetTop(frees, g)
                 ELSE Append(SetTop(frees, g), FreeFrame(node.FirstChild))
  /\ UNCHANGED <<platform, heap, freed, root, pc, locals, scans, walks, report, lost>>

(* gBS->FreePool(Node). *)
Release ==
  /\ pc = "free" /\ Top(frees).Node # NULL /\ Top(frees).entered
  /\ LET f == Top(frees)
     IN /\ freed' = freed \cup {f.Node}
        /\ frees' = SetTop(frees, [f EXCEPT !.Node = f.NextSib, !.entered = FALSE])
  /\ UNCHANGED <<platform, heap, root, pc, locals, scans, walks, report, lost>>

ReturnFromFree ==
  /\ pc = "free" /\ Top(frees).Node = NULL
  /\ frees' = Below(frees)
  /\ IF Len(frees) > 1
       THEN UNCHANGED <<pc, root>>
       ELSE pc' = "done" /\ root' = NULL
  /\ UNCHANGED <<platform, heap, freed, locals, scans, walks, report, lost>>

-----------------------------------------------------------------------------
Scan ==
  \/ BeginSegment \/ SkipAbsent \/ NoMemory \/ AddNode \/ NextDevice
  \/ ReturnToBridge \/ ReturnToSegment
  \/ SkipEmptySegment \/ LinkSegment \/ LastSiblingStep \/ LastSiblingReturn
  \/ EndSegments

Walk == BeginWalk \/ SkipWalk \/ Visit \/ ReturnFromWalk

Free == FreeEnter \/ Release \/ ReturnFromFree

Next == Scan \/ Walk \/ Free

Spec == Init /\ [][Next]_vars
(* The processor goes on executing the program; whether an allocation
   succeeds is the pool's choice. *)
FairSpec == Spec /\ WF_vars(Next)

-----------------------------------------------------------------------------
Ptr == 0 .. Len(heap)

Scanning == pc \in {"segment", "scan", "link", "last"}

ScanFrames ==
  [Seg: SegmentNumbers, Bus: 0 .. LastBus, Dev: 0 .. LastDev + 1, Fun: 0 .. LastFun + 1,
   MaxFun: {1, LastFun + 1}, Head: Ptr, Tail: Ptr, Out: Ptr]

WalkFrames == [Node: Ptr, Depth: 0 .. DepthModulus - 1]
FreeFrames == [Node: Ptr, NextSib: Ptr, entered: BOOLEAN]

PlatformTypeOK ==
  /\ DOMAIN hw \subseteq Locations /\ hw \in [DOMAIN hw -> Headers]
  /\ table \in Seq(SegmentInfos)

HeapTypeOK ==
  /\ heap \in Seq(NODE) /\ Len(heap) <= PoolSize
  /\ \A n \in Ids : heap[n].FirstChild \in Ptr /\ heap[n].NextSibling \in Ptr
  /\ freed \subseteq Ids
  /\ lost \subseteq DOMAIN hw

ControlTypeOK ==
  /\ root \in Ptr /\ segRoot \in Ptr /\ tail \in Ptr
  /\ pc \in {"segment", "scan", "link", "last", "scanned", "walk", "free", "done"}
  /\ index \in 1 .. Len(Starts) + 1

StackTypeOK ==
  /\ scans \in Seq(ScanFrames)  /\ (scans # <<>> <=> pc = "scan")
  /\ walks \in Seq(WalkFrames)  /\ (walks # <<>> <=> pc = "walk")
  /\ frees \in Seq(FreeFrames)  /\ (frees # <<>> <=> pc = "free")
  /\ report \in Seq([Node: Ids, Depth: 0 .. DepthModulus - 1])

(* Every variable keeps its type: counters stay in the width the loops give
   them, every pointer is NULL or the address of a node, and each recursive
   function has activations exactly while the program is in it. *)
TypeOK == PlatformTypeOK /\ HeapTypeOK /\ ControlTypeOK /\ StackTypeOK

(* Every link leads to a node allocated later.  So no chain of FirstChild and
   NextSibling comes back to where it was, and the recursions and loops over
   the tree end, whatever the bridges said. *)
LinksForward ==
  \A n \in Ids :
    /\ heap[n].FirstChild # NULL => heap[n].FirstChild > n
    /\ heap[n].NextSibling # NULL => heap[n].NextSibling > n

(* The pointers that hold node n: links of nodes, the Head of an activation
   of ScanPciBus, SegRoot before it is linked, and List->Root. *)
Holders(n) ==
  ({"FirstChild"} \X {m \in Ids : heap[m].FirstChild = n})
    \cup ({"NextSibling"} \X {m \in Ids : heap[m].NextSibling = n})
    \cup ({"Head"} \X {k \in 1 .. Len(scans) : scans[k].Head = n})
    \cup ({"SegRoot"} \X {x \in {0} : pc = "link" /\ segRoot = n})
    \cup ({"Root"} \X {x \in {0} : root = n})

(* At every step of the scan, and from it until the list is freed, exactly
   one pointer holds each node: none is lost between two lists, and none is
   on two of them. *)
SingleHolder ==
  pc # "done" => \A n \in Ids : \E h \in Holders(n) : Holders(n) = {h}

(* The walk calls Visitor on the nodes in the order in which the scan found
   them, on each once, and on all of them before it returns. *)
VisitsInOrder ==
  /\ \A i \in DOMAIN report : report[i].Node = i
  /\ pc \in {"free", "done"} /\ report # <<>> => Len(report) = Len(heap)

(* No activation of FreeSubtree holds a node that is already free: it never
   reads one, and never frees one twice. *)
NothingDangling ==
  \A k \in DOMAIN frees : frees[k].Node \notin freed /\ frees[k].NextSib \notin freed

(* When the program returns, every node is back in the pool. *)
NothingLeaked == pc = "done" => freed = Ids /\ root = NULL

(* The recursion of ScanPciBus is no deeper than there are buses, on a
   machine whose bridges lead up. *)
ShallowRecursion == Len(scans) <= LastBus + 1

(* ScanPciBus walks a tree of buses: the scan of a bus is not part of the scan
   of that same bus.  It keeps no record of the buses it is on, and a call
   within one with the same arguments does the same again: only the end of the
   memory or of the stack ends it. *)
NoScanWithinItself ==
  \A j, k \in 1 .. Len(scans) :
    j # k => <<scans[j].Seg, scans[j].Bus>> # <<scans[k].Seg, scans[k].Bus>>

(* The program returns: on a machine whose bridges lead up, however much memory
   there is.  It is not claimed of others, where only the end of the model's
   small memory would bring it about. *)
Returns == <>(pc = "done")

(* The calls of Visitor list what the machine has (PciInventory): each
   function once, in depth-first order, at its depth. *)
Listing ==
  [i \in DOMAIN report |->
     LET node == heap[report[i].Node]
     IN [Loc |-> node.Loc, IsPcie |-> node.IsPcie, IsBridge |-> node.IsBridge,
         Depth |-> report[i].Depth]]

Inventory ==
  INSTANCE PciInventory WITH
    listing <- Listing,
    lost    <- IF Scanning THEN {} ELSE lost,
    phase   <- CASE Scanning                   -> "scan"
                 [] pc \in {"scanned", "walk"} -> "report"
                 [] OTHER                      -> "closed"

ListsInventory == Inventory!Spec

(* Every bridge leads to a bus above its own.  Two bridges may lead to the same
   bus, and ranges of the table may start on buses that are scanned already. *)
BridgesLeadUp == \A l \in Inventory!Bridges : hw[l].secondary > l.Bus
=============================================================================

-------------------------- MODULE ScanReadsProofs --------------------------
(***************************************************************************)
(* Proofs about ScanReads, for every machine and every order in which its  *)
(* devices go.                                                             *)
(*                                                                         *)
(* The rest of the program is that of PciTree, and so are the facts about  *)
(* it: what is new are the seven steps of the function loop.               *)
(***************************************************************************)
EXTENDS ScanReads, PciTreeProofs

(* The running activation stands at a function while it is read.  Before the
   bus behind a bridge is known, the bridge is the node made last. *)
ProbeOK ==
  /\ gone \subseteq DOMAIN hw
  /\ probe \in [stage: Stages, IsBridgeFlag: BOOLEAN, IsPcie: BOOLEAN]
  /\ probe.stage # "vendor" => InFunctionLoop /\ Answers(Current)
  /\ probe.stage = "secondary" =>
       /\ Len(heap) \in Ids /\ Top(scans).Tail = Len(heap)
       /\ heap[Len(heap)].FirstChild = NULL

ReadsInv == FreeInv /\ ProbeOK

LEMMA InitReads == ReadsInit => ReadsInv
PROOF
  <1>. SUFFICES ASSUME ReadsInit PROVE ReadsInv
    OBVIOUS
  <1>1. FreeInv
    BY InitFree DEF ReadsInit
  <1>2. ProbeOK
    BY DEF ReadsInit, ProbeOK, Unread, Stages
  <1>3. QED
    BY <1>1, <1>2 DEF ReadsInv

(* What a step of the function loop finds. *)
LEMMA ReadingTypes ==
  ASSUME ReadsInv, NEW stage, Reading(stage)
  PROVE  /\ TypeInv /\ TypeOK /\ StackTypeOK /\ HeapTypeOK
         /\ pc = "scan" /\ InFunctionLoop /\ probe.stage = stage
         /\ scans \in Seq(ScanFrames) /\ scans # <<>>
         /\ Top(scans) \in ScanFrames
         /\ Top(scans).Fun < Top(scans).MaxFun
         /\ Top(scans).Fun + 1 \in 0 .. LastFun + 1
         /\ freed = {}
PROOF
  <1>1. TypeInv /\ TypeOK /\ StackTypeOK /\ HeapTypeOK
    BY DEF ReadsInv, FreeInv, HolderInv, ShapeInv, TypeInv, TypeOK
  <1>2. pc = "scan" /\ InFunctionLoop /\ probe.stage = stage /\ Top(scans).Fun < Top(scans).MaxFun
    BY DEF Reading, InFunctionLoop
  <1>3. scans \in Seq(ScanFrames) /\ scans # <<>>
    BY <1>1, <1>2 DEF StackTypeOK
  <1>4. Top(scans) \in ScanFrames
    BY <1>3, TopLemma
  <1>5. Top(scans).Fun + 1 \in 0 .. LastFun + 1
    BY <1>2, <1>4, GeometryAssumption DEF ScanFrames
  <1>6. freed = {}
    BY <1>2 DEF ReadsInv, FreeInv, FreeOK
  <1>7. QED
    BY <1>1, <1>2, <1>3, <1>4, <1>5, <1>6

(* The part of the invariant that is PciTree's, after a step of the loop that
   leaves every chain as it is. *)
LEMMA LoopKeeps ==
  ASSUME FreeInv, TypeInv', ChainsStay, freed' = freed
  PROVE  FreeInv'
PROOF
  <1>1. ShapeInv /\ SingleHolder /\ TypeInv /\ FreeOK
    BY DEF FreeInv, HolderInv, ShapeInv
  <1>2. ShapeInv' /\ SingleHolder'
    BY <1>1, LoopShape, LoopHolders DEF ShapeInv
  <1>3. FreeOK'
    BY <1>1 DEF FreeOK, ChainsStay, NothingLeaked
  <1>4. QED
    BY <1>2, <1>3 DEF FreeInv, HolderInv

(* The type of everything but scans, heap and lost, after a step that leaves
   it alone. *)
LEMMA UntouchedTypes ==
  ASSUME TypeInv, UNCHANGED untouched
  PROVE  PlatformTypeOK' /\ (UNCHANGED heap => ControlTypeOK') /\ ControlOK'
PROOF
  <1>1. UNCHANGED <<hw, table, freed, root, pc, index, segRoot, tail, walks, frees, report, gone>>
    BY DEF untouched, platform, locals
  <1>2. Starts' = Starts
    BY <1>1 DEF Starts
  <1>3. QED
    BY <1>1, <1>2 DEF TypeInv, TypeOK, PlatformTypeOK, ControlTypeOK, ControlOK, Ptr

(* A step that replaces the running activation by one with the same chain. *)
LEMMA ReplaceKeeps ==
  ASSUME ReadsInv, NEW stage, Reading(stage), NEW g \in ScanFrames, scans' = SetTop(scans, g),
         g.Head = Top(scans).Head, g.Tail = Top(scans).Tail, g.Out = Top(scans).Out,
         UNCHANGED <<heap, untouched>>, lost' \subseteq DOMAIN hw
  PROVE  FreeInv' /\ Top(scans)' = g
PROOF
  <1>1. /\ TypeInv /\ TypeOK /\ StackTypeOK /\ HeapTypeOK /\ pc = "scan"
        /\ scans \in Seq(ScanFrames) /\ scans # <<>>
    BY ReadingTypes
  <1>2. UNCHANGED <<hw, table, heap, freed, root, pc, index, segRoot, tail, walks, frees, report>>
    BY DEF untouched, platform, locals
  <1>3. StackTypeOK'
    BY <1>1, <1>2, ReplaceScan
  <1>4. HeapTypeOK'
    BY <1>1, <1>2 DEF HeapTypeOK, Ids, Ptr
  <1>5. TypeInv'
    BY <1>1, <1>2, <1>3, <1>4, UntouchedTypes DEF TypeInv, TypeOK
  <1>6. ChainsStay
    BY <1>1, <1>2, SameChain DEF ChainsStay
  <1>7. FreeInv'
    BY <1>2, <1>5, <1>6, LoopKeeps DEF ReadsInv
  <1>8. ReplacesTop(ScanFrames, scans, g, SetTop(scans, g))
    BY <1>1, SetTopReplaces
  <1>9. QED
    BY <1>7, <1>8 DEF ReplacesTop, Top

(* Reading the vendor ID: the function is absent, or its other registers are
   read next. *)
LEMMA ReadVendorKeeps ==
  ASSUME ReadsInv, ReadVendor
  PROVE  ReadsInv'
PROOF
  <1>. DEFINE f == Top(scans)
  <1>1. Reading("vendor") /\ UNCHANGED <<heap, lost, untouched>>
    BY DEF ReadVendor
  <1>2. /\ TypeInv /\ HeapTypeOK /\ pc = "scan" /\ InFunctionLoop /\ probe.stage = "vendor"
        /\ f \in ScanFrames /\ f.Fun + 1 \in 0 .. LastFun + 1
    BY <1>1, ReadingTypes
  <1>3. UNCHANGED <<hw, table, freed, root, pc, index, segRoot, tail, walks, frees, report, gone>>
    BY <1>1 DEF untouched, platform, locals
  <1>4. CASE Answers(Current) /\ Current \notin gone
    <2>1. /\ UNCHANGED scans
          /\ probe' = [probe EXCEPT !.stage = IF Current.Fun = 0 THEN "multi" ELSE "bridge"]
      BY <1>4 DEF ReadVendor, Proceed
    <2>2. UNCHANGED vars
      BY <1>1, <1>3, <2>1 DEF vars
    <2>3. FreeInv'
      BY <2>2, NextFree DEF ReadsInv
    <2>4. InFunctionLoop' /\ Current' = Current /\ Answers(Current)'
      BY <1>2, <1>3, <1>4, <2>1 DEF InFunctionLoop, Current, Answers
    <2>5. ProbeOK'
      BY <1>2, <1>3, <2>1, <2>4 DEF ReadsInv, ProbeOK, Stages
    <2>6. QED
      BY <2>3, <2>5 DEF ReadsInv
  <1>5. CASE ~(Answers(Current) /\ Current \notin gone)
    <2>. DEFINE g == NextFunction(f)
    <2>1. scans' = SetTop(scans, g) /\ UNCHANGED probe
      BY <1>5 DEF ReadVendor
    <2>2. g \in ScanFrames /\ g.Head = f.Head /\ g.Tail = f.Tail /\ g.Out = f.Out
      BY <1>2 DEF NextFunction, ScanFrames
    <2>3. lost' \subseteq DOMAIN hw
      BY <1>1, <1>2 DEF HeapTypeOK
    <2>4. FreeInv'
      BY <1>1, <2>1, <2>2, <2>3, ReplaceKeeps
    <2>5. ProbeOK'
      BY <1>2, <1>3, <2>1 DEF ReadsInv, ProbeOK
    <2>6. QED
      BY <2>4, <2>5 DEF ReadsInv
  <1>6. QED
    BY <1>4, <1>5

(* Reading the header type for the multi-function bit: the bound of the loop
   may go up, and the function is still within it. *)
LEMMA ReadMultiKeeps ==
  ASSUME ReadsInv, ReadMulti
  PROVE  ReadsInv'
PROOF
  <1>. DEFINE f == Top(scans)
              g == LoopBoundNow(f)
  <1>1. /\ Reading("multi") /\ UNCHANGED <<heap, lost, untouched>>
        /\ scans' = SetTop(scans, g) /\ probe' = [probe EXCEPT !.stage = "bridge"]
    BY DEF ReadMulti, Proceed
  <1>2. /\ TypeInv /\ HeapTypeOK /\ pc = "scan" /\ InFunctionLoop /\ probe.stage = "multi"
        /\ f \in ScanFrames /\ f.Fun < f.MaxFun
    BY <1>1, ReadingTypes
  <1>3. UNCHANGED <<hw, table, freed, root, pc, index, segRoot, tail, walks, frees, report, gone>>
    BY <1>1 DEF untouched, platform, locals
  <1>4. /\ g \in ScanFrames /\ g.Head = f.Head /\ g.Tail = f.Tail /\ g.Out = f.Out
        /\ g.Dev = f.Dev /\ g.Fun = f.Fun /\ g.Seg = f.Seg /\ g.Bus = f.Bus
        /\ g.MaxFun \in {f.MaxFun, LastFun + 1}
    <2>. HIDE DEF f
    <2>1. QED
      BY <1>2 DEF LoopBoundNow, ScanFrames
  <1>5. lost' \subseteq DOMAIN hw
    BY <1>1, <1>2 DEF HeapTypeOK
  <1>6. FreeInv' /\ Top(scans)' = g
    BY <1>1, <1>4, <1>5, ReplaceKeeps
  <1>7. Current' = Current
    BY <1>4, <1>6 DEF Current, Here
  <1>8. g.Fun < g.MaxFun
    BY <1>2, <1>4, GeometryAssumption DEF ScanFrames
  <1>9. InFunctionLoop'
    BY <1>2, <1>3, <1>4, <1>6, <1>8 DEF InFunctionLoop
  <1>10. Answers(Current)'
    BY <1>2, <1>3, <1>7 DEF ReadsInv, ProbeOK, Answers
  <1>11. ProbeOK'
    BY <1>1, <1>3, <1>9, <1>10 DEF ReadsInv, ProbeOK, Stages
  <1>12. QED
    BY <1>6, <1>11 DEF ReadsInv

(* Reading the bridge bit and asking for the PCI Express capability change no
   more than what is known of the function. *)
LEMMA ReadFlagsKeeps ==
  ASSUME ReadsInv, ReadBridge \/ ReadPcie
  PROVE  ReadsInv'
PROOF
  <1>1. /\ UNCHANGED <<heap, scans, lost, untouched>>
        /\ probe.stage \in {"bridge", "pcie"} /\ InFunctionLoop
    BY DEF ReadBridge, ReadPcie, Reading
  <1>2. UNCHANGED vars /\ UNCHANGED gone
    BY <1>1 DEF untouched, platform, locals, vars
  <1>3. FreeInv'
    BY <1>2, NextFree DEF ReadsInv
  <1>4. InFunctionLoop' /\ Current' = Current /\ Answers(Current)'
    BY <1>1, <1>2 DEF ReadsInv, ProbeOK, InFunctionLoop, Current, Answers, vars
  <1>5. probe' \in [stage: Stages, IsBridgeFlag: BOOLEAN, IsPcie: BOOLEAN]
        /\ probe'.stage \in {"pcie", "create"}
    <2>1. Answers(Current)
      BY <1>1 DEF ReadsInv, ProbeOK
    <2>2. Registers(Current).bridge \in BOOLEAN /\ Registers(Current).pcie \in BOOLEAN
      <3>1. hw[Current] \in Headers
        BY <2>1 DEF Answers, ReadsInv, FreeInv, HolderInv, ShapeInv, TypeInv, TypeOK, PlatformTypeOK
      <3>2. QED
        BY <3>1 DEF Registers, AllOnesHeader, Headers
    <2>3. probe \in [stage: Stages, IsBridgeFlag: BOOLEAN, IsPcie: BOOLEAN]
      BY DEF ReadsInv, ProbeOK
    <2>4. CASE ReadBridge
      BY <2>2, <2>3, <2>4 DEF ReadBridge, Stages
    <2>5. CASE ReadPcie
      BY <2>2, <2>3, <2>5 DEF ReadPcie, PcieNow, Stages
    <2>6. QED
      BY <2>4, <2>5
  <1>6. ProbeOK'
    BY <1>2, <1>4, <1>5 DEF ReadsInv, ProbeOK, vars
  <1>7. QED
    BY <1>3, <1>6 DEF ReadsInv

(* CreateNode returns NULL. *)
LEMMA CreateFailsKeeps ==
  ASSUME ReadsInv, CreateFails
  PROVE  ReadsInv'
PROOF
  <1>. DEFINE f == Top(scans)
              g == NextFunction(f)
  <1>1. /\ Reading("create") /\ UNCHANGED <<heap, untouched>> /\ lost' = lost \cup {Current}
        /\ scans' = SetTop(scans, g) /\ probe' = Unread
    BY DEF CreateFails
  <1>2. HeapTypeOK /\ probe.stage = "create" /\ f \in ScanFrames /\ f.Fun + 1 \in 0 .. LastFun + 1
    BY <1>1, ReadingTypes
  <1>3. UNCHANGED <<hw, gone>>
    BY <1>1 DEF untouched, platform
  <1>4. g \in ScanFrames /\ g.Head = f.Head /\ g.Tail = f.Tail /\ g.Out = f.Out
    BY <1>2 DEF NextFunction, ScanFrames
  <1>5. lost' \subseteq DOMAIN hw
    BY <1>1, <1>2 DEF HeapTypeOK, ReadsInv, ProbeOK, Answers
  <1>6. FreeInv'
    BY <1>1, <1>4, <1>5, ReplaceKeeps
  <1>7. ProbeOK'
    BY <1>1, <1>3 DEF ReadsInv, ProbeOK, Unread, Stages
  <1>8. QED
    BY <1>6, <1>7 DEF ReadsInv

(* A device goes. *)
LEMMA RemoveKeeps ==
  ASSUME ReadsInv, Remove
  PROVE  ReadsInv'
PROOF
  <1>1. UNCHANGED vars /\ UNCHANGED probe /\ gone' \subseteq DOMAIN hw
    BY DEF Remove, ReadsInv, ProbeOK
  <1>2. FreeInv'
    BY <1>1, NextFree DEF ReadsInv
  <1>3. ProbeOK'
    BY <1>1 DEF ReadsInv, ProbeOK, InFunctionLoop, Current, Answers, Ids, vars
  <1>4. QED
    BY <1>2, <1>3 DEF ReadsInv

(* The rest of the program runs only between two functions. *)
LEMMA OtherwiseNext ==
  ASSUME ReadsInv, Otherwise
  PROVE  Next /\ probe.stage = "vendor" /\ UNCHANGED <<gone, probe, hw>>
PROOF
  <1>1. Next /\ UNCHANGED <<gone, probe>>
    BY DEF Otherwise, Next, Scan
  <1>2. UNCHANGED hw
    BY <1>1 DEF Next, Scan, Walk, Free, BeginSegment, SkipAbsent, NoMemory, AddNode, NextDevice,
       ReturnToBridge, ReturnToSegment, SkipEmptySegment, LinkSegment, LastSiblingStep,
       LastSiblingReturn, EndSegments, BeginWalk, SkipWalk, Visit, ReturnFromWalk, FreeEnter,
       Release, ReturnFromFree, platform
  <1>3. ASSUME InFunctionLoop PROVE FALSE
    <2>1. Top(scans) \in ScanFrames
      BY <1>3, TopLemma DEF InFunctionLoop, ReadsInv, FreeInv, HolderInv, ShapeInv, TypeInv, TypeOK,
         StackTypeOK
    <2>2. /\ pc = "scan" /\ ~(Top(scans).Dev > LastDev) /\ ~(Top(scans).Fun >= Top(scans).MaxFun)
      BY <1>3, <2>1, GeometryAssumption DEF InFunctionLoop, ScanFrames
    <2>3. QED
      BY <2>2 DEF Otherwise, BeginSegment, NextDevice, ReturnToBridge, ReturnToSegment,
         SkipEmptySegment, LinkSegment, LastSiblingStep, LastSiblingReturn, EndSegments, Walk,
         BeginWalk, SkipWalk, Visit, ReturnFromWalk, Free, FreeEnter, Release, ReturnFromFree
  <1>4. QED
    BY <1>1, <1>2, <1>3 DEF ReadsInv, ProbeOK

LEMMA OtherwiseKeeps ==
  ASSUME ReadsInv, Otherwise
  PROVE  ReadsInv'
PROOF
  <1>1. Next /\ probe.stage = "vendor" /\ UNCHANGED <<gone, probe, hw>>
    BY OtherwiseNext
  <1>2. FreeInv'
    BY <1>1, NextFree DEF ReadsInv
  <1>3. ProbeOK'
    BY <1>1 DEF ReadsInv, ProbeOK
  <1>4. QED
    BY <1>2, <1>3 DEF ReadsInv

-----------------------------------------------------------------------------
(* CreateNode writes the two flags of one node. *)
WithFlags(h, i, b, p) == [h EXCEPT ![i].IsBridge = b, ![i].IsPcie = p]

FlagsSet(g, h, i, b, p) ==
  /\ g \in Seq(NODE) /\ Len(g) = Len(h)
  /\ \A n \in 1 .. Len(h) : n # i => g[n] = h[n]
  /\ g[i].FirstChild = h[i].FirstChild /\ g[i].NextSibling = h[i].NextSibling
  /\ g[i].Loc = h[i].Loc /\ g[i].IsBridge = b /\ g[i].IsPcie = p

LEMMA SetFlags ==
  ASSUME NEW h \in Seq(NODE), NEW i \in 1 .. Len(h), NEW b \in BOOLEAN, NEW p \in BOOLEAN
  PROVE  FlagsSet(WithFlags(h, i, b, p), h, i, b, p)
PROOF
  <1>. DEFINE g == WithFlags(h, i, b, p)
  <1>1. h[i] \in NODE
    OBVIOUS
  <1>. DEFINE e == [h[i] EXCEPT !.IsBridge = b, !.IsPcie = p]
  <1>2. /\ e \in NODE /\ e.FirstChild = h[i].FirstChild /\ e.NextSibling = h[i].NextSibling
        /\ e.Loc = h[i].Loc /\ e.IsBridge = b /\ e.IsPcie = p
    BY <1>1 DEF NODE
  <1>3. g = [h EXCEPT ![i] = e]
    BY DEF WithFlags
  <1>. HIDE DEF e, g
  <1>4. /\ g \in Seq(NODE) /\ Len(g) = Len(h)
        /\ \A n \in 1 .. Len(h) : g[n] = IF n = i THEN e ELSE h[n]
    BY <1>2, <1>3, ExceptSeq
  <1>5. FlagsSet(g, h, i, b, p)
    BY <1>2, <1>4 DEF FlagsSet
  <1>6. QED
    BY <1>5 DEF g

NodeCreated(L, f) ==
  /\ L \in Nat /\ L < PoolSize
  /\ heap' \in Seq(NODE) /\ Len(heap') = L + 1
  /\ heap'[L + 1].FirstChild = NULL /\ heap'[L + 1].NextSibling = NULL
  /\ \A n \in 1 .. L :
       /\ heap'[n].FirstChild = heap[n].FirstChild
       /\ heap'[n].NextSibling = IF n = f.Tail THEN L + 1 ELSE heap[n].NextSibling
  /\ \A n \in 1 .. L : SameFunction(heap'[n], heap[n])
  /\ heap'[L + 1].Loc = Current /\ heap'[L + 1].IsBridge = probe.IsBridgeFlag
  /\ heap'[L + 1].IsPcie = probe.IsPcie

LEMMA CreateHeap ==
  ASSUME ReadsInv, Create, NEW L, L = Len(heap), NEW f, f = Top(scans)
  PROVE  NodeCreated(L, f)
PROOF
  <1>. DEFINE w == WithNode(f)
  <1>1. /\ Reading("create") /\ L < PoolSize
        /\ heap' = WithFlags(w, L + 1, probe.IsBridgeFlag, probe.IsPcie)
    BY DEF Create, WithFlags
  <1>2. TypeOK /\ HeapTypeOK /\ pc = "scan" /\ probe.stage = "create"
    BY <1>1, ReadingTypes
  <1>3. Answers(Here(f)) /\ Current = Here(f)
    BY <1>2 DEF ReadsInv, ProbeOK, Current
  <1>4. L \in Nat /\ Ids = 1 .. L
    BY <1>2 DEF HeapTypeOK, Ids
  <1>5. /\ w \in Seq(NODE) /\ Len(w) = L + 1
        /\ w[L + 1].FirstChild = NULL /\ w[L + 1].NextSibling = NULL
        /\ \A n \in 1 .. L :
              /\ w[n].FirstChild = heap[n].FirstChild
              /\ w[n].NextSibling = IF n = f.Tail THEN L + 1 ELSE heap[n].NextSibling
    BY <1>2, <1>3, <1>4, WithNodeLemma
  <1>6. w[L + 1].Loc = Here(f) /\ \A n \in 1 .. L : SameFunction(w[n], heap[n])
    BY <1>2, <1>3, <1>4, WithNodeFunctions
  <1>7. probe.IsBridgeFlag \in BOOLEAN /\ probe.IsPcie \in BOOLEAN
    BY DEF ReadsInv, ProbeOK
  <1>. HIDE DEF w
  <1>8. L + 1 \in 1 .. Len(w)
    BY <1>4, <1>5
  <1>9. /\ heap' \in Seq(NODE) /\ Len(heap') = Len(w)
        /\ \A n \in 1 .. Len(w) : n # L + 1 => heap'[n] = w[n]
        /\ heap'[L + 1].FirstChild = w[L + 1].FirstChild
        /\ heap'[L + 1].NextSibling = w[L + 1].NextSibling
        /\ heap'[L + 1].Loc = w[L + 1].Loc /\ heap'[L + 1].IsBridge = probe.IsBridgeFlag
        /\ heap'[L + 1].IsPcie = probe.IsPcie
    <2>1. FlagsSet(WithFlags(w, L + 1, probe.IsBridgeFlag, probe.IsPcie), w, L + 1,
                   probe.IsBridgeFlag, probe.IsPcie)
      BY <1>5, <1>7, <1>8, SetFlags
    <2>2. QED
      BY <1>1, <2>1 DEF FlagsSet
  <1>10. \A n \in 1 .. L : heap'[n] = w[n]
    BY <1>4, <1>5, <1>9
  <1>11. QED
    BY <1>1, <1>3, <1>4, <1>5, <1>6, <1>9, <1>10 DEF NodeCreated

(* The running activation after CreateNode: the new node is its last. *)
Extended(e, L, f) ==
  /\ scans' = SetTop(scans, e)
  /\ e.Tail = L + 1 /\ e.Out = f.Out
  /\ e.Head = IF f.Tail = NULL THEN L + 1 ELSE f.Head
  /\ \/ /\ probe.IsBridgeFlag /\ probe' = [probe EXCEPT !.stage = "secondary"]
        /\ e.Seg = f.Seg /\ e.Bus = f.Bus /\ e.Dev = f.Dev /\ e.Fun = f.Fun
        /\ e.MaxFun = f.MaxFun
     \/ ~probe.IsBridgeFlag /\ probe' = Unread /\ e.Fun = f.Fun + 1

LEMMA CreateFrame ==
  ASSUME ReadsInv, Create, NEW L, L = Len(heap), NEW f, f = Top(scans)
  PROVE  \E e \in ScanFrames' : Extended(e, L, f)
PROOF
  <1>. DEFINE g == WithTail(f, L + 1)
              h == IF f.Tail = NULL THEN L + 1 ELSE f.Head
  <1>1. Reading("create") /\ IF probe.IsBridgeFlag
                               THEN Proceed("secondary") /\ scans' = SetTop(scans, g)
                               ELSE probe' = Unread /\ scans' = SetTop(scans, NextFunction(g))
    BY DEF Create
  <1>2. f \in ScanFrames /\ f.Fun + 1 \in 0 .. LastFun + 1
    BY <1>1, ReadingTypes
  <1>3. L \in Nat /\ Len(heap') = L + 1
    BY CreateHeap DEF NodeCreated
  <1>4. ScanFrames \subseteq ScanFrames' /\ h \in Ptr' /\ L + 1 \in Ptr'
    <2>1. Ptr \subseteq Ptr' /\ ScanFrames \subseteq ScanFrames'
      BY <1>3, GrowHeap
    <2>2. f.Head \in Ptr
      BY <1>2 DEF ScanFrames
    <2>3. QED
      BY <1>3, <2>1, <2>2 DEF Ptr
  <1>5. /\ g.Tail = L + 1 /\ g.Out = f.Out /\ g.Head = h
        /\ g.Seg = f.Seg /\ g.Bus = f.Bus /\ g.Dev = f.Dev /\ g.Fun = f.Fun /\ g.MaxFun = f.MaxFun
        /\ g \in ScanFrames'
    <2>1. f \in ScanFrames'
      BY <1>2, <1>4
    <2>. HIDE DEF h
    <2>2. g = [f EXCEPT !.Head = h, !.Tail = L + 1]
      BY <1>2 DEF WithTail, ScanFrames, h
    <2>. HIDE DEF g
    <2>3. QED
      BY <1>4, <2>1, <2>2 DEF ScanFrames
  <1>. HIDE DEF g, h
  <1>6. CASE probe.IsBridgeFlag
    <2>1. scans' = SetTop(scans, g) /\ probe' = [probe EXCEPT !.stage = "secondary"]
      BY <1>1, <1>6 DEF Proceed
    <2>2. QED
      BY <1>5, <1>6, <2>1 DEF h, Extended
  <1>7. CASE ~probe.IsBridgeFlag
    <2>. DEFINE e == NextFunction(g)
    <2>1. scans' = SetTop(scans, e) /\ probe' = Unread
      BY <1>1, <1>7
    <2>2. /\ e \in ScanFrames' /\ e.Tail = g.Tail /\ e.Out = g.Out /\ e.Head = g.Head
          /\ e.Fun = f.Fun + 1
      BY <1>2, <1>5 DEF NextFunction, ScanFrames
    <2>. HIDE DEF e
    <2>3. QED
      BY <1>5, <1>7, <2>1, <2>2 DEF h, Extended
  <1>8. QED
    BY <1>6, <1>7

(* The part of the invariant that is PciTree's, after a node has been added. *)
LEMMA AddedKeeps ==
  ASSUME FreeInv, TypeInv', NodeAdded(Len(heap), Len(scans)), freed' = freed
  PROVE  FreeInv'
PROOF
  <1>1. ShapeInv /\ SingleHolder /\ TypeInv /\ FreeOK
    BY DEF FreeInv, HolderInv, ShapeInv
  <1>2. ShapeInv' /\ SingleHolder'
    BY <1>1, AddShape, AddHolders DEF ShapeInv
  <1>3. FreeOK'
    BY <1>1 DEF FreeOK, NodeAdded, NothingLeaked
  <1>4. QED
    BY <1>2, <1>3 DEF FreeInv, HolderInv

LEMMA CreateKeeps ==
  ASSUME ReadsInv, Create
  PROVE  ReadsInv'
PROOF
  <1>. DEFINE L == Len(heap)
              D == Len(scans)
              f == Top(scans)
  <1>1. Reading("create") /\ UNCHANGED <<lost, untouched>>
    BY DEF Create
  <1>2. UNCHANGED <<hw, table, freed, root, pc, index, segRoot, tail, walks, frees, report, gone, lost>>
    BY <1>1 DEF untouched, platform, locals
  <1>3. /\ TypeInv /\ TypeOK /\ StackTypeOK /\ HeapTypeOK /\ pc = "scan" /\ InFunctionLoop
        /\ probe.stage = "create" /\ scans \in Seq(ScanFrames) /\ scans # <<>>
        /\ D \in Nat \ {0} /\ f = scans[D] /\ f.Fun < f.MaxFun
    BY <1>1, ReadingTypes, TopLemma DEF Top
  <1>4. /\ L \in Nat /\ L < PoolSize
        /\ heap' \in Seq(NODE) /\ Len(heap') = L + 1
        /\ heap'[L + 1].FirstChild = NULL /\ heap'[L + 1].NextSibling = NULL
        /\ \A n \in 1 .. L :
             /\ heap'[n].FirstChild = heap[n].FirstChild
             /\ heap'[n].NextSibling = IF n = f.Tail THEN L + 1 ELSE heap[n].NextSibling
    <2>1. NodeCreated(L, f)
      BY CreateHeap
    <2>2. QED
      BY <2>1 DEF NodeCreated
  <1>0. PICK e \in ScanFrames' : Extended(e, L, f)
    BY CreateFrame
  <1>5. /\ scans' = SetTop(scans, e)
        /\ e.Tail = L + 1 /\ e.Out = f.Out
        /\ e.Head = IF f.Tail = NULL THEN L + 1 ELSE f.Head
        /\ \/ /\ probe.IsBridgeFlag /\ probe' = [probe EXCEPT !.stage = "secondary"]
              /\ e.Seg = f.Seg /\ e.Bus = f.Bus /\ e.Dev = f.Dev /\ e.Fun = f.Fun
              /\ e.MaxFun = f.MaxFun
           \/ ~probe.IsBridgeFlag /\ probe' = Unread /\ e.Fun = f.Fun + 1
    BY <1>0 DEF Extended
  <1>6. /\ Ids \subseteq Ids' /\ Ptr \subseteq Ptr'
        /\ Seq(ScanFrames) \subseteq Seq(ScanFrames')
        /\ Seq(WalkFrames) \subseteq Seq(WalkFrames')
        /\ Seq(FreeFrames) \subseteq Seq(FreeFrames')
        /\ Seq([Node: Ids, Depth: 0 .. DepthModulus - 1])
             \subseteq Seq([Node: Ids', Depth: 0 .. DepthModulus - 1])
    <2>1. Len(heap) \in Nat /\ Len(heap)' \in Nat /\ Len(heap) <= Len(heap)'
      BY <1>4
    <2>2. QED
      BY <2>1, GrowHeap
  <1>7. ReplacesTop(ScanFrames', scans, e, scans')
    <2>1. scans \in Seq(ScanFrames')
      BY <1>3, <1>6
    <2>2. ReplacesTop(ScanFrames', scans, e, SetTop(scans, e))
      BY <1>3, <1>5, <2>1, SetTopReplaces
    <2>3. QED
      BY <1>5, <2>2
  <1>8. /\ scans' \in Seq(ScanFrames') /\ Len(scans') = D /\ scans'[D] = e /\ Top(scans') = e
        /\ \A k \in 1 .. D - 1 : scans'[k] = scans[k]
    BY <1>7 DEF ReplacesTop, Top
  <1>. HIDE DEF L, D, f
  <1>9. StackTypeOK'
    <2>1. walks' \in Seq(WalkFrames)' /\ frees' \in Seq(FreeFrames)'
      BY <1>2, <1>3, <1>6 DEF StackTypeOK
    <2>2. report' \in Seq([Node: Ids', Depth: 0 .. DepthModulus - 1])
      BY <1>2, <1>3, <1>6 DEF StackTypeOK
    <2>3. scans' # <<>>
      BY <1>3, <1>8
    <2>4. /\ (scans' # <<>> <=> pc' = "scan") /\ (walks' # <<>> <=> pc' = "walk")
          /\ (frees' # <<>> <=> pc' = "free")
      BY <1>2, <1>3, <2>3 DEF StackTypeOK
    <2>5. QED
      BY <1>8, <2>1, <2>2, <2>4 DEF StackTypeOK
  <1>10. HeapTypeOK'
    <2>1. Ids' = 1 .. L + 1 /\ Ids = 1 .. L /\ Ptr' = 0 .. L + 1
      BY <1>4 DEF Ids, Ptr, L
    <2>2. ASSUME NEW n \in Ids' PROVE heap'[n].FirstChild \in Ptr' /\ heap'[n].NextSibling \in Ptr'
      <3>1. CASE n = L + 1
        BY <1>4, <2>1, <3>1 DEF NULL
      <3>2. CASE n \in 1 .. L
        <4>1. heap[n].FirstChild \in Ptr /\ heap[n].NextSibling \in Ptr
          BY <1>3, <2>1, <3>2 DEF HeapTypeOK
        <4>2. L + 1 \in Ptr'
          BY <1>4, <2>1
        <4>3. QED
          BY <1>4, <1>6, <3>2, <4>1, <4>2
      <3>3. QED
        BY <1>4, <2>1, <3>1, <3>2
    <2>3. freed' \subseteq Ids' /\ lost' \subseteq DOMAIN hw'
      BY <1>2, <1>3, <1>6 DEF HeapTypeOK
    <2>4. Len(heap') <= PoolSize
      BY <1>4, GeometryAssumption
    <2>5. QED
      BY <1>4, <2>2, <2>3, <2>4 DEF HeapTypeOK
  <1>11. (PlatformTypeOK /\ ControlTypeOK /\ ControlOK)'
    <2>1. Starts' = Starts
      BY <1>2 DEF Starts
    <2>2. QED
      BY <1>2, <1>3, <1>6, <2>1 DEF TypeInv, TypeOK, PlatformTypeOK, ControlTypeOK, ControlOK
  <1>12. TypeInv'
    BY <1>9, <1>10, <1>11 DEF TypeInv, TypeOK
  <1>13. NodeAdded(L, D)
    BY <1>2, <1>3, <1>4, <1>5, <1>8 DEF NodeAdded
  <1>14. FreeInv'
    BY <1>2, <1>12, <1>13, AddedKeeps DEF ReadsInv, L, D
  <1>15. ProbeOK'
    <2>1. CASE ~probe.IsBridgeFlag
      <3>1. probe' = Unread
        BY <1>5, <2>1
      <3>2. gone' \subseteq DOMAIN hw'
        BY <1>2 DEF ReadsInv, ProbeOK
      <3>3. QED
        BY <3>1, <3>2 DEF ProbeOK, Unread, Stages
    <2>2. CASE probe.IsBridgeFlag
      <3>1. /\ probe' = [probe EXCEPT !.stage = "secondary"]
            /\ e.Seg = f.Seg /\ e.Bus = f.Bus /\ e.Dev = f.Dev /\ e.Fun = f.Fun
            /\ e.MaxFun = f.MaxFun
        BY <1>5, <2>2
      <3>2. Current' = Current
        BY <1>8, <3>1 DEF Current, Here, f
      <3>3. InFunctionLoop' /\ Answers(Current)'
        BY <1>2, <1>3, <1>8, <3>1, <3>2 DEF ReadsInv, ProbeOK, InFunctionLoop, Answers, f
      <3>4. Len(heap)' \in Ids' /\ Top(scans)'.Tail = Len(heap)' /\ heap'[Len(heap)'].FirstChild = NULL
        BY <1>4, <1>5, <1>8 DEF Ids
      <3>5. QED
        BY <1>2, <3>1, <3>3, <3>4 DEF ReadsInv, ProbeOK, Stages
    <2>3. QED
      BY <2>1, <2>2
  <1>16. QED
    BY <1>14, <1>15 DEF ReadsInv

-----------------------------------------------------------------------------
(* The call for the bus behind the node made last: a new activation with an
   empty chain, above those that were there. *)
CallMade(L, D) ==
  /\ UNCHANGED <<hw, table, heap, root, pc, segRoot, tail>> /\ pc = "scan"
  /\ L = Len(heap) /\ L \in Ids /\ heap[L].FirstChild = NULL
  /\ D = Len(scans) /\ D \in Nat \ {0} /\ scans[D].Tail = L
  /\ Len(scans') = D + 1
  /\ \A k \in 1 .. D : /\ scans'[k].Head = scans[k].Head
                       /\ scans'[k].Tail = scans[k].Tail
                       /\ scans'[k].Out = scans[k].Out
  /\ scans'[D + 1].Head = NULL /\ scans'[D + 1].Tail = NULL /\ scans'[D + 1].Out = L

LEMMA CallShape ==
  ASSUME ShapeInv, NEW L, NEW D, CallMade(L, D)
  PROVE  LinksForward' /\ FramesOK' /\ ListOK'
PROOF
  <1>1. TypeInv /\ LinksForward /\ FramesOK /\ ListOK
    BY DEF ShapeInv
  <1>2. /\ UNCHANGED <<hw, table, heap, root, pc, segRoot, tail>> /\ pc = "scan"
        /\ L \in Ids /\ heap[L].FirstChild = NULL
        /\ D \in Nat \ {0} /\ Len(scans) = D /\ scans[D].Tail = L /\ Len(scans') = D + 1
        /\ \A k \in 1 .. D : /\ scans'[k].Head = scans[k].Head
                             /\ scans'[k].Tail = scans[k].Tail
                             /\ scans'[k].Out = scans[k].Out
        /\ scans'[D + 1].Head = NULL /\ scans'[D + 1].Tail = NULL /\ scans'[D + 1].Out = L
    BY DEF CallMade
  <1>3. Ids' = Ids /\ D \in 1 .. D /\ L \in Nat \ {0}
    BY <1>1, <1>2, PointerTypes DEF Ids
  <1>4. LinksForward'
    BY <1>1, <1>2, <1>3 DEF LinksForward
  <1>5. \A k \in 1 .. D + 1 : k \in 1 .. D \/ k = D + 1
    BY <1>2
  <1>6. ASSUME NEW k \in 1 .. D
        PROVE  /\ FrameOK(scans[k])'
               /\ k > 1 => scans'[k].Out \in Ids /\ heap'[scans'[k].Out].FirstChild = NULL
    BY <1>1, <1>2 DEF FramesOK, FrameOK
  <1>7. /\ FrameOK(scans[D + 1])'
        /\ scans'[D + 1].Out \in Ids /\ heap'[scans'[D + 1].Out].FirstChild = NULL
    BY <1>2 DEF FrameOK
  <1>8. ASSUME NEW j \in 1 .. D, NEW k \in 1 .. D, j < k
        PROVE  /\ scans'[j].Out < scans'[k].Out
               /\ scans'[k].Tail # NULL => scans'[j].Tail < scans'[k].Tail
    BY <1>1, <1>2, <1>8 DEF FramesOK
  <1>9. ASSUME NEW j \in 1 .. D PROVE scans'[j].Out < L
    <2>1. FrameOK(scans[D]) /\ scans[D].Head > scans[D].Out /\ scans[D].Tail # NULL
      BY <1>1, <1>2, <1>3 DEF FramesOK, FrameOK, NULL
    <2>2. scans[D].Head \in Nat /\ scans[D].Head <= L /\ scans[D].Out \in Nat /\ scans[j].Out \in Nat
      <3>1. L = Len(heap) /\ Len(heap) \in Nat
        BY <1>1, PointerTypes DEF CallMade
      <3>2. scans[D].Head \in 0 .. Len(heap) /\ scans[D].Out \in 0 .. Len(heap)
            /\ scans[j].Out \in 0 .. Len(heap)
        BY <1>1, <1>2, <1>3, PointerTypes
      <3>3. QED
        BY <3>1, <3>2
    <2>3. scans[D].Out < L
      BY <1>3, <2>1, <2>2
    <2>4. j = D \/ scans[j].Out < scans[D].Out
      <3>1. j = D \/ j < D
        BY <1>2
      <3>2. QED
        BY <1>1, <1>2, <1>3, <3>1 DEF FramesOK
    <2>5. scans[j].Out < L
      BY <1>3, <2>2, <2>3, <2>4
    <2>6. QED
      BY <1>2, <2>5
  <1>10. ASSUME NEW j \in 1 .. D + 1, NEW k \in 1 .. D + 1, j < k
         PROVE  /\ scans'[j].Out < scans'[k].Out
                /\ scans'[k].Tail # NULL => scans'[j].Tail < scans'[k].Tail
    <2>1. j \in 1 .. D
      BY <1>2, <1>10
    <2>2. CASE k = D + 1
      BY <1>2, <1>9, <2>1, <2>2
    <2>3. QED
      BY <1>5, <1>8, <1>10, <2>1, <2>2
  <1>11. FramesOK'
    <2>1. ASSUME NEW k \in 1 .. D + 1
          PROVE  /\ FrameOK(scans[k])'
                 /\ k > 1 => scans'[k].Out \in Ids' /\ heap'[scans'[k].Out].FirstChild = NULL
      BY <1>3, <1>5, <1>6, <1>7
    <2>2. QED
      BY <1>2, <1>10, <2>1 DEF FramesOK
  <1>12. ListOK'
    BY <1>1, <1>2 DEF ListOK, Scanning
  <1>13. QED
    BY <1>4, <1>11, <1>12

LEMMA CallHolders ==
  ASSUME TypeInv, SingleHolder, NEW L, NEW D, CallMade(L, D)
  PROVE  SingleHolder'
PROOF
  <1>1. /\ UNCHANGED <<heap, root, pc, segRoot>> /\ pc = "scan"
        /\ D \in Nat \ {0} /\ Len(scans) = D /\ Len(scans') = D + 1
        /\ \A k \in 1 .. D : scans'[k].Head = scans[k].Head
        /\ scans'[D + 1].Head = NULL
    BY DEF CallMade
  <1>2. Ids' = Ids /\ \A n \in Ids : n # NULL
    BY <1>1, PointerTypes DEF Ids, NULL
  <1>3. ASSUME NEW n \in Ids
        PROVE  /\ ChildLinks(n)' = ChildLinks(n) /\ SiblingLinks(n)' = SiblingLinks(n)
               /\ Heads(n)' = Heads(n) /\ SegRoots(n)' = SegRoots(n) /\ Roots(n)' = Roots(n)
    <2>1. Heads(n)' = Heads(n)
      <3>1. \A k \in 1 .. D + 1 : scans'[k].Head = n <=> k \in 1 .. D /\ scans[k].Head = n
        <4>1. \A k \in 1 .. D + 1 : k \in 1 .. D \/ (k = D + 1 /\ k \notin 1 .. D)
          BY <1>1
        <4>2. QED
          BY <1>1, <1>2, <4>1
      <3>2. 1 .. D \subseteq 1 .. D + 1
        BY <1>1
      <3>3. QED
        BY <1>1, <3>1, <3>2 DEF Heads
    <2>2. QED
      BY <1>1, <1>2, <2>1 DEF ChildLinks, SiblingLinks, SegRoots, Roots
  <1>4. QED
    BY <1>1, <1>2, <1>3, UnmovedHolders

(* Reading the secondary bus number, of which all ones is one too. *)
LEMMA ReadSecondaryKeeps ==
  ASSUME ReadsInv, ReadSecondary
  PROVE  ReadsInv'
PROOF
  <1>. DEFINE L == Len(heap)
              D == Len(scans)
              f == Top(scans)
              g == NextFunction(f)
              b == BusBehind(f)
              s == SetTop(scans, g)
  <1>1. /\ Reading("secondary") /\ UNCHANGED <<heap, lost, untouched>>
        /\ scans' = Append(s, b) /\ probe' = Unread
    BY DEF ReadSecondary
  <1>2. UNCHANGED <<hw, table, heap, freed, root, pc, index, segRoot, tail, walks, frees, report,
                    gone, lost>>
    BY <1>1 DEF untouched, platform, locals
  <1>3. /\ TypeInv /\ TypeOK /\ StackTypeOK /\ HeapTypeOK /\ pc = "scan"
        /\ probe.stage = "secondary" /\ scans \in Seq(ScanFrames) /\ scans # <<>>
        /\ f \in ScanFrames /\ f.Fun + 1 \in 0 .. LastFun + 1
    BY <1>1, ReadingTypes
  <1>4. /\ Answers(Current) /\ L \in Ids /\ f.Tail = L /\ heap[L].FirstChild = NULL
    BY <1>3 DEF ReadsInv, ProbeOK
  <1>5. g \in ScanFrames /\ g.Head = f.Head /\ g.Tail = f.Tail /\ g.Out = f.Out
    BY <1>3 DEF NextFunction, ScanFrames
  <1>6. b \in ScanFrames /\ b.Head = NULL /\ b.Tail = NULL /\ b.Out = L
    <2>1. hw[Current] \in Headers
      BY <1>3, <1>4 DEF Answers, TypeOK, PlatformTypeOK
    <2>2. Registers(Current).secondary \in 0 .. LastBus
      BY <2>1, GeometryAssumption DEF Registers, AllOnesHeader, Headers
    <2>3. f.Seg \in SegmentNumbers /\ L \in Ptr /\ 0 \in Ptr
      BY <1>3, <1>4 DEF ScanFrames, Ids, Ptr
    <2>4. QED
      BY <2>2, <2>3, GeometryAssumption DEF BusBehind, ScanFrame, ScanFrames, NULL
  <1>7. D \in Nat \ {0} /\ f = scans[D]
    BY <1>3, TopLemma DEF Top
  <1>8. ReplacesTop(ScanFrames, scans, g, s)
    BY <1>3, <1>5, SetTopReplaces
  <1>. HIDE DEF L, D, f, g, b, s
  <1>9. s \in Seq(ScanFrames) /\ Len(s) = D /\ s[D] = g /\ \A k \in 1 .. D - 1 : s[k] = scans[k]
    BY <1>8 DEF ReplacesTop, D
  <1>10. /\ scans' \in Seq(ScanFrames) /\ scans' # <<>> /\ Len(scans') = D + 1
         /\ scans'[D + 1] = b /\ \A k \in 1 .. D : scans'[k] = s[k]
    BY <1>1, <1>6, <1>9, AppendLemma
  <1>11. ASSUME NEW k \in 1 .. D
         PROVE  /\ scans'[k].Head = scans[k].Head
                /\ scans'[k].Tail = scans[k].Tail
                /\ scans'[k].Out = scans[k].Out
    <2>1. k \in 1 .. D - 1 \/ k = D
      BY <1>7
    <2>2. QED
      BY <1>5, <1>7, <1>9, <1>10, <2>1
  <1>12. CallMade(L, D)
    BY <1>2, <1>3, <1>4, <1>6, <1>7, <1>10, <1>11 DEF CallMade, L, D
  <1>13. StackTypeOK'
    BY <1>2, <1>3, <1>10, SameHeap DEF StackTypeOK
  <1>14. PlatformTypeOK' /\ HeapTypeOK' /\ ControlTypeOK' /\ ControlOK'
    BY <1>1, <1>2, <1>3, UntouchedTypes, SameHeap
  <1>15. TypeInv'
    BY <1>13, <1>14 DEF TypeInv, TypeOK
  <1>16. ShapeInv /\ SingleHolder /\ FreeOK
    BY DEF ReadsInv, FreeInv, HolderInv
  <1>17. ShapeInv' /\ SingleHolder'
    BY <1>3, <1>12, <1>15, <1>16, CallShape, CallHolders DEF ShapeInv
  <1>18. FreeInv'
    BY <1>2, <1>3, <1>16, <1>17 DEF FreeInv, HolderInv, FreeOK, NothingLeaked
  <1>19. ProbeOK'
    BY <1>1, <1>2 DEF ReadsInv, ProbeOK, Unread, Stages
  <1>20. QED
    BY <1>18, <1>19 DEF ReadsInv

LEMMA NextReads == ReadsInv /\ [ReadsNext]_scanVars => ReadsInv'
PROOF
  <1>. SUFFICES ASSUME ReadsInv, [ReadsNext]_scanVars PROVE ReadsInv'
    OBVIOUS
  <1>1. CASE UNCHANGED scanVars
    <2>1. UNCHANGED vars /\ UNCHANGED <<gone, probe>>
      BY <1>1 DEF scanVars
    <2>2. FreeInv'
      BY <2>1, NextFree DEF ReadsInv
    <2>3. ProbeOK'
      BY <2>1 DEF ReadsInv, ProbeOK, InFunctionLoop, Current, Answers, Ids, vars
    <2>4. QED
      BY <2>2, <2>3 DEF ReadsInv
  <1>2. CASE ReadsNext
    BY <1>2, ReadVendorKeeps, ReadMultiKeeps, ReadFlagsKeeps, CreateKeeps, CreateFailsKeeps,
       ReadSecondaryKeeps, OtherwiseKeeps, RemoveKeeps
    DEF ReadsNext, Program
  <1>3. QED
    BY <1>1, <1>2

(* On every machine, whatever goes and when: every variable keeps its type,
   and a function is read only while its activation runs. *)
THEOREM ReadsTypeCorrect == ReadsSpec => []ReadsTypeOK
PROOF
  <1>1. ReadsInv => ReadsTypeOK
    BY DEF ReadsInv, ProbeOK, FreeInv, HolderInv, ShapeInv, TypeInv, ReadsTypeOK, Answers
  <1>2. QED
    BY <1>1, InitReads, NextReads, PTL DEF ReadsSpec

(* On every machine, whatever goes between two reads of the scan: one pointer
   holds each node until the list is freed, no link leads backwards, the
   release reads no free node, and in the end no node is left. *)
THEOREM TreeSurvivesCorrect == ReadsSpec => []TreeSurvives
PROOF
  <1>1. ReadsInv => TreeSurvives
    <2>. SUFFICES ASSUME ReadsInv PROVE TreeSurvives
      OBVIOUS
    <2>1. SingleHolder /\ LinksForward /\ NothingLeaked
      BY DEF ReadsInv, FreeInv, HolderInv, ShapeInv, FreeOK
    <2>2. NothingDangling
      BY FreeDangles DEF ReadsInv
    <2>3. QED
      BY <2>1, <2>2 DEF TreeSurvives
  <1>2. QED
    BY <1>1, InitReads, NextReads, PTL DEF ReadsSpec

-----------------------------------------------------------------------------
(* What has been read of a function that is still there is what its registers
   say. *)
FlagsRead ==
  probe.stage \in {"pcie", "create"} /\ Current \notin gone =>
    /\ probe.IsBridgeFlag = hw[Current].bridge
    /\ probe.stage = "create" => probe.IsPcie = hw[Current].pcie

FlagsInv == ReadsInv /\ FlagsRead /\ FlagsOfFunction

LEMMA InitFlags == ReadsInit => FlagsInv
PROOF
  <1>. SUFFICES ASSUME ReadsInit PROVE FlagsInv
    OBVIOUS
  <1>1. heap = <<>> /\ probe.stage = "vendor"
    BY DEF ReadsInit, Init, Unread
  <1>2. QED
    BY <1>1, InitReads DEF FlagsInv, FlagsRead, FlagsOfFunction, Ids

(* The steps that make no node and read no flag. *)
LEMMA SameFlags ==
  ASSUME FlagsOfFunction, UNCHANGED hw, gone \subseteq gone', Ids' = Ids,
         \A n \in Ids : SameFunction(heap'[n], heap[n])
  PROVE  FlagsOfFunction'
  BY DEF FlagsOfFunction, SameFunction

LEMMA CreateFlags ==
  ASSUME FlagsInv, Create
  PROVE  FlagsOfFunction'
PROOF
  <1>. DEFINE L == Len(heap)
              f == Top(scans)
  <1>1. UNCHANGED <<hw, gone>> /\ probe.stage = "create"
    BY DEF Create, Reading, untouched, platform
  <1>2. NodeCreated(L, f)
    BY CreateHeap DEF FlagsInv
  <1>3. /\ L \in Nat /\ Len(heap') = L + 1
        /\ \A n \in 1 .. L : SameFunction(heap'[n], heap[n])
        /\ heap'[L + 1].Loc = Current /\ heap'[L + 1].IsBridge = probe.IsBridgeFlag
        /\ heap'[L + 1].IsPcie = probe.IsPcie
    BY <1>2 DEF NodeCreated
  <1>4. Ids = 1 .. L /\ Ids' = 1 .. L + 1
    BY <1>3 DEF Ids
  <1>. HIDE DEF L
  <1>5. ASSUME NEW n \in 1 .. L + 1, heap'[n].Loc \notin gone
        PROVE  heap'[n].IsBridge = hw[heap'[n].Loc].bridge /\ heap'[n].IsPcie = hw[heap'[n].Loc].pcie
    <2>1. CASE n = L + 1
      BY <1>1, <1>3, <1>5, <2>1 DEF FlagsInv, FlagsRead
    <2>2. CASE n \in 1 .. L
      BY <1>3, <1>4, <1>5, <2>2 DEF FlagsInv, FlagsOfFunction, SameFunction
    <2>3. QED
      BY <1>3, <2>1, <2>2
  <1>6. QED
    BY <1>1, <1>4, <1>5 DEF FlagsOfFunction

LEMMA NextFlags == FlagsInv /\ [ReadsNext]_scanVars => FlagsInv'
PROOF
  <1>. SUFFICES ASSUME FlagsInv, [ReadsNext]_scanVars PROVE FlagsInv'
    OBVIOUS
  <1>1. ReadsInv /\ ReadsInv'
    BY NextReads DEF FlagsInv
  <1>2. FlagsRead /\ FlagsOfFunction /\ heap \in Seq(NODE)
        /\ probe \in [stage: Stages, IsBridgeFlag: BOOLEAN, IsPcie: BOOLEAN]
    BY DEF FlagsInv, ReadsInv, ProbeOK, FreeInv, HolderInv, ShapeInv, TypeInv, TypeOK, HeapTypeOK
  <1>3. UNCHANGED <<hw, heap>> /\ gone \subseteq gone' => FlagsOfFunction'
    BY <1>2, SameFlags DEF Ids, SameFunction
  <1>4. CASE ReadVendor \/ ReadMulti \/ CreateFails \/ ReadSecondary
    <2>1. UNCHANGED <<hw, heap, gone>>
      BY <1>4 DEF ReadVendor, ReadMulti, CreateFails, ReadSecondary, untouched, platform
    <2>2. probe'.stage \notin {"pcie", "create"}
      BY <1>2, <1>4 DEF ReadVendor, ReadMulti, CreateFails, ReadSecondary, Reading, Proceed, Unread
    <2>3. QED
      BY <1>1, <1>3, <2>1, <2>2 DEF FlagsInv, FlagsRead
  <1>5. CASE ReadBridge \/ ReadPcie
    <2>1. UNCHANGED <<hw, heap, gone, scans>> /\ Current' = Current
      BY <1>5 DEF ReadBridge, ReadPcie, untouched, platform, Current
    <2>2. FlagsRead'
      <3>1. CASE ReadBridge
        <4>1. probe'.stage = "pcie" /\ probe'.IsBridgeFlag = Registers(Current).bridge
          BY <1>2, <3>1 DEF ReadBridge
        <4>2. QED
          BY <2>1, <4>1 DEF FlagsRead, Registers
      <3>2. CASE ReadPcie
        <4>1. /\ probe.stage = "pcie" /\ probe'.IsBridgeFlag = probe.IsBridgeFlag
              /\ probe'.IsPcie = Registers(Current).pcie
          BY <1>2, <3>2 DEF ReadPcie, Reading, PcieNow
        <4>2. QED
          BY <1>2, <2>1, <4>1 DEF FlagsRead, Registers
      <3>3. QED
        BY <1>5, <3>1, <3>2
    <2>3. QED
      BY <1>1, <1>3, <2>1, <2>2 DEF FlagsInv
  <1>6. CASE Create
    <2>1. probe'.stage \notin {"pcie", "create"}
      BY <1>2, <1>6 DEF Create, Proceed, Unread
    <2>2. QED
      BY <1>1, <1>6, <2>1, CreateFlags DEF FlagsInv, FlagsRead
  <1>7. CASE Otherwise
    <2>1. probe.stage = "vendor" /\ UNCHANGED <<gone, probe, hw>>
      BY <1>1, <1>7, OtherwiseNext
    <2>2. FlagsOfFunction'
      <3>1. Onward
        BY <1>7 DEF Otherwise, Onward
      <3>2. QED
        BY <1>2, <2>1, <3>1, OnwardFunctions, SameFlags
    <2>3. QED
      BY <1>1, <2>1, <2>2 DEF FlagsInv, FlagsRead
  <1>8. CASE Remove \/ UNCHANGED scanVars
    <2>1. UNCHANGED <<hw, heap, scans, probe>> /\ gone \subseteq gone' /\ Current' = Current
      BY <1>8 DEF Remove, scanVars, vars, Current
    <2>2. FlagsRead'
      BY <1>2, <2>1 DEF FlagsRead
    <2>3. QED
      BY <1>1, <1>3, <2>1, <2>2 DEF FlagsInv
  <1>9. QED
    BY <1>4, <1>5, <1>6, <1>7, <1>8 DEF ReadsNext, Program

(* On every machine, whatever goes and when: a node of a function that is
   still there has the flags of that function, never those of another or of
   a function that has gone. *)
THEOREM FlagsOfFunctionCorrect == ReadsSpec => []FlagsOfFunction
PROOF
  <1>1. FlagsInv => FlagsOfFunction
    BY DEF FlagsInv
  <1>2. QED
    BY <1>1, InitFlags, NextFlags, PTL DEF ReadsSpec
-----------------------------------------------------------------------------
(* On a machine that loses nothing, the scan implements that of PciTree, which
   takes a function in one step.  An activation that stands at function 0 is
   the running one, and its loop bound is 1 until the multi-function bit has
   been read, and then what that bit says. *)
BoundShown(f) == IF hw[Here(f)].multi THEN LastFun + 1 ELSE 1

FrameShown(k) ==
  scans[k].Fun = 0 =>
    /\ k = Len(scans)
    /\ scans[k].MaxFun = IF probe.stage \in {"vendor", "multi"} THEN 1
                         ELSE BoundShown(scans[k])

LoopShown ==
  /\ \A k \in 1 .. Len(scans) : FrameShown(k)
  /\ probe.stage = "multi" => Top(scans).Fun = 0

SteadyInv == FlagsInv /\ gone = {} /\ LoopShown

(* A step that replaces the running activation. *)
LEMMA ReplaceShown ==
  ASSUME LoopShown, NEW S, scans \in Seq(S), scans # <<>>, NEW g \in S,
         scans' = SetTop(scans, g),
         g.Fun = 0 => g.MaxFun = IF probe'.stage \in {"vendor", "multi"} THEN 1
                                 ELSE BoundShown(g),
         probe'.stage = "multi" => g.Fun = 0, UNCHANGED hw
  PROVE  LoopShown'
PROOF
  <1>1. ReplacesTop(S, scans, g, SetTop(scans, g)) /\ Len(scans) \in Nat \ {0}
    BY SetTopReplaces, TopLemma
  <1>2. /\ Len(scans') = Len(scans) /\ scans'[Len(scans)] = g
        /\ \A k \in 1 .. Len(scans) - 1 : scans'[k] = scans[k]
    BY <1>1 DEF ReplacesTop
  <1>3. ASSUME NEW k \in 1 .. Len(scans) PROVE FrameShown(k)'
    <2>1. CASE k = Len(scans)
      BY <1>2, <2>1 DEF FrameShown, BoundShown
    <2>2. CASE k # Len(scans)
      <3>1. k \in 1 .. Len(scans) - 1 /\ scans[k].Fun # 0
        BY <1>1, <2>2 DEF LoopShown, FrameShown
      <3>2. QED
        BY <1>2, <3>1 DEF FrameShown
    <2>3. QED
      BY <2>1, <2>2
  <1>4. QED
    BY <1>2, <1>3 DEF LoopShown, Top

(* What the steps of the function loop know. *)
LEMMA SteadyReading ==
  ASSUME SteadyInv, NEW stage, Reading(stage), NEW f, f = Top(scans)
  PROVE  /\ scans \in Seq(ScanFrames) /\ scans # <<>> /\ f \in ScanFrames
         /\ f.Fun \in Nat /\ f.Fun + 1 # 0
         /\ probe.stage = stage /\ InFunctionLoop /\ Current = Here(f) /\ LoopShown
         /\ probe \in [stage: Stages, IsBridgeFlag: BOOLEAN, IsPcie: BOOLEAN]
         /\ f.Fun = 0 => f.MaxFun = IF stage \in {"vendor", "multi"} THEN 1 ELSE BoundShown(f)
         /\ stage # "vendor" => Answers(Here(f))
         /\ \A l : Registers(l) = hw[l]
PROOF
  <1>1. ReadsInv /\ LoopShown /\ gone = {}
    BY DEF SteadyInv, FlagsInv
  <1>2. /\ scans \in Seq(ScanFrames) /\ scans # <<>> /\ f \in ScanFrames
        /\ InFunctionLoop /\ probe.stage = stage
    BY <1>1, ReadingTypes
  <1>3. f.Fun \in Nat /\ f.Fun + 1 # 0
    BY <1>2, GeometryAssumption DEF ScanFrames
  <1>4. Len(scans) \in 1 .. Len(scans) /\ f = scans[Len(scans)]
    BY <1>2, TopLemma DEF Top
  <1>5. FrameShown(Len(scans))
    BY <1>1, <1>4 DEF LoopShown
  <1>6. \A l : Registers(l) = hw[l]
    BY <1>1 DEF Registers
  <1>7. /\ probe \in [stage: Stages, IsBridgeFlag: BOOLEAN, IsPcie: BOOLEAN]
        /\ stage # "vendor" => Answers(Here(f))
    BY <1>1, <1>2 DEF ReadsInv, ProbeOK, Current
  <1>8. f.Fun = 0 => f.MaxFun = IF stage \in {"vendor", "multi"} THEN 1 ELSE BoundShown(f)
    BY <1>2, <1>4, <1>5 DEF FrameShown
  <1>9. QED
    BY <1>1, <1>2, <1>3, <1>6, <1>7, <1>8 DEF Current
(* A step that leaves the activations alone. *)
LEMMA SameShown ==
  ASSUME LoopShown, UNCHANGED <<hw, scans>>,
         probe'.stage = "multi" => Top(scans).Fun = 0,
         probe'.stage \in {"vendor", "multi"} <=> probe.stage \in {"vendor", "multi"}
  PROVE  LoopShown'
  BY DEF LoopShown, FrameShown, BoundShown

(* The next function of the device is not function 0. *)
LEMMA NextFunctionShown ==
  ASSUME SteadyInv, NEW stage, Reading(stage), NEW g, g.Fun = Top(scans).Fun + 1,
         scans' = SetTop(scans, g), probe'.stage # "multi", UNCHANGED hw
  PROVE  LoopShown'
PROOF
  <1>1. LoopShown /\ scans \in Seq(ScanFrames) /\ scans # <<>> /\ g.Fun # 0
    BY SteadyReading
  <1>2. Seq(ScanFrames) \subseteq Seq(ScanFrames \cup {g})
    BY SeqSubset
  <1>3. QED
    BY <1>1, <1>2, ReplaceShown

LEMMA ReadingShown ==
  ASSUME SteadyInv, ReadVendor \/ ReadMulti \/ ReadBridge \/ ReadPcie
  PROVE  LoopShown'
PROOF
  <1>. DEFINE f == Top(scans)
  <1>1. UNCHANGED hw
    BY DEF ReadVendor, ReadMulti, ReadBridge, ReadPcie, untouched, platform
  <1>2. CASE ReadVendor
    <2>1. Reading("vendor")
      BY <1>2 DEF ReadVendor
    <2>2. /\ LoopShown /\ probe.stage = "vendor" /\ Current = Here(f) /\ f \in ScanFrames
          /\ probe \in [stage: Stages, IsBridgeFlag: BOOLEAN, IsPcie: BOOLEAN]
      BY <2>1, SteadyReading
    <2>3. CASE UNCHANGED probe /\ scans' = SetTop(scans, NextFunction(f))
      <3>1. NextFunction(f).Fun = f.Fun + 1
        BY <2>2 DEF NextFunction, ScanFrames
      <3>2. QED
        BY <1>1, <2>1, <2>2, <2>3, <3>1, NextFunctionShown
    <2>4. CASE UNCHANGED scans /\ Proceed("multi") /\ f.Fun = 0
      <3>1. probe'.stage = "multi"
        BY <2>2, <2>4 DEF Proceed
      <3>2. QED
        BY <1>1, <2>2, <2>4, <3>1, SameShown
    <2>5. CASE UNCHANGED scans /\ Proceed("bridge") /\ f.Fun # 0
      <3>1. probe'.stage = "bridge"
        BY <2>2, <2>5 DEF Proceed
      <3>2. \A k \in 1 .. Len(scans) : scans[k].Fun # 0
        BY <2>2, <2>5 DEF LoopShown, FrameShown, Top
      <3>3. QED
        BY <2>5, <3>1, <3>2 DEF LoopShown, FrameShown
    <2>6. Current.Fun = f.Fun
      BY <2>2 DEF Here
    <2>7. QED
      BY <1>2, <2>3, <2>4, <2>5, <2>6 DEF ReadVendor
  <1>3. CASE ReadMulti
    <2>. DEFINE g == LoopBoundNow(f)
    <2>1. Reading("multi") /\ scans' = SetTop(scans, g) /\ Proceed("bridge")
      BY <1>3 DEF ReadMulti
    <2>2. /\ LoopShown /\ probe.stage = "multi" /\ Current = Here(f) /\ f \in ScanFrames
          /\ scans \in Seq(ScanFrames) /\ scans # <<>>
          /\ probe \in [stage: Stages, IsBridgeFlag: BOOLEAN, IsPcie: BOOLEAN]
          /\ f.Fun = 0 => f.MaxFun = 1
      BY <2>1, SteadyReading
    <2>3. Registers(Current) = hw[Current]
      BY <2>1, SteadyReading
    <2>4. f.Fun = 0
      BY <2>2 DEF LoopShown
    <2>5. /\ g.Fun = 0 /\ Here(g) = Here(f)
          /\ g.MaxFun = IF hw[Here(f)].multi THEN LastFun + 1 ELSE 1
      BY <2>2, <2>3, <2>4 DEF LoopBoundNow, ScanFrames, Here
    <2>6. probe'.stage = "bridge"
      BY <2>1, <2>2 DEF Proceed
    <2>7. Seq(ScanFrames) \subseteq Seq(ScanFrames \cup {g})
      BY SeqSubset
    <2>. HIDE DEF g
    <2>8. BoundShown(g) = g.MaxFun
      BY <2>5 DEF BoundShown
    <2>9. QED
      BY <1>1, <2>1, <2>2, <2>5, <2>6, <2>7, <2>8, ReplaceShown
  <1>4. CASE ReadBridge \/ ReadPcie
    <2>1. \/ Reading("bridge") /\ probe' = [probe EXCEPT !.stage = "pcie",
                                            !.IsBridgeFlag = Registers(Current).bridge]
          \/ Reading("pcie") /\ probe' = [probe EXCEPT !.stage = "create",
                                          !.IsPcie = PcieNow(Current)]
      BY <1>4 DEF ReadBridge, ReadPcie
    <2>2. /\ LoopShown /\ probe.stage \in {"bridge", "pcie"}
          /\ probe \in [stage: Stages, IsBridgeFlag: BOOLEAN, IsPcie: BOOLEAN]
      BY <2>1, SteadyReading
    <2>3. probe'.stage \in {"pcie", "create"}
      BY <2>1, <2>2
    <2>4. UNCHANGED scans
      BY <1>4 DEF ReadBridge, ReadPcie
    <2>5. QED
      BY <1>1, <2>2, <2>3, <2>4, SameShown
  <1>5. QED
    BY <1>2, <1>3, <1>4
LEMMA CreateShown ==
  ASSUME SteadyInv, Create \/ CreateFails
  PROVE  LoopShown'
PROOF
  <1>. DEFINE f == Top(scans)
              L == Len(heap)
  <1>1. UNCHANGED hw /\ Reading("create")
    BY DEF Create, CreateFails, untouched, platform
  <1>2. /\ LoopShown /\ probe.stage = "create" /\ f \in ScanFrames
        /\ scans \in Seq(ScanFrames) /\ scans # <<>>
        /\ probe \in [stage: Stages, IsBridgeFlag: BOOLEAN, IsPcie: BOOLEAN]
    BY <1>1, SteadyReading
  <1>3. f.Fun = 0 => f.MaxFun = BoundShown(f)
    BY <1>1, SteadyReading
  <1>4. CASE CreateFails
    <2>1. NextFunction(f).Fun = f.Fun + 1
      BY <1>2 DEF NextFunction, ScanFrames
    <2>2. scans' = SetTop(scans, NextFunction(f)) /\ probe'.stage = "vendor"
      BY <1>4 DEF CreateFails, Unread
    <2>3. QED
      BY <1>1, <2>1, <2>2, NextFunctionShown
  <1>5. CASE Create
    <2>0. PICK e \in ScanFrames' : Extended(e, L, f)
      BY <1>5, CreateFrame DEF SteadyInv, FlagsInv
    <2>1. /\ scans' = SetTop(scans, e)
          /\ \/ /\ probe.IsBridgeFlag /\ probe' = [probe EXCEPT !.stage = "secondary"]
                /\ e.Seg = f.Seg /\ e.Bus = f.Bus /\ e.Dev = f.Dev /\ e.Fun = f.Fun
                /\ e.MaxFun = f.MaxFun
             \/ ~probe.IsBridgeFlag /\ probe' = Unread /\ e.Fun = f.Fun + 1
      BY <2>0 DEF Extended
    <2>2. CASE probe.IsBridgeFlag
      <3>1. probe'.stage = "secondary" /\ e.Fun = f.Fun /\ e.MaxFun = f.MaxFun /\ Here(e) = Here(f)
        BY <1>2, <2>1, <2>2 DEF Here
      <3>2. e.Fun = 0 => e.MaxFun = BoundShown(e)
        BY <1>3, <3>1 DEF BoundShown
      <3>3. Seq(ScanFrames) \subseteq Seq(ScanFrames \cup {e})
        BY SeqSubset
      <3>4. QED
        BY <1>1, <1>2, <2>1, <3>1, <3>2, <3>3, ReplaceShown
    <2>3. CASE ~probe.IsBridgeFlag
      <3>1. probe'.stage = "vendor" /\ e.Fun = f.Fun + 1
        BY <2>1, <2>3 DEF Unread
      <3>2. QED
        BY <1>1, <2>1, <3>1, NextFunctionShown
    <2>4. QED
      BY <2>2, <2>3
  <1>6. QED
    BY <1>4, <1>5

LEMMA ReadSecondaryShown ==
  ASSUME SteadyInv, ReadSecondary
  PROVE  LoopShown'
PROOF
  <1>. DEFINE f == Top(scans)
              g == NextFunction(f)
              b == BusBehind(f)
              D == Len(scans)
              s == SetTop(scans, g)
  <1>1. Reading("secondary") /\ scans' = Append(s, b) /\ probe'.stage = "vendor"
    BY DEF ReadSecondary, Unread
  <1>2. /\ LoopShown /\ f \in ScanFrames /\ scans \in Seq(ScanFrames) /\ scans # <<>>
        /\ f.Fun + 1 # 0
    BY <1>1, SteadyReading
  <1>3. b.Fun = 0 /\ b.MaxFun = 1
    BY DEF BusBehind, ScanFrame
  <1>4. g.Fun # 0
    BY <1>2 DEF NextFunction, ScanFrames
  <1>5. Seq(ScanFrames) \subseteq Seq(ScanFrames \cup {g, b})
    BY SeqSubset
  <1>6. ReplacesTop(ScanFrames \cup {g, b}, scans, g, s) /\ D \in Nat \ {0}
    BY <1>2, <1>5, SetTopReplaces, TopLemma
  <1>. HIDE DEF b, s, g, D
  <1>7. s \in Seq(ScanFrames \cup {g, b}) /\ Len(s) = D /\ s[D] = g
        /\ \A k \in 1 .. D - 1 : s[k] = scans[k]
    BY <1>6 DEF ReplacesTop, D
  <1>8. Len(scans') = D + 1 /\ scans'[D + 1] = b /\ \A k \in 1 .. D : scans'[k] = s[k]
    BY <1>1, <1>7, AppendLemma
  <1>9. ASSUME NEW k \in 1 .. D PROVE scans'[k].Fun # 0
    <2>1. CASE k = D
      BY <1>4, <1>7, <1>8, <2>1
    <2>2. CASE k \in 1 .. D - 1
      BY <1>2, <1>6, <1>7, <1>8, <2>2 DEF LoopShown, FrameShown, D
    <2>3. QED
      BY <1>6, <2>1, <2>2
  <1>10. \A k \in 1 .. D + 1 : k \in 1 .. D \/ k = D + 1
    BY <1>6
  <1>11. \A k \in 1 .. D + 1 : FrameShown(k)'
    BY <1>1, <1>3, <1>8, <1>9, <1>10 DEF FrameShown
  <1>12. QED
    BY <1>1, <1>8, <1>11 DEF LoopShown

LEMMA OtherwiseShown ==
  ASSUME SteadyInv, Otherwise
  PROVE  LoopShown'
PROOF
  <1>1. probe.stage = "vendor" /\ UNCHANGED <<gone, probe, hw>> /\ LoopShown
    BY OtherwiseNext DEF SteadyInv, FlagsInv
  <1>2. scans \in Seq(ScanFrames) /\ (scans # <<>> <=> pc = "scan")
    BY DEF SteadyInv, FlagsInv, ReadsInv, FreeInv, HolderInv, ShapeInv, TypeInv, TypeOK, StackTypeOK
  <1>3. CASE UNCHANGED scans
    BY <1>1, <1>3, SameShown
  <1>4. CASE BeginSegment
    BY <1>1, <1>4 DEF BeginSegment, ScanFrame, LoopShown, FrameShown
  <1>5. CASE NextDevice
    <2>. DEFINE g == [Top(scans) EXCEPT !.Dev = @ + 1, !.Fun = 0, !.MaxFun = 1]
    <2>1. scans' = SetTop(scans, g) /\ pc = "scan"
      BY <1>5 DEF NextDevice
    <2>2. Top(scans) \in ScanFrames
      BY <1>2, <2>1, TopLemma
    <2>3. g.Fun = 0 /\ g.MaxFun = 1
      BY <2>2 DEF ScanFrames
    <2>4. Seq(ScanFrames) \subseteq Seq(ScanFrames \cup {g})
      BY SeqSubset
    <2>. HIDE DEF g
    <2>5. QED
      BY <1>1, <1>2, <2>1, <2>3, <2>4, ReplaceShown
  <1>6. CASE ReturnToBridge
    <2>1. scans' = Below(scans) /\ scans # <<>> /\ Len(scans) \in Nat \ {0}
      BY <1>2, <1>6, TopLemma DEF ReturnToBridge
    <2>2. Len(scans') = Len(scans) - 1 /\ \A k \in 1 .. Len(scans) - 1 : scans'[k] = scans[k]
      BY <1>2, <2>1, BelowLemma
    <2>3. ASSUME NEW k \in 1 .. Len(scans) - 1 PROVE scans'[k].Fun # 0
      <3>1. k \in 1 .. Len(scans) /\ k # Len(scans)
        BY <2>1
      <3>2. QED
        BY <1>1, <2>2, <3>1 DEF LoopShown, FrameShown
    <2>4. QED
      BY <1>1, <2>2, <2>3 DEF LoopShown, FrameShown
  <1>7. CASE ReturnToSegment
    BY <1>1, <1>7 DEF ReturnToSegment, LoopShown, FrameShown
  <1>8. QED
    BY <1>3, <1>4, <1>5, <1>6, <1>7 DEF Otherwise, SkipEmptySegment, LinkSegment, LastSiblingStep,
       LastSiblingReturn, EndSegments, Walk, BeginWalk, SkipWalk, Visit, ReturnFromWalk, Free,
       FreeEnter, Release, ReturnFromFree

LEMMA NextSteady == SteadyInv /\ [Program]_scanVars => SteadyInv'
PROOF
  <1>. SUFFICES ASSUME SteadyInv, [Program]_scanVars PROVE SteadyInv'
    OBVIOUS
  <1>1. FlagsInv'
    BY NextFlags DEF SteadyInv, ReadsNext
  <1>2. gone' = gone
    BY DEF Program, ReadVendor, ReadMulti, ReadBridge, ReadPcie, Create, CreateFails, ReadSecondary,
       Otherwise, untouched, scanVars
  <1>3. CASE UNCHANGED scanVars
    <2>1. UNCHANGED <<hw, scans, probe>>
      BY <1>3 DEF scanVars, vars
    <2>2. QED
      BY <1>1, <1>2, <2>1, SameShown DEF SteadyInv, LoopShown
  <1>4. CASE Program
    BY <1>1, <1>2, <1>4, ReadingShown, CreateShown, ReadSecondaryShown, OtherwiseShown
    DEF Program, SteadyInv
  <1>5. QED
    BY <1>3, <1>4
-----------------------------------------------------------------------------
(* The activations of PciTree's scan.  Until the node of the function is made,
   the running one has not raised its bound; afterwards the bus behind a
   bridge is being scanned. *)
Unraised(f) == IF f.Fun = 0 THEN [f EXCEPT !.MaxFun = 1] ELSE f

LEMMA ReplacedTwice ==
  ASSUME NEW S, NEW s \in Seq(S), s # <<>>, NEW a, NEW b
  PROVE  SetTop(s, Top(s)) = s /\ SetTop(SetTop(s, a), b) = SetTop(s, b)
PROOF
  <1>1. Len(s) \in DOMAIN s /\ Len(SetTop(s, a)) = Len(s)
    <2>1. Len(s) \in 1 .. Len(s) /\ DOMAIN s = 1 .. Len(s) /\ Len(s) \in Nat
      OBVIOUS
    <2>2. DOMAIN SetTop(s, a) = 1 .. Len(s)
      BY <2>1 DEF SetTop
    <2>3. QED
      BY <2>1, <2>2
  <1>2. SetTop(s, Top(s)) = s
    BY <1>1 DEF SetTop, Top
  <1>3. SetTop(SetTop(s, a), b) = [[s EXCEPT ![Len(s)] = a] EXCEPT ![Len(s)] = b]
    BY <1>1 DEF SetTop
  <1>4. [[s EXCEPT ![Len(s)] = a] EXCEPT ![Len(s)] = b] = [s EXCEPT ![Len(s)] = b]
    OBVIOUS
  <1>5. QED
    BY <1>2, <1>3, <1>4 DEF SetTop

LEMMA AtomicBetween ==
  ASSUME probe.stage \in {"vendor", "multi"}
  PROVE  AtomicScans = scans
  BY Zenon DEF AtomicScans

LEMMA AtomicWithin ==
  ASSUME scans \in Seq(ScanFrames), scans # <<>>, probe.stage \in {"bridge", "pcie", "create"}
  PROVE  /\ AtomicScans = SetTop(scans, Unraised(Top(scans)))
         /\ AtomicScans # <<>> /\ Top(AtomicScans) = Unraised(Top(scans))
         /\ \A g : SetTop(AtomicScans, g) = SetTop(scans, g)
PROOF
  <1>. DEFINE f == Top(scans)
  <1>1. AtomicScans = IF f.Fun = 0 THEN SetTop(scans, [f EXCEPT !.MaxFun = 1]) ELSE scans
    <2>1. CASE f.Fun = 0
      BY <2>1, Zenon DEF AtomicScans
    <2>2. CASE f.Fun # 0
      BY <2>2, Zenon DEF AtomicScans
    <2>3. QED
      BY <2>1, <2>2
  <1>2. SetTop(scans, f) = scans /\ \A a, b : SetTop(SetTop(scans, a), b) = SetTop(scans, b)
    <2>1. ASSUME NEW a, NEW b PROVE SetTop(SetTop(scans, a), b) = SetTop(scans, b)
      BY ReplacedTwice
    <2>2. SetTop(scans, f) = scans
      BY ReplacedTwice
    <2>3. QED
      BY <2>1, <2>2
  <1>3. AtomicScans = SetTop(scans, Unraised(f))
    BY <1>1, <1>2 DEF Unraised
  <1>. DEFINE g == Unraised(f)
  <1>4. Seq(ScanFrames) \subseteq Seq(ScanFrames \cup {g})
    BY SeqSubset
  <1>. HIDE DEF f, g
  <1>5. ReplacesTop(ScanFrames \cup {g}, scans, g, SetTop(scans, g)) /\ SetTop(scans, g) # <<>>
    <2>1. ReplacesTop(ScanFrames \cup {g}, scans, g, SetTop(scans, g))
      BY <1>4, SetTopReplaces
    <2>2. Len(scans) \in Nat \ {0}
      BY TopLemma
    <2>3. QED
      BY <2>1, <2>2 DEF ReplacesTop
  <1>6. Len(SetTop(scans, g)) = Len(scans) /\ SetTop(scans, g)[Len(scans)] = g
    BY <1>5 DEF ReplacesTop
  <1>7. Top(SetTop(scans, g)) = g
    BY <1>6 DEF Top
  <1>8. QED
    BY <1>2, <1>3, <1>5, <1>7 DEF f, g

LEMMA AtomicBehind ==
  ASSUME probe.stage = "secondary"
  PROVE  AtomicScans = Append(SetTop(scans, NextFunction(Top(scans))),
                              ScanBehind(Top(scans), Len(heap)))
  BY Zenon DEF AtomicScans

(* What does not depend on the activations is the same in both. *)
LEMMA AtomicAnswers ==
  ASSUME NEW f
  PROVE  Atomic!Answers(Atomic!Here(f)) = Answers(Here(f))
  BY DEF Answers, Atomic!Answers, Here, Atomic!Here, HasRoute, Atomic!HasRoute, IsLegacy,
     Atomic!IsLegacy, LegacySize, Atomic!LegacySize, FindEcamBaseForSegment,
     Atomic!FindEcamBaseForSegment, EntriesFor, Atomic!EntriesFor

LEMMA AtomicStutter ==
  ASSUME UNCHANGED <<heap, lost, untouched>>, AtomicScans' = AtomicScans
  PROVE  UNCHANGED Atomic!vars
  BY DEF Atomic!vars, untouched, platform, locals

LEMMA AtomicTop == Atomic!Top(AtomicScans) = Top(AtomicScans)
  BY DEF Atomic!Top, Top
(* The steps that only read of a function: of PciTree they are none, but for
   the reading of the vendor ID of a function that is not there. *)
LEMMA ReadVendorRefines ==
  ASSUME SteadyInv, ReadVendor
  PROVE  Atomic!SkipAbsent \/ UNCHANGED Atomic!vars
PROOF
  <1>. DEFINE f == Top(scans)
  <1>1. Reading("vendor") /\ UNCHANGED <<heap, lost, untouched>>
    BY DEF ReadVendor
  <1>2. /\ probe.stage = "vendor" /\ InFunctionLoop /\ Current = Here(f) /\ gone = {}
        /\ probe \in [stage: Stages, IsBridgeFlag: BOOLEAN, IsPcie: BOOLEAN]
    BY <1>1, SteadyReading DEF SteadyInv
  <1>3. AtomicScans = scans
    BY <1>2, AtomicBetween
  <1>4. CASE Answers(Here(f))
    <2>1. UNCHANGED scans /\ (Proceed("multi") \/ (Proceed("bridge") /\ f.Fun # 0))
      <3>1. Current.Fun = f.Fun
        BY <1>2 DEF Here
      <3>2. UNCHANGED scans /\ Proceed(IF Current.Fun = 0 THEN "multi" ELSE "bridge")
        BY <1>2, <1>4 DEF ReadVendor
      <3>3. QED
        BY <3>1, <3>2
    <2>2. probe'.stage = "multi" \/ (probe'.stage = "bridge" /\ f.Fun # 0)
      BY <1>2, <2>1 DEF Proceed
    <2>3. AtomicScans' = scans'
      <3>1. CASE probe'.stage = "multi"
        BY <3>1, Zenon DEF AtomicScans
      <3>2. CASE probe'.stage = "bridge" /\ Top(scans').Fun # 0
        BY <3>2, Zenon DEF AtomicScans
      <3>3. QED
        BY <2>1, <2>2, <3>1, <3>2
    <2>4. QED
      BY <1>1, <1>3, <2>1, <2>3, AtomicStutter
  <1>5. CASE ~Answers(Here(f))
    <2>1. scans' = SetTop(scans, NextFunction(f)) /\ UNCHANGED probe
      BY <1>2, <1>5 DEF ReadVendor
    <2>2. AtomicScans' = scans'
      <3>1. probe'.stage = "vendor"
        BY <1>2, <2>1
      <3>2. QED
        BY <3>1, Zenon DEF AtomicScans
    <2>3. ~Atomic!Answers(Atomic!Here(f))
      BY <1>5, AtomicAnswers
    <2>4. Atomic!InFunctionLoop
      BY <1>2, <1>3 DEF Atomic!InFunctionLoop, InFunctionLoop, Atomic!Top, Top
    <2>5. AtomicScans' = Atomic!SetTop(AtomicScans, [f EXCEPT !.Fun = @ + 1])
      BY <1>3, <2>1, <2>2 DEF Atomic!SetTop, SetTop, NextFunction
    <2>6. Atomic!Top(AtomicScans) = f
      BY <1>3, AtomicTop
    <2>7. Atomic!SkipAbsent
      BY <1>1, <2>3, <2>4, <2>5, <2>6
      DEF Atomic!SkipAbsent, untouched, platform, locals, Atomic!platform, Atomic!locals
    <2>8. QED
      BY <2>7
  <1>6. QED
    BY <1>4, <1>5

LEMMA ReadMultiRefines ==
  ASSUME SteadyInv, ReadMulti
  PROVE  UNCHANGED Atomic!vars
PROOF
  <1>. DEFINE f == Top(scans)
              g == LoopBoundNow(f)
  <1>1. /\ Reading("multi") /\ UNCHANGED <<heap, lost, untouched>>
        /\ scans' = SetTop(scans, g) /\ Proceed("bridge")
    BY DEF ReadMulti
  <1>2. /\ probe.stage = "multi" /\ LoopShown /\ scans \in Seq(ScanFrames) /\ scans # <<>>
        /\ f \in ScanFrames /\ (f.Fun = 0 => f.MaxFun = 1)
        /\ probe \in [stage: Stages, IsBridgeFlag: BOOLEAN, IsPcie: BOOLEAN]
    BY <1>1, SteadyReading
  <1>3. AtomicScans = scans /\ probe'.stage = "bridge" /\ f.Fun = 0 /\ f.MaxFun = 1
    BY <1>1, <1>2, AtomicBetween DEF Proceed, LoopShown
  <1>4. g.Fun = 0 /\ [g EXCEPT !.MaxFun = 1] = f
    <2>. HIDE DEF f
    <2>1. QED
      BY <1>2, <1>3 DEF LoopBoundNow, ScanFrames
  <1>5. Seq(ScanFrames) \subseteq Seq(ScanFrames \cup {g})
    BY SeqSubset
  <1>. HIDE DEF f, g
  <1>6. ReplacesTop(ScanFrames \cup {g}, scans, g, scans')
    BY <1>1, <1>2, <1>5, SetTopReplaces
  <1>7. Top(scans') = g
    BY <1>6 DEF ReplacesTop, Top
  <1>8. AtomicScans' = SetTop(scans', [Top(scans') EXCEPT !.MaxFun = 1])
    BY <1>3, <1>4, <1>7, Zenon DEF AtomicScans
  <1>9. AtomicScans' = SetTop(SetTop(scans, g), f)
    BY <1>1, <1>4, <1>7, <1>8
  <1>10. SetTop(SetTop(scans, g), f) = SetTop(scans, f) /\ SetTop(scans, Top(scans)) = scans
    BY <1>2, ReplacedTwice
  <1>11. QED
    BY <1>1, <1>3, <1>9, <1>10, AtomicStutter DEF f

LEMMA ReadFlagsRefines ==
  ASSUME SteadyInv, ReadBridge \/ ReadPcie
  PROVE  UNCHANGED Atomic!vars
PROOF
  <1>1. /\ UNCHANGED <<heap, lost, untouched>> /\ UNCHANGED scans
        /\ \/ Reading("bridge") /\ probe' = [probe EXCEPT !.stage = "pcie",
                                             !.IsBridgeFlag = Registers(Current).bridge]
           \/ Reading("pcie") /\ probe' = [probe EXCEPT !.stage = "create",
                                           !.IsPcie = PcieNow(Current)]
    BY DEF ReadBridge, ReadPcie
  <1>2. /\ probe.stage \in {"bridge", "pcie"}
        /\ probe \in [stage: Stages, IsBridgeFlag: BOOLEAN, IsPcie: BOOLEAN]
    BY <1>1, SteadyReading
  <1>3. probe'.stage \in {"pcie", "create"}
    BY <1>1, <1>2
  <1>. DEFINE f == Top(scans)
              h == [f EXCEPT !.MaxFun = 1]
  <1>4. CASE f.Fun = 0
    <2>1. AtomicScans = SetTop(scans, h)
      BY <1>2, <1>4, Zenon DEF AtomicScans
    <2>2. AtomicScans' = SetTop(scans', [Top(scans') EXCEPT !.MaxFun = 1])
      BY <1>1, <1>3, <1>4, Zenon DEF AtomicScans
    <2>3. QED
      BY <1>1, <2>1, <2>2, AtomicStutter
  <1>5. CASE f.Fun # 0
    <2>1. AtomicScans = scans
      BY <1>2, <1>5, Zenon DEF AtomicScans
    <2>2. AtomicScans' = scans'
      BY <1>1, <1>3, <1>5, Zenon DEF AtomicScans
    <2>3. QED
      BY <1>1, <2>1, <2>2, AtomicStutter
  <1>6. QED
    BY <1>4, <1>5

LEMMA ReadSecondaryRefines ==
  ASSUME SteadyInv, ReadSecondary
  PROVE  UNCHANGED Atomic!vars
PROOF
  <1>. DEFINE f == Top(scans)
  <1>1. /\ Reading("secondary") /\ UNCHANGED <<heap, lost, untouched>> /\ probe'.stage = "vendor"
        /\ scans' = Append(SetTop(scans, NextFunction(f)), BusBehind(f))
    BY DEF ReadSecondary, Unread
  <1>2. probe.stage = "secondary" /\ Current = Here(f) /\ Registers(Current) = hw[Current]
    BY <1>1, SteadyReading
  <1>3. AtomicScans' = scans'
    BY <1>1, Zenon DEF AtomicScans
  <1>4. AtomicScans = Append(SetTop(scans, NextFunction(f)), ScanBehind(f, Len(heap)))
    BY <1>2, AtomicBehind
  <1>5. BusBehind(f) = ScanBehind(f, Len(heap))
    BY <1>2 DEF BusBehind, ScanBehind
  <1>6. QED
    BY <1>1, <1>3, <1>4, <1>5, AtomicStutter
(* The step that makes the node is the step of PciTree.  What it finds: *)
Counted(f, b) == [f EXCEPT !.Fun = @ + 1, !.MaxFun = b]

LEMMA BoundRaised ==
  ASSUME NEW f \in ScanFrames, f.Fun = 0 => f.MaxFun = BoundShown(f), f.Fun < f.MaxFun,
         NEW t, t = Unraised(f)
  PROVE  /\ t \in ScanFrames /\ Here(t) = Here(f) /\ LoopBound(t) = f.MaxFun
         /\ t.Seg = f.Seg /\ t.Dev = f.Dev /\ t.Fun = f.Fun /\ t.Tail = f.Tail /\ t.Head = f.Head
         /\ t.Fun < t.MaxFun
         /\ \A b : Counted(t, b) = Counted(f, b)
PROOF
  <1>1. CASE f.Fun = 0
    <2>1. t = [f EXCEPT !.MaxFun = 1]
      BY <1>1 DEF Unraised
    <2>2. /\ t \in ScanFrames /\ t.Seg = f.Seg /\ t.Bus = f.Bus /\ t.Dev = f.Dev /\ t.Fun = f.Fun
          /\ t.Tail = f.Tail /\ t.Head = f.Head /\ t.MaxFun = 1
      BY <2>1 DEF ScanFrames
    <2>3. Here(t) = Here(f)
      BY <2>2 DEF Here
    <2>4. LoopBound(t) = f.MaxFun
      BY <1>1, <2>2, <2>3 DEF LoopBound, BoundShown
    <2>5. ASSUME NEW b PROVE Counted(t, b) = Counted(f, b)
      BY <2>1 DEF Counted, ScanFrames
    <2>6. QED
      BY <1>1, <2>2, <2>3, <2>4, <2>5
  <1>2. CASE f.Fun # 0
    BY <1>2 DEF Unraised, LoopBound
  <1>3. QED
    BY <1>1, <1>2

(* The two effects of it, as PciTree states them. *)
LEMMA AtomicNoMemory ==
  ASSUME NEW t, t = Top(AtomicScans), pc = "scan", t.Dev <= LastDev, t.Fun < t.MaxFun,
         Answers(Here(t)), lost' = lost \cup {Here(t)},
         AtomicScans' = SetTop(AtomicScans, [t EXCEPT !.Fun = @ + 1, !.MaxFun = LoopBound(t)]),
         UNCHANGED <<heap, untouched>>
  PROVE  Atomic!NoMemory
PROOF
  <1>1. Atomic!Answers(Atomic!Here(t)) /\ Atomic!Top(AtomicScans) = t /\ Atomic!Here(t) = Here(t)
    BY AtomicAnswers, AtomicTop DEF Atomic!Here, Here
  <1>2. Atomic!LoopBound(t) = LoopBound(t)
    BY DEF Atomic!LoopBound, LoopBound, Atomic!Here, Here
  <1>3. AtomicScans' = Atomic!SetTop(AtomicScans,
                          [t EXCEPT !.Fun = @ + 1, !.MaxFun = Atomic!LoopBound(t)])
    BY <1>2 DEF Atomic!SetTop, SetTop
  <1>4. Atomic!InFunctionLoop
    BY <1>1 DEF Atomic!InFunctionLoop
  <1>5. QED
    BY <1>1, <1>3, <1>4
    DEF Atomic!NoMemory, untouched, platform, locals, Atomic!platform, Atomic!locals

LEMMA AtomicAddNode ==
  ASSUME NEW t, t = Top(AtomicScans), pc = "scan", t.Dev <= LastDev, t.Fun < t.MaxFun,
         Answers(Here(t)), Len(heap) < PoolSize, heap' = WithNode(t),
         NEW g, g = [t EXCEPT !.Fun = @ + 1, !.MaxFun = LoopBound(t), !.Tail = Len(heap) + 1,
                              !.Head = IF t.Tail = NULL THEN Len(heap) + 1 ELSE @],
         AtomicScans' = IF hw[Here(t)].bridge
                          THEN Append(SetTop(AtomicScans, g), ScanBehind(t, Len(heap) + 1))
                          ELSE SetTop(AtomicScans, g),
         UNCHANGED <<lost, untouched>>
  PROVE  Atomic!AddNode
PROOF
  <1>1. Atomic!Answers(Atomic!Here(t)) /\ Atomic!Top(AtomicScans) = t /\ Atomic!Here(t) = Here(t)
    BY AtomicAnswers, AtomicTop DEF Atomic!Here, Here
  <1>2. Atomic!LoopBound(t) = LoopBound(t)
    BY DEF Atomic!LoopBound, LoopBound, Atomic!Here, Here
  <1>3. Atomic!WithNode(t) = WithNode(t)
    BY DEF Atomic!WithNode, WithNode, Atomic!CreateNode, CreateNode, Atomic!Here, Here,
       Atomic!NULL, NULL
  <1>4. Atomic!ScanBehind(t, Len(heap) + 1) = ScanBehind(t, Len(heap) + 1)
    BY DEF Atomic!ScanBehind, ScanBehind, Atomic!ScanFrame, ScanFrame, Atomic!Here, Here,
       Atomic!NULL, NULL
  <1>5. Atomic!SetTop(AtomicScans, g) = SetTop(AtomicScans, g)
    BY DEF Atomic!SetTop, SetTop
  <1>6. g = [t EXCEPT !.Fun = @ + 1, !.MaxFun = Atomic!LoopBound(t), !.Tail = Len(heap) + 1,
                      !.Head = IF t.Tail = Atomic!NULL THEN Len(heap) + 1 ELSE @]
    BY <1>2 DEF Atomic!NULL, NULL
  <1>7. Atomic!InFunctionLoop
    BY <1>1 DEF Atomic!InFunctionLoop
  <1>8. AtomicScans' = IF hw[Atomic!Here(t)].bridge
                         THEN Append(Atomic!SetTop(AtomicScans, g),
                                     Atomic!ScanBehind(t, Len(heap) + 1))
                         ELSE Atomic!SetTop(AtomicScans, g)
    BY <1>1, <1>4, <1>5
  <1>9. UNCHANGED <<hw, table, freed, root, pc, index, segRoot, tail, walks, frees, report, lost>>
    BY DEF untouched, platform, locals
  <1>10. QED
    BY <1>1, <1>3, <1>6, <1>7, <1>8, <1>9 DEF Atomic!AddNode, Atomic!platform, Atomic!locals
(* What the running activation and the one of PciTree have in common while a
   node is made. *)
LEMMA CreateReading ==
  ASSUME SteadyInv, Reading("create"), NEW f, f = Top(scans), NEW t, t = Unraised(f)
  PROVE  /\ scans \in Seq(ScanFrames) /\ scans # <<>> /\ f \in ScanFrames /\ Current = Here(f)
         /\ pc = "scan" /\ Answers(Here(t)) /\ Here(t) = Here(f)
         /\ t = Top(AtomicScans) /\ \A g : SetTop(AtomicScans, g) = SetTop(scans, g)
         /\ t.Dev <= LastDev /\ t.Fun < t.MaxFun /\ LoopBound(t) = f.MaxFun
         /\ t.Seg = f.Seg /\ t.Fun = f.Fun /\ t.Tail = f.Tail /\ t.Head = f.Head
         /\ Counted(t, f.MaxFun) = Counted(f, f.MaxFun)
PROOF
  <1>1. /\ scans \in Seq(ScanFrames) /\ scans # <<>> /\ f \in ScanFrames /\ Current = Here(f)
        /\ probe.stage = "create" /\ InFunctionLoop /\ Answers(Here(f))
    BY SteadyReading
  <1>2. f.Fun = 0 => f.MaxFun = BoundShown(f)
    BY SteadyReading
  <1>3. pc = "scan" /\ f.Dev <= LastDev /\ f.Fun < f.MaxFun
    BY <1>1 DEF InFunctionLoop
  <1>4. /\ t.Dev = f.Dev /\ Here(t) = Here(f) /\ t.Fun < t.MaxFun /\ LoopBound(t) = f.MaxFun
        /\ t.Seg = f.Seg /\ t.Fun = f.Fun /\ t.Tail = f.Tail /\ t.Head = f.Head
        /\ Counted(t, f.MaxFun) = Counted(f, f.MaxFun)
    BY <1>1, <1>2, <1>3, BoundRaised
  <1>5. t = Top(AtomicScans) /\ \A g : SetTop(AtomicScans, g) = SetTop(scans, g)
    BY <1>1, AtomicWithin
  <1>6. QED
    BY <1>1, <1>3, <1>4, <1>5

LEMMA CreateFailsRefines ==
  ASSUME SteadyInv, CreateFails
  PROVE  Atomic!NoMemory
PROOF
  <1>. DEFINE f == Top(scans)
              t == Unraised(f)
  <1>1. /\ Reading("create") /\ UNCHANGED <<heap, untouched>> /\ lost' = lost \cup {Current}
        /\ scans' = SetTop(scans, NextFunction(f)) /\ probe'.stage = "vendor"
    BY DEF CreateFails, Unread
  <1>2. /\ f \in ScanFrames /\ Current = Here(f) /\ pc = "scan" /\ Answers(Here(t))
        /\ Here(t) = Here(f) /\ t = Top(AtomicScans) /\ t.Dev <= LastDev /\ t.Fun < t.MaxFun
        /\ LoopBound(t) = f.MaxFun /\ Counted(t, f.MaxFun) = Counted(f, f.MaxFun)
        /\ \A g : SetTop(AtomicScans, g) = SetTop(scans, g)
    BY <1>1, CreateReading
  <1>3. AtomicScans' = scans'
    BY <1>1, Zenon DEF AtomicScans
  <1>. HIDE DEF f, t
  <1>4. Counted(f, f.MaxFun) = NextFunction(f)
    BY <1>2 DEF Counted, NextFunction, ScanFrames
  <1>5. AtomicScans' = SetTop(AtomicScans, Counted(t, LoopBound(t)))
    BY <1>1, <1>2, <1>3, <1>4 DEF f
  <1>6. AtomicScans' = SetTop(AtomicScans, [t EXCEPT !.Fun = @ + 1, !.MaxFun = LoopBound(t)])
    BY <1>5 DEF Counted
  <1>7. QED
    BY <1>1, <1>2, <1>6, AtomicNoMemory

(* CreateNode writes the flags of the function itself. *)
LEMMA CreateHeapAtomic ==
  ASSUME SteadyInv, Create
  PROVE  heap' = WithNode(Top(scans))
PROOF
  <1>. DEFINE f == Top(scans)
              n == Len(heap) + 1
              w == WithNode(f)
  <1>1. Reading("create") /\ heap' = WithFlags(w, n, probe.IsBridgeFlag, probe.IsPcie)
    BY DEF Create, WithFlags
  <1>2. TypeOK /\ HeapTypeOK /\ pc = "scan" /\ probe.stage = "create" /\ ReadsInv
    BY <1>1, ReadingTypes DEF SteadyInv, FlagsInv
  <1>3. Answers(Here(f)) /\ Current = Here(f)
    BY <1>2 DEF ReadsInv, ProbeOK, Current
  <1>4. probe.IsBridgeFlag = hw[Here(f)].bridge /\ probe.IsPcie = hw[Here(f)].pcie
    BY <1>2, <1>3 DEF SteadyInv, FlagsInv, FlagsRead
  <1>5. heap \in Seq(NODE) /\ Len(heap) \in Nat /\ CreateNode(Here(f)) \in NODE
        /\ f \in ScanFrames
    BY <1>2, <1>3, HereType DEF HeapTypeOK
  <1>. DEFINE h == IF f.Tail = NULL THEN heap
                   ELSE [heap EXCEPT ![f.Tail].NextSibling = n]
  <1>6. h \in Seq(NODE) /\ Len(h) = Len(heap)
    <2>1. CASE f.Tail = NULL
      BY <1>5, <2>1
    <2>2. CASE f.Tail # NULL
      <3>1. f.Tail \in 1 .. Len(heap) /\ n \in Nat
        BY <1>5, <2>2 DEF ScanFrames, Ptr, NULL
      <3>2. h = [heap EXCEPT ![f.Tail].NextSibling = n]
        BY <2>2
      <3>. HIDE DEF h, n, f
      <3>3. QED
        BY <1>5, <3>1, <3>2, LinkNextSibling
    <2>3. QED
      BY <2>1, <2>2
  <1>7. w = Append(h, CreateNode(Here(f)))
    BY DEF WithNode
  <1>8. CreateNode(Here(f)).IsBridge = hw[Here(f)].bridge
        /\ CreateNode(Here(f)).IsPcie = hw[Here(f)].pcie
    BY DEF CreateNode
  <1>9. /\ w \in Seq(NODE) /\ Len(w) = n /\ n \in 1 .. Len(w)
        /\ w[n].IsBridge = probe.IsBridgeFlag /\ w[n].IsPcie = probe.IsPcie
    <2>. HIDE DEF h, w
    <2>1. w \in Seq(NODE) /\ Len(w) = Len(h) + 1 /\ w[Len(h) + 1] = CreateNode(Here(f))
      BY <1>5, <1>6, <1>7, AppendLemma
    <2>2. QED
      BY <1>4, <1>5, <1>6, <1>8, <2>1
  <1>. HIDE DEF w, n, f
  <1>10. WithFlags(w, n, w[n].IsBridge, w[n].IsPcie) = w
    <2>1. w[n] \in NODE
      BY <1>9
    <2>2. [w[n] EXCEPT !.IsBridge = w[n].IsBridge, !.IsPcie = w[n].IsPcie] = w[n]
      BY <2>1 DEF NODE
    <2>3. WithFlags(w, n, w[n].IsBridge, w[n].IsPcie) = [w EXCEPT ![n] = w[n]]
      BY <1>9, <2>2 DEF WithFlags
    <2>4. QED
      BY <1>9, <2>3
  <1>11. QED
    BY <1>1, <1>9, <1>10 DEF w, f
(* The running activation with the new node as the end of its chain. *)
Lengthened(t, b, n) ==
  [t EXCEPT !.Fun = @ + 1, !.MaxFun = b, !.Tail = n, !.Head = IF t.Tail = NULL THEN n ELSE @]

LEMMA CreateActivation ==
  ASSUME NEW f \in ScanFrames, NEW t \in ScanFrames, NEW n,
         Counted(t, f.MaxFun) = Counted(f, f.MaxFun), t.Tail = f.Tail, t.Head = f.Head
  PROVE  /\ NextFunction(WithTail(f, n)) = Lengthened(t, f.MaxFun, n)
         /\ WithTail(f, n).Seg = f.Seg /\ Here(WithTail(f, n)) = Here(f)
PROOF
  <1>. DEFINE h == IF f.Tail = NULL THEN n ELSE f.Head
  <1>1. /\ WithTail(f, n) = [f EXCEPT !.Head = h, !.Tail = n]
        /\ Lengthened(t, f.MaxFun, n)
             = [t EXCEPT !.Fun = @ + 1, !.MaxFun = f.MaxFun, !.Tail = n, !.Head = h]
    BY DEF WithTail, Lengthened, ScanFrames
  <1>. HIDE DEF h
  <1>2. [t EXCEPT !.Fun = @ + 1, !.MaxFun = f.MaxFun, !.Tail = n, !.Head = h]
          = [Counted(t, f.MaxFun) EXCEPT !.Tail = n, !.Head = h]
    BY DEF Counted, ScanFrames
  <1>3. NextFunction([f EXCEPT !.Head = h, !.Tail = n])
          = [Counted(f, f.MaxFun) EXCEPT !.Tail = n, !.Head = h]
    BY DEF NextFunction, Counted, ScanFrames
  <1>4. WithTail(f, n).Seg = f.Seg /\ Here(WithTail(f, n)) = Here(f)
    BY <1>1 DEF Here, ScanFrames
  <1>5. QED
    BY <1>1, <1>2, <1>3, <1>4

LEMMA CreateRefines ==
  ASSUME SteadyInv, Create
  PROVE  Atomic!AddNode
PROOF
  <1>. DEFINE f == Top(scans)
              t == Unraised(f)
              n == Len(heap) + 1
              g == WithTail(f, n)
              e == NextFunction(g)
  <1>1. /\ Reading("create") /\ Len(heap) < PoolSize /\ UNCHANGED <<lost, untouched>>
        /\ IF probe.IsBridgeFlag THEN Proceed("secondary") /\ scans' = SetTop(scans, g)
                                 ELSE probe' = Unread /\ scans' = SetTop(scans, e)
    BY DEF Create
  <1>2. /\ scans \in Seq(ScanFrames) /\ scans # <<>> /\ f \in ScanFrames /\ Current = Here(f)
        /\ pc = "scan" /\ Answers(Here(t)) /\ Here(t) = Here(f) /\ t = Top(AtomicScans)
        /\ t.Dev <= LastDev /\ t.Fun < t.MaxFun /\ LoopBound(t) = f.MaxFun
        /\ t.Seg = f.Seg /\ t.Tail = f.Tail /\ t.Head = f.Head
        /\ Counted(t, f.MaxFun) = Counted(f, f.MaxFun)
        /\ \A x : SetTop(AtomicScans, x) = SetTop(scans, x)
    BY <1>1, CreateReading
  <1>3. heap' = WithNode(f) /\ WithNode(t) = WithNode(f)
    <2>1. heap' = WithNode(f)
      BY CreateHeapAtomic
    <2>2. WithNode(t) = WithNode(f)
      BY <1>2 DEF WithNode
    <2>3. QED
      BY <2>1, <2>2
  <1>4. probe.IsBridgeFlag = hw[Here(t)].bridge /\ UNCHANGED hw
        /\ probe \in [stage: Stages, IsBridgeFlag: BOOLEAN, IsPcie: BOOLEAN]
    <2>1. FlagsRead /\ gone = {} /\ probe.stage = "create"
      BY <1>1 DEF SteadyInv, FlagsInv, Reading
    <2>2. UNCHANGED hw
      BY <1>1 DEF untouched, platform
    <2>3. probe \in [stage: Stages, IsBridgeFlag: BOOLEAN, IsPcie: BOOLEAN]
      BY DEF SteadyInv, FlagsInv, ReadsInv, ProbeOK
    <2>4. QED
      BY <1>2, <2>1, <2>2, <2>3 DEF FlagsRead
  <1>5. Len(heap') = n
    BY <1>1, CreateHeap DEF NodeCreated, SteadyInv, FlagsInv
  <1>6. t \in ScanFrames
    <2>1. Unraised(f) \in ScanFrames
      BY <1>2, GeometryAssumption DEF Unraised, ScanFrames
    <2>2. QED
      BY <2>1
  <1>. HIDE DEF f, t, n
  <1>7. /\ e = Lengthened(t, LoopBound(t), n)
        /\ g.Seg = f.Seg /\ Here(g) = Here(f)
    BY <1>2, <1>6, CreateActivation
  <1>. HIDE DEF e, g
  <1>8. AtomicScans' = IF hw[Here(t)].bridge
                         THEN Append(SetTop(AtomicScans, e), ScanBehind(t, n))
                         ELSE SetTop(AtomicScans, e)
    <2>1. CASE probe.IsBridgeFlag
      <3>1. probe'.stage = "secondary" /\ scans' = SetTop(scans, g)
        BY <1>1, <1>4, <2>1 DEF Proceed
      <3>2. AtomicScans' = Append(SetTop(scans', NextFunction(Top(scans'))),
                                  ScanFrame(Top(scans').Seg, hw'[Here(Top(scans'))].secondary,
                                            Len(heap')))
        BY <3>1, Zenon DEF AtomicScans, ScanBehind
      <3>3. Top(scans') = g
        <4>1. Seq(ScanFrames) \subseteq Seq(ScanFrames \cup {g})
          BY SeqSubset
        <4>2. ReplacesTop(ScanFrames \cup {g}, scans, g, scans')
          BY <1>2, <3>1, <4>1, SetTopReplaces
        <4>3. QED
          BY <4>2 DEF ReplacesTop, Top
      <3>4. SetTop(scans', e) = SetTop(AtomicScans, e)
        BY <1>2, <3>1, ReplacedTwice
      <3>5. AtomicScans' = Append(SetTop(AtomicScans, e),
                                  ScanFrame(g.Seg, hw[Here(g)].secondary, n))
        BY <1>4, <1>5, <3>2, <3>3, <3>4 DEF e
      <3>6. QED
        BY <1>2, <1>4, <1>7, <2>1, <3>5 DEF ScanBehind
    <2>2. CASE ~probe.IsBridgeFlag
      <3>1. probe'.stage = "vendor" /\ scans' = SetTop(scans, e)
        BY <1>1, <2>2 DEF Unread
      <3>2. AtomicScans' = scans'
        BY <3>1, Zenon DEF AtomicScans
      <3>3. QED
        BY <1>2, <1>4, <2>2, <3>1, <3>2
    <2>3. QED
      BY <2>1, <2>2
  <1>9. QED
    BY <1>1, <1>2, <1>3, <1>7, <1>8, AtomicAddNode DEF n, Lengthened
(* The rest of the program takes the same steps on the same activations. *)
LEMMA OtherwiseRefines ==
  ASSUME SteadyInv, Otherwise
  PROVE  Atomic!Next
PROOF
  <1>1. probe.stage = "vendor" /\ UNCHANGED probe
    BY OtherwiseNext DEF SteadyInv, FlagsInv
  <1>2. AtomicScans = scans /\ AtomicScans' = scans'
    <2>1. probe'.stage = "vendor"
      BY <1>1
    <2>2. AtomicScans' = scans'
      BY <2>1, Zenon DEF AtomicScans
    <2>3. QED
      BY <1>1, <2>2, AtomicBetween
  <1>. USE <1>2 DEF platform, Atomic!platform, locals, Atomic!locals, NULL, Atomic!NULL
  <1>3. Atomic!Starts = Starts
    BY DEF Atomic!Starts, Starts
  <1>4. BeginSegment => Atomic!BeginSegment
    BY <1>3 DEF BeginSegment, Atomic!BeginSegment, ScanFrame, Atomic!ScanFrame
  <1>5. NextDevice => Atomic!NextDevice
    BY DEF NextDevice, Atomic!NextDevice, Top, Atomic!Top, SetTop, Atomic!SetTop
  <1>6. ReturnToBridge => Atomic!ReturnToBridge
    BY DEF ReturnToBridge, Atomic!ReturnToBridge, Top, Atomic!Top, Below, Atomic!Below
  <1>7. ReturnToSegment => Atomic!ReturnToSegment
    BY DEF ReturnToSegment, Atomic!ReturnToSegment, Top, Atomic!Top
  <1>8. SkipEmptySegment => Atomic!SkipEmptySegment
    BY DEF SkipEmptySegment, Atomic!SkipEmptySegment
  <1>9. LinkSegment => Atomic!LinkSegment
    BY DEF LinkSegment, Atomic!LinkSegment
  <1>10. LastSiblingStep => Atomic!LastSiblingStep
    BY DEF LastSiblingStep, Atomic!LastSiblingStep
  <1>11. LastSiblingReturn => Atomic!LastSiblingReturn
    BY DEF LastSiblingReturn, Atomic!LastSiblingReturn
  <1>12. EndSegments => Atomic!EndSegments
    BY <1>3 DEF EndSegments, Atomic!EndSegments
  <1>13. Walk => Atomic!Walk
    <2>1. BeginWalk => Atomic!BeginWalk
      BY DEF BeginWalk, Atomic!BeginWalk
    <2>2. SkipWalk => Atomic!SkipWalk
      BY DEF SkipWalk, Atomic!SkipWalk, FreeFrame, Atomic!FreeFrame
    <2>3. Visit => Atomic!Visit
      BY DEF Visit, Atomic!Visit, Top, Atomic!Top, SetTop, Atomic!SetTop
    <2>4. ReturnFromWalk => Atomic!ReturnFromWalk
      BY DEF ReturnFromWalk, Atomic!ReturnFromWalk, Top, Atomic!Top, Below, Atomic!Below,
         FreeFrame, Atomic!FreeFrame
    <2>5. QED
      BY <2>1, <2>2, <2>3, <2>4 DEF Walk, Atomic!Walk
  <1>14. Free => Atomic!Free
    <2>1. FreeEnter => Atomic!FreeEnter
      BY DEF FreeEnter, Atomic!FreeEnter, Top, Atomic!Top, SetTop, Atomic!SetTop, FreeFrame,
         Atomic!FreeFrame
    <2>2. Release => Atomic!Release
      BY DEF Release, Atomic!Release, Top, Atomic!Top, SetTop, Atomic!SetTop
    <2>3. ReturnFromFree => Atomic!ReturnFromFree
      BY DEF ReturnFromFree, Atomic!ReturnFromFree, Top, Atomic!Top, Below, Atomic!Below
    <2>4. QED
      BY <2>1, <2>2, <2>3 DEF Free, Atomic!Free
  <1>15. QED
    BY <1>4, <1>5, <1>6, <1>7, <1>8, <1>9, <1>10, <1>11, <1>12, <1>13, <1>14
    DEF Otherwise, Atomic!Next, Atomic!Scan

LEMMA NextRefines == SteadyInv /\ [Program]_scanVars => [Atomic!Next]_(Atomic!vars)
PROOF
  <1>. SUFFICES ASSUME SteadyInv, [Program]_scanVars PROVE [Atomic!Next]_(Atomic!vars)
    OBVIOUS
  <1>1. CASE UNCHANGED scanVars
    <2>1. UNCHANGED <<vars, probe>>
      BY <1>1 DEF scanVars
    <2>2. UNCHANGED <<hw, scans, probe, heap>>
      BY <2>1 DEF vars
    <2>3. AtomicScans' = AtomicScans
      BY <2>2, Zenon DEF AtomicScans, SetTop, Top, NextFunction, ScanBehind, ScanFrame, Here, NULL
    <2>4. QED
      BY <2>1, <2>3 DEF vars, Atomic!vars
  <1>2. CASE Program
    BY <1>2, ReadVendorRefines, ReadMultiRefines, ReadFlagsRefines, CreateRefines,
       CreateFailsRefines, ReadSecondaryRefines, OtherwiseRefines
    DEF Program, Atomic!Next, Atomic!Scan
  <1>3. QED
    BY <1>1, <1>2

LEMMA InitRefines == ReadsInit => SteadyInv /\ Atomic!Init
PROOF
  <1>. SUFFICES ASSUME ReadsInit PROVE SteadyInv /\ Atomic!Init
    OBVIOUS
  <1>1. scans = <<>> /\ heap = <<>> /\ probe.stage = "vendor" /\ gone = {} /\ Init
    BY DEF ReadsInit, Init, Unread
  <1>2. FlagsInv
    BY InitFlags
  <1>3. LoopShown
    BY <1>1 DEF LoopShown
  <1>4. AtomicScans = <<>>
    BY <1>1, AtomicBetween
  <1>5. Atomic!Init
    BY <1>1, <1>4 DEF Init, Atomic!Init, NULL, Atomic!NULL
  <1>6. QED
    BY <1>1, <1>2, <1>3, <1>5 DEF SteadyInv

(* On every machine that loses nothing, whatever it consists of and whichever
   allocations fail, the scan register by register does what PciTree does in
   one step per function: all that is proved of PciTree holds of it. *)
THEOREM ScansAsIfAtomicCorrect == SteadySpec => ScansAsIfAtomic
  BY InitRefines, NextSteady, NextRefines, PTL DEF SteadySpec, ScansAsIfAtomic, Atomic!Spec

-----------------------------------------------------------------------------
(* What is left is listed.  The coverage of PciTree's scan, of the functions
   that are not gone: while the bus behind a bridge is not known yet, the
   bridge is the one exception. *)
Unscanned == IF probe.stage = "secondary" THEN {Current} ELSE {}

ReadSoFar ==
  /\ (/\ probe.stage \in {"bridge", "pcie", "create", "secondary"}
      /\ Top(scans).Fun = 0 /\ Top(scans).MaxFun = 1) => LastFun = 0 \/ ~hw[Current].multi
  /\ probe.stage = "secondary" => Current \in Met

RemainInv == FlagsInv /\ CoverOK(gone, Unscanned) /\ ReadSoFar

(* What is gone is owed nothing. *)
LEMMA GoneOwesNothing ==
  ASSUME NEW G, NEW H, G \subseteq H, NEW E, CoverOK(G, E)
  PROVE  CoverOK(H, E)
PROOF
  <1>1. Left(H) \subseteq Left(G)
    BY Zenon DEF Left
  <1>2. \A s, b : Covered(G, s, b) => Covered(H, s, b)
    BY <1>1, Zenon DEF Covered, BusDone
  <1>3. FramesCovered(H)
    BY <1>1, Zenon DEF CoverOK, FramesCovered, FrameCovered
  <1>4. BridgesCovered(H, E)
    BY <1>1, <1>2, Zenon DEF CoverOK, BridgesCovered
  <1>5. StartsCovered(H)
    BY <1>2, Zenon DEF CoverOK, StartsCovered
  <1>6. QED
    BY <1>3, <1>4, <1>5, Zenon DEF CoverOK

(* The steps that leave the running activation at its function. *)
LEMMA AtSamePlace ==
  ASSUME PlatformTypeOK, NEW G, NEW f, FrameCovered(G, f), NEW g,
         g.Seg = f.Seg, g.Bus = f.Bus, g.Dev = f.Dev, g.Fun = f.Fun,
         g.MaxFun = f.MaxFun \/ g.MaxFun = LastFun + 1
  PROVE  FrameCovered(G, g)
PROOF
  <1>1. SUFFICES ASSUME NEW l \in Left(G), l.Seg = f.Seg, l.Bus = f.Bus
                 PROVE  /\ Passed(g, l) => l \in Met \/ l \in lost
                        /\ l.Dev = g.Dev /\ g.MaxFun = 1 /\ g.Fun > 0 => l.Fun = 0
    BY Zenon DEF FrameCovered
  <1>2. /\ Passed(f, l) => l \in Met \/ l \in lost
        /\ l.Dev = f.Dev /\ f.MaxFun = 1 /\ f.Fun > 0 => l.Fun = 0
    BY <1>1, Zenon DEF FrameCovered
  <1>3. Passed(g, l) <=> Passed(f, l)
    BY Zenon DEF Passed
  <1>4. g.MaxFun = LastFun + 1 /\ g.MaxFun = 1 => l.Fun = 0
    BY LeftTypes, GeometryAssumption
  <1>5. QED
    BY <1>2, <1>3, <1>4, Zenon

(* What a step of the function loop finds. *)
LEMMA ReadingCover ==
  ASSUME RemainInv, NEW stage, Reading(stage), NEW f, f = Top(scans)
  PROVE  /\ ReadsInv /\ TypeInv /\ PlatformTypeOK /\ pc = "scan" /\ probe.stage = stage
         /\ scans \in Seq(ScanFrames) /\ scans # <<>> /\ f \in ScanFrames
         /\ Len(scans) \in Nat \ {0} /\ f = scans[Len(scans)]
         /\ FrameCovered(gone, f) /\ f.Fun < f.MaxFun /\ Current = Here(f)
         /\ f.MaxFun = 1 => f.Fun = 0
PROOF
  <1>1. ReadsInv
    BY DEF RemainInv, FlagsInv
  <1>2. /\ TypeInv /\ TypeOK /\ pc = "scan" /\ probe.stage = stage
        /\ scans \in Seq(ScanFrames) /\ scans # <<>> /\ Top(scans) \in ScanFrames
        /\ Top(scans).Fun < Top(scans).MaxFun
    BY <1>1, ReadingTypes
  <1>3. Len(scans) \in Nat \ {0} /\ f = scans[Len(scans)] /\ f \in ScanFrames
    BY <1>2, TopLemma DEF Top
  <1>4. Len(scans) \in 1 .. Len(scans)
    BY <1>3
  <1>5. FrameCovered(gone, f)
    BY <1>3, <1>4, Zenon DEF RemainInv, CoverOK, FramesCovered
  <1>6. f.Fun < f.MaxFun
    BY <1>2
  <1>7. f.MaxFun = 1 => f.Fun = 0
    BY <1>3, <1>6, GeometryAssumption DEF ScanFrames
  <1>8. QED
    BY <1>1, <1>2, <1>3, <1>5, <1>6, <1>7 DEF TypeOK, Current

(* One that replaces the running activation. *)
LEMMA ReadReplaced ==
  ASSUME RemainInv, NEW stage, Reading(stage), UNCHANGED untouched,
         NEW f, f = Top(scans), NEW g, scans' = SetTop(scans, g), g.Seg = f.Seg, g.Bus = f.Bus,
         Met \subseteq Met', lost \subseteq lost', NEW G, G = gone, FrameCovered(G, g)',
         \A l \in (Met' \ Met) \cup Unscanned : l \in Left(G) /\ hw[l].bridge => l \in Unscanned'
  PROVE  CoverOK(gone, Unscanned)' /\ Top(scans)' = g
PROOF
  <1>1. /\ pc = "scan" /\ scans \in Seq(ScanFrames) /\ scans # <<>> /\ Len(scans) \in Nat \ {0}
        /\ f = scans[Len(scans)]
    BY ReadingCover
  <1>2. UNCHANGED <<hw, table, pc, index, gone>>
    BY DEF untouched, platform, locals
  <1>3. PICK D : D = Len(scans)
    OBVIOUS
  <1>4. /\ Len(SetTop(scans, g)) = Len(scans) /\ SetTop(scans, g)[Len(scans)] = g
        /\ \A k \in 1 .. Len(scans) - 1 : SetTop(scans, g)[k] = scans[k]
        /\ SetTop(scans, g) \in Seq(ScanFrames \cup {g})
    BY <1>1, ReplaceTop
  <1>5. /\ D \in Nat \ {0} /\ Len(scans') = D /\ scans'[D] = g
        /\ \A k \in 1 .. D - 1 : scans'[k] = scans[k]
    BY <1>1, <1>3, <1>4, Zenon
  <1>6. \A k \in D .. Len(scans') : FrameCovered(G, scans[k])'
    <2>1. FrameCovered(G, scans[D])'
      BY <1>5, Zenon DEF FrameCovered
    <2>2. \A k \in D .. Len(scans') : k = D
      BY <1>5
    <2>3. QED
      BY <2>1, <2>2, Zenon
  <1>7. PICK E, H : E = Unscanned /\ H = Unscanned'
    OBVIOUS
  <1>8. \A l \in (Met' \ Met) \cup E :
          l \in Left(G) \ H /\ hw[l].bridge => Covered(G, l.Seg, hw[l].secondary)'
    BY <1>7, Zenon
  <1>9. CoverOK(G, E)
    BY <1>7, Zenon DEF RemainInv
  <1>10. Len(scans') \in Nat /\ Len(scans') >= D
    BY <1>5
  <1>11. scans'[D].Seg = scans[D].Seg /\ scans'[D].Bus = scans[D].Bus
    BY <1>1, <1>3, <1>5, Zenon
  <1>12. CoverOK(G, H)'
    BY <1>1, <1>2, <1>3, <1>5, <1>6, <1>8, <1>9, <1>10, <1>11, CoverReplaced, Zenon
  <1>13. CoverOK(gone, Unscanned)'
    BY <1>2, <1>7, <1>12, Zenon DEF CoverOK, FramesCovered, FrameCovered, BridgesCovered, StartsCovered,
       Covered, BusDone
  <1>14. Top(scans)' = g
    BY <1>5, Zenon DEF Top
  <1>15. QED
    BY <1>13, <1>14

LEMMA SameHeapMet ==
  ASSUME UNCHANGED heap
  PROVE  Met' = Met
  BY Zenon DEF Met, Ids

LEMMA ReadVendorCovers ==
  ASSUME RemainInv, ReadVendor
  PROVE  CoverOK(gone, Unscanned)' /\ ReadSoFar'
PROOF
  <1>1. PICK f : f = Top(scans)
    OBVIOUS
  <1>2. Reading("vendor") /\ UNCHANGED <<heap, lost, untouched>> /\ Met' = Met
    BY SameHeapMet DEF ReadVendor
  <1>3. /\ ReadsInv /\ PlatformTypeOK /\ probe.stage = "vendor" /\ f \in ScanFrames
        /\ FrameCovered(gone, f) /\ Current = Here(f)
        /\ f.MaxFun = 1 => f.Fun = 0
    BY <1>1, <1>2, ReadingCover
  <1>4. UNCHANGED <<hw, table, pc, index, gone>>
    BY <1>2 DEF untouched, platform, locals
  <1>5. Unscanned = {}
    BY <1>3 DEF Unscanned
  <1>6. CASE Answers(Current) /\ Current \notin gone
    <2>1. UNCHANGED scans /\ probe'.stage = IF Current.Fun = 0 THEN "multi" ELSE "bridge"
      BY <1>3, <1>6 DEF ReadVendor, Proceed, ReadsInv, ProbeOK
    <2>2. Unscanned' = {}
      BY <2>1 DEF Unscanned
    <2>3. PICK G : G = gone
      OBVIOUS
    <2>4. CoverOK(G, {})
      BY <1>5, <2>3, Zenon DEF RemainInv
    <2>5. CoverOK(G, {})'
      BY <1>2, <1>4, <2>1, <2>4, CoverStutter, Zenon
    <2>6. CoverOK(gone, Unscanned)'
      BY <1>4, <2>2, <2>3, <2>5, Zenon DEF CoverOK, FramesCovered, FrameCovered, BridgesCovered,
         StartsCovered, Covered, BusDone
    <2>7. ReadSoFar'
      BY <1>1, <1>3, <2>1 DEF ReadSoFar, Here
    <2>8. QED
      BY <2>6, <2>7
  <1>7. CASE ~(Answers(Current) /\ Current \notin gone)
    <2>1. PICK g : g = NextFunction(f)
      OBVIOUS
    <2>2. scans' = SetTop(scans, g) /\ UNCHANGED probe
      BY <1>1, <1>7, <2>1 DEF ReadVendor
    <2>3. /\ g.Seg = f.Seg /\ g.Bus = f.Bus /\ g.Dev = f.Dev /\ g.Fun = f.Fun + 1
          /\ g.MaxFun = f.MaxFun
      BY <1>3, <2>1 DEF NextFunction, ScanFrames
    <2>4. PICK G : G = gone
      OBVIOUS
    <2>5. Here(f) \notin Left(G)
      BY <1>3, <1>7, <2>4 DEF Left, Answers
    <2>6. FrameCovered(G, f)
      BY <1>3, <2>4, Zenon
    <2>7. FrameCovered(G, g)'
      BY <1>2, <1>3, <1>4, <2>3, <2>5, <2>6, FrameAdvances
    <2>8. \A l \in (Met' \ Met) \cup Unscanned : l \in Left(G) /\ hw[l].bridge => l \in Unscanned'
      BY <1>2, <1>5
    <2>9. CoverOK(gone, Unscanned)'
      BY <1>1, <1>2, <2>2, <2>3, <2>4, <2>7, <2>8, ReadReplaced
    <2>10. ReadSoFar'
      BY <1>3, <2>2 DEF ReadSoFar
    <2>11. QED
      BY <2>9, <2>10
  <1>8. QED
    BY <1>6, <1>7

LEMMA ReadMultiCovers ==
  ASSUME RemainInv, ReadMulti
  PROVE  CoverOK(gone, Unscanned)' /\ ReadSoFar'
PROOF
  <1>1. PICK f : f = Top(scans)
    OBVIOUS
  <1>2. Reading("multi") /\ UNCHANGED <<heap, lost, untouched>> /\ Met' = Met
    BY SameHeapMet DEF ReadMulti
  <1>3. /\ ReadsInv /\ PlatformTypeOK /\ probe.stage = "multi" /\ f \in ScanFrames
        /\ FrameCovered(gone, f) /\ Current = Here(f)
    BY <1>1, <1>2, ReadingCover
  <1>4. UNCHANGED <<hw, table, pc, index, gone>>
    BY <1>2 DEF untouched, platform, locals
  <1>5. PICK g : g = LoopBoundNow(f)
    OBVIOUS
  <1>6. scans' = SetTop(scans, g) /\ probe'.stage = "bridge"
    BY <1>1, <1>3, <1>5 DEF ReadMulti, Proceed, ReadsInv, ProbeOK
  <1>7. /\ g.Seg = f.Seg /\ g.Bus = f.Bus /\ g.Dev = f.Dev /\ g.Fun = f.Fun
        /\ g.MaxFun = IF Registers(Current).multi THEN LastFun + 1 ELSE f.MaxFun
    BY <1>3, <1>5 DEF LoopBoundNow, ScanFrames
  <1>8. Unscanned = {}
    BY <1>3 DEF Unscanned
  <1>9. PICK G : G = gone
    OBVIOUS
  <1>10. FrameCovered(G, f)
    BY <1>3, <1>9, Zenon
  <1>11. FrameCovered(G, g)
    BY <1>3, <1>7, <1>10, AtSamePlace
  <1>12. FrameCovered(G, g)'
    BY <1>2, <1>4, <1>11, LeftStays
  <1>13. \A l \in (Met' \ Met) \cup Unscanned : l \in Left(G) /\ hw[l].bridge => l \in Unscanned'
    BY <1>2, <1>8
  <1>14. CoverOK(gone, Unscanned)' /\ Top(scans)' = g
    BY <1>1, <1>2, <1>6, <1>7, <1>9, <1>12, <1>13, ReadReplaced
  <1>15. ReadSoFar'
    <2>1. Current' = Here(g) /\ Here(g) = Here(f)
      BY <1>7, <1>14 DEF Current, Here
    <2>2. g.MaxFun = 1 => LastFun = 0 \/ ~hw[Current].multi
      <3>1. CASE Registers(Current).multi
        BY <1>7, <3>1, GeometryAssumption
      <3>2. CASE ~Registers(Current).multi
        BY <3>2 DEF Registers, AllOnesHeader
      <3>3. QED
        BY <3>1, <3>2
    <2>3. QED
      BY <1>3, <1>4, <1>6, <1>14, <2>1, <2>2 DEF ReadSoFar
  <1>16. QED
    BY <1>14, <1>15

LEMMA ReadFlagsCovers ==
  ASSUME RemainInv, ReadBridge \/ ReadPcie
  PROVE  CoverOK(gone, Unscanned)' /\ ReadSoFar'
PROOF
  <1>1. /\ UNCHANGED <<hw, table, heap, pc, index, scans, lost, gone>>
        /\ probe.stage \in {"bridge", "pcie"}
    BY DEF ReadBridge, ReadPcie, Reading, untouched, platform, locals
  <1>2. probe'.stage \in {"pcie", "create"}
    BY DEF ReadBridge, ReadPcie, RemainInv, FlagsInv, ReadsInv, ProbeOK
  <1>3. Unscanned = {} /\ Unscanned' = {}
    BY <1>1, <1>2 DEF Unscanned
  <1>4. PICK G : G = gone
    OBVIOUS
  <1>5. CoverOK(G, {})
    BY <1>3, <1>4, Zenon DEF RemainInv
  <1>6. CoverOK(G, {})'
    BY <1>1, <1>5, CoverStutter, Zenon
  <1>7. CoverOK(gone, Unscanned)'
    BY <1>1, <1>3, <1>4, <1>6, Zenon DEF CoverOK, FramesCovered, FrameCovered, BridgesCovered,
       StartsCovered, Covered, BusDone
  <1>8. Current' = Current /\ Top(scans)' = Top(scans)
    BY <1>1 DEF Current, Top
  <1>9. ReadSoFar'
    BY <1>1, <1>2, <1>8 DEF ReadSoFar, RemainInv
  <1>10. QED
    BY <1>7, <1>9

LEMMA CreateFailsCovers ==
  ASSUME RemainInv, CreateFails
  PROVE  CoverOK(gone, Unscanned)' /\ ReadSoFar'
PROOF
  <1>1. PICK f : f = Top(scans)
    OBVIOUS
  <1>2. Reading("create") /\ UNCHANGED <<heap, untouched>> /\ Met' = Met
    BY SameHeapMet DEF CreateFails
  <1>3. /\ ReadsInv /\ PlatformTypeOK /\ probe.stage = "create" /\ f \in ScanFrames
        /\ FrameCovered(gone, f) /\ Current = Here(f) /\ (f.MaxFun = 1 => f.Fun = 0)
    BY <1>1, <1>2, ReadingCover
  <1>4. UNCHANGED <<hw, table, pc, index, gone>>
    BY <1>2 DEF untouched, platform, locals
  <1>5. PICK g : g = NextFunction(f)
    OBVIOUS
  <1>6. scans' = SetTop(scans, g) /\ probe' = Unread /\ lost' = lost \cup {Here(f)}
    BY <1>1, <1>3, <1>5 DEF CreateFails
  <1>7. /\ g.Seg = f.Seg /\ g.Bus = f.Bus /\ g.Dev = f.Dev /\ g.Fun = f.Fun + 1
        /\ g.MaxFun = f.MaxFun
    BY <1>3, <1>5 DEF NextFunction, ScanFrames
  <1>8. Unscanned = {}
    BY <1>3 DEF Unscanned
  <1>9. PICK G : G = gone
    OBVIOUS
  <1>10. FrameCovered(G, f)
    BY <1>3, <1>9, Zenon
  <1>11. f.MaxFun = 1 => f.Fun = 0 /\ (LastFun = 0 \/ ~hw[Here(f)].multi)
    BY <1>1, <1>3 DEF RemainInv, ReadSoFar
  <1>12. FrameCovered(G, g)'
    BY <1>2, <1>3, <1>4, <1>6, <1>7, <1>10, <1>11, FrameAdvances
  <1>13. \A l \in (Met' \ Met) \cup Unscanned : l \in Left(G) /\ hw[l].bridge => l \in Unscanned'
    BY <1>2, <1>8
  <1>14. CoverOK(gone, Unscanned)'
    BY <1>1, <1>2, <1>6, <1>7, <1>9, <1>12, <1>13, ReadReplaced
  <1>15. ReadSoFar'
    BY <1>6 DEF ReadSoFar, Unread
  <1>16. QED
    BY <1>14, <1>15

LEMMA CreateCovers ==
  ASSUME RemainInv, Create
  PROVE  CoverOK(gone, Unscanned)' /\ ReadSoFar'
PROOF
  <1>1. PICK f, L : f = Top(scans) /\ L = Len(heap)
    OBVIOUS
  <1>2. Reading("create") /\ UNCHANGED <<lost, untouched>>
    BY DEF Create
  <1>3. /\ ReadsInv /\ PlatformTypeOK /\ probe.stage = "create" /\ f \in ScanFrames
        /\ FrameCovered(gone, f) /\ Current = Here(f) /\ (f.MaxFun = 1 => f.Fun = 0)
    BY <1>1, <1>2, ReadingCover
  <1>4. UNCHANGED <<hw, table, pc, index, gone>>
    BY <1>2 DEF untouched, platform, locals
  <1>5. Met' = Met \cup {Here(f)}
    <2>1. NodeCreated(L, f)
      BY <1>1, <1>3, CreateHeap
    <2>2. /\ L \in Nat /\ Len(heap') = L + 1 /\ heap'[L + 1].Loc = Here(f)
          /\ \A n \in 1 .. L : heap'[n].Loc = heap[n].Loc
      BY <1>3, <2>1 DEF NodeCreated, SameFunction
    <2>3. \A n : n \in Ids' <=> n \in Ids \/ n = L + 1
      BY <1>1, <2>2 DEF Ids
    <2>4. \A n \in Ids : heap'[n].Loc = heap[n].Loc
      BY <1>1, <2>2 DEF Ids
    <2>5. QED
      BY <2>2, <2>3, <2>4, Zenon DEF Met
  <1>6. Unscanned = {}
    BY <1>3 DEF Unscanned
  <1>7. PICK G : G = gone
    OBVIOUS
  <1>8. FrameCovered(G, f)
    BY <1>3, <1>7, Zenon
  <1>9. f.MaxFun = 1 => f.Fun = 0 /\ (LastFun = 0 \/ ~hw[Here(f)].multi)
    BY <1>1, <1>3 DEF RemainInv, ReadSoFar
  <1>10. PICK e : e = WithTail(f, L + 1)
    OBVIOUS
  <1>11. e.Seg = f.Seg /\ e.Bus = f.Bus /\ e.Dev = f.Dev /\ e.Fun = f.Fun /\ e.MaxFun = f.MaxFun
         /\ NextFunction(e).Seg = f.Seg /\ NextFunction(e).Bus = f.Bus /\ NextFunction(e).Dev = f.Dev
         /\ NextFunction(e).Fun = f.Fun + 1 /\ NextFunction(e).MaxFun = f.MaxFun
    BY <1>3, <1>10 DEF WithTail, NextFunction, ScanFrames
  <1>12. CASE probe.IsBridgeFlag
    <2>1. scans' = SetTop(scans, e) /\ probe'.stage = "secondary"
      BY <1>1, <1>3, <1>10, <1>12 DEF Create, Proceed, ReadsInv, ProbeOK
    <2>2. FrameCovered(G, e)
      BY <1>3, <1>8, <1>11, AtSamePlace
    <2>3. FrameCovered(G, e)'
      BY <1>2, <1>4, <1>5, <2>2, LeftStays
    <2>4. Unscanned' = {Here(f)} /\ Current' = Here(f)
      <3>1. ReplacesTop(ScanFrames \cup {e}, scans, e, SetTop(scans, e))
        <4>1. scans \in Seq(ScanFrames \cup {e}) /\ scans # <<>>
          BY <1>1, <1>2, ReadingCover, SeqSubset
        <4>2. QED
          BY <4>1, SetTopReplaces
      <3>2. Top(scans)' = e
        BY <2>1, <3>1 DEF ReplacesTop, Top
      <3>3. Current' = Here(f)
        BY <1>11, <3>2 DEF Current, Here
      <3>4. QED
        BY <2>1, <3>3 DEF Unscanned
    <2>5. \A l \in (Met' \ Met) \cup Unscanned : l \in Left(G) /\ hw[l].bridge => l \in Unscanned'
      BY <1>5, <1>6, <2>4
    <2>6. CoverOK(gone, Unscanned)' /\ Top(scans)' = e
      BY <1>1, <1>2, <1>5, <1>7, <1>11, <2>1, <2>3, <2>5, ReadReplaced
    <2>7. ReadSoFar'
      BY <1>4, <1>5, <1>9, <1>11, <2>4, <2>6 DEF ReadSoFar
    <2>8. QED
      BY <2>6, <2>7
  <1>13. CASE ~probe.IsBridgeFlag
    <2>1. PICK g : g = NextFunction(e)
      OBVIOUS
    <2>2. scans' = SetTop(scans, g) /\ probe' = Unread
      BY <1>1, <1>10, <1>13, <2>1 DEF Create
    <2>3. FrameCovered(G, g)'
      BY <1>2, <1>3, <1>4, <1>5, <1>8, <1>9, <1>11, <2>1, FrameAdvances
    <2>4. \A l \in (Met' \ Met) \cup Unscanned : l \in Left(G) /\ hw[l].bridge => l \in Unscanned'
      <3>1. Here(f) \in Left(G) => ~hw[Here(f)].bridge
        <4>1. Here(f) \in Left(G) => Current \notin gone
          BY <1>3, <1>7 DEF Left
        <4>2. QED
          BY <1>3, <1>13, <4>1 DEF RemainInv, FlagsInv, FlagsRead
      <3>2. QED
        BY <1>5, <1>6, <3>1
    <2>5. CoverOK(gone, Unscanned)'
      BY <1>1, <1>2, <1>5, <1>7, <1>11, <2>1, <2>2, <2>3, <2>4, ReadReplaced
    <2>6. ReadSoFar'
      BY <2>2 DEF ReadSoFar, Unread
    <2>7. QED
      BY <2>5, <2>6
  <1>14. QED
    BY <1>12, <1>13

LEMMA ReadSecondaryCovers ==
  ASSUME RemainInv, ReadSecondary
  PROVE  CoverOK(gone, Unscanned)' /\ ReadSoFar'
PROOF
  <1>1. PICK f, D, G, g, c : /\ f = Top(scans) /\ D = Len(scans) /\ G = gone
                             /\ g = NextFunction(f) /\ c = BusBehind(f)
    OBVIOUS
  <1>2. Reading("secondary") /\ UNCHANGED <<heap, lost, untouched>> /\ Met' = Met
    BY SameHeapMet DEF ReadSecondary
  <1>3. /\ PlatformTypeOK /\ pc = "scan" /\ probe.stage = "secondary" /\ f \in ScanFrames
        /\ scans \in Seq(ScanFrames) /\ scans # <<>> /\ D \in Nat \ {0} /\ f = scans[D]
        /\ FrameCovered(G, f) /\ Current = Here(f) /\ (f.MaxFun = 1 => f.Fun = 0)
    BY <1>1, <1>2, ReadingCover
  <1>4. UNCHANGED <<hw, table, pc, index, gone>>
    BY <1>2 DEF untouched, platform, locals
  <1>5. /\ g.Seg = f.Seg /\ g.Bus = f.Bus /\ g.Dev = f.Dev /\ g.Fun = f.Fun + 1
        /\ g.MaxFun = f.MaxFun
    BY <1>1, <1>3 DEF NextFunction, ScanFrames
  <1>6. c.Seg = f.Seg /\ (Current \notin G => c.Bus = hw[Current].secondary)
    BY <1>1 DEF BusBehind, ScanFrame, Registers
  <1>7. Unscanned = {Here(f)} /\ Unscanned' = {} /\ probe' = Unread
    BY <1>2, <1>3 DEF Unscanned, ReadSecondary, Unread
  <1>8. Here(f) \in Met /\ (f.MaxFun = 1 => f.Fun = 0 /\ (LastFun = 0 \/ ~hw[Here(f)].multi))
    BY <1>1, <1>3 DEF RemainInv, ReadSoFar
  <1>9. FrameCovered(G, g)'
    BY <1>2, <1>3, <1>4, <1>5, <1>8, FrameAdvances
  <1>10. FrameCovered(G, c)'
    <2>1. PICK b : b = Registers(Current).secondary
      OBVIOUS
    <2>2. c = ScanFrame(f.Seg, b, Len(heap))
      BY <1>1, <2>1, Zenon DEF BusBehind
    <2>3. FrameCovered(G, ScanFrame(f.Seg, b, Len(heap)))
      BY <1>3, FrameFresh, Zenon
    <2>4. FrameCovered(G, c)
      BY <2>2, <2>3, Zenon
    <2>5. Met \subseteq Met' /\ lost \subseteq lost'
      BY <1>2
    <2>6. QED
      BY <1>4, <2>4, <2>5, LeftStays
  <1>11. /\ Len(scans') = D + 1 /\ scans'[D + 1] = c /\ scans'[D] = g
         /\ \A k \in 1 .. D - 1 : scans'[k] = scans[k]
    <2>1. PICK t : t = SetTop(scans, g)
      OBVIOUS
    <2>2. /\ Len(t) = D /\ t[D] = g /\ \A k \in 1 .. D - 1 : t[k] = scans[k]
          /\ t \in Seq(ScanFrames \cup {g})
      <3>1. /\ Len(SetTop(scans, g)) = Len(scans) /\ SetTop(scans, g)[Len(scans)] = g
            /\ \A k \in 1 .. Len(scans) - 1 : SetTop(scans, g)[k] = scans[k]
            /\ SetTop(scans, g) \in Seq(ScanFrames \cup {g})
        BY <1>3, ReplaceTop
      <3>2. QED
        BY <1>1, <2>1, <3>1, Zenon
    <2>3. scans' = Append(t, c)
      BY <1>1, <2>1, Zenon DEF ReadSecondary
    <2>4. QED
      BY <1>3, <2>2, <2>3
  <1>12. \A k \in D .. Len(scans') : FrameCovered(G, scans[k])'
    <2>1. FrameCovered(G, scans[D])' /\ FrameCovered(G, scans[D + 1])'
      BY <1>9, <1>10, <1>11, Zenon DEF FrameCovered
    <2>2. \A k \in D .. Len(scans') : k = D \/ k = D + 1
      BY <1>3, <1>11
    <2>3. QED
      BY <2>1, <2>2, Zenon
  <1>13. \A l \in (Met' \ Met) \cup {Here(f)} :
           l \in Left(G) \ {} /\ hw[l].bridge => Covered(G, l.Seg, hw[l].secondary)'
    <2>1. SUFFICES ASSUME Here(f) \in Left(G)
                   PROVE  Covered(G, Here(f).Seg, hw[Here(f)].secondary)'
      BY <1>2, Zenon
    <2>2. PICK s, b : s = Here(f).Seg /\ b = hw[Here(f)].secondary
      OBVIOUS
    <2>3. s = f.Seg /\ c.Bus = b
      BY <1>3, <1>6, <2>1, <2>2 DEF Left, Here
    <2>4. D + 1 \in 1 .. Len(scans')
      BY <1>3, <1>11
    <2>5. scans'[D + 1].Seg = s /\ scans'[D + 1].Bus = b
      BY <1>6, <1>11, <2>3, Zenon
    <2>6. Covered(G, s, b)'
      BY <2>4, <2>5, Zenon DEF Covered, Pending
    <2>7. hw' = hw
      BY <1>4
    <2>8. QED
      BY <2>2, <2>6, <2>7, Zenon DEF Covered, Pending, BusDone
  <1>14. CoverOK(G, {Here(f)})
    BY <1>1, <1>7, Zenon DEF RemainInv
  <1>15. /\ Len(scans') \in Nat /\ Len(scans') >= D /\ D = Len(scans)
         /\ scans'[D].Seg = scans[D].Seg /\ scans'[D].Bus = scans[D].Bus
    <2>1. scans'[D].Seg = scans[D].Seg /\ scans'[D].Bus = scans[D].Bus
      BY <1>3, <1>5, <1>11, Zenon
    <2>2. D \in Nat /\ D = Len(scans) /\ Len(scans') = D + 1
      BY <1>1, <1>3, <1>11
    <2>3. QED
      BY <2>1, <2>2
  <1>16. UNCHANGED <<hw, table, pc, index>> /\ Met \subseteq Met' /\ lost \subseteq lost'
    BY <1>2, <1>4
  <1>17. CoverOK(G, {})'
    BY <1>3, <1>11, <1>12, <1>13, <1>14, <1>15, <1>16, CoverReplaced, Zenon
  <1>18. CoverOK(gone, Unscanned)'
    BY <1>1, <1>4, <1>7, <1>17, Zenon DEF CoverOK, FramesCovered, FrameCovered, BridgesCovered,
       StartsCovered, Covered, BusDone
  <1>19. QED
    BY <1>7, <1>18 DEF ReadSoFar, Unread

(* A device that goes. *)
LEMMA RemoveCovers ==
  ASSUME RemainInv, Remove
  PROVE  CoverOK(gone, Unscanned)' /\ ReadSoFar'
PROOF
  <1>1. PICK G, H, E : G = gone /\ H = gone' /\ E = Unscanned
    OBVIOUS
  <1>2. /\ UNCHANGED <<hw, table, heap, pc, index, scans, lost, probe>> /\ G \subseteq H
    BY <1>1 DEF Remove, vars
  <1>3. Current' = Current /\ Top(scans)' = Top(scans) /\ Met' = Met
    BY <1>2, SameHeapMet DEF Current, Top
  <1>4. E = Unscanned'
    BY <1>1, <1>2, <1>3 DEF Unscanned
  <1>5. CoverOK(G, E)
    BY <1>1, Zenon DEF RemainInv
  <1>6. CoverOK(H, E)
    BY <1>2, <1>5, GoneOwesNothing
  <1>7. CoverOK(H, E)'
    BY <1>2, <1>6, CoverStutter, Zenon
  <1>8. CoverOK(gone, Unscanned)'
    BY <1>1, <1>4, <1>7, Zenon DEF CoverOK, FramesCovered, FrameCovered, BridgesCovered,
       StartsCovered, Covered, BusDone
  <1>9. QED
    BY <1>2, <1>3, <1>8 DEF ReadSoFar, RemainInv

LEMMA OtherwiseCovers ==
  ASSUME RemainInv, Otherwise
  PROVE  CoverOK(gone, Unscanned)' /\ ReadSoFar'
PROOF
  <1>1. TypeInv /\ ReadsInv
    BY DEF RemainInv, FlagsInv, ReadsInv, FreeInv, HolderInv, ShapeInv
  <1>2. probe.stage = "vendor" /\ UNCHANGED <<gone, probe, hw>>
    BY <1>1, OtherwiseNext
  <1>3. Unscanned = {} /\ Unscanned' = {}
    BY <1>2 DEF Unscanned
  <1>4. Onward
    BY DEF Otherwise, Onward
  <1>5. PICK G : G = gone
    OBVIOUS
  <1>6. CoverOK(G, {})
    BY <1>3, <1>5, Zenon DEF RemainInv
  <1>7. CoverOK(G, {})'
    BY <1>1, <1>4, <1>6, CoverOnward, Zenon
  <1>8. CoverOK(gone, Unscanned)'
    BY <1>2, <1>3, <1>5, <1>7, Zenon DEF CoverOK, FramesCovered, FrameCovered, BridgesCovered,
       StartsCovered, Covered, BusDone
  <1>9. QED
    BY <1>2, <1>8 DEF ReadSoFar

LEMMA InitRemain == ReadsInit => RemainInv
PROOF
  <1>. SUFFICES ASSUME ReadsInit PROVE RemainInv
    OBVIOUS
  <1>1. Init /\ probe.stage = "vendor"
    BY DEF ReadsInit, Unread
  <1>2. PICK G, E : G = gone /\ E = Unscanned
    OBVIOUS
  <1>3. CoverOK(G, E)
    BY <1>1, InitCover
  <1>4. CoverOK(gone, Unscanned)
    BY <1>2, <1>3, Zenon
  <1>5. QED
    BY <1>1, <1>4, InitFlags DEF RemainInv, ReadSoFar

LEMMA NextRemain == RemainInv /\ [ReadsNext]_scanVars => RemainInv'
PROOF
  <1>. SUFFICES ASSUME RemainInv, [ReadsNext]_scanVars PROVE RemainInv'
    OBVIOUS
  <1>1. FlagsInv'
    BY NextFlags DEF RemainInv
  <1>2. CASE UNCHANGED scanVars
    <2>1. PICK G, E : G = gone /\ E = Unscanned
      OBVIOUS
    <2>2. UNCHANGED <<hw, table, heap, pc, index, scans, lost, probe, gone>>
      BY <1>2 DEF scanVars, vars
    <2>3. Current' = Current /\ Top(scans)' = Top(scans) /\ Met' = Met
      BY <2>2, SameHeapMet DEF Current, Top
    <2>4. Unscanned' = E
      BY <2>1, <2>2, <2>3 DEF Unscanned
    <2>5. CoverOK(G, E)
      BY <2>1, Zenon DEF RemainInv
    <2>6. CoverOK(G, E)'
      BY <2>2, <2>5, CoverStutter, Zenon
    <2>7. CoverOK(gone, Unscanned)'
      BY <2>1, <2>2, <2>4, <2>6, Zenon DEF CoverOK, FramesCovered, FrameCovered, BridgesCovered,
         StartsCovered, Covered, BusDone
    <2>8. QED
      BY <1>1, <2>2, <2>3, <2>7 DEF ReadSoFar, RemainInv
  <1>3. CASE ReadsNext
    <2>1. CoverOK(gone, Unscanned)' /\ ReadSoFar'
      BY <1>3, ReadVendorCovers, ReadMultiCovers, ReadFlagsCovers, CreateCovers,
         CreateFailsCovers, ReadSecondaryCovers, OtherwiseCovers, RemoveCovers
         DEF ReadsNext, Program
    <2>2. QED
      BY <1>1, <2>1, Zenon DEF RemainInv
  <1>4. QED
    BY <1>2, <1>3

LEMMA RemainingOn ==
  /\ Remaining!Functions = On([l \in DOMAIN hw \ gone |-> hw[l]], table, lost)!Functions
  /\ Remaining!Bridges = On([l \in DOMAIN hw \ gone |-> hw[l]], table, lost)!Bridges
  /\ \A s : Remaining!BusPath(s) = On([l \in DOMAIN hw \ gone |-> hw[l]], table, lost)!BusPath(s)
  /\ Remaining!Listed = On([l \in DOMAIN hw \ gone |-> hw[l]], table, lost)!Listed
PROOF
  <1>. DEFINE H == [l \in DOMAIN hw \ gone |-> hw[l]]
  <1>1. \A s, r : Remaining!HasRoute(table, s, r) <=> On(H, table, lost)!HasRoute(table, s, r)
    BY Zenon DEF Remaining!HasRoute, Remaining!IsLegacy, Remaining!LegacySize,
       Remaining!FindEcamBaseForSegment, Remaining!EntriesFor, On!HasRoute, On!IsLegacy, On!LegacySize,
       On!FindEcamBaseForSegment, On!EntriesFor
  <1>2. Remaining!Functions = On(H, table, lost)!Functions
    BY <1>1, Zenon DEF Remaining!Functions, Remaining!Exists, On!Functions, On!Exists
  <1>3. Remaining!Bridges = On(H, table, lost)!Bridges
    BY <1>2, Zenon DEF Remaining!Bridges, On!Bridges
  <1>4. Remaining!Starts = On(H, table, lost)!Starts
    BY Zenon DEF Remaining!Starts, On!Starts
  <1>5. \A s : Remaining!BusPath(s) = On(H, table, lost)!BusPath(s)
    <2>1. \A s, b : Remaining!StartsAt(s, b) = On(H, table, lost)!StartsAt(s, b)
      BY <1>4, Zenon DEF Remaining!StartsAt, On!StartsAt
    <2>2. \A p, s, b : Remaining!BridgesTo(p, s, b) = On(H, table, lost)!BridgesTo(p, s, b)
      BY <1>3, Zenon DEF Remaining!BridgesTo, On!BridgesTo
    <2>3. \A p, l : Remaining!PathOver(p, l) = On(H, table, lost)!PathOver(p, l)
      BY Zenon DEF Remaining!PathOver, On!PathOver, Remaining!Place, On!Place
    <2>4. \A p, s, b : Remaining!NextPath(p, s, b) = On(H, table, lost)!NextPath(p, s, b)
      <3>. SUFFICES ASSUME NEW p, NEW s, NEW b
                    PROVE  Remaining!NextPath(p, s, b) = On(H, table, lost)!NextPath(p, s, b)
        BY Zenon
      <3>. DEFINE A == Remaining!StartsAt(s, b)
                  B == Remaining!BridgesTo(p, s, b)
      <3>1. /\ A = On(H, table, lost)!StartsAt(s, b)
            /\ B = On(H, table, lost)!BridgesTo(p, s, b)
            /\ Remaining!PathOver(p, Any(B)) = On(H, table, lost)!PathOver(p, Any(B))
        BY <2>1, <2>2, <2>3, Zenon
      <3>2. Remaining!NextPath(p, s, b) = FirstOf(A, B, Remaining!PathOver(p, Any(B)))
        BY Zenon DEF Remaining!NextPath, FirstOf, Any
      <3>. HIDE DEF A, B, H
      <3>3. On(H, table, lost)!NextPath(p, s, b) =
              FirstOf(On(H, table, lost)!StartsAt(s, b), On(H, table, lost)!BridgesTo(p, s, b),
                      On(H, table, lost)!PathOver(p, Any(On(H, table, lost)!BridgesTo(p, s, b))))
        BY Zenon DEF On!NextPath, FirstOf, Any
      <3>4. QED
        BY <3>1, <3>2, <3>3, Zenon
    <2>5. QED
      BY <2>4, Zenon DEF Remaining!BusPath, On!BusPath
  <1>6. Remaining!Listed = On(H, table, lost)!Listed
    BY <1>2, <1>5, Zenon DEF Remaining!Listed, On!Listed
  <1>7. QED
    BY <1>2, <1>3, <1>5, <1>6, Zenon

(* After the scan, every function that is left and that is reached over
   bridges that are left has a node. *)
LEMMA ReachedLeft ==
  ASSUME LastBus \in Nat, RemainInv, ~Scanning
  PROVE  \A l \in Remaining!Listed : l \in Met
PROOF
  <1>1. PICK G, h : G = gone /\ h = [l \in DOMAIN hw \ gone |-> hw[l]]
    OBVIOUS
  <1>2. /\ PlatformTypeOK /\ scans = <<>> /\ Unscanned = {}
    BY DEF RemainInv, FlagsInv, ReadsInv, ProbeOK, FreeInv, HolderInv, ShapeInv, TypeInv, TypeOK,
       StackTypeOK, Scanning, Unscanned, InFunctionLoop
  <1>3. CoverOK(G, {})
    BY <1>1, <1>2, Zenon DEF RemainInv
  <1>4. DOMAIN h = DOMAIN hw \ G /\ \A l \in DOMAIN h : h[l] = hw[l]
    BY <1>1
  <1>5. \A l \in On(h, table, lost)!Functions : l \in Left(G)
    <2>1. \A s, r : On(h, table, lost)!HasRoute(table, s, r) <=> HasRoute(table, s, r)
      BY Zenon DEF On!HasRoute, On!IsLegacy, On!LegacySize, On!FindEcamBaseForSegment, On!EntriesFor,
         HasRoute, IsLegacy, LegacySize, FindEcamBaseForSegment, EntriesFor
    <2>2. SUFFICES ASSUME NEW l \in DOMAIN h, On(h, table, lost)!Exists(l) PROVE l \in Left(G)
      BY Zenon DEF On!Functions
    <2>3. HasRoute(table, l.Seg, 0)
      BY <2>1, <2>2, Zenon DEF On!Exists
    <2>4. PICK first : first = [l EXCEPT !.Fun = 0]
      OBVIOUS
    <2>5. l.Fun # 0 => first \in DOMAIN h /\ h[first].multi
      BY <2>2, <2>4, Zenon DEF On!Exists
    <2>6. l.Fun # 0 => first \in DOMAIN hw \ G /\ hw[first].multi
      BY <1>4, <2>5, Zenon
    <2>7. QED
      BY <1>4, <2>3, <2>4, <2>6, Zenon DEF Left
  <1>6. ASSUME NEW l \in On(h, table, lost)!Listed PROVE l \in Met
    <2>1. PICK s, p : s = l.Seg /\ p = On(h, table, lost)!BusPath(s)
      OBVIOUS
    <2>2. ASSUME NEW b \in 0 .. LastBus, p[b] # <<>>
          PROVE  \/ \E i \in 1 .. Len(Starts) : Starts[i].Seg = s /\ Starts[i].StartBus = b
                 \/ \E m \in Left(G) \ lost : /\ m.Seg = s /\ m.Bus < b /\ hw[m].bridge
                                              /\ hw[m].secondary = b /\ p[m.Bus] # <<>>
      <3>1. p[b] = On(h, table, lost)!NextPath(p, s, b)
        <4>1. DOMAIN h \subseteq Locations
          BY <1>2, <1>4 DEF PlatformTypeOK
        <4>2. PICK t, L : t = table /\ L = lost
          OBVIOUS
        <4>3. On(h, t, L)!BusPath(s)[b] = On(h, t, L)!NextPath(On(h, t, L)!BusPath(s), s, b)
          BY <4>1, PathEquation
        <4>4. QED
          BY <2>1, <4>2, <4>3, Zenon
      <3>2. \/ On(h, table, lost)!StartsAt(s, b) # {}
            \/ On(h, table, lost)!BridgesTo(p, s, b) # {}
        BY <2>2, <3>1, Zenon DEF On!NextPath
      <3>3. CASE On(h, table, lost)!StartsAt(s, b) # {}
        <4>1. On(h, table, lost)!Starts = Starts
          BY Zenon DEF On!Starts, Starts
        <4>2. DOMAIN Starts = 1 .. Len(Starts)
          <5>1. CASE table = <<>>
            BY <5>1 DEF Starts
          <5>2. CASE table # <<>>
            BY <1>2, <5>2 DEF Starts, PlatformTypeOK
          <5>3. QED
            BY <5>1, <5>2
        <4>3. QED
          BY <3>3, <4>1, <4>2, Zenon DEF On!StartsAt
      <3>4. CASE On(h, table, lost)!BridgesTo(p, s, b) # {}
        <4>1. PICK m \in On(h, table, lost)!BridgesTo(p, s, b) : TRUE
          BY <3>4, Zenon
        <4>2. /\ m \in On(h, table, lost)!Bridges \ lost /\ m.Seg = s /\ m.Bus < b
              /\ h[m].secondary = b /\ p[m.Bus] # <<>>
          BY <4>1, Zenon DEF On!BridgesTo
        <4>3. m \in Left(G) /\ h[m].bridge /\ h[m] = hw[m]
          BY <1>4, <1>5, <4>2, Zenon DEF On!Bridges, On!Functions
        <4>4. QED
          BY <4>2, <4>3, Zenon
      <3>5. QED
        BY <3>2, <3>3, <3>4, Zenon
    <2>3. \A b \in 0 .. LastBus : p[b] # <<>> => BusDone(G, s, b)
      <3>1. \A b \in 0 .. LastBus : p[b] # <<>> =>
              \/ \E i \in 1 .. Len(Starts) : Starts[i].Seg = s /\ Starts[i].StartBus = b
              \/ \E m \in Left(G) \ lost : /\ m.Seg = s /\ m.Bus < b /\ hw[m].bridge
                                           /\ hw[m].secondary = b /\ p[m.Bus] # <<>>
        BY <2>2, Zenon
      <3>2. QED
        BY <1>2, <1>3, <3>1, Reached, Zenon
    <2>4. l \in Left(G) /\ l \notin lost /\ p[l.Bus] # <<>>
      BY <1>5, <2>1, Zenon DEF On!Listed
    <2>5. l.Bus \in 0 .. LastBus
      BY <1>2, <2>4, LeftTypes
    <2>6. QED
      BY <2>1, <2>3, <2>4, <2>5, Zenon DEF BusDone
  <1>7. QED
    BY <1>1, <1>6, RemainingOn, Zenon

(* On every machine, whatever goes and when: after the scan the tree has every
   function that is left and that is reached over bridges that are left. *)
THEOREM RemainingListedCorrect == ReadsSpec => []RemainingListed
PROOF
  <1>1. RemainInv => RemainingListed
    BY ReachedLeft, GeometryAssumption, Zenon DEF RemainingListed, Met
  <1>2. QED
    BY <1>1, InitRemain, NextRemain, PTL DEF ReadsSpec
=============================================================================

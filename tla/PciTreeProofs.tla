--------------------------- MODULE PciTreeProofs ---------------------------
(***************************************************************************)
(* Proofs about PciTree, for every machine, every pool size and every      *)
(* number of buses, devices and functions: the types and the shape of the  *)
(* tree, the depth of the recursion, who holds the nodes while the tree is *)
(* built, walked and given back to the pool, what the scan has covered,    *)
(* and that the calls of Visitor implement PciInventory.                   *)
(***************************************************************************)
EXTENDS PciTree, SequenceTheorems, WellFoundedInduction, TLAPS

(* The activations of a recursive function: the running one, what replacing
   it, returning from it and calling do to the stack. *)
LEMMA TopLemma ==
  ASSUME NEW S, NEW s \in Seq(S), s # <<>>
  PROVE  Len(s) \in Nat \ {0} /\ Top(s) \in S
PROOF
  <1>1. Len(s) \in Nat /\ Len(s) # 0
    <2>1. Len(s) \in Nat /\ DOMAIN s = 1 .. Len(s)
      BY LenProperties
    <2>2. QED
      BY <2>1, EmptySeq
  <1>2. Len(s) \in 1 .. Len(s)
    BY <1>1
  <1>3. s[Len(s)] \in S
    BY <1>2, ElementOfSeq, Zenon
  <1>4. QED
    BY <1>1, <1>3 DEF Top

LEMMA SetTopLemma ==
  ASSUME NEW S, NEW s \in Seq(S), s # <<>>, NEW e \in S
  PROVE  /\ SetTop(s, e) \in Seq(S)
         /\ Len(SetTop(s, e)) = Len(s)
         /\ SetTop(s, e) # <<>>
         /\ SetTop(s, e)[Len(s)] = e
         /\ \A k \in 1 .. Len(s) - 1 : SetTop(s, e)[k] = s[k]
PROOF
  <1>1. Len(s) \in Nat \ {0} /\ Len(s) \in 1 .. Len(s)
    OBVIOUS
  <1>2. /\ [s EXCEPT ![Len(s)] = e] \in Seq(S)
        /\ Len([s EXCEPT ![Len(s)] = e]) = Len(s)
        /\ \A j \in 1 .. Len(s) : [s EXCEPT ![Len(s)] = e][j] = IF j = Len(s) THEN e ELSE s[j]
    BY <1>1, ExceptSeq
  <1>3. SetTop(s, e) = [s EXCEPT ![Len(s)] = e]
    BY DEF SetTop
  <1>4. ASSUME NEW k \in 1 .. Len(s) - 1 PROVE k \in 1 .. Len(s) /\ k # Len(s)
    BY <1>1
  <1>5. SetTop(s, e) # <<>>
    BY <1>1, <1>2, <1>3
  <1>6. QED
    BY <1>1, <1>2, <1>3, <1>4, <1>5

(* The same as one named fact: this form is quicker to instantiate. *)
ReplacesTop(S, s, e, t) ==
  /\ t \in Seq(S)
  /\ Len(t) = Len(s)
  /\ t[Len(s)] = e
  /\ \A k \in 1 .. Len(s) - 1 : t[k] = s[k]

LEMMA SetTopReplaces ==
  ASSUME NEW S, NEW s \in Seq(S), s # <<>>, NEW e \in S
  PROVE  ReplacesTop(S, s, e, SetTop(s, e))
  BY SetTopLemma DEF ReplacesTop

LEMMA BelowLemma ==
  ASSUME NEW S, NEW s \in Seq(S), s # <<>>
  PROVE  /\ Below(s) \in Seq(S)
         /\ Len(Below(s)) = Len(s) - 1
         /\ \A k \in 1 .. Len(s) - 1 : Below(s)[k] = s[k]
PROOF
  <1>1. Len(s) \in Nat \ {0} /\ DOMAIN s = 1 .. Len(s) /\ \A k \in 1 .. Len(s) : s[k] \in S
    OBVIOUS
  <1>2. QED
    BY <1>1 DEF Below

LEMMA SeqSubset ==
  ASSUME NEW S, NEW T, S \subseteq T
  PROVE  Seq(S) \subseteq Seq(T)
  BY SeqMonotonic

LEMMA AppendLemma ==
  ASSUME NEW S, NEW s \in Seq(S), NEW e \in S
  PROVE  /\ Append(s, e) \in Seq(S)
         /\ Len(Append(s, e)) = Len(s) + 1
         /\ Append(s, e) # <<>>
         /\ Append(s, e)[Len(s) + 1] = e
         /\ \A k \in 1 .. Len(s) : Append(s, e)[k] = s[k]
  OBVIOUS

-----------------------------------------------------------------------------
(* Type correctness.  Two facts about the control make it inductive. *)
ControlOK ==
  /\ pc \in {"scan", "link", "last"} => index <= Len(Starts)
  /\ pc = "last" => tail # NULL

TypeInv == TypeOK /\ ControlOK

(* What an activation of ScanPciBus reads of a function that answers. *)
LEMMA HereType ==
  ASSUME TypeOK, pc = "scan", Answers(Here(Top(scans)))
  PROVE  /\ Top(scans) \in ScanFrames
         /\ Here(Top(scans)) \in Locations
         /\ hw[Here(Top(scans))] \in Headers
         /\ CreateNode(Here(Top(scans))) \in NODE
         /\ LoopBound(Top(scans)) \in {1, LastFun + 1}
PROOF
  <1>. USE GeometryAssumption
  <1>1. Top(scans) \in ScanFrames
    BY TopLemma DEF TypeOK, StackTypeOK
  <1>2. Here(Top(scans)) \in DOMAIN hw
    BY DEF Answers
  <1>3. Here(Top(scans)) \in Locations
    BY <1>2 DEF TypeOK, PlatformTypeOK
  <1>4. hw[Here(Top(scans))] \in Headers
    BY <1>2 DEF TypeOK, PlatformTypeOK
  <1>5. CreateNode(Here(Top(scans))) \in NODE
    BY <1>3, <1>4 DEF CreateNode, NODE, Headers, NULL
  <1>6. LoopBound(Top(scans)) \in {1, LastFun + 1}
    <2>1. LoopBound(Top(scans)) \in {Top(scans).MaxFun, LastFun + 1}
      BY DEF LoopBound
    <2>2. Top(scans).MaxFun \in {1, LastFun + 1}
      BY <1>1 DEF ScanFrames
    <2>3. QED
      BY <2>1, <2>2
  <1>7. QED
    BY <1>1, <1>3, <1>4, <1>5, <1>6

LEMMA InitType == Init => TypeInv
PROOF
  <1>. SUFFICES ASSUME Init PROVE TypeInv
    OBVIOUS
  <1>. USE GeometryAssumption DEF Init, NULL
  <1>1. PlatformTypeOK
    BY PlatformAssumption DEF PlatformTypeOK
  <1>2. HeapTypeOK
    BY DEF HeapTypeOK, Ids, Ptr
  <1>3. Len(Starts) \in Nat
    BY <1>1 DEF Starts, PlatformTypeOK
  <1>4. ControlTypeOK
    BY <1>3 DEF ControlTypeOK, Ptr
  <1>5. StackTypeOK
    BY DEF StackTypeOK
  <1>6. QED
    BY <1>1, <1>2, <1>4, <1>5 DEF TypeInv, TypeOK, ControlOK

(* Replacing the running activation of ScanPciBus by one of the right type. *)
LEMMA ReplaceScan ==
  ASSUME StackTypeOK, pc = "scan", NEW g \in ScanFrames, scans' = SetTop(scans, g),
         UNCHANGED <<heap, pc, walks, frees, report>>
  PROVE  StackTypeOK'
PROOF
  <1>1. ScanFrames' = ScanFrames /\ WalkFrames' = WalkFrames /\ FreeFrames' = FreeFrames
        /\ Ids' = Ids
    BY DEF ScanFrames, WalkFrames, FreeFrames, Ids, Ptr
  <1>2. scans \in Seq(ScanFrames) /\ scans # <<>>
    BY DEF StackTypeOK
  <1>3. SetTop(scans, g) \in Seq(ScanFrames) /\ SetTop(scans, g) # <<>>
    BY <1>2, SetTopLemma
  <1>4. QED
    BY <1>1, <1>3 DEF StackTypeOK

LEMMA SkipAbsentType == TypeInv /\ SkipAbsent => TypeInv'
PROOF
  <1>. SUFFICES ASSUME TypeInv, SkipAbsent PROVE TypeInv'
    OBVIOUS
  <1>. USE GeometryAssumption DEF SkipAbsent
  <1>. DEFINE f == Top(scans)
  <1>1. UNCHANGED <<hw, table, heap, freed, root, pc, index, segRoot, tail, walks, frees, report, lost>>
    BY DEF platform, locals
  <1>2. f \in ScanFrames /\ f.Fun < f.MaxFun
    BY TopLemma DEF TypeInv, TypeOK, StackTypeOK, InFunctionLoop
  <1>3. [f EXCEPT !.Fun = @ + 1] \in ScanFrames
    BY <1>2 DEF ScanFrames
  <1>4. StackTypeOK'
    BY <1>1, <1>3, ReplaceScan DEF InFunctionLoop, TypeInv, TypeOK
  <1>5. (PlatformTypeOK /\ HeapTypeOK /\ ControlTypeOK /\ ControlOK)'
    BY <1>1 DEF TypeInv, TypeOK, PlatformTypeOK, HeapTypeOK, ControlTypeOK, ControlOK, Starts, Ids, Ptr
  <1>6. QED
    BY <1>4, <1>5 DEF TypeInv, TypeOK

LEMMA NextDeviceType == TypeInv /\ NextDevice => TypeInv'
PROOF
  <1>. SUFFICES ASSUME TypeInv, NextDevice PROVE TypeInv'
    OBVIOUS
  <1>. USE GeometryAssumption DEF NextDevice
  <1>. DEFINE f == Top(scans)
  <1>1. UNCHANGED <<hw, table, heap, freed, root, pc, index, segRoot, tail, walks, frees, report, lost>>
    BY DEF platform, locals
  <1>2. f \in ScanFrames /\ f.Dev <= LastDev
    BY TopLemma DEF TypeInv, TypeOK, StackTypeOK
  <1>3. [f EXCEPT !.Dev = @ + 1, !.Fun = 0, !.MaxFun = 1] \in ScanFrames
    <2>. HIDE DEF f, NextDevice
    <2>1. f.Dev + 1 \in 0 .. LastDev + 1 /\ 0 \in 0 .. LastFun + 1 /\ 1 \in {1, LastFun + 1}
      BY <1>2 DEF ScanFrames
    <2>2. QED
      BY <1>2, <2>1 DEF ScanFrames
  <1>4. StackTypeOK'
    BY <1>1, <1>3, ReplaceScan DEF TypeInv, TypeOK
  <1>5. (PlatformTypeOK /\ HeapTypeOK /\ ControlTypeOK /\ ControlOK)'
    BY <1>1 DEF TypeInv, TypeOK, PlatformTypeOK, HeapTypeOK, ControlTypeOK, ControlOK, Starts, Ids, Ptr
  <1>6. QED
    BY <1>4, <1>5 DEF TypeInv, TypeOK

LEMMA NoMemoryType == TypeInv /\ NoMemory => TypeInv'
PROOF
  <1>. SUFFICES ASSUME TypeInv, NoMemory PROVE TypeInv'
    OBVIOUS
  <1>. USE GeometryAssumption DEF NoMemory
  <1>. DEFINE f == Top(scans)
  <1>1. UNCHANGED <<hw, table, heap, freed, root, pc, index, segRoot, tail, walks, frees, report>>
    BY DEF platform, locals
  <1>2. f \in ScanFrames /\ f.Fun < f.MaxFun
    BY TopLemma DEF TypeInv, TypeOK, StackTypeOK, InFunctionLoop
  <1>3. LoopBound(f) \in {1, LastFun + 1}
    BY HereType DEF TypeInv, InFunctionLoop
  <1>4. [f EXCEPT !.Fun = @ + 1, !.MaxFun = LoopBound(f)] \in ScanFrames
    <2>. HIDE DEF f, NoMemory
    <2>1. f.Fun + 1 \in 0 .. LastFun + 1
      BY <1>2 DEF ScanFrames
    <2>2. QED
      BY <1>2, <1>3, <2>1 DEF ScanFrames
  <1>5. StackTypeOK'
    BY <1>1, <1>4, ReplaceScan DEF InFunctionLoop, TypeInv, TypeOK
  <1>6. HeapTypeOK'
    BY <1>1 DEF TypeInv, TypeOK, HeapTypeOK, Answers, Ids, Ptr
  <1>7. (PlatformTypeOK /\ ControlTypeOK /\ ControlOK)'
    BY <1>1 DEF TypeInv, TypeOK, PlatformTypeOK, ControlTypeOK, ControlOK, Starts, Ids, Ptr
  <1>8. QED
    BY <1>5, <1>6, <1>7 DEF TypeInv, TypeOK

-----------------------------------------------------------------------------
(* Writing one link of one node changes that link and no other. *)
LEMMA LinkNextSibling ==
  ASSUME NEW h \in Seq(NODE), NEW i \in 1 .. Len(h), NEW v \in Nat,
         NEW g, g = [h EXCEPT ![i].NextSibling = v]
  PROVE  /\ g \in Seq(NODE)
         /\ Len(g) = Len(h)
         /\ \A n \in 1 .. Len(h) :
              /\ g[n].NextSibling = IF n = i THEN v ELSE h[n].NextSibling
              /\ g[n].FirstChild = h[n].FirstChild
PROOF
  <1>1. h[i] \in NODE
    OBVIOUS
  <1>. DEFINE e == [h[i] EXCEPT !.NextSibling = v]
  <1>2. e \in NODE /\ e.NextSibling = v /\ e.FirstChild = h[i].FirstChild
    BY <1>1 DEF NODE
  <1>3. g = [h EXCEPT ![i] = e]
    OBVIOUS
  <1>. HIDE DEF e
  <1>4. /\ g \in Seq(NODE)
        /\ Len(g) = Len(h)
        /\ \A n \in 1 .. Len(h) : g[n] = IF n = i THEN e ELSE h[n]
    BY <1>2, <1>3, ExceptSeq
  <1>5. QED
    BY <1>2, <1>4

LEMMA LinkFirstChild ==
  ASSUME NEW h \in Seq(NODE), NEW i \in 1 .. Len(h), NEW v \in Nat,
         NEW g, g = [h EXCEPT ![i].FirstChild = v]
  PROVE  /\ g \in Seq(NODE)
         /\ Len(g) = Len(h)
         /\ \A n \in 1 .. Len(h) :
              /\ g[n].FirstChild = IF n = i THEN v ELSE h[n].FirstChild
              /\ g[n].NextSibling = h[n].NextSibling
PROOF
  <1>1. h[i] \in NODE
    OBVIOUS
  <1>. DEFINE e == [h[i] EXCEPT !.FirstChild = v]
  <1>2. e \in NODE /\ e.FirstChild = v /\ e.NextSibling = h[i].NextSibling
    BY <1>1 DEF NODE
  <1>3. g = [h EXCEPT ![i] = e]
    OBVIOUS
  <1>. HIDE DEF e
  <1>4. /\ g \in Seq(NODE)
        /\ Len(g) = Len(h)
        /\ \A n \in 1 .. Len(h) : g[n] = IF n = i THEN e ELSE h[n]
    BY <1>2, <1>3, ExceptSeq
  <1>5. QED
    BY <1>2, <1>4

(* The heap after a node has been added for the running activation. *)
LEMMA WithNodeLemma ==
  ASSUME TypeOK, pc = "scan", Answers(Here(Top(scans))), NEW f, f = Top(scans)
  PROVE  /\ WithNode(f) \in Seq(NODE)
         /\ Len(WithNode(f)) = Len(heap) + 1
         /\ WithNode(f)[Len(heap) + 1].FirstChild = NULL
         /\ WithNode(f)[Len(heap) + 1].NextSibling = NULL
         /\ \A n \in Ids :
              /\ WithNode(f)[n].FirstChild = heap[n].FirstChild
              /\ WithNode(f)[n].NextSibling =
                   IF n = f.Tail THEN Len(heap) + 1 ELSE heap[n].NextSibling
PROOF
  <1>1. f \in ScanFrames /\ CreateNode(Here(f)) \in NODE
    BY HereType
  <1>2. heap \in Seq(NODE) /\ Len(heap) \in Nat
    BY DEF TypeOK, HeapTypeOK
  <1>3. f.Tail \in Ptr
    BY <1>1 DEF ScanFrames
  <1>. DEFINE h == IF f.Tail = NULL THEN heap
                   ELSE [heap EXCEPT ![f.Tail].NextSibling = Len(heap) + 1]
  <1>4. /\ h \in Seq(NODE) /\ Len(h) = Len(heap)
        /\ \A n \in Ids :
             /\ h[n].FirstChild = heap[n].FirstChild
             /\ h[n].NextSibling = IF n = f.Tail THEN Len(heap) + 1 ELSE heap[n].NextSibling
    <2>1. CASE f.Tail = NULL
      BY <1>2, <2>1 DEF Ids, NULL
    <2>2. CASE f.Tail # NULL
      <3>1. f.Tail \in 1 .. Len(heap) /\ Len(heap) + 1 \in Nat
        BY <1>2, <1>3, <2>2 DEF Ptr, NULL
      <3>2. h = [heap EXCEPT ![f.Tail].NextSibling = Len(heap) + 1]
        BY <2>2
      <3>. HIDE DEF h
      <3>3. QED
        BY <1>2, <3>1, <3>2, LinkNextSibling DEF Ids
    <2>3. QED
      BY <2>1, <2>2
  <1>5. WithNode(f) = Append(h, CreateNode(Here(f)))
    BY DEF WithNode
  <1>6. CreateNode(Here(f)).FirstChild = NULL /\ CreateNode(Here(f)).NextSibling = NULL
    BY DEF CreateNode
  <1>. HIDE DEF h
  <1>7. /\ Append(h, CreateNode(Here(f))) \in Seq(NODE)
        /\ Len(Append(h, CreateNode(Here(f)))) = Len(h) + 1
        /\ Append(h, CreateNode(Here(f)))[Len(h) + 1] = CreateNode(Here(f))
        /\ \A n \in 1 .. Len(h) : Append(h, CreateNode(Here(f)))[n] = h[n]
    BY <1>1, <1>4, AppendLemma
  <1>8. QED
    BY <1>2, <1>4, <1>5, <1>6, <1>7 DEF Ids

(* A longer heap keeps every pointer, and every stack, in type. *)
LEMMA GrowHeap ==
  ASSUME Len(heap) \in Nat, Len(heap)' \in Nat, Len(heap) <= Len(heap)'
  PROVE  /\ Ids \subseteq Ids' /\ Ptr \subseteq Ptr'
         /\ ScanFrames \subseteq ScanFrames'
         /\ Seq(ScanFrames) \subseteq Seq(ScanFrames')
         /\ Seq(WalkFrames) \subseteq Seq(WalkFrames')
         /\ Seq(FreeFrames) \subseteq Seq(FreeFrames')
         /\ Seq([Node: Ids, Depth: 0 .. DepthModulus - 1])
              \subseteq Seq([Node: Ids', Depth: 0 .. DepthModulus - 1])
PROOF
  <1>1. Ids \subseteq Ids' /\ Ptr \subseteq Ptr'
    BY DEF Ids, Ptr
  <1>2. ScanFrames \subseteq ScanFrames'
    BY <1>1 DEF ScanFrames
  <1>3. WalkFrames \subseteq WalkFrames' /\ FreeFrames \subseteq FreeFrames'
    BY <1>1 DEF WalkFrames, FreeFrames
  <1>4. [Node: Ids, Depth: 0 .. DepthModulus - 1] \subseteq [Node: Ids', Depth: 0 .. DepthModulus - 1]
    BY <1>1
  <1>5. Seq(ScanFrames) \subseteq Seq(ScanFrames')
    BY <1>2, SeqSubset
  <1>6. Seq(WalkFrames) \subseteq Seq(WalkFrames')
    BY <1>3, SeqSubset
  <1>7. Seq(FreeFrames) \subseteq Seq(FreeFrames')
    BY <1>3, SeqSubset
  <1>8. Seq([Node: Ids, Depth: 0 .. DepthModulus - 1])
          \subseteq Seq([Node: Ids', Depth: 0 .. DepthModulus - 1])
    BY <1>4, SeqSubset
  <1>9. QED
    BY <1>1, <1>2, <1>5, <1>6, <1>7, <1>8

LEMMA AddNodeType == TypeInv /\ AddNode => TypeInv'
PROOF
  <1>. SUFFICES ASSUME TypeInv, AddNode PROVE TypeInv'
    OBVIOUS
  <1>. USE GeometryAssumption
  <1>. DEFINE f   == Top(scans)
              new == Len(heap) + 1
              g   == [f EXCEPT !.Fun = @ + 1, !.MaxFun = LoopBound(f), !.Tail = new,
                               !.Head = IF f.Tail = NULL THEN new ELSE @]
  <1>1. UNCHANGED <<hw, table, freed, root, pc, index, segRoot, tail, walks, frees, report, lost>>
    BY DEF AddNode, platform, locals
  <1>2. /\ pc = "scan" /\ Answers(Here(f)) /\ Len(heap) < PoolSize
        /\ heap' = WithNode(f)
        /\ scans' = IF hw[Here(f)].bridge
                      THEN Append(SetTop(scans, g), ScanBehind(f, new))
                      ELSE SetTop(scans, g)
        /\ f.Fun < f.MaxFun
    BY DEF AddNode, InFunctionLoop
  <1>3. TypeOK
    BY DEF TypeInv
  <1>4. /\ f \in ScanFrames /\ hw[Here(f)] \in Headers /\ LoopBound(f) \in {1, LastFun + 1}
    BY <1>2, <1>3, HereType
  <1>5. Len(heap) \in Nat /\ scans \in Seq(ScanFrames) /\ scans # <<>>
    BY <1>2, <1>3 DEF TypeOK, HeapTypeOK, StackTypeOK
  <1>6. /\ heap' \in Seq(NODE) /\ Len(heap)' = Len(heap) + 1
        /\ heap'[new].FirstChild = NULL /\ heap'[new].NextSibling = NULL
        /\ \A n \in Ids : /\ heap'[n].FirstChild = heap[n].FirstChild
                          /\ heap'[n].NextSibling = IF n = f.Tail THEN new ELSE heap[n].NextSibling
    BY <1>2, <1>3, WithNodeLemma
  <1>7. /\ Ids \subseteq Ids' /\ Ptr \subseteq Ptr' /\ ScanFrames \subseteq ScanFrames'
        /\ Seq(ScanFrames) \subseteq Seq(ScanFrames')
        /\ Seq(WalkFrames) \subseteq Seq(WalkFrames')
        /\ Seq(FreeFrames) \subseteq Seq(FreeFrames')
        /\ Seq([Node: Ids, Depth: 0 .. DepthModulus - 1])
             \subseteq Seq([Node: Ids', Depth: 0 .. DepthModulus - 1])
    <2>1. Len(heap)' \in Nat /\ Len(heap) <= Len(heap)'
      BY <1>5, <1>6
    <2>2. QED
      BY <1>5, <2>1, GrowHeap
  <1>8. new \in Ptr' /\ 0 \in Ptr' /\ Ids' = Ids \cup {new}
    BY <1>5, <1>6 DEF Ptr, Ids
  <1>9. HeapTypeOK'
    <2>1. Len(heap)' <= PoolSize
      BY <1>2, <1>5, <1>6
    <2>2. \A n \in Ids' : heap'[n].FirstChild \in Ptr' /\ heap'[n].NextSibling \in Ptr'
      BY <1>3, <1>6, <1>7, <1>8 DEF TypeOK, HeapTypeOK, NULL
    <2>3. freed' \subseteq Ids' /\ lost' \subseteq DOMAIN hw'
      BY <1>1, <1>3, <1>7 DEF TypeOK, HeapTypeOK
    <2>4. QED
      BY <1>6, <2>1, <2>2, <2>3 DEF HeapTypeOK
  <1>10. g \in ScanFrames'
    <2>1. f.Fun + 1 \in 0 .. LastFun + 1
      BY <1>2, <1>4 DEF ScanFrames
    <2>2. f \in ScanFrames' /\ (IF f.Tail = NULL THEN new ELSE f.Head) \in Ptr'
      BY <1>4, <1>7, <1>8 DEF ScanFrames
    <2>. HIDE DEF f, new
    <2>3. QED
      BY <1>4, <1>8, <2>1, <2>2 DEF ScanFrames
  <1>11. ScanBehind(f, new) \in ScanFrames'
    <2>1. f.Seg \in SegmentNumbers /\ hw[Here(f)].secondary \in 0 .. LastBus
      BY <1>4 DEF ScanFrames, Headers
    <2>2. QED
      BY <1>8, <2>1 DEF ScanBehind, ScanFrame, ScanFrames, NULL
  <1>12. scans' \in Seq(ScanFrames') /\ scans' # <<>>
    <2>. HIDE DEF f, new, g
    <2>1. scans \in Seq(ScanFrames')
      BY <1>5, <1>7
    <2>2. SetTop(scans, g) \in Seq(ScanFrames') /\ SetTop(scans, g) # <<>>
      BY <1>5, <1>10, <2>1, SetTopLemma
    <2>3. /\ Append(SetTop(scans, g), ScanBehind(f, new)) \in Seq(ScanFrames')
          /\ Append(SetTop(scans, g), ScanBehind(f, new)) # <<>>
      BY <1>11, <2>2, AppendLemma
    <2>4. QED
      BY <1>2, <2>2, <2>3
  <1>13. StackTypeOK'
    <2>. HIDE DEF f, new, g
    <2>1. WalkFrames' = [Node: Ptr', Depth: 0 .. DepthModulus - 1]
      BY DEF WalkFrames
    <2>2. walks' \in Seq(WalkFrames)' /\ frees' \in Seq(FreeFrames)'
      BY <1>1, <1>3, <1>7 DEF TypeOK, StackTypeOK
    <2>3. report' \in Seq([Node: Ids', Depth: 0 .. DepthModulus - 1])
      BY <1>1, <1>3, <1>7 DEF TypeOK, StackTypeOK
    <2>4. /\ (scans' # <<>> <=> pc' = "scan") /\ (walks' # <<>> <=> pc' = "walk")
          /\ (frees' # <<>> <=> pc' = "free")
      BY <1>1, <1>2, <1>3, <1>12 DEF TypeOK, StackTypeOK
    <2>5. QED
      BY <1>12, <2>2, <2>3, <2>4 DEF StackTypeOK
  <1>14. (PlatformTypeOK /\ ControlTypeOK /\ ControlOK)'
    <2>1. Starts' = Starts
      BY <1>1 DEF Starts
    <2>2. QED
      BY <1>1, <1>7, <2>1 DEF TypeInv, TypeOK, PlatformTypeOK, ControlTypeOK, ControlOK
  <1>15. QED
    BY <1>9, <1>13, <1>14 DEF TypeInv, TypeOK

LEMMA ReturnToBridgeType == TypeInv /\ ReturnToBridge => TypeInv'
PROOF
  <1>. SUFFICES ASSUME TypeInv, ReturnToBridge PROVE TypeInv'
    OBVIOUS
  <1>. DEFINE f == Top(scans)
  <1>1. UNCHANGED <<hw, table, freed, root, pc, index, segRoot, tail, walks, frees, report, lost>>
    BY DEF ReturnToBridge, platform, locals
  <1>2. /\ pc = "scan" /\ Len(scans) > 1 /\ scans' = Below(scans)
        /\ heap' = [heap EXCEPT ![f.Out].FirstChild = f.Head]
    BY DEF ReturnToBridge
  <1>3. scans \in Seq(ScanFrames) /\ scans # <<>> /\ heap \in Seq(NODE) /\ Len(heap) \in Nat
    BY <1>2 DEF TypeInv, TypeOK, StackTypeOK, HeapTypeOK
  <1>4. f \in ScanFrames
    BY <1>3, TopLemma
  <1>5. f.Head \in Ptr /\ f.Out \in Ptr
    BY <1>4 DEF ScanFrames
  <1>. HIDE DEF f
  <1>6. /\ heap' \in Seq(NODE) /\ Len(heap)' = Len(heap)
        /\ \A n \in Ids : /\ heap'[n].FirstChild = IF n = f.Out THEN f.Head ELSE heap[n].FirstChild
                          /\ heap'[n].NextSibling = heap[n].NextSibling
    <2>1. CASE f.Out \in Ids
      <3>1. f.Head \in Nat
        BY <1>3, <1>5 DEF Ptr
      <3>2. QED
        BY <1>2, <1>3, <2>1, <3>1, LinkFirstChild DEF Ids
    <2>2. CASE f.Out \notin Ids
      <3>1. heap' = heap
        BY <1>2, <1>3, <2>2 DEF Ids
      <3>2. QED
        BY <1>3, <2>2, <3>1
    <2>3. QED
      BY <2>1, <2>2
  <1>7. Ids' = Ids /\ Ptr' = Ptr
    BY <1>6 DEF Ids, Ptr
  <1>8. HeapTypeOK'
    BY <1>1, <1>5, <1>6, <1>7 DEF TypeInv, TypeOK, HeapTypeOK
  <1>9. scans' \in Seq(ScanFrames) /\ scans' # <<>>
    <2>1. Below(scans) \in Seq(ScanFrames) /\ Len(Below(scans)) = Len(scans) - 1
      BY <1>3, BelowLemma
    <2>2. Len(scans) \in Nat
      BY <1>3
    <2>3. QED
      BY <1>2, <2>1, <2>2
  <1>10. StackTypeOK'
    <2>1. ScanFrames' = ScanFrames /\ WalkFrames' = WalkFrames /\ FreeFrames' = FreeFrames
      BY <1>7 DEF ScanFrames, WalkFrames, FreeFrames
    <2>2. QED
      BY <1>1, <1>2, <1>7, <1>9, <2>1 DEF TypeInv, TypeOK, StackTypeOK
  <1>11. (PlatformTypeOK /\ ControlTypeOK /\ ControlOK)'
    BY <1>1, <1>7 DEF TypeInv, TypeOK, PlatformTypeOK, ControlTypeOK, ControlOK, Starts
  <1>12. QED
    BY <1>8, <1>10, <1>11 DEF TypeInv, TypeOK

(* Steps that leave the heap alone leave all the types of pointers alone. *)
LEMMA SameHeap ==
  ASSUME UNCHANGED <<heap, hw, table>>
  PROVE  /\ Ids' = Ids /\ Ptr' = Ptr /\ Starts' = Starts
         /\ ScanFrames' = ScanFrames /\ WalkFrames' = WalkFrames /\ FreeFrames' = FreeFrames
         /\ PlatformTypeOK' <=> PlatformTypeOK
         /\ UNCHANGED <<freed, lost>> => (HeapTypeOK' <=> HeapTypeOK)
PROOF
  <1>1. Ids' = Ids /\ Ptr' = Ptr /\ Starts' = Starts
    BY DEF Ids, Ptr, Starts
  <1>2. ScanFrames' = ScanFrames /\ WalkFrames' = WalkFrames /\ FreeFrames' = FreeFrames
    BY <1>1 DEF ScanFrames, WalkFrames, FreeFrames
  <1>3. PlatformTypeOK' <=> PlatformTypeOK
    BY DEF PlatformTypeOK
  <1>4. UNCHANGED <<freed, lost>> => (HeapTypeOK' <=> HeapTypeOK)
    BY <1>1 DEF HeapTypeOK
  <1>5. QED
    BY <1>1, <1>2, <1>3, <1>4

(* The steps of ScanAllSegments, and the return to it. *)
LEMMA SegmentsType ==
  TypeInv /\ (\/ ReturnToSegment \/ BeginSegment \/ SkipEmptySegment
              \/ LastSiblingStep \/ LastSiblingReturn \/ EndSegments) => TypeInv'
PROOF
  <1>. SUFFICES ASSUME TypeInv,
                       \/ ReturnToSegment \/ BeginSegment \/ SkipEmptySegment
                       \/ LastSiblingStep \/ LastSiblingReturn \/ EndSegments
                PROVE  TypeInv'
    OBVIOUS
  <1>. USE GeometryAssumption
  <1>1. UNCHANGED <<heap, hw, table, freed, walks, frees, report, lost>>
    BY DEF ReturnToSegment, BeginSegment, SkipEmptySegment, LastSiblingStep,
           LastSiblingReturn, EndSegments, platform, locals
  <1>2. /\ Ids' = Ids /\ Ptr' = Ptr /\ Starts' = Starts
        /\ ScanFrames' = ScanFrames /\ WalkFrames' = WalkFrames /\ FreeFrames' = FreeFrames
        /\ PlatformTypeOK' /\ HeapTypeOK'
    BY <1>1, SameHeap DEF TypeInv, TypeOK
  <1>3. Len(Starts) \in Nat
    BY DEF Starts, TypeInv, TypeOK, PlatformTypeOK
  <1>4. CASE ReturnToSegment
    <2>1. Top(scans) \in ScanFrames
      BY <1>4, TopLemma DEF ReturnToSegment, TypeInv, TypeOK, StackTypeOK
    <2>2. Top(scans).Head \in Ptr
      BY <2>1 DEF ScanFrames
    <2>3. ControlTypeOK'
      BY <1>2, <1>4, <2>2 DEF ReturnToSegment, TypeInv, TypeOK, ControlTypeOK
    <2>4. StackTypeOK'
      BY <1>1, <1>2, <1>4 DEF ReturnToSegment, TypeInv, TypeOK, StackTypeOK
    <2>5. ControlOK'
      BY <1>2, <1>4 DEF ReturnToSegment, TypeInv, ControlOK
    <2>6. QED
      BY <1>2, <2>3, <2>4, <2>5 DEF TypeInv, TypeOK
  <1>5. CASE BeginSegment
    <2>1. Starts[index].Seg \in SegmentNumbers /\ Starts[index].StartBus \in 0 .. LastBus
      <3>1. CASE table = <<>>
        <4>1. index = 1
          BY <1>5, <3>1 DEF Starts, BeginSegment, TypeInv, TypeOK, ControlTypeOK
        <4>2. Starts[1].Seg = 0 /\ Starts[1].StartBus = 0
          BY <3>1 DEF Starts
        <4>3. 0 \in SegmentNumbers
          BY DEF SegmentNumbers
        <4>4. QED
          BY <4>1, <4>2, <4>3
      <3>2. CASE table # <<>>
        <4>1. Starts \in Seq(SegmentInfos) /\ index \in 1 .. Len(Starts)
          BY <1>3, <1>5, <3>2 DEF Starts, BeginSegment, TypeInv, TypeOK, ControlTypeOK, PlatformTypeOK
        <4>2. Starts[index] \in SegmentInfos
          BY <4>1
        <4>3. QED
          BY <4>2 DEF SegmentInfos
      <3>3. QED
        BY <3>1, <3>2
    <2>2. 0 \in Ptr
      BY DEF Ptr, TypeInv, TypeOK, HeapTypeOK
    <2>3. ScanFrame(Starts[index].Seg, Starts[index].StartBus, NULL) \in ScanFrames
      BY <2>1, <2>2 DEF ScanFrame, ScanFrames, NULL
    <2>4. StackTypeOK'
      <3>1. scans' \in Seq(ScanFrames) /\ scans' # <<>>
        BY <1>5, <2>3 DEF BeginSegment
      <3>2. pc' = "scan" /\ pc = "segment"
        BY <1>5 DEF BeginSegment
      <3>3. QED
        BY <1>1, <1>2, <3>1, <3>2 DEF TypeInv, TypeOK, StackTypeOK
    <2>5. ControlTypeOK' /\ ControlOK'
      BY <1>2, <1>5 DEF BeginSegment, TypeInv, TypeOK, ControlTypeOK, ControlOK, locals
    <2>6. QED
      BY <1>2, <2>4, <2>5 DEF TypeInv, TypeOK
  <1>6. CASE SkipEmptySegment \/ LastSiblingReturn
    <2>1. index' \in 1 .. Len(Starts) + 1
      BY <1>3, <1>6 DEF SkipEmptySegment, LastSiblingReturn, TypeInv, TypeOK, ControlTypeOK, ControlOK
    <2>2. ControlTypeOK' /\ ControlOK'
      BY <1>2, <1>6, <2>1 DEF SkipEmptySegment, LastSiblingReturn, TypeInv, TypeOK, ControlTypeOK, ControlOK
    <2>3. StackTypeOK'
      BY <1>1, <1>2, <1>6 DEF SkipEmptySegment, LastSiblingReturn, TypeInv, TypeOK, StackTypeOK
    <2>4. QED
      BY <1>2, <2>2, <2>3 DEF TypeInv, TypeOK
  <1>7. CASE LastSiblingStep
    <2>1. heap[tail].NextSibling \in Ptr
      BY <1>7 DEF LastSiblingStep, TypeInv, TypeOK, ControlOK, ControlTypeOK, HeapTypeOK, Ptr, Ids, NULL
    <2>2. ControlTypeOK' /\ ControlOK'
      BY <1>2, <1>7, <2>1 DEF LastSiblingStep, TypeInv, TypeOK, ControlTypeOK, ControlOK
    <2>3. StackTypeOK'
      BY <1>1, <1>2, <1>7 DEF LastSiblingStep, TypeInv, TypeOK, StackTypeOK
    <2>4. QED
      BY <1>2, <2>2, <2>3 DEF TypeInv, TypeOK
  <1>8. CASE EndSegments
    <2>1. ControlTypeOK' /\ ControlOK'
      BY <1>2, <1>8 DEF EndSegments, locals, TypeInv, TypeOK, ControlTypeOK, ControlOK
    <2>2. StackTypeOK'
      BY <1>1, <1>2, <1>8 DEF EndSegments, TypeInv, TypeOK, StackTypeOK
    <2>3. QED
      BY <1>2, <2>1, <2>2 DEF TypeInv, TypeOK
  <1>9. QED
    BY <1>4, <1>5, <1>6, <1>7, <1>8

LEMMA LinkSegmentHeap ==
  ASSUME TypeInv, LinkSegment
  PROVE  /\ heap' \in Seq(NODE) /\ Len(heap)' = Len(heap) /\ Len(heap) \in Nat
         /\ \A n \in Ids :
              /\ heap'[n].FirstChild = heap[n].FirstChild
              /\ heap'[n].NextSibling = IF n = tail THEN segRoot ELSE heap[n].NextSibling
PROOF
  <1>1. heap \in Seq(NODE) /\ Len(heap) \in Nat /\ tail \in Ptr /\ segRoot \in Ptr
    BY DEF TypeInv, TypeOK, HeapTypeOK, ControlTypeOK
  <1>2. CASE tail = NULL
    <2>1. heap' = heap
      BY <1>2 DEF LinkSegment
    <2>2. ASSUME NEW n \in Ids PROVE n # tail
      BY <1>1, <1>2 DEF Ids, NULL
    <2>3. \A n \in Ids :
            /\ heap'[n].FirstChild = heap[n].FirstChild
            /\ heap'[n].NextSibling = IF n = tail THEN segRoot ELSE heap[n].NextSibling
      BY <2>1, <2>2
    <2>4. heap' \in Seq(NODE) /\ Len(heap)' = Len(heap)
      BY <1>1, <2>1
    <2>5. QED
      BY <1>1, <2>3, <2>4
  <1>3. CASE tail # NULL
    <2>1. heap' = [heap EXCEPT ![tail].NextSibling = segRoot]
      BY <1>3 DEF LinkSegment
    <2>2. tail \in 1 .. Len(heap) /\ segRoot \in Nat
      BY <1>1, <1>3 DEF Ptr, NULL
    <2>3. /\ heap' \in Seq(NODE) /\ Len(heap') = Len(heap)
          /\ \A n \in 1 .. Len(heap) :
               /\ heap'[n].NextSibling = IF n = tail THEN segRoot ELSE heap[n].NextSibling
               /\ heap'[n].FirstChild = heap[n].FirstChild
      BY <1>1, <2>1, <2>2, LinkNextSibling
    <2>4. QED
      BY <1>1, <2>3 DEF Ids
  <1>4. QED
    BY <1>2, <1>3

LEMMA LinkSegmentType == TypeInv /\ LinkSegment => TypeInv'
PROOF
  <1>. SUFFICES ASSUME TypeInv, LinkSegment PROVE TypeInv'
    OBVIOUS
  <1>1. UNCHANGED <<hw, table, freed, index, segRoot, scans, walks, frees, report, lost>>
    BY DEF LinkSegment, platform
  <1>2. /\ heap' \in Seq(NODE) /\ Len(heap)' = Len(heap) /\ Len(heap) \in Nat
        /\ \A n \in Ids :
             /\ heap'[n].FirstChild = heap[n].FirstChild
             /\ heap'[n].NextSibling = IF n = tail THEN segRoot ELSE heap[n].NextSibling
    BY LinkSegmentHeap
  <1>3. Ids' = Ids /\ Ptr' = Ptr
    BY <1>2 DEF Ids, Ptr
  <1>4. HeapTypeOK'
    BY <1>1, <1>2, <1>3 DEF TypeInv, TypeOK, HeapTypeOK, ControlTypeOK
  <1>5. ScanFrames' = ScanFrames /\ WalkFrames' = WalkFrames /\ FreeFrames' = FreeFrames
    BY <1>3 DEF ScanFrames, WalkFrames, FreeFrames
  <1>6. StackTypeOK'
    BY <1>1, <1>3, <1>5 DEF LinkSegment, TypeInv, TypeOK, StackTypeOK
  <1>7. Starts' = Starts /\ PlatformTypeOK'
    BY <1>1 DEF Starts, TypeInv, TypeOK, PlatformTypeOK
  <1>8. ControlTypeOK' /\ ControlOK'
    BY <1>1, <1>3, <1>7 DEF LinkSegment, TypeInv, TypeOK, ControlTypeOK, ControlOK
  <1>9. QED
    BY <1>4, <1>6, <1>7, <1>8 DEF TypeInv, TypeOK

(* The steps of the walk, and the start of the release without one. *)
LEMMA WalkType == TypeInv /\ Walk => TypeInv'
PROOF
  <1>. SUFFICES ASSUME TypeInv, Walk PROVE TypeInv'
    OBVIOUS
  <1>. USE GeometryAssumption
  <1>1. UNCHANGED <<heap, hw, table, freed, root, index, segRoot, tail, scans, lost>>
    BY DEF Walk, BeginWalk, SkipWalk, Visit, ReturnFromWalk, platform, locals
  <1>2. /\ Ids' = Ids /\ Ptr' = Ptr /\ Starts' = Starts
        /\ ScanFrames' = ScanFrames /\ WalkFrames' = WalkFrames /\ FreeFrames' = FreeFrames
        /\ PlatformTypeOK' /\ HeapTypeOK'
    BY <1>1, SameHeap DEF TypeInv, TypeOK
  <1>3. ControlTypeOK' /\ ControlOK'
    BY <1>1, <1>2 DEF Walk, BeginWalk, SkipWalk, Visit, ReturnFromWalk,
                      TypeInv, TypeOK, ControlTypeOK, ControlOK
  <1>4. FreeFrame(root) \in FreeFrames /\ 0 \in Ptr /\ root \in Ptr
    BY DEF FreeFrame, FreeFrames, NULL, Ptr, TypeInv, TypeOK, ControlTypeOK, HeapTypeOK
  <1>5. CASE BeginWalk
    <2>1. walks' \in Seq(WalkFrames) /\ walks' # <<>>
      BY <1>4, <1>5 DEF BeginWalk, WalkFrames
    <2>2. pc = "scanned" /\ pc' = "walk" /\ UNCHANGED <<frees, report>>
      BY <1>5 DEF BeginWalk
    <2>3. StackTypeOK'
      BY <1>1, <1>2, <2>1, <2>2 DEF TypeInv, TypeOK, StackTypeOK
    <2>4. QED
      BY <1>2, <1>3, <2>3 DEF TypeInv, TypeOK
  <1>6. CASE SkipWalk
    <2>1. frees' \in Seq(FreeFrames) /\ frees' # <<>>
      BY <1>4, <1>6 DEF SkipWalk
    <2>2. pc = "scanned" /\ pc' = "free" /\ UNCHANGED <<walks, report>>
      BY <1>6 DEF SkipWalk
    <2>3. StackTypeOK'
      BY <1>1, <1>2, <2>1, <2>2 DEF TypeInv, TypeOK, StackTypeOK
    <2>4. QED
      BY <1>2, <1>3, <2>3 DEF TypeInv, TypeOK
  <1>7. CASE Visit
    <2>. DEFINE f    == Top(walks)
                node == heap[f.Node]
                rest == SetTop(walks, [f EXCEPT !.Node = node.NextSibling])
                call == [Node |-> node.FirstChild, Depth |-> (f.Depth + 1) % DepthModulus]
    <2>1. walks \in Seq(WalkFrames) /\ walks # <<>>
      BY <1>7 DEF Visit, TypeInv, TypeOK, StackTypeOK
    <2>2. f \in WalkFrames
      BY <2>1, TopLemma
    <2>3. f.Node \in Ids /\ f.Depth \in 0 .. DepthModulus - 1
      BY <1>7, <2>2 DEF Visit, WalkFrames, Ptr, Ids, NULL, TypeInv, TypeOK, HeapTypeOK
    <2>4. node.FirstChild \in Ptr /\ node.NextSibling \in Ptr
      BY <2>3 DEF TypeInv, TypeOK, HeapTypeOK
    <2>5. (f.Depth + 1) % DepthModulus \in 0 .. DepthModulus - 1
      BY <2>3
    <2>6. [f EXCEPT !.Node = node.NextSibling] \in WalkFrames /\ call \in WalkFrames
      BY <2>2, <2>4, <2>5 DEF WalkFrames
    <2>7. rest \in Seq(WalkFrames) /\ rest # <<>>
      <3>. HIDE DEF f, node
      <3>1. QED
        BY <2>1, <2>6, SetTopLemma
    <2>8. Append(rest, call) \in Seq(WalkFrames) /\ Append(rest, call) # <<>>
      <3>. HIDE DEF rest, call
      <3>1. QED
        BY <2>6, <2>7, AppendLemma
    <2>9. /\ walks' = IF node.FirstChild = NULL THEN rest ELSE Append(rest, call)
          /\ report' = Append(report, [Node |-> f.Node, Depth |-> f.Depth])
          /\ pc = "walk" /\ UNCHANGED <<pc, frees>>
      BY <1>7 DEF Visit
    <2>10. report' \in Seq([Node: Ids, Depth: 0 .. DepthModulus - 1])
      <3>. HIDE DEF f
      <3>1. [Node |-> f.Node, Depth |-> f.Depth] \in [Node: Ids, Depth: 0 .. DepthModulus - 1]
        BY <2>3
      <3>2. QED
        BY <2>9, <3>1, AppendLemma DEF TypeInv, TypeOK, StackTypeOK
    <2>11. walks' \in Seq(WalkFrames) /\ walks' # <<>>
      <3>. HIDE DEF f, node, rest, call
      <3>1. QED
        BY <2>7, <2>8, <2>9
    <2>12. StackTypeOK'
      BY <1>1, <1>2, <2>9, <2>10, <2>11 DEF TypeInv, TypeOK, StackTypeOK
    <2>13. QED
      BY <1>2, <1>3, <2>12 DEF TypeInv, TypeOK
  <1>8. CASE ReturnFromWalk
    <2>1. walks \in Seq(WalkFrames) /\ walks # <<>> /\ pc = "walk"
      BY <1>8 DEF ReturnFromWalk, TypeInv, TypeOK, StackTypeOK
    <2>2. Below(walks) \in Seq(WalkFrames) /\ Len(Below(walks)) = Len(walks) - 1 /\ Len(walks) \in Nat \ {0}
      BY <2>1, BelowLemma, TopLemma
    <2>3. UNCHANGED report /\ walks' = Below(walks)
      BY <1>8 DEF ReturnFromWalk
    <2>4. CASE Len(walks) > 1
      <3>1. walks' \in Seq(WalkFrames) /\ walks' # <<>> /\ UNCHANGED <<pc, frees>>
        BY <1>8, <2>2, <2>3, <2>4 DEF ReturnFromWalk
      <3>2. StackTypeOK'
        BY <1>1, <1>2, <2>1, <2>3, <3>1 DEF TypeInv, TypeOK, StackTypeOK
      <3>3. QED
        BY <1>2, <1>3, <3>2 DEF TypeInv, TypeOK
    <2>5. CASE ~(Len(walks) > 1)
      <3>1. walks' \in Seq(WalkFrames) /\ walks' = <<>>
        BY <2>2, <2>3, <2>5
      <3>2. pc' = "free" /\ frees' = <<FreeFrame(root)>>
        BY <1>8, <2>5 DEF ReturnFromWalk
      <3>3. frees' \in Seq(FreeFrames) /\ frees' # <<>>
        BY <1>4, <3>2
      <3>4. StackTypeOK'
        BY <1>1, <1>2, <2>1, <2>3, <3>1, <3>2, <3>3 DEF TypeInv, TypeOK, StackTypeOK
      <3>5. QED
        BY <1>2, <1>3, <3>4 DEF TypeInv, TypeOK
    <2>6. QED
      BY <2>4, <2>5
  <1>9. QED
    BY <1>5, <1>6, <1>7, <1>8 DEF Walk

(* The steps of the release. *)
LEMMA FreeType == TypeInv /\ Free => TypeInv'
PROOF
  <1>. SUFFICES ASSUME TypeInv, Free PROVE TypeInv'
    OBVIOUS
  <1>. DEFINE f == Top(frees)
  <1>1. UNCHANGED <<heap, hw, table, index, segRoot, tail, scans, walks, report, lost>>
    BY DEF Free, FreeEnter, Release, ReturnFromFree, platform, locals
  <1>2. /\ Ids' = Ids /\ Ptr' = Ptr /\ Starts' = Starts
        /\ ScanFrames' = ScanFrames /\ WalkFrames' = WalkFrames /\ FreeFrames' = FreeFrames
        /\ PlatformTypeOK'
    BY <1>1, SameHeap DEF TypeInv, TypeOK
  <1>3. frees \in Seq(FreeFrames) /\ frees # <<>> /\ pc = "free"
    BY DEF Free, FreeEnter, Release, ReturnFromFree, TypeInv, TypeOK, StackTypeOK
  <1>4. f \in FreeFrames /\ Len(frees) \in Nat \ {0}
    BY <1>3, TopLemma
  <1>5. f.Node \in Ptr /\ f.NextSib \in Ptr /\ 0 \in Ptr /\ Len(heap) \in Nat
    BY <1>4 DEF FreeFrames, Ptr, TypeInv, TypeOK, HeapTypeOK
  <1>6. f.Node # NULL => f.Node \in Ids
    BY <1>5 DEF Ptr, Ids, NULL
  <1>7. ControlTypeOK' /\ ControlOK'
    BY <1>1, <1>2, <1>5 DEF Free, FreeEnter, Release, ReturnFromFree, NULL,
                            TypeInv, TypeOK, ControlTypeOK, ControlOK
  <1>8. ASSUME frees' \in Seq(FreeFrames), frees' # <<>>, UNCHANGED pc PROVE StackTypeOK'
    BY <1>1, <1>2, <1>3, <1>8 DEF TypeInv, TypeOK, StackTypeOK
  <1>9. CASE FreeEnter
    <2>. DEFINE node == heap[f.Node]
                g    == [f EXCEPT !.NextSib = node.NextSibling, !.entered = TRUE]
    <2>1. f.Node # NULL /\ UNCHANGED <<pc, freed>>
      BY <1>9 DEF FreeEnter
    <2>2. node.FirstChild \in Ptr /\ node.NextSibling \in Ptr
      BY <1>6, <2>1 DEF TypeInv, TypeOK, HeapTypeOK
    <2>3. g \in FreeFrames
      <3>. HIDE DEF f, node
      <3>1. QED
        BY <1>4, <2>2 DEF FreeFrames
    <2>4. FreeFrame(node.FirstChild) \in FreeFrames
      <3>. HIDE DEF f, node
      <3>1. QED
        BY <1>5, <2>2 DEF FreeFrames, FreeFrame, NULL
    <2>5. frees' = IF node.FirstChild = NULL THEN SetTop(frees, g)
                   ELSE Append(SetTop(frees, g), FreeFrame(node.FirstChild))
      BY <1>9 DEF FreeEnter
    <2>6. frees' \in Seq(FreeFrames) /\ frees' # <<>>
      <3>. HIDE DEF f, node, g
      <3>1. SetTop(frees, g) \in Seq(FreeFrames) /\ SetTop(frees, g) # <<>>
        BY <1>3, <2>3, SetTopLemma
      <3>2. /\ Append(SetTop(frees, g), FreeFrame(node.FirstChild)) \in Seq(FreeFrames)
            /\ Append(SetTop(frees, g), FreeFrame(node.FirstChild)) # <<>>
        BY <2>4, <3>1, AppendLemma
      <3>3. QED
        BY <2>5, <3>1, <3>2
    <2>7. HeapTypeOK'
      BY <1>1, <2>1, SameHeap DEF TypeInv, TypeOK
    <2>8. QED
      BY <1>2, <1>7, <1>8, <2>1, <2>6, <2>7 DEF TypeInv, TypeOK
  <1>10. CASE Release
    <2>. DEFINE g == [f EXCEPT !.Node = f.NextSib, !.entered = FALSE]
    <2>1. /\ f.Node # NULL /\ UNCHANGED pc
          /\ freed' = freed \cup {f.Node} /\ frees' = SetTop(frees, g)
      BY <1>10 DEF Release
    <2>2. g \in FreeFrames
      <3>. HIDE DEF f
      <3>1. QED
        BY <1>4, <1>5 DEF FreeFrames
    <2>3. frees' \in Seq(FreeFrames) /\ frees' # <<>>
      <3>. HIDE DEF f, g
      <3>1. QED
        BY <1>3, <2>1, <2>2, SetTopLemma
    <2>4. HeapTypeOK'
      <3>. HIDE DEF f, g
      <3>1. freed' \subseteq Ids'
        BY <1>2, <1>6, <2>1 DEF TypeInv, TypeOK, HeapTypeOK
      <3>2. QED
        BY <1>1, <1>2, <3>1 DEF TypeInv, TypeOK, HeapTypeOK
    <2>5. QED
      BY <1>2, <1>7, <1>8, <2>1, <2>3, <2>4 DEF TypeInv, TypeOK
  <1>11. CASE ReturnFromFree
    <2>1. frees' = Below(frees) /\ UNCHANGED freed
      BY <1>11 DEF ReturnFromFree
    <2>2. Below(frees) \in Seq(FreeFrames) /\ Len(Below(frees)) = Len(frees) - 1
      BY <1>3, BelowLemma
    <2>3. HeapTypeOK'
      BY <1>1, <2>1, SameHeap DEF TypeInv, TypeOK
    <2>4. StackTypeOK'
      <3>1. CASE Len(frees) > 1
        <4>1. UNCHANGED pc /\ frees' # <<>>
          BY <1>4, <1>11, <2>1, <2>2, <3>1 DEF ReturnFromFree
        <4>2. QED
          BY <1>8, <2>1, <2>2, <4>1
      <3>2. CASE ~(Len(frees) > 1)
        <4>1. pc' = "done" /\ frees' = <<>>
          BY <1>4, <1>11, <2>1, <2>2, <3>2 DEF ReturnFromFree
        <4>2. QED
          BY <1>1, <1>2, <1>3, <2>1, <2>2, <4>1 DEF TypeInv, TypeOK, StackTypeOK
      <3>3. QED
        BY <3>1, <3>2
    <2>5. QED
      BY <1>2, <1>7, <2>3, <2>4 DEF TypeInv, TypeOK
  <1>12. QED
    BY <1>9, <1>10, <1>11 DEF Free

LEMMA StutterType == TypeInv /\ UNCHANGED vars => TypeInv'
PROOF
  <1>. SUFFICES ASSUME TypeInv, UNCHANGED vars PROVE TypeInv'
    OBVIOUS
  <1>1. UNCHANGED <<hw, table, heap, freed, root, pc, index, segRoot, tail, scans, walks,
                    frees, report, lost>>
    BY DEF vars
  <1>2. /\ Ids' = Ids /\ Ptr' = Ptr /\ Starts' = Starts
        /\ ScanFrames' = ScanFrames /\ WalkFrames' = WalkFrames /\ FreeFrames' = FreeFrames
        /\ PlatformTypeOK' /\ HeapTypeOK'
    BY <1>1, SameHeap DEF TypeInv, TypeOK
  <1>3. ControlTypeOK' /\ ControlOK'
    BY <1>1, <1>2 DEF TypeInv, TypeOK, ControlTypeOK, ControlOK
  <1>4. StackTypeOK'
    BY <1>1, <1>2 DEF TypeInv, TypeOK, StackTypeOK
  <1>5. QED
    BY <1>2, <1>3, <1>4 DEF TypeInv, TypeOK

LEMMA NextType == TypeInv /\ [Next]_vars => TypeInv'
PROOF
  BY SkipAbsentType, NoMemoryType, AddNodeType, NextDeviceType, ReturnToBridgeType,
     SegmentsType, LinkSegmentType, WalkType, FreeType, StutterType DEF Next, Scan

(* Every reachable state of the scan, the walk and the release is of the
   types TypeOK states: no counter leaves its width, and no pointer dangles
   outside the heap, on any machine. *)
THEOREM TypeCorrect == Spec => []TypeOK
PROOF
  <1>1. TypeInv => TypeOK
    BY DEF TypeInv
  <1>2. QED
    BY InitType, NextType, <1>1, PTL DEF Spec

-----------------------------------------------------------------------------
(* The shape of the tree while it is built.  FramesOK is about the
   activations of ScanPciBus: each has its chain's first and last node or
   neither, the last one has no sibling yet, the bridge it is called for no
   child yet; bridges and last nodes of inner activations were allocated
   after those of outer ones, so no activation writes another one's link. *)
FrameOK(f) ==
  /\ f.Tail = NULL <=> f.Head = NULL
  /\ f.Head # NULL => f.Head > f.Out /\ f.Head > tail
  /\ f.Tail # NULL => f.Tail > tail /\ heap[f.Tail].NextSibling = NULL

FramesOK ==
  /\ \A k \in 1 .. Len(scans) :
       /\ FrameOK(scans[k])
       /\ k > 1 => scans[k].Out \in Ids /\ heap[scans[k].Out].FirstChild = NULL
  /\ \A j, k \in 1 .. Len(scans) :
       j < k => /\ scans[j].Out < scans[k].Out
                /\ scans[k].Tail # NULL => scans[j].Tail < scans[k].Tail

(* ListOK is about ScanAllSegments: the list ends where the next segment is
   to be hung. *)
ListOK ==
  /\ pc \in {"segment", "scan", "link"} /\ tail # NULL => heap[tail].NextSibling = NULL
  /\ Scanning => (tail = NULL <=> root = NULL)
  /\ table = <<>> => pc \notin {"link", "last"} /\ (Scanning => tail = NULL)
  /\ pc = "link" /\ segRoot # NULL => segRoot > tail

ShapeInv == TypeInv /\ LinksForward /\ FramesOK /\ ListOK

LEMMA InitShape == Init => ShapeInv
PROOF
  <1>. SUFFICES ASSUME Init PROVE ShapeInv
    OBVIOUS
  <1>1. TypeInv
    BY InitType
  <1>2. LinksForward
    BY DEF Init, LinksForward, Ids
  <1>3. FramesOK
    BY DEF Init, FramesOK
  <1>4. ListOK
    BY DEF Init, ListOK, NULL, Scanning
  <1>5. QED
    BY <1>1, <1>2, <1>3, <1>4 DEF ShapeInv

(* What the types say of pointers, numbers at last. *)
LEMMA PointerTypes ==
  ASSUME TypeInv
  PROVE  /\ Len(heap) \in Nat
         /\ root \in 0 .. Len(heap) /\ segRoot \in 0 .. Len(heap) /\ tail \in 0 .. Len(heap)
         /\ \A n \in 1 .. Len(heap) :
              heap[n].FirstChild \in 0 .. Len(heap) /\ heap[n].NextSibling \in 0 .. Len(heap)
         /\ Len(scans) \in Nat
         /\ \A k \in 1 .. Len(scans) :
              /\ scans[k].Head \in 0 .. Len(heap)
              /\ scans[k].Tail \in 0 .. Len(heap)
              /\ scans[k].Out \in 0 .. Len(heap)
PROOF
  <1>1. Len(heap) \in Nat /\ Ids = 1 .. Len(heap) /\ Ptr = 0 .. Len(heap)
    BY DEF TypeInv, TypeOK, HeapTypeOK, Ids, Ptr
  <1>2. root \in Ptr /\ segRoot \in Ptr /\ tail \in Ptr
    BY DEF TypeInv, TypeOK, ControlTypeOK
  <1>3. \A n \in Ids : heap[n].FirstChild \in Ptr /\ heap[n].NextSibling \in Ptr
    BY DEF TypeInv, TypeOK, HeapTypeOK
  <1>4. scans \in Seq(ScanFrames)
    BY DEF TypeInv, TypeOK, StackTypeOK
  <1>5. ASSUME NEW k \in 1 .. Len(scans)
        PROVE  scans[k].Head \in Ptr /\ scans[k].Tail \in Ptr /\ scans[k].Out \in Ptr
    <2>1. scans[k] \in ScanFrames
      BY <1>4
    <2>2. QED
      BY <2>1 DEF ScanFrames
  <1>6. QED
    BY <1>1, <1>2, <1>3, <1>4, <1>5

(* Steps of the loops that leave the running activation's chain as it is. *)
LEMMA SameChain ==
  ASSUME TypeInv, pc = "scan", NEW g \in ScanFrames, scans' = SetTop(scans, g),
         g.Head = Top(scans).Head, g.Tail = Top(scans).Tail, g.Out = Top(scans).Out
  PROVE  /\ Len(scans') = Len(scans)
         /\ \A k \in 1 .. Len(scans) : /\ scans'[k].Head = scans[k].Head
                                       /\ scans'[k].Tail = scans[k].Tail
                                       /\ scans'[k].Out = scans[k].Out
PROOF
  <1>1. scans \in Seq(ScanFrames) /\ scans # <<>>
    BY DEF TypeInv, TypeOK, StackTypeOK
  <1>2. Len(scans) \in Nat \ {0}
    BY <1>1, TopLemma
  <1>3. /\ Len(scans') = Len(scans) /\ scans'[Len(scans)] = g
        /\ \A k \in 1 .. Len(scans) - 1 : scans'[k] = scans[k]
    <2>1. ReplacesTop(ScanFrames, scans, g, SetTop(scans, g))
      BY <1>1, SetTopReplaces
    <2>2. QED
      BY <2>1 DEF ReplacesTop
  <1>4. ASSUME NEW k \in 1 .. Len(scans)
        PROVE  /\ scans'[k].Head = scans[k].Head /\ scans'[k].Tail = scans[k].Tail
               /\ scans'[k].Out = scans[k].Out
    <2>1. CASE k = Len(scans)
      BY <1>3, <2>1 DEF Top
    <2>2. CASE k # Len(scans)
      <3>1. k \in 1 .. Len(scans) - 1
        BY <1>2, <2>2
      <3>2. QED
        BY <1>3, <3>1
    <2>3. QED
      BY <2>1, <2>2
  <1>5. QED
    BY <1>3, <1>4

(* SkipAbsent, NoMemory and NextDevice are such steps. *)
ChainsStay ==
  /\ UNCHANGED <<hw, table, heap, root, pc, segRoot, tail>> /\ pc = "scan"
  /\ Len(scans') = Len(scans)
  /\ \A k \in 1 .. Len(scans) : /\ scans'[k].Head = scans[k].Head
                                /\ scans'[k].Tail = scans[k].Tail
                                /\ scans'[k].Out = scans[k].Out

LEMMA LoopSteps ==
  ASSUME TypeInv, SkipAbsent \/ NoMemory \/ NextDevice
  PROVE  ChainsStay
PROOF
  <1>. USE GeometryAssumption
  <1>. DEFINE f == Top(scans)
  <1>1. UNCHANGED <<hw, table, heap, root, pc, segRoot, tail>> /\ pc = "scan"
    BY DEF SkipAbsent, NoMemory, NextDevice, InFunctionLoop, platform, locals
  <1>2. f \in ScanFrames
    BY <1>1, TopLemma DEF TypeInv, TypeOK, StackTypeOK
  <1>3. TypeOK'
    BY SkipAbsentType, NoMemoryType, NextDeviceType DEF TypeInv
  <1>4. PICK g : /\ scans' = SetTop(scans, g)
                 /\ g \in {[f EXCEPT !.Fun = @ + 1],
                           [f EXCEPT !.Fun = @ + 1, !.MaxFun = LoopBound(f)],
                           [f EXCEPT !.Dev = @ + 1, !.Fun = 0, !.MaxFun = 1]}
    BY DEF SkipAbsent, NoMemory, NextDevice
  <1>5. g.Head = f.Head /\ g.Tail = f.Tail /\ g.Out = f.Out
    <2>. HIDE DEF f
    <2>1. QED
      BY <1>2, <1>4 DEF ScanFrames
  <1>6. g \in ScanFrames
    <2>1. scans \in Seq(ScanFrames) /\ scans # <<>> /\ scans' \in Seq(ScanFrames')
      BY <1>1, <1>3 DEF TypeInv, TypeOK, StackTypeOK
    <2>2. ScanFrames' = ScanFrames
      BY <1>1, SameHeap
    <2>3. Len(scans) \in Nat \ {0} /\ DOMAIN scans = 1 .. Len(scans)
      BY <2>1, TopLemma
    <2>4. scans' = [scans EXCEPT ![Len(scans)] = g]
      BY <1>4 DEF SetTop
    <2>5. DOMAIN scans' = DOMAIN scans /\ scans'[Len(scans)] = g
      BY <2>3, <2>4
    <2>6. scans'[Len(scans)] \in ScanFrames
      BY <2>1, <2>2, <2>3, <2>5
    <2>7. QED
      BY <2>5, <2>6
  <1>7. QED
    <2>. HIDE DEF f
    <2>1. g.Head = Top(scans).Head /\ g.Tail = Top(scans).Tail /\ g.Out = Top(scans).Out
      BY <1>5 DEF f
    <2>2. QED
      BY <1>1, <1>4, <1>6, <2>1, SameChain DEF ChainsStay

(* AddNode: the heap grows by one node, reached from the running chain; a
   bridge's activation is on top with an empty chain. *)
NodeAdded(L, D) ==
  /\ UNCHANGED <<hw, table, root, pc, segRoot, tail>> /\ pc = "scan"
  /\ L \in Nat /\ D \in Nat \ {0}
  /\ Len(heap') = L + 1
  /\ heap'[L + 1].FirstChild = NULL /\ heap'[L + 1].NextSibling = NULL
  /\ \A n \in 1 .. L :
       /\ heap'[n].FirstChild = heap[n].FirstChild
       /\ heap'[n].NextSibling = IF n = scans[D].Tail THEN L + 1 ELSE heap[n].NextSibling
  /\ \A k \in 1 .. D - 1 : scans'[k] = scans[k]
  /\ scans'[D].Tail = L + 1 /\ scans'[D].Out = scans[D].Out
  /\ scans'[D].Head = IF scans[D].Tail = NULL THEN L + 1 ELSE scans[D].Head
  /\ \/ Len(scans') = D
     \/ /\ Len(scans') = D + 1
        /\ scans'[D + 1].Head = NULL /\ scans'[D + 1].Tail = NULL
        /\ scans'[D + 1].Out = L + 1

LEMMA AddNodeShape ==
  ASSUME TypeInv, AddNode, NEW L, L = Len(heap), NEW D, D = Len(scans)
  PROVE  NodeAdded(L, D)
PROOF
  <1>. DEFINE f == Top(scans)
              g == [f EXCEPT !.Fun = @ + 1, !.MaxFun = LoopBound(f), !.Tail = L + 1,
                             !.Head = IF f.Tail = NULL THEN L + 1 ELSE @]
  <1>1. UNCHANGED <<hw, table, root, pc, segRoot, tail>>
    BY DEF AddNode, platform, locals
  <1>2. /\ pc = "scan" /\ Answers(Here(f)) /\ heap' = WithNode(f)
        /\ scans' = IF hw[Here(f)].bridge
                      THEN Append(SetTop(scans, g), ScanBehind(f, L + 1))
                      ELSE SetTop(scans, g)
    BY DEF AddNode, InFunctionLoop
  <1>3. L \in Nat /\ scans \in Seq(ScanFrames) /\ scans # <<>>
    BY <1>2 DEF TypeInv, TypeOK, HeapTypeOK, StackTypeOK
  <1>4. D \in Nat \ {0} /\ f \in ScanFrames
    BY <1>3, TopLemma
  <1>5. f = scans[D]
    BY DEF Top
  <1>6. /\ Len(heap') = L + 1
        /\ heap'[L + 1].FirstChild = NULL /\ heap'[L + 1].NextSibling = NULL
        /\ \A n \in 1 .. L :
             /\ heap'[n].FirstChild = heap[n].FirstChild
             /\ heap'[n].NextSibling = IF n = f.Tail THEN L + 1 ELSE heap[n].NextSibling
    BY <1>2, WithNodeLemma DEF TypeInv, Ids
  <1>7. /\ g.Tail = L + 1 /\ g.Out = f.Out
        /\ g.Head = IF f.Tail = NULL THEN L + 1 ELSE f.Head
    <2>. HIDE DEF f
    <2>1. QED
      BY <1>4 DEF ScanFrames
  <1>. DEFINE R == [Seg: SegmentNumbers, Bus: 0 .. LastBus, Dev: 0 .. LastDev + 1,
                    Fun: {f.Fun + 1} \cup 0 .. LastFun + 1,
                    MaxFun: {LoopBound(f)} \cup {1, LastFun + 1},
                    Head: Nat, Tail: Nat, Out: Nat]
  <1>8. f \in R /\ g \in R
    <2>1. f.Head \in Nat /\ f.Tail \in Nat /\ f.Out \in Nat
      BY <1>3, <1>4 DEF ScanFrames, Ptr
    <2>2. (IF f.Tail = NULL THEN L + 1 ELSE f.Head) \in Nat /\ L + 1 \in Nat
      BY <1>3, <2>1
    <2>. HIDE DEF f
    <2>3. f \in R
      BY <1>4, <2>1 DEF ScanFrames
    <2>4. QED
      BY <2>2, <2>3
  <1>. DEFINE T == R \cup ScanFrames \cup {ScanBehind(f, L + 1)}
  <1>. HIDE DEF f, g, R
  <1>9. scans \in Seq(T) /\ g \in T /\ ScanBehind(f, L + 1) \in T
    <2>1. ScanFrames \subseteq T
      OBVIOUS
    <2>2. QED
      BY <1>3, <1>8, <2>1, SeqMonotonic
  <1>. HIDE DEF T
  <1>10. /\ SetTop(scans, g) \in Seq(T)
         /\ Len(SetTop(scans, g)) = D /\ SetTop(scans, g)[D] = g
         /\ \A k \in 1 .. D - 1 : SetTop(scans, g)[k] = scans[k]
    <2>1. /\ SetTop(scans, g) \in Seq(T)
          /\ Len(SetTop(scans, g)) = Len(scans) /\ SetTop(scans, g)[Len(scans)] = g
          /\ \A k \in 1 .. Len(scans) - 1 : SetTop(scans, g)[k] = scans[k]
      <3>1. scans \in Seq(T) /\ scans # <<>> /\ g \in T
        BY <1>3, <1>9
      <3>2. ReplacesTop(T, scans, g, SetTop(scans, g))
        BY <3>1, SetTopReplaces
      <3>3. QED
        BY <3>2 DEF ReplacesTop
    <2>2. QED
      BY <1>4, <2>1
  <1>11. CASE hw[Here(f)].bridge
    <2>. DEFINE s == SetTop(scans, g)
                b == ScanBehind(f, L + 1)
    <2>1. scans' = Append(s, b)
      BY <1>2, <1>11
    <2>2. b.Head = NULL /\ b.Tail = NULL /\ b.Out = L + 1
      BY DEF ScanBehind, ScanFrame
    <2>. HIDE DEF s, b
    <2>3. /\ Len(scans') = D + 1 /\ scans'[D + 1] = b
          /\ \A k \in 1 .. D : scans'[k] = s[k]
      BY <1>9, <1>10, <2>1, AppendLemma DEF s, b
    <2>4. scans'[D] = g /\ \A k \in 1 .. D - 1 : scans'[k] = scans[k]
      BY <1>4, <1>10, <2>3 DEF s
    <2>5. /\ scans'[D].Tail = L + 1 /\ scans'[D].Out = scans[D].Out
          /\ scans'[D].Head = IF scans[D].Tail = NULL THEN L + 1 ELSE scans[D].Head
      BY <1>5, <1>7, <2>4
    <2>6. /\ Len(scans') = D + 1
          /\ scans'[D + 1].Head = NULL /\ scans'[D + 1].Tail = NULL
          /\ scans'[D + 1].Out = L + 1
      BY <2>2, <2>3
    <2>7. QED
      BY <1>1, <1>2, <1>3, <1>4, <1>5, <1>6, <2>4, <2>5, <2>6 DEF NodeAdded
  <1>12. CASE ~hw[Here(f)].bridge
    <2>1. scans' = SetTop(scans, g)
      BY <1>2, <1>12
    <2>2. Len(scans') = D /\ scans'[D] = g /\ \A k \in 1 .. D - 1 : scans'[k] = scans[k]
      BY <1>10, <2>1
    <2>3. QED
      BY <1>1, <1>2, <1>3, <1>4, <1>5, <1>6, <1>7, <2>2 DEF NodeAdded
  <1>13. QED
    BY <1>11, <1>12

LEMMA LoopShape ==
  ASSUME ShapeInv, ChainsStay
  PROVE  LinksForward' /\ FramesOK' /\ ListOK'
PROOF
  <1>1. TypeInv /\ LinksForward /\ FramesOK /\ ListOK
    BY DEF ShapeInv
  <1>2. /\ UNCHANGED <<hw, table, heap, root, pc, segRoot, tail>> /\ pc = "scan"
        /\ Len(scans') = Len(scans)
        /\ \A k \in 1 .. Len(scans) : /\ scans'[k].Head = scans[k].Head
                                      /\ scans'[k].Tail = scans[k].Tail
                                      /\ scans'[k].Out = scans[k].Out
    BY DEF ChainsStay
  <1>3. Ids' = Ids
    BY <1>2 DEF Ids
  <1>4. LinksForward'
    BY <1>1, <1>2, <1>3 DEF LinksForward
  <1>5. FramesOK'
    <2>1. ASSUME NEW k \in 1 .. Len(scans)
          PROVE  /\ FrameOK(scans[k])'
                 /\ k > 1 => scans'[k].Out \in Ids /\ heap'[scans'[k].Out].FirstChild = NULL
      BY <1>1, <1>2 DEF FramesOK, FrameOK
    <2>2. ASSUME NEW j \in 1 .. Len(scans), NEW k \in 1 .. Len(scans), j < k
          PROVE  /\ scans'[j].Out < scans'[k].Out
                 /\ scans'[k].Tail # NULL => scans'[j].Tail < scans'[k].Tail
      BY <1>1, <1>2, <2>2 DEF FramesOK
    <2>3. QED
      BY <1>2, <1>3, <2>1, <2>2 DEF FramesOK
  <1>6. ListOK'
    BY <1>1, <1>2 DEF ListOK, Scanning
  <1>7. QED
    BY <1>4, <1>5, <1>6

LEMMA AddShape ==
  ASSUME ShapeInv, NodeAdded(Len(heap), Len(scans))
  PROVE  LinksForward' /\ FramesOK' /\ ListOK'
PROOF
  <1>. DEFINE L == Len(heap)
              D == Len(scans)
              NewFrameOK(f) ==
                /\ f.Tail = NULL <=> f.Head = NULL
                /\ f.Head # NULL => f.Head > f.Out /\ f.Head > tail'
                /\ f.Tail # NULL => f.Tail > tail' /\ heap'[f.Tail].NextSibling = NULL
  <1>1. TypeInv /\ LinksForward /\ FramesOK /\ ListOK
    BY DEF ShapeInv
  <1>2. /\ UNCHANGED <<hw, table, root, pc, segRoot, tail>> /\ pc = "scan"
        /\ L \in Nat /\ D \in Nat \ {0}
        /\ Len(heap') = L + 1
        /\ heap'[L + 1].FirstChild = NULL /\ heap'[L + 1].NextSibling = NULL
        /\ \A n \in 1 .. L :
             /\ heap'[n].FirstChild = heap[n].FirstChild
             /\ heap'[n].NextSibling = IF n = scans[D].Tail THEN L + 1 ELSE heap[n].NextSibling
        /\ \A k \in 1 .. D - 1 : scans'[k] = scans[k]
        /\ scans'[D].Tail = L + 1 /\ scans'[D].Out = scans[D].Out
        /\ scans'[D].Head = IF scans[D].Tail = NULL THEN L + 1 ELSE scans[D].Head
        /\ \/ Len(scans') = D
           \/ /\ Len(scans') = D + 1
              /\ scans'[D + 1].Head = NULL /\ scans'[D + 1].Tail = NULL
              /\ scans'[D + 1].Out = L + 1
    BY DEF NodeAdded
  <1>3. /\ root \in 0 .. L /\ segRoot \in 0 .. L /\ tail \in 0 .. L
        /\ \A n \in 1 .. L : heap[n].FirstChild \in 0 .. L /\ heap[n].NextSibling \in 0 .. L
        /\ \A k \in 1 .. D : /\ scans[k].Head \in 0 .. L /\ scans[k].Tail \in 0 .. L
                             /\ scans[k].Out \in 0 .. L
    BY <1>1, PointerTypes
  <1>. USE DEF NULL
  <1>. HIDE DEF L, D
  <1>4. Ids = 1 .. L /\ Ids' = 1 .. L + 1 /\ Len(scans) = D
    BY <1>2 DEF Ids, L, D
  <1>5. LinksForward'
    <2>1. ASSUME NEW n \in 1 .. L
          PROVE  /\ heap'[n].FirstChild # 0 => heap'[n].FirstChild > n
                 /\ heap'[n].NextSibling # 0 => heap'[n].NextSibling > n
      BY <1>1, <1>2, <1>4 DEF LinksForward
    <2>2. \A n \in 1 .. L + 1 : n \in 1 .. L \/ n = L + 1
      BY <1>2
    <2>3. QED
      BY <1>2, <1>4, <2>1, <2>2 DEF LinksForward
  <1>6. ASSUME NEW k \in 1 .. D - 1 PROVE NewFrameOK(scans'[k])
    <2>1. k \in 1 .. D /\ scans'[k] = scans[k] /\ k < D /\ D \in 1 .. D
      BY <1>2
    <2>2. FrameOK(scans[k])
      BY <1>1, <1>4, <2>1 DEF FramesOK
    <2>3. scans[D].Tail # 0 => scans[k].Tail < scans[D].Tail
      BY <1>1, <1>4, <2>1 DEF FramesOK
    <2>4. scans[k].Tail # 0 => scans[k].Tail \in 1 .. L /\ scans[k].Tail # scans[D].Tail
      BY <1>2, <1>3, <2>1, <2>3
    <2>5. QED
      BY <1>2, <2>1, <2>2, <2>4 DEF FrameOK
  <1>7. NewFrameOK(scans'[D])
    <2>1. D \in 1 .. D
      BY <1>2
    <2>2. FrameOK(scans[D])
      BY <1>1, <1>4, <2>1 DEF FramesOK
    <2>3. QED
      BY <1>2, <1>3, <2>1, <2>2 DEF FrameOK
  <1>8. Len(scans') = D + 1 => NewFrameOK(scans'[D + 1])
    BY <1>2 DEF FrameOK
  <1>9. ASSUME NEW k \in 1 .. Len(scans'), k > 1
        PROVE  scans'[k].Out \in Ids' /\ heap'[scans'[k].Out].FirstChild = NULL
    <2>1. CASE k \in 1 .. D
      <3>1. scans[k].Out \in Ids /\ heap[scans[k].Out].FirstChild = NULL
        BY <1>1, <1>4, <1>9, <2>1 DEF FramesOK
      <3>2. scans'[k].Out = scans[k].Out
        BY <1>2, <2>1
      <3>3. ASSUME NEW x \in 1 .. L, heap[x].FirstChild = NULL
            PROVE  x \in 1 .. L + 1 /\ heap'[x].FirstChild = NULL
        BY <1>2, <3>3
      <3>4. QED
        BY <1>4, <3>1, <3>2, <3>3
    <2>2. CASE k = D + 1
      BY <1>2, <1>4, <2>2
    <2>3. QED
      BY <1>2, <2>1, <2>2
  <1>10. ASSUME NEW j \in 1 .. Len(scans'), NEW k \in 1 .. Len(scans'), j < k
         PROVE  /\ scans'[j].Out < scans'[k].Out
                /\ scans'[k].Tail # NULL => scans'[j].Tail < scans'[k].Tail
    <2>1. j \in 1 .. D
      BY <1>2, <1>10
    <2>2. scans'[j].Out = scans[j].Out /\ scans[j].Out \in 0 .. L /\ scans[j].Tail \in 0 .. L
      BY <1>2, <1>3, <2>1
    <2>3. CASE k \in 1 .. D
      <3>1. j \in 1 .. D - 1
        <4>1. D \in Nat
          BY <1>2
        <4>2. QED
          BY <1>10, <2>1, <2>3, <4>1, SMTT(30)
      <3>2. scans'[j] = scans[j] /\ scans'[k].Out = scans[k].Out
        BY SMTT(30), <1>2, <2>3, <3>1
      <3>3. /\ scans[j].Out < scans[k].Out
            /\ scans[k].Tail # NULL => scans[j].Tail < scans[k].Tail
        BY <1>1, <1>4, <1>10, <2>1, <2>3 DEF FramesOK
      <3>4. k = D \/ scans'[k] = scans[k]
        BY <1>2, <2>3
      <3>5. k = D => scans'[k].Tail = L + 1
        BY <1>2
      <3>6. QED
        BY <1>2, <2>2, <3>2, <3>3, <3>4, <3>5
    <2>4. CASE k = D + 1
      <3>1. scans'[k].Out = L + 1 /\ scans'[k].Tail = NULL
        BY <1>2, <2>4
      <3>2. QED
        BY <1>2, <2>2, <3>1
    <2>5. QED
      BY <1>2, <2>3, <2>4
  <1>11. FramesOK'
    <2>1. ASSUME NEW k \in 1 .. Len(scans') PROVE NewFrameOK(scans'[k])
      <3>1. k \in 1 .. D - 1 \/ k = D \/ (Len(scans') = D + 1 /\ k = D + 1)
        BY <1>2
      <3>2. QED
        BY <1>6, <1>7, <1>8, <3>1
    <2>2. QED
      BY <1>9, <1>10, <2>1 DEF FramesOK, FrameOK
  <1>12. ListOK'
    <2>1. tail # 0 => heap[tail].NextSibling = 0
      BY <1>1, <1>2 DEF ListOK
    <2>2. tail # 0 => tail # scans[D].Tail
      <3>1. D \in 1 .. D /\ FrameOK(scans[D])
        BY <1>1, <1>2, <1>4 DEF FramesOK
      <3>2. QED
        BY <1>3, <3>1 DEF FrameOK
    <2>3. tail # 0 => heap'[tail].NextSibling = 0
      BY <1>2, <1>3, <2>1, <2>2
    <2>4. QED
      BY <1>1, <1>2, <2>3 DEF ListOK, Scanning
  <1>13. QED
    BY <1>5, <1>11, <1>12

LEMMA ReturnToBridgeEffect ==
  ASSUME TypeInv, ReturnToBridge, NEW f, f = Top(scans)
  PROVE  /\ UNCHANGED <<hw, table, root, pc, segRoot, tail>> /\ pc = "scan"
         /\ Len(scans) \in Nat /\ Len(scans) > 1 /\ f = scans[Len(scans)]
         /\ Len(scans') = Len(scans) - 1
         /\ \A k \in 1 .. Len(scans) - 1 : scans'[k] = scans[k]
         /\ Len(heap') = Len(heap)
         /\ \A n \in Ids : /\ heap'[n].FirstChild = IF n = f.Out THEN f.Head ELSE heap[n].FirstChild
                           /\ heap'[n].NextSibling = heap[n].NextSibling
PROOF
  <1>1. UNCHANGED <<hw, table, root, pc, segRoot, tail>>
    BY DEF ReturnToBridge, platform, locals
  <1>2. /\ pc = "scan" /\ Len(scans) > 1 /\ scans' = Below(scans)
        /\ heap' = [heap EXCEPT ![f.Out].FirstChild = f.Head]
    BY DEF ReturnToBridge
  <1>3. scans \in Seq(ScanFrames) /\ scans # <<>> /\ heap \in Seq(NODE) /\ Len(heap) \in Nat
    BY <1>2 DEF TypeInv, TypeOK, StackTypeOK, HeapTypeOK
  <1>4. f \in ScanFrames /\ Len(scans) \in Nat
    BY <1>3, TopLemma
  <1>5. f.Head \in Nat
    BY <1>3, <1>4 DEF ScanFrames, Ptr
  <1>6. /\ Len(heap') = Len(heap)
        /\ \A n \in Ids : /\ heap'[n].FirstChild = IF n = f.Out THEN f.Head ELSE heap[n].FirstChild
                          /\ heap'[n].NextSibling = heap[n].NextSibling
    <2>1. CASE f.Out \in Ids
      BY <1>2, <1>3, <1>5, <2>1, LinkFirstChild DEF Ids
    <2>2. CASE f.Out \notin Ids
      <3>1. heap' = heap
        BY <1>2, <1>3, <2>2 DEF Ids
      <3>2. QED
        BY <1>3, <2>2, <3>1
    <2>3. QED
      BY <2>1, <2>2
  <1>7. /\ Len(scans') = Len(scans) - 1
        /\ \A k \in 1 .. Len(scans) - 1 : scans'[k] = scans[k]
    BY <1>2, <1>3, BelowLemma
  <1>8. QED
    BY <1>1, <1>2, <1>4, <1>6, <1>7 DEF Top

LEMMA ReturnToBridgeShape ==
  ASSUME ShapeInv, ReturnToBridge
  PROVE  LinksForward' /\ FramesOK' /\ ListOK'
PROOF
  <1>. DEFINE D == Len(scans)
              f == scans[D]
  <1>1. TypeInv /\ LinksForward /\ FramesOK /\ ListOK
    BY DEF ShapeInv
  <1>2. /\ UNCHANGED <<hw, table, root, pc, segRoot, tail>> /\ pc = "scan"
        /\ D \in Nat /\ D > 1
        /\ Len(scans') = D - 1
        /\ \A k \in 1 .. D - 1 : scans'[k] = scans[k]
        /\ Len(heap') = Len(heap)
        /\ \A n \in Ids : /\ heap'[n].FirstChild = IF n = f.Out THEN f.Head ELSE heap[n].FirstChild
                          /\ heap'[n].NextSibling = heap[n].NextSibling
    BY <1>1, ReturnToBridgeEffect
  <1>3. /\ Len(heap) \in Nat /\ tail \in 0 .. Len(heap)
        /\ \A k \in 1 .. D : /\ scans[k].Head \in 0 .. Len(heap) /\ scans[k].Tail \in 0 .. Len(heap)
                             /\ scans[k].Out \in 0 .. Len(heap)
    BY <1>1, PointerTypes
  <1>. HIDE DEF D
  <1>. USE DEF NULL
  <1>4. Ids' = Ids /\ Ids = 1 .. Len(heap) /\ Len(scans) = D /\ D \in 1 .. D
    BY <1>2 DEF Ids, D
  <1>5. FrameOK(f)
    BY <1>1, <1>4 DEF FramesOK
  <1>6. LinksForward'
    <2>1. ASSUME NEW n \in Ids PROVE heap'[n].FirstChild # 0 => heap'[n].FirstChild > n
      BY <1>1, <1>2, <1>5 DEF LinksForward, FrameOK
    <2>2. ASSUME NEW n \in Ids PROVE heap'[n].NextSibling # 0 => heap'[n].NextSibling > n
      BY <1>1, <1>2 DEF LinksForward
    <2>3. QED
      BY <1>4, <2>1, <2>2 DEF LinksForward
  <1>7. FramesOK'
    <2>1. ASSUME NEW k \in 1 .. D - 1
          PROVE  /\ scans'[k].Tail = 0 <=> scans'[k].Head = 0
                 /\ scans'[k].Head # 0 => scans'[k].Head > scans'[k].Out /\ scans'[k].Head > tail'
                 /\ scans'[k].Tail # 0 => scans'[k].Tail > tail' /\ heap'[scans'[k].Tail].NextSibling = 0
                 /\ k > 1 => scans'[k].Out \in Ids /\ heap'[scans'[k].Out].FirstChild = 0
      <3>1. k \in 1 .. D /\ k < D /\ scans'[k] = scans[k]
        BY <1>2
      <3>2. FrameOK(scans[k])
        BY <1>1, <1>4, <3>1 DEF FramesOK
      <3>3. k > 1 => scans[k].Out \in Ids /\ heap[scans[k].Out].FirstChild = 0
        BY <1>1, <1>4, <3>1 DEF FramesOK
      <3>4. scans[k].Out # f.Out
        BY <1>1, <1>3, <1>4, <3>1 DEF FramesOK
      <3>5. scans[k].Tail # 0 => scans[k].Tail \in Ids
        BY <1>3, <1>4, <3>1
      <3>6. k > 1 => scans'[k].Out \in Ids /\ heap'[scans'[k].Out].FirstChild = 0
        BY <1>2, <3>1, <3>3, <3>4
      <3>7. QED
        BY <1>2, <3>1, <3>2, <3>5, <3>6 DEF FrameOK
    <2>2. ASSUME NEW j \in 1 .. D - 1, NEW k \in 1 .. D - 1, j < k
          PROVE  /\ scans'[j].Out < scans'[k].Out
                 /\ scans'[k].Tail # 0 => scans'[j].Tail < scans'[k].Tail
      <3>1. j \in 1 .. D /\ k \in 1 .. D /\ scans'[j] = scans[j] /\ scans'[k] = scans[k]
        BY <1>2
      <3>2. QED
        BY <1>1, <1>4, <2>2, <3>1 DEF FramesOK
    <2>3. QED
      BY <1>2, <1>4, <2>1, <2>2 DEF FramesOK, FrameOK
  <1>8. ListOK'
    <2>1. tail # 0 => heap'[tail].NextSibling = heap[tail].NextSibling
      BY <1>2, <1>3, <1>4
    <2>2. QED
      BY <1>1, <1>2, <2>1 DEF ListOK, Scanning
  <1>9. QED
    BY <1>6, <1>7, <1>8

LEMMA SegmentsShape ==
  ASSUME ShapeInv,
         \/ ReturnToSegment \/ BeginSegment \/ SkipEmptySegment
         \/ LastSiblingStep \/ LastSiblingReturn \/ EndSegments
  PROVE  LinksForward' /\ FramesOK' /\ ListOK'
PROOF
  <1>1. TypeInv /\ LinksForward /\ FramesOK /\ ListOK
    BY DEF ShapeInv
  <1>2. UNCHANGED <<heap, hw, table>>
    BY DEF ReturnToSegment, BeginSegment, SkipEmptySegment, LastSiblingStep,
           LastSiblingReturn, EndSegments, platform
  <1>3. LinksForward'
    BY <1>1, <1>2 DEF LinksForward, Ids
  <1>4. /\ Len(heap) \in Nat /\ tail \in 0 .. Len(heap) /\ scans \in Seq(ScanFrames)
        /\ (scans # <<>> <=> pc = "scan")
    BY <1>1, PointerTypes DEF TypeInv, TypeOK, StackTypeOK
  <1>. USE DEF NULL
  <1>5. CASE ReturnToSegment
    <2>1. scans' = <<>> /\ pc = "scan" /\ Len(scans) = 1
      BY <1>5 DEF ReturnToSegment
    <2>2. FramesOK'
      BY <2>1 DEF FramesOK
    <2>3. Top(scans).Head # 0 => Top(scans).Head > tail
      BY <1>1, <2>1 DEF FramesOK, FrameOK, Top
    <2>4. ListOK'
      BY <1>1, <1>2, <1>5, <2>1, <2>3 DEF ReturnToSegment, ListOK, Scanning
    <2>5. QED
      BY <1>3, <2>2, <2>4
  <1>6. CASE BeginSegment
    <2>1. PICK s, b : scans' = <<ScanFrame(s, b, NULL)>>
      BY <1>6 DEF BeginSegment
    <2>2. /\ Len(scans') = 1 /\ scans'[1].Head = 0 /\ scans'[1].Tail = 0 /\ scans'[1].Out = 0
      BY <2>1 DEF ScanFrame
    <2>3. FramesOK'
      BY <2>2 DEF FramesOK, FrameOK
    <2>4. ListOK'
      BY <1>1, <1>2, <1>6 DEF BeginSegment, locals, ListOK, Scanning
    <2>5. QED
      BY <1>3, <2>3, <2>4
  <1>7. CASE SkipEmptySegment \/ LastSiblingReturn \/ EndSegments
    <2>1. scans = <<>> /\ UNCHANGED <<scans, root, segRoot, tail>>
      BY <1>4, <1>7 DEF SkipEmptySegment, LastSiblingReturn, EndSegments, locals
    <2>2. FramesOK'
      BY <2>1 DEF FramesOK
    <2>3. ListOK'
      BY <1>1, <1>2, <1>7, <2>1 DEF SkipEmptySegment, LastSiblingReturn, EndSegments, ListOK, Scanning
    <2>4. QED
      BY <1>3, <2>2, <2>3
  <1>8. CASE LastSiblingStep
    <2>1. scans = <<>> /\ UNCHANGED <<scans, root, pc>> /\ pc = "last" /\ tail' # 0
      BY <1>4, <1>8 DEF LastSiblingStep
    <2>2. FramesOK'
      BY <2>1 DEF FramesOK
    <2>3. tail # 0
      BY <1>1, <2>1 DEF TypeInv, ControlOK
    <2>4. ListOK'
      BY <1>1, <1>2, <2>1, <2>3 DEF ListOK, Scanning
    <2>5. QED
      BY <1>3, <2>2, <2>4
  <1>9. QED
    BY <1>5, <1>6, <1>7, <1>8

LEMMA LinkSegmentShape ==
  ASSUME ShapeInv, LinkSegment
  PROVE  LinksForward' /\ FramesOK' /\ ListOK'
PROOF
  <1>1. TypeInv /\ LinksForward /\ FramesOK /\ ListOK
    BY DEF ShapeInv
  <1>2. /\ Len(heap') = Len(heap) /\ Len(heap) \in Nat
        /\ \A n \in Ids :
             /\ heap'[n].FirstChild = heap[n].FirstChild
             /\ heap'[n].NextSibling = IF n = tail THEN segRoot ELSE heap[n].NextSibling
    BY <1>1, LinkSegmentHeap
  <1>. USE DEF NULL
  <1>3. Ids' = Ids
    BY <1>2 DEF Ids
  <1>4. /\ pc = "link" /\ pc' = "last" /\ tail' = segRoot /\ segRoot # 0 /\ segRoot > tail
        /\ UNCHANGED <<scans, table>>
    BY <1>1 DEF LinkSegment, ListOK, platform
  <1>5. LinksForward'
    BY <1>1, <1>2, <1>3, <1>4 DEF LinksForward
  <1>6. FramesOK'
    <2>1. scans' = <<>>
      BY <1>1, <1>4 DEF TypeInv, TypeOK, StackTypeOK
    <2>2. QED
      BY <2>1 DEF FramesOK
  <1>7. ListOK'
    <2>1. root' # 0
      BY <1>1, <1>4 DEF LinkSegment, ListOK, Scanning
    <2>2. table # <<>>
      BY <1>1, <1>4 DEF ListOK
    <2>3. QED
      BY <1>4, <2>1, <2>2 DEF ListOK, Scanning
  <1>8. QED
    BY <1>5, <1>6, <1>7

(* The walk and the release leave the tree alone. *)
LEMMA AfterScanShape ==
  ASSUME ShapeInv, Walk \/ Free \/ UNCHANGED vars
  PROVE  LinksForward' /\ FramesOK' /\ ListOK'
PROOF
  <1>1. TypeInv /\ LinksForward /\ FramesOK /\ ListOK
    BY DEF ShapeInv
  <1>2. CASE Walk \/ Free
    <2>1. UNCHANGED <<heap, table, tail, scans>> /\ ~Scanning /\ ~Scanning'
      BY <1>2 DEF Walk, BeginWalk, SkipWalk, Visit, ReturnFromWalk, Free, FreeEnter, Release,
                  ReturnFromFree, Scanning, platform, locals
    <2>2. scans = <<>>
      BY <1>1, <2>1 DEF TypeInv, TypeOK, StackTypeOK, Scanning
    <2>3. LinksForward'
      BY <1>1, <2>1 DEF LinksForward, Ids
    <2>4. FramesOK'
      BY <2>1, <2>2 DEF FramesOK
    <2>5. ListOK'
      BY <2>1 DEF ListOK, Scanning
    <2>6. QED
      BY <2>3, <2>4, <2>5
  <1>3. CASE UNCHANGED vars
    BY <1>1, <1>3 DEF vars, LinksForward, FramesOK, FrameOK, ListOK, Ids, Scanning
  <1>4. QED
    BY <1>2, <1>3

LEMMA NextShape == ShapeInv /\ [Next]_vars => ShapeInv'
PROOF
  <1>. SUFFICES ASSUME ShapeInv, [Next]_vars PROVE ShapeInv'
    OBVIOUS
  <1>1. TypeInv'
    BY NextType DEF ShapeInv
  <1>2. SkipAbsent \/ NoMemory \/ NextDevice => ChainsStay
    BY LoopSteps DEF ShapeInv
  <1>3. AddNode => NodeAdded(Len(heap), Len(scans))
    BY AddNodeShape DEF ShapeInv
  <1>4. LinksForward' /\ FramesOK' /\ ListOK'
    BY <1>2, <1>3, LoopShape, AddShape, ReturnToBridgeShape, SegmentsShape, LinkSegmentShape,
       AfterScanShape
    DEF Next, Scan
  <1>5. QED
    BY <1>1, <1>4 DEF ShapeInv

(* On every machine, bridges that lead back to their own bus included, every
   link of the tree leads to a node allocated later: the tree has no cycle,
   so the walk and the release of it end. *)
THEOREM LinksForwardCorrect == Spec => []LinksForward
PROOF
  <1>1. ShapeInv => LinksForward
    BY DEF ShapeInv
  <1>2. QED
    BY InitShape, NextShape, <1>1, PTL DEF Spec

-----------------------------------------------------------------------------
(* The depth of the scan.  The function an activation came from has shown its
   multi-function bit if the loop goes beyond function 0. *)
ShownMulti(f) ==
  LET first == [Here(f) EXCEPT !.Fun = 0]
  IN first \in DOMAIN hw /\ hw[first].multi

(* Each activation is on a bus above that of its caller. *)
DepthOK ==
  \A k \in 1 .. Len(scans) :
    /\ scans[k].Bus >= k - 1
    /\ \A j \in 1 .. k - 1 : scans[j].Bus < scans[k].Bus
    /\ scans[k].MaxFun # 1 => ShownMulti(scans[k])

DepthInv == TypeInv /\ BridgesLeadUp /\ DepthOK

(* Of the running activation, a turn of the function loop changes what does
   not tell the bus or the device. *)
LEMMA SameDevice ==
  ASSUME NEW f, NEW g, g.Seg = f.Seg, g.Bus = f.Bus, g.Dev = f.Dev
  PROVE  ShownMulti(g) <=> ShownMulti(f)
PROOF
  <1>1. [Here(g) EXCEPT !.Fun = 0] = [Here(f) EXCEPT !.Fun = 0]
    BY DEF Here
  <1>2. QED
    BY <1>1 DEF ShownMulti

(* Whatever replaces the running activation, the ones below stay. *)
LEMMA ReplaceTop ==
  ASSUME NEW S, NEW s \in Seq(S), s # <<>>, NEW e
  PROVE  /\ Len(SetTop(s, e)) = Len(s) /\ SetTop(s, e)[Len(s)] = e
         /\ \A k \in 1 .. Len(s) - 1 : SetTop(s, e)[k] = s[k]
         /\ SetTop(s, e) \in Seq(S \cup {e})
PROOF
  <1>. DEFINE T == S \cup {e}
  <1>1. s \in Seq(T)
    BY SeqSubset
  <1>2. e \in T
    OBVIOUS
  <1>. HIDE DEF T
  <1>3. /\ SetTop(s, e) \in Seq(T) /\ Len(SetTop(s, e)) = Len(s) /\ SetTop(s, e)[Len(s)] = e
        /\ \A k \in 1 .. Len(s) - 1 : SetTop(s, e)[k] = s[k]
    BY <1>1, <1>2, SetTopLemma
  <1>4. QED
    BY <1>3 DEF T

LEMMA LoopBoundShown ==
  ASSUME TypeOK, pc = "scan", Answers(Here(Top(scans))),
         Top(scans).MaxFun # 1 => ShownMulti(Top(scans))
  PROVE  LoopBound(Top(scans)) # 1 => ShownMulti(Top(scans))
PROOF
  <1>. DEFINE f == Top(scans)
  <1>1. CASE f.Fun = 0 /\ hw[Here(f)].multi
    <2>1. [Here(f) EXCEPT !.Fun = 0] = Here(f)
      BY <1>1 DEF Here
    <2>2. QED
      BY <1>1, <2>1 DEF ShownMulti, Answers
  <1>2. CASE ~(f.Fun = 0 /\ hw[Here(f)].multi)
    BY <1>2 DEF LoopBound
  <1>3. QED
    BY <1>1, <1>2

(* A bridge that is scanned is one of the machine's, and leads to a bus above. *)
LEMMA BehindIsAbove ==
  ASSUME TypeInv, BridgesLeadUp, pc = "scan",
         Answers(Here(Top(scans))), hw[Here(Top(scans))].bridge,
         Top(scans).Fun < Top(scans).MaxFun,
         Top(scans).MaxFun # 1 => ShownMulti(Top(scans))
  PROVE  hw[Here(Top(scans))].secondary > Top(scans).Bus
PROOF
  <1>. DEFINE f == Top(scans)
              l == Here(f)
  <1>1. f \in ScanFrames
    BY HereType DEF TypeInv
  <1>2. l \in DOMAIN hw /\ HasRoute(table, l.Seg, 0)
    BY DEF Answers
  <1>3. l.Fun = f.Fun /\ l.Bus = f.Bus
    BY DEF Here
  <1>4. l.Fun # 0 => f.MaxFun # 1
    <2>1. f.Fun \in Nat
      BY <1>1, GeometryAssumption DEF ScanFrames
    <2>2. QED
      BY <1>3, <2>1
  <1>5. l.Fun # 0 => [l EXCEPT !.Fun = 0] \in DOMAIN hw /\ hw[[l EXCEPT !.Fun = 0]].multi
    BY <1>4 DEF ShownMulti
  <1>. HIDE DEF l
  <1>6. l \in Inventory!Bridges
    <2>1. Inventory!HasRoute(table, l.Seg, 0)
      BY <1>2 DEF HasRoute, IsLegacy, LegacySize, FindEcamBaseForSegment, EntriesFor,
         Inventory!HasRoute, Inventory!IsLegacy, Inventory!LegacySize,
         Inventory!FindEcamBaseForSegment, Inventory!EntriesFor
    <2>2. hw[l].bridge
      BY DEF l
    <2>3. QED
      BY <1>2, <1>5, <2>1, <2>2 DEF Inventory!Bridges, Inventory!Functions, Inventory!Exists
  <1>7. hw[l].secondary > l.Bus
    BY <1>6 DEF BridgesLeadUp
  <1>8. QED
    BY <1>3, <1>7 DEF l

(* What the steps of the scan that stay in it do to the stack. *)
LEMMA LoopDepth ==
  ASSUME DepthInv, SkipAbsent \/ NoMemory \/ AddNode \/ NextDevice
  PROVE  DepthOK'
PROOF
  <1>. DEFINE f == Top(scans)
              D == Len(scans)
  <1>1. TypeInv /\ TypeOK /\ pc = "scan" /\ UNCHANGED <<hw, table>> /\ DepthOK
    BY DEF DepthInv, TypeInv, SkipAbsent, NoMemory, AddNode, NextDevice, InFunctionLoop, platform
  <1>2. /\ scans \in Seq(ScanFrames) /\ scans # <<>> /\ D \in Nat \ {0} /\ f \in ScanFrames
        /\ f = scans[D]
    BY <1>1, TopLemma DEF TypeOK, StackTypeOK, Top
  <1>3. D \in 1 .. D /\ \A k \in 1 .. D : k = D \/ k \in 1 .. D - 1
    BY <1>2
  <1>4. f.Bus >= D - 1 /\ (f.MaxFun # 1 => ShownMulti(f))
    BY <1>1, <1>2, <1>3 DEF DepthOK
  <1>5. ASSUME NEW k \in 1 .. D - 1
        PROVE  scans[k].Bus >= k - 1 /\ (scans[k].MaxFun # 1 => ShownMulti(scans[k]))
    <2>1. k \in 1 .. D
      BY <1>2
    <2>2. QED
      BY <1>1, <2>1 DEF DepthOK
  <1>0. \A k \in 1 .. D : scans[k].Bus \in Nat /\ \A j \in 1 .. k - 1 : scans[j].Bus < scans[k].Bus
    <2>1. \A k \in 1 .. D : scans[k] \in ScanFrames
      BY <1>2
    <2>2. QED
      BY <1>1, <2>1, GeometryAssumption DEF DepthOK, ScanFrames
  <1>6. \A k \in 1 .. Len(scans') : ShownMulti(scans[k])' <=> ShownMulti(scans'[k])
    BY <1>1 DEF ShownMulti, Here
  <1>7. ASSUME NEW g, scans' = SetTop(scans, g), g.Bus = f.Bus, g.MaxFun # 1 => ShownMulti(g)
        PROVE  DepthOK'
    <2>1. /\ Len(SetTop(scans, g)) = D /\ SetTop(scans, g)[D] = g
          /\ \A k \in 1 .. D - 1 : SetTop(scans, g)[k] = scans[k]
          /\ SetTop(scans, g) \in Seq(ScanFrames \cup {g})
      <3>1. scans \in Seq(ScanFrames) /\ scans # <<>>
        BY <1>2
      <3>2. QED
        BY <3>1, ReplaceTop
    <2>. HIDE DEF D, f
    <2>2. \A k \in 1 .. D : scans'[k].Bus >= k - 1
      BY <1>3, <1>4, <1>5, <1>7, <2>1
    <2>3. \A k \in 1 .. D : scans'[k].MaxFun # 1 => ShownMulti(scans'[k])
      BY <1>3, <1>5, <1>7, <2>1
    <2>4. \A k \in 1 .. D : scans'[k].Bus = scans[k].Bus
      BY <1>2, <1>3, <1>7, <2>1
    <2>5. \A k \in 1 .. D : \A j \in 1 .. k - 1 : scans'[j].Bus < scans'[k].Bus
      <3>1. \A k \in 1 .. D : \A j \in 1 .. k - 1 : j \in 1 .. D
        BY <1>2
      <3>2. QED
        BY <1>0, <2>4, <3>1
    <2>6. QED
      BY <1>6, <1>7, <2>1, <2>2, <2>3, <2>5 DEF DepthOK
  <1>8. CASE SkipAbsent
    <2>. DEFINE g == [f EXCEPT !.Fun = @ + 1]
    <2>1. scans' = SetTop(scans, g)
      BY <1>8 DEF SkipAbsent
    <2>2. g.Bus = f.Bus /\ g.Seg = f.Seg /\ g.Dev = f.Dev /\ g.MaxFun = f.MaxFun
      BY <1>2 DEF ScanFrames
    <2>3. ShownMulti(g) <=> ShownMulti(f)
      BY <2>2, SameDevice
    <2>4. QED
      BY <1>4, <1>7, <2>1, <2>2, <2>3
  <1>9. CASE NoMemory
    <2>. DEFINE g == [f EXCEPT !.Fun = @ + 1, !.MaxFun = LoopBound(f)]
    <2>1. scans' = SetTop(scans, g) /\ Answers(Here(f))
      BY <1>9 DEF NoMemory
    <2>2. g.Bus = f.Bus /\ g.Seg = f.Seg /\ g.Dev = f.Dev /\ g.MaxFun = LoopBound(f)
      BY <1>2 DEF ScanFrames
    <2>3. ShownMulti(g) <=> ShownMulti(f)
      BY <2>2, SameDevice
    <2>4. LoopBound(f) # 1 => ShownMulti(f)
      BY <1>1, <1>4, <2>1, LoopBoundShown
    <2>5. QED
      BY <1>7, <2>1, <2>2, <2>3, <2>4
  <1>10. CASE NextDevice
    <2>. DEFINE g == [f EXCEPT !.Dev = @ + 1, !.Fun = 0, !.MaxFun = 1]
    <2>1. scans' = SetTop(scans, g)
      BY <1>10 DEF NextDevice
    <2>2. g.Bus = f.Bus /\ g.MaxFun = 1
      BY <1>2 DEF ScanFrames
    <2>3. QED
      BY <1>7, <2>1, <2>2
  <1>11. CASE AddNode
    <2>. DEFINE new == Len(heap) + 1
                g   == [f EXCEPT !.Fun = @ + 1, !.MaxFun = LoopBound(f), !.Tail = new,
                                 !.Head = IF f.Tail = NULL THEN new ELSE @]
                call == ScanBehind(f, new)
    <2>1. /\ scans' = IF hw[Here(f)].bridge THEN Append(SetTop(scans, g), call)
                      ELSE SetTop(scans, g)
          /\ Answers(Here(f)) /\ f.Fun < f.MaxFun
      BY <1>11 DEF AddNode, InFunctionLoop
    <2>2. g.Bus = f.Bus /\ g.Seg = f.Seg /\ g.Dev = f.Dev /\ g.MaxFun = LoopBound(f)
      BY <1>2 DEF ScanFrames
    <2>3. ShownMulti(g) <=> ShownMulti(f)
      BY <2>2, SameDevice
    <2>4. LoopBound(f) # 1 => ShownMulti(f)
      BY <1>1, <1>4, <2>1, LoopBoundShown
    <2>5. CASE ~hw[Here(f)].bridge
      BY <1>7, <2>1, <2>2, <2>3, <2>4, <2>5
    <2>6. CASE hw[Here(f)].bridge
      <3>1. hw[Here(f)].secondary > f.Bus
        BY <1>1, <1>4, <2>1, <2>6, BehindIsAbove DEF DepthInv
      <3>2. hw[Here(f)].secondary \in Nat /\ f.Bus \in Nat
        <4>1. hw[Here(f)] \in Headers
          BY <1>1, <2>1, HereType
        <4>2. QED
          BY <1>2, <4>1, GeometryAssumption DEF Headers, ScanFrames
      <3>3. call.Bus = hw[Here(f)].secondary /\ call.MaxFun = 1
        BY DEF ScanBehind, ScanFrame
      <3>. HIDE DEF call, g
      <3>4. /\ Len(SetTop(scans, g)) = D /\ SetTop(scans, g)[D] = g
            /\ \A k \in 1 .. D - 1 : SetTop(scans, g)[k] = scans[k]
            /\ SetTop(scans, g) \in Seq(ScanFrames \cup {g})
        BY <1>2, ReplaceTop
      <3>5. /\ Len(scans') = D + 1 /\ scans'[D + 1] = call
            /\ \A k \in 1 .. D : scans'[k] = SetTop(scans, g)[k]
        <4>1. SetTop(scans, g) \in Seq(ScanFrames \cup {g, call})
          <5>1. ScanFrames \cup {g} \subseteq ScanFrames \cup {g, call}
            OBVIOUS
          <5>2. QED
            BY <3>4, <5>1, SeqSubset
        <4>2. QED
          BY <2>1, <2>6, <3>4, <4>1, AppendLemma
      <3>. HIDE DEF D, f
      <3>6. \A k \in 1 .. D + 1 : k = D + 1 \/ k = D \/ k \in 1 .. D - 1
        BY <1>2
      <3>7. scans'[D] = g /\ \A k \in 1 .. D - 1 : scans'[k] = scans[k]
        <4>1. \A k \in 1 .. D - 1 : k \in 1 .. D
          BY <1>2
        <4>2. QED
          BY <1>3, <3>4, <3>5, <4>1
      <3>8. scans'[D + 1].Bus >= D + 1 - 1
        BY <1>2, <1>4, <3>1, <3>2, <3>3, <3>5
      <3>9. ASSUME NEW k \in 1 .. D + 1 PROVE scans'[k].Bus >= k - 1
        <4>1. CASE k = D + 1
          <5>1. k - 1 = D + 1 - 1
            BY <1>2, <4>1, SMT
          <5>2. scans'[k] = scans'[D + 1]
            BY <4>1, Zenon
          <5>3. QED
            BY <3>8, <5>1, <5>2, Zenon
        <4>2. CASE k = D
          BY <1>4, <2>2, <3>7, <4>2
        <4>3. CASE k \in 1 .. D - 1
          BY <1>5, <3>7, <4>3
        <4>4. QED
          BY <3>6, <4>1, <4>2, <4>3
      <3>10. \A k \in 1 .. D + 1 : scans'[k].MaxFun # 1 => ShownMulti(scans'[k])
        BY <1>5, <2>2, <2>3, <2>4, <3>3, <3>5, <3>6, <3>7
      <3>11. ASSUME NEW k \in 1 .. D + 1, NEW j \in 1 .. k - 1
             PROVE  scans'[j].Bus < scans'[k].Bus
        <4>1. \A i \in 1 .. D : scans'[i].Bus = scans[i].Bus
          BY <1>2, <1>3, <2>2, <3>7
        <4>2. j \in 1 .. D
          BY <1>2
        <4>3. CASE k = D + 1
          <5>1. scans[j].Bus \in Nat /\ scans[j].Bus <= f.Bus
            <6>1. j = D \/ j \in 1 .. D - 1
              BY <1>3, <4>2
            <6>2. QED
              BY <1>0, <1>2, <1>3, <3>2, <4>2, <6>1
          <5>2. QED
            BY <3>1, <3>2, <3>3, <3>5, <4>1, <4>2, <4>3, <5>1
        <4>4. CASE k \in 1 .. D
          BY <1>0, <4>1, <4>2, <4>4
        <4>5. QED
          BY <1>2, <4>3, <4>4
      <3>12. QED
        BY <1>6, <3>5, <3>9, <3>10, <3>11 DEF DepthOK
    <2>7. QED
      BY <2>5, <2>6
  <1>12. QED
    BY <1>8, <1>9, <1>10, <1>11

(* No step changes the machine. *)
LEMMA NextMachine ==
  ASSUME [Next]_vars
  PROVE  /\ UNCHANGED <<hw, table>>
         /\ BridgesLeadUp => BridgesLeadUp'
         /\ Inventory!Numbered => Inventory!Numbered'
PROOF
  <1>1. UNCHANGED <<hw, table>>
    BY DEF Next, Scan, BeginSegment, SkipAbsent, NoMemory, AddNode, NextDevice, ReturnToBridge,
       ReturnToSegment, SkipEmptySegment, LinkSegment, LastSiblingStep, LastSiblingReturn,
       EndSegments, Walk, BeginWalk, SkipWalk, Visit, ReturnFromWalk, Free, FreeEnter, Release,
       ReturnFromFree, platform, vars
  <1>2. hw' = hw /\ Inventory!Starts' = Inventory!Starts /\ Inventory!Bridges' = Inventory!Bridges
    BY <1>1 DEF Inventory!Starts, Inventory!Bridges, Inventory!Functions, Inventory!Exists
  <1>3. QED
    BY <1>1, <1>2 DEF BridgesLeadUp, Inventory!Numbered

LEMMA NumberedLeadsUp == Inventory!Numbered => BridgesLeadUp
PROOF
  BY DEF Inventory!Numbered, BridgesLeadUp

LEMMA NextDepth == DepthInv /\ [Next]_vars => DepthInv'
PROOF
  <1>. SUFFICES ASSUME DepthInv, [Next]_vars PROVE DepthInv'
    OBVIOUS
  <1>1. TypeInv' /\ TypeInv /\ DepthOK
    BY NextType DEF DepthInv
  <1>2. UNCHANGED <<hw, table>>
    BY NextMachine
  <1>3. BridgesLeadUp'
    BY NextMachine DEF DepthInv
  <1>4. CASE SkipAbsent \/ NoMemory \/ AddNode \/ NextDevice
    BY <1>1, <1>3, <1>4, LoopDepth DEF DepthInv
  <1>5. CASE BeginSegment
    <2>1. Len(scans') = 1 /\ scans'[1].MaxFun = 1 /\ scans' # <<>>
      BY <1>5 DEF BeginSegment, ScanFrame
    <2>2. scans'[1].Bus \in Nat
      <3>1. scans' \in Seq(ScanFrames')
        BY <1>1 DEF TypeInv, TypeOK, StackTypeOK
      <3>2. scans'[1] \in ScanFrames'
        BY <2>1, <3>1
      <3>3. QED
        BY <3>2, GeometryAssumption DEF ScanFrames
    <2>3. DepthOK'
      BY <2>1, <2>2 DEF DepthOK
    <2>4. QED
      BY <1>1, <1>3, <2>3 DEF DepthInv
  <1>6. CASE ReturnToBridge
    <2>. DEFINE D == Len(scans)
    <2>1. scans \in Seq(ScanFrames) /\ scans # <<>> /\ scans' = Below(scans)
      BY <1>1, <1>6 DEF ReturnToBridge, TypeInv, TypeOK, StackTypeOK
    <2>2. D \in Nat /\ Len(scans') = D - 1 /\ \A k \in 1 .. D - 1 : scans'[k] = scans[k]
      BY <2>1, BelowLemma
    <2>3. \A k \in 1 .. D - 1 : k \in 1 .. D
      BY <2>2
    <2>4. \A k \in 1 .. Len(scans') : ShownMulti(scans[k])' <=> ShownMulti(scans'[k])
      BY <1>2 DEF ShownMulti, Here
    <2>5. DepthOK'
      <3>1. \A k \in 1 .. D - 1 : \A j \in 1 .. k - 1 : j \in 1 .. D - 1
        BY <2>2
      <3>2. \A k \in 1 .. D - 1 : \A j \in 1 .. k - 1 : scans'[j].Bus < scans'[k].Bus
        BY <1>1, <2>2, <2>3, <3>1 DEF DepthOK
      <3>3. \A k \in 1 .. D - 1 :
              /\ scans'[k].Bus >= k - 1
              /\ scans'[k].MaxFun # 1 => ShownMulti(scans'[k])
        BY <1>1, <2>2, <2>3 DEF DepthOK
      <3>4. QED
        BY <2>2, <2>4, <3>2, <3>3 DEF DepthOK
    <2>6. QED
      BY <1>1, <1>3, <2>5 DEF DepthInv
  <1>7. CASE ReturnToSegment
    <2>1. Len(scans') = 0
      BY <1>7 DEF ReturnToSegment
    <2>2. DepthOK'
      BY <2>1 DEF DepthOK
    <2>3. QED
      BY <1>1, <1>3, <2>2 DEF DepthInv
  <1>8. CASE UNCHANGED scans
    <2>1. DepthOK'
      BY <1>1, <1>2, <1>8 DEF DepthOK, ShownMulti, Here
    <2>2. QED
      BY <1>1, <1>3, <2>1 DEF DepthInv
  <1>9. QED
    BY <1>4, <1>5, <1>6, <1>7, <1>8 DEF Next, Scan, SkipEmptySegment, LinkSegment,
       LastSiblingStep, LastSiblingReturn, EndSegments, Walk, BeginWalk, SkipWalk, Visit,
       ReturnFromWalk, Free, FreeEnter, Release, ReturnFromFree, vars

LEMMA InitDepth == Init /\ BridgesLeadUp => DepthInv
PROOF
  BY InitType DEF Init, DepthInv, DepthOK

(* On a machine whose bridges lead up, also where two lead to one bus and where
   the ranges of the table overlap, ScanPciBus calls itself no deeper than
   there are bus numbers, whatever the number of devices. *)
THEOREM ShallowRecursionCorrect == Spec /\ BridgesLeadUp => []ShallowRecursion
PROOF
  <1>1. DepthInv => ShallowRecursion
    <2>. SUFFICES ASSUME DepthInv PROVE ShallowRecursion
      OBVIOUS
    <2>. DEFINE D == Len(scans)
    <2>1. scans \in Seq(ScanFrames) /\ DepthOK
      BY DEF DepthInv, TypeInv, TypeOK, StackTypeOK
    <2>2. CASE scans = <<>>
      BY <2>2, GeometryAssumption DEF ShallowRecursion
    <2>3. CASE scans # <<>>
      <3>1. D \in Nat \ {0} /\ Top(scans) \in ScanFrames
        BY <2>1, <2>3, TopLemma
      <3>2. scans[D].Bus \in 0 .. LastBus
        BY <3>1 DEF Top, ScanFrames
      <3>3. scans[D].Bus >= D - 1
        BY <2>1, <3>1 DEF DepthOK
      <3>4. QED
        BY <3>1, <3>2, <3>3, GeometryAssumption DEF ShallowRecursion
    <2>4. QED
      BY <2>2, <2>3
  <1>2. QED
    BY InitDepth, NextDepth, <1>1, PTL DEF Spec

(* On such a machine no scan of a bus is within a scan of the same bus: what
   ScanPciBus lacks, a record of the buses it is on, it can do without. *)
THEOREM NoScanWithinItselfCorrect == Spec /\ BridgesLeadUp => []NoScanWithinItself
PROOF
  <1>1. DepthInv => NoScanWithinItself
    <2>. SUFFICES ASSUME DepthInv, NEW j \in 1 .. Len(scans), NEW k \in 1 .. Len(scans), j # k
                  PROVE  scans[j].Bus # scans[k].Bus
      BY DEF NoScanWithinItself
    <2>1. scans \in Seq(ScanFrames) /\ DepthOK
      BY DEF DepthInv, TypeInv, TypeOK, StackTypeOK
    <2>2. scans[j].Bus \in Nat /\ scans[k].Bus \in Nat
      <3>1. scans[j] \in ScanFrames /\ scans[k] \in ScanFrames
        BY <2>1
      <3>2. QED
        BY <3>1, GeometryAssumption DEF ScanFrames
    <2>3. CASE j < k
      BY <2>1, <2>2, <2>3 DEF DepthOK
    <2>4. CASE k < j
      BY <2>1, <2>2, <2>4 DEF DepthOK
    <2>5. QED
      BY <2>3, <2>4
  <1>2. QED
    BY InitDepth, NextDepth, <1>1, PTL DEF Spec

-----------------------------------------------------------------------------
(* Who holds the nodes. *)

(* The pointers to node n, one kind at a time. *)
ChildLinks(n)   == {m \in Ids : heap[m].FirstChild = n}
SiblingLinks(n) == {m \in Ids : heap[m].NextSibling = n}
Heads(n)        == {k \in 1 .. Len(scans) : scans[k].Head = n}
SegRoots(n)     == {x \in {0} : pc = "link" /\ segRoot = n}
Roots(n)        == {x \in {0} : root = n}

Single(S) == \E h \in S : S = {h}

Kinds(A, B, C, D, E) ==
  ({"FirstChild"} \X A) \cup ({"NextSibling"} \X B) \cup ({"Head"} \X C)
    \cup ({"SegRoot"} \X D) \cup ({"Root"} \X E)

LEMMA HoldersByKind ==
  ASSUME NEW n
  PROVE  Holders(n) = Kinds(ChildLinks(n), SiblingLinks(n), Heads(n), SegRoots(n), Roots(n))
  BY DEF Holders, Kinds, ChildLinks, SiblingLinks, Heads, SegRoots, Roots

(* A node with a single holder is held by one kind of pointer only. *)
LEMMA OneKind ==
  ASSUME NEW A, NEW B, NEW C, NEW D, NEW E, Single(Kinds(A, B, C, D, E))
  PROVE  /\ C # {} => Single(C) /\ A = {} /\ B = {} /\ D = {} /\ E = {}
         /\ D # {} => Single(D) /\ A = {} /\ B = {} /\ C = {} /\ E = {}
PROOF
  <1>1. PICK h \in Kinds(A, B, C, D, E) : Kinds(A, B, C, D, E) = {h}
    BY DEF Single
  <1>2. /\ \A x \in A : h = <<"FirstChild", x>>
        /\ \A x \in B : h = <<"NextSibling", x>>
        /\ \A x \in C : h = <<"Head", x>>
        /\ \A x \in D : h = <<"SegRoot", x>>
        /\ \A x \in E : h = <<"Root", x>>
    BY <1>1 DEF Kinds
  <1>3. ASSUME NEW c \in C PROVE C = {c} /\ A = {} /\ B = {} /\ D = {} /\ E = {}
    BY <1>2
  <1>4. ASSUME NEW d \in D PROVE D = {d} /\ A = {} /\ B = {} /\ C = {} /\ E = {}
    BY <1>2
  <1>5. QED
    BY <1>3, <1>4 DEF Single

LEMMA KindSingle ==
  ASSUME NEW A, NEW B, NEW C, NEW D, NEW E,
         \/ Single(A) /\ B = {} /\ C = {} /\ D = {} /\ E = {}
         \/ Single(B) /\ A = {} /\ C = {} /\ D = {} /\ E = {}
         \/ Single(C) /\ A = {} /\ B = {} /\ D = {} /\ E = {}
         \/ Single(D) /\ A = {} /\ B = {} /\ C = {} /\ E = {}
         \/ Single(E) /\ A = {} /\ B = {} /\ C = {} /\ D = {}
  PROVE  Single(Kinds(A, B, C, D, E))
PROOF
  <1>1. ASSUME NEW x, A = {x}, B = {}, C = {}, D = {}, E = {}
        PROVE  Kinds(A, B, C, D, E) = {<<"FirstChild", x>>}
    BY <1>1 DEF Kinds
  <1>2. ASSUME NEW x, B = {x}, A = {}, C = {}, D = {}, E = {}
        PROVE  Kinds(A, B, C, D, E) = {<<"NextSibling", x>>}
    BY <1>2 DEF Kinds
  <1>3. ASSUME NEW x, C = {x}, A = {}, B = {}, D = {}, E = {}
        PROVE  Kinds(A, B, C, D, E) = {<<"Head", x>>}
    BY <1>3 DEF Kinds
  <1>4. ASSUME NEW x, D = {x}, A = {}, B = {}, C = {}, E = {}
        PROVE  Kinds(A, B, C, D, E) = {<<"SegRoot", x>>}
    BY <1>4 DEF Kinds
  <1>5. ASSUME NEW x, E = {x}, A = {}, B = {}, C = {}, D = {}
        PROVE  Kinds(A, B, C, D, E) = {<<"Root", x>>}
    BY <1>5 DEF Kinds
  <1>6. QED
    BY <1>1, <1>2, <1>3, <1>4, <1>5 DEF Single

(* Steps that move no pointer: every link, Head, SegRoot and Root stays. *)
LEMMA UnmovedHolders ==
  ASSUME SingleHolder, pc # "done", Ids' = Ids,
         \A n \in Ids : /\ ChildLinks(n)' = ChildLinks(n) /\ SiblingLinks(n)' = SiblingLinks(n)
                        /\ Heads(n)' = Heads(n) /\ SegRoots(n)' = SegRoots(n)
                        /\ Roots(n)' = Roots(n)
  PROVE  SingleHolder'
PROOF
  <1>1. ASSUME NEW n \in Ids PROVE Holders(n)' = Holders(n)
    BY HoldersByKind DEF Holders, ChildLinks, SiblingLinks, Heads, SegRoots, Roots
  <1>2. QED
    BY <1>1 DEF SingleHolder

LEMMA LoopHolders ==
  ASSUME TypeInv, SingleHolder, ChainsStay
  PROVE  SingleHolder'
PROOF
  <1>1. /\ UNCHANGED <<hw, table, heap, root, pc, segRoot, tail>> /\ pc = "scan"
        /\ Len(scans') = Len(scans)
        /\ \A k \in 1 .. Len(scans) : /\ scans'[k].Head = scans[k].Head
                                      /\ scans'[k].Tail = scans[k].Tail
                                      /\ scans'[k].Out = scans[k].Out
    BY DEF ChainsStay
  <1>2. Ids' = Ids
    BY <1>1 DEF Ids
  <1>3. ASSUME NEW n \in Ids
        PROVE  /\ ChildLinks(n)' = ChildLinks(n) /\ SiblingLinks(n)' = SiblingLinks(n)
               /\ Heads(n)' = Heads(n) /\ SegRoots(n)' = SegRoots(n) /\ Roots(n)' = Roots(n)
    BY <1>1, <1>2 DEF ChildLinks, SiblingLinks, Heads, SegRoots, Roots
  <1>4. QED
    BY <1>1, <1>2, <1>3, UnmovedHolders

(* The new node has one holder, Head or the last node of the chain, and no
   other node's holder is disturbed. *)
LEMMA AddHolders ==
  ASSUME ShapeInv, SingleHolder, NodeAdded(Len(heap), Len(scans))
  PROVE  SingleHolder'
PROOF
  <1>. DEFINE L == Len(heap)
              D == Len(scans)
  <1>1. TypeInv /\ FramesOK
    BY DEF ShapeInv
  <1>2. /\ UNCHANGED <<hw, table, root, pc, segRoot, tail>> /\ pc = "scan"
        /\ L \in Nat /\ D \in Nat \ {0}
        /\ Len(heap') = L + 1
        /\ heap'[L + 1].FirstChild = NULL /\ heap'[L + 1].NextSibling = NULL
        /\ \A n \in 1 .. L :
             /\ heap'[n].FirstChild = heap[n].FirstChild
             /\ heap'[n].NextSibling = IF n = scans[D].Tail THEN L + 1 ELSE heap[n].NextSibling
        /\ \A k \in 1 .. D - 1 : scans'[k] = scans[k]
        /\ scans'[D].Tail = L + 1 /\ scans'[D].Out = scans[D].Out
        /\ scans'[D].Head = IF scans[D].Tail = NULL THEN L + 1 ELSE scans[D].Head
        /\ \/ Len(scans') = D
           \/ /\ Len(scans') = D + 1
              /\ scans'[D + 1].Head = NULL /\ scans'[D + 1].Tail = NULL
              /\ scans'[D + 1].Out = L + 1
    BY DEF NodeAdded
  <1>3. /\ root \in 0 .. L /\ segRoot \in 0 .. L /\ tail \in 0 .. L
        /\ \A n \in 1 .. L : heap[n].FirstChild \in 0 .. L /\ heap[n].NextSibling \in 0 .. L
        /\ \A k \in 1 .. D : /\ scans[k].Head \in 0 .. L /\ scans[k].Tail \in 0 .. L
                             /\ scans[k].Out \in 0 .. L
    BY <1>1, PointerTypes
  <1>. USE DEF NULL
  <1>. HIDE DEF L, D
  <1>4. Ids = 1 .. L /\ Ids' = 1 .. L + 1 /\ Len(scans) = D /\ D \in 1 .. D
    BY <1>2 DEF Ids, L, D
  <1>5. /\ scans[D].Tail = 0 <=> scans[D].Head = 0
        /\ scans[D].Tail # 0 => heap[scans[D].Tail].NextSibling = 0
    BY <1>1, <1>4 DEF FramesOK, FrameOK
  <1>6. ASSUME NEW k \in 1 .. D - 1 PROVE scans'[k].Head \in 0 .. L
    <2>1. k \in 1 .. D /\ scans'[k] = scans[k]
      BY <1>2
    <2>2. QED
      BY <1>3, <2>1
  <1>7. ASSUME NEW n \in 1 .. L PROVE Single(Holders(n)')
    <2>1. ChildLinks(n)' = ChildLinks(n)
      <3>1. ASSUME NEW m \in 1 .. L + 1
            PROVE  heap'[m].FirstChild = n <=> m \in 1 .. L /\ heap[m].FirstChild = n
        BY <1>2
      <3>2. 1 .. L \subseteq 1 .. L + 1
        BY <1>2
      <3>3. QED
        BY <1>4, <3>1, <3>2 DEF ChildLinks
    <2>2. SiblingLinks(n)' = SiblingLinks(n)
      <3>1. ASSUME NEW m \in 1 .. L + 1
            PROVE  heap'[m].NextSibling = n <=> m \in 1 .. L /\ heap[m].NextSibling = n
        <4>1. L \in Nat /\ n \in 1 .. L /\ n # L + 1 /\ n # 0 /\ L + 1 \notin 1 .. L
          BY <1>2, <1>7
        <4>2. m = L + 1 \/ m \in 1 .. L
          BY <4>1
        <4>3. CASE m = L + 1
          BY <1>2, <4>1, <4>3
        <4>4. CASE m \in 1 .. L /\ m # scans[D].Tail
          BY <1>2, <4>4
        <4>5. CASE m \in 1 .. L /\ m = scans[D].Tail
          <5>1. scans[D].Tail # 0 /\ heap[m].NextSibling = 0
            BY <1>2, <1>5, <4>5
          <5>2. heap'[m].NextSibling = L + 1
            BY <1>2, <4>5
          <5>3. QED
            BY <4>1, <5>1, <5>2
        <4>6. QED
          BY <4>2, <4>3, <4>4, <4>5
      <3>2. 1 .. L \subseteq 1 .. L + 1
        BY <1>2
      <3>3. QED
        BY <1>4, <3>1, <3>2 DEF SiblingLinks
    <2>3. Heads(n)' = Heads(n)
      <3>1. ASSUME NEW k \in 1 .. D PROVE scans'[k].Head = n <=> scans[k].Head = n
        <4>1. k \in 1 .. D - 1 \/ k = D
          BY <1>2
        <4>2. CASE k \in 1 .. D - 1
          BY <1>2, <4>2
        <4>3. n # L + 1 /\ n # 0
          BY <1>2, <1>7
        <4>4. CASE k = D /\ scans[D].Tail = 0
          <5>1. scans'[D].Head = L + 1 /\ scans[D].Head = 0
            BY <1>2, <1>5, <4>4
          <5>2. scans'[k].Head # n /\ scans[k].Head # n
            BY <4>3, <4>4, <5>1
          <5>3. QED
            BY <5>2
        <4>5. CASE k = D /\ scans[D].Tail # 0
          BY <1>2, <4>5
        <4>6. QED
          BY <4>1, <4>2, <4>4, <4>5
      <3>2. QED
        BY <1>2, <1>4, <3>1 DEF Heads
    <2>4. SegRoots(n)' = SegRoots(n) /\ Roots(n)' = Roots(n)
      BY <1>2 DEF SegRoots, Roots
    <2>5. Holders(n)' = Holders(n)
      BY <2>1, <2>2, <2>3, <2>4, HoldersByKind DEF Holders, ChildLinks, SiblingLinks, Heads, SegRoots, Roots
    <2>6. QED
      BY <1>2, <1>4, <2>5 DEF SingleHolder, Single
  <1>8. ASSUME NEW n, n = L + 1 PROVE Single(Holders(n)')
    <2>1. ChildLinks(n)' = {} /\ SegRoots(n)' = {} /\ Roots(n)' = {}
      <3>1. ASSUME NEW m \in 1 .. L + 1 PROVE heap'[m].FirstChild # n
        <4>1. m = L + 1 \/ m \in 1 .. L
          BY <1>2
        <4>2. m \in 1 .. L => heap'[m].FirstChild \in 0 .. L
          BY <1>2, <1>3
        <4>3. m = L + 1 => heap'[m].FirstChild = 0
          BY <1>2
        <4>4. heap'[m].FirstChild \in 0 .. L
          BY <1>2, <4>1, <4>2, <4>3
        <4>5. QED
          BY <1>2, <1>8, <4>4
      <3>2. ChildLinks(n)' = {}
        BY <1>4, <3>1 DEF ChildLinks
      <3>3. root' # n /\ segRoot' # n
        BY <1>2, <1>3, <1>8
      <3>4. QED
        BY <3>2, <3>3 DEF SegRoots, Roots
    <2>5. Holders(n)' = Kinds(ChildLinks(n)', SiblingLinks(n)', Heads(n)', SegRoots(n)', Roots(n)')
      BY DEF Holders, Kinds, ChildLinks, SiblingLinks, Heads, SegRoots, Roots
    <2>2. CASE scans[D].Tail = 0
      <3>1. SiblingLinks(n)' = {}
        <4>1. ASSUME NEW m \in 1 .. L + 1 PROVE heap'[m].NextSibling # n
          <5>1. m = L + 1 \/ (m \in 1 .. L /\ m # scans[D].Tail)
            BY <1>2, <2>2
          <5>2. m \in 1 .. L /\ m # scans[D].Tail => heap'[m].NextSibling \in 0 .. L
            BY <1>2, <1>3
          <5>3. QED
            BY <1>2, <1>8, <5>1, <5>2
        <4>2. QED
          BY <1>4, <4>1 DEF SiblingLinks
      <3>2. Heads(n)' = {D}
        <4>1. ASSUME NEW k \in 1 .. Len(scans') PROVE scans'[k].Head = n <=> k = D
          <5>1. k \in 1 .. D - 1 \/ k = D \/ k = D + 1
            BY <1>2
          <5>2. k \in 1 .. D - 1 => scans'[k].Head # n /\ k # D
            BY <1>2, <1>6, <1>8
          <5>3. k = D => scans'[k].Head = n
            BY <1>2, <1>8, <2>2
          <5>4. k = D + 1 => scans'[k].Head # n /\ k # D
            BY <1>2, <1>8
          <5>5. QED
            BY <5>1, <5>2, <5>3, <5>4
        <4>2. D \in 1 .. Len(scans')
          BY <1>2
        <4>3. QED
          BY <4>1, <4>2 DEF Heads
      <3>3. Single(Heads(n)')
        BY <3>2 DEF Single
      <3>4. QED
        BY <2>1, <2>5, <3>1, <3>3, KindSingle
    <2>3. CASE scans[D].Tail # 0
      <3>1. SiblingLinks(n)' = {scans[D].Tail}
        <4>1. ASSUME NEW m \in 1 .. L + 1 PROVE heap'[m].NextSibling = n <=> m = scans[D].Tail
          <5>1. m = L + 1 \/ m \in 1 .. L
            BY <1>2
          <5>2. scans[D].Tail \in 1 .. L /\ L + 1 \notin 1 .. L
            BY <1>2, <1>3, <1>4, <2>3
          <5>3. m = L + 1 => heap'[m].NextSibling # n /\ m # scans[D].Tail
            BY <1>2, <1>8, <5>2
          <5>4. ASSUME m \in 1 .. L, m # scans[D].Tail PROVE heap'[m].NextSibling # n
            <6>1. heap'[m].NextSibling = heap[m].NextSibling /\ heap[m].NextSibling \in 0 .. L
              BY <1>2, <1>3, <5>4
            <6>2. QED
              BY <1>2, <1>8, <6>1
          <5>5. m \in 1 .. L /\ m = scans[D].Tail => heap'[m].NextSibling = n
            BY <1>2, <1>8
          <5>6. QED
            BY <5>1, <5>3, <5>4, <5>5
        <4>2. scans[D].Tail \in 1 .. L + 1
          BY <1>2, <1>3, <1>4, <2>3
        <4>3. QED
          BY <1>4, <4>1, <4>2 DEF SiblingLinks
      <3>2. Heads(n)' = {}
        <4>1. ASSUME NEW k \in 1 .. Len(scans') PROVE scans'[k].Head # n
          <5>1. k \in 1 .. D - 1 \/ k = D \/ k = D + 1
            BY <1>2
          <5>2. k \in 1 .. D - 1 => scans'[k].Head # n
            BY <1>2, <1>6, <1>8
          <5>3. scans[D].Head # n
            BY <1>2, <1>3, <1>4, <1>8
          <5>4. k = D => scans'[k].Head # n
            BY <1>2, <2>3, <5>3
          <5>5. k = D + 1 => scans'[k].Head # n
            BY <1>2, <1>8
          <5>6. QED
            BY <5>1, <5>2, <5>4, <5>5
        <4>2. QED
          BY <4>1 DEF Heads
      <3>3. Single(SiblingLinks(n)')
        BY <3>1 DEF Single
      <3>4. QED
        BY <2>1, <2>5, <3>2, <3>3, KindSingle
    <2>4. QED
      BY <2>2, <2>3
  <1>9. ASSUME NEW n \in Ids' PROVE Single(Holders(n)')
    <2>1. n \in 1 .. L \/ n = L + 1
      BY <1>2, <1>4
    <2>2. QED
      BY <1>7, <1>8, <2>1
  <1>10. QED
    BY <1>9 DEF SingleHolder, Single

(* A bridge takes over the chain of the activation that returns to it. *)
LEMMA ReturnToBridgeHolders ==
  ASSUME ShapeInv, SingleHolder, ReturnToBridge
  PROVE  SingleHolder'
PROOF
  <1>. DEFINE D == Len(scans)
              f == scans[D]
  <1>1. TypeInv /\ FramesOK
    BY DEF ShapeInv
  <1>2. /\ UNCHANGED <<hw, table, root, pc, segRoot, tail>> /\ pc = "scan"
        /\ D \in Nat /\ D > 1
        /\ Len(scans') = D - 1
        /\ \A k \in 1 .. D - 1 : scans'[k] = scans[k]
        /\ Len(heap') = Len(heap)
        /\ \A n \in Ids : /\ heap'[n].FirstChild = IF n = f.Out THEN f.Head ELSE heap[n].FirstChild
                          /\ heap'[n].NextSibling = heap[n].NextSibling
    BY <1>1, ReturnToBridgeEffect
  <1>. HIDE DEF D
  <1>. USE DEF NULL
  <1>3. Ids' = Ids /\ 0 \notin Ids /\ Len(scans) = D /\ D \in 1 .. D
    BY <1>2 DEF Ids, D
  <1>4. f.Out \in Ids /\ heap[f.Out].FirstChild = 0
    BY <1>1, <1>2, <1>3 DEF FramesOK
  <1>5. ASSUME NEW n \in Ids PROVE Single(Holders(n)')
    <2>1. Single(Kinds(ChildLinks(n), SiblingLinks(n), Heads(n), SegRoots(n), Roots(n)))
      BY <1>2, HoldersByKind DEF SingleHolder, Single
    <2>2. Holders(n)' = Kinds(ChildLinks(n)', SiblingLinks(n)', Heads(n)', SegRoots(n)', Roots(n)')
      BY DEF Holders, Kinds, ChildLinks, SiblingLinks, Heads, SegRoots, Roots
    <2>3. SiblingLinks(n)' = SiblingLinks(n) /\ SegRoots(n)' = SegRoots(n) /\ Roots(n)' = Roots(n)
      BY <1>2, <1>3 DEF SiblingLinks, SegRoots, Roots
    <2>4. 1 .. D - 1 = 1 .. D \ {D}
      BY <1>2
    <2>5. Heads(n)' = Heads(n) \ {D}
      BY <1>2, <1>3, <2>4 DEF Heads
    <2>6. CASE f.Head = n
      <3>1. D \in Heads(n)
        BY <1>3, <2>6 DEF Heads
      <3>2. /\ Single(Heads(n)) /\ ChildLinks(n) = {} /\ SiblingLinks(n) = {}
            /\ SegRoots(n) = {} /\ Roots(n) = {}
        BY <2>1, <3>1, OneKind
      <3>3. Heads(n)' = {}
        BY <2>5, <3>1, <3>2 DEF Single
      <3>4. ChildLinks(n)' = {f.Out}
        <4>1. \A m \in Ids : heap[m].FirstChild # n
          BY <3>2 DEF ChildLinks
        <4>2. \A m \in Ids : heap'[m].FirstChild = n <=> m = f.Out
          BY <1>2, <2>6, <4>1
        <4>3. QED
          BY <1>3, <1>4, <4>2 DEF ChildLinks
      <3>5. QED
        BY <2>2, <2>3, <3>2, <3>3, <3>4, KindSingle DEF Single
    <2>7. CASE f.Head # n
      <3>1. Heads(n)' = Heads(n)
        BY <2>5, <2>7 DEF Heads
      <3>2. \A m \in Ids : heap'[m].FirstChild = n <=> heap[m].FirstChild = n
        BY <1>2, <1>3, <1>4, <2>7
      <3>3. ChildLinks(n)' = ChildLinks(n)
        BY <1>3, <3>2 DEF ChildLinks
      <3>4. QED
        BY <2>1, <2>2, <2>3, <3>1, <3>3
    <2>8. QED
      BY <2>6, <2>7
  <1>6. QED
    BY <1>3, <1>5 DEF SingleHolder, Single

(* SegRoot, or List->Root without a table, takes over the outermost chain. *)
LEMMA ReturnToSegmentHolders ==
  ASSUME ShapeInv, SingleHolder, ReturnToSegment
  PROVE  SingleHolder'
PROOF
  <1>1. TypeInv /\ ListOK
    BY DEF ShapeInv
  <1>2. /\ UNCHANGED <<heap, table>> /\ pc = "scan" /\ Len(scans) = 1 /\ scans' = <<>>
        /\ IF table = <<>>
             THEN root' = scans[1].Head /\ pc' = "scanned" /\ UNCHANGED segRoot
             ELSE segRoot' = scans[1].Head /\ pc' = "link" /\ UNCHANGED root
    BY DEF ReturnToSegment, platform, Top
  <1>. USE DEF NULL
  <1>3. Ids' = Ids /\ 0 \notin Ids
    BY <1>2 DEF Ids
  <1>4. table = <<>> => root = 0
    BY <1>1, <1>2 DEF ListOK, Scanning
  <1>5. ASSUME NEW n \in Ids PROVE Single(Holders(n)')
    <2>1. Single(Kinds(ChildLinks(n), SiblingLinks(n), Heads(n), SegRoots(n), Roots(n)))
      BY <1>2, HoldersByKind DEF SingleHolder, Single
    <2>2. Holders(n)' = Kinds(ChildLinks(n)', SiblingLinks(n)', Heads(n)', SegRoots(n)', Roots(n)')
      BY DEF Holders, Kinds, ChildLinks, SiblingLinks, Heads, SegRoots, Roots
    <2>3. ChildLinks(n)' = ChildLinks(n) /\ SiblingLinks(n)' = SiblingLinks(n)
      BY <1>2, <1>3 DEF ChildLinks, SiblingLinks
    <2>4. Heads(n)' = {} /\ Heads(n) = {k \in {1} : scans[1].Head = n} /\ SegRoots(n) = {}
      BY <1>2 DEF Heads, SegRoots
    <2>5. CASE scans[1].Head = n
      <3>1. Heads(n) # {}
        BY <2>4, <2>5
      <3>2. ChildLinks(n) = {} /\ SiblingLinks(n) = {} /\ Roots(n) = {}
        BY <2>1, <3>1, OneKind
      <3>3. CASE table = <<>>
        <4>1. SegRoots(n)' = {} /\ Roots(n)' = {0}
          BY <1>2, <2>5, <3>3 DEF SegRoots, Roots
        <4>2. QED
          BY <2>2, <2>3, <2>4, <3>2, <4>1, KindSingle DEF Single
      <3>4. CASE table # <<>>
        <4>1. SegRoots(n)' = {0} /\ Roots(n)' = Roots(n)
          BY <1>2, <2>5, <3>4 DEF SegRoots, Roots
        <4>2. QED
          BY <2>2, <2>3, <2>4, <3>2, <4>1, KindSingle DEF Single
      <3>5. QED
        BY <3>3, <3>4
    <2>6. CASE scans[1].Head # n
      <3>1. Heads(n)' = Heads(n)
        BY <2>4, <2>6
      <3>2. SegRoots(n)' = SegRoots(n) /\ Roots(n)' = Roots(n)
        BY <1>2, <1>3, <1>4, <2>6 DEF SegRoots, Roots
      <3>3. QED
        BY <2>1, <2>2, <2>3, <3>1, <3>2
    <2>7. QED
      BY <2>5, <2>6
  <1>6. QED
    BY <1>3, <1>5 DEF SingleHolder, Single

(* The list takes over the segment's chain from SegRoot. *)
LEMMA LinkSegmentHolders ==
  ASSUME ShapeInv, SingleHolder, LinkSegment
  PROVE  SingleHolder'
PROOF
  <1>1. TypeInv /\ ListOK
    BY DEF ShapeInv
  <1>2. /\ Len(heap') = Len(heap) /\ Len(heap) \in Nat
        /\ \A n \in Ids :
             /\ heap'[n].FirstChild = heap[n].FirstChild
             /\ heap'[n].NextSibling = IF n = tail THEN segRoot ELSE heap[n].NextSibling
    BY <1>1, LinkSegmentHeap
  <1>. USE DEF NULL
  <1>3. /\ pc = "link" /\ pc' = "last" /\ segRoot # 0 /\ UNCHANGED <<scans, segRoot>>
        /\ root' = IF tail = 0 THEN segRoot ELSE root
    BY DEF LinkSegment
  <1>4. Ids' = Ids /\ 0 \notin Ids /\ (tail # 0 => tail \in Ids)
    BY <1>1, <1>2, PointerTypes DEF Ids
  <1>5. (tail = 0 => root = 0) /\ (tail # 0 => heap[tail].NextSibling = 0)
    BY <1>1, <1>3 DEF ListOK, Scanning
  <1>6. ASSUME NEW n \in Ids PROVE Single(Holders(n)')
    <2>1. Single(Kinds(ChildLinks(n), SiblingLinks(n), Heads(n), SegRoots(n), Roots(n)))
      BY <1>3, HoldersByKind DEF SingleHolder, Single
    <2>2. Holders(n)' = Kinds(ChildLinks(n)', SiblingLinks(n)', Heads(n)', SegRoots(n)', Roots(n)')
      BY DEF Holders, Kinds, ChildLinks, SiblingLinks, Heads, SegRoots, Roots
    <2>3. ChildLinks(n)' = ChildLinks(n) /\ Heads(n)' = Heads(n) /\ SegRoots(n)' = {}
      BY <1>2, <1>3, <1>4 DEF ChildLinks, Heads, SegRoots
    <2>4. CASE segRoot = n
      <3>1. SegRoots(n) # {}
        BY <1>3, <2>4 DEF SegRoots
      <3>2. ChildLinks(n) = {} /\ SiblingLinks(n) = {} /\ Heads(n) = {} /\ Roots(n) = {}
        BY <2>1, <3>1, OneKind
      <3>3. \A m \in Ids : heap[m].NextSibling # n
        BY <3>2 DEF SiblingLinks
      <3>4. CASE tail = 0
        <4>1. SiblingLinks(n)' = {} /\ Roots(n)' = {0}
          BY <1>2, <1>3, <1>4, <2>4, <3>3, <3>4 DEF SiblingLinks, Roots
        <4>2. QED
          BY <2>2, <2>3, <3>2, <4>1, KindSingle DEF Single
      <3>5. CASE tail # 0
        <4>1. SiblingLinks(n)' = {tail} /\ Roots(n)' = Roots(n)
          BY <1>2, <1>3, <1>4, <2>4, <3>3, <3>5 DEF SiblingLinks, Roots
        <4>2. QED
          BY <2>2, <2>3, <3>2, <4>1, KindSingle DEF Single
      <3>6. QED
        BY <3>4, <3>5
    <2>5. CASE segRoot # n
      <3>1. SegRoots(n) = {} /\ Roots(n)' = Roots(n)
        BY <1>3, <1>4, <1>5, <2>5 DEF SegRoots, Roots
      <3>2. \A m \in Ids : heap'[m].NextSibling = n <=> heap[m].NextSibling = n
        BY <1>2, <1>4, <1>5, <2>5
      <3>3. SiblingLinks(n)' = SiblingLinks(n)
        BY <1>4, <3>2 DEF SiblingLinks
      <3>4. QED
        BY <2>1, <2>2, <2>3, <3>1, <3>3
    <2>6. QED
      BY <2>4, <2>5
  <1>7. QED
    BY <1>4, <1>6 DEF SingleHolder, Single

(* The other steps of ScanAllSegments, the walk and the release. *)
LEMMA OtherHolders ==
  ASSUME ShapeInv, SingleHolder,
         \/ BeginSegment \/ SkipEmptySegment \/ LastSiblingStep \/ LastSiblingReturn
         \/ EndSegments \/ Walk \/ Free \/ UNCHANGED vars
  PROVE  SingleHolder'
PROOF
  <1>1. TypeInv
    BY DEF ShapeInv
  <1>. USE DEF NULL
  <1>2. CASE BeginSegment
    <2>1. UNCHANGED <<heap, root>> /\ pc = "segment" /\ pc' = "scan"
      BY <1>2 DEF BeginSegment, locals
    <2>2. PICK s, b : scans' = <<ScanFrame(s, b, NULL)>>
      BY <1>2 DEF BeginSegment
    <2>3. Len(scans') = 1 /\ scans'[1].Head = 0
      BY <2>2 DEF ScanFrame
    <2>4. scans = <<>>
      BY <1>1, <2>1 DEF TypeInv, TypeOK, StackTypeOK
    <2>5. Ids' = Ids /\ 0 \notin Ids
      BY <2>1 DEF Ids
    <2>6. ASSUME NEW n \in Ids
          PROVE  /\ ChildLinks(n)' = ChildLinks(n) /\ SiblingLinks(n)' = SiblingLinks(n)
                 /\ Heads(n)' = Heads(n) /\ SegRoots(n)' = SegRoots(n) /\ Roots(n)' = Roots(n)
      <3>1. Heads(n) = {} /\ Heads(n)' = {}
        BY <2>3, <2>4, <2>5 DEF Heads
      <3>2. QED
        BY <2>1, <2>5, <3>1 DEF ChildLinks, SiblingLinks, SegRoots, Roots
    <2>7. QED
      BY <2>1, <2>5, <2>6, UnmovedHolders
  <1>3. CASE SkipEmptySegment
    <2>1. UNCHANGED <<heap, root, scans>> /\ pc = "link" /\ pc' = "segment" /\ segRoot = 0
      BY <1>3 DEF SkipEmptySegment
    <2>2. Ids' = Ids /\ 0 \notin Ids
      BY <2>1 DEF Ids
    <2>3. ASSUME NEW n \in Ids
          PROVE  /\ ChildLinks(n)' = ChildLinks(n) /\ SiblingLinks(n)' = SiblingLinks(n)
                 /\ Heads(n)' = Heads(n) /\ SegRoots(n)' = SegRoots(n) /\ Roots(n)' = Roots(n)
      BY <2>1, <2>2 DEF ChildLinks, SiblingLinks, Heads, SegRoots, Roots
    <2>4. QED
      BY <2>1, <2>2, <2>3, UnmovedHolders
  <1>4. CASE \/ LastSiblingStep \/ LastSiblingReturn \/ EndSegments
             \/ Walk \/ Free \/ UNCHANGED vars
    <2>1. CASE pc = "done" \/ pc' = "done"
      <3>1. pc' = "done"
        BY <1>4, <2>1 DEF LastSiblingStep, LastSiblingReturn, EndSegments, Walk, BeginWalk,
           SkipWalk, Visit, ReturnFromWalk, Free, FreeEnter, Release, ReturnFromFree, vars
      <3>2. QED
        BY <3>1 DEF SingleHolder
    <2>2. CASE pc # "done" /\ pc' # "done"
      <3>1. /\ UNCHANGED <<heap, root, scans, segRoot>> /\ pc # "done"
            /\ pc = "link" <=> pc' = "link"
        BY <1>4, <2>2 DEF LastSiblingStep, LastSiblingReturn, EndSegments, Walk, BeginWalk,
           SkipWalk, Visit, ReturnFromWalk, Free, FreeEnter, Release, ReturnFromFree, vars, locals
      <3>2. Ids' = Ids
        BY <3>1 DEF Ids
      <3>3. ASSUME NEW n \in Ids
            PROVE  /\ ChildLinks(n)' = ChildLinks(n) /\ SiblingLinks(n)' = SiblingLinks(n)
                   /\ Heads(n)' = Heads(n) /\ SegRoots(n)' = SegRoots(n)
                   /\ Roots(n)' = Roots(n)
        BY <3>1, <3>2 DEF ChildLinks, SiblingLinks, Heads, SegRoots, Roots
      <3>4. QED
        BY <3>1, <3>2, <3>3, UnmovedHolders
    <2>3. QED
      BY <2>1, <2>2
  <1>5. QED
    BY <1>2, <1>3, <1>4

HolderInv == ShapeInv /\ SingleHolder

LEMMA InitHolders == Init => HolderInv
PROOF
  <1>. SUFFICES ASSUME Init PROVE HolderInv
    OBVIOUS
  <1>1. Ids = {}
    BY DEF Init, Ids
  <1>2. SingleHolder
    BY <1>1 DEF SingleHolder
  <1>3. QED
    BY <1>2, InitShape DEF HolderInv

LEMMA NextHolders == HolderInv /\ [Next]_vars => HolderInv'
PROOF
  <1>. SUFFICES ASSUME HolderInv, [Next]_vars PROVE HolderInv'
    OBVIOUS
  <1>1. ShapeInv /\ TypeInv /\ SingleHolder
    BY DEF HolderInv, ShapeInv
  <1>2. ShapeInv'
    BY <1>1, NextShape
  <1>3. SkipAbsent \/ NoMemory \/ NextDevice => ChainsStay
    BY <1>1, LoopSteps
  <1>4. AddNode => NodeAdded(Len(heap), Len(scans))
    BY <1>1, AddNodeShape
  <1>5. SingleHolder'
    BY <1>1, <1>3, <1>4, LoopHolders, AddHolders, ReturnToBridgeHolders, ReturnToSegmentHolders,
       LinkSegmentHolders, OtherHolders
    DEF Next, Scan
  <1>6. QED
    BY <1>2, <1>5 DEF HolderInv

(* On every machine, and whichever allocations fail, exactly one pointer
   holds each node from its allocation until the list is freed: neither the
   growing of a chain, nor the hand-over of a chain to its bridge, to SegRoot
   and to the list loses a node or leaves it on two lists. *)
THEOREM SingleHolderCorrect == Spec => []SingleHolder
PROOF
  <1>1. HolderInv => SingleHolder
    BY DEF HolderInv
  <1>2. QED
    BY InitHolders, NextHolders, <1>1, PTL DEF Spec

-----------------------------------------------------------------------------
(* The order of the nodes: they are allocated in the order of the walk.  The
   nodes between a node and its next sibling are the ones below it, and none
   of their links leads out of there. *)
Nested ==
  \A m, n \in Ids :
    m <= n /\ n < heap[m].NextSibling =>
      /\ heap[n].FirstChild < heap[m].NextSibling
      /\ m # n => heap[n].NextSibling < heap[m].NextSibling

(* No sibling link passes over node a. *)
NothingBeyond(a) == \A m \in Ids : m <= a => heap[m].NextSibling <= a

(* No link at all leads from before node a to it, or past it. *)
OrderedBelow(a) ==
  \A m \in Ids : m < a => heap[m].FirstChild < a /\ heap[m].NextSibling < a

(* Nothing passes over the nodes still to be given a link: the last nodes of
   the activations' chains, which are the bridges of the activations above
   them, and the last node of the list. *)
OpenOK ==
  /\ \A k \in 1 .. Len(scans) : scans[k].Tail # NULL => NothingBeyond(scans[k].Tail)
  /\ \A k \in 1 .. Len(scans) - 1 : scans[k].Tail # NULL /\ scans[k + 1].Out = scans[k].Tail
  /\ pc = "scan" /\ scans[1].Head # NULL =>
       scans[1].Tail >= scans[1].Head /\ OrderedBelow(scans[1].Head)
  /\ pc = "link" /\ segRoot # NULL => OrderedBelow(segRoot)
  /\ Scanning /\ tail # NULL => \A m \in Ids : m < tail => heap[m].NextSibling <= tail

OrderInv == HolderInv /\ Nested /\ OpenOK

LEMMA InitOrder == Init => OrderInv
PROOF
  <1>. SUFFICES ASSUME Init PROVE OrderInv
    OBVIOUS
  <1>1. Ids = {} /\ scans = <<>> /\ pc = "segment"
    BY DEF Init, Ids
  <1>2. Nested /\ OpenOK
    BY <1>1 DEF Nested, OpenOK
  <1>3. QED
    BY <1>2, InitHolders DEF OrderInv

LEMMA LoopOrder ==
  ASSUME TypeInv, Nested, OpenOK, SkipAbsent \/ NoMemory \/ NextDevice
  PROVE  Nested' /\ OpenOK'
PROOF
  <1>1. /\ UNCHANGED <<hw, table, heap, root, pc, segRoot, tail>> /\ pc = "scan"
        /\ Len(scans') = Len(scans)
        /\ \A k \in 1 .. Len(scans) : /\ scans'[k].Head = scans[k].Head
                                      /\ scans'[k].Tail = scans[k].Tail
                                      /\ scans'[k].Out = scans[k].Out
    BY LoopSteps DEF ChainsStay
  <1>2. Ids' = Ids
    BY <1>1 DEF Ids
  <1>3. Nested'
    BY <1>1, <1>2 DEF Nested
  <1>4. Len(scans) \in Nat \ {0}
    BY <1>1, TopLemma DEF TypeInv, TypeOK, StackTypeOK
  <1>5. OpenOK'
    <2>1. ASSUME NEW k \in 1 .. Len(scans), scans'[k].Tail # NULL
          PROVE  \A m \in Ids : m <= scans'[k].Tail => heap'[m].NextSibling <= scans'[k].Tail
      BY <1>1, <2>1 DEF OpenOK, NothingBeyond
    <2>2. ASSUME NEW k \in 1 .. Len(scans) - 1
          PROVE  scans'[k].Tail # NULL /\ scans'[k + 1].Out = scans'[k].Tail
      <3>1. k \in 1 .. Len(scans) /\ k + 1 \in 1 .. Len(scans)
        BY <1>4
      <3>2. QED
        BY <1>1, <3>1 DEF OpenOK
    <2>3. 1 \in 1 .. Len(scans)
      BY <1>4
    <2>4. scans'[1].Head # NULL =>
            /\ scans'[1].Tail >= scans'[1].Head
            /\ \A m \in Ids : m < scans'[1].Head =>
                 heap'[m].FirstChild < scans'[1].Head /\ heap'[m].NextSibling < scans'[1].Head
      BY <1>1, <2>3 DEF OpenOK, OrderedBelow
    <2>5. tail' # NULL => \A m \in Ids : m < tail' => heap'[m].NextSibling <= tail'
      BY <1>1 DEF OpenOK, Scanning
    <2>6. QED
      BY <1>1, <1>2, <2>1, <2>2, <2>4, <2>5 DEF OpenOK, NothingBeyond, OrderedBelow
  <1>6. QED
    BY <1>3, <1>5

(* The new node comes last of all: the link that leads to it starts at the
   last node of the running chain, and nothing passes over that one. *)
LEMMA AddOrder ==
  ASSUME ShapeInv, Nested, OpenOK, AddNode
  PROVE  Nested' /\ OpenOK'
PROOF
  <1>. DEFINE L == Len(heap)
              D == Len(scans)
              t == scans[D].Tail
  <1>1. TypeInv /\ FramesOK
    BY DEF ShapeInv
  <1>2. /\ UNCHANGED <<hw, table, root, pc, segRoot, tail>> /\ pc = "scan"
        /\ L \in Nat /\ D \in Nat \ {0}
        /\ Len(heap') = L + 1
        /\ heap'[L + 1].FirstChild = NULL /\ heap'[L + 1].NextSibling = NULL
        /\ \A n \in 1 .. L :
             /\ heap'[n].FirstChild = heap[n].FirstChild
             /\ heap'[n].NextSibling = IF n = scans[D].Tail THEN L + 1 ELSE heap[n].NextSibling
        /\ \A k \in 1 .. D - 1 : scans'[k] = scans[k]
        /\ scans'[D].Tail = L + 1 /\ scans'[D].Out = scans[D].Out
        /\ scans'[D].Head = IF scans[D].Tail = NULL THEN L + 1 ELSE scans[D].Head
        /\ \/ Len(scans') = D
           \/ /\ Len(scans') = D + 1
              /\ scans'[D + 1].Head = NULL /\ scans'[D + 1].Tail = NULL
              /\ scans'[D + 1].Out = L + 1
    BY <1>1, AddNodeShape DEF NodeAdded
  <1>3. /\ tail \in 0 .. L
        /\ \A n \in 1 .. L : heap[n].FirstChild \in 0 .. L /\ heap[n].NextSibling \in 0 .. L
        /\ \A k \in 1 .. D : /\ scans[k].Head \in 0 .. L /\ scans[k].Tail \in 0 .. L
                             /\ scans[k].Out \in 0 .. L
    BY <1>1, PointerTypes
  <1>4. Ids = 1 .. L /\ Ids' = 1 .. L + 1 /\ Len(scans) = D /\ D \in 1 .. D
    BY <1>2 DEF Ids
  <1>. USE DEF NULL
  <1>. HIDE DEF L, D
  <1>5. t \in 0 .. L /\ (t # 0 => \A m \in 1 .. L : m <= t => heap[m].NextSibling <= t)
    BY <1>3, <1>4 DEF OpenOK, NothingBeyond
  <1>. HIDE DEF t
  <1>6. ASSUME NEW n \in 1 .. L
        PROVE  /\ heap'[n].FirstChild = heap[n].FirstChild /\ heap[n].FirstChild \in 0 .. L
               /\ heap[n].NextSibling \in 0 .. L
               /\ n = t => heap'[n].NextSibling = L + 1
               /\ n # t => heap'[n].NextSibling = heap[n].NextSibling
    BY <1>2, <1>3 DEF t
  <1>7. Nested'
    <2>1. ASSUME NEW m \in 1 .. L + 1, NEW n \in 1 .. L + 1,
                 m <= n, n < heap'[m].NextSibling
          PROVE  /\ heap'[n].FirstChild < heap'[m].NextSibling
                 /\ m # n => heap'[n].NextSibling < heap'[m].NextSibling
      <3>1. m \in 1 .. L
        BY <1>2, <2>1
      <3>2. CASE m = t
        <4>1. heap'[m].NextSibling = L + 1 /\ n \in 1 .. L
          BY <1>2, <1>6, <2>1, <3>1, <3>2
        <4>2. /\ heap'[n].FirstChild \in 0 .. L
              /\ m # n => heap'[n].NextSibling \in 0 .. L
          BY <1>6, <3>2, <4>1
        <4>3. QED
          BY <1>2, <4>1, <4>2
      <3>3. CASE m # t
        <4>1. heap'[m].NextSibling = heap[m].NextSibling /\ heap[m].NextSibling \in 0 .. L
          BY <1>6, <3>1, <3>3
        <4>2. n \in 1 .. L
          BY <1>2, <2>1, <4>1
        <4>3. n # t
          BY <1>2, <1>5, <2>1, <3>1, <3>3, <4>1
        <4>4. /\ heap[n].FirstChild < heap[m].NextSibling
              /\ m # n => heap[n].NextSibling < heap[m].NextSibling
          BY <1>4, <2>1, <3>1, <4>1, <4>2 DEF Nested
        <4>5. QED
          BY <1>6, <4>1, <4>2, <4>3, <4>4
      <3>4. QED
        BY <3>2, <3>3
    <2>2. QED
      BY <1>4, <2>1 DEF Nested
  <1>8. ASSUME NEW k \in 1 .. D - 1
        PROVE  /\ scans'[k] = scans[k] /\ scans[k].Tail \in 1 .. L /\ scans[k].Head \in 0 .. L
               /\ t # 0 => scans[k].Tail < t
    <2>1. k \in 1 .. D /\ k < D
      BY <1>2
    <2>2. scans[k].Tail # 0
      BY <1>4 DEF OpenOK
    <2>3. t # 0 => scans[k].Tail < t
      BY <1>1, <1>4, <2>1 DEF FramesOK, t
    <2>4. scans[k].Tail \in 1 .. L
      BY <1>2, <1>3, <2>1, <2>2
    <2>5. QED
      BY <1>2, <1>3, <2>1, <2>3, <2>4
  <1>9. ASSUME NEW k \in 1 .. Len(scans'), scans'[k].Tail # 0
        PROVE  \A m \in 1 .. L + 1 : m <= scans'[k].Tail => heap'[m].NextSibling <= scans'[k].Tail
    <2>1. k \in 1 .. D - 1 \/ k = D
      BY <1>2, <1>9
    <2>2. CASE k \in 1 .. D - 1
      <3>1. k \in 1 .. D
        BY <1>2, <2>2
      <3>2. \A m \in 1 .. L : m <= scans[k].Tail => heap[m].NextSibling <= scans[k].Tail
        BY <1>4, <1>8, <2>2, <3>1 DEF OpenOK, NothingBeyond
      <3>3. ASSUME NEW m \in 1 .. L + 1, m <= scans[k].Tail
            PROVE  heap'[m].NextSibling <= scans[k].Tail
        <4>1. m \in 1 .. L
          BY <1>2, <1>8, <2>2, <3>3
        <4>2. m # t
          BY <1>5, <1>8, <2>2, <3>3, <4>1
        <4>3. QED
          BY <1>6, <3>2, <3>3, <4>1, <4>2
      <3>4. QED
        BY <1>8, <2>2, <3>3
    <2>3. CASE k = D
      <3>1. ASSUME NEW m \in 1 .. L + 1 PROVE heap'[m].NextSibling <= L + 1
        <4>1. m \in 1 .. L \/ m = L + 1
          BY <1>2
        <4>2. m \in 1 .. L => heap'[m].NextSibling \in 0 .. L \/ heap'[m].NextSibling = L + 1
          BY <1>6
        <4>3. QED
          BY <1>2, <4>1, <4>2
      <3>2. QED
        BY <1>2, <2>3, <3>1
    <2>4. QED
      BY <2>1, <2>2, <2>3
  <1>10. ASSUME NEW k \in 1 .. Len(scans') - 1
         PROVE  scans'[k].Tail # 0 /\ scans'[k + 1].Out = scans'[k].Tail
    <2>1. CASE k \in 1 .. D - 1
      <3>1. scans[k].Tail # 0 /\ scans[k + 1].Out = scans[k].Tail
        BY <1>4, <2>1 DEF OpenOK
      <3>2. k + 1 \in 1 .. D - 1 \/ k + 1 = D
        BY <1>2, <2>1
      <3>3. QED
        BY <1>2, <2>1, <3>1, <3>2
    <2>2. CASE k \notin 1 .. D - 1
      <3>1. k = D /\ Len(scans') = D + 1
        BY <1>2, <2>2
      <3>2. QED
        BY <1>2, <3>1
    <2>3. QED
      BY <2>1, <2>2
  <1>11. ASSUME scans'[1].Head # 0
         PROVE  /\ scans'[1].Tail >= scans'[1].Head
                /\ \A m \in 1 .. L + 1 : m < scans'[1].Head =>
                     heap'[m].FirstChild < scans'[1].Head /\ heap'[m].NextSibling < scans'[1].Head
    <2>1. CASE D = 1 /\ t = 0
      <3>1. scans'[1].Head = L + 1 /\ scans'[1].Tail = L + 1
        BY <1>2, <2>1 DEF t
      <3>2. ASSUME NEW m \in 1 .. L + 1, m < L + 1
            PROVE  heap'[m].FirstChild < L + 1 /\ heap'[m].NextSibling < L + 1
        <4>1. m \in 1 .. L /\ m # t
          BY <1>2, <2>1, <3>2
        <4>2. QED
          BY <1>2, <1>6, <4>1
      <3>3. QED
        BY <1>2, <3>1, <3>2
    <2>2. CASE ~(D = 1 /\ t = 0)
      <3>1. scans'[1].Head = scans[1].Head /\ scans[1].Head \in 0 .. L
        <4>1. D = 1 \/ 1 \in 1 .. D - 1
          BY <1>2
        <4>2. QED
          BY <1>2, <1>3, <1>4, <1>8, <2>2, <4>1 DEF t
      <3>2. /\ scans[1].Tail >= scans[1].Head
            /\ \A m \in 1 .. L : m < scans[1].Head =>
                 heap[m].FirstChild < scans[1].Head /\ heap[m].NextSibling < scans[1].Head
        BY <1>2, <1>4, <1>11, <3>1 DEF OpenOK, OrderedBelow
      <3>3. /\ scans'[1].Tail >= scans[1].Head
            /\ t # 0 => t >= scans[1].Head
        <4>1. CASE D = 1
          BY <1>2, <1>5, <2>2, <3>1, <3>2, <4>1 DEF t
        <4>2. CASE D # 1
          <5>1. 1 \in 1 .. D - 1
            BY <1>2, <4>2
          <5>2. QED
            BY <1>5, <1>8, <3>1, <3>2, <5>1
        <4>3. QED
          BY <4>1, <4>2
      <3>4. ASSUME NEW m \in 1 .. L + 1, m < scans[1].Head
            PROVE  heap'[m].FirstChild < scans[1].Head /\ heap'[m].NextSibling < scans[1].Head
        <4>1. m \in 1 .. L
          BY <1>2, <3>1, <3>4
        <4>2. m # t
          BY <1>5, <3>1, <3>3, <3>4, <4>1
        <4>3. QED
          BY <1>6, <3>2, <3>4, <4>1, <4>2
      <3>5. QED
        BY <3>1, <3>3, <3>4
    <2>3. QED
      BY <2>1, <2>2
  <1>12. ASSUME tail # 0, NEW m \in 1 .. L + 1, m < tail
         PROVE  heap'[m].NextSibling <= tail
    <2>1. m \in 1 .. L
      BY <1>2, <1>3, <1>12
    <2>2. heap[m].NextSibling <= tail
      BY <1>2, <1>4, <1>12, <2>1 DEF OpenOK, Scanning
    <2>3. t # 0 => t > tail
      BY <1>1, <1>4 DEF FramesOK, FrameOK, t
    <2>4. m # t
      BY <1>3, <1>5, <1>12, <2>1, <2>3
    <2>5. QED
      BY <1>6, <2>1, <2>2, <2>4
  <1>13. OpenOK'
    BY <1>2, <1>4, <1>9, <1>10, <1>11, <1>12 DEF OpenOK, NothingBeyond, OrderedBelow
  <1>14. QED
    BY <1>7, <1>13

(* The children of a bridge stay between it and whatever comes next. *)
LEMMA ReturnToBridgeOrder ==
  ASSUME ShapeInv, Nested, OpenOK, ReturnToBridge
  PROVE  Nested' /\ OpenOK'
PROOF
  <1>. DEFINE D == Len(scans)
              f == scans[D]
  <1>1. TypeInv /\ FramesOK
    BY DEF ShapeInv
  <1>2. /\ UNCHANGED <<hw, table, root, pc, segRoot, tail>> /\ pc = "scan"
        /\ D \in Nat /\ D > 1
        /\ Len(scans') = D - 1
        /\ \A k \in 1 .. D - 1 : scans'[k] = scans[k]
        /\ Len(heap') = Len(heap)
        /\ \A n \in Ids : /\ heap'[n].FirstChild = IF n = f.Out THEN f.Head ELSE heap[n].FirstChild
                          /\ heap'[n].NextSibling = heap[n].NextSibling
    BY <1>1, ReturnToBridgeEffect
  <1>3. /\ Len(heap) \in Nat
        /\ \A n \in 1 .. Len(heap) : heap[n].NextSibling \in 0 .. Len(heap)
        /\ \A k \in 1 .. D : scans[k].Head \in 0 .. Len(heap) /\ scans[k].Tail \in 0 .. Len(heap)
    BY <1>1, PointerTypes
  <1>. HIDE DEF D
  <1>. USE DEF NULL
  <1>4. /\ Ids' = Ids /\ Ids = 1 .. Len(heap) /\ Len(scans) = D
        /\ D \in 1 .. D /\ D - 1 \in 1 .. D - 1 /\ D - 1 \in 1 .. D /\ (D - 1) + 1 = D
    BY <1>2 DEF Ids, D
  <1>5. scans[D - 1].Tail # 0 /\ f.Out = scans[D - 1].Tail
    BY <1>4 DEF OpenOK
  <1>6. f.Out \in Ids /\ \A m \in Ids : m <= f.Out => heap[m].NextSibling <= f.Out
    BY <1>3, <1>4, <1>5 DEF OpenOK, NothingBeyond
  <1>7. Nested'
    <2>1. ASSUME NEW m \in Ids, NEW n \in Ids, m <= n, n < heap[m].NextSibling
          PROVE  /\ heap'[n].FirstChild < heap[m].NextSibling
                 /\ m # n => heap[n].NextSibling < heap[m].NextSibling
      <3>1. n # f.Out
        BY <1>3, <1>4, <1>6, <2>1
      <3>2. QED
        BY <1>2, <2>1, <3>1 DEF Nested
    <2>2. QED
      BY <1>2, <1>4, <2>1 DEF Nested
  <1>8. ASSUME NEW k \in 1 .. D - 1, scans[k].Tail # 0
        PROVE  \A m \in Ids : m <= scans[k].Tail => heap'[m].NextSibling <= scans[k].Tail
    <2>1. k \in 1 .. D
      BY <1>2
    <2>2. QED
      BY <1>2, <1>4, <1>8, <2>1 DEF OpenOK, NothingBeyond
  <1>9. ASSUME NEW k \in 1 .. Len(scans') - 1
        PROVE  scans'[k].Tail # 0 /\ scans'[k + 1].Out = scans'[k].Tail
    <2>1. k \in 1 .. D - 1 /\ k + 1 \in 1 .. D - 1
      BY <1>2
    <2>2. QED
      BY <1>2, <1>4, <2>1 DEF OpenOK
  <1>10. ASSUME scans'[1].Head # 0
         PROVE  /\ scans'[1].Tail >= scans'[1].Head
                /\ \A m \in Ids : m < scans'[1].Head =>
                     heap'[m].FirstChild < scans'[1].Head /\ heap'[m].NextSibling < scans'[1].Head
    <2>1. 1 \in 1 .. D - 1 /\ 1 \in 1 .. D /\ scans'[1] = scans[1]
      BY <1>2
    <2>2. /\ scans[1].Tail >= scans[1].Head
          /\ \A m \in Ids : m < scans[1].Head =>
               heap[m].FirstChild < scans[1].Head /\ heap[m].NextSibling < scans[1].Head
      BY <1>2, <1>10, <2>1 DEF OpenOK, OrderedBelow
    <2>3. f.Out >= scans[1].Tail
      <3>1. D - 1 = 1 \/ 1 < D - 1
        BY <1>2
      <3>2. 1 < D - 1 => scans[1].Tail < scans[D - 1].Tail
        BY <1>1, <1>4, <1>5, <2>1 DEF FramesOK
      <3>3. scans[1].Tail \in Nat
        BY <1>3, <2>1
      <3>4. QED
        BY <1>3, <1>4, <1>5, <3>1, <3>2, <3>3
    <2>4. ASSUME NEW m \in Ids, m < scans[1].Head
          PROVE  heap'[m].FirstChild < scans[1].Head /\ heap'[m].NextSibling < scans[1].Head
      <3>1. m # f.Out
        BY <1>3, <1>4, <1>6, <2>1, <2>2, <2>3, <2>4
      <3>2. QED
        BY <1>2, <2>2, <2>4, <3>1
    <2>5. QED
      BY <2>1, <2>2, <2>4
  <1>11. ASSUME tail # 0, NEW m \in Ids, m < tail PROVE heap'[m].NextSibling <= tail
    BY <1>2, <1>11 DEF OpenOK, Scanning
  <1>12. OpenOK'
    BY <1>2, <1>4, <1>8, <1>9, <1>10, <1>11 DEF OpenOK, NothingBeyond, OrderedBelow
  <1>13. QED
    BY <1>7, <1>12

(* The steps of ScanAllSegments that write no link of a node. *)
LEMMA SegmentsOrder ==
  ASSUME ShapeInv, Nested, OpenOK,
         \/ ReturnToSegment \/ BeginSegment \/ SkipEmptySegment
         \/ LastSiblingStep \/ LastSiblingReturn \/ EndSegments
  PROVE  Nested' /\ OpenOK'
PROOF
  <1>1. TypeInv /\ LinksForward
    BY DEF ShapeInv
  <1>2. UNCHANGED <<heap, hw, table>>
    BY DEF ReturnToSegment, BeginSegment, SkipEmptySegment, LastSiblingStep,
           LastSiblingReturn, EndSegments, platform
  <1>3. Ids' = Ids
    BY <1>2 DEF Ids
  <1>4. Nested'
    BY <1>2, <1>3 DEF Nested
  <1>5. /\ Len(heap) \in Nat /\ Ids = 1 .. Len(heap) /\ tail \in 0 .. Len(heap)
        /\ \A n \in Ids : heap[n].NextSibling \in 0 .. Len(heap)
        /\ (scans # <<>> <=> pc = "scan")
    BY <1>1, PointerTypes DEF TypeInv, TypeOK, StackTypeOK, Ids
  <1>. USE DEF NULL
  <1>6. CASE ReturnToSegment
    <2>1. /\ scans' = <<>> /\ pc = "scan" /\ Len(scans) = 1 /\ UNCHANGED tail
          /\ \/ pc' = "link" /\ segRoot' = scans[1].Head
             \/ pc' = "scanned"
      BY <1>6 DEF ReturnToSegment, Top
    <2>2. pc' = "link" /\ segRoot' # 0 =>
            \A m \in Ids : m < segRoot' => heap[m].FirstChild < segRoot' /\ heap[m].NextSibling < segRoot'
      BY <2>1 DEF OpenOK, OrderedBelow
    <2>3. tail # 0 => \A m \in Ids : m < tail => heap[m].NextSibling <= tail
      BY <2>1 DEF OpenOK, Scanning
    <2>4. QED
      BY <1>2, <1>3, <1>4, <2>1, <2>2, <2>3 DEF OpenOK, OrderedBelow
  <1>7. CASE BeginSegment
    <2>1. PICK s, b : scans' = <<ScanFrame(s, b, NULL)>>
      BY <1>7 DEF BeginSegment
    <2>2. /\ Len(scans') = 1 /\ scans'[1].Head = 0 /\ scans'[1].Tail = 0
      BY <2>1 DEF ScanFrame
    <2>3. pc = "segment" /\ pc' = "scan" /\ UNCHANGED tail
      BY <1>7 DEF BeginSegment, locals
    <2>4. tail # 0 => \A m \in Ids : m < tail => heap[m].NextSibling <= tail
      BY <2>3 DEF OpenOK, Scanning
    <2>5. QED
      BY <1>2, <1>3, <1>4, <2>2, <2>3, <2>4 DEF OpenOK
  <1>8. CASE SkipEmptySegment \/ LastSiblingReturn \/ EndSegments
    <2>1. scans = <<>> /\ UNCHANGED <<scans, tail>> /\ pc' # "scan" /\ pc' # "link" /\ Scanning
      BY <1>5, <1>8 DEF SkipEmptySegment, LastSiblingReturn, EndSegments, locals, Scanning
    <2>2. tail # 0 => \A m \in Ids : m < tail => heap[m].NextSibling <= tail
      BY <2>1 DEF OpenOK
    <2>3. QED
      BY <1>2, <1>3, <1>4, <2>1, <2>2 DEF OpenOK
  <1>9. CASE LastSiblingStep
    <2>1. /\ scans = <<>> /\ UNCHANGED <<scans, pc>> /\ pc = "last"
          /\ tail' = heap[tail].NextSibling /\ tail' # 0
      BY <1>5, <1>9 DEF LastSiblingStep
    <2>2. tail \in Ids
      BY <1>1, <1>5, <2>1 DEF TypeInv, ControlOK
    <2>3. ASSUME NEW m \in Ids, m < tail' PROVE heap[m].NextSibling <= tail'
      <3>1. tail < tail'
        BY <1>1, <2>1, <2>2 DEF LinksForward
      <3>2. CASE m < tail
        <4>1. heap[m].NextSibling <= tail
          BY <2>1, <2>2, <3>2, <1>5 DEF OpenOK, Scanning
        <4>2. QED
          BY <1>5, <2>1, <2>2, <3>1, <4>1
      <3>3. CASE m = tail
        BY <1>5, <2>1, <2>2, <3>3
      <3>4. CASE m > tail
        <4>1. heap[m].NextSibling < tail'
          BY <1>5, <2>1, <2>2, <2>3, <3>4 DEF Nested
        <4>2. QED
          BY <1>5, <2>1, <2>2, <4>1
      <3>5. QED
        BY <1>5, <3>2, <3>3, <3>4
    <2>4. QED
      BY <1>2, <1>3, <1>4, <2>1, <2>3 DEF OpenOK
  <1>10. QED
    BY <1>6, <1>7, <1>8, <1>9

(* The segment's nodes all come after the list's, to whose last node they are
   hung. *)
LEMMA LinkSegmentOrder ==
  ASSUME ShapeInv, Nested, OpenOK, LinkSegment
  PROVE  Nested' /\ OpenOK'
PROOF
  <1>1. TypeInv /\ ListOK
    BY DEF ShapeInv
  <1>2. /\ Len(heap') = Len(heap) /\ Len(heap) \in Nat
        /\ \A n \in Ids :
             /\ heap'[n].FirstChild = heap[n].FirstChild
             /\ heap'[n].NextSibling = IF n = tail THEN segRoot ELSE heap[n].NextSibling
    BY <1>1, LinkSegmentHeap
  <1>3. /\ tail \in 0 .. Len(heap) /\ segRoot \in 0 .. Len(heap)
        /\ \A n \in Ids : /\ heap[n].FirstChild \in 0 .. Len(heap)
                          /\ heap[n].NextSibling \in 0 .. Len(heap)
        /\ Ids' = Ids /\ Ids = 1 .. Len(heap)
    BY <1>1, <1>2, PointerTypes DEF Ids
  <1>. USE DEF NULL
  <1>4. /\ pc = "link" /\ pc' = "last" /\ tail' = segRoot /\ segRoot # 0 /\ segRoot > tail
        /\ scans' = <<>>
    BY <1>1 DEF LinkSegment, ListOK, TypeInv, TypeOK, StackTypeOK
  <1>5. \A m \in Ids : m < segRoot => heap[m].FirstChild < segRoot /\ heap[m].NextSibling < segRoot
    BY <1>4 DEF OpenOK, OrderedBelow
  <1>6. tail # 0 => /\ \A m \in Ids : m < tail => heap[m].NextSibling <= tail
                    /\ heap[tail].NextSibling = 0
    BY <1>1, <1>4 DEF OpenOK, ListOK, Scanning
  <1>7. Nested'
    <2>1. ASSUME NEW m \in Ids, NEW n \in Ids, m <= n, n < heap'[m].NextSibling
          PROVE  /\ heap'[n].FirstChild < heap'[m].NextSibling
                 /\ m # n => heap'[n].NextSibling < heap'[m].NextSibling
      <3>1. CASE m = tail
        <4>1. heap'[m].NextSibling = segRoot
          BY <1>2, <3>1
        <4>2. heap'[n].FirstChild < segRoot
          BY <1>2, <1>5, <2>1, <4>1
        <4>3. m # n => heap'[n].NextSibling = heap[n].NextSibling
          BY <1>2, <3>1
        <4>4. QED
          BY <1>5, <2>1, <4>1, <4>2, <4>3
      <3>2. CASE m # tail
        <4>1. heap'[m].NextSibling = heap[m].NextSibling
          BY <1>2, <3>2
        <4>2. n # tail
          BY <1>3, <1>6, <2>1, <3>2, <4>1
        <4>3. QED
          BY <1>2, <2>1, <4>1, <4>2 DEF Nested
      <3>3. QED
        BY <3>1, <3>2
    <2>2. QED
      BY <1>3, <2>1 DEF Nested
  <1>8. ASSUME NEW m \in Ids, m < segRoot PROVE heap'[m].NextSibling <= segRoot
    <2>1. heap'[m].NextSibling = segRoot \/ heap'[m].NextSibling = heap[m].NextSibling
      BY <1>2
    <2>2. QED
      BY <1>3, <1>5, <1>8, <2>1
  <1>9. OpenOK'
    BY <1>3, <1>4, <1>8 DEF OpenOK
  <1>10. QED
    BY <1>7, <1>9

LEMMA AfterScanOrder ==
  ASSUME ShapeInv, Nested, OpenOK, Walk \/ Free \/ UNCHANGED vars
  PROVE  Nested' /\ OpenOK'
PROOF
  <1>1. CASE Walk \/ Free
    <2>1. UNCHANGED <<heap, scans>> /\ ~Scanning /\ ~Scanning'
      BY <1>1 DEF Walk, BeginWalk, SkipWalk, Visit, ReturnFromWalk, Free, FreeEnter, Release,
                  ReturnFromFree, Scanning, platform, locals
    <2>2. scans = <<>>
      BY <2>1 DEF ShapeInv, TypeInv, TypeOK, StackTypeOK, Scanning
    <2>3. Nested'
      BY <2>1 DEF Nested, Ids
    <2>4. OpenOK'
      BY <2>1, <2>2 DEF OpenOK, Scanning
    <2>5. QED
      BY <2>3, <2>4
  <1>2. CASE UNCHANGED vars
    BY <1>2 DEF vars, Nested, OpenOK, NothingBeyond, OrderedBelow, Ids, Scanning
  <1>3. QED
    BY <1>1, <1>2

LEMMA NextOrder == OrderInv /\ [Next]_vars => OrderInv'
PROOF
  <1>. SUFFICES ASSUME OrderInv, [Next]_vars PROVE OrderInv'
    OBVIOUS
  <1>1. HolderInv /\ ShapeInv /\ TypeInv /\ Nested /\ OpenOK
    BY DEF OrderInv, HolderInv, ShapeInv
  <1>2. HolderInv'
    BY <1>1, NextHolders
  <1>3. Nested' /\ OpenOK'
    BY <1>1, LoopOrder, AddOrder, ReturnToBridgeOrder, SegmentsOrder, LinkSegmentOrder,
       AfterScanOrder
    DEF Next, Scan
  <1>4. QED
    BY <1>2, <1>3 DEF OrderInv

-----------------------------------------------------------------------------
(* The walk and the release.  Every node but the first of the list is held by
   a node allocated before it. *)
LEMMA HeldFromBefore ==
  ASSUME ShapeInv, SingleHolder, pc \in {"scanned", "walk", "free"}, NEW n \in Ids
  PROVE  \/ root = n
         \/ \E m \in Ids : m < n /\ (heap[m].FirstChild = n \/ heap[m].NextSibling = n)
PROOF
  <1>1. scans = <<>> /\ LinksForward /\ 0 \notin Ids
    BY DEF ShapeInv, TypeInv, TypeOK, StackTypeOK, Ids
  <1>2. Holders(n) # {}
    BY DEF SingleHolder
  <1>3. PICK h : h \in Kinds(ChildLinks(n), SiblingLinks(n), Heads(n), SegRoots(n), Roots(n))
    BY <1>2, HoldersByKind
  <1>4. Heads(n) = {} /\ SegRoots(n) = {}
    BY <1>1 DEF Heads, SegRoots
  <1>5. ChildLinks(n) # {} \/ SiblingLinks(n) # {} \/ Roots(n) # {}
    BY <1>3, <1>4 DEF Kinds
  <1>6. QED
    BY <1>1, <1>5 DEF ChildLinks, SiblingLinks, Roots, LinksForward, NULL

(* What the walk has put off: every node a visited one links to is visited
   too or waits in an activation, the ones called first wait for the later
   nodes, and all that wait come after the last node visited. *)
PendingOK ==
  /\ \A k \in 1 .. Len(walks) : walks[k].Node # NULL => walks[k].Node > Len(report)
  /\ \A j, k \in 1 .. Len(walks) :
       j < k /\ walks[j].Node # NULL => walks[k].Node < walks[j].Node
  /\ \A k \in 1 .. Len(walks) - 1 : walks[k].Node # NULL =>
       \E m \in 1 .. Len(report) : heap[m].NextSibling = walks[k].Node
  /\ \A n \in Ids :
       (root = n \/ \E m \in 1 .. Len(report) : heap[m].FirstChild = n \/ heap[m].NextSibling = n)
         => n <= Len(report) \/ \E k \in 1 .. Len(walks) : walks[k].Node = n

WalkOK ==
  /\ Scanning \/ pc = "scanned" => report = <<>>
  /\ pc = "walk" => PendingOK

WalkInv == OrderInv /\ WalkOK /\ VisitsInOrder

LEMMA InitWalk == Init => WalkInv
PROOF
  <1>. SUFFICES ASSUME Init PROVE WalkInv
    OBVIOUS
  <1>1. WalkOK /\ VisitsInOrder
    BY DEF Init, WalkOK, VisitsInOrder
  <1>2. QED
    BY <1>1, InitOrder DEF WalkInv

(* Node n, where the running of D activations stands, is reported after the
   first r nodes. *)
NodeVisited(D, r, n) ==
  /\ UNCHANGED <<hw, table, heap, root, pc, lost>> /\ pc = "walk"
  /\ D \in Nat \ {0} /\ r \in Nat /\ n \in Ids
  /\ Len(report') = r + 1 /\ report'[r + 1] = [Node |-> n, Depth |-> walks[D].Depth]
  /\ \A i \in 1 .. r : report'[i] = report[i]
  /\ \A k \in 1 .. D - 1 : walks'[k] = walks[k]
  /\ walks'[D] = [Node |-> heap[n].NextSibling, Depth |-> walks[D].Depth]
  /\ walks[D].Depth \in 0 .. DepthModulus - 1
  /\ \/ heap[n].FirstChild = NULL /\ Len(walks') = D
     \/ /\ heap[n].FirstChild # NULL /\ Len(walks') = D + 1
        /\ walks'[D + 1] = [Node  |-> heap[n].FirstChild,
                            Depth |-> (walks[D].Depth + 1) % DepthModulus]

LEMMA VisitEffect ==
  ASSUME TypeInv, Visit
  PROVE  NodeVisited(Len(walks), Len(report), walks[Len(walks)].Node)
PROOF
  <1>. SUFFICES ASSUME NEW D, D = Len(walks), NEW r, r = Len(report), NEW n, n = walks[D].Node
                PROVE  NodeVisited(D, r, n)
    OBVIOUS
  <1>. USE GeometryAssumption
  <1>. DEFINE f    == Top(walks)
              g    == [f EXCEPT !.Node = heap[n].NextSibling]
              call == [Node |-> heap[n].FirstChild, Depth |-> (f.Depth + 1) % DepthModulus]
              s    == SetTop(walks, g)
  <1>1. /\ UNCHANGED <<hw, table, heap, root, pc, lost>> /\ pc = "walk"
        /\ f.Node = n /\ n # NULL /\ f = walks[D]
    BY DEF Visit, Top, platform
  <1>2. walks \in Seq(WalkFrames) /\ walks # <<>>
    BY <1>1 DEF TypeInv, TypeOK, StackTypeOK
  <1>3. f \in WalkFrames /\ D \in Nat \ {0}
    BY <1>2, TopLemma
  <1>4. n \in Ids /\ f.Depth \in 0 .. DepthModulus - 1
    BY <1>1, <1>3 DEF WalkFrames, Ptr, Ids, NULL, TypeInv, TypeOK, HeapTypeOK
  <1>5. heap[n].FirstChild \in Ptr /\ heap[n].NextSibling \in Ptr
    BY <1>4 DEF TypeInv, TypeOK, HeapTypeOK
  <1>6. (f.Depth + 1) % DepthModulus \in 0 .. DepthModulus - 1
    BY <1>4
  <1>7. /\ g \in WalkFrames /\ g = [Node |-> heap[n].NextSibling, Depth |-> f.Depth]
        /\ call \in WalkFrames
    <2>. HIDE DEF f
    <2>1. QED
      BY <1>3, <1>5, <1>6 DEF WalkFrames
  <1>8. /\ report' = Append(report, [Node |-> n, Depth |-> f.Depth])
        /\ walks' = IF heap[n].FirstChild = NULL THEN s ELSE Append(s, call)
    BY <1>1 DEF Visit
  <1>9. /\ r \in Nat /\ Len(report') = r + 1 /\ report'[r + 1] = [Node |-> n, Depth |-> f.Depth]
        /\ \A i \in 1 .. r : report'[i] = report[i]
    <2>. DEFINE e == [Node |-> n, Depth |-> f.Depth]
    <2>1. report \in Seq([Node: Ids, Depth: 0 .. DepthModulus - 1])
      BY DEF TypeInv, TypeOK, StackTypeOK
    <2>2. e \in [Node: Ids, Depth: 0 .. DepthModulus - 1] /\ report' = Append(report, e)
      BY <1>4, <1>8
    <2>3. e = [Node |-> n, Depth |-> f.Depth]
      OBVIOUS
    <2>. HIDE DEF e
    <2>4. /\ r \in Nat /\ Len(report') = r + 1 /\ report'[r + 1] = e
          /\ \A i \in 1 .. r : report'[i] = report[i]
      BY <2>1, <2>2, AppendLemma
    <2>5. QED
      BY <2>3, <2>4, Zenon
  <1>10. /\ s \in Seq(WalkFrames) /\ Len(s) = D /\ s[D] = g
         /\ \A k \in 1 .. D - 1 : s[k] = walks[k]
    <2>. HIDE DEF g
    <2>1. /\ SetTop(walks, g) \in Seq(WalkFrames)
          /\ Len(SetTop(walks, g)) = Len(walks) /\ SetTop(walks, g)[Len(walks)] = g
          /\ \A k \in 1 .. Len(walks) - 1 : SetTop(walks, g)[k] = walks[k]
      <3>. g \in WalkFrames
        BY <1>7
      <3>1. /\ SetTop(walks, g) \in Seq(WalkFrames)
            /\ Len(SetTop(walks, g)) = Len(walks) /\ SetTop(walks, g)[Len(walks)] = g
        BY <1>2, SetTopLemma
      <3>2. ASSUME NEW k \in 1 .. Len(walks) - 1 PROVE SetTop(walks, g)[k] = walks[k]
        BY <1>2, DOMAIN walks = 1 .. Len(walks), Len(walks) \in Nat DEF SetTop
      <3>3. QED
        BY <3>1, <3>2
    <2>2. QED
      BY <2>1
  <1>. HIDE DEF s, g, call, f
  <1>11. CASE heap[n].FirstChild = NULL
    BY <1>1, <1>3, <1>4, <1>7, <1>8, <1>9, <1>10, <1>11 DEF NodeVisited
  <1>12. CASE heap[n].FirstChild # NULL
    <2>1. /\ Len(Append(s, call)) = D + 1 /\ Append(s, call)[D + 1] = call
          /\ \A k \in 1 .. D : Append(s, call)[k] = s[k]
      BY <1>7, <1>10, AppendLemma
    <2>2. call = [Node |-> heap[n].FirstChild, Depth |-> (walks[D].Depth + 1) % DepthModulus]
      BY <1>1, Zenon DEF call
    <2>3. walks' = Append(s, call)
      BY <1>8, <1>12
    <2>4. \A k \in 1 .. D - 1 : k \in 1 .. D
      BY <1>3
    <2>5. D \in 1 .. D
      BY <1>3
    <2>6. QED
      BY <1>1, <1>3, <1>4, <1>7, <1>9, <1>10, <1>12, <2>1, <2>2, <2>3, <2>4, <2>5 DEF NodeVisited
  <1>13. QED
    BY <1>11, <1>12

(* The next node visited is the one allocated next. *)
LEMMA VisitIsNext ==
  ASSUME OrderInv, PendingOK, pc = "walk", NEW D, D = Len(walks), D \in Nat \ {0},
         NEW r, r = Len(report), r \in Nat, r < Len(heap)
  PROVE  \/ walks[D].Node # NULL /\ walks[D].Node <= r + 1
         \/ \E k \in 1 .. D - 1 : walks[k].Node = r + 1
PROOF
  <1>1. ShapeInv /\ SingleHolder /\ TypeInv
    BY DEF OrderInv, HolderInv, ShapeInv
  <1>2. Len(heap) \in Nat /\ r + 1 \in Ids
    BY <1>1, PointerTypes DEF Ids
  <1>3. \/ root = r + 1
        \/ \E m \in Ids : m < r + 1 /\ (heap[m].FirstChild = r + 1 \/ heap[m].NextSibling = r + 1)
    BY <1>1, <1>2, HeldFromBefore
  <1>4. \A m \in Ids : m < r + 1 => m \in 1 .. r
    BY DEF Ids
  <1>5. PICK k \in 1 .. D : walks[k].Node = r + 1
    BY <1>2, <1>3, <1>4 DEF PendingOK
  <1>6. k = D \/ k \in 1 .. D - 1
    OBVIOUS
  <1>7. QED
    BY <1>5, <1>6 DEF NULL

LEMMA VisitInOrder ==
  ASSUME WalkInv, Visit
  PROVE  PendingOK' /\ VisitsInOrder'
PROOF
  <1>. DEFINE D == Len(walks)
              r == Len(report)
              n == walks[D].Node
              c == heap[n].FirstChild
              s == heap[n].NextSibling
  <1>1. OrderInv /\ ShapeInv /\ TypeInv /\ LinksForward /\ Nested /\ VisitsInOrder
    BY DEF WalkInv, OrderInv, HolderInv, ShapeInv
  <1>2. /\ UNCHANGED <<heap, root, pc>> /\ pc = "walk"
        /\ D \in Nat \ {0} /\ r \in Nat /\ n \in Ids
        /\ Len(report') = r + 1 /\ report'[r + 1].Node = n
        /\ \A i \in 1 .. r : report'[i] = report[i]
        /\ \A k \in 1 .. D - 1 : walks'[k] = walks[k]
        /\ walks'[D].Node = s
        /\ \/ c = NULL /\ Len(walks') = D
           \/ c # NULL /\ Len(walks') = D + 1 /\ walks'[D + 1].Node = c
    <2>1. NodeVisited(D, r, n)
      BY <1>1, VisitEffect, Zenon
    <2>. HIDE DEF D, r, n
    <2>2. QED
      BY <2>1 DEF NodeVisited
  <1>3. PendingOK
    BY <1>2 DEF WalkInv, WalkOK
  <1>4. /\ Len(heap) \in Nat /\ Ids = 1 .. Len(heap)
        /\ c \in 0 .. Len(heap) /\ s \in 0 .. Len(heap)
    BY <1>1, <1>2, PointerTypes DEF Ids
  <1>5. ASSUME NEW k \in 1 .. D PROVE walks[k].Node \in 0 .. Len(heap)
    <2>1. walks \in Seq(WalkFrames)
      BY <1>1 DEF TypeInv, TypeOK, StackTypeOK
    <2>2. walks[k] \in WalkFrames
      BY <1>5, <2>1
    <2>3. QED
      BY <2>2 DEF WalkFrames, Ptr
  <1>. HIDE DEF D, r, n, c, s
  <1>. USE DEF NULL
  <1>6. /\ Len(walks) = D /\ Len(report) = r /\ walks[D].Node = n
        /\ heap[n].FirstChild = c /\ heap[n].NextSibling = s
        /\ D \in 1 .. D /\ \A k \in 1 .. D - 1 : k \in 1 .. D /\ k < D
    BY <1>2 DEF D, r, n, c, s
  <1>7. n = r + 1
    <2>1. n > r
      BY <1>2, <1>4, <1>6, <1>3 DEF PendingOK
    <2>2. (n # 0 /\ n <= r + 1) \/ \E k \in 1 .. D - 1 : walks[k].Node = r + 1
      BY <1>1, <1>2, <1>3, <1>4, <1>6, <2>1, VisitIsNext
    <2>3. ASSUME NEW k \in 1 .. D - 1, walks[k].Node = r + 1 PROVE n < r + 1
      BY <1>2, <1>3, <1>6, <2>3 DEF PendingOK
    <2>4. QED
      BY <1>2, <1>4, <2>1, <2>2, <2>3
  <1>8. (c # 0 => c > n) /\ (s # 0 => s > n) /\ (c # 0 /\ s # 0 => c < s)
    <2>1. (c # 0 => c > n) /\ (s # 0 => s > n)
      BY <1>1, <1>2, <1>6 DEF LinksForward
    <2>2. s # 0 => c < s
      BY <1>1, <1>2, <1>4, <1>6, <2>1 DEF Nested
    <2>3. QED
      BY <2>1, <2>2
  <1>9. ASSUME NEW j \in 1 .. D - 1, walks[j].Node # 0
        PROVE  n < walks[j].Node /\ s < walks[j].Node /\ c < walks[j].Node
    <2>1. n < walks[j].Node
      BY <1>3, <1>6, <1>9 DEF PendingOK
    <2>2. PICK m \in 1 .. r : heap[m].NextSibling = walks[j].Node
      BY <1>3, <1>6, <1>9 DEF PendingOK
    <2>3. m \in Ids /\ m < n
      BY <1>2, <1>4, <1>7, <2>2
    <2>4. QED
      BY <1>1, <1>2, <1>4, <1>6, <2>1, <2>2, <2>3 DEF Nested
  <1>10. ASSUME NEW k \in 1 .. Len(walks')
         PROVE  \/ k \in 1 .. D - 1 /\ walks'[k].Node = walks[k].Node
                \/ k = D /\ walks'[k].Node = s
                \/ k = D + 1 /\ walks'[k].Node = c /\ c # 0 /\ Len(walks') = D + 1
    <2>1. k \in 1 .. D - 1 \/ k = D \/ (k = D + 1 /\ Len(walks') = D + 1)
      BY <1>2
    <2>2. QED
      BY <1>2, <2>1
  <1>11. ASSUME NEW k \in 1 .. Len(walks'), walks'[k].Node # 0 PROVE walks'[k].Node > r + 1
    BY <1>7, <1>8, <1>9, <1>10, <1>11
  <1>12. ASSUME NEW j \in 1 .. Len(walks'), NEW k \in 1 .. Len(walks'), j < k, walks'[j].Node # 0
         PROVE  walks'[k].Node < walks'[j].Node
    <2>1. CASE k \in 1 .. D - 1
      <3>1. j \in 1 .. D - 1 /\ j \in 1 .. D /\ k \in 1 .. D
        BY <1>2, <1>12, <2>1
      <3>2. walks'[j] = walks[j] /\ walks'[k] = walks[k]
        BY <1>2, <2>1, <3>1
      <3>3. QED
        BY <1>3, <1>6, <1>12, <3>1, <3>2 DEF PendingOK
    <2>2. CASE k = D /\ walks'[k].Node = s
      <3>1. j \in 1 .. D - 1
        BY <1>2, <1>12, <2>2
      <3>2. QED
        BY <1>2, <1>9, <1>12, <2>2, <3>1
    <2>3. CASE k = D + 1 /\ walks'[k].Node = c /\ c # 0
      <3>1. j \in 1 .. D - 1 \/ j = D
        BY <1>2, <1>12, <2>3
      <3>2. CASE j \in 1 .. D - 1
        BY <1>2, <1>9, <1>12, <2>3, <3>2
      <3>3. CASE j = D
        BY <1>2, <1>8, <1>12, <2>3, <3>3
      <3>4. QED
        BY <3>1, <3>2, <3>3
    <2>4. QED
      BY <1>10, <2>1, <2>2, <2>3
  <1>13. ASSUME NEW k \in 1 .. Len(walks') - 1, walks'[k].Node # 0
         PROVE  \E m \in 1 .. r + 1 : heap[m].NextSibling = walks'[k].Node
    <2>1. k \in 1 .. D - 1 \/ k = D
      BY <1>2
    <2>2. CASE k \in 1 .. D - 1
      <3>1. PICK m \in 1 .. r : heap[m].NextSibling = walks[k].Node
        BY <1>2, <1>3, <1>6, <1>13, <2>2 DEF PendingOK
      <3>2. m \in 1 .. r + 1
        BY <1>2
      <3>3. QED
        BY <1>2, <2>2, <3>1, <3>2
    <2>3. CASE k = D
      BY <1>2, <1>6, <1>7, <2>3
    <2>4. QED
      BY <2>1, <2>2, <2>3
  <1>14. ASSUME NEW x \in Ids,
                root = x \/ \E m \in 1 .. r + 1 : heap[m].FirstChild = x \/ heap[m].NextSibling = x
         PROVE  x <= r + 1 \/ \E k \in 1 .. Len(walks') : walks'[k].Node = x
    <2>1. CASE root = x \/ \E m \in 1 .. r : heap[m].FirstChild = x \/ heap[m].NextSibling = x
      <3>1. x <= r \/ \E k \in 1 .. D : walks[k].Node = x
        BY <1>3, <1>6, <2>1 DEF PendingOK
      <3>2. ASSUME NEW k \in 1 .. D, walks[k].Node = x
            PROVE  x <= r + 1 \/ walks'[k].Node = x
        <4>1. k \in 1 .. D - 1 \/ k = D
          BY <1>2
        <4>2. QED
          BY <1>2, <1>6, <1>7, <3>2, <4>1
      <3>3. 1 .. D \subseteq 1 .. Len(walks')
        BY <1>2
      <3>4. QED
        BY <1>2, <1>4, <3>1, <3>2, <3>3
    <2>2. CASE heap[n].FirstChild = x \/ heap[n].NextSibling = x
      <3>1. x # 0 /\ D \in 1 .. Len(walks')
        BY <1>2, <1>4
      <3>2. c = x => D + 1 \in 1 .. Len(walks') /\ walks'[D + 1].Node = x
        BY <1>2, <3>1
      <3>3. QED
        BY <1>2, <1>6, <2>2, <3>1, <3>2
    <2>3. \A m \in 1 .. r + 1 : m \in 1 .. r \/ m = n
      BY <1>2, <1>7
    <2>4. QED
      BY <1>14, <2>1, <2>2, <2>3
  <1>15. Ids' = Ids
    BY <1>2 DEF Ids
  <1>16. PendingOK'
    BY <1>2, <1>11, <1>12, <1>13, <1>14, <1>15 DEF PendingOK
  <1>17. \A i \in 1 .. r + 1 : report'[i].Node = i
    <2>1. DOMAIN report = 1 .. r
      BY <1>1, <1>6 DEF TypeInv, TypeOK, StackTypeOK
    <2>2. \A i \in 1 .. r + 1 : i \in 1 .. r \/ i = r + 1
      BY <1>2
    <2>3. QED
      BY <1>1, <1>2, <1>7, <2>1, <2>2 DEF VisitsInOrder
  <1>18. VisitsInOrder'
    <2>1. TypeInv'
      BY <1>1, NextType DEF Next, Walk
    <2>2. DOMAIN report' = 1 .. r + 1
      BY <1>2, <2>1 DEF TypeInv, TypeOK, StackTypeOK
    <2>3. QED
      BY <1>2, <1>17, <2>2 DEF VisitsInOrder
  <1>19. QED
    BY <1>16, <1>18

(* The walk returns when it has visited all. *)
LEMMA WalkReturns ==
  ASSUME WalkInv, ReturnFromWalk, pc' = "free"
  PROVE  Len(report) = Len(heap)
PROOF
  <1>. DEFINE D == Len(walks)
              r == Len(report)
  <1>1. OrderInv /\ ShapeInv /\ TypeInv /\ WalkOK /\ VisitsInOrder
    BY DEF WalkInv, OrderInv, HolderInv, ShapeInv
  <1>2. /\ Len(heap) \in Nat /\ Ids = 1 .. Len(heap)
        /\ walks \in Seq(WalkFrames)
        /\ report \in Seq([Node: Ids, Depth: 0 .. DepthModulus - 1])
    BY <1>1, PointerTypes DEF TypeInv, TypeOK, StackTypeOK, Ids
  <1>3. /\ pc = "walk" /\ walks # <<>> /\ walks[D].Node = NULL /\ ~(D > 1)
    BY <1>1 DEF ReturnFromWalk, TypeInv, TypeOK, StackTypeOK, Top
  <1>4. D \in Nat \ {0} /\ r \in Nat
    BY <1>2, <1>3, TopLemma
  <1>5. PendingOK
    BY <1>1, <1>3 DEF WalkOK
  <1>. HIDE DEF D, r
  <1>6. D = Len(walks) /\ r = Len(report) /\ D = 1
    <2>1. \A d \in Nat \ {0} : ~(d > 1) => d = 1
      OBVIOUS
    <2>2. QED
      BY <1>3, <1>4, <2>1, Zenon DEF D, r
  <1>7. ~(r < Len(heap))
    BY <1>1, <1>3, <1>4, <1>5, <1>6, VisitIsNext
  <1>8. r <= Len(heap)
    <2>1. CASE r = 0
      BY <1>2, <2>1
    <2>2. CASE r # 0
      <3>1. DOMAIN report = 1 .. r /\ r \in 1 .. r
        BY <1>2, <1>4, <1>6, <2>2
      <3>2. report[r] \in [Node: Ids, Depth: 0 .. DepthModulus - 1]
        BY <1>2, <1>6, <3>1, ElementOfSeq
      <3>3. report[r].Node = r /\ report[r].Node \in Ids
        BY <1>1, <3>1, <3>2 DEF VisitsInOrder
      <3>4. QED
        BY <1>2, <3>3
    <2>3. QED
      BY <2>1, <2>2
  <1>9. QED
    BY <1>2, <1>4, <1>6, <1>7, <1>8

LEMMA WalkSteps ==
  ASSUME WalkInv, BeginWalk \/ SkipWalk \/ Visit \/ ReturnFromWalk
  PROVE  WalkOK' /\ VisitsInOrder'
PROOF
  <1>1. OrderInv /\ ShapeInv /\ TypeInv /\ WalkOK /\ VisitsInOrder
    BY DEF WalkInv, OrderInv, HolderInv, ShapeInv
  <1>2. /\ Len(heap) \in Nat /\ Ids = 1 .. Len(heap) /\ root \in 0 .. Len(heap)
        /\ walks \in Seq(WalkFrames)
        /\ report \in Seq([Node: Ids, Depth: 0 .. DepthModulus - 1])
    BY <1>1, PointerTypes DEF TypeInv, TypeOK, StackTypeOK, Ids
  <1>. USE DEF NULL
  <1>3. CASE BeginWalk
    <2>1. /\ UNCHANGED <<heap, root, report>> /\ pc' = "walk" /\ report = <<>>
          /\ walks' = <<[Node |-> root, Depth |-> 0]>>
      BY <1>1, <1>3 DEF BeginWalk, WalkOK
    <2>2. Len(walks') = 1 /\ walks'[1].Node = root /\ Len(report) = 0 /\ Ids' = Ids
      BY <2>1 DEF Ids
    <2>3. PendingOK'
      BY <1>2, <2>1, <2>2 DEF PendingOK
    <2>4. QED
      BY <2>1, <2>3 DEF WalkOK, VisitsInOrder, Scanning
  <1>4. CASE SkipWalk
    BY <1>1, <1>4 DEF SkipWalk, WalkOK, VisitsInOrder, Scanning
  <1>5. CASE Visit
    <2>1. pc' = "walk"
      BY <1>5 DEF Visit
    <2>2. QED
      BY <1>5, <2>1, VisitInOrder DEF WalkOK, Scanning
  <1>6. CASE ReturnFromWalk
    <2>. DEFINE D == Len(walks)
                r == Len(report)
    <2>1. /\ UNCHANGED <<heap, root, report>> /\ pc = "walk" /\ walks' = Below(walks)
          /\ walks # <<>>
          /\ IF D > 1 THEN UNCHANGED pc ELSE pc' = "free"
      BY <1>1, <1>6 DEF ReturnFromWalk, TypeInv, TypeOK, StackTypeOK
    <2>2. walks[D].Node = 0
      BY <1>6 DEF ReturnFromWalk, Top
    <2>3. D \in Nat \ {0} /\ r \in Nat /\ Ids' = Ids
      BY <1>2, <2>1, TopLemma DEF Ids
    <2>4. Len(walks') = D - 1 /\ \A k \in 1 .. D - 1 : walks'[k] = walks[k]
      BY <1>2, <2>1, BelowLemma
    <2>5. PendingOK
      BY <1>1, <2>1 DEF WalkOK
    <2>6. \A k \in 1 .. D - 1 : k \in 1 .. D
      BY <2>3
    <2>. HIDE DEF D, r
    <2>7. Len(walks) = D /\ Len(report) = r
      BY DEF D, r
    <2>8. CASE D > 1
      <3>1. ASSUME NEW k \in 1 .. D - 1 PROVE walks[k].Node # 0 => walks[k].Node > r
        BY <2>5, <2>6, <2>7 DEF PendingOK
      <3>2. ASSUME NEW j \in 1 .. D - 1, NEW k \in 1 .. D - 1, j < k, walks[j].Node # 0
            PROVE  walks[k].Node < walks[j].Node
        BY <2>5, <2>6, <2>7, <3>2 DEF PendingOK
      <3>3. ASSUME NEW k \in 1 .. D - 1 - 1, walks[k].Node # 0
            PROVE  \E m \in 1 .. r : heap[m].NextSibling = walks[k].Node
        <4>1. k \in 1 .. D - 1
          BY <2>3
        <4>2. QED
          BY <2>5, <2>7, <3>3, <4>1 DEF PendingOK
      <3>4. ASSUME NEW n \in Ids,
                   root = n \/ \E m \in 1 .. r : heap[m].FirstChild = n \/ heap[m].NextSibling = n
            PROVE  n <= r \/ \E k \in 1 .. D - 1 : walks[k].Node = n
        <4>1. n <= r \/ \E k \in 1 .. D : walks[k].Node = n
          BY <2>5, <2>7, <3>4 DEF PendingOK
        <4>2. n # 0 /\ \A k \in 1 .. D : k \in 1 .. D - 1 \/ k = D
          BY <1>2, <2>3
        <4>3. QED
          BY <2>2, <4>1, <4>2
      <3>5. \A k \in 1 .. D - 1 - 1 : k \in 1 .. D - 1
        BY <2>3
      <3>6. PendingOK'
        BY <2>1, <2>3, <2>4, <2>7, <3>1, <3>2, <3>3, <3>4, <3>5 DEF PendingOK
      <3>7. QED
        BY <1>1, <2>1, <2>8, <3>6 DEF WalkOK, VisitsInOrder, Scanning
    <2>9. CASE ~(D > 1)
      <3>1. pc' = "free"
        BY <2>1, <2>9
      <3>2. Len(report) = Len(heap)
        BY <1>6, <3>1, WalkReturns
      <3>3. QED
        BY <1>1, <2>1, <3>1, <3>2 DEF WalkOK, VisitsInOrder, Scanning
    <2>10. QED
      BY <2>8, <2>9
  <1>7. QED
    BY <1>3, <1>4, <1>5, <1>6

LEMMA NextWalk == WalkInv /\ [Next]_vars => WalkInv'
PROOF
  <1>. SUFFICES ASSUME WalkInv, [Next]_vars PROVE WalkInv'
    OBVIOUS
  <1>1. OrderInv'
    BY NextOrder DEF WalkInv
  <1>2. CASE Scan
    <2>1. /\ UNCHANGED report /\ Scanning
          /\ Scanning' \/ pc' = "scanned"
      BY <1>2 DEF Scan, BeginSegment, SkipAbsent, NoMemory, AddNode, NextDevice, ReturnToBridge,
         ReturnToSegment, SkipEmptySegment, LinkSegment, LastSiblingStep, LastSiblingReturn,
         EndSegments, InFunctionLoop, Scanning
    <2>2. report = <<>> /\ pc' \notin {"walk", "free", "done"}
      BY <2>1 DEF WalkInv, WalkOK, Scanning
    <2>3. QED
      BY <1>1, <2>1, <2>2 DEF WalkInv, WalkOK, VisitsInOrder
  <1>3. CASE Walk
    BY <1>1, <1>3, WalkSteps DEF Walk, WalkInv
  <1>4. CASE Free
    <2>1. /\ UNCHANGED <<report, heap>> /\ pc = "free" /\ pc' \in {"free", "done"}
      BY <1>4 DEF Free, FreeEnter, Release, ReturnFromFree
    <2>2. QED
      BY <1>1, <2>1 DEF WalkInv, WalkOK, VisitsInOrder, Scanning
  <1>5. CASE UNCHANGED vars
    BY <1>1, <1>5 DEF WalkInv, WalkOK, VisitsInOrder, PendingOK, Scanning, Ids, vars
  <1>6. QED
    BY <1>2, <1>3, <1>4, <1>5 DEF Next

(* On every machine the walk reports the nodes in the order in which the scan
   allocated them, each once, and returns only when it has reported them
   all. *)
THEOREM VisitsInOrderCorrect == Spec => []VisitsInOrder
PROOF
  <1>1. WalkInv => VisitsInOrder
    BY DEF WalkInv
  <1>2. QED
    BY InitWalk, NextWalk, <1>1, PTL DEF Spec

-----------------------------------------------------------------------------
(* The release.  No node has two pointers to it. *)
LEMMA OneHolder ==
  ASSUME SingleHolder, pc # "done", NEW n \in Ids, NEW l \in Ids, NEW m \in Ids
  PROVE  /\ heap[l].FirstChild = n /\ heap[m].FirstChild = n => l = m
         /\ heap[l].NextSibling = n /\ heap[m].NextSibling = n => l = m
         /\ ~(heap[l].FirstChild = n /\ heap[m].NextSibling = n)
         /\ ~(root = n /\ heap[m].FirstChild = n)
         /\ ~(root = n /\ heap[m].NextSibling = n)
PROOF
  <1>1. PICK h \in Holders(n) : Holders(n) = {h}
    BY DEF SingleHolder
  <1>2. /\ \A x \in Ids : heap[x].FirstChild = n => <<"FirstChild", x>> = h
        /\ \A x \in Ids : heap[x].NextSibling = n => <<"NextSibling", x>> = h
        /\ root = n => <<"Root", 0>> = h
    BY <1>1 DEF Holders
  <1>3. QED
    BY <1>2

(* The activations of FreeSubtree: those below the running one have entered
   their node and are freeing its children; each one came to its node from
   the list, from its parent or from a sibling already freed. *)
ActivationsOK ==
  \A k \in 1 .. Len(frees) :
    /\ k < Len(frees) => frees[k].entered
    /\ frees[k].entered =>
         /\ frees[k].Node # NULL
         /\ frees[k].NextSib = heap[frees[k].Node].NextSibling
         /\ heap[frees[k].Node].FirstChild # NULL =>
              \/ heap[frees[k].Node].FirstChild \in freed
              \/ k < Len(frees) /\ frees[k + 1].Node = heap[frees[k].Node].FirstChild
    /\ ~frees[k].entered => frees[k].NextSib = frees[k].Node \/ frees[k].NextSib = NULL
    /\ frees[k].Node # NULL =>
         \/ root = frees[k].Node
         \/ k > 1 /\ heap[frees[k - 1].Node].FirstChild = frees[k].Node
         \/ \E m \in freed : heap[m].NextSibling = frees[k].Node

(* What is freed: a node after all below it, and the nodes of a chain from
   the front, so that what comes next is freed or in an activation. *)
FreedOK ==
  /\ \A n \in Ids : root = n \/ (\E m \in freed : heap[m].NextSibling = n) =>
       n \in freed \/ \E k \in 1 .. Len(frees) : frees[k].Node = n
  /\ \A m \in freed : heap[m].FirstChild # NULL => heap[m].FirstChild \in freed
  /\ \A m \in Ids \ freed :
       /\ heap[m].NextSibling \notin freed
       /\ heap[m].FirstChild \in freed =>
            \E k \in 1 .. Len(frees) : frees[k].entered /\ frees[k].Node = m

(* The nodes in the activations are not freed, and come after those of the
   activations below. *)
DistinctOK ==
  /\ \A k \in 1 .. Len(frees) : frees[k].Node \notin freed /\ frees[k].NextSib \notin freed
  /\ \A j, k \in 1 .. Len(frees) :
       j < k /\ frees[k].Node # NULL => frees[j].Node < frees[k].Node

ReleaseOK == ActivationsOK /\ FreedOK /\ DistinctOK

FreeOK ==
  /\ pc \notin {"free", "done"} => freed = {}
  /\ pc = "free" => ReleaseOK
  /\ NothingLeaked

FreeInv == HolderInv /\ FreeOK

LEMMA InitFree == Init => FreeInv
PROOF
  <1>. SUFFICES ASSUME Init PROVE FreeInv
    OBVIOUS
  <1>1. FreeOK
    BY DEF Init, FreeOK, NothingLeaked
  <1>2. QED
    BY <1>1, InitHolders DEF FreeInv

(* The release starts at the root with nothing freed. *)
LEMMA BeginRelease ==
  ASSUME TypeInv, freed = {}, UNCHANGED <<heap, root, freed>>, frees' = <<FreeFrame(root)>>
  PROVE  ReleaseOK'
PROOF
  <1>1. /\ Len(frees') = 1 /\ frees'[1].Node = root /\ frees'[1].NextSib = NULL
        /\ frees'[1].entered = FALSE
    BY DEF FreeFrame
  <1>2. Ids' = Ids
    BY DEF Ids
  <1>3. ActivationsOK' /\ FreedOK' /\ DistinctOK'
    BY <1>1, <1>2 DEF ActivationsOK, FreedOK, DistinctOK, NULL
  <1>4. QED
    BY <1>3 DEF ReleaseOK

LEMMA ActivationTypes ==
  ASSUME TypeInv, pc = "free", NEW D, D = Len(frees)
  PROVE  /\ frees \in Seq(FreeFrames) /\ frees # <<>> /\ D \in Nat \ {0}
         /\ Len(heap) \in Nat /\ Ids = 1 .. Len(heap) /\ freed \subseteq Ids
         /\ \A k \in 1 .. D : /\ frees[k] \in FreeFrames
                              /\ frees[k].Node \in 0 .. Len(heap)
                              /\ frees[k].NextSib \in 0 .. Len(heap)
                              /\ frees[k].entered \in BOOLEAN
         /\ \A n \in Ids : heap[n].FirstChild \in 0 .. Len(heap) /\ heap[n].NextSibling \in 0 .. Len(heap)
PROOF
  <1>1. frees \in Seq(FreeFrames) /\ frees # <<>>
    BY DEF TypeInv, TypeOK, StackTypeOK
  <1>2. D \in Nat \ {0}
    BY <1>1, TopLemma
  <1>3. Len(heap) \in Nat /\ Ids = 1 .. Len(heap) /\ Ptr = 0 .. Len(heap) /\ freed \subseteq Ids
    BY DEF TypeInv, TypeOK, HeapTypeOK, Ids, Ptr
  <1>4. \A n \in Ids : heap[n].FirstChild \in 0 .. Len(heap) /\ heap[n].NextSibling \in 0 .. Len(heap)
    BY <1>3, PointerTypes
  <1>5. ASSUME NEW k \in 1 .. D
        PROVE  /\ frees[k] \in FreeFrames
               /\ frees[k].Node \in 0 .. Len(heap) /\ frees[k].NextSib \in 0 .. Len(heap)
               /\ frees[k].entered \in BOOLEAN
    <2>1. frees[k] \in FreeFrames
      BY <1>1, <1>5, ElementOfSeq
    <2>2. QED
      BY <1>3, <2>1 DEF FreeFrames
  <1>6. QED
    BY <1>1, <1>2, <1>3, <1>4, <1>5

LEMMA FreeEnterEffect ==
  ASSUME TypeInv, FreeEnter, NEW D, D = Len(frees), NEW x, x = frees[D].Node
  PROVE  /\ UNCHANGED <<heap, root, freed, pc>> /\ pc = "free" /\ x # NULL /\ ~frees[D].entered
         /\ \A k \in 1 .. D - 1 : frees'[k] = frees[k]
         /\ frees'[D].Node = x /\ frees'[D].NextSib = heap[x].NextSibling /\ frees'[D].entered
         /\ \/ heap[x].FirstChild = NULL /\ Len(frees') = D
            \/ /\ heap[x].FirstChild # NULL /\ Len(frees') = D + 1
               /\ frees'[D + 1].Node = heap[x].FirstChild
               /\ frees'[D + 1].NextSib = NULL /\ ~frees'[D + 1].entered
PROOF
  <1>. DEFINE f    == Top(frees)
              g    == [f EXCEPT !.NextSib = heap[x].NextSibling, !.entered = TRUE]
              call == FreeFrame(heap[x].FirstChild)
              s    == SetTop(frees, g)
  <1>1. UNCHANGED <<heap, root, freed, pc>> /\ pc = "free" /\ f.Node = x /\ x # NULL /\ ~f.entered
    BY DEF FreeEnter, Top, platform, locals
  <1>2. /\ frees \in Seq(FreeFrames) /\ frees # <<>> /\ D \in Nat \ {0}
        /\ f \in FreeFrames /\ f = frees[D]
    BY <1>1, ActivationTypes, TopLemma DEF Top
  <1>3. x \in Ids /\ heap[x].FirstChild \in Ptr /\ heap[x].NextSibling \in Ptr /\ 0 \in Ptr
    <2>1. x \in Ptr
      BY <1>1, <1>2 DEF FreeFrames
    <2>2. Len(heap) \in Nat
      BY <1>1, ActivationTypes
    <2>3. x \in Ids /\ 0 \in Ptr
      BY <1>1, <2>1, <2>2 DEF Ptr, Ids, NULL
    <2>4. QED
      BY <2>3 DEF TypeInv, TypeOK, HeapTypeOK
  <1>4. /\ g \in FreeFrames /\ g.Node = x /\ g.NextSib = heap[x].NextSibling /\ g.entered
    <2>. HIDE DEF f
    <2>1. QED
      BY <1>1, <1>2, <1>3 DEF FreeFrames
  <1>5. /\ call \in FreeFrames /\ call.Node = heap[x].FirstChild /\ call.NextSib = NULL
        /\ ~call.entered
    BY <1>3 DEF FreeFrame, FreeFrames, NULL
  <1>6. frees' = IF heap[x].FirstChild = NULL THEN s ELSE Append(s, call)
    BY <1>1 DEF FreeEnter
  <1>. HIDE DEF g, call, f
  <1>7. /\ s \in Seq(FreeFrames) /\ Len(s) = D /\ s[D] = g
        /\ \A k \in 1 .. D - 1 : s[k] = frees[k]
    <2>. g \in FreeFrames
      BY <1>4
    <2>1. /\ SetTop(frees, g) \in Seq(FreeFrames)
          /\ Len(SetTop(frees, g)) = Len(frees) /\ SetTop(frees, g)[Len(frees)] = g
      BY <1>2, SetTopLemma
    <2>2. ASSUME NEW k \in 1 .. Len(frees) - 1 PROVE SetTop(frees, g)[k] = frees[k]
      BY <1>2, DOMAIN frees = 1 .. Len(frees), Len(frees) \in Nat DEF SetTop
    <2>3. QED
      BY <2>1, <2>2
  <1>. HIDE DEF s
  <1>8. CASE heap[x].FirstChild = NULL
    BY <1>1, <1>2, <1>4, <1>6, <1>7, <1>8
  <1>9. CASE heap[x].FirstChild # NULL
    <2>1. /\ Len(Append(s, call)) = D + 1 /\ Append(s, call)[D + 1] = call
          /\ \A k \in 1 .. D : Append(s, call)[k] = s[k]
      BY <1>5, <1>7, AppendLemma
    <2>2. frees' = Append(s, call)
      BY <1>6, <1>9
    <2>3. D \in 1 .. D /\ \A k \in 1 .. D - 1 : k \in 1 .. D
      BY <1>2
    <2>4. QED
      BY <1>1, <1>2, <1>4, <1>5, <1>7, <1>9, <2>1, <2>2, <2>3
  <1>10. QED
    BY <1>8, <1>9

LEMMA ReleaseEffect ==
  ASSUME TypeInv, Release, NEW D, D = Len(frees), NEW x, x = frees[D].Node
  PROVE  /\ UNCHANGED <<heap, root, pc>> /\ pc = "free" /\ x # NULL /\ frees[D].entered
         /\ freed' = freed \cup {x}
         /\ Len(frees') = D /\ \A k \in 1 .. D - 1 : frees'[k] = frees[k]
         /\ frees'[D].Node = frees[D].NextSib /\ frees'[D].NextSib = frees[D].NextSib
         /\ ~frees'[D].entered
PROOF
  <1>. DEFINE f == Top(frees)
              g == [f EXCEPT !.Node = f.NextSib, !.entered = FALSE]
  <1>1. /\ UNCHANGED <<heap, root, pc>> /\ pc = "free" /\ f.Node = x /\ x # NULL /\ f.entered
        /\ freed' = freed \cup {x} /\ frees' = SetTop(frees, g)
    BY DEF Release, Top, platform, locals
  <1>2. /\ frees \in Seq(FreeFrames) /\ frees # <<>> /\ D \in Nat \ {0}
        /\ f \in FreeFrames /\ f = frees[D]
    BY <1>1, ActivationTypes, TopLemma DEF Top
  <1>3. g \in FreeFrames /\ g.Node = f.NextSib /\ g.NextSib = f.NextSib /\ ~g.entered
    <2>. HIDE DEF f
    <2>1. QED
      BY <1>2 DEF FreeFrames
  <1>. HIDE DEF g, f
  <1>4. /\ Len(SetTop(frees, g)) = D /\ SetTop(frees, g)[D] = g
        /\ \A k \in 1 .. D - 1 : SetTop(frees, g)[k] = frees[k]
    <2>. g \in FreeFrames
      BY <1>3
    <2>1. /\ Len(SetTop(frees, g)) = Len(frees) /\ SetTop(frees, g)[Len(frees)] = g
      BY <1>2, SetTopLemma
    <2>2. ASSUME NEW k \in 1 .. Len(frees) - 1 PROVE SetTop(frees, g)[k] = frees[k]
      BY <1>2, DOMAIN frees = 1 .. Len(frees), Len(frees) \in Nat DEF SetTop
    <2>3. QED
      BY <2>1, <2>2
  <1>5. QED
    BY <1>1, <1>2, <1>3, <1>4

(* What the activations say of the nodes they hold. *)
LEMMA HeldByActivations ==
  ASSUME FreeInv, pc = "free", NEW D, D = Len(frees)
  PROVE  /\ ReleaseOK /\ LinksForward /\ 0 \notin freed
         /\ \A k \in 1 .. D - 1 :
              /\ frees[k].entered /\ frees[k].Node \in Ids
              /\ frees[k].NextSib = heap[frees[k].Node].NextSibling
              /\ frees[D].Node # NULL => frees[k].Node < frees[D].Node
PROOF
  <1>1. TypeInv /\ LinksForward /\ ReleaseOK
    BY DEF FreeInv, HolderInv, ShapeInv, FreeOK
  <1>2. /\ D \in Nat \ {0} /\ Len(heap) \in Nat /\ Ids = 1 .. Len(heap) /\ freed \subseteq Ids
        /\ \A k \in 1 .. D : frees[k].Node \in 0 .. Len(heap)
    BY <1>1, ActivationTypes
  <1>3. ASSUME NEW k \in 1 .. D - 1
        PROVE  /\ frees[k].entered /\ frees[k].Node \in Ids
               /\ frees[k].NextSib = heap[frees[k].Node].NextSibling
               /\ frees[D].Node # NULL => frees[k].Node < frees[D].Node
    <2>1. k \in 1 .. D /\ D \in 1 .. D /\ k < D
      BY <1>2
    <2>2. frees[k].entered
      BY <1>1, <2>1 DEF ReleaseOK, ActivationsOK
    <2>3. frees[k].Node # NULL /\ frees[k].NextSib = heap[frees[k].Node].NextSibling
      BY <1>1, <2>1, <2>2 DEF ReleaseOK, ActivationsOK
    <2>4. frees[k].Node \in Ids
      BY <1>2, <2>1, <2>3 DEF NULL
    <2>5. frees[D].Node # NULL => frees[k].Node < frees[D].Node
      BY <1>1, <2>1 DEF ReleaseOK, DistinctOK
    <2>6. QED
      BY <2>2, <2>3, <2>4, <2>5
  <1>4. QED
    BY <1>1, <1>2, <1>3

LEMMA EnterKeepsRelease ==
  ASSUME FreeInv, FreeEnter
  PROVE  ReleaseOK'
PROOF
  <1>. DEFINE D == Len(frees)
              x == frees[D].Node
  <1>1. TypeInv /\ pc = "free"
    BY DEF FreeInv, HolderInv, ShapeInv, FreeEnter
  <1>2. /\ UNCHANGED <<heap, root, freed>> /\ x # NULL /\ ~frees[D].entered
        /\ \A k \in 1 .. D - 1 : frees'[k] = frees[k]
        /\ frees'[D].Node = x /\ frees'[D].NextSib = heap[x].NextSibling /\ frees'[D].entered
        /\ \/ heap[x].FirstChild = NULL /\ Len(frees') = D
           \/ /\ heap[x].FirstChild # NULL /\ Len(frees') = D + 1
              /\ frees'[D + 1].Node = heap[x].FirstChild
              /\ frees'[D + 1].NextSib = NULL /\ ~frees'[D + 1].entered
    BY <1>1, FreeEnterEffect
  <1>3. /\ D \in Nat \ {0} /\ Len(heap) \in Nat /\ Ids = 1 .. Len(heap) /\ freed \subseteq Ids
        /\ \A k \in 1 .. D : frees[k].Node \in 0 .. Len(heap)
        /\ \A n \in Ids : heap[n].FirstChild \in 0 .. Len(heap)
    BY <1>1, ActivationTypes
  <1>4. /\ ActivationsOK /\ FreedOK /\ DistinctOK /\ LinksForward /\ 0 \notin freed
        /\ \A k \in 1 .. D - 1 : frees[k].entered /\ frees[k].Node \in Ids /\ frees[k].Node < x
    BY <1>1, <1>2, HeldByActivations DEF ReleaseOK
  <1>5. D = Len(frees) /\ x = frees[D].Node
    OBVIOUS
  <1>. HIDE DEF D, x
  <1>6. D \in 1 .. D /\ x \in Ids
    BY <1>2, <1>3, <1>5 DEF NULL
  <1>7. \A k \in 1 .. D : k = D \/ k \in 1 .. D - 1
    BY <1>3
  <1>8. \A k \in 1 .. D : frees'[k].Node = frees[k].Node
    BY <1>2, <1>5, <1>7
  <1>9. ASSUME NEW k \in 1 .. Len(frees')
        PROVE  \/ k \in 1 .. D - 1
               \/ k = D
               \/ k = D + 1 /\ heap[x].FirstChild # NULL /\ Len(frees') = D + 1
    BY <1>2, <1>3
  <1>10. \A k \in 1 .. D : k \in 1 .. Len(frees')
    BY <1>2, <1>3
  <1>11. Ids' = Ids
    BY <1>2 DEF Ids
  <1>12. ActivationsOK'
    <2>. SUFFICES ASSUME NEW k \in 1 .. Len(frees')
         PROVE  /\ k < Len(frees') => frees'[k].entered
                /\ frees'[k].entered =>
                     /\ frees'[k].Node # NULL
                     /\ frees'[k].NextSib = heap[frees'[k].Node].NextSibling
                     /\ heap[frees'[k].Node].FirstChild # NULL =>
                          \/ heap[frees'[k].Node].FirstChild \in freed
                          \/ /\ k < Len(frees')
                             /\ frees'[k + 1].Node = heap[frees'[k].Node].FirstChild
                /\ ~frees'[k].entered =>
                     frees'[k].NextSib = frees'[k].Node \/ frees'[k].NextSib = NULL
                /\ frees'[k].Node # NULL =>
                     \/ root = frees'[k].Node
                     \/ k > 1 /\ heap[frees'[k - 1].Node].FirstChild = frees'[k].Node
                     \/ \E m \in freed : heap[m].NextSibling = frees'[k].Node
      BY <1>2 DEF ActivationsOK
    <2>1. ASSUME k \in 1 .. D
          PROVE  frees'[k].Node # NULL =>
                   \/ root = frees'[k].Node
                   \/ k > 1 /\ heap[frees'[k - 1].Node].FirstChild = frees'[k].Node
                   \/ \E m \in freed : heap[m].NextSibling = frees'[k].Node
      <3>1. k > 1 => k - 1 \in 1 .. D
        BY <1>3, <2>1
      <3>2. frees'[k].Node = frees[k].Node /\ (k > 1 => frees'[k - 1].Node = frees[k - 1].Node)
        BY <1>8, <2>1, <3>1
      <3>3. frees[k].Node # NULL =>
              \/ root = frees[k].Node
              \/ k > 1 /\ heap[frees[k - 1].Node].FirstChild = frees[k].Node
              \/ \E m \in freed : heap[m].NextSibling = frees[k].Node
        BY <1>4, <1>5, <2>1 DEF ActivationsOK
      <3>4. QED
        BY <3>2, <3>3
    <2>2. CASE k \in 1 .. D - 1
      <3>1. k \in 1 .. D /\ k + 1 \in 1 .. D /\ k < D /\ k < Len(frees')
        <4>1. D \in Nat /\ (Len(frees') = D \/ Len(frees') = D + 1)
          BY <1>2, <1>3
        <4>2. QED
          BY <4>1, <2>2
      <3>2. frees'[k] = frees[k] /\ frees'[k + 1].Node = frees[k + 1].Node /\ frees[k].entered
        BY <1>2, <1>4, <1>8, <2>2, <3>1
      <3>3. /\ frees[k].Node # NULL
            /\ frees[k].NextSib = heap[frees[k].Node].NextSibling
            /\ heap[frees[k].Node].FirstChild # NULL =>
                 \/ heap[frees[k].Node].FirstChild \in freed
                 \/ frees[k + 1].Node = heap[frees[k].Node].FirstChild
        BY <1>4, <1>5, <3>1, <3>2 DEF ActivationsOK
      <3>4. QED
        BY <2>1, <3>1, <3>2, <3>3
    <2>3. CASE k = D
      <3>1. heap[x].FirstChild # NULL => k < Len(frees') /\ frees'[k + 1].Node = heap[x].FirstChild
        BY <1>2, <1>3, <2>3
      <3>2. k \in 1 .. D
        BY <1>6, <2>3
      <3>3. QED
        BY <1>2, <2>1, <2>3, <3>1, <3>2
    <2>4. CASE k = D + 1 /\ heap[x].FirstChild # NULL /\ Len(frees') = D + 1
      <3>1. k > 1 /\ ~(k < Len(frees')) /\ k - 1 = D
        BY <1>3, <2>4
      <3>2. frees'[k].Node = heap[x].FirstChild /\ frees'[k].NextSib = NULL /\ ~frees'[k].entered
        BY <1>2, <2>4
      <3>3. heap[frees'[k - 1].Node].FirstChild = frees'[k].Node
        BY <1>2, <3>1, <3>2
      <3>4. QED
        BY <3>1, <3>2, <3>3
    <2>5. QED
      BY <1>9, <2>2, <2>3, <2>4
  <1>13. FreedOK'
    <2>1. ASSUME NEW n \in Ids, \E k \in 1 .. D : frees[k].Node = n
          PROVE  \E k \in 1 .. Len(frees') : frees'[k].Node = n
      BY <1>8, <1>10, <2>1
    <2>2. ASSUME NEW m \in Ids, \E k \in 1 .. D : frees[k].entered /\ frees[k].Node = m
          PROVE  \E k \in 1 .. Len(frees') : frees'[k].entered /\ frees'[k].Node = m
      <3>1. PICK k \in 1 .. D : frees[k].entered /\ frees[k].Node = m
        BY <2>2
      <3>2. frees'[k].entered /\ frees'[k].Node = m
        BY <1>2, <1>7, <1>8, <3>1
      <3>3. QED
        BY <1>10, <3>2
    <2>3. QED
      BY <1>2, <1>4, <1>5, <1>11, <2>1, <2>2 DEF FreedOK
  <1>14. DistinctOK'
    <2>1. \A k \in 1 .. D : frees[k].Node \notin freed /\ frees[k].NextSib \notin freed
      BY <1>4, <1>5 DEF DistinctOK
    <2>2. x \in Ids \ freed
      BY <1>5, <1>6, <2>1
    <2>3. heap[x].NextSibling \notin freed
      BY <1>4, <2>2 DEF FreedOK
    <2>4. heap[x].FirstChild \notin freed
      <3>1. SUFFICES ASSUME heap[x].FirstChild \in freed PROVE FALSE
        OBVIOUS
      <3>2. PICK k \in 1 .. D : frees[k].entered /\ frees[k].Node = x
        BY <1>4, <1>5, <2>2, <3>1 DEF FreedOK
      <3>3. k \in 1 .. D - 1
        BY <1>2, <1>7, <3>2
      <3>4. frees[k].Node < x /\ x \in Nat
        BY <1>3, <1>4, <1>6, <3>3
      <3>5. QED
        BY <3>2, <3>4
    <2>5. ASSUME NEW k \in 1 .. Len(frees')
          PROVE  frees'[k].Node \notin freed /\ frees'[k].NextSib \notin freed
      <3>1. CASE k \in 1 .. D - 1
        <4>1. k \in 1 .. D
          BY <1>3, <3>1
        <4>2. QED
          BY <1>2, <2>1, <3>1, <4>1
      <3>2. CASE k = D
        BY <1>2, <2>2, <2>3, <3>2
      <3>3. CASE k = D + 1 /\ heap[x].FirstChild # NULL /\ Len(frees') = D + 1
        BY <1>2, <1>4, <2>4, <3>3 DEF NULL
      <3>4. QED
        BY <1>9, <3>1, <3>2, <3>3
    <2>6. ASSUME NEW j \in 1 .. Len(frees'), NEW k \in 1 .. Len(frees'),
                 j < k, frees'[k].Node # NULL
          PROVE  frees'[j].Node < frees'[k].Node
      <3>1. CASE k \in 1 .. D
        <4>1. j \in 1 .. D
          BY <1>3, <2>6, <3>1
        <4>2. frees[k].Node # NULL => frees[j].Node < frees[k].Node
          BY <1>4, <1>5, <2>6, <3>1, <4>1 DEF DistinctOK
        <4>3. QED
          BY <1>8, <2>6, <3>1, <4>1, <4>2
      <3>2. CASE k = D + 1 /\ heap[x].FirstChild # NULL
        <4>1. j \in 1 .. D /\ frees'[k].Node = heap[x].FirstChild
          BY <1>2, <1>3, <2>6, <3>2
        <4>2. heap[x].FirstChild > x
          BY <1>4, <1>6, <3>2 DEF LinksForward
        <4>3. frees'[j].Node = x \/ (frees'[j].Node \in Ids /\ frees'[j].Node < x)
          BY <1>2, <1>4, <1>7, <1>8, <4>1
        <4>4. QED
          BY <1>3, <1>6, <4>1, <4>2, <4>3
      <3>3. QED
        BY <1>3, <1>9, <3>1, <3>2
    <2>7. QED
      BY <1>2, <2>5, <2>6 DEF DistinctOK
  <1>15. QED
    BY <1>12, <1>13, <1>14 DEF ReleaseOK

LEMMA ReleaseKeepsRelease ==
  ASSUME FreeInv, Release
  PROVE  ReleaseOK'
PROOF
  <1>. DEFINE D == Len(frees)
              x == frees[D].Node
              s == frees[D].NextSib
  <1>1. TypeInv /\ SingleHolder /\ pc = "free"
    BY DEF FreeInv, HolderInv, ShapeInv, Release
  <1>2. /\ UNCHANGED <<heap, root>> /\ x # NULL /\ frees[D].entered
        /\ freed' = freed \cup {x}
        /\ Len(frees') = D /\ \A k \in 1 .. D - 1 : frees'[k] = frees[k]
        /\ frees'[D].Node = s /\ frees'[D].NextSib = s /\ ~frees'[D].entered
    BY <1>1, ReleaseEffect
  <1>3. /\ D \in Nat \ {0} /\ Len(heap) \in Nat /\ Ids = 1 .. Len(heap) /\ freed \subseteq Ids
        /\ \A k \in 1 .. D : frees[k].Node \in 0 .. Len(heap)
        /\ \A n \in Ids : heap[n].NextSibling \in 0 .. Len(heap)
    BY <1>1, ActivationTypes
  <1>4. /\ ActivationsOK /\ FreedOK /\ DistinctOK /\ LinksForward /\ 0 \notin freed
        /\ \A k \in 1 .. D - 1 :
             /\ frees[k].entered /\ frees[k].Node \in Ids /\ frees[k].Node < x
             /\ frees[k].NextSib = heap[frees[k].Node].NextSibling
    BY <1>1, <1>2, HeldByActivations DEF ReleaseOK
  <1>5. D = Len(frees) /\ x = frees[D].Node /\ s = frees[D].NextSib
    OBVIOUS
  <1>. HIDE DEF D, x, s
  <1>6. D \in 1 .. D /\ x \in Ids /\ x \in Nat
    BY <1>2, <1>3, <1>5 DEF NULL
  <1>7. \A k \in 1 .. D : k = D \/ k \in 1 .. D - 1
    BY <1>3
  <1>8. \A k \in 1 .. D - 1 : k \in 1 .. D /\ k < D
    BY <1>3
  <1>9. Ids' = Ids
    BY <1>2 DEF Ids
  <1>10. /\ s = heap[x].NextSibling /\ s \notin freed /\ x \notin freed
         /\ heap[x].FirstChild # NULL => heap[x].FirstChild \in freed
    <2>1. ~(D < D)
      BY <1>3
    <2>2. QED
      BY <1>2, <1>4, <1>5, <1>6, <2>1 DEF ActivationsOK, DistinctOK
  <1>11. s # NULL => s \in Nat /\ s > x
    BY <1>3, <1>4, <1>6, <1>10 DEF LinksForward, NULL
  <1>12. s \notin freed'
    BY <1>2, <1>6, <1>10, <1>11 DEF NULL
  (* Whoever holds the node that is released is itself free, or its parent. *)
  <1>13. \/ root = x
         \/ D - 1 \in 1 .. D - 1 /\ heap[frees[D - 1].Node].FirstChild = x
         \/ \E m \in freed : heap[m].NextSibling = x
    <2>1. \/ root = x
          \/ D > 1 /\ heap[frees[D - 1].Node].FirstChild = x
          \/ \E m \in freed : heap[m].NextSibling = x
      BY <1>2, <1>4, <1>5, <1>6 DEF ActivationsOK
    <2>2. D > 1 => D - 1 \in 1 .. D - 1
      BY <1>3
    <2>3. QED
      BY <2>1, <2>2
  <1>14. ASSUME NEW m \in Ids, heap[m].NextSibling = x PROVE m \in freed
    <2>1. root # x
      BY <1>1, <1>6, <1>14, OneHolder
    <2>2. D - 1 \in 1 .. D - 1 => heap[frees[D - 1].Node].FirstChild # x
      BY <1>1, <1>4, <1>6, <1>14, OneHolder
    <2>3. PICK l \in freed : heap[l].NextSibling = x
      BY <1>13, <2>1, <2>2
    <2>4. l = m
      BY <1>1, <1>3, <1>6, <1>14, <2>3, OneHolder
    <2>5. QED
      BY <2>3, <2>4
  <1>15. ASSUME NEW m \in Ids, heap[m].FirstChild = x
         PROVE  D - 1 \in 1 .. D - 1 /\ m = frees[D - 1].Node
    <2>1. root # x
      BY <1>1, <1>6, <1>15, OneHolder
    <2>2. \A l \in freed : heap[l].NextSibling # x
      BY <1>1, <1>3, <1>6, <1>15, OneHolder
    <2>3. D - 1 \in 1 .. D - 1 /\ heap[frees[D - 1].Node].FirstChild = x
      BY <1>13, <2>1, <2>2
    <2>4. QED
      BY <1>1, <1>4, <1>6, <1>15, <2>3, OneHolder
  <1>16. ActivationsOK'
    <2>. SUFFICES ASSUME NEW k \in 1 .. D
         PROVE  /\ k < D => frees'[k].entered
                /\ frees'[k].entered =>
                     /\ frees'[k].Node # NULL
                     /\ frees'[k].NextSib = heap[frees'[k].Node].NextSibling
                     /\ heap[frees'[k].Node].FirstChild # NULL =>
                          \/ heap[frees'[k].Node].FirstChild \in freed'
                          \/ k < D /\ frees'[k + 1].Node = heap[frees'[k].Node].FirstChild
                /\ ~frees'[k].entered =>
                     frees'[k].NextSib = frees'[k].Node \/ frees'[k].NextSib = NULL
                /\ frees'[k].Node # NULL =>
                     \/ root = frees'[k].Node
                     \/ k > 1 /\ heap[frees'[k - 1].Node].FirstChild = frees'[k].Node
                     \/ \E m \in freed' : heap[m].NextSibling = frees'[k].Node
      BY <1>2 DEF ActivationsOK
    <2>1. CASE k \in 1 .. D - 1
      <3>1. k \in 1 .. D /\ k + 1 \in 1 .. D /\ k < D /\ (k > 1 => k - 1 \in 1 .. D - 1)
        BY <1>3, <2>1
      <3>2. frees'[k] = frees[k] /\ frees[k].entered /\ (k > 1 => frees'[k - 1] = frees[k - 1])
        BY <1>2, <1>4, <2>1, <3>1
      <3>3. /\ frees[k].Node # NULL
            /\ frees[k].NextSib = heap[frees[k].Node].NextSibling
            /\ heap[frees[k].Node].FirstChild # NULL =>
                 \/ heap[frees[k].Node].FirstChild \in freed
                 \/ frees[k + 1].Node = heap[frees[k].Node].FirstChild
        BY <1>4, <1>5, <3>1, <3>2 DEF ActivationsOK
      <3>4. \/ root = frees[k].Node
            \/ k > 1 /\ heap[frees[k - 1].Node].FirstChild = frees[k].Node
            \/ \E m \in freed : heap[m].NextSibling = frees[k].Node
        BY <1>4, <1>5, <3>1, <3>3 DEF ActivationsOK
      <3>5. frees[k + 1].Node = x \/ frees'[k + 1] = frees[k + 1]
        BY <1>2, <1>5, <1>7, <3>1
      <3>6. freed \subseteq freed' /\ x \in freed'
        BY <1>2
      <3>7. QED
        BY <3>1, <3>2, <3>3, <3>4, <3>5, <3>6
    <2>2. CASE k = D
      <3>1. x \in freed' /\ ~(k < D)
        BY <1>2, <1>3, <2>2
      <3>2. QED
        BY <1>2, <1>10, <2>2, <3>1
    <2>3. QED
      BY <1>7, <2>1, <2>2
  <1>17. FreedOK'
    <2>1. ASSUME NEW n \in Ids, root = n \/ \E m \in freed' : heap[m].NextSibling = n
          PROVE  n \in freed' \/ \E k \in 1 .. D : frees'[k].Node = n
      <3>1. CASE root = n \/ \E m \in freed : heap[m].NextSibling = n
        <4>1. n \in freed \/ \E k \in 1 .. D : frees[k].Node = n
          BY <1>4, <1>5, <3>1 DEF FreedOK
        <4>2. ASSUME NEW k \in 1 .. D, frees[k].Node = n
              PROVE  n \in freed' \/ frees'[k].Node = n
          BY <1>2, <1>5, <1>7, <4>2
        <4>3. QED
          BY <1>2, <4>1, <4>2
      <3>2. CASE heap[x].NextSibling = n
        BY <1>2, <1>6, <1>10, <3>2
      <3>3. QED
        BY <1>2, <2>1, <3>1, <3>2
    <2>2. \A m \in freed' : heap[m].FirstChild # NULL => heap[m].FirstChild \in freed'
      BY <1>2, <1>4, <1>10 DEF FreedOK
    <2>3. ASSUME NEW m \in Ids \ freed'
          PROVE  /\ heap[m].NextSibling \notin freed'
                 /\ heap[m].FirstChild \in freed' =>
                      \E k \in 1 .. D : frees'[k].entered /\ frees'[k].Node = m
      <3>1. m \in Ids \ freed /\ m # x
        BY <1>2, <2>3
      <3>2. heap[m].NextSibling \notin freed /\ heap[m].NextSibling # x
        BY <1>4, <1>14, <3>1 DEF FreedOK
      <3>3. ASSUME heap[m].FirstChild \in freed'
            PROVE  \E k \in 1 .. D - 1 : frees[k].entered /\ frees[k].Node = m
        <4>1. CASE heap[m].FirstChild \in freed
          <5>1. \E k \in 1 .. D : frees[k].entered /\ frees[k].Node = m
            BY <1>4, <1>5, <3>1, <4>1 DEF FreedOK
          <5>2. QED
            BY <1>5, <1>7, <3>1, <5>1
        <4>2. CASE heap[m].FirstChild = x
          BY <1>4, <1>15, <3>1, <4>2
        <4>3. QED
          BY <1>2, <3>3, <4>1, <4>2
      <3>4. QED
        BY <1>2, <1>8, <3>2, <3>3
    <2>4. QED
      BY <1>2, <1>9, <2>1, <2>2, <2>3 DEF FreedOK
  <1>18. DistinctOK'
    <2>1. ASSUME NEW k \in 1 .. D - 1
          PROVE  frees[k].Node \notin freed' /\ frees[k].NextSib \notin freed'
      <3>1. frees[k].Node \notin freed /\ frees[k].NextSib \notin freed
        BY <1>4, <1>5, <1>8, <2>1 DEF DistinctOK
      <3>2. frees[k].Node # x
        BY <1>3, <1>4, <1>6, <2>1
      <3>3. frees[k].NextSib # x
        BY <1>4, <1>14, <2>1, <3>1
      <3>4. QED
        BY <1>2, <3>1, <3>2, <3>3
    <2>2. \A k \in 1 .. D : frees'[k].Node \notin freed' /\ frees'[k].NextSib \notin freed'
      BY <1>2, <1>7, <1>12, <2>1
    <2>3. ASSUME NEW j \in 1 .. D, NEW k \in 1 .. D, j < k, frees'[k].Node # NULL
          PROVE  frees'[j].Node < frees'[k].Node
      <3>1. j \in 1 .. D - 1 /\ frees'[j] = frees[j]
        <4>1. j \in 1 .. D - 1
          BY <1>3, <2>3
        <4>2. QED
          BY <1>2, <4>1
      <3>2. CASE k = D
        <4>1. frees[j].Node \in Ids /\ frees[j].Node < x
          BY <1>4, <3>1
        <4>2. s \in Nat /\ s > x /\ frees'[k].Node = s
          BY <1>2, <1>11, <2>3, <3>2
        <4>3. QED
          BY <1>3, <1>6, <3>1, <4>1, <4>2
      <3>3. CASE k \in 1 .. D - 1
        <4>1. frees'[k] = frees[k]
          BY <1>2, <3>3
        <4>2. QED
          BY <1>4, <1>5, <2>3, <3>1, <4>1 DEF DistinctOK
      <3>4. QED
        BY <1>7, <3>2, <3>3
    <2>4. QED
      BY <1>2, <2>2, <2>3 DEF DistinctOK
  <1>19. QED
    BY <1>16, <1>17, <1>18 DEF ReleaseOK

(* A set of node numbers has a smallest one. *)
LEMMA SmallestNode ==
  ASSUME NEW S \in SUBSET Nat, S # {}
  PROVE  \E i \in S : \A j \in S : i <= j
PROOF
  <1>. DEFINE R == {ss \in Nat \X Nat : ss[1] < ss[2]}
  <1>1. IsWellFoundedOn(R, Nat)
    BY NatLessThanWellFounded DEF OpToRel
  <1>2. PICK i \in S : \A j \in S : ~(<<j, i>> \in R)
    <2>. HIDE DEF R
    <2>1. QED
      BY <1>1, WFMin
  <1>3. ASSUME NEW j \in S PROVE i <= j
    <2>1. <<j, i>> \in Nat \X Nat /\ <<j, i>>[1] = j /\ <<j, i>>[2] = i
      OBVIOUS
    <2>2. ~(j < i)
      BY <1>2, <2>1
    <2>3. i \in Nat /\ j \in Nat
      OBVIOUS
    <2>4. QED
      BY <2>2, <2>3
  <1>4. QED
    BY <1>3

(* When no activation holds a node, all nodes are free: the first that is not
   would be held by the root or by a node before it. *)
LEMMA AllFreed ==
  ASSUME FreeInv, pc = "free", \A k \in 1 .. Len(frees) : frees[k].Node = NULL
  PROVE  freed = Ids
PROOF
  <1>1. ShapeInv /\ SingleHolder /\ FreedOK /\ Ids \subseteq Nat /\ freed \subseteq Ids /\ 0 \notin Ids
    BY DEF FreeInv, HolderInv, FreeOK, ReleaseOK, ShapeInv, TypeInv, TypeOK, HeapTypeOK, Ids
  <1>2. \A n \in Ids : root = n \/ (\E m \in freed : heap[m].NextSibling = n) => n \in freed
    BY <1>1 DEF FreedOK, NULL
  <1>3. ASSUME Ids \ freed # {} PROVE FALSE
    <2>1. PICK n \in Ids \ freed : \A j \in Ids \ freed : n <= j
      <3>1. Ids \ freed \in SUBSET Nat
        BY <1>1
      <3>2. QED
        BY <1>3, <3>1, SmallestNode
    <2>2. \A m \in Ids : m < n => m \in freed
      BY <1>1, <2>1
    <2>3. \/ root = n
          \/ \E m \in Ids : m < n /\ (heap[m].FirstChild = n \/ heap[m].NextSibling = n)
      BY <1>1, <2>1, HeldFromBefore
    <2>4. n # NULL
      BY <1>1, <2>1 DEF NULL
    <2>5. n \in freed
      <3>1. \A m \in freed : heap[m].FirstChild # NULL => heap[m].FirstChild \in freed
        BY <1>1 DEF FreedOK
      <3>2. CASE root = n
        BY <1>2, <2>1, <3>2
      <3>3. ASSUME NEW m \in Ids, m < n, heap[m].FirstChild = n \/ heap[m].NextSibling = n
            PROVE  n \in freed
        <4>1. m \in freed
          BY <2>2, <3>3
        <4>2. QED
          BY <1>2, <2>1, <2>4, <3>1, <3>3, <4>1
      <3>4. QED
        BY <2>3, <3>2, <3>3
    <2>6. QED
      BY <2>1, <2>5
  <1>4. QED
    BY <1>1, <1>3

LEMMA ReturnFromFreeKeeps ==
  ASSUME FreeInv, ReturnFromFree
  PROVE  FreeOK'
PROOF
  <1>. DEFINE D == Len(frees)
  <1>1. /\ TypeInv /\ ReleaseOK /\ NothingLeaked
        /\ pc = "free" /\ UNCHANGED <<heap, freed>> /\ frees' = Below(frees)
        /\ IF D > 1 THEN UNCHANGED <<pc, root>> ELSE pc' = "done" /\ root' = NULL
        /\ frees[D].Node = NULL
    BY DEF FreeInv, HolderInv, ShapeInv, FreeOK, ReturnFromFree, Top
  <1>2. /\ frees \in Seq(FreeFrames) /\ frees # <<>> /\ D \in Nat \ {0}
    BY <1>1, ActivationTypes
  <1>3. Len(frees') = D - 1 /\ \A k \in 1 .. D - 1 : frees'[k] = frees[k]
    BY <1>1, <1>2, BelowLemma
  <1>4. Ids' = Ids /\ 0 \notin Ids /\ Len(frees) = D
    BY <1>1 DEF Ids
  <1>. HIDE DEF D
  <1>5. \A k \in 1 .. D - 1 : k \in 1 .. D /\ k < D
    BY <1>2
  <1>6. \A k \in 1 .. D : k \in 1 .. D - 1 \/ k = D
    BY <1>2
  <1>7. CASE D > 1
    <2>1. UNCHANGED <<pc, root>>
      BY <1>1, <1>7
    <2>2. ActivationsOK'
      <3>. SUFFICES ASSUME NEW k \in 1 .. D - 1
           PROVE  /\ k < D - 1 => frees[k].entered
                  /\ frees[k].entered =>
                       /\ frees[k].Node # NULL
                       /\ frees[k].NextSib = heap[frees[k].Node].NextSibling
                       /\ heap[frees[k].Node].FirstChild # NULL =>
                            \/ heap[frees[k].Node].FirstChild \in freed
                            \/ /\ k < D - 1
                               /\ frees'[k + 1].Node = heap[frees[k].Node].FirstChild
                  /\ ~frees[k].entered =>
                       frees[k].NextSib = frees[k].Node \/ frees[k].NextSib = NULL
                  /\ frees[k].Node # NULL =>
                       \/ root = frees[k].Node
                       \/ k > 1 /\ heap[frees'[k - 1].Node].FirstChild = frees[k].Node
                       \/ \E m \in freed : heap[m].NextSibling = frees[k].Node
        BY <1>1, <1>3, <2>1 DEF ActivationsOK
      <3>1. k \in 1 .. D /\ k < D
        BY <1>5
      <3>2. /\ frees[k].entered
            /\ frees[k].Node # NULL
            /\ frees[k].NextSib = heap[frees[k].Node].NextSibling
            /\ heap[frees[k].Node].FirstChild # NULL =>
                 \/ heap[frees[k].Node].FirstChild \in freed
                 \/ frees[k + 1].Node = heap[frees[k].Node].FirstChild
        BY <1>1, <1>4, <3>1 DEF ReleaseOK, ActivationsOK
      <3>3. \/ root = frees[k].Node
            \/ k > 1 /\ heap[frees[k - 1].Node].FirstChild = frees[k].Node
            \/ \E m \in freed : heap[m].NextSibling = frees[k].Node
        BY <1>1, <1>4, <3>1, <3>2 DEF ReleaseOK, ActivationsOK
      <3>4. k > 1 => frees'[k - 1] = frees[k - 1]
        <4>1. k > 1 => k - 1 \in 1 .. D - 1
          BY <1>2
        <4>2. QED
          BY <1>3, <4>1
      <3>5. k + 1 = D \/ (k < D - 1 /\ frees'[k + 1] = frees[k + 1])
        <4>1. k + 1 = D \/ (k < D - 1 /\ k + 1 \in 1 .. D - 1)
          BY <1>2
        <4>2. QED
          BY <1>3, <4>1
      <3>6. QED
        BY <1>1, <3>2, <3>3, <3>4, <3>5
    <2>3. FreedOK'
      <3>1. ASSUME NEW n \in Ids, \E k \in 1 .. D : frees[k].Node = n
            PROVE  \E k \in 1 .. D - 1 : frees'[k].Node = n
        BY <1>1, <1>3, <1>4, <1>6, <3>1 DEF NULL
      <3>2. ASSUME NEW m \in Ids, \E k \in 1 .. D : frees[k].entered /\ frees[k].Node = m
            PROVE  \E k \in 1 .. D - 1 : frees'[k].entered /\ frees'[k].Node = m
        BY <1>1, <1>3, <1>4, <1>6, <3>2 DEF NULL
      <3>3. QED
        BY <1>1, <1>3, <1>4, <2>1, <3>1, <3>2 DEF ReleaseOK, FreedOK
    <2>4. DistinctOK'
      BY <1>1, <1>3, <1>4, <1>5 DEF ReleaseOK, DistinctOK
    <2>5. QED
      BY <1>1, <2>1, <2>2, <2>3, <2>4 DEF FreeOK, ReleaseOK, NothingLeaked
  <1>8. CASE ~(D > 1)
    <2>1. D = 1 /\ pc' = "done" /\ root' = NULL
      BY <1>1, <1>2, <1>8
    <2>2. \A k \in 1 .. D : frees[k].Node = NULL
      BY <1>1, <2>1
    <2>3. freed = Ids
      BY <1>1, <1>4, <2>2, AllFreed
    <2>4. QED
      BY <1>1, <1>4, <2>1, <2>3 DEF FreeOK, NothingLeaked
  <1>9. QED
    BY <1>7, <1>8

LEMMA NextFree == FreeInv /\ [Next]_vars => FreeInv'
PROOF
  <1>. SUFFICES ASSUME FreeInv, [Next]_vars PROVE FreeInv'
    OBVIOUS
  <1>1. HolderInv' /\ TypeInv /\ FreeOK
    BY NextHolders DEF FreeInv, HolderInv, ShapeInv
  <1>2. CASE Scan
    <2>1. UNCHANGED freed /\ pc \notin {"free", "done"} /\ pc' \notin {"free", "done"}
      BY <1>2 DEF Scan, BeginSegment, SkipAbsent, NoMemory, AddNode, NextDevice, ReturnToBridge,
         ReturnToSegment, SkipEmptySegment, LinkSegment, LastSiblingStep, LastSiblingReturn,
         EndSegments, InFunctionLoop
    <2>2. QED
      BY <1>1, <2>1 DEF FreeInv, FreeOK, NothingLeaked
  <1>3. CASE Walk
    <2>1. /\ UNCHANGED <<heap, root, freed>> /\ pc \notin {"free", "done"}
          /\ \/ pc' \notin {"free", "done"}
             \/ pc' = "free" /\ frees' = <<FreeFrame(root)>>
      BY <1>3 DEF Walk, BeginWalk, SkipWalk, Visit, ReturnFromWalk
    <2>2. freed = {}
      BY <1>1, <2>1 DEF FreeOK
    <2>3. pc' = "free" => ReleaseOK'
      BY <1>1, <2>1, <2>2, BeginRelease
    <2>4. QED
      BY <1>1, <2>1, <2>2, <2>3 DEF FreeInv, FreeOK, NothingLeaked
  <1>4. CASE FreeEnter \/ Release
    <2>1. pc' = "free"
      BY <1>4 DEF FreeEnter, Release
    <2>2. QED
      BY <1>1, <1>4, <2>1, EnterKeepsRelease, ReleaseKeepsRelease DEF FreeInv, FreeOK, NothingLeaked
  <1>5. CASE ReturnFromFree
    BY <1>1, <1>5, ReturnFromFreeKeeps DEF FreeInv
  <1>6. CASE UNCHANGED vars
    BY <1>1, <1>6 DEF FreeInv, FreeOK, ReleaseOK, ActivationsOK, FreedOK, DistinctOK,
       NothingLeaked, Ids, vars
  <1>7. QED
    BY <1>2, <1>3, <1>4, <1>5, <1>6 DEF Next, Free

(* The nodes the activations of FreeSubtree hold are not free. *)
LEMMA FreeDangles == FreeInv => NothingDangling
PROOF
  <1>. SUFFICES ASSUME FreeInv PROVE NothingDangling
    OBVIOUS
  <1>1. frees \in Seq(FreeFrames) /\ (pc # "free" => frees = <<>>)
    BY DEF FreeInv, HolderInv, ShapeInv, TypeInv, TypeOK, StackTypeOK
  <1>2. CASE pc = "free"
    <2>1. DistinctOK
      BY <1>2 DEF FreeInv, FreeOK, ReleaseOK
    <2>2. DOMAIN frees = 1 .. Len(frees)
      BY <1>1
    <2>3. QED
      BY <2>1, <2>2 DEF NothingDangling, DistinctOK
  <1>3. CASE pc # "free"
    BY <1>1, <1>3 DEF NothingDangling
  <1>4. QED
    BY <1>2, <1>3

(* On every machine, FreeSubtree holds no pointer to a node that is back in
   the pool: it never reads one, and gives none back twice. *)
THEOREM NothingDanglingCorrect == Spec => []NothingDangling
  BY InitFree, NextFree, FreeDangles, PTL DEF Spec

(* On every machine, when the program returns all nodes it allocated are back
   in the pool, whether the tree was walked or not. *)
THEOREM NothingLeakedCorrect == Spec => []NothingLeaked
PROOF
  <1>1. FreeInv => NothingLeaked
    BY DEF FreeInv, FreeOK
  <1>2. QED
    BY InitFree, NextFree, <1>1, PTL DEF Spec

-----------------------------------------------------------------------------
(* Two nodes that describe the same function alike; links do not matter. *)
SameFunction(a, b) == a.Loc = b.Loc /\ a.IsBridge = b.IsBridge /\ a.IsPcie = b.IsPcie

LEMMA LinkKeepsFunction ==
  ASSUME NEW h \in Seq(NODE), NEW i, NEW v, NEW g,
         g = [h EXCEPT ![i].NextSibling = v] \/ g = [h EXCEPT ![i].FirstChild = v]
  PROVE  \A n \in 1 .. Len(h) : SameFunction(g[n], h[n])
PROOF
  <1>. SUFFICES ASSUME NEW n \in 1 .. Len(h) PROVE SameFunction(g[n], h[n])
    OBVIOUS
  <1>1. h[n] \in NODE /\ n \in DOMAIN h
    OBVIOUS
  <1>2. g[n] \in {h[n], [h[n] EXCEPT !.NextSibling = v], [h[n] EXCEPT !.FirstChild = v]}
    BY <1>1
  <1>3. QED
    BY <1>1, <1>2 DEF SameFunction, NODE

(* Of the function a node is for, a longer chain changes nothing. *)
LEMMA WithNodeFunctions ==
  ASSUME TypeOK, pc = "scan", Answers(Here(Top(scans))), NEW f, f = Top(scans)
  PROVE  /\ WithNode(f)[Len(heap) + 1] = CreateNode(Here(f))
         /\ WithNode(f)[Len(heap) + 1].Loc = Here(f)
         /\ \A n \in Ids : SameFunction(WithNode(f)[n], heap[n])
PROOF
  <1>1. f \in ScanFrames /\ CreateNode(Here(f)) \in NODE
    BY HereType
  <1>2. heap \in Seq(NODE) /\ Len(heap) \in Nat
    BY DEF TypeOK, HeapTypeOK
  <1>3. f.Tail \in Ptr
    BY <1>1 DEF ScanFrames
  <1>. DEFINE h == IF f.Tail = NULL THEN heap
                   ELSE [heap EXCEPT ![f.Tail].NextSibling = Len(heap) + 1]
  <1>4. h \in Seq(NODE) /\ Len(h) = Len(heap) /\ \A n \in Ids : SameFunction(h[n], heap[n])
    <2>1. CASE f.Tail = NULL
      BY <1>2, <2>1 DEF Ids, SameFunction
    <2>2. CASE f.Tail # NULL
      <3>1. f.Tail \in 1 .. Len(heap) /\ Len(heap) + 1 \in Nat
        BY <1>2, <1>3, <2>2 DEF Ptr, NULL
      <3>2. h = [heap EXCEPT ![f.Tail].NextSibling = Len(heap) + 1]
        BY <2>2
      <3>. HIDE DEF h
      <3>3. h \in Seq(NODE) /\ Len(h) = Len(heap)
        BY <1>2, <3>1, <3>2, LinkNextSibling
      <3>4. \A n \in Ids : SameFunction(h[n], heap[n])
        BY <1>2, <3>2, LinkKeepsFunction DEF Ids
      <3>5. QED
        BY <3>3, <3>4
    <2>3. QED
      BY <2>1, <2>2
  <1>5. WithNode(f) = Append(h, CreateNode(Here(f)))
    BY DEF WithNode
  <1>6. CreateNode(Here(f)).Loc = Here(f)
    BY DEF CreateNode
  <1>. HIDE DEF h
  <1>7. /\ Append(h, CreateNode(Here(f)))[Len(h) + 1] = CreateNode(Here(f))
        /\ \A n \in 1 .. Len(h) : Append(h, CreateNode(Here(f)))[n] = h[n]
    BY <1>1, <1>4, AppendLemma
  <1>8. QED
    BY <1>2, <1>4, <1>5, <1>6, <1>7 DEF Ids

-----------------------------------------------------------------------------
(* The inventory of a machine h with segment table t, of which the functions
   in L are missing. *)
On(h, t, L) ==
  INSTANCE PciInventory WITH
    hw <- h, table <- t, lost <- L, listing <- <<>>, phase <- "scan"

-----------------------------------------------------------------------------
(* The paths of PciInventory are a recursive function: each is made from those
   of the buses below.  That there is such a function is shown by a least
   number of buses for which there is none. *)
Open(C, f, b) == {l \in C[b] : f[l.Bus] # <<>>}

PathBehind(D, f, l) == Append(f[l.Bus], D[l])

Any(A) == CHOOSE x \in A : TRUE

FirstOf(A, B, y) == IF A # {} THEN <<Any(A)>> ELSE IF B # {} THEN y ELSE <<>>

PathStep(S, C, D, f, b) ==
  FirstOf(S[b], Open(C, f, b), PathBehind(D, f, Any(Open(C, f, b))))

HasPaths(S, C, D, N) == \E f : f = [b \in 0 .. N |-> PathStep(S, C, D, f, b)]

LEMMA FirstOfNone ==
  ASSUME NEW A, NEW B, NEW y, NEW z, B = {}
  PROVE  FirstOf(A, B, y) = FirstOf(A, B, z)
PROOF
  <1>1. CASE A = {}
    BY <1>1, Zenon DEF FirstOf
  <1>2. CASE A # {}
    BY <1>2, Zenon DEF FirstOf
  <1>3. QED
    BY <1>1, <1>2, Zenon

LEMMA PathStepBelow ==
  ASSUME NEW S, NEW C, NEW D, NEW b \in Nat, NEW f, NEW g,
         \A l \in C[b] : l.Bus \in 0 .. b - 1,
         \A c \in 0 .. b - 1 : f[c] = g[c]
  PROVE  PathStep(S, C, D, f, b) = PathStep(S, C, D, g, b)
PROOF
  <1>. DEFINE l == Any(Open(C, g, b))
  <1>1. Open(C, f, b) = Open(C, g, b)
    BY Zenon DEF Open
  <1>2. CASE Open(C, g, b) = {}
    BY <1>1, <1>2, FirstOfNone, Zenon DEF PathStep
  <1>3. CASE Open(C, g, b) # {}
    <2>1. l \in Open(C, g, b)
      BY <1>3, Zenon DEF Any
    <2>2. l \in C[b]
      BY <2>1, Zenon DEF Open
    <2>3. f[l.Bus] = g[l.Bus]
      BY <2>2, Zenon
    <2>4. PathBehind(D, f, l) = PathBehind(D, g, l)
      BY <2>3, Zenon DEF PathBehind
    <2>5. QED
      BY <1>1, <2>4, Zenon DEF PathStep
  <1>4. QED
    BY <1>2, <1>3, Zenon

LEMMA PathsExist ==
  ASSUME NEW N \in Nat, NEW S, NEW C, NEW D,
         \A b \in 0 .. N : \A l \in C[b] : l.Bus \in 0 .. b - 1
  PROVE  HasPaths(S, C, D, N)
PROOF
  <1>. DEFINE Made(n) == HasPaths(S, C, D, n - 1)
              Rest == {n \in 0 .. N + 1 : ~Made(n)}
  <1>1. SUFFICES Rest = {}
    <2>1. N + 1 \in 0 .. N + 1 /\ (N + 1) - 1 = N
      OBVIOUS
    <2>2. Made(N + 1)
      BY <1>1, <2>1, Zenon
    <2>3. QED
      BY <2>1, <2>2, Zenon
  <1>2. SUFFICES ASSUME Rest # {} PROVE FALSE
    OBVIOUS
  <1>3. PICK n \in Rest : \A m \in Rest : n <= m
    <2>1. Rest \in SUBSET Nat
      OBVIOUS
    <2>. HIDE DEF Rest
    <2>2. QED
      BY <1>2, <2>1, SmallestNode
  <1>4. n # 0
    <2>1. Made(0)
      <3>2. 0 .. 0 - 1 = {}
        OBVIOUS
      <3>3. [c \in {} |-> c] = [b \in {} |-> PathStep(S, C, D, [c \in {} |-> c], b)]
        BY Zenon
      <3>4. QED
        BY <3>2, <3>3, Zenon DEF HasPaths
    <2>2. QED
      BY <1>3, <2>1, Zenon
  <1>5. n - 1 \in 0 .. N + 1 /\ n - 1 \notin Rest /\ n - 1 \in 0 .. N
    <2>1. n \in 0 .. N + 1
      BY <1>3, Zenon
    <2>2. n - 1 \in 0 .. N + 1 /\ n - 1 \in 0 .. N /\ ~(n <= n - 1)
      BY <1>4, <2>1
    <2>3. QED
      BY <1>3, <2>2, Zenon
  <1>6. PICK g : g = [b \in 0 .. n - 2 |-> PathStep(S, C, D, g, b)]
    <2>1. n - 1 - 1 = n - 2
      BY <1>3
    <2>2. Made(n - 1)
      BY <1>5, Zenon
    <2>3. QED
      BY <2>1, <2>2, Zenon DEF HasPaths
  <1>. DEFINE f == [b \in 0 .. n - 1 |-> IF b = n - 1 THEN PathStep(S, C, D, g, b) ELSE g[b]]
  <1>7. ASSUME NEW b \in 0 .. n - 1
        PROVE  f[b] = PathStep(S, C, D, f, b)
    <2>1. b \in Nat /\ b \in 0 .. N
      BY <1>5
    <2>2. \A c \in 0 .. b - 1 : f[c] = g[c]
      <3>1. ASSUME NEW c \in 0 .. b - 1 PROVE c \in 0 .. n - 1 /\ c # n - 1
        BY <1>5, <2>1
      <3>2. QED
        BY <3>1, Zenon
    <2>. HIDE DEF f
    <2>3. PathStep(S, C, D, f, b) = PathStep(S, C, D, g, b)
      BY <2>1, <2>2, PathStepBelow
    <2>. USE DEF f
    <2>4. CASE b = n - 1
      BY <2>3, <2>4, Zenon
    <2>5. CASE b # n - 1
      <3>1. b \in 0 .. n - 2
        BY <1>5, <2>1, <2>5
      <3>2. g[b] = PathStep(S, C, D, g, b)
        BY <1>6, <3>1, Zenon
      <3>3. QED
        BY <2>3, <2>5, <3>2, Zenon
    <2>6. QED
      BY <2>4, <2>5, Zenon
  <1>8. f = [b \in 0 .. n - 1 |-> PathStep(S, C, D, f, b)]
    <2>. DEFINE h == [b \in 0 .. n - 1 |-> PathStep(S, C, D, f, b)]
    <2>1. \A b \in 0 .. n - 1 : f[b] = h[b]
      BY <1>7, Zenon
    <2>2. DOMAIN f = 0 .. n - 1 /\ DOMAIN h = 0 .. n - 1
      BY Zenon
    <2>3. f = [b \in 0 .. n - 1 |-> f[b]] /\ h = [b \in 0 .. n - 1 |-> h[b]]
      BY Zenon
    <2>4. QED
      BY <2>1, <2>3, Zenon
  <1>9. Made(n)
    BY <1>8, Zenon DEF HasPaths
  <1>10. QED
    BY <1>3, <1>9, Zenon

(* So the paths are what their definition says. *)
LEMMA PathEquation ==
  ASSUME NEW h, NEW t, NEW L, DOMAIN h \subseteq Locations, LastBus \in Nat,
         NEW s, NEW b \in 0 .. LastBus
  PROVE  On(h, t, L)!BusPath(s)[b] = On(h, t, L)!NextPath(On(h, t, L)!BusPath(s), s, b)
PROOF
  <1>. DEFINE S == [c \in 0 .. LastBus |->
                      {i \in DOMAIN On(h, t, L)!Starts :
                         /\ On(h, t, L)!Starts[i].Seg = s
                         /\ On(h, t, L)!Starts[i].StartBus = c}]
              C == [c \in 0 .. LastBus |->
                      {l \in On(h, t, L)!Bridges \ L :
                         l.Seg = s /\ l.Bus < c /\ h[l].secondary = c}]
              D == [l \in On(h, t, L)!Bridges |-> On(h, t, L)!Place(l)]
  <1>1. \A c \in 0 .. LastBus : \A l \in C[c] : l.Bus \in 0 .. c - 1
    <2>1. \A l \in On(h, t, L)!Bridges : l \in Locations
      BY Zenon DEF On!Bridges, On!Functions
    <2>2. SUFFICES ASSUME NEW c \in 0 .. LastBus, NEW l \in C[c] PROVE l.Bus \in 0 .. c - 1
      OBVIOUS
    <2>3. l \in Locations /\ l.Bus < c
      BY <2>1, <2>2, Zenon
    <2>4. l.Bus \in 0 .. LastBus
      BY <2>3 DEF Locations
    <2>5. QED
      BY <2>3, <2>4
  <1>2. ASSUME NEW f, NEW c \in 0 .. LastBus
        PROVE  On(h, t, L)!NextPath(f, s, c) = PathStep(S, C, D, f, c)
    <2>. DEFINE B == On(h, t, L)!BridgesTo(f, s, c)
                l == Any(B)
    <2>1. Open(C, f, c) = B
      BY Zenon DEF Open, On!BridgesTo
    <2>2. S[c] = On(h, t, L)!StartsAt(s, c)
      BY Zenon DEF On!StartsAt
    <2>3. CASE B = {}
      <3>. HIDE DEF S, C, D, B, l
      <3>1. PathStep(S, C, D, f, c) =
              FirstOf(On(h, t, L)!StartsAt(s, c), B, On(h, t, L)!PathOver(f, l))
        BY <2>1, <2>2, <2>3, FirstOfNone, Zenon DEF PathStep
      <3>2. QED
        BY <3>1, Zenon DEF FirstOf, Any, On!NextPath, B, l
    <2>4. CASE B # {}
      <3>1. l \in B
        BY <2>4, Zenon DEF Any
      <3>2. l \in On(h, t, L)!Bridges
        BY <3>1, Zenon DEF On!BridgesTo
      <3>3. PathBehind(D, f, l) = On(h, t, L)!PathOver(f, l)
        BY <3>2, Zenon DEF PathBehind, On!PathOver
      <3>. HIDE DEF S, C, D, B, l
      <3>4. PathStep(S, C, D, f, c) =
              FirstOf(On(h, t, L)!StartsAt(s, c), B, On(h, t, L)!PathOver(f, l))
        BY <2>1, <2>2, <3>3, Zenon DEF PathStep, l
      <3>5. QED
        BY <3>4, Zenon DEF FirstOf, Any, On!NextPath, B, l
    <2>5. QED
      BY <2>3, <2>4, Zenon
  <1>. HIDE DEF S, C, D
  <1>3. PICK f : f = [c \in 0 .. LastBus |-> PathStep(S, C, D, f, c)]
    <2>1. HasPaths(S, C, D, LastBus)
      BY <1>1, PathsExist, Zenon
    <2>2. QED
      BY <2>1, Zenon DEF HasPaths
  <1>4. f = [c \in 0 .. LastBus |-> On(h, t, L)!NextPath(f, s, c)]
    BY <1>2, <1>3, Zenon
  <1>5. On(h, t, L)!BusPath(s) =
          [c \in 0 .. LastBus |-> On(h, t, L)!NextPath(On(h, t, L)!BusPath(s), s, c)]
    BY <1>4, Zenon DEF On!BusPath
  <1>6. QED
    BY <1>5, Zenon

-----------------------------------------------------------------------------
(* What the scan has passed, it has made nodes for.  G are functions that do
   not answer any more (none do that in PciTree); of those left, a bus that has been
   scanned has all nodes but the lost ones, and what a known bridge leads to
   has been scanned or is being scanned. *)
Left(G) ==
  {l \in DOMAIN hw \ G :
     /\ HasRoute(table, l.Seg, 0)
     /\ l.Fun # 0 =>
          LET first == [l EXCEPT !.Fun = 0]
          IN first \in DOMAIN hw \ G /\ hw[first].multi}

Met == {heap[n].Loc : n \in Ids}

BusDone(G, s, b) == \A l \in Left(G) \ lost : l.Seg = s /\ l.Bus = b => l \in Met

Pending(s, b) == \E k \in 1 .. Len(scans) : scans[k].Seg = s /\ scans[k].Bus = b

Covered(G, s, b) == BusDone(G, s, b) \/ Pending(s, b)

Passed(f, l) == l.Dev < f.Dev \/ (l.Dev = f.Dev /\ l.Fun < f.Fun)

FrameCovered(G, f) ==
  \A l \in Left(G) :
    l.Seg = f.Seg /\ l.Bus = f.Bus =>
      /\ Passed(f, l) => l \in Met \/ l \in lost
      /\ l.Dev = f.Dev /\ f.MaxFun = 1 /\ f.Fun > 0 => l.Fun = 0

FramesCovered(G) == \A k \in 1 .. Len(scans) : FrameCovered(G, scans[k])

BridgesCovered(G, E) ==
  \A l \in Left(G) \cap Met :
    hw[l].bridge /\ l \notin E => Covered(G, l.Seg, hw[l].secondary)

StartsCovered(G) ==
  \A i \in 1 .. Len(Starts) :
    ~Scanning \/ i < index \/ (i = index /\ pc # "segment") =>
      Covered(G, Starts[i].Seg, Starts[i].StartBus)

CoverOK(G, E) == FramesCovered(G) /\ BridgesCovered(G, E) /\ StartsCovered(G)

LEMMA LeftStays ==
  ASSUME UNCHANGED <<hw, table>>, Met \subseteq Met', lost \subseteq lost', NEW G
  PROVE  /\ Left(G)' = Left(G)
         /\ \A f : FrameCovered(G, f) => FrameCovered(G, f)'
         /\ \A s, b : BusDone(G, s, b) => BusDone(G, s, b)'
PROOF
  <1>1. Left(G)' = Left(G)
    BY Zenon DEF Left
  <1>2. ASSUME NEW f, FrameCovered(G, f) PROVE FrameCovered(G, f)'
    BY <1>1, <1>2, Zenon DEF FrameCovered
  <1>3. ASSUME NEW s, NEW b, BusDone(G, s, b) PROVE BusDone(G, s, b)'
    BY <1>1, <1>3, Zenon DEF BusDone
  <1>4. QED
    BY <1>1, <1>2, <1>3, Zenon

LEMMA LeftTypes ==
  ASSUME PlatformTypeOK, NEW G, NEW l \in Left(G)
  PROVE  /\ l = [Seg |-> l.Seg, Bus |-> l.Bus, Dev |-> l.Dev, Fun |-> l.Fun]
         /\ l.Dev \in 0 .. LastDev /\ l.Fun \in 0 .. LastFun /\ l.Bus \in 0 .. LastBus
         /\ hw[l].secondary \in 0 .. LastBus
PROOF
  <1>1. l \in Locations /\ hw[l] \in Headers
    BY DEF PlatformTypeOK, Left
  <1>2. QED
    BY <1>1 DEF Locations, Headers

(* The running activation, one function on. *)
LEMMA FrameAdvances ==
  ASSUME PlatformTypeOK, UNCHANGED <<hw, table>>, Met \subseteq Met', lost \subseteq lost',
         NEW G, NEW f \in ScanFrames, FrameCovered(G, f), NEW g,
         g.Seg = f.Seg, g.Bus = f.Bus, g.Dev = f.Dev, g.Fun = f.Fun + 1,
         Here(f) \in Left(G) => Here(f) \in Met' \cup lost',
         g.MaxFun = 1 =>
           f.Fun = 0 /\ (LastFun = 0 \/ Here(f) \notin Left(G) \/ ~hw[Here(f)].multi)
  PROVE  FrameCovered(G, g)'
PROOF
  <1>. USE GeometryAssumption
  <1>1. Left(G)' = Left(G) /\ FrameCovered(G, f)'
    BY LeftStays, Zenon
  <1>2. f.Fun \in Nat /\ f.Dev \in Nat
    BY DEF ScanFrames
  <1>3. SUFFICES ASSUME NEW l \in Left(G), l.Seg = f.Seg, l.Bus = f.Bus
                 PROVE  /\ Passed(g, l) => l \in Met' \/ l \in lost'
                        /\ l.Dev = g.Dev /\ g.MaxFun = 1 /\ g.Fun > 0 => l.Fun = 0
    BY <1>1, Zenon DEF FrameCovered
  <1>4. /\ l = [Seg |-> l.Seg, Bus |-> l.Bus, Dev |-> l.Dev, Fun |-> l.Fun]
        /\ l.Dev \in Nat /\ l.Fun \in Nat /\ l.Fun <= LastFun
    BY LeftTypes
  <1>5. l.Dev = f.Dev /\ l.Fun = f.Fun => l = Here(f)
    BY <1>3, <1>4, Zenon DEF Here
  <1>6. Passed(g, l) => l \in Met' \/ l \in lost'
    <2>1. Passed(g, l) => Passed(f, l) \/ (l.Dev = f.Dev /\ l.Fun = f.Fun)
      BY <1>2, <1>4 DEF Passed
    <2>2. Passed(f, l) => l \in Met' \/ l \in lost'
      BY <1>1, <1>3, Zenon DEF FrameCovered
    <2>3. QED
      BY <1>3, <1>5, <2>1, <2>2, Zenon
  <1>7. ASSUME l.Dev = g.Dev, g.MaxFun = 1 PROVE l.Fun = 0
    <2>1. CASE LastFun = 0
      BY <1>4, <2>1
    <2>2. CASE LastFun # 0 /\ l.Fun # 0
      <3>1. f.Fun = 0 /\ (Here(f) \notin Left(G) \/ ~hw[Here(f)].multi)
        BY <1>7, <2>2, Zenon
      <3>2. [l EXCEPT !.Fun = 0] = Here(f)
        <4>1. [l EXCEPT !.Fun = 0] = [Seg |-> l.Seg, Bus |-> l.Bus, Dev |-> l.Dev, Fun |-> 0]
          BY <1>4
        <4>2. QED
          BY <1>3, <1>7, <3>1, <4>1, Zenon DEF Here
      <3>3. Here(f) \in DOMAIN hw \ G /\ hw[Here(f)].multi
        BY <2>2, <3>2, Zenon DEF Left
      <3>4. HasRoute(table, Here(f).Seg, 0) /\ Here(f).Fun = 0
        <4>1. HasRoute(table, l.Seg, 0)
          BY Zenon DEF Left
        <4>2. Here(f).Seg = l.Seg /\ Here(f).Fun = 0
          BY <1>3, <3>1 DEF Here
        <4>3. QED
          BY <4>1, <4>2, Zenon
      <3>5. Here(f) \in Left(G)
        BY <3>3, <3>4, Zenon DEF Left
      <3>6. QED
        BY <3>1, <3>3, <3>5, Zenon
    <2>3. QED
      BY <2>1, <2>2, Zenon
  <1>8. QED
    BY <1>6, <1>7, Zenon

(* ... one device on. *)
LEMMA FrameNextDevice ==
  ASSUME PlatformTypeOK, NEW G, NEW f \in ScanFrames, FrameCovered(G, f), f.Fun >= f.MaxFun,
         NEW g, g.Seg = f.Seg, g.Bus = f.Bus, g.Dev = f.Dev + 1, g.Fun = 0
  PROVE  FrameCovered(G, g)
PROOF
  <1>. USE GeometryAssumption
  <1>1. f.Fun \in Nat /\ f.Dev \in Nat /\ f.MaxFun \in {1, LastFun + 1}
    BY DEF ScanFrames
  <1>2. SUFFICES ASSUME NEW l \in Left(G), l.Seg = f.Seg, l.Bus = f.Bus
                 PROVE  Passed(g, l) => l \in Met \/ l \in lost
    BY <1>1 DEF FrameCovered
  <1>3. l.Dev \in Nat /\ l.Fun \in Nat /\ l.Fun <= LastFun
    BY LeftTypes
  <1>4. l.Dev = f.Dev /\ f.MaxFun = 1 /\ f.Fun > 0 => l.Fun = 0
    BY <1>2, Zenon DEF FrameCovered
  <1>5. Passed(g, l) => Passed(f, l)
    BY <1>1, <1>3, <1>4 DEF Passed
  <1>6. QED
    BY <1>2, <1>5, Zenon DEF FrameCovered

(* ... at the end of its bus. *)
LEMMA FrameDone ==
  ASSUME PlatformTypeOK, NEW G, NEW f \in ScanFrames, FrameCovered(G, f), f.Dev > LastDev
  PROVE  BusDone(G, f.Seg, f.Bus)
PROOF
  <1>1. SUFFICES ASSUME NEW l \in Left(G), l.Seg = f.Seg, l.Bus = f.Bus PROVE l \in Met \/ l \in lost
    BY Zenon DEF BusDone
  <1>2. Passed(f, l)
    <2>1. l.Dev \in 0 .. LastDev /\ f.Dev \in Nat
      BY LeftTypes, GeometryAssumption DEF ScanFrames
    <2>2. QED
      BY <2>1, GeometryAssumption DEF Passed
  <1>3. QED
    BY <1>1, <1>2, Zenon DEF FrameCovered

LEMMA FrameFresh ==
  ASSUME PlatformTypeOK, NEW G, NEW s, NEW b, NEW o
  PROVE  FrameCovered(G, ScanFrame(s, b, o))
PROOF
  <1>1. SUFFICES ASSUME NEW l \in Left(G) PROVE ~Passed(ScanFrame(s, b, o), l)
    BY DEF FrameCovered, ScanFrame
  <1>2. l.Dev \in Nat /\ l.Fun \in Nat
    BY LeftTypes, GeometryAssumption
  <1>3. QED
    BY <1>2 DEF Passed, ScanFrame

(* A step of ScanPciBus: the activations below the running one rest. *)
LEMMA CoverReplaced ==
  ASSUME UNCHANGED <<hw, table, pc, index>>, pc = "scan",
         Met \subseteq Met', lost \subseteq lost',
         NEW G, NEW E, CoverOK(G, E), NEW H,
         NEW D \in Nat \ {0}, D = Len(scans), Len(scans') \in Nat, Len(scans') >= D,
         \A k \in 1 .. D - 1 : scans'[k] = scans[k],
         scans'[D].Seg = scans[D].Seg, scans'[D].Bus = scans[D].Bus,
         \A k \in D .. Len(scans') : FrameCovered(G, scans[k])',
         \A l \in (Met' \ Met) \cup E :
           l \in Left(G) \ H /\ hw[l].bridge => Covered(G, l.Seg, hw[l].secondary)'
  PROVE  CoverOK(G, H)'
PROOF
  <1>1. /\ Left(G)' = Left(G)
        /\ \A f : FrameCovered(G, f) => FrameCovered(G, f)'
        /\ \A s, b : BusDone(G, s, b) => BusDone(G, s, b)'
    BY LeftStays, Zenon
  <1>2. FramesCovered(G)'
    <2>1. SUFFICES ASSUME NEW k \in 1 .. Len(scans') PROVE FrameCovered(G, scans[k])'
      BY Zenon DEF FramesCovered
    <2>2. CASE k \in 1 .. D - 1
      <3>1. PICK f : f = scans[k] /\ f = scans'[k]
        BY <2>2, Zenon
      <3>2. k \in 1 .. Len(scans)
        BY <2>2
      <3>3. FrameCovered(G, f)
        BY <3>1, <3>2, Zenon DEF CoverOK, FramesCovered
      <3>4. FrameCovered(G, f)'
        BY <1>1, <3>3, Zenon
      <3>5. QED
        BY <3>1, <3>4, Zenon DEF FrameCovered
    <2>3. CASE k \in D .. Len(scans')
      BY <2>3, Zenon
    <2>4. QED
      BY <2>2, <2>3
  <1>3. ASSUME NEW s, NEW b, Covered(G, s, b) PROVE Covered(G, s, b)'
    <2>1. Pending(s, b) => Pending(s, b)'
      <3>1. SUFFICES ASSUME NEW k \in 1 .. D, scans[k].Seg = s, scans[k].Bus = b
                     PROVE  Pending(s, b)'
        BY Zenon DEF Pending
      <3>2. k \in 1 .. Len(scans') /\ (k = D \/ k \in 1 .. D - 1)
        OBVIOUS
      <3>3. scans'[k].Seg = s /\ scans'[k].Bus = b
        BY <3>1, <3>2, Zenon
      <3>4. QED
        BY <3>2, <3>3, Zenon DEF Pending
    <2>2. QED
      BY <1>1, <1>3, <2>1, Zenon DEF Covered
  <1>4. BridgesCovered(G, H)'
    <2>1. SUFFICES ASSUME NEW l \in Left(G) \cap Met', hw[l].bridge, l \notin H
                   PROVE  Covered(G, l.Seg, hw[l].secondary)'
      BY <1>1, Zenon DEF BridgesCovered
    <2>2. CASE l \in (Met' \ Met) \cup E
      BY <2>1, <2>2, Zenon
    <2>3. CASE l \in Met /\ l \notin E
      <3>1. Covered(G, l.Seg, hw[l].secondary)
        BY <2>1, <2>3, Zenon DEF CoverOK, BridgesCovered
      <3>2. QED
        BY <1>3, <3>1, Zenon
    <2>4. QED
      BY <2>2, <2>3, Zenon
  <1>5. StartsCovered(G)'
    <2>1. Starts' = Starts /\ (Scanning' <=> Scanning)
      BY Zenon DEF Starts, Scanning
    <2>2. QED
      BY <1>3, <2>1, Zenon DEF CoverOK, StartsCovered
  <1>6. QED
    BY <1>2, <1>4, <1>5, Zenon DEF CoverOK

(* The returns: the bus of the activation that ends has been scanned. *)
LEMMA CoverReturned ==
  ASSUME TypeInv, UNCHANGED <<hw, table, index>>, pc = "scan",
         Met' = Met, lost' = lost,
         NEW G, CoverOK(G, {}), Top(scans).Dev > LastDev, scans' = Below(scans),
         \/ pc' = "scan"
         \/ pc' = "link" /\ scans' = <<>>
         \/ pc' = "scanned" /\ scans' = <<>> /\ table = <<>>
  PROVE  CoverOK(G, {})'
PROOF
  <1>. DEFINE f == Top(scans)
              D == Len(scans)
  <1>1. /\ Left(G)' = Left(G)
        /\ \A x : FrameCovered(G, x) => FrameCovered(G, x)'
        /\ \A s, b : BusDone(G, s, b) => BusDone(G, s, b)'
    BY LeftStays, Zenon
  <1>2. scans \in Seq(ScanFrames) /\ scans # <<>> /\ PlatformTypeOK
    BY DEF TypeInv, TypeOK, StackTypeOK
  <1>3. D \in Nat \ {0} /\ f \in ScanFrames /\ f = scans[D] /\ D \in 1 .. D
    BY <1>2, TopLemma DEF Top
  <1>4. Len(scans') = D - 1 /\ \A k \in 1 .. D - 1 : scans'[k] = scans[k]
    BY <1>2, BelowLemma
  <1>5. BusDone(G, f.Seg, f.Bus)
    <2>1. FrameCovered(G, f)
      BY <1>3, Zenon DEF CoverOK, FramesCovered
    <2>. HIDE DEF f
    <2>2. QED
      BY <1>2, <1>3, <2>1, FrameDone DEF f
  <1>. HIDE DEF f, D
  <1>6. FramesCovered(G)'
    <2>1. SUFFICES ASSUME NEW k \in 1 .. D - 1 PROVE FrameCovered(G, scans[k])'
      BY <1>4, Zenon DEF FramesCovered
    <2>2. PICK x : x = scans[k] /\ x = scans'[k]
      BY <1>4, Zenon
    <2>3. k \in 1 .. Len(scans)
      BY <1>3 DEF D
    <2>4. FrameCovered(G, x)'
      BY <1>1, <2>2, <2>3, Zenon DEF CoverOK, FramesCovered
    <2>5. QED
      BY <2>2, <2>4, Zenon DEF FrameCovered
  <1>7. ASSUME NEW s, NEW b, Covered(G, s, b) PROVE Covered(G, s, b)'
    <2>1. CASE BusDone(G, s, b)
      BY <1>1, <2>1, Zenon DEF Covered
    <2>2. ASSUME NEW k \in 1 .. D, scans[k].Seg = s, scans[k].Bus = b
          PROVE  Covered(G, s, b)'
      <3>1. CASE k = D
        <4>1. BusDone(G, s, b)
          BY <1>3, <1>5, <2>2, <3>1, Zenon
        <4>2. QED
          BY <1>1, <4>1, Zenon DEF Covered
      <3>2. CASE k \in 1 .. D - 1
        <4>1. scans'[k].Seg = s /\ scans'[k].Bus = b
          BY <1>4, <2>2, <3>2, Zenon
        <4>2. QED
          BY <1>4, <3>2, <4>1, Zenon DEF Covered, Pending
      <3>3. QED
        BY <1>3, <3>1, <3>2
    <2>3. QED
      BY <1>7, <2>1, <2>2, Zenon DEF Covered, Pending, D
  <1>8. BridgesCovered(G, {})'
    BY <1>1, <1>7, Zenon DEF CoverOK, BridgesCovered
  <1>9. StartsCovered(G)'
    <2>1. Starts' = Starts
      BY Zenon DEF Starts
    <2>2. SUFFICES ASSUME NEW i \in 1 .. Len(Starts),
                          ~Scanning' \/ i < index \/ (i = index /\ pc' # "segment")
                   PROVE  Covered(G, Starts[i].Seg, Starts[i].StartBus)'
      BY <2>1, Zenon DEF StartsCovered
    <2>3. i < index \/ i = index
      <3>1. CASE Scanning'
        BY <2>2, <3>1
      <3>2. CASE ~Scanning'
        <4>1. table = <<>>
          BY <3>2 DEF Scanning
        <4>2. Len(Starts) = 1
          BY <4>1 DEF Starts
        <4>3. index \in 1 .. Len(Starts) + 1 /\ index <= Len(Starts)
          BY DEF TypeInv, TypeOK, ControlTypeOK, ControlOK
        <4>4. QED
          BY <4>2, <4>3
      <3>3. QED
        BY <3>1, <3>2
    <2>4. Covered(G, Starts[i].Seg, Starts[i].StartBus)
      BY <2>3, Zenon DEF CoverOK, StartsCovered
    <2>5. PICK s, b : s = Starts[i].Seg /\ b = Starts[i].StartBus
      OBVIOUS
    <2>6. Covered(G, s, b)'
      BY <1>7, <2>4, <2>5, Zenon
    <2>7. QED
      BY <2>1, <2>5, <2>6, Zenon
  <1>10. QED
    BY <1>6, <1>8, <1>9, Zenon DEF CoverOK

(* The steps of ScanAllSegments and those after the scan. *)
LEMMA CoverOutside ==
  ASSUME TypeInv, UNCHANGED <<hw, table>>, pc # "scan",
         Met' = Met, lost' = lost, NEW G, CoverOK(G, {}),
         \/ UNCHANGED <<index, scans>> /\ pc = "segment" /\ index > Len(Starts)
         \/ UNCHANGED <<index, scans>> /\ pc \in {"link", "last"} /\ pc' \in {"link", "last"}
         \/ UNCHANGED <<index, scans>> /\ ~Scanning
         \/ scans' = scans /\ index' = index + 1 /\ pc \in {"link", "last"} /\ pc' = "segment"
         \/ /\ pc = "segment" /\ pc' = "scan" /\ index' = index /\ index \in 1 .. Len(Starts)
            /\ scans' = <<ScanFrame(Starts[index].Seg, Starts[index].StartBus, NULL)>>
         \/ UNCHANGED <<pc, index, scans>>
  PROVE  CoverOK(G, {})'
PROOF
  <1>1. /\ Left(G)' = Left(G)
        /\ \A x : FrameCovered(G, x) => FrameCovered(G, x)'
        /\ \A s, b : BusDone(G, s, b) => BusDone(G, s, b)'
    BY LeftStays, Zenon
  <1>2. PlatformTypeOK /\ scans = <<>> /\ index \in 1 .. Len(Starts) + 1 /\ Len(Starts) \in Nat
    BY DEF TypeInv, TypeOK, StackTypeOK, PlatformTypeOK, ControlTypeOK, Starts
  <1>3. ASSUME NEW s, NEW b, Covered(G, s, b) PROVE Covered(G, s, b)'
    <2>1. ~Pending(s, b)
      <3>1. 1 .. Len(scans) = {}
        BY <1>2
      <3>2. QED
        BY <3>1, Zenon DEF Pending
    <2>2. QED
      BY <1>1, <1>3, <2>1, Zenon DEF Covered
  <1>4. FramesCovered(G)'
    <2>1. CASE scans' = <<>>
      <3>1. 1 .. Len(scans') = {}
        BY <2>1
      <3>2. QED
        BY <3>1, Zenon DEF FramesCovered
    <2>2. CASE scans' # <<>>
      <3>1. PICK s, b : scans' = <<ScanFrame(s, b, NULL)>>
        BY <1>2, <2>2
      <3>2. FrameCovered(G, ScanFrame(s, b, NULL))
        BY <1>2, FrameFresh
      <3>3. FrameCovered(G, ScanFrame(s, b, NULL))'
        BY <1>1, <3>2, Zenon
      <3>4. \A k \in 1 .. Len(scans') : scans'[k] = ScanFrame(s, b, NULL)
        BY <3>1
      <3>5. QED
        BY <3>3, <3>4, Zenon DEF FramesCovered, FrameCovered
    <2>3. QED
      BY <2>1, <2>2
  <1>5. BridgesCovered(G, {})'
    BY <1>1, <1>3, Zenon DEF CoverOK, BridgesCovered
  <1>6. StartsCovered(G)'
    <2>1. Starts' = Starts
      BY Zenon DEF Starts
    <2>2. SUFFICES ASSUME NEW i \in 1 .. Len(Starts),
                          ~Scanning' \/ i < index' \/ (i = index' /\ pc' # "segment")
                   PROVE  Covered(G, Starts[i].Seg, Starts[i].StartBus)'
      BY <2>1, Zenon DEF StartsCovered
    <2>3. CASE pc = "segment" /\ pc' = "scan" /\ i = index
      <3>1. scans' = <<ScanFrame(Starts[index].Seg, Starts[index].StartBus, NULL)>>
        BY <1>2, <2>3 DEF Scanning
      <3>2. Len(scans') = 1 /\ scans'[1].Seg = Starts[i].Seg /\ scans'[1].Bus = Starts[i].StartBus
        BY <2>3, <3>1 DEF ScanFrame
      <3>3. 1 \in 1 .. Len(scans')
        BY <3>2
      <3>4. QED
        BY <2>1, <3>2, <3>3, Zenon DEF Covered, Pending
    <2>4. CASE ~(pc = "segment" /\ pc' = "scan" /\ i = index)
      <3>1. ~Scanning \/ i < index \/ (i = index /\ pc # "segment")
        BY <1>2, <2>2, <2>4 DEF Scanning
      <3>2. Covered(G, Starts[i].Seg, Starts[i].StartBus)
        BY <3>1, Zenon DEF CoverOK, StartsCovered
      <3>3. PICK s, b : s = Starts[i].Seg /\ b = Starts[i].StartBus
        OBVIOUS
      <3>4. Covered(G, s, b)'
        BY <1>3, <3>2, <3>3, Zenon
      <3>5. QED
        BY <2>1, <3>3, <3>4, Zenon
    <2>5. QED
      BY <2>3, <2>4
  <1>7. QED
    BY <1>4, <1>5, <1>6, Zenon DEF CoverOK

-----------------------------------------------------------------------------
(* The steps that make no node and turn no function away. *)
Onward ==
  \/ BeginSegment \/ NextDevice \/ ReturnToBridge \/ ReturnToSegment
  \/ SkipEmptySegment \/ LinkSegment \/ LastSiblingStep \/ LastSiblingReturn
  \/ EndSegments \/ Walk \/ Free

LEMMA OnwardFunctions ==
  ASSUME Onward, heap \in Seq(NODE)
  PROVE  Ids' = Ids /\ \A n \in Ids : SameFunction(heap'[n], heap[n])
PROOF
  <1>1. CASE UNCHANGED heap
    BY <1>1 DEF Ids, SameFunction
  <1>2. ASSUME NEW i, NEW v,
               heap' = [heap EXCEPT ![i].NextSibling = v] \/ heap' = [heap EXCEPT ![i].FirstChild = v]
        PROVE  Ids' = Ids /\ \A n \in Ids : SameFunction(heap'[n], heap[n])
    <2>1. \A n \in Ids : SameFunction(heap'[n], heap[n])
      BY <1>2, LinkKeepsFunction DEF Ids
    <2>2. DOMAIN heap' = DOMAIN heap
      BY <1>2
    <2>3. Len(heap') = Len(heap)
      BY <1>2
    <2>4. QED
      BY <2>1, <2>3 DEF Ids
  <1>3. CASE ReturnToBridge
    BY <1>2, <1>3 DEF ReturnToBridge
  <1>4. CASE LinkSegment
    BY <1>1, <1>2, <1>4 DEF LinkSegment
  <1>5. QED
    BY <1>1, <1>3, <1>4 DEF Onward, BeginSegment, NextDevice, ReturnToSegment, SkipEmptySegment,
       LastSiblingStep, LastSiblingReturn, EndSegments, Walk, BeginWalk, SkipWalk, Visit,
       ReturnFromWalk, Free, FreeEnter, Release, ReturnFromFree

LEMMA OnwardMet ==
  ASSUME TypeInv, Onward
  PROVE  UNCHANGED <<hw, table, lost>> /\ Met' = Met
PROOF
  <1>1. heap \in Seq(NODE)
    BY DEF TypeInv, TypeOK, HeapTypeOK
  <1>2. Ids' = Ids /\ \A n \in Ids : heap'[n].Loc = heap[n].Loc
    BY <1>1, OnwardFunctions DEF SameFunction
  <1>3. Met' = Met
    BY <1>2, Zenon DEF Met
  <1>4. UNCHANGED <<hw, table, lost>>
    BY DEF Onward, BeginSegment, NextDevice, ReturnToBridge, ReturnToSegment, SkipEmptySegment,
       LinkSegment, LastSiblingStep, LastSiblingReturn, EndSegments, Walk, BeginWalk, SkipWalk, Visit,
       ReturnFromWalk, Free, FreeEnter, Release, ReturnFromFree, platform, locals
  <1>5. QED
    BY <1>3, <1>4

LEMMA CoverOnward ==
  ASSUME TypeInv, Onward, NEW G, CoverOK(G, {})
  PROVE  CoverOK(G, {})'
PROOF
  <1>1. UNCHANGED <<hw, table, lost>> /\ Met' = Met
    BY OnwardMet
  <1>2. CASE NextDevice
    <2>. DEFINE f == Top(scans)
                g == [f EXCEPT !.Dev = @ + 1, !.Fun = 0, !.MaxFun = 1]
    <2>0. PICK D : D = Len(scans)
      OBVIOUS
    <2>1. /\ pc = "scan" /\ f.Fun >= f.MaxFun /\ scans' = SetTop(scans, g)
          /\ UNCHANGED <<hw, table, pc, index>>
      BY <1>2 DEF NextDevice, platform, locals
    <2>2. scans \in Seq(ScanFrames) /\ scans # <<>> /\ PlatformTypeOK
      BY <2>1 DEF TypeInv, TypeOK, StackTypeOK
    <2>3. D \in Nat \ {0} /\ f \in ScanFrames /\ f = scans[D] /\ D \in 1 .. D
      BY <2>0, <2>2, TopLemma DEF Top
    <2>4. g.Seg = f.Seg /\ g.Bus = f.Bus /\ g.Dev = f.Dev + 1 /\ g.Fun = 0
      <3>. HIDE DEF f
      <3>1. QED
        BY <2>3 DEF ScanFrames
    <2>5. FrameCovered(G, f)
      BY <2>0, <2>3, Zenon DEF CoverOK, FramesCovered
    <2>. HIDE DEF f, g
    <2>6. FrameCovered(G, g)
      BY <2>1, <2>2, <2>3, <2>4, <2>5, FrameNextDevice
    <2>7. /\ Len(scans') = D /\ scans'[D] = g
          /\ \A k \in 1 .. D - 1 : scans'[k] = scans[k]
      <3>1. /\ Len(SetTop(scans, g)) = Len(scans) /\ SetTop(scans, g)[Len(scans)] = g
            /\ \A k \in 1 .. Len(scans) - 1 : SetTop(scans, g)[k] = scans[k]
        <4>1. PICK x : x = g
          OBVIOUS
        <4>2. scans \in Seq(ScanFrames) /\ scans # <<>>
          BY <2>2
        <4>3. /\ Len(SetTop(scans, x)) = Len(scans) /\ SetTop(scans, x)[Len(scans)] = x
              /\ \A k \in 1 .. Len(scans) - 1 : SetTop(scans, x)[k] = scans[k]
              /\ SetTop(scans, x) \in Seq(ScanFrames \cup {x})
          BY <4>2, ReplaceTop
        <4>4. QED
          BY <4>1, <4>3, Zenon
      <3>2. QED
        BY <2>0, <2>1, <3>1, Zenon
    <2>8. \A x : FrameCovered(G, x) => FrameCovered(G, x)'
      BY <1>1, LeftStays, Zenon
    <2>9. \A k \in D .. Len(scans') : FrameCovered(G, scans[k])'
      <3>1. FrameCovered(G, scans'[D])
        BY <2>6, <2>7, Zenon
      <3>2. PICK x : x = scans'[D]
        OBVIOUS
      <3>3. FrameCovered(G, x)'
        BY <2>8, <3>1, <3>2, Zenon
      <3>4. FrameCovered(G, scans[D])'
        BY <3>2, <3>3, Zenon DEF FrameCovered
      <3>5. \A k \in D .. Len(scans') : k = D
        BY <2>3, <2>7
      <3>6. QED
        BY <3>4, <3>5, Zenon
    <2>10. scans'[D].Seg = scans[D].Seg /\ scans'[D].Bus = scans[D].Bus
      BY <2>3, <2>4, <2>7, Zenon
    <2>11. Len(scans') \in Nat /\ Len(scans') >= D /\ D = Len(scans)
      BY <2>0, <2>3, <2>7
    <2>12. QED
      BY <1>1, <2>1, <2>3, <2>7, <2>9, <2>10, <2>11, CoverReplaced, Zenon
  <1>3. CASE ReturnToBridge \/ ReturnToSegment
    <2>1. /\ pc = "scan" /\ Top(scans).Dev > LastDev /\ UNCHANGED index
          /\ ReturnToBridge => pc' = "scan" /\ scans' = Below(scans)
          /\ ReturnToSegment =>
               /\ Len(scans) = 1 /\ scans' = <<>>
               /\ pc' = "link" \/ (pc' = "scanned" /\ table = <<>>)
      BY <1>3 DEF ReturnToBridge, ReturnToSegment, platform, locals
    <2>2. ReturnToSegment => Below(scans) = <<>>
      <3>1. scans \in Seq(ScanFrames)
        BY DEF TypeInv, TypeOK, StackTypeOK
      <3>2. Len(scans) = 1 => Len(Below(scans)) = 0 /\ Below(scans) \in Seq(ScanFrames)
        <4>1. Len(scans) = 1 => scans # <<>>
          BY <3>1
        <4>2. scans # <<>> => Len(Below(scans)) = Len(scans) - 1 /\ Below(scans) \in Seq(ScanFrames)
          BY <3>1, BelowLemma
        <4>3. QED
          BY <4>1, <4>2
      <3>3. QED
        BY <2>1, <3>2
    <2>3. scans' = Below(scans)
      BY <1>3, <2>1, <2>2
    <2>4. QED
      BY <1>1, <1>3, <2>1, <2>3, CoverReturned, Zenon
  <1>4. CASE ~(NextDevice \/ ReturnToBridge \/ ReturnToSegment)
    <2>1. /\ pc # "scan"
          /\ \/ UNCHANGED <<index, scans>> /\ pc = "segment" /\ index > Len(Starts)
             \/ UNCHANGED <<index, scans>> /\ pc \in {"link", "last"} /\ pc' \in {"link", "last"}
             \/ UNCHANGED <<index, scans>> /\ ~Scanning
             \/ scans' = scans /\ index' = index + 1 /\ pc \in {"link", "last"} /\ pc' = "segment"
             \/ /\ pc = "segment" /\ pc' = "scan" /\ index' = index /\ index \in 1 .. Len(Starts)
                /\ scans' = <<ScanFrame(Starts[index].Seg, Starts[index].StartBus, NULL)>>
      <3>1. index \in Nat \ {0} /\ Len(Starts) \in Nat
        BY DEF TypeInv, TypeOK, ControlTypeOK, PlatformTypeOK, Starts
      <3>2. CASE BeginSegment \/ SkipEmptySegment \/ LinkSegment \/ LastSiblingStep
                 \/ LastSiblingReturn \/ EndSegments
        BY <3>1, <3>2 DEF BeginSegment, SkipEmptySegment, LinkSegment, LastSiblingStep,
           LastSiblingReturn, EndSegments, locals
      <3>3. CASE Walk \/ Free
        BY <3>3 DEF Walk, BeginWalk, SkipWalk, Visit, ReturnFromWalk, Free, FreeEnter, Release,
           ReturnFromFree, locals, Scanning
      <3>4. QED
        BY <1>4, <3>2, <3>3, Zenon DEF Onward
    <2>2. QED
      BY <1>1, <2>1, CoverOutside, Zenon
  <1>5. QED
    BY <1>2, <1>3, <1>4, Zenon

(* A turn of the function loop: the function gets a node, or is turned away. *)
LEMMA CoverTurn ==
  ASSUME TypeInv, SkipAbsent \/ NoMemory \/ AddNode, CoverOK({}, {})
  PROVE  CoverOK({}, {})'
PROOF
  <1>0. PICK f : f = Top(scans)
    OBVIOUS
  <1>1. /\ pc = "scan" /\ UNCHANGED <<hw, table, pc, index>> /\ f.Fun < f.MaxFun
        /\ UNCHANGED heap \/ AddNode
        /\ lost \subseteq lost'
    BY <1>0 DEF SkipAbsent, NoMemory, AddNode, InFunctionLoop, platform, locals
  <1>2. scans \in Seq(ScanFrames) /\ scans # <<>> /\ PlatformTypeOK /\ TypeOK /\ Len(heap) \in Nat
    BY <1>1 DEF TypeInv, TypeOK, StackTypeOK, HeapTypeOK
  <1>3. PICK D : D = Len(scans)
    OBVIOUS
  <1>4. D \in Nat \ {0} /\ f \in ScanFrames /\ f = scans[D] /\ D \in 1 .. D
    BY <1>0, <1>2, <1>3, TopLemma DEF Top
  <1>5. FrameCovered({}, f)
    BY <1>3, <1>4, Zenon DEF CoverOK, FramesCovered
  <1>6. Here(f) \in Left({}) => Answers(Here(f)) /\ Here(f) \in DOMAIN hw
    BY DEF Left, Answers
  <1>7. /\ Met \subseteq Met' /\ Met' \ Met \subseteq {Here(f)}
        /\ AddNode => Here(f) \in Met'
        /\ UNCHANGED heap => ~AddNode
    <2>1. CASE UNCHANGED heap
      <3>1. Met' = Met
        BY <2>1 DEF Met, Ids
      <3>2. ~AddNode
        <4>1. ASSUME AddNode PROVE FALSE
          <5>1. Answers(Here(f)) /\ heap' = WithNode(f)
            BY <1>0, <4>1 DEF AddNode
          <5>2. Len(WithNode(f)) = Len(heap) + 1
            BY <1>0, <1>1, <1>2, <5>1, WithNodeLemma
          <5>3. QED
            BY <1>2, <2>1, <5>1, <5>2
        <4>2. QED
          BY <4>1
      <3>3. QED
        BY <3>1, <3>2
    <2>2. CASE AddNode
      <3>1. Answers(Here(f)) /\ heap' = WithNode(f)
        BY <1>0, <2>2 DEF AddNode
      <3>2. Len(heap') = Len(heap) + 1
        BY <1>0, <1>1, <1>2, <3>1, WithNodeLemma
      <3>3. heap'[Len(heap) + 1].Loc = Here(f) /\ \A n \in Ids : heap'[n].Loc = heap[n].Loc
        BY <1>0, <1>1, <1>2, <3>1, WithNodeFunctions DEF SameFunction
      <3>4. \A n : n \in Ids' <=> n \in Ids \/ n = Len(heap) + 1
        BY <1>2, <3>2 DEF Ids
      <3>5. heap' # heap
        BY <1>2, <3>2
      <3>6. QED
        BY <3>3, <3>4, <3>5, Zenon DEF Met
    <2>3. QED
      BY <1>1, <2>1, <2>2
  <1>8. PICK g : /\ g.Seg = f.Seg /\ g.Bus = f.Bus /\ g.Dev = f.Dev /\ g.Fun = f.Fun + 1
                 /\ g.MaxFun = (IF SkipAbsent THEN f.MaxFun ELSE LoopBound(f))
                 /\ \/ scans' = SetTop(scans, g) /\ ~(AddNode /\ hw[Here(f)].bridge)
                    \/ /\ AddNode /\ hw[Here(f)].bridge
                       /\ scans' = Append(SetTop(scans, g), ScanBehind(f, Len(heap) + 1))
    <2>1. CASE SkipAbsent
      <3>. DEFINE g == [f EXCEPT !.Fun = @ + 1]
      <3>1. scans' = SetTop(scans, g)
        BY <1>0, <2>1 DEF SkipAbsent
      <3>2. g.Seg = f.Seg /\ g.Bus = f.Bus /\ g.Dev = f.Dev /\ g.Fun = f.Fun + 1 /\ g.MaxFun = f.MaxFun
        BY <1>4 DEF ScanFrames
      <3>. HIDE DEF g
      <3>3. QED
        BY <1>7, <2>1, <3>1, <3>2 DEF SkipAbsent
    <2>2. CASE NoMemory /\ ~SkipAbsent
      <3>. DEFINE g == [f EXCEPT !.Fun = @ + 1, !.MaxFun = LoopBound(f)]
      <3>1. scans' = SetTop(scans, g)
        BY <1>0, <2>2 DEF NoMemory
      <3>2. g.Seg = f.Seg /\ g.Bus = f.Bus /\ g.Dev = f.Dev /\ g.Fun = f.Fun + 1 /\ g.MaxFun = LoopBound(f)
        BY <1>4 DEF ScanFrames
      <3>. HIDE DEF g
      <3>3. QED
        BY <1>7, <2>2, <3>1, <3>2 DEF NoMemory
    <2>3. CASE AddNode /\ ~SkipAbsent
      <3>. DEFINE g == [f EXCEPT !.Fun = @ + 1, !.MaxFun = LoopBound(f), !.Tail = Len(heap) + 1,
                                 !.Head = IF f.Tail = NULL THEN Len(heap) + 1 ELSE @]
      <3>1. scans' = IF hw[Here(f)].bridge
                       THEN Append(SetTop(scans, g), ScanBehind(f, Len(heap) + 1))
                       ELSE SetTop(scans, g)
        BY <1>0, <2>3 DEF AddNode
      <3>2. g.Seg = f.Seg /\ g.Bus = f.Bus /\ g.Dev = f.Dev /\ g.Fun = f.Fun + 1 /\ g.MaxFun = LoopBound(f)
        BY <1>4 DEF ScanFrames
      <3>. HIDE DEF g
      <3>3. QED
        BY <2>3, <3>1, <3>2
    <2>4. QED
      BY <2>1, <2>2, <2>3, Zenon
  <1>9. FrameCovered({}, g)'
    <2>1. Here(f) \in Left({}) => Here(f) \in Met' \cup lost'
      <3>1. CASE SkipAbsent
        BY <1>0, <1>6, <3>1 DEF SkipAbsent
      <3>2. CASE NoMemory
        BY <1>0, <3>2 DEF NoMemory
      <3>3. QED
        BY <1>7, <3>1, <3>2, Zenon
    <2>2. g.MaxFun = 1 =>
            f.Fun = 0 /\ (LastFun = 0 \/ Here(f) \notin Left({}) \/ ~hw[Here(f)].multi)
      <3>1. f.Fun \in Nat /\ f.MaxFun \in {1, LastFun + 1}
        BY <1>4, GeometryAssumption DEF ScanFrames
      <3>2. CASE SkipAbsent
        BY <1>0, <1>1, <1>6, <1>8, <3>1, <3>2 DEF SkipAbsent
      <3>3. CASE ~SkipAbsent
        <4>1. g.MaxFun = LoopBound(f)
          BY <1>8, <3>3
        <4>2. QED
          BY <1>0, <1>1, <3>1, <4>1, GeometryAssumption DEF LoopBound
      <3>4. QED
        BY <3>2, <3>3
    <2>3. QED
      BY <1>1, <1>2, <1>4, <1>5, <1>7, <1>8, <2>1, <2>2, FrameAdvances, Zenon
  <1>10. /\ Len(SetTop(scans, g)) = D /\ SetTop(scans, g)[D] = g
         /\ \A k \in 1 .. D - 1 : SetTop(scans, g)[k] = scans[k]
         /\ SetTop(scans, g) \in Seq(ScanFrames \cup {g})
    BY <1>2, <1>3, ReplaceTop
  <1>11. \A x : FrameCovered({}, x) => FrameCovered({}, x)'
    BY <1>1, <1>7, LeftStays, Zenon
  <1>12. CASE scans' = SetTop(scans, g) /\ ~(AddNode /\ hw[Here(f)].bridge)
    <2>1. \A l \in Met' \ Met : ~hw[l].bridge
      <3>1. CASE AddNode
        BY <1>7, <1>12, <3>1, Zenon
      <3>2. CASE ~AddNode
        <4>1. Met' = Met
          BY <1>1, <3>2 DEF Met, Ids
        <4>2. QED
          BY <4>1
      <3>3. QED
        BY <3>1, <3>2
    <2>2. \A k \in D .. Len(scans') : FrameCovered({}, scans[k])'
      <3>1. scans'[D] = g
        BY <1>10, <1>12
      <3>2. FrameCovered({}, scans[D])'
        BY <1>9, <3>1, Zenon DEF FrameCovered
      <3>3. \A k \in D .. Len(scans') : k = D
        BY <1>4, <1>10, <1>12
      <3>4. QED
        BY <3>2, <3>3, Zenon
    <2>3. /\ Len(scans') \in Nat /\ Len(scans') >= D
          /\ \A k \in 1 .. D - 1 : scans'[k] = scans[k]
          /\ scans'[D].Seg = scans[D].Seg /\ scans'[D].Bus = scans[D].Bus
      BY <1>4, <1>8, <1>10, <1>12
    <2>4. \A l \in (Met' \ Met) \cup {} :
           l \in Left({}) \ {} /\ hw[l].bridge => Covered({}, l.Seg, hw[l].secondary)'
      BY <2>1, Zenon
    <2>5. QED
      BY <1>1, <1>3, <1>4, <1>7, <2>2, <2>3, <2>4, CoverReplaced, Zenon
  <1>13. CASE AddNode /\ hw[Here(f)].bridge /\ scans' = Append(SetTop(scans, g), ScanBehind(f, Len(heap) + 1))
    <2>1. PICK c : c = ScanBehind(f, Len(heap) + 1)
      OBVIOUS
    <2>2. c.Seg = f.Seg /\ c.Bus = hw[Here(f)].secondary
      BY <2>1 DEF ScanBehind, ScanFrame
    <2>3. FrameCovered({}, c)'
      <3>1. FrameCovered({}, ScanFrame(f.Seg, hw[Here(f)].secondary, Len(heap) + 1))
        BY <1>2, FrameFresh, Zenon
      <3>2. FrameCovered({}, c)
        BY <2>1, <3>1, Zenon DEF ScanBehind
      <3>3. QED
        BY <1>11, <3>2, Zenon
    <2>4. /\ Len(scans') = D + 1 /\ scans'[D + 1] = c /\ scans'[D] = g
          /\ \A k \in 1 .. D - 1 : scans'[k] = scans[k]
      <3>1. PICK t : t = SetTop(scans, g)
        OBVIOUS
      <3>2. t \in Seq(ScanFrames \cup {g}) /\ Len(t) = D /\ t[D] = g /\ \A k \in 1 .. D - 1 : t[k] = scans[k]
        BY <1>10, <3>1, Zenon
      <3>3. scans' = Append(t, c)
        BY <1>13, <2>1, <3>1, Zenon
      <3>4. QED
        BY <1>4, <3>2, <3>3
    <2>5. \A k \in D .. Len(scans') : FrameCovered({}, scans[k])'
      <3>1. FrameCovered({}, scans[D])' /\ FrameCovered({}, scans[D + 1])'
        BY <1>9, <2>3, <2>4, Zenon DEF FrameCovered
      <3>2. \A k \in D .. Len(scans') : k = D \/ k = D + 1
        BY <1>4, <2>4
      <3>3. QED
        BY <3>1, <3>2, Zenon
    <2>6. \A l \in (Met' \ Met) \cup {} :
           l \in Left({}) \ {} /\ hw[l].bridge => Covered({}, l.Seg, hw[l].secondary)'
      <3>1. Pending(f.Seg, hw[Here(f)].secondary)'
        <4>1. D + 1 \in 1 .. Len(scans')
          BY <1>4, <2>4
        <4>2. PICK s, b : s = f.Seg /\ b = hw[Here(f)].secondary
          OBVIOUS
        <4>3. scans'[D + 1].Seg = s /\ scans'[D + 1].Bus = b
          BY <2>2, <2>4, <4>2, Zenon
        <4>4. Pending(s, b)'
          BY <4>1, <4>3, Zenon DEF Pending
        <4>5. hw' = hw
          BY <1>1
        <4>6. QED
          BY <4>4, <4>2, <4>5, Zenon DEF Pending
      <3>2. SUFFICES ASSUME NEW l \in Met' \ Met PROVE Covered({}, l.Seg, hw[l].secondary)'
        BY Zenon
      <3>3. l = Here(f) /\ l.Seg = f.Seg /\ hw' = hw
        BY <1>1, <1>7 DEF Here
      <3>4. QED
        BY <3>1, <3>3, Zenon DEF Covered, Pending
    <2>61. /\ Len(scans') \in Nat /\ Len(scans') >= D
          /\ scans'[D].Seg = scans[D].Seg /\ scans'[D].Bus = scans[D].Bus
      BY <1>4, <1>8, <2>4
    <2>7. QED
      BY <1>1, <1>3, <1>4, <1>7, <2>4, <2>5, <2>6, <2>61, CoverReplaced, Zenon
  <1>14. QED
    BY <1>8, <1>12, <1>13, Zenon

CoverInv == TypeInv /\ CoverOK({}, {})

LEMMA InitCover == ASSUME Init, NEW G, NEW E PROVE CoverOK(G, E)
PROOF
  <1>1. heap = <<>> /\ scans = <<>> /\ pc = "segment" /\ index = 1
    BY DEF Init
  <1>2. 1 .. Len(scans) = {} /\ Ids = {}
    BY <1>1 DEF Ids
  <1>3. FramesCovered(G)
    BY <1>2, Zenon DEF FramesCovered
  <1>4. BridgesCovered(G, E)
    BY <1>2, Zenon DEF BridgesCovered, Met
  <1>5. StartsCovered(G)
    <2>1. Scanning /\ \A i \in 1 .. Len(Starts) : ~(i < index)
      BY <1>1 DEF Scanning
    <2>2. QED
      BY <1>1, <2>1, Zenon DEF StartsCovered
  <1>6. QED
    BY <1>3, <1>4, <1>5, Zenon DEF CoverOK

LEMMA CoverStutter ==
  ASSUME UNCHANGED <<hw, table, heap, pc, index, scans, lost>>, NEW G, NEW E, CoverOK(G, E)
  PROVE  CoverOK(G, E)'
PROOF
  <1>1. /\ Left(G)' = Left(G) /\ Met' = Met
        /\ \A s, b : Covered(G, s, b) => Covered(G, s, b)'
        /\ \A f : FrameCovered(G, f) => FrameCovered(G, f)'
    <2>1. Met' = Met
      BY Zenon DEF Met, Ids
    <2>2. /\ Left(G)' = Left(G)
          /\ \A f : FrameCovered(G, f) => FrameCovered(G, f)'
          /\ \A s, b : BusDone(G, s, b) => BusDone(G, s, b)'
      BY <2>1, LeftStays, Zenon
    <2>3. QED
      BY <2>1, <2>2, Zenon DEF Covered, Pending
  <1>2. FramesCovered(G)'
    BY <1>1, Zenon DEF CoverOK, FramesCovered, FrameCovered
  <1>3. BridgesCovered(G, E)'
    BY <1>1, Zenon DEF CoverOK, BridgesCovered
  <1>4. StartsCovered(G)'
    <2>1. Starts' = Starts /\ (Scanning' <=> Scanning)
      BY Zenon DEF Starts, Scanning
    <2>2. SUFFICES ASSUME NEW i \in 1 .. Len(Starts), ~Scanning \/ i < index \/ (i = index /\ pc # "segment")
                   PROVE  Covered(G, Starts[i].Seg, Starts[i].StartBus)'
      BY <2>1, Zenon DEF StartsCovered
    <2>3. PICK s, b : s = Starts[i].Seg /\ b = Starts[i].StartBus
      OBVIOUS
    <2>4. Covered(G, s, b)'
      BY <1>1, <2>2, <2>3, Zenon DEF CoverOK, StartsCovered
    <2>5. QED
      BY <2>1, <2>3, <2>4, Zenon
  <1>5. QED
    BY <1>2, <1>3, <1>4, Zenon DEF CoverOK

LEMMA NextCover == CoverInv /\ [Next]_vars => CoverInv'
PROOF
  <1>. SUFFICES ASSUME CoverInv, [Next]_vars PROVE CoverInv'
    OBVIOUS
  <1>1. TypeInv /\ TypeInv' /\ CoverOK({}, {})
    BY NextType DEF CoverInv
  <1>2. CASE Onward
    BY <1>1, <1>2, CoverOnward, Zenon DEF CoverInv
  <1>3. CASE SkipAbsent \/ NoMemory \/ AddNode
    BY <1>1, <1>3, CoverTurn, Zenon DEF CoverInv
  <1>4. CASE UNCHANGED vars
    <2>1. UNCHANGED <<hw, table, heap, pc, index, scans, lost>>
      BY <1>4 DEF vars
    <2>2. QED
      BY <1>1, <2>1, CoverStutter, Zenon DEF CoverInv
  <1>5. QED
    BY <1>2, <1>3, <1>4, Zenon DEF Next, Scan, Onward

(* After the scan, every bus that a path leads to has been scanned. *)
LEMMA Reached ==
  ASSUME LastBus \in Nat, PlatformTypeOK, ~Scanning, scans = <<>>, NEW G, CoverOK(G, {}),
         NEW s, NEW p,
         \A b \in 0 .. LastBus : p[b] # <<>> =>
           \/ \E i \in 1 .. Len(Starts) : Starts[i].Seg = s /\ Starts[i].StartBus = b
           \/ \E l \in Left(G) \ lost : /\ l.Seg = s /\ l.Bus < b /\ hw[l].bridge
                                        /\ hw[l].secondary = b /\ p[l.Bus] # <<>>
  PROVE  \A b \in 0 .. LastBus : p[b] # <<>> => BusDone(G, s, b)
PROOF
  <1>. DEFINE Bad == {b \in 0 .. LastBus : p[b] # <<>> /\ ~BusDone(G, s, b)}
  <1>1. SUFFICES ASSUME Bad # {} PROVE FALSE
    BY Zenon
  <1>2. PICK b \in Bad : \A c \in Bad : b <= c
    <2>1. Bad \in SUBSET Nat
      OBVIOUS
    <2>. HIDE DEF Bad
    <2>2. QED
      BY <1>1, <2>1, SmallestNode
  <1>3. b \in 0 .. LastBus /\ p[b] # <<>> /\ ~BusDone(G, s, b)
    BY <1>2, Zenon
  <1>4. \A c : ~Pending(s, c)
    <2>1. 1 .. Len(scans) = {}
      OBVIOUS
    <2>2. QED
      BY <2>1, Zenon DEF Pending
  <1>5. CASE \E i \in 1 .. Len(Starts) : Starts[i].Seg = s /\ Starts[i].StartBus = b
    BY <1>3, <1>4, <1>5, Zenon DEF CoverOK, StartsCovered, Covered
  <1>6. ASSUME NEW l \in Left(G) \ lost, l.Seg = s, l.Bus < b, hw[l].bridge,
               hw[l].secondary = b, p[l.Bus] # <<>>
        PROVE  FALSE
    <2>1. l.Bus \in 0 .. LastBus
      BY LeftTypes
    <2>2. l.Bus \notin Bad
      BY <1>2, <1>3, <1>6, <2>1
    <2>3. BusDone(G, s, l.Bus)
      BY <1>6, <2>1, <2>2, Zenon
    <2>4. l \in Met
      BY <1>6, <2>3, Zenon DEF BusDone
    <2>5. QED
      BY <1>3, <1>4, <1>6, <2>4, Zenon DEF CoverOK, BridgesCovered, Covered
  <1>7. QED
    BY <1>3, <1>5, <1>6, Zenon

-----------------------------------------------------------------------------
(* The inventory, for every set L of missing functions, in the words of
   PciTree. *)
RouteOn(h, t, L, s, b) == On(h, t, L)!BusPath(s)[b]

BusRoute(L, s, b) == RouteOn(hw, table, L, s, b)

ExistingOn(h, t) == On(h, t, {})!Functions

Existing == ExistingOn(hw, table)

NumberedOK ==
  /\ \A i, j \in 1 .. Len(Starts) :
       Starts[i].Seg = Starts[j].Seg /\ Starts[i].StartBus = Starts[j].StartBus => i = j
  /\ \A l \in Existing : hw[l].bridge =>
       /\ hw[l].secondary > l.Bus
       /\ \A i \in 1 .. Len(Starts) : ~(Starts[i].Seg = l.Seg /\ Starts[i].StartBus = hw[l].secondary)
       /\ \A m \in Existing : hw[m].bridge /\ m.Seg = l.Seg /\ hw[m].secondary = hw[l].secondary => m = l

LEMMA StartsLength ==
  ASSUME PlatformTypeOK, LastBus \in Nat
  PROVE  /\ DOMAIN Starts = 1 .. Len(Starts) /\ Len(Starts) \in Nat
         /\ \A i \in 1 .. Len(Starts) : Starts[i].StartBus \in 0 .. LastBus
PROOF
  <1>1. CASE table = <<>>
    BY <1>1 DEF Starts
  <1>2. CASE table # <<>>
    <2>1. Starts = table /\ table \in Seq(SegmentInfos)
      BY <1>2 DEF Starts, PlatformTypeOK
    <2>2. \A e \in SegmentInfos : e.StartBus \in 0 .. LastBus
      BY DEF SegmentInfos
    <2>3. QED
      BY <2>1, <2>2
  <1>3. QED
    BY <1>1, <1>2

LEMMA InventoryOn ==
  ASSUME NEW L
  PROVE  /\ On(hw, table, L)!Functions = Existing /\ Inventory!Functions = Existing
         /\ On(hw, table, L)!Bridges = {l \in Existing : hw[l].bridge}
         /\ Inventory!Bridges = {l \in Existing : hw[l].bridge}
         /\ On(hw, table, L)!Starts = Starts /\ Inventory!Starts = Starts
PROOF
  <1>1. \A s, r : /\ On(hw, table, L)!HasRoute(table, s, r) <=> On(hw, table, {})!HasRoute(table, s, r)
                  /\ Inventory!HasRoute(table, s, r) <=> On(hw, table, {})!HasRoute(table, s, r)
    BY Zenon DEF On!HasRoute, On!IsLegacy, On!LegacySize, On!FindEcamBaseForSegment, On!EntriesFor,
       Inventory!HasRoute, Inventory!IsLegacy, Inventory!LegacySize,
       Inventory!FindEcamBaseForSegment, Inventory!EntriesFor
  <1>2. On(hw, table, L)!Functions = Existing
    BY <1>1, Zenon DEF Existing, ExistingOn, On!Functions, On!Exists
  <1>3. Inventory!Functions = Existing
    BY <1>1, Zenon DEF Existing, ExistingOn, On!Functions, On!Exists, Inventory!Functions, Inventory!Exists
  <1>4. On(hw, table, L)!Starts = Starts /\ Inventory!Starts = Starts
    BY Zenon DEF On!Starts, Inventory!Starts, Starts
  <1>5. QED
    BY <1>2, <1>3, <1>4, Zenon DEF On!Bridges, Inventory!Bridges

LEMMA NumberedHere ==
  ASSUME PlatformTypeOK, Inventory!Numbered
  PROVE  NumberedOK
PROOF
  <1>1. /\ Inventory!Bridges = {l \in Existing : hw[l].bridge} /\ Inventory!Starts = Starts
        /\ DOMAIN Starts = 1 .. Len(Starts)
    BY InventoryOn, StartsLength, GeometryAssumption
  <1>2. QED
    BY <1>1 DEF Inventory!Numbered, NumberedOK

LEMMA ExistingLeft == Existing = Left({})
PROOF
  <1>1. \A s, r : On(hw, table, {})!HasRoute(table, s, r) <=> HasRoute(table, s, r)
    BY Zenon DEF On!HasRoute, On!IsLegacy, On!LegacySize, On!FindEcamBaseForSegment, On!EntriesFor,
       HasRoute, IsLegacy, LegacySize, FindEcamBaseForSegment, EntriesFor
  <1>2. ASSUME NEW l PROVE l \in Existing <=> l \in Left({})
    BY <1>1, Zenon DEF Existing, ExistingOn, Left, On!Functions, On!Exists
  <1>3. QED
    BY <1>2

(* Where a bus that has a path is reached from. *)
LEMMA RouteFrom ==
  ASSUME PlatformTypeOK, LastBus \in Nat, NEW L, NEW s, NEW b \in 0 .. LastBus,
         BusRoute(L, s, b) # <<>>
  PROVE  \/ \E i \in 1 .. Len(Starts) : Starts[i].Seg = s /\ Starts[i].StartBus = b
         \/ \E l \in Existing \ L : /\ hw[l].bridge /\ l.Seg = s /\ l.Bus < b
                                    /\ hw[l].secondary = b /\ BusRoute(L, s, l.Bus) # <<>>
PROOF
  <1>1. PICK h, t : h = hw /\ t = table
    OBVIOUS
  <1>2. DOMAIN h \subseteq Locations
    BY <1>1 DEF PlatformTypeOK
  <1>3. On(h, t, L)!BusPath(s)[b] = On(h, t, L)!NextPath(On(h, t, L)!BusPath(s), s, b)
    BY <1>2, PathEquation
  <1>4. \/ On(h, t, L)!StartsAt(s, b) # {}
        \/ On(h, t, L)!BridgesTo(On(h, t, L)!BusPath(s), s, b) # {}
    <2>1. On(h, t, L)!BusPath(s)[b] # <<>>
      BY <1>1, Zenon DEF BusRoute, RouteOn
    <2>2. QED
      BY <1>3, <2>1, Zenon DEF On!NextPath
  <1>5. On(h, t, L)!Starts = Starts /\ DOMAIN Starts = 1 .. Len(Starts)
        /\ On(h, t, L)!Bridges = {l \in Existing : hw[l].bridge}
    BY <1>1, InventoryOn, StartsLength, Zenon
  <1>6. CASE On(h, t, L)!StartsAt(s, b) # {}
    BY <1>5, <1>6, Zenon DEF On!StartsAt
  <1>7. CASE On(h, t, L)!BridgesTo(On(h, t, L)!BusPath(s), s, b) # {}
    BY <1>1, <1>5, <1>7, Zenon DEF On!BridgesTo, BusRoute, RouteOn
  <1>8. QED
    BY <1>4, <1>6, <1>7, Zenon

LEMMA StartRoute ==
  ASSUME PlatformTypeOK, NumberedOK, LastBus \in Nat, NEW L, NEW i \in 1 .. Len(Starts)
  PROVE  BusRoute(L, Starts[i].Seg, Starts[i].StartBus) = <<i>>
PROOF
  <1>1. PICK h, t, s, b : h = hw /\ t = table /\ s = Starts[i].Seg /\ b = Starts[i].StartBus
    OBVIOUS
  <1>2. DOMAIN h \subseteq Locations /\ b \in 0 .. LastBus
    BY <1>1, StartsLength DEF PlatformTypeOK
  <1>3. On(h, t, L)!BusPath(s)[b] = On(h, t, L)!NextPath(On(h, t, L)!BusPath(s), s, b)
    BY <1>2, PathEquation
  <1>4. On(h, t, L)!Starts = Starts /\ DOMAIN Starts = 1 .. Len(Starts)
    BY <1>1, InventoryOn, StartsLength, Zenon
  <1>5. \A j : j \in On(h, t, L)!StartsAt(s, b) <=> j = i
    BY <1>1, <1>4, Zenon DEF On!StartsAt, NumberedOK
  <1>6. (CHOOSE j \in On(h, t, L)!StartsAt(s, b) : TRUE) = i /\ On(h, t, L)!StartsAt(s, b) # {}
    <2>1. PICK A : A = On(h, t, L)!StartsAt(s, b)
      OBVIOUS
    <2>2. A = {i}
      BY <1>5, <2>1
    <2>3. QED
      BY <2>1, <2>2
  <1>7. On(h, t, L)!NextPath(On(h, t, L)!BusPath(s), s, b) = <<i>>
    BY <1>6, Zenon DEF On!NextPath
  <1>8. QED
    BY <1>1, <1>3, <1>7, Zenon DEF BusRoute, RouteOn

Place(x) == x.Dev * (LastFun + 1) + x.Fun

LEMMA BehindRoute ==
  ASSUME PlatformTypeOK, NumberedOK, LastBus \in Nat, NEW L, NEW l \in Existing \ L, hw[l].bridge,
         BusRoute(L, l.Seg, l.Bus) # <<>>
  PROVE  BusRoute(L, l.Seg, hw[l].secondary) = Append(BusRoute(L, l.Seg, l.Bus), Place(l))
PROOF
  <1>1. PICK h, t, s, b, p : /\ h = hw /\ t = table /\ s = l.Seg /\ b = hw[l].secondary
                             /\ p = On(h, t, L)!BusPath(s)
    OBVIOUS
  <1>2. DOMAIN h \subseteq Locations /\ b \in 0 .. LastBus
    <2>1. hw[l] \in Headers
      BY DEF PlatformTypeOK, Existing, ExistingOn, On!Functions
    <2>2. QED
      BY <1>1, <2>1 DEF PlatformTypeOK, Headers
  <1>3. p[b] = On(h, t, L)!NextPath(p, s, b)
    <2>1. On(h, t, L)!BusPath(s)[b] = On(h, t, L)!NextPath(On(h, t, L)!BusPath(s), s, b)
      BY <1>2, PathEquation
    <2>2. QED
      BY <1>1, <2>1, Zenon
  <1>4. On(h, t, L)!Starts = Starts /\ DOMAIN Starts = 1 .. Len(Starts)
        /\ On(h, t, L)!Bridges = {m \in Existing : hw[m].bridge}
    BY <1>1, InventoryOn, StartsLength, Zenon
  <1>5. \A j : j \notin On(h, t, L)!StartsAt(s, b)
    BY <1>1, <1>4, Zenon DEF On!StartsAt, NumberedOK
  <1>6. \A m : m \in On(h, t, L)!BridgesTo(p, s, b) <=> m = l
    <2>1. b > l.Bus
      BY <1>1, Zenon DEF NumberedOK
    <2>2. l.Bus < b
      <3>1. l.Bus \in 0 .. LastBus
        BY DEF PlatformTypeOK, Existing, ExistingOn, On!Functions, Locations
      <3>2. QED
        BY <1>2, <2>1, <3>1
    <2>3. p[l.Bus] # <<>>
      BY <1>1, Zenon DEF BusRoute, RouteOn
    <2>4. ASSUME NEW m \in On(h, t, L)!BridgesTo(p, s, b) PROVE m = l
      BY <1>1, <1>4, <2>4, Zenon DEF On!BridgesTo, NumberedOK
    <2>5. l \in On(h, t, L)!BridgesTo(p, s, b)
      BY <1>1, <1>4, <2>2, <2>3, Zenon DEF On!BridgesTo
    <2>6. QED
      BY <2>4, <2>5, Zenon
  <1>7. /\ On(h, t, L)!StartsAt(s, b) = {} /\ On(h, t, L)!BridgesTo(p, s, b) # {}
        /\ (CHOOSE m \in On(h, t, L)!BridgesTo(p, s, b) : TRUE) = l
    <2>1. PICK A : A = On(h, t, L)!BridgesTo(p, s, b)
      OBVIOUS
    <2>2. A = {l}
      BY <1>6, <2>1
    <2>3. (CHOOSE m \in A : TRUE) = l
      BY <2>2
    <2>4. QED
      BY <1>5, <2>1, <2>2, <2>3, Zenon
  <1>8. On(h, t, L)!NextPath(p, s, b) = On(h, t, L)!PathOver(p, l)
    BY <1>7, Zenon DEF On!NextPath
  <1>9. QED
    BY <1>1, <1>3, <1>8, Zenon DEF BusRoute, RouteOn, On!PathOver, On!Place, Place

(* A path has no more buses than there are below and the bus itself. *)
LEMMA RouteLength ==
  ASSUME PlatformTypeOK, NumberedOK, LastBus \in Nat, NEW L, NEW s
  PROVE  \A b \in 0 .. LastBus : /\ BusRoute(L, s, b) \in Seq(Nat)
                                /\ Len(BusRoute(L, s, b)) <= b + 1
PROOF
  <1>. DEFINE Good(b) == BusRoute(L, s, b) \in Seq(Nat) /\ Len(BusRoute(L, s, b)) <= b + 1
              Bad == {b \in 0 .. LastBus : ~Good(b)}
  <1>1. SUFFICES ASSUME Bad # {} PROVE FALSE
    BY Zenon
  <1>2. PICK b \in Bad : \A c \in Bad : b <= c
    <2>1. Bad \in SUBSET Nat
      OBVIOUS
    <2>. HIDE DEF Bad
    <2>2. QED
      BY <1>1, <2>1, SmallestNode
  <1>3. b \in 0 .. LastBus /\ ~Good(b)
    BY <1>2, Zenon
  <1>4. BusRoute(L, s, b) # <<>>
    <2>1. <<>> \in Seq(Nat) /\ Len(<<>>) = 0
      OBVIOUS
    <2>2. b \in Nat /\ Len(<<>>) <= b + 1
      BY <1>3, <2>1
    <2>3. QED
      BY <1>3, <2>1, <2>2, Zenon
  <1>5. CASE \E i \in 1 .. Len(Starts) : Starts[i].Seg = s /\ Starts[i].StartBus = b
    <2>1. PICK i \in 1 .. Len(Starts) : Starts[i].Seg = s /\ Starts[i].StartBus = b
      BY <1>5
    <2>2. BusRoute(L, s, b) = <<i>>
      BY <2>1, StartRoute, Zenon
    <2>3. i \in Nat
      OBVIOUS
    <2>. HIDE DEF Bad
    <2>4. QED
      BY <1>3, <2>2, <2>3
  <1>6. ASSUME NEW l \in Existing \ L, hw[l].bridge, l.Seg = s, l.Bus < b, hw[l].secondary = b,
               BusRoute(L, s, l.Bus) # <<>>
        PROVE  FALSE
    <2>1. PICK p, q, x : p = BusRoute(L, s, l.Bus) /\ q = BusRoute(L, s, b) /\ x = Place(l)
      OBVIOUS
    <2>2. q = Append(p, x)
      BY <1>6, <2>1, BehindRoute, Zenon
    <2>3. l.Bus \in 0 .. LastBus /\ x \in Nat
      <3>1. l \in Locations
        BY DEF PlatformTypeOK, Existing, ExistingOn, On!Functions
      <3>2. QED
        BY <2>1, <3>1, GeometryAssumption DEF Locations, Place
    <2>4. l.Bus \notin Bad
      BY <1>2, <1>3, <1>6, <2>3
    <2>5. p \in Seq(Nat) /\ Len(p) <= l.Bus + 1
      BY <2>1, <2>3, <2>4, Zenon
    <2>. HIDE DEF Bad
    <2>6. q \in Seq(Nat) /\ Len(q) <= b + 1
      <3>1. q \in Seq(Nat) /\ Len(q) = Len(p) + 1
        BY <2>2, <2>3, <2>5
      <3>2. l.Bus \in Nat /\ b \in Nat /\ l.Bus < b /\ Len(p) \in Nat
        BY <1>3, <1>6, <2>3, <2>5
      <3>3. QED
        BY <2>5, <3>1, <3>2
    <2>7. QED
      BY <1>3, <2>1, <2>6, Zenon
  <1>7. \/ \E i \in 1 .. Len(Starts) : Starts[i].Seg = s /\ Starts[i].StartBus = b
        \/ \E l \in Existing \ L : /\ hw[l].bridge /\ l.Seg = s /\ l.Bus < b
                                   /\ hw[l].secondary = b /\ BusRoute(L, s, l.Bus) # <<>>
    <2>. HIDE DEF Bad
    <2>1. QED
      BY <1>3, <1>4, RouteFrom
  <1>8. QED
    BY <1>5, <1>6, <1>7, Zenon

(* A path that is left when functions are missing is what it is without. *)
LEMMA RouteLeft ==
  ASSUME PlatformTypeOK, NumberedOK, LastBus \in Nat, NEW L, NEW s
  PROVE  \A b \in 0 .. LastBus :
           BusRoute(L, s, b) # <<>> => BusRoute(L, s, b) = BusRoute({}, s, b)
PROOF
  <1>. DEFINE Bad == {b \in 0 .. LastBus :
                        BusRoute(L, s, b) # <<>> /\ BusRoute(L, s, b) # BusRoute({}, s, b)}
  <1>1. SUFFICES ASSUME Bad # {} PROVE FALSE
    BY Zenon
  <1>2. PICK b \in Bad : \A c \in Bad : b <= c
    <2>1. Bad \in SUBSET Nat
      OBVIOUS
    <2>. HIDE DEF Bad
    <2>2. QED
      BY <1>1, <2>1, SmallestNode
  <1>3. b \in 0 .. LastBus /\ BusRoute(L, s, b) # <<>> /\ BusRoute(L, s, b) # BusRoute({}, s, b)
    BY <1>2, Zenon
  <1>4. CASE \E i \in 1 .. Len(Starts) : Starts[i].Seg = s /\ Starts[i].StartBus = b
    <2>1. PICK i \in 1 .. Len(Starts) : Starts[i].Seg = s /\ Starts[i].StartBus = b
      BY <1>4
    <2>2. BusRoute(L, s, b) = <<i>> /\ BusRoute({}, s, b) = <<i>>
      BY <2>1, StartRoute, Zenon
    <2>3. QED
      BY <1>3, <2>2, Zenon
  <1>5. ASSUME NEW l \in Existing \ L, hw[l].bridge, l.Seg = s, l.Bus < b, hw[l].secondary = b,
               BusRoute(L, s, l.Bus) # <<>>
        PROVE  FALSE
    <2>1. l.Bus \in 0 .. LastBus
      BY DEF PlatformTypeOK, Existing, ExistingOn, On!Functions, Locations
    <2>2. l.Bus \notin Bad
      BY <1>2, <1>3, <1>5, <2>1
    <2>3. BusRoute(L, s, l.Bus) = BusRoute({}, s, l.Bus)
      BY <1>5, <2>1, <2>2, Zenon
    <2>4. BusRoute(L, s, b) = Append(BusRoute(L, s, l.Bus), Place(l))
      BY <1>5, BehindRoute, Zenon
    <2>5. BusRoute({}, s, b) = Append(BusRoute({}, s, l.Bus), Place(l))
      <3>1. l \in Existing \ {} /\ BusRoute({}, s, l.Bus) # <<>>
        BY <1>5, <2>3
      <3>2. QED
        BY <1>5, <3>1, BehindRoute, Zenon
    <2>6. QED
      BY <1>3, <2>3, <2>4, <2>5, Zenon
  <1>6. \/ \E i \in 1 .. Len(Starts) : Starts[i].Seg = s /\ Starts[i].StartBus = b
        \/ \E l \in Existing \ L : /\ hw[l].bridge /\ l.Seg = s /\ l.Bus < b
                                   /\ hw[l].secondary = b /\ BusRoute(L, s, l.Bus) # <<>>
    <2>. HIDE DEF Bad
    <2>1. QED
      BY <1>3, RouteFrom
  <1>7. QED
    BY <1>4, <1>5, <1>6, Zenon

-----------------------------------------------------------------------------
(* The order of the paths, Precedes of PciInventory; and a path inside what
   another one has passed: they are the same up to the last place of r, and
   there p is behind. *)
Before(p, q) ==
  \E i \in 1 .. Len(q) :
    /\ \A j \in 1 .. i - 1 : j <= Len(p) /\ p[j] = q[j]
    /\ i > Len(p) \/ p[i] < q[i]

Inside(p, r) ==
  /\ Len(r) <= Len(p)
  /\ \A j \in 1 .. Len(r) - 1 : p[j] = r[j]
  /\ p[Len(r)] < r[Len(r)]

LEMMA AppendPath ==
  ASSUME NEW q \in Seq(Nat), NEW x \in Nat, NEW r, r = Append(q, x)
  PROVE  /\ r \in Seq(Nat) /\ Len(q) \in Nat /\ Len(r) = Len(q) + 1 /\ r[Len(r)] = x
         /\ r # <<>> /\ \A j \in 1 .. Len(q) : r[j] = q[j]
  OBVIOUS

LEMMA NotBeforeItself ==
  ASSUME NEW p \in Seq(Nat)
  PROVE  ~Before(p, p)
PROOF
  <1>1. \A i \in 1 .. Len(p) : p[i] \in Nat /\ ~(i > Len(p)) /\ ~(p[i] < p[i])
    OBVIOUS
  <1>2. QED
    BY <1>1, Zenon DEF Before

LEMMA BeforeFurther ==
  ASSUME NEW p \in Seq(Nat), NEW q \in Seq(Nat), NEW x \in Nat, NEW y \in Nat, x <= y,
         Before(p, Append(q, x))
  PROVE  Before(p, Append(q, y))
PROOF
  <1>1. PICK r, s : r = Append(q, x) /\ s = Append(q, y)
    OBVIOUS
  <1>2. /\ Len(r) = Len(q) + 1 /\ r[Len(r)] = x /\ \A j \in 1 .. Len(q) : r[j] = q[j]
        /\ Len(s) = Len(q) + 1 /\ s[Len(s)] = y /\ \A j \in 1 .. Len(q) : s[j] = q[j]
        /\ Len(q) \in Nat
    BY <1>1, AppendPath
  <1>3. PICK i \in 1 .. Len(r) : /\ \A j \in 1 .. i - 1 : j <= Len(p) /\ p[j] = r[j]
                                 /\ i > Len(p) \/ p[i] < r[i]
    BY <1>1, Zenon DEF Before
  <1>4. i \in 1 .. Len(s) /\ \A j \in 1 .. i - 1 : j \in 1 .. Len(q)
    BY <1>2
  <1>5. \A j \in 1 .. i - 1 : j <= Len(p) /\ p[j] = s[j]
    BY <1>2, <1>3, <1>4, Zenon
  <1>6. i > Len(p) \/ p[i] < s[i]
    <2>1. CASE i = Len(r)
      <3>1. i > Len(p) \/ p[i] < x
        BY <1>2, <1>3, <2>1, Zenon
      <3>2. s[i] = y
        BY <1>2, <2>1, Zenon
      <3>3. CASE ~(i > Len(p))
        <4>1. p[i] \in Nat
          BY <3>3
        <4>2. QED
          BY <3>1, <3>2, <3>3, <4>1
      <3>4. QED
        BY <3>3
    <2>2. CASE i # Len(r)
      <3>1. i \in 1 .. Len(q)
        BY <1>2, <2>2
      <3>2. QED
        BY <1>2, <1>3, <3>1, Zenon
    <2>3. QED
      BY <2>1, <2>2
  <1>7. Before(p, s)
    BY <1>4, <1>5, <1>6, Zenon DEF Before
  <1>8. QED
    BY <1>1, <1>7, Zenon

LEMMA BeforeBelow ==
  ASSUME NEW p \in Seq(Nat), NEW q \in Seq(Nat), NEW x \in Nat, Before(p, q)
  PROVE  Before(p, Append(q, x))
PROOF
  <1>1. PICK s : s = Append(q, x)
    OBVIOUS
  <1>2. Len(s) = Len(q) + 1 /\ Len(q) \in Nat /\ \A j \in 1 .. Len(q) : s[j] = q[j]
    BY <1>1, AppendPath
  <1>3. PICK i \in 1 .. Len(q) : /\ \A j \in 1 .. i - 1 : j <= Len(p) /\ p[j] = q[j]
                                 /\ i > Len(p) \/ p[i] < q[i]
    BY Zenon DEF Before
  <1>4. i \in 1 .. Len(s) /\ \A j \in 1 .. i - 1 : j \in 1 .. Len(q)
    BY <1>2
  <1>5. Before(p, s)
    BY <1>2, <1>3, <1>4, Zenon DEF Before
  <1>6. QED
    BY <1>1, <1>5, Zenon

LEMMA BeforeChild ==
  ASSUME NEW p \in Seq(Nat), NEW x \in Nat
  PROVE  Before(p, Append(p, x))
PROOF
  <1>1. PICK s : s = Append(p, x)
    OBVIOUS
  <1>2. Len(s) = Len(p) + 1 /\ Len(p) \in Nat /\ \A j \in 1 .. Len(p) : s[j] = p[j]
    BY <1>1, AppendPath
  <1>3. /\ Len(p) + 1 \in 1 .. Len(s) /\ Len(p) + 1 > Len(p)
        /\ \A j \in 1 .. (Len(p) + 1) - 1 : j \in 1 .. Len(p) /\ j <= Len(p)
    BY <1>2
  <1>4. Before(p, s)
    BY <1>2, <1>3, Zenon DEF Before
  <1>5. QED
    BY <1>1, <1>4, Zenon

LEMMA InsideBefore ==
  ASSUME NEW p \in Seq(Nat), NEW r \in Seq(Nat), r # <<>>, Inside(p, r)
  PROVE  Before(p, r)
PROOF
  <1>1. /\ Len(r) \in 1 .. Len(r) /\ Len(p) \in Nat /\ Len(r) \in Nat
        /\ Len(r) <= Len(p)
    BY DEF Inside
  <1>2. \A j \in 1 .. Len(r) - 1 : j <= Len(p)
    BY <1>1
  <1>3. QED
    BY <1>1, <1>2, Zenon DEF Inside, Before

LEMMA InsideBelow ==
  ASSUME NEW p \in Seq(Nat), NEW r \in Seq(Nat), r # <<>>, Inside(p, r), NEW x \in Nat
  PROVE  Inside(Append(p, x), r)
PROOF
  <1>1. PICK s : s = Append(p, x)
    OBVIOUS
  <1>2. Len(s) = Len(p) + 1 /\ Len(p) \in Nat /\ \A j \in 1 .. Len(p) : s[j] = p[j]
    BY <1>1, AppendPath
  <1>3. Len(r) \in 1 .. Len(p) /\ Len(r) <= Len(s) /\ \A j \in 1 .. Len(r) - 1 : j \in 1 .. Len(p)
    BY <1>2 DEF Inside
  <1>4. Inside(s, r)
    BY <1>2, <1>3, Zenon DEF Inside
  <1>5. QED
    BY <1>1, <1>4, Zenon

LEMMA InsidePassed ==
  ASSUME NEW q \in Seq(Nat), NEW x \in Nat, NEW y \in Nat, x < y
  PROVE  Inside(Append(q, x), Append(q, y))
PROOF
  <1>1. PICK r, s : r = Append(q, x) /\ s = Append(q, y)
    OBVIOUS
  <1>2. /\ Len(r) = Len(q) + 1 /\ r[Len(r)] = x /\ \A j \in 1 .. Len(q) : r[j] = q[j]
        /\ Len(s) = Len(q) + 1 /\ s[Len(s)] = y /\ \A j \in 1 .. Len(q) : s[j] = q[j]
        /\ Len(q) \in Nat
    BY <1>1, AppendPath
  <1>3. Len(s) = Len(r) /\ Len(s) <= Len(r) /\ \A j \in 1 .. Len(s) - 1 : j \in 1 .. Len(q)
    BY <1>2
  <1>4. Inside(r, s)
    BY <1>2, <1>3, Zenon DEF Inside
  <1>5. QED
    BY <1>1, <1>4, Zenon

LEMMA SegmentOrder ==
  ASSUME NEW p \in Seq(Nat), Len(p) >= 2, NEW i \in Nat, NEW x \in Nat
  PROVE  /\ Before(p, Append(<<i>>, x)) => p[1] <= i
         /\ p[1] < i => Before(p, Append(<<i>>, x))
PROOF
  <1>1. PICK s : s = Append(<<i>>, x)
    OBVIOUS
  <1>2. Len(s) = 2 /\ s[1] = i /\ p[1] \in Nat
    BY <1>1
  <1>3. ASSUME Before(p, s) PROVE p[1] <= i
    <2>1. PICK k \in 1 .. 2 : /\ \A j \in 1 .. k - 1 : j <= Len(p) /\ p[j] = s[j]
                              /\ k > Len(p) \/ p[k] < s[k]
      BY <1>2, <1>3 DEF Before
    <2>2. k = 1 \/ k = 2
      OBVIOUS
    <2>3. QED
      BY <1>2, <2>1, <2>2
  <1>4. ASSUME p[1] < i PROVE Before(p, s)
    <2>1. 1 \in 1 .. Len(s) /\ 1 .. 1 - 1 = {}
      BY <1>2
    <2>2. QED
      BY <1>2, <1>4, <2>1, Zenon DEF Before
  <1>5. QED
    BY <1>1, <1>3, <1>4, Zenon

-----------------------------------------------------------------------------
(* What the scan has seen it has seen in the order of the paths: of each
   activation, the bus is behind the node it was called for, and where it
   stands comes after everything seen, and before where the activations below
   it will go on. *)
Seen == Met \cup lost

BusOf(x) == BusRoute({}, x.Seg, x.Bus)
Route(x) == Append(BusOf(x), Place(x))

LedTo(s, b) ==
  \/ \E i \in 1 .. Len(Starts) : Starts[i].Seg = s /\ Starts[i].StartBus = b
  \/ \E m \in Met : m.Seg = s /\ hw[m].bridge /\ hw[m].secondary = b

CalledFor(k) == BusOf(scans[k]) = IF k = 1 THEN <<index>> ELSE Route(heap[scans[k].Out].Loc)

FrameRouted(k) ==
  /\ CalledFor(k)
  /\ LedTo(scans[k].Seg, scans[k].Bus)
  /\ \A l \in Seen : Before(Route(l), Route(scans[k]))
  /\ \A j \in 1 .. k - 1 : Inside(BusOf(scans[k]), Route(scans[j]))

SeenRouted == \A l \in Seen : l \in Existing /\ BusOf(l) # <<>>
MetLed     == \A l \in Met : LedTo(l.Seg, l.Bus)
LostApart  == \A l \in Met : l \notin lost
MetInOrder ==
  \A m, n \in Ids : m < n => Before(Route(heap[m].Loc), Route(heap[n].Loc))

ScansRouted == \A k \in 1 .. Len(scans) : FrameRouted(k)

SegmentsRouted ==
  /\ pc = "segment" => \A l \in Seen : Route(l)[1] < index
  /\ pc \in {"link", "last"} => \A l \in Seen : Route(l)[1] <= index

RoutesOK == SeenRouted /\ MetLed /\ LostApart /\ MetInOrder /\ ScansRouted /\ SegmentsRouted

RoutesInv == ShapeInv /\ DepthInv /\ Inventory!Numbered /\ RoutesOK

LEMMA SameRoutes ==
  ASSUME UNCHANGED <<hw, table>>
  PROVE  /\ Existing' = Existing /\ Starts' = Starts
         /\ \A x : BusOf(x)' = BusOf(x) /\ Route(x)' = Route(x)
PROOF
  <1>1. hw' = hw /\ table' = table
    OBVIOUS
  <1>2. Starts' = Starts
    BY <1>1, Zenon DEF Starts
  <1>3. Existing' = Existing
    BY <1>1, Zenon DEF Existing
  <1>5. \A x : BusOf(x)' = BusOf(x) /\ Route(x)' = Route(x)
    BY <1>1, Zenon DEF BusOf, Route, BusRoute
  <1>6. QED
    BY <1>2, <1>3, <1>5

LEMMA RouteTypes ==
  ASSUME PlatformTypeOK, NumberedOK, LastBus \in Nat, NEW x,
         x.Bus \in 0 .. LastBus, x.Dev \in Nat, x.Fun \in Nat
  PROVE  /\ BusOf(x) \in Seq(Nat) /\ Len(BusOf(x)) \in Nat /\ Len(BusOf(x)) <= x.Bus + 1
         /\ Place(x) \in Nat
         /\ Route(x) \in Seq(Nat) /\ Route(x) # <<>> /\ Len(Route(x)) = Len(BusOf(x)) + 1
PROOF
  <1>1. BusOf(x) \in Seq(Nat) /\ Len(BusOf(x)) <= x.Bus + 1
    BY RouteLength, Zenon DEF BusOf
  <1>2. Place(x) \in Nat
    BY GeometryAssumption DEF Place
  <1>3. Len(BusOf(x)) \in Nat
    BY <1>1
  <1>4. PICK q, y : q = BusOf(x) /\ y = Place(x)
    OBVIOUS
  <1>5. Append(q, y) \in Seq(Nat) /\ Append(q, y) # <<>> /\ Len(Append(q, y)) = Len(q) + 1
    BY <1>1, <1>2, <1>4
  <1>6. QED
    BY <1>1, <1>2, <1>3, <1>4, <1>5 DEF Route

LEMMA ExistingTypes ==
  ASSUME PlatformTypeOK, NEW l \in Existing
  PROVE  /\ l \in DOMAIN hw /\ hw[l] \in Headers /\ l \in Locations
         /\ l.Bus \in 0 .. LastBus /\ l.Dev \in Nat /\ l.Fun \in Nat
         /\ l = [Seg |-> l.Seg, Bus |-> l.Bus, Dev |-> l.Dev, Fun |-> l.Fun]
PROOF
  <1>1. l \in DOMAIN hw /\ hw[l] \in Headers /\ l \in Locations
    BY DEF PlatformTypeOK, Existing, ExistingOn, On!Functions
  <1>2. QED
    BY <1>1, GeometryAssumption DEF Locations

(* The functions seen have a path of their own, beyond the segment's. *)
LEMMA SeenTypes ==
  ASSUME PlatformTypeOK, NumberedOK, LastBus \in Nat, SeenRouted, NEW l \in Seen
  PROVE  /\ Route(l) \in Seq(Nat) /\ Len(Route(l)) \in Nat /\ Len(Route(l)) >= 2 /\ Route(l)[1] \in Nat
         /\ Route(l) # <<>>
PROOF
  <1>1. l \in Existing /\ BusOf(l) # <<>>
    BY Zenon DEF SeenRouted
  <1>2. /\ BusOf(l) \in Seq(Nat) /\ Route(l) \in Seq(Nat) /\ Route(l) # <<>>
        /\ Len(Route(l)) = Len(BusOf(l)) + 1
    BY <1>1, ExistingTypes, RouteTypes
  <1>3. Len(BusOf(l)) \in Nat \ {0}
    BY <1>1, <1>2
  <1>4. Len(Route(l)) \in Nat /\ Len(Route(l)) >= 2
    BY <1>2, <1>3
  <1>5. Route(l)[1] \in Nat
    BY <1>2, <1>4
  <1>6. QED
    BY <1>2, <1>4, <1>5

(* The activations stand on places of the tree. *)
LEMMA ScansTypes ==
  ASSUME TypeInv, NumberedOK, NEW k \in 1 .. Len(scans)
  PROVE  /\ scans[k] \in ScanFrames
         /\ BusOf(scans[k]) \in Seq(Nat) /\ Place(scans[k]) \in Nat
         /\ Route(scans[k]) \in Seq(Nat) /\ Route(scans[k]) # <<>>
PROOF
  <1>1. scans \in Seq(ScanFrames) /\ PlatformTypeOK
    BY DEF TypeInv, TypeOK, StackTypeOK
  <1>2. scans[k] \in ScanFrames
    BY <1>1
  <1>3. scans[k].Bus \in 0 .. LastBus /\ scans[k].Dev \in Nat /\ scans[k].Fun \in Nat
    BY <1>2, GeometryAssumption DEF ScanFrames
  <1>4. QED
    BY <1>1, <1>2, <1>3, RouteTypes, GeometryAssumption

LEMMA HereRoute ==
  ASSUME NEW f
  PROVE  /\ BusOf(Here(f)) = BusOf(f) /\ Place(Here(f)) = Place(f) /\ Route(Here(f)) = Route(f)
         /\ Here(f).Seg = f.Seg /\ Here(f).Bus = f.Bus
PROOF
  <1>1. Here(f).Seg = f.Seg /\ Here(f).Bus = f.Bus /\ Here(f).Dev = f.Dev /\ Here(f).Fun = f.Fun
    BY DEF Here
  <1>2. QED
    BY <1>1, Zenon DEF BusOf, Place, Route

(* What answers at the running activation exists. *)
LEMMA AnswersExist ==
  ASSUME TypeInv, pc = "scan", NEW f, f = Top(scans), Answers(Here(f)),
         f.Fun < f.MaxFun, f.MaxFun # 1 => ShownMulti(f)
  PROVE  Here(f) \in Existing
PROOF
  <1>1. f \in ScanFrames
    BY HereType DEF TypeInv
  <1>2. PICK l : l = Here(f)
    OBVIOUS
  <1>3. l \in DOMAIN hw /\ HasRoute(table, l.Seg, 0)
    BY <1>2 DEF Answers
  <1>4. l.Fun = f.Fun
    BY <1>2 DEF Here
  <1>5. l.Fun # 0 => f.MaxFun # 1
    <2>1. f.Fun \in Nat
      BY <1>1, GeometryAssumption DEF ScanFrames
    <2>2. QED
      BY <1>4, <2>1
  <1>6. l.Fun # 0 => [l EXCEPT !.Fun = 0] \in DOMAIN hw /\ hw[[l EXCEPT !.Fun = 0]].multi
    BY <1>2, <1>5 DEF ShownMulti
  <1>7. l \in Left({})
    BY <1>3, <1>6 DEF Left
  <1>8. QED
    BY <1>2, <1>7, ExistingLeft

(* A turn of the function loop, and the next device: the running activation
   f goes on to g, and what it stood on has been seen, if it was there. *)
LEMMA RoutesGoOn ==
  ASSUME ShapeInv, NumberedOK, RoutesOK, pc = "scan", UNCHANGED <<hw, table, index>>,
         NEW D, D = Len(scans), NEW f, f = Top(scans), NEW g,
         g.Seg = f.Seg, g.Bus = f.Bus, g.Out = f.Out, Place(g) \in Nat, Place(f) <= Place(g),
         Seen \subseteq Seen', Met \subseteq Met',
         Seen' # Seen => Place(f) < Place(g) /\ Seen' \ Seen = {Here(f)},
         Len(scans') \in Nat, D <= Len(scans'),
         scans'[D] = g, \A k \in 1 .. D - 1 : scans'[k] = scans[k],
         \A n \in Ids : heap'[n].Loc = heap[n].Loc
  PROVE  \A k \in 1 .. D : FrameRouted(k)'
PROOF
  <1>1. D \in Nat \ {0} /\ D \in 1 .. D /\ f = scans[D] /\ f \in ScanFrames
    <2>1. scans \in Seq(ScanFrames) /\ scans # <<>>
      BY DEF ShapeInv, TypeInv, TypeOK, StackTypeOK
    <2>2. QED
      BY <2>1, TopLemma DEF Top
  <1>2. TypeInv /\ PlatformTypeOK /\ LastBus \in Nat
    BY GeometryAssumption DEF ShapeInv, TypeInv, TypeOK
  <1>3. /\ BusOf(f) \in Seq(Nat) /\ Place(f) \in Nat /\ Route(f) \in Seq(Nat)
        /\ BusOf(g) = BusOf(f)
        /\ Route(f) = Append(BusOf(f), Place(f)) /\ Route(g) = Append(BusOf(f), Place(g))
    <2>1. BusOf(g) = BusOf(f)
      BY Zenon DEF BusOf
    <2>2. QED
      BY <1>1, <1>2, <2>1, ScansTypes, Zenon DEF Route
  <1>4. /\ \A x : BusOf(x)' = BusOf(x) /\ Route(x)' = Route(x)
        /\ Starts' = Starts
    BY SameRoutes, Zenon
  <1>5. \A s, b : LedTo(s, b) => LedTo(s, b)'
    BY <1>4, Zenon DEF LedTo
  <1>6. \A k \in 1 .. D : k = D \/ k \in 1 .. D - 1
    BY <1>1
  <1>7. ASSUME NEW k \in 1 .. D PROVE CalledFor(k)' /\ LedTo(scans[k].Seg, scans[k].Bus)'
    <2>1. /\ BusOf(scans'[k]) = BusOf(scans[k]) /\ scans'[k].Out = scans[k].Out
          /\ scans'[k].Seg = scans[k].Seg /\ scans'[k].Bus = scans[k].Bus
      BY <1>1, <1>3, <1>6, Zenon
    <2>2. CalledFor(k) /\ LedTo(scans[k].Seg, scans[k].Bus)
      BY Zenon DEF RoutesOK, ScansRouted, FrameRouted
    <2>3. k # 1 => scans[k].Out \in Ids
      <3>1. k > 1 <=> k # 1
        OBVIOUS
      <3>2. QED
        BY <3>1, Zenon DEF ShapeInv, FramesOK
    <2>4. CalledFor(k)'
      <3>1. PICK o, x : o = scans[k].Out /\ x = scans'[k]
        OBVIOUS
      <3>2. BusOf(x)' = BusOf(x) /\ BusOf(x) = BusOf(scans[k])
        BY <1>4, <2>1, <3>1, Zenon
      <3>3. CASE k = 1
        BY <2>2, <3>1, <3>2, <3>3, Zenon DEF CalledFor, BusOf
      <3>4. CASE k # 1
        <4>1. heap'[o].Loc = heap[o].Loc /\ x.Out = o
          BY <2>1, <2>3, <3>1, <3>4, Zenon
        <4>2. PICK l : l = heap[o].Loc
          OBVIOUS
        <4>3. BusOf(x) = Route(l) /\ Route(l)' = Route(l)
          BY <1>4, <2>2, <3>1, <3>2, <3>4, <4>2, Zenon DEF CalledFor
        <4>4. QED
          BY <3>1, <3>2, <3>4, <4>1, <4>2, <4>3, Zenon DEF CalledFor, Route, BusOf
      <3>5. QED
        BY <3>3, <3>4
    <2>5. LedTo(scans[k].Seg, scans[k].Bus)'
      <3>1. PICK s, b : s = scans[k].Seg /\ b = scans[k].Bus
        OBVIOUS
      <3>2. LedTo(s, b)' /\ s = scans'[k].Seg /\ b = scans'[k].Bus
        BY <1>5, <2>1, <2>2, <3>1, Zenon
      <3>3. QED
        BY <3>2, Zenon DEF LedTo
    <2>6. QED
      BY <2>4, <2>5
  <1>8. ASSUME NEW k \in 1 .. D PROVE \A l \in Seen' : Before(Route(l), Route(scans'[k]))
    <2>1. ASSUME NEW l \in Seen PROVE Before(Route(l), Route(scans'[k]))
      <3>1. Before(Route(l), Route(scans[k]))
        BY Zenon DEF RoutesOK, ScansRouted, FrameRouted
      <3>2. Route(l) \in Seq(Nat)
        BY <1>2, SeenTypes DEF RoutesOK
      <3>3. CASE k = D
        <4>1. PICK p, q, x, y : p = Route(l) /\ q = BusOf(f) /\ x = Place(f) /\ y = Place(g)
          OBVIOUS
        <4>2. Before(p, Append(q, x))
          BY <1>1, <1>3, <3>1, <3>3, <4>1, Zenon
        <4>3. p \in Seq(Nat) /\ q \in Seq(Nat) /\ x \in Nat /\ y \in Nat /\ x <= y
          BY <1>3, <3>2, <4>1, Zenon
        <4>4. Before(p, Append(q, y))
          BY <4>2, <4>3, BeforeFurther, Zenon
        <4>5. QED
          BY <1>3, <3>3, <4>1, <4>4, Zenon
      <3>4. QED
        BY <1>6, <3>1, <3>3, Zenon
    <2>2. ASSUME Seen' # Seen PROVE Before(Route(Here(f)), Route(scans'[k]))
      <3>1. Route(Here(f)) = Route(f)
        BY HereRoute
      <3>2. CASE k = D
        <4>1. PICK q, x, y : q = BusOf(f) /\ x = Place(f) /\ y = Place(g)
          OBVIOUS
        <4>2. Inside(Append(q, x), Append(q, y))
          <5>1. q \in Seq(Nat) /\ x \in Nat /\ y \in Nat /\ x < y
            BY <1>3, <2>2, <4>1, Zenon
          <5>2. QED
            BY <5>1, InsidePassed, Zenon
        <4>3. Append(q, x) \in Seq(Nat) /\ Append(q, y) \in Seq(Nat) /\ Append(q, y) # <<>>
          <5>1. q \in Seq(Nat) /\ x \in Nat /\ y \in Nat
            BY <1>3, <4>1, Zenon
          <5>2. Append(q, x) \in Seq(Nat) /\ Append(q, y) \in Seq(Nat)
            BY <5>1
          <5>3. Append(q, y) # <<>>
            BY <5>1, AppendPath
          <5>4. QED
            BY <5>2, <5>3
        <4>4. Before(Append(q, x), Append(q, y))
          BY <4>2, <4>3, InsideBefore
        <4>5. QED
          BY <1>3, <3>1, <3>2, <4>1, <4>4, Zenon
      <3>3. CASE k \in 1 .. D - 1
        <4>1. Inside(BusOf(f), Route(scans[k]))
          BY <1>1, <3>3, Zenon DEF RoutesOK, ScansRouted, FrameRouted
        <4>2. Route(scans[k]) \in Seq(Nat) /\ Route(scans[k]) # <<>>
          BY <1>2, ScansTypes
        <4>3. Inside(Route(f), Route(scans[k]))
          BY <1>3, <4>1, <4>2, InsideBelow
        <4>4. Before(Route(f), Route(scans[k]))
          BY <1>3, <4>2, <4>3, InsideBefore
        <4>5. QED
          BY <3>1, <3>3, <4>4, Zenon
      <3>4. QED
        BY <1>6, <3>2, <3>3, Zenon
    <2>3. QED
      BY <2>1, <2>2, Zenon
  <1>9. ASSUME NEW k \in 1 .. D, NEW j \in 1 .. k - 1
        PROVE  Inside(BusOf(scans'[k]), Route(scans'[j]))
    <2>1. Inside(BusOf(scans[k]), Route(scans[j]))
      BY Zenon DEF RoutesOK, ScansRouted, FrameRouted
    <2>2. j \in 1 .. D - 1
      BY <1>1
    <2>3. BusOf(scans'[k]) = BusOf(scans[k])
      BY <1>1, <1>3, <1>6, Zenon
    <2>4. QED
      BY <2>1, <2>2, <2>3, Zenon
  <1>10. ASSUME NEW k \in 1 .. D PROVE FrameRouted(k)'
    <2>1. PICK x : x = scans'[k]
      OBVIOUS
    <2>2. ASSUME NEW l \in Seen' PROVE Before(Route(l), Route(scans[k]))'
      <3>1. Before(Route(l), Route(x)) /\ Route(l)' = Route(l) /\ Route(x)' = Route(x)
        BY <1>4, <1>8, <2>1, Zenon
      <3>2. QED
        BY <2>1, <3>1, Zenon DEF Route, BusOf
    <2>3. ASSUME NEW j \in 1 .. k - 1 PROVE Inside(BusOf(scans[k]), Route(scans[j]))'
      <3>1. PICK y : y = scans'[j]
        OBVIOUS
      <3>2. Inside(BusOf(x), Route(y)) /\ BusOf(x)' = BusOf(x) /\ Route(y)' = Route(y)
        BY <1>4, <1>9, <2>1, <3>1, Zenon
      <3>3. QED
        BY <2>1, <3>1, <3>2, Zenon DEF Route, BusOf
    <2>4. QED
      BY <1>7, <2>2, <2>3, Zenon DEF FrameRouted
  <1>11. QED
    BY <1>10

(* A turn of the function loop, seen from the paths: the function is not
   there, turned away or given the next node, and the activation goes on. *)
FunctionTurned(f) ==
  \/ UNCHANGED <<heap, lost>>
  \/ /\ Answers(Here(f)) /\ heap' = heap /\ lost' = lost \cup {Here(f)}
  \/ /\ Answers(Here(f)) /\ lost' = lost
     /\ Len(heap') = Len(heap) + 1 /\ heap'[Len(heap) + 1].Loc = Here(f)
     /\ \A n \in Ids : heap'[n].Loc = heap[n].Loc

FrameTurned(f, D) ==
  /\ scans'[D].Seg = f.Seg /\ scans'[D].Bus = f.Bus /\ scans'[D].Out = f.Out
  /\ scans'[D].Dev = f.Dev /\ scans'[D].Fun = f.Fun + 1
  /\ \A k \in 1 .. D - 1 : scans'[k] = scans[k]
  /\ \/ Len(scans') = D
     \/ /\ Len(scans') = D + 1 /\ scans'[D + 1] = ScanBehind(f, Len(heap) + 1)
        /\ Answers(Here(f)) /\ hw[Here(f)].bridge
        /\ Len(heap') = Len(heap) + 1 /\ heap'[Len(heap) + 1].Loc = Here(f)

LEMMA TurnEffect ==
  ASSUME TypeInv, SkipAbsent \/ NoMemory \/ AddNode, NEW f, f = Top(scans), NEW D, D = Len(scans)
  PROVE  /\ UNCHANGED <<hw, table, pc, index>> /\ pc = "scan" /\ f.Fun < f.MaxFun
         /\ FunctionTurned(f) /\ FrameTurned(f, D)
PROOF
  <1>1. /\ pc = "scan" /\ UNCHANGED <<hw, table, pc, index>> /\ f.Fun < f.MaxFun
    BY DEF SkipAbsent, NoMemory, AddNode, InFunctionLoop, platform, locals
  <1>2. scans \in Seq(ScanFrames) /\ scans # <<>> /\ TypeOK /\ Len(heap) \in Nat
    BY <1>1 DEF TypeInv, TypeOK, StackTypeOK, HeapTypeOK
  <1>3. D \in Nat \ {0} /\ f \in ScanFrames /\ f = scans[D]
    BY <1>2, TopLemma DEF Top
  <1>4. CASE SkipAbsent \/ NoMemory
    <2>1. PICK g : /\ scans' = SetTop(scans, g)
                   /\ g \in {[f EXCEPT !.Fun = @ + 1],
                             [f EXCEPT !.Fun = @ + 1, !.MaxFun = LoopBound(f)]}
      BY <1>4 DEF SkipAbsent, NoMemory
    <2>2. /\ g.Seg = f.Seg /\ g.Bus = f.Bus /\ g.Dev = f.Dev /\ g.Fun = f.Fun + 1
          /\ g.Out = f.Out
      <3>1. f \in ScanFrames
        BY <1>3
      <3>2. CASE g = [f EXCEPT !.Fun = @ + 1]
        BY <3>1, <3>2 DEF ScanFrames
      <3>3. CASE g = [f EXCEPT !.Fun = @ + 1, !.MaxFun = LoopBound(f)]
        BY <3>1, <3>3 DEF ScanFrames
      <3>4. QED
        BY <2>1, <3>2, <3>3
    <2>3. /\ Len(SetTop(scans, g)) = D /\ SetTop(scans, g)[D] = g
          /\ \A k \in 1 .. D - 1 : SetTop(scans, g)[k] = scans[k]
          /\ SetTop(scans, g) \in Seq(ScanFrames \cup {g})
      <3>1. scans \in Seq(ScanFrames) /\ scans # <<>>
        BY <1>2
      <3>2. /\ Len(SetTop(scans, g)) = Len(scans) /\ SetTop(scans, g)[Len(scans)] = g
            /\ \A k \in 1 .. Len(scans) - 1 : SetTop(scans, g)[k] = scans[k]
            /\ SetTop(scans, g) \in Seq(ScanFrames \cup {g})
        BY <3>1, ReplaceTop
      <3>3. QED
        BY <3>2, Zenon
    <2>4. FrameTurned(f, D)
      BY <2>1, <2>2, <2>3, Zenon DEF FrameTurned
    <2>5. FunctionTurned(f)
      BY <1>4 DEF SkipAbsent, NoMemory, FunctionTurned
    <2>6. QED
      BY <1>1, <2>4, <2>5
  <1>5. CASE AddNode
    <2>1. Answers(Here(f)) /\ heap' = WithNode(f) /\ lost' = lost
      BY <1>5 DEF AddNode
    <2>2. Len(heap') = Len(heap) + 1
      BY <1>1, <1>2, <2>1, WithNodeLemma
    <2>3. heap'[Len(heap) + 1].Loc = Here(f) /\ \A n \in Ids : heap'[n].Loc = heap[n].Loc
      BY <1>1, <1>2, <2>1, WithNodeFunctions DEF SameFunction
    <2>4. FunctionTurned(f)
      BY <2>1, <2>2, <2>3, Zenon DEF FunctionTurned
    <2>5. PICK g : g = [f EXCEPT !.Fun = @ + 1, !.MaxFun = LoopBound(f), !.Tail = Len(heap) + 1,
                                 !.Head = IF f.Tail = NULL THEN Len(heap) + 1 ELSE @]
      OBVIOUS
    <2>6. /\ g.Seg = f.Seg /\ g.Bus = f.Bus /\ g.Dev = f.Dev /\ g.Fun = f.Fun + 1
          /\ g.Out = f.Out
      <3>1. f \in ScanFrames
        BY <1>3
      <3>2. QED
        BY <2>5, <3>1 DEF ScanFrames
    <2>7. /\ Len(SetTop(scans, g)) = D /\ SetTop(scans, g)[D] = g
          /\ \A k \in 1 .. D - 1 : SetTop(scans, g)[k] = scans[k]
          /\ SetTop(scans, g) \in Seq(ScanFrames \cup {g})
      <3>1. scans \in Seq(ScanFrames) /\ scans # <<>>
        BY <1>2
      <3>2. /\ Len(SetTop(scans, g)) = Len(scans) /\ SetTop(scans, g)[Len(scans)] = g
            /\ \A k \in 1 .. Len(scans) - 1 : SetTop(scans, g)[k] = scans[k]
            /\ SetTop(scans, g) \in Seq(ScanFrames \cup {g})
        BY <3>1, ReplaceTop
      <3>3. QED
        BY <3>2, Zenon
    <2>8. scans' = IF hw[Here(f)].bridge THEN Append(SetTop(scans, g), ScanBehind(f, Len(heap) + 1))
                   ELSE SetTop(scans, g)
      BY <1>5, <2>5 DEF AddNode
    <2>9. CASE ~hw[Here(f)].bridge
      <3>1. FrameTurned(f, D)
        BY <2>6, <2>7, <2>8, <2>9, Zenon DEF FrameTurned
      <3>2. QED
        BY <1>1, <2>4, <3>1
    <2>10. CASE hw[Here(f)].bridge
      <3>1. PICK t, c : t = SetTop(scans, g) /\ c = ScanBehind(f, Len(heap) + 1)
        OBVIOUS
      <3>2. /\ t \in Seq(ScanFrames \cup {g}) /\ Len(t) = D /\ t[D] = g
            /\ \A k \in 1 .. D - 1 : t[k] = scans[k]
            /\ scans' = Append(t, c)
        BY <2>7, <2>8, <2>10, <3>1, Zenon
      <3>3. /\ Len(scans') = D + 1 /\ scans'[D + 1] = c /\ scans'[D] = g
            /\ \A k \in 1 .. D - 1 : scans'[k] = scans[k]
        BY <1>3, <3>2
      <3>4. FrameTurned(f, D)
        BY <2>1, <2>2, <2>3, <2>6, <2>10, <3>1, <3>3, Zenon DEF FrameTurned
      <3>5. QED
        BY <1>1, <2>4, <3>4
    <2>11. QED
      BY <2>9, <2>10
  <1>6. QED
    BY <1>4, <1>5

(* Of the steps that see no other function, only the stack matters. *)
LEMMA RoutesSame ==
  ASSUME RoutesOK, UNCHANGED <<hw, table, lost>>, Ids' = Ids,
         \A n \in Ids : heap'[n].Loc = heap[n].Loc
  PROVE  /\ Met' = Met /\ Seen' = Seen
         /\ SeenRouted' /\ MetLed' /\ LostApart' /\ MetInOrder'
PROOF
  <1>1. Met' = Met /\ Seen' = Seen
    BY Zenon DEF Met, Seen
  <1>2. /\ \A x : BusOf(x)' = BusOf(x) /\ Route(x)' = Route(x)
        /\ Existing' = Existing /\ Starts' = Starts
    BY SameRoutes, Zenon
  <1>3. SeenRouted' /\ MetLed' /\ LostApart'
    BY <1>1, <1>2, Zenon DEF RoutesOK, SeenRouted, MetLed, LostApart, LedTo
  <1>4. ASSUME NEW m \in Ids, NEW n \in Ids, m < n
        PROVE  Before(Route(heap[m].Loc), Route(heap[n].Loc))'
    <2>1. PICK a, b : a = heap[m].Loc /\ b = heap[n].Loc
      OBVIOUS
    <2>2. Before(Route(a), Route(b)) /\ Route(a)' = Route(a) /\ Route(b)' = Route(b)
      BY <1>2, <1>4, <2>1, Zenon DEF RoutesOK, MetInOrder
    <2>3. heap'[m].Loc = a /\ heap'[n].Loc = b
      BY <2>1, Zenon
    <2>4. QED
      BY <2>2, <2>3, Zenon DEF Route, BusOf
  <1>5. QED
    BY <1>1, <1>3, <1>4, Zenon DEF MetInOrder

(* The running activation is on a bus with a path, at a place where nothing
   has been seen. *)
LEMMA RunningRoute ==
  ASSUME ShapeInv, NumberedOK, RoutesOK, pc = "scan", NEW f, f = Top(scans), NEW D, D = Len(scans)
  PROVE  /\ D \in Nat \ {0} /\ D \in 1 .. D /\ f = scans[D] /\ f \in ScanFrames
         /\ BusOf(f) \in Seq(Nat) /\ BusOf(f) # <<>> /\ Place(f) \in Nat
         /\ Route(f) \in Seq(Nat) /\ Route(f) # <<>> /\ Route(f) = Append(BusOf(f), Place(f))
         /\ FrameRouted(D) /\ Here(f) \notin Seen
PROOF
  <1>1. D \in Nat \ {0} /\ D \in 1 .. D /\ f = scans[D] /\ f \in ScanFrames
    <2>1. scans \in Seq(ScanFrames) /\ scans # <<>>
      BY DEF ShapeInv, TypeInv, TypeOK, StackTypeOK
    <2>2. QED
      BY <2>1, TopLemma DEF Top
  <1>2. TypeInv /\ PlatformTypeOK /\ LastBus \in Nat /\ SeenRouted
    BY GeometryAssumption DEF ShapeInv, TypeInv, TypeOK, RoutesOK
  <1>3. FrameRouted(D)
    BY <1>1, Zenon DEF RoutesOK, ScansRouted
  <1>4. /\ BusOf(f) \in Seq(Nat) /\ Place(f) \in Nat
        /\ Route(f) \in Seq(Nat) /\ Route(f) # <<>> /\ Route(f) = Append(BusOf(f), Place(f))
    BY <1>1, <1>2, ScansTypes, Zenon DEF Route
  <1>5. BusOf(f) # <<>>
    <2>1. CASE D = 1
      <3>1. BusOf(f) = <<index>>
        BY <1>1, <1>3, <2>1, Zenon DEF FrameRouted, CalledFor
      <3>2. QED
        BY <3>1
    <2>2. CASE D # 1
      <3>1. D > 1
        BY <1>1, <2>2
      <3>2. scans[D].Out \in Ids
        BY <1>1, <3>1, Zenon DEF ShapeInv, FramesOK
      <3>3. heap[scans[D].Out].Loc \in Seen
        BY <3>2, Zenon DEF Seen, Met
      <3>4. Route(heap[scans[D].Out].Loc) # <<>>
        BY <1>2, <3>3, SeenTypes, Zenon
      <3>5. QED
        BY <1>1, <1>3, <2>2, <3>4, Zenon DEF FrameRouted, CalledFor
    <2>3. QED
      BY <2>1, <2>2
  <1>6. Here(f) \notin Seen
    <2>1. SUFFICES ASSUME Here(f) \in Seen PROVE FALSE
      OBVIOUS
    <2>2. Before(Route(Here(f)), Route(f)) /\ Route(Here(f)) = Route(f)
      BY <1>1, <1>3, <2>1, HereRoute, Zenon DEF FrameRouted
    <2>3. QED
      BY <1>4, <2>2, NotBeforeItself, Zenon
  <1>7. QED
    BY <1>1, <1>3, <1>4, <1>5, <1>6

(* What a turn of the loop sees. *)
LEMMA TurnSeen ==
  ASSUME TypeInv, NEW h, NEW f, h = Here(f), FunctionTurned(f)
  PROVE  /\ Met \subseteq Met' /\ Seen \subseteq Seen'
         /\ Met' \subseteq Met \cup {h} /\ Seen' \subseteq Seen \cup {h}
         /\ lost \subseteq lost' /\ lost' \subseteq lost \cup {h} /\ (Met' = Met \/ lost' = lost)
         /\ Seen' # Seen => Answers(h) /\ h \in Seen' /\ h \notin Seen
         /\ \A n \in Ids : n \in Ids' /\ heap'[n].Loc = heap[n].Loc
         /\ Len(heap) \in Nat
         /\ \/ Ids' = Ids
            \/ Answers(h) /\ Ids' = Ids \cup {Len(heap) + 1} /\ heap'[Len(heap) + 1].Loc = h /\ h \in Met'
PROOF
  <1>1. Len(heap) \in Nat
    BY DEF TypeInv, TypeOK, HeapTypeOK
  <1>2. CASE heap' = heap /\ (lost' = lost \/ (Answers(h) /\ lost' = lost \cup {h}))
    <2>1. Ids' = Ids /\ Met' = Met
      BY <1>2 DEF Met, Ids
    <2>2. Seen \subseteq Seen' /\ Seen' \subseteq Seen \cup {h} /\ lost \subseteq lost'
          /\ lost' \subseteq lost \cup {h} /\ (Seen' # Seen => Answers(h) /\ h \in Seen' /\ h \notin Seen)
      BY <1>2, <2>1 DEF Seen
    <2>3. QED
      BY <1>1, <1>2, <2>1, <2>2
  <1>3. CASE /\ Answers(h) /\ lost' = lost
             /\ Len(heap') = Len(heap) + 1 /\ heap'[Len(heap) + 1].Loc = h
             /\ \A n \in Ids : heap'[n].Loc = heap[n].Loc
    <2>1. Ids' = Ids \cup {Len(heap) + 1}
      BY <1>1, <1>3 DEF Ids
    <2>2. \A l : l \in Met' <=> l \in Met \/ l = h
      BY <1>3, <2>1, Zenon DEF Met
    <2>3. QED
      BY <1>1, <1>3, <2>1, <2>2 DEF Seen
  <1>4. QED
    BY <1>2, <1>3 DEF FunctionTurned

(* The call for the bus behind a bridge h just found, from f, resting at g. *)
LEMMA RoutesBehind ==
  ASSUME ShapeInv, NumberedOK, RoutesOK, pc = "scan", UNCHANGED <<hw, table, index>>,
         NEW D, D = Len(scans), NEW f, f = Top(scans), NEW h, h = Here(f),
         h \in Existing, hw[h].bridge, h \in Met', Met \subseteq Met', Seen' \subseteq Seen \cup {h},
         NEW new, heap'[new].Loc = h,
         Len(scans') = D + 1, scans'[D + 1] = ScanBehind(f, new), \A k \in 1 .. D - 1 : scans'[k] = scans[k],
         scans'[D].Seg = f.Seg, scans'[D].Bus = f.Bus,
         Place(scans'[D]) \in Nat, Place(f) < Place(scans'[D])
  PROVE  FrameRouted(D + 1)'
PROOF
  <1>1. /\ D \in Nat \ {0} /\ D \in 1 .. D /\ f = scans[D] /\ f \in ScanFrames
        /\ BusOf(f) \in Seq(Nat) /\ BusOf(f) # <<>> /\ Place(f) \in Nat
        /\ Route(f) \in Seq(Nat) /\ Route(f) # <<>> /\ Route(f) = Append(BusOf(f), Place(f))
        /\ FrameRouted(D)
    BY RunningRoute
  <1>2. TypeInv /\ PlatformTypeOK /\ LastBus \in Nat /\ SeenRouted
    BY GeometryAssumption DEF ShapeInv, TypeInv, TypeOK, RoutesOK
  <1>3. /\ \A x : BusOf(x)' = BusOf(x) /\ Route(x)' = Route(x)
        /\ Starts' = Starts
    BY SameRoutes, Zenon
  <1>4. PICK c, g : c = scans'[D + 1] /\ g = scans'[D]
    OBVIOUS
  <1>5. c.Seg = f.Seg /\ c.Bus = hw[h].secondary /\ c.Dev = 0 /\ c.Fun = 0 /\ c.Out = new
    BY <1>4 DEF ScanBehind, ScanFrame
  <1>6. /\ BusOf(h) = BusOf(f) /\ Place(h) = Place(f) /\ Route(h) = Route(f)
        /\ h.Seg = f.Seg /\ h.Bus = f.Bus
    BY HereRoute
  <1>7. BusOf(c) = Route(f)
    <2>1. h \in Existing \ {} /\ BusRoute({}, h.Seg, h.Bus) # <<>>
      BY <1>1, <1>6, Zenon DEF BusOf
    <2>2. BusRoute({}, h.Seg, hw[h].secondary) = Append(BusRoute({}, h.Seg, h.Bus), Place(h))
      BY <1>2, <2>1, BehindRoute, Zenon
    <2>3. QED
      BY <1>1, <1>5, <1>6, <2>2, Zenon DEF BusOf
  <1>8. Place(c) = 0 /\ Route(c) = Append(Route(f), 0)
    <2>1. Place(c) = 0
      BY <1>5, GeometryAssumption DEF Place
    <2>2. QED
      BY <1>7, <2>1, Zenon DEF Route
  <1>9. CalledFor(D + 1)'
    <2>1. D + 1 # 1
      BY <1>1
    <2>2. BusOf(c)' = Route(h)'
      BY <1>3, <1>6, <1>7, Zenon
    <2>3. QED
      BY <1>4, <1>5, <2>1, <2>2, Zenon DEF CalledFor, Route, BusOf
  <1>10. LedTo(scans[D + 1].Seg, scans[D + 1].Bus)'
    <2>1. h \in Met' /\ h.Seg = c.Seg /\ hw'[h].bridge /\ hw'[h].secondary = c.Bus
      BY <1>5, <1>6, Zenon
    <2>2. QED
      BY <1>4, <2>1, Zenon DEF LedTo
  <1>11. ASSUME NEW l \in Seen' PROVE Before(Route(l), Route(scans[D + 1]))'
    <2>1. Before(Route(l), Append(Route(f), 0))
      <3>1. CASE l \in Seen
        <4>1. Before(Route(l), Route(f))
          BY <1>1, <3>1, Zenon DEF FrameRouted
        <4>2. Route(l) \in Seq(Nat)
          BY <1>2, <3>1, SeenTypes
        <4>3. QED
          BY <1>1, <4>1, <4>2, BeforeBelow
      <3>2. CASE l = h
        <4>1. Before(Route(f), Append(Route(f), 0))
          BY <1>1, BeforeChild
        <4>2. QED
          BY <1>6, <3>2, <4>1, Zenon
      <3>3. QED
        BY <3>1, <3>2
    <2>2. Before(Route(l), Route(c)) /\ Route(l)' = Route(l) /\ Route(c)' = Route(c)
      BY <1>3, <1>8, <2>1, Zenon
    <2>3. QED
      BY <1>4, <2>2, Zenon DEF Route, BusOf
  <1>12. ASSUME NEW j \in 1 .. D PROVE Inside(BusOf(scans[D + 1]), Route(scans[j]))'
    <2>1. Inside(Route(f), Route(scans'[j]))
      <3>1. CASE j = D
        <4>1. PICK q, x, y : q = BusOf(f) /\ x = Place(f) /\ y = Place(g)
          OBVIOUS
        <4>2. Inside(Append(q, x), Append(q, y))
          <5>1. q \in Seq(Nat) /\ x \in Nat /\ y \in Nat /\ x < y
            BY <1>1, <1>4, <4>1, Zenon
          <5>2. QED
            BY <5>1, InsidePassed, Zenon
        <4>3. BusOf(g) = BusOf(f)
          BY <1>4, Zenon DEF BusOf
        <4>4. QED
          BY <1>1, <1>4, <3>1, <4>1, <4>2, <4>3, Zenon DEF Route
      <3>2. CASE j # D
        <4>1. j \in 1 .. D - 1 /\ j \in 1 .. Len(scans)
          BY <1>1, <3>2
        <4>2. Inside(BusOf(f), Route(scans[j]))
          BY <1>1, <4>1, Zenon DEF FrameRouted
        <4>3. Route(scans[j]) \in Seq(Nat) /\ Route(scans[j]) # <<>>
          BY <1>2, <4>1, ScansTypes
        <4>4. Inside(Append(BusOf(f), Place(f)), Route(scans[j]))
          BY <1>1, <4>2, <4>3, InsideBelow
        <4>5. QED
          BY <1>1, <4>1, <4>4, Zenon
      <3>3. QED
        BY <3>1, <3>2
    <2>2. PICK y : y = scans'[j]
      OBVIOUS
    <2>3. Inside(BusOf(c), Route(y)) /\ BusOf(c)' = BusOf(c) /\ Route(y)' = Route(y)
      BY <1>3, <1>7, <2>1, <2>2, Zenon
    <2>4. QED
      BY <1>4, <2>2, <2>3, Zenon DEF Route, BusOf
  <1>13. \A j \in 1 .. (D + 1) - 1 : j \in 1 .. D
    BY <1>1
  <1>14. QED
    BY <1>9, <1>10, <1>11, <1>12, <1>13, Zenon DEF FrameRouted

LEMMA RoutesTurn ==
  ASSUME ShapeInv, NumberedOK, DepthOK, RoutesOK, SkipAbsent \/ NoMemory \/ AddNode
  PROVE  RoutesOK'
PROOF
  <1>0. PICK f, D, h, g : f = Top(scans) /\ D = Len(scans) /\ h = Here(f) /\ g = scans'[D]
    OBVIOUS
  <1>1. TypeInv /\ PlatformTypeOK /\ LastBus \in Nat /\ SeenRouted
    BY GeometryAssumption DEF ShapeInv, TypeInv, TypeOK, RoutesOK
  <1>2. /\ UNCHANGED <<hw, table, pc, index>> /\ pc = "scan" /\ f.Fun < f.MaxFun
        /\ FunctionTurned(f) /\ FrameTurned(f, D)
    BY <1>0, <1>1, TurnEffect
  <1>3. /\ D \in Nat \ {0} /\ D \in 1 .. D /\ f = scans[D] /\ f \in ScanFrames
        /\ BusOf(f) \in Seq(Nat) /\ BusOf(f) # <<>> /\ Place(f) \in Nat
        /\ Route(f) \in Seq(Nat) /\ Route(f) # <<>> /\ Route(f) = Append(BusOf(f), Place(f))
        /\ FrameRouted(D) /\ h \notin Seen
    BY <1>0, <1>2, RunningRoute
  <1>4. Answers(h) => h \in Existing
    <2>1. f.MaxFun # 1 => ShownMulti(f)
      BY <1>0, <1>3, Zenon DEF DepthOK
    <2>2. QED
      BY <1>0, <1>1, <1>2, <2>1, AnswersExist
  <1>5. /\ Met \subseteq Met' /\ Seen \subseteq Seen'
        /\ Met' \subseteq Met \cup {h} /\ Seen' \subseteq Seen \cup {h}
        /\ lost \subseteq lost' /\ lost' \subseteq lost \cup {h} /\ (Met' = Met \/ lost' = lost)
        /\ (Seen' # Seen => Answers(h) /\ h \in Seen' /\ h \notin Seen)
        /\ \A n \in Ids : n \in Ids' /\ heap'[n].Loc = heap[n].Loc
        /\ Len(heap) \in Nat
        /\ \/ Ids' = Ids
           \/ Answers(h) /\ Ids' = Ids \cup {Len(heap) + 1} /\ heap'[Len(heap) + 1].Loc = h /\ h \in Met'
    BY <1>0, <1>1, <1>2, TurnSeen
  <1>6. /\ g.Seg = f.Seg /\ g.Bus = f.Bus /\ g.Out = f.Out
        /\ Place(g) = Place(f) + 1
        /\ \A k \in 1 .. D - 1 : scans'[k] = scans[k]
        /\ \/ Len(scans') = D
           \/ /\ Len(scans') = D + 1 /\ scans'[D + 1] = ScanBehind(f, Len(heap) + 1)
              /\ Answers(h) /\ hw[h].bridge
              /\ Len(heap') = Len(heap) + 1 /\ heap'[Len(heap) + 1].Loc = h
    <2>1. g.Dev = f.Dev /\ g.Fun = f.Fun + 1
      BY <1>0, <1>2, Zenon DEF FrameTurned
    <2>2. f.Dev \in Nat /\ f.Fun \in Nat
      BY <1>3, GeometryAssumption DEF ScanFrames
    <2>3. Place(g) = Place(f) + 1
      <3>1. f.Dev * (LastFun + 1) \in Nat
        BY <2>2, GeometryAssumption
      <3>2. QED
        BY <2>1, <2>2, <3>1 DEF Place
    <2>4. QED
      BY <1>0, <1>2, <2>3, Zenon DEF FrameTurned
  <1>7. Place(g) \in Nat /\ Place(f) < Place(g) /\ Place(f) <= Place(g)
    BY <1>3, <1>6
  <1>8. /\ BusOf(h) = BusOf(f) /\ Route(h) = Route(f) /\ h.Seg = f.Seg /\ h.Bus = f.Bus
    BY <1>0, HereRoute
  <1>9. /\ \A x : BusOf(x)' = BusOf(x) /\ Route(x)' = Route(x)
        /\ Existing' = Existing /\ Starts' = Starts
    BY <1>2, SameRoutes, Zenon
  <1>10. SeenRouted'
    <2>1. \A l \in Seen' : l \in Existing /\ BusOf(l) # <<>>
      BY <1>1, <1>3, <1>4, <1>5, <1>8, Zenon DEF SeenRouted
    <2>2. QED
      BY <1>9, <2>1, Zenon DEF SeenRouted
  <1>11. MetLed'
    <2>1. ASSUME NEW l \in Met' PROVE LedTo(l.Seg, l.Bus)
      <3>1. CASE l \in Met
        BY <3>1, Zenon DEF RoutesOK, MetLed
      <3>2. CASE l = h
        BY <1>3, <1>8, <3>2, Zenon DEF FrameRouted
      <3>3. QED
        BY <1>5, <3>1, <3>2
    <2>2. \A s, b : LedTo(s, b) => LedTo(s, b)'
      BY <1>2, <1>5, <1>9, Zenon DEF LedTo
    <2>3. QED
      BY <2>1, <2>2, Zenon DEF MetLed
  <1>12. LostApart'
    <2>1. SUFFICES ASSUME NEW l \in Met', l \in lost' PROVE FALSE
      BY Zenon DEF LostApart
    <2>2. \A x \in Met : x \notin lost
      BY Zenon DEF RoutesOK, LostApart
    <2>3. h \notin Met /\ h \notin lost
      BY <1>3 DEF Seen
    <2>4. QED
      BY <1>5, <2>1, <2>2, <2>3
  <1>13. MetInOrder'
    <2>1. SUFFICES ASSUME NEW m \in Ids', NEW n \in Ids', m < n
                   PROVE  Before(Route(heap[m].Loc), Route(heap[n].Loc))'
      BY Zenon DEF MetInOrder
    <2>2. PICK a, b : a = heap'[m].Loc /\ b = heap'[n].Loc
      OBVIOUS
    <2>3. Before(Route(a), Route(b))
      <3>1. CASE m \in Ids /\ n \in Ids
        BY <1>5, <2>1, <2>2, <3>1, Zenon DEF RoutesOK, MetInOrder
      <3>2. CASE ~(m \in Ids /\ n \in Ids)
        <4>1. Ids' = Ids \cup {Len(heap) + 1} /\ heap'[Len(heap) + 1].Loc = h
          BY <1>5, <3>2, Zenon
        <4>2. m \in Ids /\ n = Len(heap) + 1
          BY <1>5, <2>1, <3>2, <4>1 DEF Ids
        <4>3. a \in Seen /\ b = h
          BY <1>5, <2>2, <4>1, <4>2, Zenon DEF Seen, Met
        <4>4. Before(Route(a), Route(f))
          BY <1>3, <4>3, Zenon DEF FrameRouted
        <4>5. QED
          BY <1>8, <4>3, <4>4, Zenon
      <3>3. QED
        BY <3>1, <3>2
    <2>4. Before(Route(a), Route(b))'
      BY <1>9, <2>3, Zenon
    <2>5. QED
      BY <2>2, <2>4, Zenon DEF Route, BusOf
  <1>14. \A k \in 1 .. D : FrameRouted(k)'
    <2>1. Len(scans') \in Nat /\ D <= Len(scans')
      BY <1>3, <1>6
    <2>2. Seen' # Seen => Place(f) < Place(g) /\ Seen' \ Seen = {h}
      <3>1. Seen' # Seen => Seen' \ Seen = {h}
        BY <1>5
      <3>2. QED
        BY <1>7, <3>1
    <2>3. scans'[D] = g
      BY <1>0
    <2>4. QED
      BY <1>0, <1>2, <1>5, <1>6, <1>7, <2>1, <2>2, <2>3, RoutesGoOn, Zenon
  <1>15. Len(scans') = D + 1 => FrameRouted(D + 1)'
    <2>1. SUFFICES ASSUME Len(scans') = D + 1 PROVE FrameRouted(D + 1)'
      OBVIOUS
    <2>2. D + 1 # D
      BY <1>3
    <2>3. PICK new : new = Len(heap) + 1
      OBVIOUS
    <2>4. /\ scans'[D + 1] = ScanBehind(f, new) /\ Answers(h) /\ hw[h].bridge
          /\ Len(heap') = new /\ heap'[new].Loc = h
      BY <1>6, <2>1, <2>2, <2>3, Zenon
    <2>5. h \in Met'
      <3>1. new \in Ids'
        BY <1>5, <2>3, <2>4 DEF Ids
      <3>2. QED
        BY <2>4, <3>1, Zenon DEF Met
    <2>6. QED
      BY <1>0, <1>2, <1>4, <1>5, <1>6, <1>7, <2>1, <2>4, <2>5, RoutesBehind, Zenon
  <1>16. ScansRouted'
    <2>1. \A k \in 1 .. Len(scans') : k \in 1 .. D \/ (Len(scans') = D + 1 /\ k = D + 1)
      BY <1>3, <1>6
    <2>2. QED
      BY <1>14, <1>15, <2>1, Zenon DEF ScansRouted
  <1>17. SegmentsRouted'
    <2>1. pc' = "scan"
      BY <1>2
    <2>2. QED
      BY <2>1 DEF SegmentsRouted
  <1>18. QED
    BY <1>10, <1>11, <1>12, <1>13, <1>16, <1>17 DEF RoutesOK

(* The activations that stay as they are keep their routes. *)
LEMMA FramesStay ==
  ASSUME ShapeInv, RoutesOK, UNCHANGED <<hw, table, index>>, Met' = Met, Seen' = Seen,
         \A n \in Ids : heap'[n].Loc = heap[n].Loc,
         \A k \in 1 .. Len(scans') : k \in 1 .. Len(scans) /\ scans'[k] = scans[k],
         \A k \in 1 .. Len(scans') : \A j \in 1 .. k - 1 : j \in 1 .. Len(scans')
  PROVE  ScansRouted'
PROOF
  <1>1. /\ \A x : BusOf(x)' = BusOf(x) /\ Route(x)' = Route(x)
        /\ Starts' = Starts
    BY SameRoutes, Zenon
  <1>2. SUFFICES ASSUME NEW k \in 1 .. Len(scans') PROVE FrameRouted(k)'
    BY Zenon DEF ScansRouted
  <1>3. PICK x : x = scans[k] /\ x = scans'[k]
    OBVIOUS
  <1>4. FrameRouted(k) /\ k \in 1 .. Len(scans)
    BY Zenon DEF RoutesOK, ScansRouted
  <1>5. CalledFor(k)'
    <2>1. CASE k = 1
      <3>1. BusOf(x) = <<index>> /\ BusOf(x)' = BusOf(x)
        BY <1>1, <1>3, <1>4, <2>1, Zenon DEF FrameRouted, CalledFor
      <3>2. QED
        BY <1>3, <2>1, <3>1, Zenon DEF CalledFor, BusOf
    <2>2. CASE k # 1
      <3>1. x.Out \in Ids
        <4>1. k > 1
          BY <1>4, <2>2
        <4>2. QED
          BY <1>3, <1>4, <4>1, Zenon DEF ShapeInv, FramesOK
      <3>2. PICK l : l = heap[x.Out].Loc /\ l = heap'[x.Out].Loc
        BY <3>1, Zenon
      <3>3. BusOf(x) = Route(l) /\ BusOf(x)' = BusOf(x) /\ Route(l)' = Route(l)
        BY <1>1, <1>3, <1>4, <2>2, <3>2, Zenon DEF FrameRouted, CalledFor
      <3>4. QED
        BY <1>3, <2>2, <3>2, <3>3, Zenon DEF CalledFor, BusOf, Route
    <2>3. QED
      BY <2>1, <2>2
  <1>6. LedTo(scans[k].Seg, scans[k].Bus)'
    <2>1. LedTo(x.Seg, x.Bus)
      BY <1>3, <1>4, Zenon DEF FrameRouted
    <2>2. LedTo(x.Seg, x.Bus)'
      BY <1>1, <2>1, Zenon DEF LedTo
    <2>3. QED
      BY <1>3, <2>2, Zenon DEF LedTo
  <1>7. ASSUME NEW l \in Seen' PROVE Before(Route(l), Route(scans[k]))'
    <2>1. Before(Route(l), Route(x)) /\ Route(l)' = Route(l) /\ Route(x)' = Route(x)
      BY <1>1, <1>3, <1>4, Zenon DEF FrameRouted
    <2>2. QED
      BY <1>3, <2>1, Zenon DEF Route, BusOf
  <1>8. ASSUME NEW j \in 1 .. k - 1 PROVE Inside(BusOf(scans[k]), Route(scans[j]))'
    <2>1. PICK y : y = scans[j] /\ y = scans'[j]
      <3>1. scans'[j] = scans[j]
        BY Zenon
      <3>2. QED
        BY <3>1
    <2>2. Inside(BusOf(x), Route(y)) /\ BusOf(x)' = BusOf(x) /\ Route(y)' = Route(y)
      BY <1>1, <1>3, <1>4, <2>1, Zenon DEF FrameRouted
    <2>3. QED
      BY <1>3, <2>1, <2>2, Zenon DEF Route, BusOf
  <1>9. QED
    BY <1>5, <1>6, <1>7, <1>8, Zenon DEF FrameRouted

LEMMA RoutesNextDevice ==
  ASSUME ShapeInv, NumberedOK, RoutesOK, NextDevice
  PROVE  ScansRouted'
PROOF
  <1>0. PICK f, D, g : f = Top(scans) /\ D = Len(scans)
                       /\ g = [f EXCEPT !.Dev = @ + 1, !.Fun = 0, !.MaxFun = 1]
    OBVIOUS
  <1>1. pc = "scan" /\ scans' = SetTop(scans, g) /\ UNCHANGED <<hw, table, index, heap, lost>>
    BY <1>0 DEF NextDevice, platform, locals
  <1>2. D \in Nat \ {0} /\ D \in 1 .. D /\ f = scans[D] /\ f \in ScanFrames /\ Place(f) \in Nat
    BY <1>0, <1>1, RunningRoute
  <1>3. /\ g.Seg = f.Seg /\ g.Bus = f.Bus /\ g.Out = f.Out /\ g.Dev = f.Dev + 1 /\ g.Fun = 0
    <2>1. f \in ScanFrames
      BY <1>2
    <2>2. QED
      BY <1>0, <2>1 DEF ScanFrames
  <1>4. Place(g) \in Nat /\ Place(f) <= Place(g)
    <2>1. f.Dev \in Nat /\ f.Fun \in 0 .. LastFun + 1 /\ LastFun \in Nat
      BY <1>2, GeometryAssumption DEF ScanFrames
    <2>2. (f.Dev + 1) * (LastFun + 1) = f.Dev * (LastFun + 1) + (LastFun + 1)
          /\ f.Dev * (LastFun + 1) \in Nat
      BY <2>1
    <2>3. QED
      BY <1>3, <2>1, <2>2 DEF Place
  <1>5. Len(scans') = D /\ scans'[D] = g /\ \A k \in 1 .. D - 1 : scans'[k] = scans[k]
    <2>1. scans \in Seq(ScanFrames) /\ scans # <<>>
      BY <1>1 DEF ShapeInv, TypeInv, TypeOK, StackTypeOK
    <2>2. /\ Len(SetTop(scans, g)) = Len(scans) /\ SetTop(scans, g)[Len(scans)] = g
          /\ \A k \in 1 .. Len(scans) - 1 : SetTop(scans, g)[k] = scans[k]
          /\ SetTop(scans, g) \in Seq(ScanFrames \cup {g})
      BY <2>1, ReplaceTop
    <2>3. QED
      BY <1>0, <1>1, <2>2, Zenon
  <1>6. Met' = Met /\ Seen' = Seen
    BY <1>1, Zenon DEF Met, Seen, Ids
  <1>7. Len(scans') \in Nat /\ D <= Len(scans') /\ Seen \subseteq Seen' /\ Met \subseteq Met'
        /\ \A n \in Ids : heap'[n].Loc = heap[n].Loc
    BY <1>1, <1>2, <1>5, <1>6
  <1>8. \A k \in 1 .. D : FrameRouted(k)'
    BY <1>0, <1>1, <1>3, <1>4, <1>5, <1>6, <1>7, RoutesGoOn, Zenon
  <1>9. QED
    BY <1>5, <1>8, Zenon DEF ScansRouted

LEMMA RoutesBegin ==
  ASSUME ShapeInv, NumberedOK, RoutesOK, BeginSegment
  PROVE  ScansRouted'
PROOF
  <1>1. /\ pc = "segment" /\ index <= Len(Starts)
        /\ scans' = <<ScanFrame(Starts[index].Seg, Starts[index].StartBus, NULL)>>
        /\ UNCHANGED <<hw, table, index, heap, lost>>
    BY DEF BeginSegment, platform, locals
  <1>2. TypeInv /\ PlatformTypeOK /\ LastBus \in Nat /\ SeenRouted
    BY GeometryAssumption DEF ShapeInv, TypeInv, TypeOK, RoutesOK
  <1>3. index \in 1 .. Len(Starts) /\ index \in Nat
    <2>1. index \in 1 .. Len(Starts) + 1 /\ Len(Starts) \in Nat
      BY <1>2, StartsLength DEF TypeInv, TypeOK, ControlTypeOK
    <2>2. QED
      BY <1>1, <2>1
  <1>4. PICK c : c = scans'[1]
    OBVIOUS
  <1>5. /\ Len(scans') = 1 /\ c.Seg = Starts[index].Seg /\ c.Bus = Starts[index].StartBus
        /\ c.Dev = 0 /\ c.Fun = 0
    BY <1>1, <1>4 DEF ScanFrame
  <1>6. BusOf(c) = <<index>> /\ Place(c) = 0 /\ Route(c) = Append(<<index>>, 0)
    <2>1. BusOf(c) = <<index>>
      BY <1>2, <1>3, <1>5, StartRoute, Zenon DEF BusOf
    <2>2. Place(c) = 0
      BY <1>5, GeometryAssumption DEF Place
    <2>3. QED
      BY <2>1, <2>2, Zenon DEF Route
  <1>7. /\ \A x : BusOf(x)' = BusOf(x) /\ Route(x)' = Route(x)
        /\ Starts' = Starts /\ Met' = Met /\ Seen' = Seen
    <2>1. Met' = Met /\ Seen' = Seen
      BY <1>1, Zenon DEF Met, Seen, Ids
    <2>2. QED
      BY <1>1, <2>1, SameRoutes, Zenon
  <1>8. CalledFor(1)'
    <2>1. BusOf(c)' = <<index>>
      BY <1>6, <1>7, Zenon
    <2>2. QED
      BY <1>1, <1>4, <2>1, Zenon DEF CalledFor, BusOf
  <1>9. LedTo(scans[1].Seg, scans[1].Bus)'
    BY <1>3, <1>4, <1>5, <1>7, Zenon DEF LedTo
  <1>10. ASSUME NEW l \in Seen' PROVE Before(Route(l), Route(scans[1]))'
    <2>1. l \in Seen /\ Route(l)[1] < index
      BY <1>1, <1>7, Zenon DEF RoutesOK, SegmentsRouted
    <2>2. Route(l) \in Seq(Nat) /\ Len(Route(l)) >= 2
      BY <1>2, <2>1, SeenTypes
    <2>3. Before(Route(l), Append(<<index>>, 0))
      <3>1. PICK p, i, x : p = Route(l) /\ i = index /\ x = 0
        OBVIOUS
      <3>2. p \in Seq(Nat) /\ Len(p) >= 2 /\ i \in Nat /\ x \in Nat /\ p[1] < i
        BY <1>3, <2>1, <2>2, <3>1
      <3>3. Before(p, Append(<<i>>, x))
        BY <3>2, SegmentOrder, Zenon
      <3>4. QED
        BY <3>1, <3>3, Zenon
    <2>4. Before(Route(l), Route(c)) /\ Route(l)' = Route(l) /\ Route(c)' = Route(c)
      BY <1>6, <1>7, <2>3, Zenon
    <2>5. QED
      BY <1>4, <2>4, Zenon DEF Route, BusOf
  <1>11. \A k \in 1 .. Len(scans') : k = 1 /\ 1 .. k - 1 = {}
    BY <1>5
  <1>12. QED
    BY <1>8, <1>9, <1>10, <1>11, Zenon DEF ScansRouted, FrameRouted

LEMMA RoutesOnward ==
  ASSUME ShapeInv, NumberedOK, RoutesOK, Onward
  PROVE  RoutesOK'
PROOF
  <1>1. TypeInv /\ PlatformTypeOK /\ LastBus \in Nat /\ SeenRouted /\ heap \in Seq(NODE)
    BY GeometryAssumption DEF ShapeInv, TypeInv, TypeOK, RoutesOK, HeapTypeOK
  <1>2. /\ UNCHANGED <<hw, table, lost>> /\ Met' = Met
        /\ Ids' = Ids /\ \A n \in Ids : heap'[n].Loc = heap[n].Loc
    BY <1>1, OnwardMet, OnwardFunctions, Zenon DEF SameFunction
  <1>3. /\ Seen' = Seen
        /\ SeenRouted' /\ MetLed' /\ LostApart' /\ MetInOrder'
    BY <1>2, RoutesSame, Zenon
  <1>4. \A l : Route(l)' = Route(l)
    BY <1>2, SameRoutes, Zenon
  <1>5. ScansRouted' /\ SegmentsRouted'
    <2>1. CASE NextDevice
      <3>1. ScansRouted'
        BY <2>1, RoutesNextDevice
      <3>2. pc' = "scan"
        BY <2>1 DEF NextDevice
      <3>3. QED
        BY <3>1, <3>2 DEF SegmentsRouted
    <2>2. CASE BeginSegment
      <3>1. ScansRouted'
        BY <2>2, RoutesBegin
      <3>2. pc' = "scan"
        BY <2>2 DEF BeginSegment
      <3>3. QED
        BY <3>1, <3>2 DEF SegmentsRouted
    <2>3. CASE ReturnToBridge
      <3>1. PICK f : f = Top(scans)
        OBVIOUS
      <3>2. /\ UNCHANGED <<hw, table, pc>> /\ pc = "scan" /\ Len(scans) \in Nat /\ Len(scans) > 1
            /\ Len(scans') = Len(scans) - 1
            /\ \A k \in 1 .. Len(scans) - 1 : scans'[k] = scans[k]
        BY <1>1, <2>3, <3>1, ReturnToBridgeEffect
      <3>3. index' = index
        BY <2>3 DEF ReturnToBridge, locals
      <3>4. /\ \A k \in 1 .. Len(scans') : k \in 1 .. Len(scans) /\ k \in 1 .. Len(scans) - 1
            /\ \A k \in 1 .. Len(scans') : \A j \in 1 .. k - 1 : j \in 1 .. Len(scans')
        BY <3>2
      <3>5. ScansRouted'
        BY <1>2, <1>3, <3>2, <3>3, <3>4, FramesStay, Zenon
      <3>6. QED
        BY <3>2, <3>5 DEF SegmentsRouted
    <2>4. CASE ReturnToSegment
      <3>1. /\ scans' = <<>> /\ pc = "scan" /\ Len(scans) = 1 /\ pc' \in {"link", "scanned"}
            /\ index' = index
        BY <2>4 DEF ReturnToSegment
      <3>2. 1 .. Len(scans') = {}
        BY <3>1
      <3>3. ScansRouted'
        BY <3>2, Zenon DEF ScansRouted
      <3>4. PICK f : f = Top(scans)
        OBVIOUS
      <3>5. /\ Place(f) \in Nat /\ Route(f) = Append(BusOf(f), Place(f)) /\ FrameRouted(1)
            /\ f = scans[1]
        BY <3>1, <3>4, RunningRoute
      <3>6. ASSUME NEW l \in Seen PROVE Route(l)[1] <= index
        <4>1. Before(Route(l), Append(<<index>>, Place(f)))
          BY <3>5, Zenon DEF FrameRouted, CalledFor
        <4>2. PICK p, i, x : p = Route(l) /\ i = index /\ x = Place(f)
          OBVIOUS
        <4>3. index \in Nat
          BY <1>1, StartsLength DEF TypeInv, TypeOK, ControlTypeOK
        <4>4. p \in Seq(Nat) /\ Len(p) >= 2 /\ i \in Nat /\ x \in Nat
          BY <1>1, <3>5, <4>2, <4>3, SeenTypes
        <4>5. p[1] <= i
          BY <4>1, <4>2, <4>4, SegmentOrder, Zenon
        <4>6. QED
          BY <4>2, <4>5, Zenon
      <3>7. SegmentsRouted'
        <4>1. \A l \in Seen' : Route(l)'[1] <= index'
          BY <1>3, <1>4, <3>1, <3>6, Zenon
        <4>2. pc' # "segment"
          BY <3>1
        <4>3. QED
          BY <4>1, <4>2, Zenon DEF SegmentsRouted
      <3>8. QED
        BY <3>3, <3>7
    <2>5. CASE SkipEmptySegment \/ LastSiblingReturn
      <3>1. pc \in {"link", "last"} /\ pc' = "segment" /\ index' = index + 1 /\ scans' = scans
        BY <2>5 DEF SkipEmptySegment, LastSiblingReturn
      <3>2. scans = <<>> /\ index \in Nat
        BY <1>1, <3>1, StartsLength DEF TypeInv, TypeOK, StackTypeOK, ControlTypeOK
      <3>3. 1 .. Len(scans') = {}
        BY <3>1, <3>2
      <3>4. ScansRouted'
        BY <3>3, Zenon DEF ScansRouted
      <3>5. ASSUME NEW l \in Seen PROVE Route(l)[1] < index'
        <4>1. Route(l)[1] <= index
          BY <3>1, Zenon DEF RoutesOK, SegmentsRouted
        <4>2. Route(l)[1] \in Nat
          BY <1>1, SeenTypes
        <4>3. QED
          BY <3>1, <3>2, <4>1, <4>2
      <3>6. SegmentsRouted'
        <4>1. \A l \in Seen' : Route(l)'[1] < index'
          BY <1>3, <1>4, <3>5, Zenon
        <4>2. pc' \notin {"link", "last"}
          BY <3>1
        <4>3. QED
          BY <4>1, <4>2, Zenon DEF SegmentsRouted
      <3>7. QED
        BY <3>4, <3>6
    <2>6. CASE LinkSegment \/ LastSiblingStep \/ EndSegments \/ Walk \/ Free
      <3>1. /\ pc # "scan" /\ scans' = scans
            /\ pc' \in {"link", "last"} => pc \in {"link", "last"} /\ index' = index
            /\ pc' # "segment"
        BY <2>6 DEF LinkSegment, LastSiblingStep, EndSegments, Walk, BeginWalk, SkipWalk, Visit,
           ReturnFromWalk, Free, FreeEnter, Release, ReturnFromFree, locals
      <3>2. scans = <<>>
        BY <1>1, <3>1 DEF TypeInv, TypeOK, StackTypeOK
      <3>3. 1 .. Len(scans') = {}
        BY <3>1, <3>2
      <3>4. ScansRouted'
        BY <3>3, Zenon DEF ScansRouted
      <3>5. SegmentsRouted'
        <4>1. ASSUME pc' \in {"link", "last"} PROVE \A l \in Seen' : Route(l)'[1] <= index'
          BY <1>3, <1>4, <3>1, <4>1, Zenon DEF RoutesOK, SegmentsRouted
        <4>2. QED
          BY <3>1, <4>1, Zenon DEF SegmentsRouted
      <3>6. QED
        BY <3>4, <3>5
    <2>7. QED
      BY <2>1, <2>2, <2>3, <2>4, <2>5, <2>6, Zenon DEF Onward
  <1>6. QED
    BY <1>3, <1>5, Zenon DEF RoutesOK

LEMMA InitRoutes == Init => RoutesOK
PROOF
  <1>. SUFFICES ASSUME Init PROVE RoutesOK
    OBVIOUS
  <1>1. heap = <<>> /\ lost = {} /\ scans = <<>>
    BY DEF Init
  <1>2. Ids = {} /\ 1 .. Len(scans) = {}
    BY <1>1 DEF Ids
  <1>3. Met = {} /\ Seen = {}
    BY <1>1, <1>2 DEF Met, Seen
  <1>4. QED
    BY <1>2, <1>3, Zenon DEF RoutesOK, SeenRouted, MetLed, LostApart, MetInOrder, ScansRouted, SegmentsRouted

LEMMA RoutesStutter ==
  ASSUME ShapeInv, RoutesOK, UNCHANGED vars
  PROVE  RoutesOK'
PROOF
  <1>1. UNCHANGED <<hw, table, heap, pc, index, scans, lost>>
    BY DEF vars
  <1>2. Ids' = Ids /\ \A n \in Ids : heap'[n].Loc = heap[n].Loc
    BY <1>1, Zenon DEF Ids
  <1>3. /\ Met' = Met /\ Seen' = Seen
        /\ SeenRouted' /\ MetLed' /\ LostApart' /\ MetInOrder'
    BY <1>1, <1>2, RoutesSame, Zenon
  <1>4. ScansRouted'
    <2>1. Len(scans) \in Nat
      BY PointerTypes DEF ShapeInv
    <2>2. /\ \A k \in 1 .. Len(scans') : k \in 1 .. Len(scans) /\ scans'[k] = scans[k]
          /\ \A k \in 1 .. Len(scans') : \A j \in 1 .. k - 1 : j \in 1 .. Len(scans')
      BY <1>1, <2>1
    <2>3. QED
      BY <1>1, <1>2, <1>3, <2>2, FramesStay, Zenon
  <1>5. SegmentsRouted'
    <2>1. \A l : Route(l)' = Route(l)
      BY <1>1, SameRoutes, Zenon
    <2>2. pc' = pc /\ index' = index
      BY <1>1
    <2>3. ASSUME pc' = "segment", NEW l \in Seen' PROVE Route(l)'[1] < index'
      BY <1>3, <2>1, <2>2, <2>3, Zenon DEF RoutesOK, SegmentsRouted
    <2>4. ASSUME pc' \in {"link", "last"}, NEW l \in Seen' PROVE Route(l)'[1] <= index'
      BY <1>3, <2>1, <2>2, <2>4, Zenon DEF RoutesOK, SegmentsRouted
    <2>5. QED
      BY <2>3, <2>4, Zenon DEF SegmentsRouted
  <1>6. QED
    BY <1>3, <1>4, <1>5, Zenon DEF RoutesOK

LEMMA RoutesNumbered == ASSUME RoutesInv PROVE NumberedOK /\ TypeInv /\ PlatformTypeOK
PROOF
  <1>1. TypeInv /\ PlatformTypeOK /\ Inventory!Numbered
    BY DEF RoutesInv, DepthInv, TypeInv, TypeOK
  <1>2. QED
    BY <1>1, NumberedHere, Zenon

LEMMA NextRoutes == RoutesInv /\ [Next]_vars => RoutesInv'
PROOF
  <1>. SUFFICES ASSUME RoutesInv, [Next]_vars PROVE RoutesInv'
    OBVIOUS
  <1>1. ShapeInv' /\ DepthInv' /\ Inventory!Numbered'
    BY NextShape, NextDepth, NextMachine, Zenon DEF RoutesInv
  <1>2. ShapeInv /\ DepthOK /\ RoutesOK /\ NumberedOK
    BY RoutesNumbered, Zenon DEF RoutesInv, DepthInv
  <1>3. RoutesOK'
    <2>1. CASE Onward
      BY <1>2, <2>1, RoutesOnward, Zenon
    <2>2. CASE SkipAbsent \/ NoMemory \/ AddNode
      BY <1>2, <2>2, RoutesTurn, Zenon
    <2>3. CASE UNCHANGED vars
      BY <1>2, <2>3, RoutesStutter, Zenon
    <2>4. QED
      BY <2>1, <2>2, <2>3, Zenon DEF Next, Scan, Onward
  <1>4. QED
    BY <1>1, <1>3, Zenon DEF RoutesInv

-----------------------------------------------------------------------------
(* How deep a node is: the links keep to the paths. *)
Level(n) == Len(BusOf(heap[n].Loc))

LinksLevel ==
  \A n \in Ids :
    /\ heap[n].FirstChild # NULL => Level(heap[n].FirstChild) = Level(n) + 1
    /\ heap[n].NextSibling # NULL => Level(heap[n].NextSibling) = Level(n)

ChainsLevel ==
  \A k \in 1 .. Len(scans) :
    /\ scans[k].Head # NULL => Level(scans[k].Head) = Len(BusOf(scans[k]))
    /\ scans[k].Tail # NULL => Level(scans[k].Tail) = Len(BusOf(scans[k]))

ListLevel == \A p \in {root, segRoot, tail} : p # NULL => Level(p) = 1

LevelOK == LinksLevel /\ ChainsLevel /\ ListLevel

LEMMA LevelTypes ==
  ASSUME TypeInv, NumberedOK, NEW n \in Ids
  PROVE  Level(n) \in Nat /\ Level(n) <= LastBus + 1
PROOF
  <1>1. heap \in Seq(NODE) /\ PlatformTypeOK
    BY DEF TypeInv, TypeOK, HeapTypeOK
  <1>2. PICK l : l = heap[n].Loc
    OBVIOUS
  <1>3. l.Bus \in 0 .. LastBus /\ l.Dev \in Nat /\ l.Fun \in Nat
    <2>1. heap[n] \in NODE
      BY <1>1 DEF Ids
    <2>2. QED
      BY <1>2, <2>1, GeometryAssumption DEF NODE, Locations
  <1>4. LastBus \in Nat
    BY GeometryAssumption
  <1>5. Len(BusOf(l)) \in Nat /\ Len(BusOf(l)) <= l.Bus + 1
    BY <1>1, <1>3, <1>4, RouteTypes
  <1>6. Len(BusOf(l)) <= LastBus + 1
    BY <1>3, <1>4, <1>5
  <1>7. QED
    BY <1>2, <1>5, <1>6, Zenon DEF Level

LEMMA SameLevel ==
  ASSUME UNCHANGED <<hw, table>>, NEW n, heap'[n].Loc = heap[n].Loc
  PROVE  Level(n)' = Level(n)
PROOF
  <1>1. PICK l : l = heap[n].Loc
    OBVIOUS
  <1>2. BusOf(l)' = BusOf(l)
    BY SameRoutes, Zenon
  <1>3. QED
    BY <1>1, <1>2, Zenon DEF Level, BusOf

LEMMA LevelLoop ==
  ASSUME LevelOK, ChainsStay,
         \A k \in 1 .. Len(scans) : scans'[k].Seg = scans[k].Seg /\ scans'[k].Bus = scans[k].Bus
  PROVE  LevelOK'
PROOF
  <1>1. /\ UNCHANGED <<hw, table, heap, root, segRoot, tail>>
        /\ Len(scans') = Len(scans)
        /\ \A k \in 1 .. Len(scans) : /\ scans'[k].Head = scans[k].Head
                                      /\ scans'[k].Tail = scans[k].Tail
    BY DEF ChainsStay
  <1>2. \A n : Level(n)' = Level(n)
    BY <1>1, SameLevel, Zenon
  <1>3. LinksLevel'
    <2>1. Ids' = Ids
      BY <1>1 DEF Ids
    <2>2. SUFFICES ASSUME NEW n \in Ids
                   PROVE  /\ heap'[n].FirstChild # NULL => Level(heap[n].FirstChild)' = Level(n)' + 1
                          /\ heap'[n].NextSibling # NULL => Level(heap[n].NextSibling)' = Level(n)'
      BY <2>1, Zenon DEF LinksLevel
    <2>3. PICK a, b : a = heap[n].FirstChild /\ b = heap[n].NextSibling
      OBVIOUS
    <2>4. /\ a # NULL => Level(a) = Level(n) + 1
          /\ b # NULL => Level(b) = Level(n)
      BY <2>3, Zenon DEF LevelOK, LinksLevel
    <2>5. /\ a # NULL => Level(a)' = Level(n)' + 1
          /\ b # NULL => Level(b)' = Level(n)'
      BY <1>2, <2>4, Zenon
    <2>6. a = heap'[n].FirstChild /\ b = heap'[n].NextSibling
      BY <1>1, <2>3, Zenon
    <2>7. QED
      BY <2>5, <2>6, Zenon DEF Level
  <1>4. ChainsLevel'
    <2>1. SUFFICES ASSUME NEW k \in 1 .. Len(scans)
                   PROVE  /\ scans'[k].Head # NULL => Level(scans[k].Head)' = Len(BusOf(scans[k])')
                          /\ scans'[k].Tail # NULL => Level(scans[k].Tail)' = Len(BusOf(scans[k])')
      BY <1>1, Zenon DEF ChainsLevel
    <2>2. PICK a, b : a = scans[k].Head /\ b = scans[k].Tail
      OBVIOUS
    <2>3. /\ a # NULL => Level(a) = Len(BusOf(scans[k]))
          /\ b # NULL => Level(b) = Len(BusOf(scans[k]))
      BY <2>2, Zenon DEF LevelOK, ChainsLevel
    <2>4. BusOf(scans[k])' = BusOf(scans[k])
      BY <1>1, Zenon DEF BusOf, BusRoute
    <2>5. /\ a # NULL => Level(a)' = Len(BusOf(scans[k])')
          /\ b # NULL => Level(b)' = Len(BusOf(scans[k])')
      BY <1>2, <2>3, <2>4, Zenon
    <2>6. a = scans'[k].Head /\ b = scans'[k].Tail
      BY <1>1, <2>2, Zenon
    <2>7. QED
      BY <2>5, <2>6, Zenon DEF Level
  <1>5. ListLevel'
    <2>1. SUFFICES ASSUME NEW p \in {root', segRoot', tail'}, p # NULL PROVE Level(p)' = 1
      BY Zenon DEF ListLevel
    <2>2. p \in {root, segRoot, tail}
      BY <1>1, <2>1
    <2>3. QED
      BY <1>2, <2>1, <2>2, Zenon DEF LevelOK, ListLevel
  <1>6. QED
    BY <1>3, <1>4, <1>5 DEF LevelOK

LEMMA LevelAdd ==
  ASSUME ShapeInv, LevelOK, NEW L, L = Len(heap), NEW D, D = Len(scans), NodeAdded(L, D),
         \A n \in Ids : heap'[n].Loc = heap[n].Loc,
         BusOf(heap'[L + 1].Loc) = BusOf(scans[D]),
         scans'[D].Seg = scans[D].Seg, scans'[D].Bus = scans[D].Bus
  PROVE  LevelOK'
PROOF
  <1>. USE DEF NULL
  <1>1. /\ UNCHANGED <<hw, table, root, segRoot, tail>>
        /\ L \in Nat /\ D \in Nat \ {0} /\ Len(heap') = L + 1
        /\ heap'[L + 1].FirstChild = 0 /\ heap'[L + 1].NextSibling = 0
        /\ \A n \in 1 .. L :
             /\ heap'[n].FirstChild = heap[n].FirstChild
             /\ heap'[n].NextSibling = IF n = scans[D].Tail THEN L + 1 ELSE heap[n].NextSibling
        /\ \A k \in 1 .. D - 1 : scans'[k] = scans[k]
        /\ scans'[D].Tail = L + 1
        /\ scans'[D].Head = IF scans[D].Tail = 0 THEN L + 1 ELSE scans[D].Head
        /\ \/ Len(scans') = D
           \/ /\ Len(scans') = D + 1
              /\ scans'[D + 1].Head = 0 /\ scans'[D + 1].Tail = 0
    BY DEF NodeAdded
  <1>2. /\ root \in 0 .. L /\ segRoot \in 0 .. L /\ tail \in 0 .. L
        /\ \A n \in 1 .. L : heap[n].FirstChild \in 0 .. L /\ heap[n].NextSibling \in 0 .. L
        /\ \A k \in 1 .. D : scans[k].Head \in 0 .. L /\ scans[k].Tail \in 0 .. L
    <2>1. TypeInv
      BY DEF ShapeInv
    <2>2. QED
      BY <2>1, PointerTypes
  <1>3. Ids = 1 .. L /\ Ids' = 1 .. L + 1 /\ D \in 1 .. D /\ Len(scans) = D
        /\ \A n : n \in Ids' <=> n \in Ids \/ n = L + 1
    BY <1>1 DEF Ids
  <1>4. \A n \in Ids : Level(n)' = Level(n)
    BY <1>1, SameLevel, Zenon
  <1>5. Level(L + 1)' = Len(BusOf(scans[D]))
    <2>1. PICK l : l = heap'[L + 1].Loc
      OBVIOUS
    <2>2. BusOf(l)' = BusOf(l)
      BY <1>1, SameRoutes, Zenon
    <2>3. QED
      BY <2>1, <2>2, Zenon DEF Level, BusOf
  <1>6. LinksLevel /\ ChainsLevel /\ ListLevel
    BY DEF LevelOK
  <1>7. \A p \in 0 .. L : p # 0 => p \in Ids
    BY <1>1, <1>3
  <1>8. LinksLevel'
    <2>1. ASSUME NEW n \in Ids
          PROVE  /\ heap'[n].FirstChild # 0 => Level(heap[n].FirstChild)' = Level(n)' + 1
                 /\ heap'[n].NextSibling # 0 => Level(heap[n].NextSibling)' = Level(n)'
      <3>1. ASSUME heap'[n].FirstChild # 0 PROVE Level(heap[n].FirstChild)' = Level(n)' + 1
        <4>1. PICK a : a = heap[n].FirstChild /\ a = heap'[n].FirstChild
          BY <1>1, <1>3
        <4>2. a \in Ids
          BY <1>2, <1>3, <1>7, <3>1, <4>1
        <4>3. Level(a)' = Level(n)' + 1
          BY <1>4, <1>6, <3>1, <4>1, <4>2, Zenon DEF LinksLevel
        <4>4. QED
          BY <4>1, <4>3, Zenon DEF Level
      <3>2. ASSUME heap'[n].NextSibling # 0 PROVE Level(heap[n].NextSibling)' = Level(n)'
        <4>1. CASE n = scans[D].Tail
          <5>1. heap'[n].NextSibling = L + 1
            BY <1>1, <1>3, <4>1
          <5>2. n # 0
            BY <1>1, <1>3
          <5>3. Level(n) = Len(BusOf(scans[D]))
            BY <1>3, <1>6, <4>1, <5>2, Zenon DEF ChainsLevel
          <5>4. QED
            BY <1>4, <1>5, <5>1, <5>3, Zenon DEF Level
        <4>2. CASE n # scans[D].Tail
          <5>1. PICK a : a = heap[n].NextSibling /\ a = heap'[n].NextSibling
            BY <1>1, <1>3, <4>2
          <5>2. a \in Ids
            BY <1>2, <1>3, <1>7, <3>2, <5>1
          <5>3. Level(a)' = Level(n)'
            BY <1>4, <1>6, <3>2, <5>1, <5>2, Zenon DEF LinksLevel
          <5>4. QED
            BY <5>1, <5>3, Zenon DEF Level
        <4>3. QED
          BY <4>1, <4>2
      <3>3. QED
        BY <3>1, <3>2
    <2>2. QED
      BY <1>1, <1>3, <2>1, Zenon DEF LinksLevel
  <1>9. BusOf(scans[D])' = BusOf(scans[D])
    BY <1>1, Zenon DEF BusOf, BusRoute
  <1>10. ASSUME NEW k \in 1 .. D
         PROVE  /\ scans'[k].Head # 0 => Level(scans[k].Head)' = Len(BusOf(scans[k])')
                /\ scans'[k].Tail # 0 => Level(scans[k].Tail)' = Len(BusOf(scans[k])')
    <2>1. CASE k = D
      <3>1. scans'[k].Tail # 0 => Level(scans[k].Tail)' = Len(BusOf(scans[k])')
        <4>1. PICK a : a = L + 1 /\ a = scans'[D].Tail
          BY <1>1
        <4>2. Level(a)' = Len(BusOf(scans[D])')
          BY <1>5, <1>9, <4>1, Zenon
        <4>3. QED
          BY <2>1, <4>1, <4>2, Zenon DEF Level
      <3>2. ASSUME scans'[k].Head # 0 PROVE Level(scans[k].Head)' = Len(BusOf(scans[k])')
        <4>1. CASE scans[D].Tail = 0
          <5>1. scans'[D].Head = L + 1
            BY <1>1, <4>1
          <5>2. QED
            BY <1>5, <1>9, <2>1, <5>1, Zenon DEF Level
        <4>2. CASE scans[D].Tail # 0
          <5>1. PICK a : a = scans[D].Head /\ a = scans'[D].Head
            BY <1>1, <4>2
          <5>2. a \in Ids
            BY <1>2, <1>3, <1>7, <2>1, <3>2, <5>1
          <5>3. Level(a)' = Len(BusOf(scans[D]))
            BY <1>3, <1>4, <1>6, <2>1, <3>2, <5>1, <5>2, Zenon DEF ChainsLevel
          <5>4. QED
            BY <1>9, <2>1, <5>1, <5>3, Zenon DEF Level
        <4>3. QED
          BY <4>1, <4>2
      <3>3. QED
        BY <3>1, <3>2
    <2>2. CASE k # D
      <3>1. k \in 1 .. D - 1
        BY <1>1, <2>2
      <3>2. PICK x : x = scans[k] /\ x = scans'[k]
        BY <1>1, <3>1
      <3>3. BusOf(x)' = BusOf(x)
        BY <1>1, SameRoutes, Zenon
      <3>4. /\ x.Head # 0 => x.Head \in Ids /\ Level(x.Head) = Len(BusOf(x))
            /\ x.Tail # 0 => x.Tail \in Ids /\ Level(x.Tail) = Len(BusOf(x))
        BY <1>2, <1>3, <1>6, <1>7, <3>2, Zenon DEF ChainsLevel
      <3>5. /\ x.Head # 0 => Level(x.Head)' = Len(BusOf(x)')
            /\ x.Tail # 0 => Level(x.Tail)' = Len(BusOf(x)')
        BY <1>4, <3>3, <3>4, Zenon
      <3>6. QED
        BY <3>2, <3>5, Zenon DEF Level, BusOf
    <2>3. QED
      BY <2>1, <2>2
  <1>11. ChainsLevel'
    <2>1. \A k \in 1 .. Len(scans') : k \in 1 .. D \/ (scans'[k].Head = 0 /\ scans'[k].Tail = 0)
      BY <1>1
    <2>2. QED
      BY <1>10, <2>1, Zenon DEF ChainsLevel
  <1>12. ListLevel'
    <2>1. SUFFICES ASSUME NEW p \in {root', segRoot', tail'}, p # 0 PROVE Level(p)' = 1
      BY Zenon DEF ListLevel
    <2>2. p \in {root, segRoot, tail} /\ p \in Ids
      BY <1>1, <1>2, <1>7, <2>1
    <2>3. QED
      BY <1>4, <1>6, <2>1, <2>2, Zenon DEF ListLevel
  <1>13. QED
    BY <1>8, <1>11, <1>12 DEF LevelOK

LEMMA LevelReturn ==
  ASSUME ShapeInv, NumberedOK, RoutesOK, LevelOK, ReturnToBridge
  PROVE  LevelOK'
PROOF
  <1>. USE DEF NULL
  <1>0. PICK f, D, L : f = Top(scans) /\ D = Len(scans) /\ L = Len(heap)
    OBVIOUS
  <1>1. TypeInv /\ PlatformTypeOK /\ LastBus \in Nat /\ SeenRouted /\ heap \in Seq(NODE)
    BY GeometryAssumption DEF ShapeInv, TypeInv, TypeOK, RoutesOK, HeapTypeOK
  <1>2. /\ UNCHANGED <<hw, table, root, segRoot, tail>> /\ pc = "scan"
        /\ D \in Nat /\ D > 1 /\ f = scans[D] /\ Len(scans') = D - 1
        /\ \A k \in 1 .. D - 1 : scans'[k] = scans[k]
        /\ Len(heap') = L
        /\ \A n \in Ids : /\ heap'[n].FirstChild = IF n = f.Out THEN f.Head ELSE heap[n].FirstChild
                          /\ heap'[n].NextSibling = heap[n].NextSibling
    BY <1>0, <1>1, ReturnToBridgeEffect, Zenon
  <1>3. /\ L \in Nat /\ root \in 0 .. L /\ segRoot \in 0 .. L /\ tail \in 0 .. L
        /\ \A n \in 1 .. L : heap[n].FirstChild \in 0 .. L /\ heap[n].NextSibling \in 0 .. L
        /\ \A k \in 1 .. D : scans[k].Head \in 0 .. L /\ scans[k].Tail \in 0 .. L
    BY <1>0, <1>1, PointerTypes
  <1>4. Ids = 1 .. L /\ Ids' = Ids /\ D \in 1 .. D /\ \A p \in 0 .. L : p # 0 => p \in Ids
    BY <1>0, <1>2, <1>3 DEF Ids
  <1>5. \A n \in Ids : heap'[n].Loc = heap[n].Loc
    BY <1>1, OnwardFunctions, Zenon DEF SameFunction, Onward
  <1>6. \A n \in Ids : Level(n)' = Level(n)
    BY <1>2, <1>5, SameLevel, Zenon
  <1>7. LinksLevel /\ ChainsLevel /\ ListLevel
    BY DEF LevelOK
  <1>8. f.Out \in Ids /\ Level(f.Out) \in Nat /\ Len(BusOf(f)) = Level(f.Out) + 1
    <2>1. f.Out \in Ids
      BY <1>0, <1>2, <1>4, Zenon DEF ShapeInv, FramesOK
    <2>2. Level(f.Out) \in Nat
      BY <1>1, <2>1, LevelTypes
    <2>3. BusOf(f) = Route(heap[f.Out].Loc)
      <3>1. D # 1
        BY <1>2
      <3>2. QED
        BY <1>0, <1>2, <1>4, <3>1, Zenon DEF RoutesOK, ScansRouted, FrameRouted, CalledFor
    <2>4. PICK l : l = heap[f.Out].Loc
      OBVIOUS
    <2>5. l.Bus \in 0 .. LastBus /\ l.Dev \in Nat /\ l.Fun \in Nat
      <3>1. heap[f.Out] \in NODE
        BY <1>1, <2>1 DEF Ids
      <3>2. QED
        BY <2>4, <3>1, GeometryAssumption DEF NODE, Locations
    <2>6. Len(Route(l)) = Len(BusOf(l)) + 1
      BY <1>1, <2>5, RouteTypes
    <2>7. QED
      BY <2>1, <2>2, <2>3, <2>4, <2>6, Zenon DEF Level
  <1>9. LinksLevel'
    <2>1. SUFFICES ASSUME NEW n \in Ids
                   PROVE  /\ heap'[n].FirstChild # 0 => Level(heap[n].FirstChild)' = Level(n)' + 1
                          /\ heap'[n].NextSibling # 0 => Level(heap[n].NextSibling)' = Level(n)'
      BY <1>4, Zenon DEF LinksLevel
    <2>2. ASSUME heap'[n].NextSibling # 0 PROVE Level(heap[n].NextSibling)' = Level(n)'
      <3>1. PICK a : a = heap[n].NextSibling /\ a = heap'[n].NextSibling
        BY <1>2
      <3>2. a \in Ids
        BY <1>3, <1>4, <2>2, <3>1
      <3>3. Level(a)' = Level(n)'
        BY <1>6, <1>7, <2>2, <3>1, <3>2, Zenon DEF LinksLevel
      <3>4. QED
        BY <3>1, <3>3, Zenon DEF Level
    <2>3. ASSUME heap'[n].FirstChild # 0 PROVE Level(heap[n].FirstChild)' = Level(n)' + 1
      <3>1. CASE n = f.Out
        <4>1. PICK a : a = f.Head /\ a = heap'[n].FirstChild
          BY <1>2, <3>1
        <4>2. a \in Ids
          BY <1>2, <1>3, <1>4, <2>3, <4>1
        <4>3. Level(a) = Len(BusOf(f))
          <5>1. scans[D].Head # 0 => Level(scans[D].Head) = Len(BusOf(scans[D]))
            BY <1>0, <1>4, <1>7, Zenon DEF ChainsLevel
          <5>2. a # 0 /\ a = scans[D].Head
            BY <1>2, <2>3, <4>1, Zenon
          <5>3. QED
            BY <1>2, <5>1, <5>2, Zenon
        <4>4. Level(a)' = Level(n)' + 1
          BY <1>6, <1>8, <3>1, <4>2, <4>3, Zenon
        <4>5. QED
          BY <4>1, <4>4, Zenon DEF Level
      <3>2. CASE n # f.Out
        <4>1. PICK a : a = heap[n].FirstChild /\ a = heap'[n].FirstChild
          BY <1>2, <3>2
        <4>2. a \in Ids
          BY <1>3, <1>4, <2>3, <4>1
        <4>3. Level(a)' = Level(n)' + 1
          BY <1>6, <1>7, <2>3, <4>1, <4>2, Zenon DEF LinksLevel
        <4>4. QED
          BY <4>1, <4>3, Zenon DEF Level
      <3>3. QED
        BY <3>1, <3>2
    <2>4. QED
      BY <2>2, <2>3
  <1>10. ChainsLevel'
    <2>1. \A k \in 1 .. Len(scans') : k \in 1 .. D /\ k \in 1 .. D - 1
      BY <1>2
    <2>2. SUFFICES ASSUME NEW k \in 1 .. Len(scans')
                   PROVE  /\ scans'[k].Head # 0 => Level(scans[k].Head)' = Len(BusOf(scans[k])')
                          /\ scans'[k].Tail # 0 => Level(scans[k].Tail)' = Len(BusOf(scans[k])')
      BY Zenon DEF ChainsLevel
    <2>3. PICK x : x = scans[k] /\ x = scans'[k]
      BY <1>2, <2>1
    <2>4. BusOf(x)' = BusOf(x)
      BY <1>2, SameRoutes, Zenon
    <2>5. /\ x.Head # 0 => x.Head \in Ids /\ Level(x.Head) = Len(BusOf(x))
          /\ x.Tail # 0 => x.Tail \in Ids /\ Level(x.Tail) = Len(BusOf(x))
      BY <1>0, <1>3, <1>4, <1>7, <2>1, <2>3, Zenon DEF ChainsLevel
    <2>6. /\ x.Head # 0 => Level(x.Head)' = Len(BusOf(x)')
          /\ x.Tail # 0 => Level(x.Tail)' = Len(BusOf(x)')
      BY <1>6, <2>4, <2>5, Zenon
    <2>7. QED
      BY <2>3, <2>6, Zenon DEF Level, BusOf
  <1>11. ListLevel'
    <2>1. SUFFICES ASSUME NEW p \in {root', segRoot', tail'}, p # 0 PROVE Level(p)' = 1
      BY Zenon DEF ListLevel
    <2>2. p \in {root, segRoot, tail} /\ p \in Ids
      BY <1>2, <1>3, <1>4, <2>1
    <2>3. QED
      BY <1>6, <1>7, <2>1, <2>2, Zenon DEF ListLevel
  <1>12. QED
    BY <1>9, <1>10, <1>11 DEF LevelOK

(* Outside the function loop the stack is empty, before or after, and the
   links change where two segments are joined, if at all. *)
LEMMA LevelLinks ==
  ASSUME ShapeInv, LevelOK, UNCHANGED <<hw, table>>, Ids' = Ids,
         \A n \in Ids : heap'[n].Loc = heap[n].Loc,
         \A n \in Ids : /\ heap'[n].FirstChild = heap[n].FirstChild
                        /\ \/ heap'[n].NextSibling = heap[n].NextSibling
                           \/ n \in {tail} /\ heap'[n].NextSibling \in {segRoot},
         \A k \in 1 .. Len(scans') : scans'[k].Head = NULL /\ scans'[k].Tail = NULL,
         \A p \in {root', segRoot', tail'} :
           \/ p \in {NULL, root, segRoot, tail}
           \/ tail # NULL /\ p \in {heap[tail].NextSibling}
           \/ Len(scans) = 1 /\ p \in {scans[1].Head} /\ Len(BusOf(scans[1])) = 1
  PROVE  LevelOK'
PROOF
  <1>. USE DEF NULL
  <1>0. PICK L : L = Len(heap)
    OBVIOUS
  <1>1. /\ L \in Nat /\ root \in 0 .. L /\ segRoot \in 0 .. L /\ tail \in 0 .. L
        /\ \A n \in 1 .. L : heap[n].FirstChild \in 0 .. L /\ heap[n].NextSibling \in 0 .. L
        /\ \A k \in 1 .. Len(scans) : scans[k].Head \in 0 .. L
    <2>1. TypeInv
      BY DEF ShapeInv
    <2>2. QED
      BY <1>0, <2>1, PointerTypes
  <1>2. Ids = 1 .. L /\ \A p \in 0 .. L : p # 0 => p \in Ids
    BY <1>0, <1>1 DEF Ids
  <1>3. \A n \in Ids : Level(n)' = Level(n)
    BY SameLevel, Zenon
  <1>4. LinksLevel /\ ChainsLevel /\ ListLevel
    BY DEF LevelOK
  <1>5. LinksLevel'
    <2>1. SUFFICES ASSUME NEW n \in Ids
                   PROVE  /\ heap'[n].FirstChild # 0 => Level(heap[n].FirstChild)' = Level(n)' + 1
                          /\ heap'[n].NextSibling # 0 => Level(heap[n].NextSibling)' = Level(n)'
      BY Zenon DEF LinksLevel
    <2>2. PICK a, b : a = heap'[n].FirstChild /\ b = heap'[n].NextSibling
      OBVIOUS
    <2>3. a # 0 => a \in Ids /\ Level(a) = Level(n) + 1
      <3>1. a = heap[n].FirstChild /\ a \in 0 .. L
        BY <1>1, <1>2, <2>2
      <3>2. QED
        BY <1>2, <1>4, <3>1, Zenon DEF LinksLevel
    <2>4. b # 0 => b \in Ids /\ Level(b) = Level(n)
      <3>1. CASE b = heap[n].NextSibling
        <4>1. b \in 0 .. L
          BY <1>1, <1>2, <3>1
        <4>2. QED
          BY <1>2, <1>4, <3>1, <4>1, Zenon DEF LinksLevel
      <3>2. CASE n = tail /\ b = segRoot
        <4>1. n # 0
          BY <1>1, <1>2
        <4>2. Level(n) = 1
          BY <1>4, <3>2, <4>1 DEF ListLevel
        <4>3. b # 0 => b \in Ids /\ Level(b) = 1
          BY <1>1, <1>2, <1>4, <3>2 DEF ListLevel
        <4>4. QED
          BY <4>2, <4>3
      <3>3. QED
        BY <2>2, <3>1, <3>2
    <2>5. /\ a # 0 => Level(a)' = Level(n)' + 1
          /\ b # 0 => Level(b)' = Level(n)'
      BY <1>3, <2>3, <2>4, Zenon
    <2>6. QED
      BY <2>2, <2>5, Zenon DEF Level
  <1>6. ChainsLevel'
    BY Zenon DEF ChainsLevel
  <1>7. ListLevel'
    <2>1. SUFFICES ASSUME NEW p \in {root', segRoot', tail'}, p # 0 PROVE Level(p)' = 1
      BY Zenon DEF ListLevel
    <2>2. p \in Ids /\ Level(p) = 1
      <3>1. CASE p \in {NULL, root, segRoot, tail}
        BY <1>1, <1>2, <1>4, <2>1, <3>1 DEF ListLevel
      <3>2. CASE tail # NULL /\ p = heap[tail].NextSibling
        <4>1. tail \in Ids /\ Level(tail) = 1
          BY <1>1, <1>2, <1>4, <3>2 DEF ListLevel
        <4>2. Level(p) = Level(tail)
          BY <1>4, <2>1, <3>2, <4>1, Zenon DEF LinksLevel
        <4>3. p \in Ids
          BY <1>1, <1>2, <2>1, <3>2, <4>1
        <4>4. QED
          BY <4>1, <4>2, <4>3
      <3>3. CASE Len(scans) = 1 /\ p = scans[1].Head /\ Len(BusOf(scans[1])) = 1
        <4>1. 1 \in 1 .. Len(scans)
          BY <3>3
        <4>2. Level(p) = 1
          BY <1>4, <2>1, <3>3, <4>1, Zenon DEF ChainsLevel
        <4>3. p \in Ids
          BY <1>1, <1>2, <2>1, <3>3, <4>1
        <4>4. QED
          BY <4>2, <4>3
      <3>4. QED
        BY <2>1, <3>1, <3>2, <3>3
    <2>3. QED
      BY <1>3, <2>2, Zenon
  <1>8. QED
    BY <1>5, <1>6, <1>7 DEF LevelOK

LevelInv == RoutesInv /\ LevelOK

LEMMA InitLevel == Init => LevelOK
PROOF
  <1>. SUFFICES ASSUME Init PROVE LevelOK
    OBVIOUS
  <1>1. Ids = {} /\ 1 .. Len(scans) = {} /\ root = NULL /\ segRoot = NULL /\ tail = NULL
    BY DEF Init, Ids
  <1>2. QED
    BY <1>1 DEF LevelOK, LinksLevel, ChainsLevel, ListLevel

LEMMA LevelTurn ==
  ASSUME ShapeInv, LevelOK, SkipAbsent \/ NoMemory \/ AddNode
  PROVE  LevelOK'
PROOF
  <1>0. PICK f, D, L : f = Top(scans) /\ D = Len(scans) /\ L = Len(heap)
    OBVIOUS
  <1>1. TypeInv /\ D \in Nat /\ L \in Nat
    <2>1. TypeInv
      BY DEF ShapeInv
    <2>2. QED
      BY <1>0, <2>1, PointerTypes
  <1>2. FunctionTurned(f) /\ FrameTurned(f, D)
    BY <1>0, <1>1, TurnEffect
  <1>3. f = scans[D]
    BY <1>0 DEF Top
  <1>4. /\ scans'[D].Seg = scans[D].Seg /\ scans'[D].Bus = scans[D].Bus
        /\ \A k \in 1 .. D - 1 : scans'[k] = scans[k]
    BY <1>2, <1>3, Zenon DEF FrameTurned
  <1>5. CASE SkipAbsent \/ NoMemory
    <2>1. ChainsStay
      BY <1>1, <1>5, LoopSteps
    <2>2. \A k \in 1 .. Len(scans) : scans'[k].Seg = scans[k].Seg /\ scans'[k].Bus = scans[k].Bus
      <3>1. \A k \in 1 .. D : k = D \/ k \in 1 .. D - 1
        BY <1>1
      <3>2. QED
        BY <1>0, <1>4, <3>1, Zenon
    <2>3. QED
      BY <2>1, <2>2, LevelLoop
  <1>6. CASE AddNode
    <2>1. NodeAdded(L, D)
      BY <1>0, <1>1, <1>6, AddNodeShape
    <2>2. Len(heap') = L + 1 /\ heap' # heap
      <3>1. Len(heap') = L + 1
        BY <2>1 DEF NodeAdded
      <3>2. QED
        BY <1>0, <1>1, <3>1
    <2>3. heap'[L + 1].Loc = Here(f) /\ \A n \in Ids : heap'[n].Loc = heap[n].Loc
      BY <1>0, <1>2, <2>2, Zenon DEF FunctionTurned
    <2>4. BusOf(heap'[L + 1].Loc) = BusOf(scans[D])
      BY <1>3, <2>3, HereRoute, Zenon
    <2>5. QED
      BY <1>0, <1>4, <2>1, <2>3, <2>4, LevelAdd, Zenon
  <1>7. QED
    BY <1>5, <1>6

LEMMA LevelNextDevice ==
  ASSUME ShapeInv, LevelOK, NextDevice
  PROVE  LevelOK'
PROOF
  <1>1. PICK f, D, g : f = Top(scans) /\ D = Len(scans)
                       /\ g = [f EXCEPT !.Dev = @ + 1, !.Fun = 0, !.MaxFun = 1]
    OBVIOUS
  <1>2. pc = "scan" /\ scans' = SetTop(scans, g)
    BY <1>1 DEF NextDevice
  <1>3. scans \in Seq(ScanFrames) /\ scans # <<>>
    BY <1>2 DEF ShapeInv, TypeInv, TypeOK, StackTypeOK
  <1>4. D \in Nat \ {0} /\ f \in ScanFrames /\ f = scans[D]
    BY <1>1, <1>3, TopLemma DEF Top
  <1>5. g.Seg = f.Seg /\ g.Bus = f.Bus
    BY <1>1, <1>4 DEF ScanFrames
  <1>6. /\ Len(SetTop(scans, g)) = Len(scans) /\ SetTop(scans, g)[Len(scans)] = g
        /\ \A k \in 1 .. Len(scans) - 1 : SetTop(scans, g)[k] = scans[k]
        /\ SetTop(scans, g) \in Seq(ScanFrames \cup {g})
    BY <1>3, ReplaceTop
  <1>7. \A k \in 1 .. D : k = D \/ k \in 1 .. D - 1
    BY <1>4
  <1>8. \A k \in 1 .. Len(scans) : scans'[k].Seg = scans[k].Seg /\ scans'[k].Bus = scans[k].Bus
    BY <1>1, <1>2, <1>4, <1>5, <1>6, <1>7, Zenon
  <1>9. ChainsStay
    BY LoopSteps DEF ShapeInv
  <1>10. QED
    BY <1>8, <1>9, LevelLoop

(* The steps that end the scan of a segment or leave the tree alone. *)
LEMMA LevelOutside ==
  ASSUME ShapeInv, RoutesOK, LevelOK,
         \/ BeginSegment \/ ReturnToSegment \/ SkipEmptySegment \/ LinkSegment
         \/ LastSiblingStep \/ LastSiblingReturn \/ EndSegments \/ Walk \/ Free
  PROVE  LevelOK'
PROOF
  <1>1. TypeInv /\ heap \in Seq(NODE)
    BY DEF ShapeInv, TypeInv, TypeOK, HeapTypeOK
  <1>2. Onward
    BY DEF Onward
  <1>3. /\ UNCHANGED <<hw, table>> /\ Ids' = Ids
        /\ \A n \in Ids : heap'[n].Loc = heap[n].Loc
    BY <1>1, <1>2, OnwardMet, OnwardFunctions, Zenon DEF SameFunction
  <1>4. \A n \in Ids : /\ heap'[n].FirstChild = heap[n].FirstChild
                       /\ \/ heap'[n].NextSibling = heap[n].NextSibling
                          \/ n \in {tail} /\ heap'[n].NextSibling \in {segRoot}
    <2>1. CASE LinkSegment
      <3>1. \A n \in Ids :
              /\ heap'[n].FirstChild = heap[n].FirstChild
              /\ heap'[n].NextSibling = IF n = tail THEN segRoot ELSE heap[n].NextSibling
        BY <1>1, <2>1, LinkSegmentHeap
      <3>2. QED
        BY <3>1
    <2>2. CASE ~LinkSegment
      <3>1. heap' = heap
        BY <2>2 DEF BeginSegment, ReturnToSegment, SkipEmptySegment, LastSiblingStep,
           LastSiblingReturn, EndSegments, Walk, BeginWalk, SkipWalk, Visit, ReturnFromWalk,
           Free, FreeEnter, Release, ReturnFromFree
      <3>2. QED
        BY <3>1
    <2>3. QED
      BY <2>1, <2>2
  <1>5. \A k \in 1 .. Len(scans') : scans'[k].Head = NULL /\ scans'[k].Tail = NULL
    <2>1. CASE BeginSegment
      <3>1. scans' = <<ScanFrame(Starts[index].Seg, Starts[index].StartBus, NULL)>>
        BY <2>1 DEF BeginSegment
      <3>2. QED
        BY <3>1 DEF ScanFrame
    <2>2. CASE ReturnToSegment
      <3>1. scans' = <<>>
        BY <2>2 DEF ReturnToSegment
      <3>2. QED
        BY <3>1
    <2>3. CASE ~(BeginSegment \/ ReturnToSegment)
      <3>1. pc # "scan" /\ scans' = scans
        BY <2>3 DEF SkipEmptySegment, LinkSegment, LastSiblingStep, LastSiblingReturn, EndSegments,
           Walk, BeginWalk, SkipWalk, Visit, ReturnFromWalk, Free, FreeEnter, Release, ReturnFromFree
      <3>2. scans' = <<>>
        BY <1>1, <3>1 DEF TypeInv, TypeOK, StackTypeOK
      <3>3. QED
        BY <3>2
    <2>4. QED
      BY <2>1, <2>2, <2>3
  <1>6. \A p \in {root', segRoot', tail'} :
          \/ p \in {NULL, root, segRoot, tail}
          \/ tail # NULL /\ p \in {heap[tail].NextSibling}
          \/ Len(scans) = 1 /\ p \in {scans[1].Head} /\ Len(BusOf(scans[1])) = 1
    <2>1. CASE ReturnToSegment
      <3>1. /\ Len(scans) = 1 /\ tail' = tail
            /\ root' \in {root, scans[1].Head} /\ segRoot' \in {segRoot, scans[1].Head}
        BY <2>1 DEF ReturnToSegment, Top
      <3>2. Len(BusOf(scans[1])) = 1
        <4>1. 1 \in 1 .. Len(scans)
          BY <3>1
        <4>2. BusOf(scans[1]) = <<index>>
          BY <4>1, Zenon DEF RoutesOK, ScansRouted, FrameRouted, CalledFor
        <4>3. QED
          BY <4>2
      <3>3. QED
        BY <3>1, <3>2
    <2>2. CASE LastSiblingStep
      <3>1. tail' = heap[tail].NextSibling /\ UNCHANGED <<root, segRoot>> /\ pc = "last"
        BY <2>2 DEF LastSiblingStep
      <3>2. tail # NULL
        BY <1>1, <3>1 DEF TypeInv, ControlOK
      <3>3. QED
        BY <3>1, <3>2
    <2>3. CASE ~(ReturnToSegment \/ LastSiblingStep)
      <3>1. root' \in {NULL, root, segRoot} /\ segRoot' = segRoot /\ tail' \in {tail, segRoot}
        BY <2>3 DEF BeginSegment, SkipEmptySegment, LinkSegment, LastSiblingReturn, EndSegments,
           Walk, BeginWalk, SkipWalk, Visit, ReturnFromWalk, Free, FreeEnter, Release, ReturnFromFree,
           locals
      <3>2. QED
        BY <3>1
    <2>4. QED
      BY <2>1, <2>2, <2>3
  <1>7. QED
    BY <1>3, <1>4, <1>5, <1>6, LevelLinks, Zenon

LEMMA LevelStutter ==
  ASSUME ShapeInv, LevelOK, UNCHANGED vars
  PROVE  LevelOK'
PROOF
  <1>1. UNCHANGED <<hw, table, heap, root, pc, segRoot, tail, scans>>
    BY DEF vars
  <1>2. CASE pc = "scan"
    <2>1. ChainsStay
      BY <1>1, <1>2 DEF ChainsStay
    <2>2. QED
      BY <1>1, <2>1, LevelLoop
  <1>3. CASE pc # "scan"
    <2>1. scans' = <<>>
      BY <1>1, <1>3 DEF ShapeInv, TypeInv, TypeOK, StackTypeOK
    <2>2. /\ Ids' = Ids /\ \A n \in Ids : heap'[n] = heap[n]
          /\ 1 .. Len(scans') = {}
      BY <1>1, <2>1 DEF Ids
    <2>3. QED
      BY <1>1, <2>2, LevelLinks
  <1>4. QED
    BY <1>2, <1>3

LEMMA NextLevel == LevelInv /\ [Next]_vars => LevelInv'
PROOF
  <1>. SUFFICES ASSUME LevelInv, [Next]_vars PROVE LevelInv'
    OBVIOUS
  <1>1. RoutesInv'
    BY NextRoutes, Zenon DEF LevelInv
  <1>2. ShapeInv /\ RoutesOK /\ NumberedOK /\ LevelOK
    BY RoutesNumbered, Zenon DEF LevelInv, RoutesInv
  <1>3. LevelOK'
    <2>1. CASE SkipAbsent \/ NoMemory \/ AddNode
      BY <1>2, <2>1, LevelTurn, Zenon
    <2>2. CASE NextDevice
      BY <1>2, <2>2, LevelNextDevice, Zenon
    <2>3. CASE ReturnToBridge
      BY <1>2, <2>3, LevelReturn, Zenon
    <2>4. CASE \/ BeginSegment \/ ReturnToSegment \/ SkipEmptySegment \/ LinkSegment
               \/ LastSiblingStep \/ LastSiblingReturn \/ EndSegments \/ Walk \/ Free
      BY <1>2, <2>4, LevelOutside, Zenon
    <2>5. CASE UNCHANGED vars
      BY <1>2, <2>5, LevelStutter, Zenon
    <2>6. QED
      BY <2>1, <2>2, <2>3, <2>4, <2>5, Zenon DEF Next, Scan
  <1>4. QED
    BY <1>1, <1>3, Zenon DEF LevelInv

-----------------------------------------------------------------------------
(* The nodes say what CreateNode read of functions that answered. *)
Described ==
  \A n \in Ids : /\ Answers(heap[n].Loc)
                 /\ heap[n].IsPcie = hw[heap[n].Loc].pcie
                 /\ heap[n].IsBridge = hw[heap[n].Loc].bridge

LEMMA NextDescribed ==
  ASSUME TypeInv, Described, [Next]_vars
  PROVE  Described'
PROOF
  <1>0. hw' = hw /\ table' = table
    BY DEF Next, Scan, BeginSegment, SkipAbsent, NoMemory, AddNode, NextDevice, ReturnToBridge,
       ReturnToSegment, SkipEmptySegment, LinkSegment, LastSiblingStep, LastSiblingReturn,
       EndSegments, Walk, BeginWalk, SkipWalk, Visit, ReturnFromWalk, Free, FreeEnter, Release,
       ReturnFromFree, platform, vars
  <1>1. hw' = hw /\ \A l : Answers(l)' <=> Answers(l)
    BY <1>0, Zenon DEF Answers
  <1>2. CASE Ids' = Ids /\ \A n \in Ids : SameFunction(heap'[n], heap[n])
    <2>1. SUFFICES ASSUME NEW n \in Ids
                   PROVE  /\ Answers(heap[n].Loc)'
                          /\ heap'[n].IsPcie = hw[heap[n].Loc].pcie
                          /\ heap'[n].IsBridge = hw[heap[n].Loc].bridge
                          /\ heap'[n].Loc = heap[n].Loc
      BY <1>1, <1>2, Zenon DEF Described
    <2>2. PICK l : l = heap[n].Loc /\ heap'[n].Loc = l
      BY <1>2 DEF SameFunction
    <2>3. Answers(l)'
      BY <1>1, <2>2, Zenon DEF Described
    <2>4. QED
      BY <1>2, <2>2, <2>3, Zenon DEF Described, SameFunction, Answers
  <1>3. CASE SkipAbsent \/ NoMemory \/ UNCHANGED vars
    <2>1. heap' = heap
      BY <1>3 DEF SkipAbsent, NoMemory, vars
    <2>2. QED
      BY <1>2, <2>1 DEF Ids, SameFunction
  <1>4. CASE Onward
    <2>1. heap \in Seq(NODE)
      BY DEF TypeInv, TypeOK, HeapTypeOK
    <2>2. QED
      BY <1>2, <1>4, <2>1, OnwardFunctions
  <1>5. CASE AddNode
    <2>1. PICK f, l : f = Top(scans) /\ l = Here(f)
      OBVIOUS
    <2>2. pc = "scan" /\ Answers(Here(f)) /\ heap' = WithNode(f) /\ TypeOK
      BY <1>5, <2>1 DEF AddNode, InFunctionLoop, TypeInv
    <2>3. /\ heap'[Len(heap) + 1] = CreateNode(l)
          /\ \A n \in Ids : SameFunction(heap'[n], heap[n])
      BY <2>1, <2>2, WithNodeFunctions, Zenon
    <2>4. Len(heap') = Len(heap) + 1 /\ Len(heap) \in Nat
      BY <2>1, <2>2, WithNodeLemma DEF TypeOK, HeapTypeOK
    <2>5. \A n \in Ids' : n \in Ids \/ n = Len(heap) + 1
      BY <2>4 DEF Ids
    <2>6. /\ CreateNode(l).IsPcie = hw[CreateNode(l).Loc].pcie
          /\ CreateNode(l).IsBridge = hw[CreateNode(l).Loc].bridge
          /\ CreateNode(l).Loc = l
      BY DEF CreateNode
    <2>7. ASSUME NEW n \in Ids'
          PROVE  \E x : /\ heap'[n].Loc = x /\ Answers(x)
                        /\ heap'[n].IsPcie = hw[x].pcie /\ heap'[n].IsBridge = hw[x].bridge
      <3>1. CASE n \in Ids
        BY <2>3, <3>1, Zenon DEF Described, SameFunction
      <3>2. CASE n = Len(heap) + 1
        BY <2>1, <2>2, <2>3, <2>6, <3>2, Zenon
      <3>3. QED
        BY <2>5, <2>7, <3>1, <3>2
    <2>8. ASSUME NEW n \in Ids'
          PROVE  /\ Answers(heap[n].Loc)'
                 /\ heap'[n].IsPcie = hw'[heap'[n].Loc].pcie
                 /\ heap'[n].IsBridge = hw'[heap'[n].Loc].bridge
      <3>1. PICK x : /\ heap'[n].Loc = x /\ Answers(x)
                     /\ heap'[n].IsPcie = hw[x].pcie /\ heap'[n].IsBridge = hw[x].bridge
        BY <2>7, <2>8
      <3>2. Answers(x)'
        BY <1>1, <3>1, Zenon
      <3>3. QED
        BY <1>1, <3>1, <3>2, Zenon DEF Answers
    <2>9. QED
      BY <2>8, Zenon DEF Described
  <1>6. QED
    BY <1>3, <1>4, <1>5, Zenon DEF Next, Scan, Onward

(* The walk counts the depth as the paths do. *)
WalksLevel ==
  \A k \in 1 .. Len(walks) :
    walks[k].Node # NULL => Level(walks[k].Node) = walks[k].Depth + 1

LEMMA LevelVisit ==
  ASSUME ShapeInv, NumberedOK, LevelOK, WalksLevel, DepthModulus > LastBus, Visit
  PROVE  WalksLevel'
PROOF
  <1>. USE DEF NULL
  <1>0. PICK D, r, n, d : D = Len(walks) /\ r = Len(report) /\ n = walks[D].Node /\ d = walks[D].Depth
    OBVIOUS
  <1>1. TypeInv /\ LinksLevel
    BY DEF ShapeInv, LevelOK
  <1>2. NodeVisited(D, r, n)
    BY <1>0, <1>1, VisitEffect, Zenon
  <1>3. /\ UNCHANGED <<hw, table, heap>> /\ D \in Nat \ {0} /\ n \in Ids
        /\ d \in 0 .. DepthModulus - 1
        /\ \A k \in 1 .. D - 1 : walks'[k] = walks[k]
        /\ walks'[D] = [Node |-> heap[n].NextSibling, Depth |-> d]
        /\ \/ heap[n].FirstChild = 0 /\ Len(walks') = D
           \/ /\ heap[n].FirstChild # 0 /\ Len(walks') = D + 1
              /\ walks'[D + 1] = [Node |-> heap[n].FirstChild, Depth |-> (d + 1) % DepthModulus]
    BY <1>0, <1>2, Zenon DEF NodeVisited
  <1>4. /\ Len(heap) \in Nat /\ Ids = 1 .. Len(heap)
        /\ heap[n].FirstChild \in 0 .. Len(heap) /\ heap[n].NextSibling \in 0 .. Len(heap)
    BY <1>1, <1>3, PointerTypes DEF Ids
  <1>5. \A m : Level(m)' = Level(m)
    BY <1>3, SameLevel
  <1>6. Level(n) = d + 1 /\ Level(n) \in Nat
    <2>1. D \in 1 .. D /\ n # 0
      BY <1>3, <1>4
    <2>2. Level(n) = d + 1
      BY <1>0, <2>1, Zenon DEF WalksLevel
    <2>3. QED
      BY <1>1, <1>3, <2>2, LevelTypes
  <1>7. heap[n].NextSibling # 0 => Level(heap[n].NextSibling) = d + 1
    BY <1>1, <1>3, <1>6, Zenon DEF LinksLevel
  <1>8. ASSUME heap[n].FirstChild # 0
        PROVE  Level(heap[n].FirstChild) = ((d + 1) % DepthModulus) + 1
    <2>1. PICK c : c = heap[n].FirstChild
      OBVIOUS
    <2>2. c \in Ids
      BY <1>4, <1>8, <2>1
    <2>3. Level(c) = d + 1 + 1
      BY <1>1, <1>3, <1>6, <1>8, <2>1, Zenon DEF LinksLevel
    <2>4. Level(c) <= LastBus + 1
      BY <1>1, <2>2, LevelTypes
    <2>5. d + 1 \in 0 .. DepthModulus - 1 /\ DepthModulus \in Nat \ {0}
      BY <1>3, <2>3, <2>4, GeometryAssumption
    <2>6. (d + 1) % DepthModulus = d + 1
      BY <2>5
    <2>7. QED
      BY <2>1, <2>3, <2>6
  <1>9. SUFFICES ASSUME NEW k \in 1 .. Len(walks'), walks'[k].Node # 0
                 PROVE  Level(walks'[k].Node) = walks'[k].Depth + 1
    <2>1. ASSUME NEW k \in 1 .. Len(walks'), walks'[k].Node # 0
          PROVE  Level(walks[k].Node)' = walks'[k].Depth + 1
      <3>1. PICK m : m = walks'[k].Node
        OBVIOUS
      <3>2. Level(m)' = Level(m) /\ Level(m) = walks'[k].Depth + 1
        BY <1>5, <1>9, <2>1, <3>1, Zenon
      <3>3. QED
        BY <3>1, <3>2, Zenon DEF Level
    <2>2. QED
      BY <2>1, Zenon DEF WalksLevel
  <1>10. k \in 1 .. D - 1 \/ k = D \/ (k = D + 1 /\ heap[n].FirstChild # 0)
    BY <1>3, <1>9
  <1>11. CASE k \in 1 .. D - 1
    <2>1. k \in 1 .. Len(walks) /\ walks'[k] = walks[k]
      BY <1>0, <1>3, <1>11
    <2>2. QED
      BY <1>9, <2>1, Zenon DEF WalksLevel
  <1>12. CASE k = D
    BY <1>3, <1>7, <1>9, <1>12
  <1>13. CASE k = D + 1 /\ heap[n].FirstChild # 0
    BY <1>3, <1>8, <1>13
  <1>14. QED
    BY <1>10, <1>11, <1>12, <1>13

LEMMA LevelWalk ==
  ASSUME ShapeInv, NumberedOK, LevelOK, WalksLevel, DepthModulus > LastBus, [Next]_vars
  PROVE  WalksLevel'
PROOF
  <1>. USE DEF NULL
  <1>1. TypeInv /\ TypeInv' /\ walks \in Seq(WalkFrames)
    BY NextType DEF ShapeInv, TypeInv, TypeOK, StackTypeOK
  <1>2. CASE Visit
    BY <1>2, LevelVisit
  <1>3. CASE pc' # "walk"
    <2>1. walks' = <<>>
      BY <1>1, <1>3 DEF TypeInv, TypeOK, StackTypeOK
    <2>2. 1 .. Len(walks') = {}
      BY <2>1
    <2>3. QED
      BY <2>2, Zenon DEF WalksLevel
  <1>4. CASE BeginWalk
    <2>1. UNCHANGED <<hw, table, heap, root>> /\ walks' = <<[Node |-> root, Depth |-> 0]>>
      BY <1>4 DEF BeginWalk, platform
    <2>2. Len(walks') = 1 /\ walks'[1].Node = root /\ walks'[1].Depth = 0
      BY <2>1
    <2>3. PICK m : m = root
      OBVIOUS
    <2>4. m # 0 => Level(m) = 1
      BY <2>3, Zenon DEF LevelOK, ListLevel
    <2>5. Level(m)' = Level(m)
      BY <2>1, SameLevel
    <2>6. m # 0 => Level(walks[1].Node)' = walks'[1].Depth + 1
      <3>1. m # 0 => Level(m)' = 0 + 1
        BY <2>4, <2>5
      <3>2. QED
        BY <2>2, <2>3, <3>1, Zenon DEF Level
    <2>7. \A k \in 1 .. Len(walks') : k = 1
      BY <2>2
    <2>8. QED
      BY <2>2, <2>3, <2>6, <2>7, Zenon DEF WalksLevel
  <1>5. CASE pc' = "walk" /\ (ReturnFromWalk \/ UNCHANGED vars)
    <2>1. UNCHANGED <<hw, table, heap>>
      BY <1>5 DEF ReturnFromWalk, platform, vars
    <2>2. \A k \in 1 .. Len(walks') : k \in 1 .. Len(walks) /\ walks'[k] = walks[k]
      <3>1. CASE ReturnFromWalk
        <4>1. walks # <<>> /\ walks' = Below(walks)
          BY <1>1, <3>1 DEF ReturnFromWalk, TypeInv, TypeOK, StackTypeOK
        <4>2. Len(walks') = Len(walks) - 1 /\ \A k \in 1 .. Len(walks) - 1 : walks'[k] = walks[k]
          BY <1>1, <4>1, BelowLemma
        <4>3. Len(walks) \in Nat
          BY <1>1
        <4>4. QED
          BY <4>2, <4>3
      <3>2. CASE UNCHANGED vars
        BY <3>2 DEF vars
      <3>3. QED
        BY <1>5, <3>1, <3>2
    <2>3. ASSUME NEW k \in 1 .. Len(walks'), walks'[k].Node # 0
          PROVE  Level(walks[k].Node)' = walks'[k].Depth + 1
      <3>1. PICK m : m = walks[k].Node /\ m = walks'[k].Node
        BY <2>2
      <3>2. Level(m)' = Level(m)
        BY <2>1, SameLevel
      <3>3. Level(m) = walks'[k].Depth + 1
        BY <2>2, <2>3, <3>1, Zenon DEF WalksLevel
      <3>4. QED
        BY <3>1, <3>2, <3>3, Zenon DEF Level
    <2>4. QED
      BY <2>3, Zenon DEF WalksLevel
  <1>6. pc' = "walk" => Visit \/ BeginWalk \/ ReturnFromWalk \/ UNCHANGED vars
    <2>1. Scan => pc' # "walk"
      BY DEF Scan, BeginSegment, SkipAbsent, NoMemory, AddNode, NextDevice, ReturnToBridge,
         ReturnToSegment, SkipEmptySegment, LinkSegment, LastSiblingStep, LastSiblingReturn,
         EndSegments, InFunctionLoop
    <2>2. SkipWalk \/ Free => pc' # "walk"
      BY DEF SkipWalk, Free, FreeEnter, Release, ReturnFromFree
    <2>3. QED
      BY <2>1, <2>2 DEF Next, Walk
  <1>7. QED
    BY <1>2, <1>3, <1>4, <1>5, <1>6

(* So the depths reported are those of the paths. *)
ReportsLevel ==
  \A i \in 1 .. Len(report) : Level(report[i].Node) = report[i].Depth + 1

LEMMA LevelReports ==
  ASSUME TypeInv, WalkOK, WalksLevel, ReportsLevel, [Next]_vars
  PROVE  ReportsLevel'
PROOF
  <1>1. CASE Visit
    <2>1. PICK D, r, n : D = Len(walks) /\ r = Len(report) /\ n = walks[D].Node
      OBVIOUS
    <2>2. NodeVisited(D, r, n)
      BY <1>1, <2>1, VisitEffect, Zenon
    <2>3. /\ UNCHANGED <<hw, table, heap>> /\ D \in Nat \ {0} /\ r \in Nat /\ n # NULL
          /\ Len(report') = r + 1 /\ report'[r + 1] = [Node |-> n, Depth |-> walks[D].Depth]
          /\ \A i \in 1 .. r : report'[i] = report[i]
      BY <2>2 DEF NodeVisited, Ids, NULL
    <2>4. ASSUME NEW i \in 1 .. Len(report')
          PROVE  Level(report'[i].Node) = report'[i].Depth + 1
      <3>1. CASE i \in 1 .. r
        BY <2>1, <2>3, <3>1, Zenon DEF ReportsLevel
      <3>2. CASE i = r + 1
        <4>1. D \in 1 .. D
          BY <2>3
        <4>2. Level(n) = walks[D].Depth + 1
          BY <2>1, <2>3, <4>1, Zenon DEF WalksLevel
        <4>3. report'[i].Node = n /\ report'[i].Depth = walks[D].Depth
          BY <2>3, <3>2
        <4>4. QED
          BY <4>2, <4>3, Zenon
      <3>3. QED
        BY <2>3, <2>4, <3>1, <3>2
    <2>5. ASSUME NEW i \in 1 .. Len(report')
          PROVE  Level(report[i].Node)' = report'[i].Depth + 1
      <3>1. PICK m : m = report'[i].Node
        OBVIOUS
      <3>2. Level(m)' = Level(m) /\ Level(m) = report'[i].Depth + 1
        BY <2>3, <2>4, <2>5, <3>1, SameLevel, Zenon
      <3>3. QED
        BY <3>1, <3>2, Zenon DEF Level
    <2>6. QED
      BY <2>5, Zenon DEF ReportsLevel
  <1>2. CASE report' = report /\ (Scanning \/ UNCHANGED <<hw, table, heap>>)
    <2>1. CASE Scanning
      <3>1. 1 .. Len(report') = {}
        BY <1>2, <2>1 DEF WalkOK
      <3>2. QED
        BY <3>1, Zenon DEF ReportsLevel
    <2>2. CASE UNCHANGED <<hw, table, heap>>
      <3>1. ASSUME NEW i \in 1 .. Len(report')
            PROVE  Level(report[i].Node)' = report'[i].Depth + 1
        <4>1. PICK m : m = report[i].Node /\ m = report'[i].Node
          BY <1>2
        <4>2. Level(m)' = Level(m)
          BY <2>2, SameLevel
        <4>3. Level(m) = report'[i].Depth + 1
          BY <1>2, <3>1, <4>1, Zenon DEF ReportsLevel
        <4>4. QED
          BY <4>1, <4>2, <4>3, Zenon DEF Level
      <3>2. QED
        BY <3>1, Zenon DEF ReportsLevel
    <2>3. QED
      BY <1>2, <2>1, <2>2
  <1>3. QED
    BY <1>1, <1>2 DEF Next, Scan, BeginSegment, SkipAbsent, NoMemory, AddNode, NextDevice,
       ReturnToBridge, ReturnToSegment, SkipEmptySegment, LinkSegment, LastSiblingStep,
       LastSiblingReturn, EndSegments, InFunctionLoop, Scanning, Walk, BeginWalk, SkipWalk,
       ReturnFromWalk, Free, FreeEnter, Release, ReturnFromFree, platform, vars

-----------------------------------------------------------------------------
(* After the scan: what is to be listed. *)
LEMMA InventoryAfter ==
  ASSUME ~Scanning
  PROVE  /\ \A s, b : Inventory!BusPath(s)[b] = BusRoute(lost, s, b)
         /\ \A l : Inventory!Path(l) = Append(BusRoute(lost, l.Seg, l.Bus), Place(l))
         /\ Inventory!Listed = {l \in Existing \ lost : BusRoute(lost, l.Seg, l.Bus) # <<>>}
PROOF
  <1>1. PICK L : L = IF Scanning THEN {} ELSE lost
    OBVIOUS
  <1>2. L = lost
    BY <1>1
  <1>3. /\ Inventory!Bridges = On(hw, table, L)!Bridges /\ Inventory!Functions = Existing
        /\ Inventory!Starts = On(hw, table, L)!Starts
    BY InventoryOn, Zenon
  <1>4. \A s : Inventory!BusPath(s) = On(hw, table, L)!BusPath(s)
    <2>1. \A s, b : Inventory!StartsAt(s, b) = On(hw, table, L)!StartsAt(s, b)
      BY <1>3, Zenon DEF Inventory!StartsAt, On!StartsAt
    <2>2. \A p, s, b : Inventory!BridgesTo(p, s, b) = On(hw, table, L)!BridgesTo(p, s, b)
      BY <1>1, <1>3, Zenon DEF Inventory!BridgesTo, On!BridgesTo
    <2>3. \A p, l : Inventory!PathOver(p, l) = On(hw, table, L)!PathOver(p, l)
      BY Zenon DEF Inventory!PathOver, On!PathOver, Inventory!Place, On!Place
    <2>4. \A p, s, b : Inventory!NextPath(p, s, b) = On(hw, table, L)!NextPath(p, s, b)
      <3>. SUFFICES ASSUME NEW p, NEW s, NEW b
                    PROVE  Inventory!NextPath(p, s, b) = On(hw, table, L)!NextPath(p, s, b)
        BY Zenon
      <3>. DEFINE A == Inventory!StartsAt(s, b)
                  B == Inventory!BridgesTo(p, s, b)
      <3>1. /\ A = On(hw, table, L)!StartsAt(s, b)
            /\ B = On(hw, table, L)!BridgesTo(p, s, b)
            /\ Inventory!PathOver(p, Any(B)) = On(hw, table, L)!PathOver(p, Any(B))
        BY <2>1, <2>2, <2>3, Zenon
      <3>2. Inventory!NextPath(p, s, b) = FirstOf(A, B, Inventory!PathOver(p, Any(B)))
        BY Zenon DEF Inventory!NextPath, FirstOf, Any
      <3>. HIDE DEF A, B
      <3>3. On(hw, table, L)!NextPath(p, s, b) =
              FirstOf(On(hw, table, L)!StartsAt(s, b), On(hw, table, L)!BridgesTo(p, s, b),
                      On(hw, table, L)!PathOver(p, Any(On(hw, table, L)!BridgesTo(p, s, b))))
        BY Zenon DEF On!NextPath, FirstOf, Any
      <3>4. QED
        BY <3>1, <3>2, <3>3, Zenon
    <2>5. QED
      BY <2>4, Zenon DEF Inventory!BusPath, On!BusPath
  <1>5. \A s, b : Inventory!BusPath(s)[b] = BusRoute(lost, s, b)
    BY <1>2, <1>4, Zenon DEF BusRoute, RouteOn
  <1>6. \A l : Inventory!Path(l) = Append(BusRoute(lost, l.Seg, l.Bus), Place(l))
    BY <1>5, Zenon DEF Inventory!Path, Inventory!Place, Place
  <1>7. Inventory!Listed = {l \in Existing \ lost : BusRoute(lost, l.Seg, l.Bus) # <<>>}
    BY <1>1, <1>2, <1>3, <1>5, Zenon DEF Inventory!Listed
  <1>8. QED
    BY <1>5, <1>6, <1>7, Zenon

(* Every node is reached over nodes, so the functions that were lost do not
   lie on its path. *)
LEMMA MetReached ==
  ASSUME PlatformTypeOK, NumberedOK, RoutesOK, LastBus \in Nat
  PROVE  \A l \in Met : BusRoute(lost, l.Seg, l.Bus) # <<>>
PROOF
  <1>. DEFINE Bad == {b \in 0 .. LastBus :
                        \E l \in Met : l.Bus = b /\ BusRoute(lost, l.Seg, l.Bus) = <<>>}
  <1>1. ASSUME NEW l \in Met
        PROVE  l \in Existing /\ l \notin lost /\ l.Bus \in 0 .. LastBus /\ Place(l) \in Nat
    <2>1. l \in Existing /\ l \notin lost
      BY Zenon DEF RoutesOK, SeenRouted, LostApart, Seen
    <2>2. l.Bus \in 0 .. LastBus /\ l.Dev \in Nat /\ l.Fun \in Nat
      BY <2>1, ExistingTypes
    <2>3. QED
      BY <2>1, <2>2, RouteTypes
  <1>2. SUFFICES ASSUME Bad # {} PROVE FALSE
    BY <1>1, Zenon
  <1>3. PICK b \in Bad : \A c \in Bad : b <= c
    <2>1. Bad \in SUBSET Nat
      OBVIOUS
    <2>. HIDE DEF Bad
    <2>2. QED
      BY <1>2, <2>1, SmallestNode
  <1>4. PICK l \in Met : l.Bus = b /\ BusRoute(lost, l.Seg, l.Bus) = <<>>
    BY <1>3, Zenon
  <1>5. b \in 0 .. LastBus
    BY <1>3, Zenon
  <1>6. LedTo(l.Seg, b)
    BY <1>4, Zenon DEF RoutesOK, MetLed
  <1>7. CASE \E i \in 1 .. Len(Starts) : Starts[i].Seg = l.Seg /\ Starts[i].StartBus = b
    <2>1. PICK i \in 1 .. Len(Starts) : Starts[i].Seg = l.Seg /\ Starts[i].StartBus = b
      BY <1>7
    <2>2. BusRoute(lost, Starts[i].Seg, Starts[i].StartBus) = <<i>>
      BY StartRoute, Zenon
    <2>3. <<i>> # <<>>
      OBVIOUS
    <2>4. QED
      BY <1>4, <2>1, <2>2, <2>3, Zenon
  <1>8. ASSUME NEW m \in Met, m.Seg = l.Seg, hw[m].bridge, hw[m].secondary = b
        PROVE  FALSE
    <2>1. m \in Existing \ lost /\ m.Bus \in 0 .. LastBus /\ Place(m) \in Nat
      BY <1>1, Zenon
    <2>2. b > m.Bus
      BY <1>8, <2>1, Zenon DEF NumberedOK
    <2>3. m.Bus \notin Bad
      <3>. HIDE DEF Bad
      <3>1. QED
        BY <1>3, <1>5, <2>1, <2>2
    <2>4. BusRoute(lost, m.Seg, m.Bus) # <<>>
      BY <2>1, <2>3, Zenon
    <2>5. BusRoute(lost, m.Seg, b) = Append(BusRoute(lost, m.Seg, m.Bus), Place(m))
      BY <1>8, <2>1, <2>4, BehindRoute, Zenon
    <2>6. PICK q, x : q = BusRoute(lost, m.Seg, m.Bus) /\ x = Place(m)
      OBVIOUS
    <2>7. q \in Seq(Nat) /\ x \in Nat
      BY <2>1, <2>6, RouteLength, Zenon
    <2>8. Append(q, x) # <<>>
      BY <2>7, AppendPath
    <2>9. QED
      BY <1>4, <1>8, <2>5, <2>6, <2>8, Zenon
  <1>9. QED
    BY <1>6, <1>7, <1>8, Zenon DEF LedTo

(* So the tree has what is to be listed, at the same paths. *)
LEMMA MetListed ==
  ASSUME PlatformTypeOK, NumberedOK, RoutesOK, LastBus \in Nat,
         CoverOK({}, {}), ~Scanning, scans = <<>>
  PROVE  /\ Inventory!Listed = Met
         /\ \A l \in Met : Inventory!Path(l) = Route(l)
PROOF
  <1>1. ASSUME NEW l \in Met
        PROVE  l \in Existing \ lost /\ l.Bus \in 0 .. LastBus
    <2>1. l \in Existing /\ l \notin lost
      BY Zenon DEF RoutesOK, SeenRouted, LostApart, Seen
    <2>2. QED
      BY <2>1, ExistingTypes, Zenon
  <1>2. ASSUME NEW l \in Met PROVE l \in Inventory!Listed
    BY <1>1, InventoryAfter, MetReached, Zenon
  <1>3. ASSUME NEW l \in Inventory!Listed PROVE l \in Met
    <2>1. l \in Existing \ lost /\ BusRoute(lost, l.Seg, l.Bus) # <<>>
      BY InventoryAfter, Zenon
    <2>2. l.Bus \in 0 .. LastBus
      BY <2>1, ExistingTypes
    <2>3. PICK s, p : s = l.Seg /\ p = [b \in 0 .. LastBus |-> BusRoute(lost, s, b)]
      OBVIOUS
    <2>4. ASSUME NEW b \in 0 .. LastBus, p[b] # <<>>
          PROVE  \/ \E i \in 1 .. Len(Starts) : Starts[i].Seg = s /\ Starts[i].StartBus = b
                 \/ \E m \in Left({}) \ lost : /\ m.Seg = s /\ m.Bus < b /\ hw[m].bridge
                                               /\ hw[m].secondary = b /\ p[m.Bus] # <<>>
      <3>1. BusRoute(lost, s, b) # <<>>
        BY <2>3, <2>4, Zenon
      <3>2. \/ \E i \in 1 .. Len(Starts) : Starts[i].Seg = s /\ Starts[i].StartBus = b
            \/ \E m \in Existing \ lost : /\ hw[m].bridge /\ m.Seg = s /\ m.Bus < b
                                          /\ hw[m].secondary = b /\ BusRoute(lost, s, m.Bus) # <<>>
        <4>1. PICK L : L = lost
          OBVIOUS
        <4>2. BusRoute(L, s, b) # <<>>
          BY <3>1, <4>1, Zenon
        <4>3. \/ \E i \in 1 .. Len(Starts) : Starts[i].Seg = s /\ Starts[i].StartBus = b
              \/ \E m \in Existing \ L : /\ hw[m].bridge /\ m.Seg = s /\ m.Bus < b
                                         /\ hw[m].secondary = b /\ BusRoute(L, s, m.Bus) # <<>>
          BY <2>4, <4>2, RouteFrom
        <4>4. QED
          BY <4>1, <4>3, Zenon
      <3>3. \A m \in Existing : m.Bus \in 0 .. LastBus
        BY ExistingTypes, Zenon
      <3>4. \A m \in Existing : p[m.Bus] = BusRoute(lost, s, m.Bus) /\ m \in Left({})
        BY <2>3, <3>3, ExistingLeft, Zenon
      <3>5. QED
        BY <3>2, <3>4, Zenon
    <2>5. \A b \in 0 .. LastBus : p[b] # <<>> =>
            \/ \E i \in 1 .. Len(Starts) : Starts[i].Seg = s /\ Starts[i].StartBus = b
            \/ \E m \in Left({}) \ lost : /\ m.Seg = s /\ m.Bus < b /\ hw[m].bridge
                                          /\ hw[m].secondary = b /\ p[m.Bus] # <<>>
      BY <2>4, Zenon
    <2>6. \A b \in 0 .. LastBus : p[b] # <<>> => BusDone({}, s, b)
      BY <2>5, Reached, Zenon
    <2>7. BusDone({}, s, l.Bus)
      BY <2>1, <2>2, <2>3, <2>6, Zenon
    <2>8. QED
      BY <2>1, <2>3, <2>7, ExistingLeft, Zenon DEF BusDone
  <1>4. ASSUME NEW l \in Met PROVE Inventory!Path(l) = Route(l)
    <2>1. BusRoute(lost, l.Seg, l.Bus) = BusRoute({}, l.Seg, l.Bus)
      BY <1>1, MetReached, RouteLeft, Zenon
    <2>2. QED
      BY <2>1, InventoryAfter, Zenon DEF Route, BusOf
  <1>5. QED
    BY <1>2, <1>3, <1>4, Zenon

ListInv == LevelInv /\ WalkInv /\ CoverInv /\ Described /\ WalksLevel /\ ReportsLevel

LEMMA InitList == Init /\ Inventory!Numbered => ListInv
PROOF
  <1>. SUFFICES ASSUME Init, Inventory!Numbered PROVE ListInv
    OBVIOUS
  <1>1. ShapeInv /\ TypeInv /\ WalkInv /\ RoutesOK /\ LevelOK
    BY InitShape, InitType, InitWalk, InitRoutes, InitLevel
  <1>2. DepthInv
    BY InitDepth, NumberedLeadsUp
  <1>3. CoverInv
    BY <1>1, InitCover, Zenon DEF CoverInv
  <1>4. Described /\ WalksLevel /\ ReportsLevel
    <2>1. Ids = {} /\ 1 .. Len(walks) = {} /\ 1 .. Len(report) = {}
      BY DEF Init, Ids
    <2>2. QED
      BY <2>1, Zenon DEF Described, WalksLevel, ReportsLevel
  <1>5. QED
    BY <1>1, <1>2, <1>3, <1>4, Zenon DEF ListInv, LevelInv, RoutesInv

LEMMA NextList ==
  ASSUME ListInv, [Next]_vars, DepthModulus > LastBus
  PROVE  ListInv'
PROOF
  <1>1. LevelInv' /\ WalkInv' /\ CoverInv'
    BY NextLevel, NextWalk, NextCover, Zenon DEF ListInv
  <1>2. /\ ShapeInv /\ TypeInv /\ NumberedOK /\ LevelOK /\ WalkOK
        /\ Described /\ WalksLevel /\ ReportsLevel
    BY RoutesNumbered, Zenon DEF ListInv, LevelInv, RoutesInv, WalkInv
  <1>3. Described'
    BY <1>2, NextDescribed
  <1>4. WalksLevel'
    BY <1>2, LevelWalk
  <1>5. ReportsLevel'
    BY <1>2, LevelReports
  <1>6. QED
    BY <1>1, <1>3, <1>4, <1>5, Zenon DEF ListInv

-----------------------------------------------------------------------------
(* What is listed, entry by entry. *)
Reports == [Node: Ids, Depth: 0 .. DepthModulus - 1]

Entries == [Loc: Locations, IsPcie: BOOLEAN, IsBridge: BOOLEAN, Depth: 0 .. DepthModulus - 1]

Shown(e) ==
  [Loc |-> heap[e.Node].Loc, IsPcie |-> heap[e.Node].IsPcie,
   IsBridge |-> heap[e.Node].IsBridge, Depth |-> e.Depth]

LEMMA MapAppend ==
  ASSUME NEW S, NEW T, NEW f \in [S -> T], NEW s \in Seq(S), NEW e \in S, NEW t, t = Append(s, e)
  PROVE  [i \in DOMAIN t |-> f[t[i]]] = Append([i \in DOMAIN s |-> f[s[i]]], f[e])
PROOF
  <1>1. PICK a, b : a = [i \in DOMAIN s |-> f[s[i]]] /\ b = [i \in DOMAIN t |-> f[t[i]]]
    OBVIOUS
  <1>2. /\ Len(s) \in Nat /\ DOMAIN s = 1 .. Len(s) /\ \A i \in 1 .. Len(s) : s[i] \in S
        /\ DOMAIN t = 1 .. Len(s) + 1 /\ t[Len(s) + 1] = e
        /\ \A i \in 1 .. Len(s) : t[i] = s[i]
    OBVIOUS
  <1>3. a \in [1 .. Len(s) -> T] /\ \A i \in 1 .. Len(s) : a[i] = f[s[i]]
    BY <1>1, <1>2
  <1>4. a \in Seq(T) /\ Len(a) = Len(s) /\ f[e] \in T
    BY <1>2, <1>3
  <1>5. b = [i \in 1 .. Len(s) + 1 |-> f[t[i]]]
    BY <1>1, <1>2
  <1>6. b \in Seq(T) /\ Len(b) = Len(s) + 1
    <2>1. \A i \in 1 .. Len(s) + 1 : t[i] \in S
      BY <1>2
    <2>2. b \in [1 .. Len(s) + 1 -> T]
      BY <1>5, <2>1
    <2>3. QED
      BY <1>2, <2>2
  <1>7. /\ Append(a, f[e]) \in Seq(T) /\ Len(Append(a, f[e])) = Len(s) + 1
        /\ Append(a, f[e])[Len(s) + 1] = f[e]
        /\ \A i \in 1 .. Len(s) : Append(a, f[e])[i] = a[i]
    BY <1>4, AppendLemma
  <1>8. \A i \in 1 .. Len(s) + 1 : b[i] = Append(a, f[e])[i]
    BY <1>2, <1>3, <1>5, <1>7
  <1>9. b = Append(a, f[e])
    BY <1>6, <1>7, <1>8
  <1>10. QED
    BY <1>1, <1>9

LEMMA ListingEntries ==
  ASSUME TypeInv
  PROVE  /\ Listing = [i \in DOMAIN report |-> Shown(report[i])]
         /\ DOMAIN Listing = 1 .. Len(report) /\ Len(report) \in Nat
         /\ \A i \in 1 .. Len(report) : Listing[i] = Shown(report[i])
         /\ report = <<>> => Listing = <<>>
PROOF
  <1>1. report \in Seq(Reports)
    BY DEF TypeInv, TypeOK, StackTypeOK, Reports
  <1>2. Listing = [i \in DOMAIN report |-> Shown(report[i])]
    BY Zenon DEF Listing, Shown
  <1>3. DOMAIN report = 1 .. Len(report) /\ Len(report) \in Nat
    BY <1>1
  <1>4. DOMAIN Listing = 1 .. Len(report) /\ \A i \in 1 .. Len(report) : Listing[i] = Shown(report[i])
    BY <1>2, <1>3, Zenon
  <1>5. ASSUME report = <<>> PROVE Listing = <<>>
    <2>1. DOMAIN report = {}
      BY <1>5
    <2>2. QED
      BY <1>2, <2>1
  <1>6. QED
    BY <1>2, <1>3, <1>4, <1>5

LEMMA VisitListing ==
  ASSUME TypeInv, Visit, NEW e, e = [Node |-> Top(walks).Node, Depth |-> Top(walks).Depth]
  PROVE  Listing' = Append(Listing, Shown(e))
PROOF
  <1>1. report \in Seq(Reports)
    BY DEF TypeInv, TypeOK, StackTypeOK, Reports
  <1>2. heap' = heap /\ report' = Append(report, e)
    BY DEF Visit
  <1>3. e \in Reports
    <2>1. NodeVisited(Len(walks), Len(report), walks[Len(walks)].Node)
      BY VisitEffect
    <2>2. QED
      BY <2>1 DEF NodeVisited, Reports, Top
  <1>4. \A x \in Reports : Shown(x) \in Entries
    <2>1. heap \in Seq(NODE)
      BY DEF TypeInv, TypeOK, HeapTypeOK
    <2>2. SUFFICES ASSUME NEW x \in Reports PROVE Shown(x) \in Entries
      OBVIOUS
    <2>3. x.Node \in 1 .. Len(heap) /\ x.Depth \in 0 .. DepthModulus - 1
      BY <2>2 DEF Reports, Ids
    <2>4. heap[x.Node] \in NODE
      BY <2>1, <2>3
    <2>5. QED
      BY <2>3, <2>4 DEF Shown, Entries, NODE
  <1>5. PICK f : f = [x \in Reports |-> Shown(x)]
    OBVIOUS
  <1>6. f \in [Reports -> Entries] /\ \A x \in Reports : f[x] = Shown(x)
    BY <1>4, <1>5, Zenon
  <1>7. /\ Listing = [i \in DOMAIN report |-> f[report[i]]]
        /\ Listing' = [i \in DOMAIN report' |-> f[report'[i]]]
    <2>1. \A i \in DOMAIN report : report[i] \in Reports
      BY <1>1
    <2>2. \A i \in DOMAIN report' : report'[i] \in Reports
      BY <1>1, <1>2, <1>3
    <2>3. \A x : Shown(x)' = Shown(x)
      BY <1>2, Zenon DEF Shown
    <2>4. Listing = [i \in DOMAIN report |-> Shown(report[i])]
      BY ListingEntries
    <2>5. Listing' = [i \in DOMAIN report' |-> Shown(report'[i])]
      BY <1>2, Zenon DEF Listing, Shown
    <2>6. QED
      BY <1>6, <2>1, <2>2, <2>4, <2>5, Zenon
  <1>8. PICK s, t : s = report /\ t = report'
    OBVIOUS
  <1>9. s \in Seq(Reports) /\ t = Append(s, e)
    BY <1>1, <1>2, <1>8
  <1>10. [i \in DOMAIN t |-> f[t[i]]] = Append([i \in DOMAIN s |-> f[s[i]]], f[e])
    BY <1>3, <1>6, <1>9, MapAppend
  <1>11. QED
    BY <1>3, <1>6, <1>7, <1>8, <1>10, Zenon

(* The state of the inventory, as PciTree has it. *)
Missing == IF Scanning THEN {} ELSE lost

Phase ==
  CASE Scanning -> "scan"
    [] pc \in {"scanned", "walk"} -> "report"
    [] OTHER -> "closed"

Stays == UNCHANGED <<hw, table, Missing, Listing, Phase>>

LEMMA InventoryStays ==
  ASSUME Stays
  PROVE  UNCHANGED Inventory!vars
  BY Zenon DEF Stays, Missing, Phase, Inventory!vars

LEMMA InventoryScans ==
  ASSUME Phase = "scan", Missing' \in SUBSET Inventory!Functions, Phase' = "report",
         UNCHANGED <<hw, table, Listing>>
  PROVE  Inventory!Scan
  BY Zenon DEF Missing, Phase, Inventory!Scan

LEMMA InventoryReports ==
  ASSUME Phase = "report", UNCHANGED <<hw, table, Missing, Phase>>,
         NEW l \in Inventory!Unlisted, Listing' = Append(Listing, Inventory!Entry(l)),
         \A m \in Inventory!Unlisted \ {l} : Inventory!Precedes(Inventory!Path(l), Inventory!Path(m))
  PROVE  Inventory!Report
  BY Zenon DEF Missing, Phase, Inventory!Report

LEMMA InventoryCloses ==
  ASSUME Phase = "report", Listing = <<>> \/ Inventory!Unlisted = {}, Phase' = "closed",
         UNCHANGED <<hw, table, Missing, Listing>>
  PROVE  Inventory!Close
  BY Zenon DEF Missing, Phase, Inventory!Close

LEMMA PhaseValues ==
  /\ Scanning => Phase = "scan" /\ Missing = {}
  /\ pc \in {"scanned", "walk"} => ~Scanning /\ Phase = "report" /\ Missing = lost
  /\ pc \in {"free", "done"} => ~Scanning /\ Phase = "closed" /\ Missing = lost
  BY DEF Phase, Scanning, Missing

LEMMA InitInventory ==
  ASSUME Init
  PROVE  Inventory!Init
PROOF
  <1>1. Scanning /\ Phase = "scan" /\ Missing = {}
    BY PhaseValues DEF Init, Scanning
  <1>2. Listing = <<>>
    BY InitType, ListingEntries DEF Init
  <1>3. \E p \in Platforms : hw = p.hw /\ table = p.table
    BY DEF Init
  <1>4. QED
    BY <1>1, <1>2, <1>3, Zenon DEF Inventory!Init, Phase, Missing

LEMMA SameListing ==
  ASSUME TypeInv, TypeInv', report' = report, report = <<>> \/ heap' = heap
  PROVE  Listing' = Listing
PROOF
  <1>1. CASE report = <<>>
    <2>1. Listing = <<>>
      BY <1>1, ListingEntries
    <2>2. DOMAIN report' = {}
      BY <1>1
    <2>3. Listing' = <<>>
      BY <2>2 DEF Listing
    <2>4. QED
      BY <2>1, <2>3
  <1>2. CASE heap' = heap
    BY <1>2, Zenon DEF Listing
  <1>3. QED
    BY <1>1, <1>2

(* The scan makes one step of the inventory, its last; the functions lost are
   of the machine. *)
LEMMA ScanStep ==
  ASSUME ListInv, ListInv', Scan
  PROVE  [Inventory!Next]_(Inventory!vars)
PROOF
  <1>1. /\ UNCHANGED <<hw, table, report>> /\ Scanning
        /\ Scanning' \/ pc' = "scanned"
    BY DEF Scan, BeginSegment, SkipAbsent, NoMemory, AddNode, NextDevice, ReturnToBridge,
       ReturnToSegment, SkipEmptySegment, LinkSegment, LastSiblingStep, LastSiblingReturn,
       EndSegments, InFunctionLoop, Scanning, platform
  <1>2. TypeInv /\ TypeInv'
    BY Zenon DEF ListInv, CoverInv
  <1>3. report = <<>>
    BY <1>1, Zenon DEF ListInv, WalkInv, WalkOK
  <1>4. Listing' = Listing
    BY <1>1, <1>2, <1>3, SameListing
  <1>5. Phase = "scan" /\ Missing = {}
    BY <1>1, PhaseValues
  <1>6. CASE Scanning'
    <2>1. Phase' = "scan" /\ Missing' = {}
      BY <1>6 DEF Phase, Missing, Scanning
    <2>2. QED
      BY <1>1, <1>4, <1>5, <2>1, InventoryStays, Zenon DEF Stays
  <1>7. CASE pc' = "scanned"
    <2>1. Phase' = "report" /\ Missing' = lost'
      BY <1>7 DEF Phase, Missing, Scanning
    <2>2. lost' \subseteq Existing'
      <3>1. RoutesOK'
        BY Zenon DEF ListInv, LevelInv, RoutesInv
      <3>2. QED
        BY <3>1, Zenon DEF RoutesOK, SeenRouted, Seen
    <2>3. Existing' = Existing /\ Inventory!Functions = Existing
      BY <1>1, SameRoutes, InventoryOn, Zenon
    <2>4. Inventory!Scan
      BY <1>1, <1>4, <1>5, <2>1, <2>2, <2>3, InventoryScans, Zenon
    <2>5. QED
      BY <2>4, Zenon DEF Inventory!Next
  <1>8. QED
    BY <1>1, <1>6, <1>7

(* After the scan: the nodes are what is to be listed. *)
LEMMA AfterScan ==
  ASSUME ListInv, ~Scanning
  PROVE  /\ Inventory!Listed = Met
         /\ \A l \in Met : Inventory!Path(l) = Route(l)
         /\ Inventory!Unlisted = Met \ {heap[i].Loc : i \in 1 .. Len(report)}
PROOF
  <1>1. RoutesInv /\ NumberedOK /\ TypeInv /\ PlatformTypeOK /\ RoutesOK /\ CoverOK({}, {})
    BY RoutesNumbered, Zenon DEF ListInv, LevelInv, RoutesInv, CoverInv
  <1>2. scans = <<>>
    BY <1>1 DEF TypeInv, TypeOK, StackTypeOK, Scanning
  <1>3. LastBus \in Nat
    BY GeometryAssumption
  <1>4. Inventory!Listed = Met /\ \A l \in Met : Inventory!Path(l) = Route(l)
    BY <1>1, <1>2, <1>3, MetListed, Zenon
  <1>5. \A i \in 1 .. Len(report) : Listing[i].Loc = heap[i].Loc
    <2>1. SUFFICES ASSUME NEW i \in 1 .. Len(report) PROVE Listing[i].Loc = heap[i].Loc
      BY Zenon
    <2>2. Listing[i] = Shown(report[i]) /\ DOMAIN report = 1 .. Len(report)
      <3>1. report \in Seq(Reports)
        BY <1>1 DEF TypeInv, TypeOK, StackTypeOK, Reports
      <3>2. DOMAIN report = 1 .. Len(report)
        BY <3>1
      <3>3. QED
        BY <1>1, <2>1, <3>2, ListingEntries, Zenon
    <2>3. report[i].Node = i
      BY <2>2, Zenon DEF ListInv, WalkInv, VisitsInOrder
    <2>4. QED
      BY <2>2, <2>3 DEF Shown
  <1>6. {Listing[i].Loc : i \in DOMAIN Listing} = {heap[i].Loc : i \in 1 .. Len(report)}
    BY <1>1, <1>5, ListingEntries, Zenon
  <1>7. Inventory!Unlisted = Met \ {heap[i].Loc : i \in 1 .. Len(report)}
    BY <1>4, <1>6, Zenon DEF Inventory!Unlisted
  <1>8. QED
    BY <1>4, <1>7

(* What a walk that has visited all has reported. *)
Complete ==
  /\ Inventory!Listed = {heap[i].Loc : i \in 1 .. Len(report)}
  /\ Len(report) \in Nat
  /\ \A i, j \in 1 .. Len(report) :
       i < j => /\ heap[i].Loc # heap[j].Loc
                /\ Inventory!Precedes(Inventory!Path(heap[i].Loc), Inventory!Path(heap[j].Loc))
  /\ \A i \in 1 .. Len(report) :
       /\ report[i].Node = i
       /\ heap[i].IsPcie = Inventory!Entry(heap[i].Loc).IsPcie
       /\ heap[i].IsBridge = Inventory!Entry(heap[i].Loc).IsBridge
       /\ report[i].Depth = Inventory!Entry(heap[i].Loc).Depth

LEMMA WholeListing ==
  ASSUME ListInv, ~Scanning, Len(report) = Len(heap)
  PROVE  Complete
PROOF
  <1>1. /\ NumberedOK /\ TypeInv /\ PlatformTypeOK /\ RoutesOK /\ VisitsInOrder /\ Described
        /\ ReportsLevel /\ LastBus \in Nat
    BY RoutesNumbered, GeometryAssumption DEF ListInv, LevelInv, RoutesInv, WalkInv
  <1>2. /\ Inventory!Listed = Met /\ \A x \in Met : Inventory!Path(x) = Route(x)
    BY AfterScan, Zenon
  <1>3. /\ Len(report) \in Nat /\ Ids = 1 .. Len(report) /\ report \in Seq(Reports)
        /\ DOMAIN report = 1 .. Len(report)
    BY <1>1 DEF TypeInv, TypeOK, StackTypeOK, Reports, Ids
  <1>4. \A i \in Ids : heap[i].Loc \in Met /\ heap[i].Loc \in Seen
    BY Zenon DEF Met, Seen
  <1>5. ASSUME NEW i \in Ids, NEW j \in Ids, i < j
        PROVE  /\ heap[i].Loc # heap[j].Loc
               /\ Inventory!Precedes(Inventory!Path(heap[i].Loc), Inventory!Path(heap[j].Loc))
    <2>1. PICK p, q : p = Route(heap[i].Loc) /\ q = Route(heap[j].Loc)
      OBVIOUS
    <2>2. Before(p, q)
      BY <1>1, <1>5, <2>1, Zenon DEF RoutesOK, MetInOrder
    <2>3. p \in Seq(Nat)
      BY <1>1, <1>4, <2>1, SeenTypes DEF RoutesOK
    <2>4. ~Before(p, p)
      BY <2>3, NotBeforeItself
    <2>5. heap[i].Loc # heap[j].Loc
      BY <2>1, <2>2, <2>4, Zenon
    <2>6. Before(Inventory!Path(heap[i].Loc), Inventory!Path(heap[j].Loc))
      BY <1>2, <1>4, <2>1, <2>2, Zenon
    <2>7. QED
      BY <2>5, <2>6, Zenon DEF Before, Inventory!Precedes
  <1>6. ASSUME NEW i \in Ids
        PROVE  /\ report[i].Node = i
               /\ heap[i].IsPcie = Inventory!Entry(heap[i].Loc).IsPcie
               /\ heap[i].IsBridge = Inventory!Entry(heap[i].Loc).IsBridge
               /\ report[i].Depth = Inventory!Entry(heap[i].Loc).Depth
    <2>1. PICK l, d : l = heap[i].Loc /\ d = report[i].Depth
      OBVIOUS
    <2>2. report[i].Node = i
      BY <1>1, <1>3, Zenon DEF VisitsInOrder
    <2>3. d \in 0 .. DepthModulus - 1
      <3>1. report[i] \in Reports
        BY <1>3, ElementOfSeq
      <3>2. QED
        BY <2>1, <3>1 DEF Reports
    <2>4. Inventory!Path(l) = Route(l)
      BY <1>2, <1>4, <2>1, Zenon
    <2>5. Len(BusOf(l)) = d + 1
      BY <1>1, <1>3, <2>1, <2>2, Zenon DEF ReportsLevel, Level
    <2>6. Len(Route(l)) = Len(BusOf(l)) + 1
      <3>1. l \in Existing
        BY <1>1, <1>4, <2>1, Zenon DEF RoutesOK, SeenRouted
      <3>2. l.Bus \in 0 .. LastBus /\ l.Dev \in Nat /\ l.Fun \in Nat
        BY <1>1, <3>1, ExistingTypes
      <3>3. QED
        BY <1>1, <3>2, RouteTypes
    <2>7. Len(Route(l)) - 2 = d
      BY <2>3, <2>5, <2>6, GeometryAssumption
    <2>8. Inventory!Entry(l) = [Loc |-> l, IsPcie |-> hw[l].pcie, IsBridge |-> hw[l].bridge,
                                Depth |-> Len(Inventory!Path(l)) - 2]
      BY Zenon DEF Inventory!Entry
    <2>9. /\ Inventory!Entry(l).IsPcie = hw[l].pcie /\ Inventory!Entry(l).IsBridge = hw[l].bridge
          /\ Inventory!Entry(l).Depth = Len(Inventory!Path(l)) - 2
      BY <2>8
    <2>10. heap[i].IsPcie = hw[l].pcie /\ heap[i].IsBridge = hw[l].bridge
      BY <1>1, <2>1, Zenon DEF Described
    <2>11. QED
      BY <2>1, <2>2, <2>4, <2>7, <2>9, <2>10, Zenon
  <1>7. Inventory!Listed = {heap[i].Loc : i \in 1 .. Len(report)}
    BY <1>2, <1>3, Zenon DEF Met
  <1>8. QED
    BY <1>3, <1>5, <1>6, <1>7, Zenon DEF Complete

(* The walk reports the first of the functions not reported yet, as it is. *)
LEMMA VisitReports ==
  ASSUME ListInv, ListInv', Visit
  PROVE  Inventory!Report
PROOF
  <1>0. PICK r, n, l, e : /\ r = Len(report) /\ n = walks[Len(walks)].Node /\ l = heap[n].Loc
                          /\ e = [Node |-> Top(walks).Node, Depth |-> Top(walks).Depth]
    OBVIOUS
  <1>1. /\ RoutesInv /\ NumberedOK /\ TypeInv /\ TypeInv' /\ PlatformTypeOK /\ RoutesOK
        /\ VisitsInOrder /\ VisitsInOrder' /\ Described /\ WalksLevel
    BY RoutesNumbered, Zenon DEF ListInv, LevelInv, RoutesInv, CoverInv, WalkInv
  <1>2. pc = "walk" /\ pc' = "walk" /\ ~Scanning /\ ~Scanning'
    BY DEF Visit, Scanning
  <1>3. NodeVisited(Len(walks), r, n)
    BY <1>0, <1>1, VisitEffect, Zenon
  <1>4. /\ UNCHANGED <<hw, table, heap, pc, lost>> /\ r \in Nat /\ n \in Ids
        /\ Len(walks) \in Nat \ {0} /\ Len(report') = r + 1 /\ report'[r + 1].Node = n
        /\ e = [Node |-> n, Depth |-> walks[Len(walks)].Depth]
    BY <1>0, <1>2, <1>3 DEF NodeVisited, Top
  <1>5. n = r + 1
    <2>1. report' \in Seq(Reports')
      BY <1>1 DEF TypeInv, TypeOK, StackTypeOK, Reports
    <2>2. DOMAIN report' = 1 .. r + 1
      BY <1>4, <2>1
    <2>3. r + 1 \in DOMAIN report'
      BY <1>4, <2>2
    <2>4. QED
      BY <1>1, <1>4, <2>3, Zenon DEF VisitsInOrder
  <1>6. /\ Phase = "report" /\ UNCHANGED <<hw, table, Missing, Phase>>
    BY <1>2, <1>4 DEF Phase, Missing, Scanning
  <1>7. /\ Inventory!Unlisted = Met \ {heap[i].Loc : i \in 1 .. r}
        /\ \A x \in Met : Inventory!Path(x) = Route(x)
    BY <1>0, <1>2, AfterScan, Zenon
  <1>8. l \in Met /\ Seen = Met \cup lost /\ MetInOrder
    BY <1>0, <1>1, <1>4, Zenon DEF Met, Seen, RoutesOK
  <1>9. \A i \in 1 .. r : heap[i].Loc # l
    <2>1. SUFFICES ASSUME NEW i \in 1 .. r PROVE heap[i].Loc # l
      OBVIOUS
    <2>2. i \in Ids /\ i < n
      BY <1>4, <1>5 DEF Ids
    <2>3. Before(Route(heap[i].Loc), Route(l))
      BY <1>0, <1>4, <1>8, <2>2, Zenon DEF MetInOrder
    <2>4. Route(l) \in Seq(Nat)
      BY <1>1, <1>8, SeenTypes, GeometryAssumption DEF RoutesOK
    <2>5. PICK p : p = Route(l)
      OBVIOUS
    <2>6. ~Before(p, p)
      BY <2>4, <2>5, NotBeforeItself
    <2>7. QED
      BY <2>3, <2>5, <2>6, Zenon
  <1>10. l \in Inventory!Unlisted
    BY <1>7, <1>8, <1>9, Zenon
  <1>11. ASSUME NEW m \in Inventory!Unlisted \ {l}
         PROVE  Inventory!Precedes(Inventory!Path(l), Inventory!Path(m))
    <2>1. m \in Met /\ m # l /\ m \notin {heap[i].Loc : i \in 1 .. r}
      BY <1>7, <1>11, Zenon
    <2>2. PICK k \in Ids : m = heap[k].Loc
      BY <2>1, Zenon DEF Met
    <2>3. k \notin 1 .. r /\ k # n
      BY <1>0, <2>1, <2>2, Zenon
    <2>4. n < k
      BY <1>4, <1>5, <2>3 DEF Ids
    <2>5. Before(Route(l), Route(m))
      BY <1>0, <1>4, <1>8, <2>2, <2>4, Zenon DEF MetInOrder
    <2>6. Before(Inventory!Path(l), Inventory!Path(m))
      BY <1>7, <1>8, <2>1, <2>5, Zenon
    <2>7. QED
      BY <2>6, Zenon DEF Before, Inventory!Precedes
  <1>12. Shown(e) = Inventory!Entry(l)
    <2>1. heap[n].IsPcie = hw[l].pcie /\ heap[n].IsBridge = hw[l].bridge
      BY <1>0, <1>1, <1>4, Zenon DEF Described
    <2>2. e.Depth = Len(Inventory!Path(l)) - 2
      <3>1. Level(n) = walks[Len(walks)].Depth + 1 /\ Level(n) \in Nat
        <4>1. Len(walks) \in 1 .. Len(walks) /\ n # NULL
          BY <1>4 DEF Ids, NULL
        <4>2. Level(n) = walks[Len(walks)].Depth + 1
          BY <1>0, <1>1, <4>1, Zenon DEF WalksLevel
        <4>3. QED
          BY <1>1, <1>4, <4>2, LevelTypes
      <3>2. Len(Route(l)) = Len(BusOf(l)) + 1
        <4>1. l \in Existing
          BY <1>1, <1>8, Zenon DEF RoutesOK, SeenRouted, Seen
        <4>2. l.Bus \in 0 .. LastBus /\ l.Dev \in Nat /\ l.Fun \in Nat
          BY <1>1, <4>1, ExistingTypes
        <4>3. QED
          BY <1>1, <4>2, RouteTypes, GeometryAssumption
      <3>3. Len(BusOf(l)) = Level(n) /\ Inventory!Path(l) = Route(l)
        BY <1>0, <1>7, <1>8, Zenon DEF Level
      <3>4. PICK d : d = walks[Len(walks)].Depth
        OBVIOUS
      <3>5. d \in 0 .. DepthModulus - 1
        BY <1>0, <1>3, <3>4 DEF NodeVisited
      <3>6. Len(Route(l)) - 2 = d
        BY <3>1, <3>2, <3>3, <3>4, <3>5, GeometryAssumption
      <3>7. e.Depth = d
        BY <1>4, <3>4
      <3>8. QED
        BY <3>3, <3>6, <3>7, Zenon
    <2>3. e.Node = n
      BY <1>4
    <2>4. Shown(e) = [Loc |-> l, IsPcie |-> hw[l].pcie, IsBridge |-> hw[l].bridge,
                      Depth |-> Len(Inventory!Path(l)) - 2]
      BY <1>0, <2>1, <2>2, <2>3, Zenon DEF Shown
    <2>5. QED
      BY <2>4, Zenon DEF Inventory!Entry
  <1>13. Listing' = Append(Listing, Inventory!Entry(l))
    <2>1. Listing' = Append(Listing, Shown(e))
      BY <1>0, <1>1, VisitListing, Zenon
    <2>2. QED
      BY <1>12, <2>1, Zenon
  <1>14. QED
    BY <1>6, <1>10, <1>11, <1>13, InventoryReports, Zenon

LEMMA WalkStep ==
  ASSUME ListInv, ListInv', Walk
  PROVE  [Inventory!Next]_(Inventory!vars)
PROOF
  <1>1. TypeInv /\ TypeInv' /\ WalkOK /\ VisitsInOrder'
    BY Zenon DEF ListInv, CoverInv, WalkInv
  <1>2. CASE Visit
    BY <1>2, VisitReports, Zenon DEF Inventory!Next
  <1>3. CASE BeginWalk \/ SkipWalk \/ ReturnFromWalk
    <2>1. /\ UNCHANGED <<hw, table, heap, lost, report>> /\ pc \in {"scanned", "walk"}
          /\ pc' \in {"walk", "free"}
      BY <1>3 DEF BeginWalk, SkipWalk, ReturnFromWalk, platform
    <2>2. Listing' = Listing
      BY <1>1, <2>1, SameListing
    <2>3. Phase = "report" /\ ~Scanning /\ ~Scanning' /\ Missing' = Missing
      BY <2>1 DEF Phase, Missing, Scanning
    <2>4. CASE pc' = "walk"
      <3>1. Phase' = "report"
        BY <2>4 DEF Phase, Scanning
      <3>2. QED
        BY <2>1, <2>2, <2>3, <3>1, InventoryStays, Zenon DEF Stays
    <2>5. CASE pc' = "free"
      <3>1. Phase' = "closed"
        BY <2>5 DEF Phase, Scanning
      <3>2. CASE report = <<>>
        <4>1. Listing = <<>>
          BY <1>1, <3>2, ListingEntries
        <4>2. QED
          BY <2>1, <2>2, <2>3, <3>1, <4>1, InventoryCloses, Zenon DEF Inventory!Next
      <3>3. CASE report # <<>>
        <4>1. Len(report) = Len(heap)
          BY <1>1, <2>1, <2>5, <3>3 DEF VisitsInOrder
        <4>2. Inventory!Unlisted = Met \ {heap[i].Loc : i \in 1 .. Len(report)}
          BY <2>3, AfterScan
        <4>3. Inventory!Unlisted = {}
          BY <4>1, <4>2, Zenon DEF Met, Ids
        <4>4. QED
          BY <2>1, <2>2, <2>3, <3>1, <4>3, InventoryCloses, Zenon DEF Inventory!Next
      <3>4. QED
        BY <3>2, <3>3
    <2>6. QED
      BY <2>1, <2>4, <2>5
  <1>4. QED
    BY <1>2, <1>3 DEF Walk

LEMMA FreeStep ==
  ASSUME ListInv, ListInv', Free \/ UNCHANGED vars
  PROVE  UNCHANGED Inventory!vars
PROOF
  <1>1. TypeInv /\ TypeInv'
    BY Zenon DEF ListInv, CoverInv
  <1>2. UNCHANGED <<hw, table, heap, lost, report>>
    BY DEF Free, FreeEnter, Release, ReturnFromFree, platform, vars
  <1>3. Listing' = Listing
    BY <1>1, <1>2, SameListing
  <1>4. UNCHANGED <<Missing, Phase>>
    <2>1. CASE Free
      <3>1. pc = "free" /\ pc' \in {"free", "done"}
        BY <2>1 DEF Free, FreeEnter, Release, ReturnFromFree
      <3>2. QED
        BY <1>2, <3>1 DEF Missing, Phase, Scanning
    <2>2. CASE UNCHANGED vars
      BY <2>2 DEF vars, Missing, Phase, Scanning
    <2>3. QED
      BY <2>1, <2>2
  <1>5. QED
    BY <1>2, <1>3, <1>4, InventoryStays, Zenon DEF Stays

(* On every machine whose firmware has numbered the buses, whatever of memory
   there is: the calls of Visitor list, each once, in depth-first order and at
   its depth, every function of the machine but those no node could be had for
   and what lies behind them; or none of them, when the walk is left out. *)
THEOREM ListsInventoryCorrect ==
  ASSUME DepthModulus > LastBus
  PROVE  Spec /\ Inventory!Numbered => ListsInventory
PROOF
  <1>1. Init /\ Inventory!Numbered => ListInv
    BY InitList
  <1>2. ListInv /\ [Next]_vars => ListInv'
    BY NextList
  <1>3. Init => Inventory!Init
    BY InitInventory
  <1>4. ListInv /\ ListInv' /\ [Next]_vars => [Inventory!Next]_(Inventory!vars)
    BY ScanStep, WalkStep, FreeStep, Zenon DEF Next
  <1>5. QED
    BY <1>1, <1>2, <1>3, <1>4, PTL DEF Spec, ListsInventory, Inventory!Spec
=============================================================================

------------------------ MODULE CapabilityListProofs ------------------------
(***************************************************************************)
(* IsPcieDevice is exact for every capability list and every size of the   *)
(* capability area, as long as the hop budget is at least the number of    *)
(* slots.                                                                  *)
(*                                                                         *)
(* A TRUE answer is justified because the pointer always stays on the list *)
(* (OnList).  A FALSE answer needs a set that holds the list and no PCI    *)
(* Express capability: the slots visited.  They are closed under the       *)
(* pointers except for the current one (Trail), so they hold the whole     *)
(* list when the pointer leaves the capability area or meets a slot again; *)
(* and when the budget is spent without a repetition every slot has been   *)
(* visited, because each hop took one unit and one new slot (Budget).      *)
(***************************************************************************)
EXTENDS CapabilityList, FiniteSetTheorems, TLAPS

(* The current pointer is on the list. *)
OnList ==
  \A S \in SUBSET Slots :
    ClosedUnderNext(S) => (capPtr \in Slots => capPtr \in S)

(* The visited slots hold no PCI Express capability and, with the current
   pointer, everything they and the header point to. *)
Trail ==
  /\ cfg.first \in Slots => cfg.first \in visited \cup {capPtr}
  /\ \A s \in visited :
       /\ ~cfg.isPcie[s]
       /\ cfg.next[s] \in Slots => cfg.next[s] \in visited \cup {capPtr}

(* Until a slot is met again, every unit of budget spent is a new slot. *)
Budget ==
  capPtr \in Slots =>
    capPtr \in visited \/ Cardinality(visited) + maxHops = HopLimit

IInv ==
  /\ TypeOK
  /\ pc = "status" => visited = {} /\ maxHops = HopLimit /\ result = FALSE
  /\ pc = "walk"   => cfg.capList /\ result = FALSE /\ OnList /\ Trail /\ Budget
  /\ AnswerIsExact

-----------------------------------------------------------------------------
LEMMA SlotsFinite ==
  /\ IsFiniteSet(Slots)
  /\ Cardinality(Slots) \in Nat
  /\ Cardinality(Slots) <= HopLimit
  BY SlotAssumption, HopAssumption, FS_Interval DEF Slots

LEMMA VisitedFinite ==
  ASSUME visited \in SUBSET Slots
  PROVE  IsFiniteSet(visited) /\ Cardinality(visited) \in Nat
  BY SlotsFinite, FS_Subset, FS_CardinalityType

(* When the loop stops, the visited slots hold the whole list. *)
LEMMA VisitedClosed ==
  ASSUME TypeOK, Trail, Budget, ~LoopsOn
  PROVE  ClosedUnderNext(visited)
<1>1. CASE capPtr \notin Slots
  BY <1>1 DEF TypeOK, Trail, ClosedUnderNext
<1>2. CASE capPtr \in Slots
  <2>1. maxHops = 0
    BY <1>2, SlotAssumption, HopAssumption DEF LoopsOn, Slots, TypeOK
  <2>2. capPtr \in visited
    <3> SUFFICES ASSUME capPtr \notin visited  PROVE FALSE
      OBVIOUS
    <3>1. Cardinality(visited) = HopLimit
      BY <2>1, <1>2, VisitedFinite, HopAssumption DEF Budget, TypeOK
    <3>2. Cardinality(visited) = Cardinality(Slots)
      BY <3>1, SlotsFinite, FS_Subset, HopAssumption DEF TypeOK
    <3>3. visited = Slots
      BY <3>2, SlotsFinite, FS_Subset DEF TypeOK
    <3>4. QED  BY <3>3, <1>2
  <2>3. QED  BY <2>2 DEF Trail, ClosedUnderNext
<1>3. QED  BY <1>1, <1>2

LEMMA InitIInv == Init => IInv
<1> SUFFICES ASSUME Init  PROVE IInv
  OBVIOUS
<1>1. capPtr \in Pointers
  BY SlotAssumption DEF Init, Pointers
<1>2. maxHops \in 0 .. HopLimit
  BY HopAssumption DEF Init
<1>3. TypeOK
  BY <1>1, <1>2 DEF Init, TypeOK
<1>4. QED  BY <1>3 DEF Init, IInv, AnswerIsExact

LEMMA NextIInv == IInv /\ [Next]_vars => IInv'
<1> SUFFICES ASSUME IInv, [Next]_vars  PROVE IInv'
  OBVIOUS
<1> USE DEF IInv
<1>1. CASE ReadStatus
  <2>1. TypeOK'
    BY <1>1 DEF ReadStatus, TypeOK, ConfigSpace
  <2>2. CASE cfg.capList
    <3>1. OnList'
      BY <1>1, <2>2 DEF ReadStatus, OnList, ClosedUnderNext
    <3>2. Trail'
      BY <1>1, <2>2 DEF ReadStatus, Trail
    <3>3. Budget'
      BY <1>1, <2>2, FS_EmptySet, HopAssumption DEF ReadStatus, Budget
    <3>4. QED
      BY <1>1, <2>1, <2>2, <3>1, <3>2, <3>3 DEF ReadStatus, AnswerIsExact
  <2>3. CASE ~cfg.capList
    BY <1>1, <2>1, <2>3 DEF ReadStatus, AnswerIsExact, PcieOnList
  <2>4. QED  BY <2>2, <2>3
<1>2. CASE Found
  <2>0. capPtr \in Slots
    BY <1>2, SlotAssumption DEF Found, LoopsOn, TypeOK, Pointers, Slots
  <2>1. TypeOK'
    BY <1>2, <2>0, HopAssumption DEF Found, LoopsOn, TypeOK
  <2>2. PcieOnList
    BY <1>2, <2>0 DEF Found, PcieOnList, OnList
  <2>3. AnswerIsExact'
    BY <1>2, <2>2 DEF Found, AnswerIsExact, PcieOnList, ClosedUnderNext
  <2>4. QED  BY <1>2, <2>1, <2>3 DEF Found
<1>3. CASE Hop
  <2>0. capPtr \in Slots
    BY <1>3, SlotAssumption DEF Hop, LoopsOn, TypeOK, Pointers, Slots
  <2>1. TypeOK'
    BY <1>3, <2>0, HopAssumption DEF Hop, LoopsOn, TypeOK, ConfigSpace
  <2>2. OnList'
    BY <1>3, <2>0 DEF Hop, OnList, ClosedUnderNext
  <2>3. Trail'
    BY <1>3, <2>0 DEF Hop, Trail
  <2>4. Budget'
    <3>1. CASE capPtr \in visited
      <4>1. visited' = visited
        BY <1>3, <3>1 DEF Hop
      <4>2. QED
        BY <1>3, <2>0, <3>1, <4>1 DEF Hop, Trail, Budget
    <3>2. CASE capPtr \notin visited
      <4>1. Cardinality(visited') = Cardinality(visited) + 1
        BY <1>3, <3>2, VisitedFinite, FS_AddElement DEF Hop, TypeOK
      <4>2. Cardinality(visited) + maxHops = HopLimit
        BY <1>3, <2>0, <3>2 DEF Hop, Budget
      <4>3. Cardinality(visited') + maxHops' = HopLimit
        BY <1>3, <4>1, <4>2, VisitedFinite, HopAssumption
        DEF Hop, TypeOK, LoopsOn
      <4>4. QED  BY <4>3 DEF Budget
    <3>3. QED  BY <3>1, <3>2
  <2>5. QED
    BY <1>3, <2>1, <2>2, <2>3, <2>4 DEF Hop, AnswerIsExact
<1>4. CASE GiveUp
  <2>1. TypeOK'
    BY <1>4 DEF GiveUp, TypeOK
  <2>2. ~PcieOnList
    <3>1. ClosedUnderNext(visited)
      BY <1>4, VisitedClosed DEF GiveUp
    <3>2. visited \in SUBSET Slots /\ \A s \in visited : ~cfg.isPcie[s]
      BY <1>4 DEF GiveUp, TypeOK, Trail
    <3>3. QED  BY <3>1, <3>2 DEF PcieOnList
  <2>3. AnswerIsExact'
    BY <1>4, <2>2 DEF GiveUp, AnswerIsExact, PcieOnList, ClosedUnderNext
  <2>4. QED  BY <1>4, <2>1, <2>3 DEF GiveUp
<1>5. CASE UNCHANGED vars
  BY <1>5 DEF vars, TypeOK, OnList, Trail, Budget, AnswerIsExact, PcieOnList,
              ClosedUnderNext
<1>6. QED  BY <1>1, <1>2, <1>3, <1>4, <1>5 DEF Next

(* Type correctness of the walk: the budget stays within its bounds and no
   read leaves the capability area (PciTree.c:32-39). *)
THEOREM TypeCorrect == Spec => []TypeOK
<1>1. IInv => TypeOK
  BY DEF IInv
<1>2. QED  BY <1>1, InitIInv, NextIInv, PTL DEF Spec

(* For every list, cyclic or not, of every size: IsPcieDevice returns TRUE
   if and only if a PCI Express capability is on the list. *)
THEOREM AnswerCorrect == Spec => []AnswerIsExact
<1>1. IInv => AnswerIsExact
  BY DEF IInv
<1>2. QED  BY <1>1, InitIInv, NextIInv, PTL DEF Spec
=============================================================================

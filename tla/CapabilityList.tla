--------------------------- MODULE CapabilityList ---------------------------
(***************************************************************************)
(* IsPcieDevice (PciTree.c): the walk over a function's capability list    *)
(* that decides whether it is a PCI Express device.                        *)
(*                                                                         *)
(* A capability pointer is a byte with its two low bits masked off         *)
(* (& 0xFC), so it is one of 64 dword slots of the configuration header.   *)
(* The model counts in slots: offset 0x40 is slot FirstSlot (16 in the     *)
(* code), offset 0xFC is slot LastSlot (63), and the hop budget of the     *)
(* loop is HopLimit (48).  Slots 0 .. FirstSlot-1 are the header itself: a *)
(* pointer there ends the chain.                                           *)
(*                                                                         *)
(* The list is whatever the hardware holds: any pointers, cycles included. *)
(***************************************************************************)
EXTENDS Naturals, FiniteSets

CONSTANTS
  FirstSlot,   \* slot of offset 0x40, the lowest one a capability can be in
  LastSlot,    \* slot of offset 0xFC, the highest one a pointer can name
  HopLimit     \* MaxHops: how many capabilities the loop looks at

ASSUME SlotAssumption ==
  /\ FirstSlot \in Nat \ {0}
  /\ LastSlot \in Nat
  /\ FirstSlot <= LastSlot

\* 48 = 63 - 16 + 1: the budget is as large as the number of slots.
ASSUME HopAssumption ==
  HopLimit \in Nat /\ HopLimit >= LastSlot - FirstSlot + 1

VARIABLES
  cfg,       \* the function's configuration space, as far as the walk reads it
  pc,        \* where IsPcieDevice stands
  capPtr,    \* CapPtr, as a slot
  maxHops,   \* MaxHops
  result,    \* the value returned
  visited    \* history: the slots whose capability ID has been read

vars == <<cfg, pc, capPtr, maxHops, result, visited>>

-----------------------------------------------------------------------------
Slots    == FirstSlot .. LastSlot
Pointers == 0 .. LastSlot

(* What the walk reads: Status bit 4, the pointer at 0x34, and in each slot
   whether its ID is 0x10 and the pointer to the next one.  The all-ones
   answer of an absent function is one of these: the list bit set, and slot
   LastSlot holding another ID and pointing to itself. *)
ConfigSpace ==
  [capList: BOOLEAN, first: Pointers,
   isPcie: [Slots -> BOOLEAN], next: [Slots -> Pointers]]

Init ==
  /\ cfg \in ConfigSpace
  /\ pc = "status"
  /\ capPtr = 0
  /\ maxHops = HopLimit
  /\ result = FALSE
  /\ visited = {}

(* The Status register is read first; without a list there is no answer to
   look for.  Otherwise the walk starts at the pointer at 0x34. *)
ReadStatus ==
  /\ pc = "status"
  /\ IF cfg.capList
       THEN pc' = "walk" /\ capPtr' = cfg.first
       ELSE pc' = "done" /\ UNCHANGED capPtr
  /\ UNCHANGED <<cfg, maxHops, result, visited>>

(* The loop condition.  The left operand of && is tested first, so the
   budget is only spent on a pointer into the capability area.  (The decrement
   of a test that fails is left out: MaxHops is not read again.)  Variants: one
   hop fewer, and one more. *)
LoopsOnOneShort == capPtr >= FirstSlot /\ maxHops > 1
LoopsOnUnderflow == capPtr >= FirstSlot /\ maxHops >= 0
LoopsOn == capPtr >= FirstSlot /\ maxHops > 0

Found ==
  /\ pc = "walk" /\ LoopsOn
  /\ cfg.isPcie[capPtr]
  /\ maxHops' = maxHops - 1
  /\ visited' = visited \cup {capPtr}
  /\ result' = TRUE
  /\ pc' = "done"
  /\ UNCHANGED <<cfg, capPtr>>

(* The next capability.  Variant: without counting it. *)
HopForgetsBudget ==
  /\ pc = "walk" /\ LoopsOn
  /\ ~cfg.isPcie[capPtr]
  /\ visited' = visited \cup {capPtr}
  /\ capPtr' = cfg.next[capPtr]
  /\ UNCHANGED <<cfg, pc, maxHops, result>>

Hop ==
  /\ pc = "walk" /\ LoopsOn
  /\ ~cfg.isPcie[capPtr]
  /\ maxHops' = maxHops - 1
  /\ visited' = visited \cup {capPtr}
  /\ capPtr' = cfg.next[capPtr]
  /\ UNCHANGED <<cfg, pc, result>>

GiveUp ==
  /\ pc = "walk" /\ ~LoopsOn
  /\ pc' = "done"
  /\ UNCHANGED <<cfg, capPtr, maxHops, result, visited>>

Next == ReadStatus \/ Found \/ Hop \/ GiveUp

Spec == Init /\ [][Next]_vars
(* The processor goes on executing the function until it returns. *)
FairSpec == Spec /\ WF_vars(Next)

-----------------------------------------------------------------------------
(* Every variable keeps its type; the loop body never runs on a spent budget,
   and only capability slots are ever read (a read below 0x40 would take the
   header for a capability). *)
TypeOK ==
  /\ cfg \in ConfigSpace
  /\ pc \in {"status", "walk", "done"}
  /\ capPtr \in Pointers
  /\ maxHops \in 0 .. HopLimit
  /\ result \in BOOLEAN
  /\ visited \in SUBSET Slots

(* S holds every capability of the list: the first one, and with each the
   one it points to.  The list itself is the smallest such set. *)
ClosedUnderNext(S) ==
  /\ cfg.first \in Slots => cfg.first \in S
  /\ \A s \in S : cfg.next[s] \in Slots => cfg.next[s] \in S

(* A PCI Express capability is on the list: every set that holds the list
   holds one. *)
PcieOnList ==
  /\ cfg.capList
  /\ \A S \in SUBSET Slots : ClosedUnderNext(S) => \E s \in S : cfg.isPcie[s]

(* IsPcieDevice answers TRUE exactly for the functions whose capability list
   holds a PCI Express capability, for every list: the hop budget of the
   loop ends the walk of a cyclic list but never cuts short a list that still
   has something to show. *)
AnswerIsExact == pc = "done" => (result <=> PcieOnList)

(* The walk returns on every list, cyclic ones included. *)
Returns == <>(pc = "done")
=============================================================================

---------------------------- MODULE PciInventory ----------------------------
(***************************************************************************)
(* What the tree of PciTree.c is for: on a machine whose firmware has      *)
(* numbered the buses, "pcitree" and "all" list every function of every    *)
(* segment once, in depth-first order, each with the number of bridges     *)
(* above it.  A function whose node could not be allocated is missing, and *)
(* so is everything behind it, but nothing else.                           *)
(*                                                                         *)
(* A function is known by its path: the position of its segment in the     *)
(* table, then the place (device and function) of each bridge on the way   *)
(* down, then its own place.  Depth-first order is the lexicographic order *)
(* of the paths.                                                           *)
(***************************************************************************)
EXTENDS PciConfigAccess

CONSTANTS LastBus, LastFun, Platforms

VARIABLES
  hw, table,  \* the machine: its functions, and the segment table
  lost,       \* the functions there was no memory for
  listing,    \* what has been listed so far
  phase       \* "scan", "report" or "closed"

vars == <<hw, table, lost, listing, phase>>

Starts ==
  IF table = <<>> THEN <<[Seg |-> 0, StartBus |-> 0]>> ELSE table

(* A function other than 0 exists only on a multi-function device. *)
Exists(l) ==
  /\ HasRoute(table, l.Seg, 0)
  /\ l.Fun # 0 =>
       LET first == [l EXCEPT !.Fun = 0]
       IN first \in DOMAIN hw /\ hw[first].multi

Functions == {l \in DOMAIN hw : Exists(l)}
Bridges   == {l \in Functions : hw[l].bridge}

Place(l) == l.Dev * (LastFun + 1) + l.Fun

(* The path of bus b of segment s, given those of the buses below; <<>> for a
   bus nothing leads to. *)
StartsAt(s, b) == {i \in DOMAIN Starts : Starts[i].Seg = s /\ Starts[i].StartBus = b}

BridgesTo(path, s, b) ==
  {l \in Bridges \ lost : /\ l.Seg = s /\ l.Bus < b
                          /\ hw[l].secondary = b
                          /\ path[l.Bus] # <<>>}

PathOver(path, l) == Append(path[l.Bus], Place(l))

NextPath(path, s, b) ==
  IF StartsAt(s, b) # {} THEN <<CHOOSE i \in StartsAt(s, b) : TRUE>>
  ELSE IF BridgesTo(path, s, b) # {}
         THEN PathOver(path, CHOOSE l \in BridgesTo(path, s, b) : TRUE)
         ELSE <<>>

BusPath(s) ==
  LET path[b \in 0 .. LastBus] == NextPath(path, s, b)
  IN path

Path(l) == Append(BusPath(l.Seg)[l.Bus], Place(l))

Listed == {l \in Functions \ lost : BusPath(l.Seg)[l.Bus] # <<>>}

Entry(l) ==
  [Loc |-> l, IsPcie |-> hw[l].pcie, IsBridge |-> hw[l].bridge,
   Depth |-> Len(Path(l)) - 2]

Precedes(p, q) ==
  \E i \in 1 .. Len(q) :
    /\ \A j \in 1 .. i - 1 : j <= Len(p) /\ p[j] = q[j]
    /\ i > Len(p) \/ p[i] < q[i]

(* The firmware has numbered the buses: every bridge leads to a bus of its
   own above the one it is on, which is the first bus of no segment. *)
Numbered ==
  /\ \A i, j \in DOMAIN Starts :
       i # j => <<Starts[i].Seg, Starts[i].StartBus>> # <<Starts[j].Seg, Starts[j].StartBus>>
  /\ \A l \in Bridges :
       /\ hw[l].secondary > l.Bus
       /\ \A i \in DOMAIN Starts : <<Starts[i].Seg, Starts[i].StartBus>> # <<l.Seg, hw[l].secondary>>
       /\ \A m \in Bridges : m.Seg = l.Seg /\ hw[m].secondary = hw[l].secondary => m = l

-----------------------------------------------------------------------------
Init ==
  /\ \E p \in Platforms : hw = p.hw /\ table = p.table
  /\ lost = {} /\ listing = <<>> /\ phase = "scan"

Scan ==
  /\ phase = "scan"
  /\ lost' \in SUBSET Functions
  /\ phase' = "report"
  /\ UNCHANGED <<hw, table, listing>>

Unlisted == Listed \ {listing[i].Loc : i \in DOMAIN listing}

Report ==
  /\ phase = "report"
  /\ \E l \in Unlisted :
       /\ \A m \in Unlisted \ {l} : Precedes(Path(l), Path(m))
       /\ listing' = Append(listing, Entry(l))
  /\ UNCHANGED <<hw, table, lost, phase>>

(* A single device is shown without the listing. *)
Close ==
  /\ phase = "report"
  /\ listing = <<>> \/ Unlisted = {}
  /\ phase' = "closed"
  /\ UNCHANGED <<hw, table, lost, listing>>

Next == Scan \/ Report \/ Close

Spec == Init /\ [][Next]_vars
=============================================================================

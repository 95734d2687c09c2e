--------------------------- MODULE MCPciIdNames ---------------------------
(***************************************************************************)
(* Functions for PciIdNames: every class code whose bytes a row names or   *)
(* no row names, and every vendor of the table with its neighbours.        *)
(***************************************************************************)
EXTENDS PciIdNames

Ids == {VendorNames[k] : k \in DOMAIN VendorNames}

Device(s, v, revision, interface, sub, base) ==
  [Seg |-> s, vendor |-> v, class |-> <<revision, interface, sub, base>>]

\* Subclass 19 is in no row; revisions are like a base class.
Classes ==
  {Device(0, 32902, 6, interface, sub, base) :
     interface \in {0, 1, 16, 32, 255}, sub \in (0 .. 11) \cup {16, 17, 18, 19, 32, 255},
     base \in (0 .. 18) \cup {255}}

Vendors ==
  {Device(s, v, 1, 0, 0, 2) :
     s \in {0, 1}, v \in Ids \cup {v - 1 : v \in Ids} \cup {v + 1 : v \in Ids} \cup {0, 65535}}

Functions == Classes \cup Vendors

SegmentTables ==
  {<<>>, <<[Seg |-> 1, EcamBase |-> BusSize, StartBus |-> 0, EndBus |-> 255]>>}
=============================================================================

--------------------------- MODULE MCRegisterDump ---------------------------
(***************************************************************************)
(* Functions for RegisterDump: an endpoint and a bridge, PCI Express or    *)
(* not, in segments 0 and 1, with and without an ECAM base; one has a      *)
(* 64-bit BAR at 4 GiB, so that bit 0 of its upper half is set.            *)
(***************************************************************************)
EXTENDS RegisterDump

Devices ==
  {[Seg |-> 0, bridge |-> FALSE, pcie |-> TRUE,  ioBars |-> {16, 36}, wide |-> {}],
   [Seg |-> 1, bridge |-> TRUE,  pcie |-> TRUE,  ioBars |-> {20}, wide |-> {16}],
   [Seg |-> 1, bridge |-> FALSE, pcie |-> FALSE, ioBars |-> {}, wide |-> {24}],
   [Seg |-> 0, bridge |-> TRUE,  pcie |-> FALSE, ioBars |-> BarOffsets, wide |-> {}]}

Ecam(s, base) == [Seg |-> s, EcamBase |-> base, StartBus |-> 0, EndBus |-> 255]

\* No MCFG; both segments; segment 0 without a base.
SegmentTables ==
  {<<>>, <<Ecam(0, BusSize), Ecam(1, 256 * BusSize)>>, <<Ecam(0, 0), Ecam(1, BusSize)>>}
=============================================================================

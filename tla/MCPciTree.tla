----------------------------- MODULE MCPciTree -----------------------------
(***************************************************************************)
(* Machines for PciTree: two segments, three buses, two devices of two     *)
(* functions each.                                                         *)
(***************************************************************************)
EXTENDS PciTree, TLC

At(s, b, d, f) == [Seg |-> s, Bus |-> b, Dev |-> d, Fun |-> f]

Endpoint(m)  == [multi |-> m, bridge |-> FALSE, secondary |-> 0, pcie |-> TRUE]
Bridge(m, b) == [multi |-> m, bridge |-> TRUE, secondary |-> b, pcie |-> FALSE]

Absent == [multi |-> FALSE, bridge |-> FALSE, secondary |-> LastBus, pcie |-> FALSE]

(* The machines whose functions are chosen from choice[l] for each l; Absent
   is no function. *)
Machines(choice) ==
  LET L   == DOMAIN choice
      all == {m \in [L -> UNION {choice[l] : l \in L}] : \A l \in L : m[l] \in choice[l]}
  IN {[l \in {k \in L : m[k] # Absent} |-> m[l]] : m \in all}

\* Segment 0: two functions of device 0 and one of device 1 on bus 0, one on
\* bus 1 and one on bus 2.
Board ==
  Machines(   At(0, 0, 0, 0) :> {Absent, Endpoint(TRUE), Bridge(TRUE, 1), Bridge(FALSE, 2)}
           @@ At(0, 0, 0, 1) :> {Absent, Bridge(FALSE, 2)}
           @@ At(0, 0, 1, 0) :> {Absent, Endpoint(FALSE), Bridge(FALSE, 1)}
           @@ At(0, 1, 1, 0) :> {Endpoint(FALSE), Bridge(FALSE, 2)}
           @@ At(0, 2, 0, 0) :> {Endpoint(FALSE)})

\* Segment 1: a bridge on bus 1 with a device behind it.
Annex == At(1, 1, 1, 0) :> Bridge(FALSE, 2) @@ At(1, 2, 0, 0) :> Endpoint(FALSE)

Ecam(s, b, first) == [Seg |-> s, EcamBase |-> b, StartBus |-> first, EndBus |-> 2]

\* No MCFG; segment 0 in two ranges; both segments; segment 1 first; segment
\* 1 empty from bus 0, and without a base.
Tables ==
  {<<>>,
   <<Ecam(0, 8, 0), Ecam(0, 8, 2)>>,
   <<Ecam(0, 8, 0), Ecam(1, 9, 1)>>,
   <<Ecam(1, 9, 1), Ecam(0, 8, 0)>>,
   <<Ecam(1, 9, 0), Ecam(0, 8, 0)>>,
   <<Ecam(0, 8, 0), Ecam(1, 0, 1)>>}

Candidates == {[hw |-> b @@ Annex, table |-> t] : b \in Board, t \in Tables}

\* On machines whose firmware has numbered the buses.
NumberedSpec == FairSpec /\ Inventory!Numbered

\* Bridges no firmware has set up: secondary bus 0, a bus that leads back, two
\* bridges to one bus, each function lists again and again.
Tangles ==
  {At(0, 0, 0, 0) :> Bridge(FALSE, 0),
   At(0, 0, 1, 0) :> Endpoint(FALSE) @@ At(0, 0, 0, 0) :> Bridge(FALSE, 0),
   At(0, 0, 0, 0) :> Bridge(FALSE, 1) @@ At(0, 1, 0, 0) :> Bridge(TRUE, 0)
     @@ At(0, 1, 0, 1) :> Endpoint(FALSE),
   At(0, 0, 0, 0) :> Bridge(TRUE, 1) @@ At(0, 0, 0, 1) :> Bridge(FALSE, 1)
     @@ At(0, 1, 0, 0) :> Endpoint(FALSE)}

TangledPlatforms == {[hw |-> b @@ a, table |-> t] : b \in Tangles, a \in {<<>>, Annex},
                     t \in {<<>>, <<Ecam(0, 8, 0), Ecam(0, 8, 0)>>, <<Ecam(0, 8, 0), Ecam(1, 9, 1)>>}}
=============================================================================

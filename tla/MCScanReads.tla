---------------------------- MODULE MCScanReads ----------------------------
(***************************************************************************)
(* Machines for ScanReads: bridges, endpoints and a multi-function device, *)
(* among them functions on the last bus, where reads of all ones lead.     *)
(***************************************************************************)
EXTENDS ScanReads, MCPciTree

Removable ==
  {At(0, 0, 0, 0) :> Endpoint(TRUE) @@ At(0, 0, 0, 1) :> Bridge(FALSE, 1)
     @@ At(0, 0, 1, 0) :> Endpoint(FALSE) @@ At(0, 1, 0, 0) :> Endpoint(FALSE),
   At(0, 0, 0, 0) :> Bridge(FALSE, 1) @@ At(0, 1, 1, 0) :> Bridge(FALSE, 2)
     @@ At(0, 2, 0, 0) :> Endpoint(FALSE),
   At(0, 0, 0, 0) :> Bridge(TRUE, 2) @@ At(0, 0, 0, 1) :> Endpoint(FALSE)
     @@ At(0, 0, 1, 0) :> Bridge(FALSE, 1) @@ At(0, 2, 0, 0) :> Endpoint(FALSE)}

OneSegment  == {[hw |-> m, table |-> <<>>] : m \in Removable}
TwoSegments == [hw |-> Annex @@ At(0, 0, 0, 0) :> Bridge(FALSE, 2) @@ At(0, 2, 1, 0) :> Endpoint(FALSE),
                table |-> <<Ecam(1, 9, 1), Ecam(0, 8, 0)>>]

\* With bridges that lead back among them.
SteadyPlatforms == TangledPlatforms \cup OneSegment \cup {TwoSegments}

RemovablePlatforms == OneSegment \cup {TwoSegments}
=============================================================================

-------------------------- MODULE PciConfigAccess --------------------------
(***************************************************************************)
(* The segment-aware configuration space accessors of PciConfigAccess.c,   *)
(* as operators on a segment table: which way a read goes, which address   *)
(* it uses, and (the hardware's part) which register answers there.        *)
(*                                                                         *)
(* A table is the array Table->Segments, a sequence of PCI_SEGMENT_INFO    *)
(* records; its length is Table->Count.  Addresses are the code's own      *)
(* numbers: a bus is 2^20 bytes of ECAM, a device 2^15, a function 2^12.   *)
(* The sum cannot wrap: a base is a physical address and a bus at most     *)
(* 255, far below 2^64.                                                    *)
(***************************************************************************)
EXTENDS Naturals, Sequences

BusSize    == 1048576    \* 1 << 20
DevSize    == 32768      \* 1 << 15
FunSize    == 4096       \* 1 << 12
LegacySize == 256        \* registers reachable through CF8/CFC

SegmentNumbers == 0 .. 65535   \* UINT16

Requests ==
  [Seg: SegmentNumbers, Bus: 0 .. 255, Dev: 0 .. 31, Fun: 0 .. 7,
   Register: 0 .. FunSize - 1]

PCI_SEGMENT_INFO ==
  [Seg: SegmentNumbers, EcamBase: Nat, StartBus: 0 .. 255, EndBus: 0 .. 255]

-----------------------------------------------------------------------------
EntriesFor(Table, Seg) == {i \in 1 .. Len(Table) : Table[i].Seg = Seg}

(* The base of the first entry of the segment; 0 if it has none.  The bus
   range of the entry plays no part. *)
FindEcamBaseForSegment(Table, Seg) ==
  LET hits == EntriesFor(Table, Seg)
  IN IF hits = {} THEN 0
     ELSE Table[CHOOSE i \in hits : \A j \in hits : i <= j].EcamBase

(* What Bus, Dev, Fun and Register add to the base.  Variant: the device is
   shifted by 14. *)
EcamOffsetNarrowDev(r) == r.Bus * BusSize + r.Dev * FunSize * 4 + r.Fun * FunSize
                          + r.Register
EcamOffset(r) == r.Bus * BusSize + r.Dev * DevSize + r.Fun * FunSize + r.Register

GetEcamAddress(Table, r) ==
  LET Base == FindEcamBaseForSegment(Table, r.Seg)
  IN IF Base = 0 THEN 0 ELSE Base + EcamOffset(r)

(* How a read is routed: CF8/CFC ports, ECAM, or not at all. *)
IsLegacy(Seg, Register) == Seg = 0 /\ Register < LegacySize

HasRoute(Table, Seg, Register) ==
  IsLegacy(Seg, Register) \/ FindEcamBaseForSegment(Table, Seg) # 0

-----------------------------------------------------------------------------
(* The hardware.  Host bridges decode the ECAM window of each entry of the
   MCFG table, from its first bus to its last; an address in no window is
   ordinary memory or nothing. *)
InWindow(e, a) ==
  e.EcamBase + e.StartBus * BusSize <= a /\ a < e.EcamBase + (e.EndBus + 1) * BusSize

Decode(e, a) ==
  LET off == a - e.EcamBase
  IN [Seg |-> e.Seg, Bus |-> off \div BusSize, Dev |-> (off \div DevSize) % 32,
      Fun |-> (off \div FunSize) % 8, Register |-> off % FunSize]

AllOnes == "allOnes"
Foreign == "foreign"

MmioRead(Windows, a) ==
  LET hits == {i \in 1 .. Len(Windows) : InWindow(Windows[i], a)}
  IN IF hits = {} THEN Foreign ELSE Decode(Windows[CHOOSE i \in hits : TRUE], a)

(* PciCfgRead8/16/32 with the given table on a machine with the given windows:
   the register whose contents come back, or all ones.  The three widths
   differ in the width of the answer alone. *)
PciCfgRead(Table, Windows, r) ==
  IF IsLegacy(r.Seg, r.Register) THEN r
  ELSE IF GetEcamAddress(Table, r) = 0 THEN AllOnes
  ELSE MmioRead(Windows, GetEcamAddress(Table, r))
=============================================================================

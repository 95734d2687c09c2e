--------------------------- MODULE MCSegmentTable ---------------------------
(***************************************************************************)
(* Firmwares for SegmentTable: up to three configuration tables, three     *)
(* tables in the XSDT and three windows, with lengths on both sides of     *)
(* every size the code compares or divides by.                             *)
(***************************************************************************)
EXTENDS SegmentTable, FiniteSets

MB == 1048576

Window(s, b, first, last) ==
  [Seg |-> s, EcamBase |-> b, StartBus |-> first, EndBus |-> last]

Low  == Window(0, 256 * MB, 0, 1)
Mid  == Window(0, 256 * MB, 2, 3)
High == Window(1, 512 * MB, 1, 2)
Clash == Window(2, 257 * MB, 0, 0)
NoBase == Window(1, 0, 0, 0)

McfgOf(entries, spare) ==
  [isMcfg |-> TRUE, entries |-> entries,
   Length |-> McfgHeaderSize + Len(entries) * McfgEntrySize + spare]

Short(length) == [isMcfg |-> TRUE, entries |-> <<>>, Length |-> length]
Other == [isMcfg |-> FALSE, entries |-> <<>>, Length |-> HeaderSize]

Mcfgs ==
  {Short(0), Short(35), Short(43), Short(44), Short(59)} \cup
  {McfgOf(e, spare) :
     e \in {<<Low>>, <<High>>, <<Low, Mid>>, <<High, Low>>, <<Mid, High, Low>>,
            <<Low, Clash>>, <<Low, NoBase>>},
     spare \in {0, 15}}

XsdtOf(tables, spare) ==
  [tables |-> tables, Length |-> HeaderSize + Len(tables) * XsdtEntrySize + spare]

AllXsdts ==
  {[tables |-> <<>>, Length |-> n] : n \in {0, 35, 36, 43}} \cup
  {XsdtOf(t, spare) :
     t \in {<<Other>>, <<Other, Other>>} \cup UNION {{<<m>>, <<Other, m>>, <<m, Short(44)>>,
            <<Other, m, McfgOf(<<High>>, 0)>>} : m \in Mcfgs},
     spare \in {0, 7}}

Config(acpi, has, x) == [isAcpi |-> acpi, hasXsdt |-> has, xsdt |-> x]

Small == XsdtOf(<<McfgOf(<<Low>>, 0)>>, 0)

AllFirmwares ==
  {<<>>, <<Config(FALSE, TRUE, Small)>>, <<Config(TRUE, FALSE, Small)>>,
   <<Config(TRUE, FALSE, Small), Config(TRUE, TRUE, Small)>>}
  \cup {<<Config(TRUE, TRUE, x)>> : x \in AllXsdts}
  \cup {<<Config(FALSE, TRUE, Small), Config(TRUE, TRUE, x), Config(TRUE, TRUE, Small)>> : x \in AllXsdts}

\* Every segment and bus of the windows and one beyond, the lowest, an inner and
\* the highest device and function, and both sides of the ports' reach.
AllReads ==
  [Seg: 0 .. 2, Bus: 0 .. 4, Dev: {0, 3, 31}, Fun: {0, 5, 7}, Register: {0, 255, 256, 4095}]
=============================================================================

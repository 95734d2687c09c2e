----------------------------- MODULE MCPciUtil -----------------------------
(***************************************************************************)
(* Whole runs of PciUtil: command lines of every mode and of every way to  *)
(* fail, firmwares without a table, with one segment and with two, and     *)
(* small machines.                                                         *)
(***************************************************************************)
EXTENDS PciUtil, TLC, Integers

Max64 == 1048575

At(s, b, d, f) == [Seg |-> s, Bus |-> b, Dev |-> d, Fun |-> f]

Device(multi, bridge, b, pcie) ==
  [multi |-> multi, bridge |-> bridge, secondary |-> b, pcie |-> pcie]

\* An endpoint beside a bridge with a device behind it; the same in segment 1
\* with one more in segment 0; nothing at all.
Boards ==
  {At(0, 0, 0, 0) :> Device(TRUE, FALSE, 0, TRUE) @@ At(0, 0, 0, 1) :> Device(FALSE, TRUE, 1, FALSE)
     @@ At(0, 1, 0, 0) :> Device(FALSE, FALSE, 0, TRUE),
   At(0, 0, 0, 0) :> Device(FALSE, FALSE, 0, FALSE) @@ At(1, 0, 0, 0) :> Device(FALSE, TRUE, 1, TRUE)
     @@ At(1, 1, 0, 0) :> Device(FALSE, FALSE, 0, TRUE),
   <<>>}

Ecam(s) == [Seg |-> s, EcamBase |-> (s + 1) * 256 * BusSize, StartBus |-> 0, EndBus |-> 1]

Other  == [isMcfg |-> FALSE, Length |-> 36, entries |-> <<>>]
Mcfg(entries) == [isMcfg |-> TRUE, Length |-> 44 + 16 * Len(entries), entries |-> entries]

Acpi(entries) ==
  << [isAcpi |-> FALSE, hasXsdt |-> FALSE, xsdt |-> [Length |-> 36, tables |-> <<>>]],
     [isAcpi |-> TRUE, hasXsdt |-> TRUE,
      xsdt |-> [Length |-> 52, tables |-> <<Other, Mcfg(entries)>>]] >>

Boots == {<<>>, Acpi(<<Ecam(0)>>), Acpi(<<Ecam(0), Ecam(1)>>), Acpi(<<Ecam(1), Ecam(0)>>)}

Line(s, h, r, p) == [status |-> s, help |-> h, x |-> TRUE, r |-> r, params |-> p]

\* The lexemes of CliParser: colon, dot, "all", "pcitree".
Address(s, b, d, f) == <<s, -2, b, -2, d, -3, f>>
All     == <<-5>>
Pcitree == <<-6>>

Lines ==
  {Line("success", FALSE, << <<8>> >>, <<p>>) :
     p \in {All, Pcitree, Address(0, 1, 0, 0), Address(1, 0, 0, 0),
            Address(1, 1, 31, 7), Address(0, 0, 0, 8), Address(65536, 0, 0, 0)}}
  \cup {Line("success", FALSE, <<>>, <<p>>) : p \in {All, Address(0, 0, 0, 1)}}
  \cup {Line("success", FALSE, <<>>, <<>>), Line("problem", FALSE, <<>>, <<>>),
        Line("success", TRUE, << <<8>> >>, <<All>>)}
=============================================================================

# A verification of PciUtil

PciUtil is a UEFI Shell application: it finds the PCI segments of the machine in
the ACPI tables, scans their buses into a tree, and prints the tree, the
configuration space of devices, or one device. These modules model its logic in
TLA+, check it with TLC on small machines, and prove its central properties with
TLAPS for machines of any size.

## Inventory

The program is one thread under the firmware. What makes it hard is not
scheduling but its inputs: whatever the hardware and the firmware's tables
contain, the program must return, keep its memory in order and show what is
there. And any allocation may fail.

| part | source | state | operations |
|---|---|---|---|
| Segment table | `PciConfigAccess.c` | `Segments`, `Count` | `BuildSegmentTable`, `FreeSegmentTable` |
| Configuration reads | `PciConfigAccess.c` | none; reads the segment table | `FindEcamBaseForSegment`, `GetEcamAddress`, `PciCfgRead8/16/32` |
| Capability test | `PciTree.c` | locals | `IsPcieDevice` |
| Device tree | `PciTree.c` | `PCI_DEVICE_LIST`: `NODE`s linked by `FirstChild` and `NextSibling` | `ScanPciBus` and `ScanAllSegments` build it, `PciTreeWalk` calls a visitor on it, `FreeDeviceList` releases it |
| Register and BAR dump | `RegisterDump.c` | one buffer | `DisplayDeviceName`, `DumpDeviceRegisters`, `DumpBar` |
| Command line | `CliParser.c` | `PCI_CLI_OPTIONS`, the shell's package | `ParseArguments` |
| ID names | `PciIdNames.c` | none | `PciVendorName`, `PciClassName`, `PciTypeName` |
| Entry point | `PciUtil.c` | the three structures above | parse, build, scan, show, free the list, free the table |

They interact by calls only: the scan reads configuration space through the
segment table, the capability test is called for every function found, the walk
calls a visitor that prints with the dump functions, and the entry point owns
every structure. The hazards of each part, with the line where they bite and
the property that covers them, are listed in `PROJECT.json`.

What makes each part correct:

- **Segment table.** No loop leaves the table it is in; the result is the
  announced table or an empty one; the array is freed.
- **Configuration reads.** A read reaches the register and function it names.
- **Capability test.** It is exact on every list and returns on cyclic ones.
- **Device tree.** It stays a tree on every machine, also on one that loses devices
  during the scan; no node is lost or held twice; the walk lists each function once,
  depth first; every node is freed once and none is read after that. On a machine whose
  bridges lead up the scan ends, and never recurses deeper than there are buses; one that leads back
  breaks it (Findings).
- **Register dump.** Each register once, within the buffer; the buffer is freed.
- **Command line.** Every form of the usage is accepted, and nothing else of what is looked at (Findings says
  what is not); the options are those the arguments say; the package is freed on every way out.
- **ID names.** No entry hides behind an earlier one; the parts of one line agree.
- **Entry point.** A command line leads to exactly what it asks for, through the
  table the firmware announces, and whatever way the program returns it holds nothing.

## Modules

    PciConfigAccess  <-  SegmentTable  <-  SegmentTableProofs, MCSegmentTable
                     <-  PciTree       <-  PciTreeProofs, MCPciTree
                     <-  PciInventory  (abstract; PciTree implements it)
                     <-  RegisterDump  <-  RegisterDumpProofs, MCRegisterDump
                     <-  PciIdNames    <-  PciIdNamesProofs, MCPciIdNames
    CapabilityList   <-  CapabilityListProofs
    CliParser        <-  CliParserProofs, MCCliParser
    PciTree          <-  ScanReads     <-  MCScanReads   (refines PciTree)
    ScanReads, PciTreeProofs  <-  ScanReadsProofs
    CliParser, SegmentTable, PciTree  <-  PciUtil  <-  PciUtilProofs, MCPciUtil   (the whole program)
    CliParserProofs, SegmentTableProofs, PciTreeProofs  <-  PciUtilProofs

**CapabilityList** is `IsPcieDevice`. One action per turn of the loop (`Hop`,
`Found`, `GiveUp`); the capability area is any function from slots to
capabilities, so cycles and pointers into the header are among them. An absent
function's all-ones answer is one of these lists.

**PciConfigAccess** holds the reads as operators on a segment table, because
they change no state. `InWindow`, `Decode` and `MmioRead` are the hardware's part:
which register answers at an ECAM address.

**SegmentTable** is `BuildSegmentTable` and `FreeSegmentTable`. The firmware is a
sequence of configuration tables, each with an XSDT whose `Length` is free and
whose sequence of tables is as long as that length allows. A step is one turn of a loop
or one check. The two GUIDs the code compares with are one GUID in EDK II
(`gEfiAcpiTableGuid` and `gEfiAcpi20TableGuid`), so an entry either matches or
does not. The array is a sequence, NULL the empty one. Lengths and sizes are
the code's own numbers, arithmetic is modulo `WordModulus`.

**PciTree** is the rest of `PciTree.c`, in the order `PciUtilEntryPoint` runs it.
Recursive functions have explicit stacks: `scans`, `walks` and `frees` are the
activations of `ScanPciBus`, `PciTreeWalk` and `FreeSubtree`, with their locals. A
`NODE*` is a position in `heap`, which only grows; freed nodes are
remembered in `freed`, so a use after free is visible. One function of the
scan is one step (`SkipAbsent`, `NoMemory`, `AddNode`), the return to a bridge
(`*SubtreeHead = Head`) is another, and `LastSibling` moves one node per step. The
visitor is abstracted to the record of its calls, `report`. `NoMemory` is
possible at every node: whether `AllocateZeroPool` succeeds is not the
program's choice.

**RegisterDump** shows one function, as `VisitAllDevice` and the single-device case of
`PciUtilEntryPoint` do: `DumpDeviceRegisters` (one step per turn of its filling loops,
the same actions for all three widths), `DumpRegisterTable` (one step per row) and
`DumpBar` (one step per line). The array is a function on its bytes, so that a
mismatch between the width it is filled in and the width it is printed in would show; a byte is
named by the register it was read from. Each cell printed is recorded with the sum of
its row and column labels. `ReadType` is 8, 16 or 32, as the parser guarantees.

**PciInventory** says what all this is for: `pcitree` and `all` list every function
of every segment once, in depth-first order, with the number of bridges
above it; a function without memory for its node is missing with what is
behind it, and nothing else is. It knows no heap, no links and no recursion:
depth-first order is the lexicographic order of paths. `PciTree!Inventory`
instantiates it under a refinement mapping: `listing` is read off `report`,
`phase` off `pc`, and `lost` becomes visible when the scan is over.

**ScanReads** is the scan of `PciTree` register by register: each read of the function
loop (vendor ID, multi-function bit, header type, capability list, secondary bus)
and `CreateNode` is a step, `probe` holds the locals they fill, and between any two
of them `Remove` may take a device away, whose registers then read all ones. It EXTENDS `PciTree`
and takes the other steps from it. Without `Remove` it implements `PciTree` under a
refinement mapping (`Atomic`): of the activations of `ScanPciBus` the mapping undoes
what was read of a function before its node is made, and has the bus behind a bridge begun with it.

**CliParser** is `ParseArguments` with `ParseBdf`, `ParseHexField` and
`ParseReadType`. The parameters are what the shell library found; a text is a sequence of
lexemes, in which a run of digits is the number it denotes. So `:` and `.` keep
their places, and values on both sides of each limit are one lexeme. `Convert` is
`StrHexToUint64S` and `StrDecimalToUint64S`, which saturate. One field of an
address is one step, the options being written field by field as in the code, and
`held` is what the shell library allocated. `Leftovers` is what the stack may hold
before `ZeroMem`.

**PciIdNames** is the lookups of `PciIdNames.c` on the tables of the source and
`DisplayDeviceName`, which makes three reads for one line. A step is one turn of a
lookup's loop. `PciClassName (...)` and `PciTypeName (...)` are arguments of one
call, which C evaluates in any order; so does the model.

**PciUtil** is `PciUtilEntryPoint`, composed of instances of `CliParser`,
`SegmentTable` and `PciTree`; `step` says which of them runs, `Table!View` is the
table the scan reads through, and `shown` records the calls by which `VisitAllDevice`,
`VisitTreeDevice` and the single-device case show a function.

Definitions that end in a word such as `OneShort` or `InFront` are variants: what
a plausible bug would make of the definition after them. They are used only to
show that the properties notice (the "mutants" of `PROJECT.json`).

## Runs

| run | instance | shows |
|---|---|---|
| `capability_list` | 4 slots, 100 000 lists | `IsPcieDevice` is exact and returns |
| `tree_numbered` | 176 machines of 2 segments, 3 buses, 2 devices, 2 functions, and 6 segment tables | scan and walk implement `PciInventory`; the recursion is no deeper than the number of buses; the program returns |
| `leads_back` | 24 machines whose bridges lead to bus 0, to their own bus, to one bus twice; overlapping segments | a violation: a bus is scanned inside its own scan |
| `register_dump` | 4 functions, 3 segment tables, all arguments; configuration space of 320 bytes | each register is shown once at its place, within the array, which is given back; the BARs for `all`; the dump returns |
| `single_bridge` | the same as `register_dump` | a violation: a bridge shown as a single device has no windows, see Findings |
| `wide_bar` | the same | a violation: half of a 64-bit BAR shown as I/O space |
| `segment_table` | 324 firmwares | the search stays inside the tables, the result is whole or empty, reads reach their register; that the array is freed is part of `whole_program` |
| `hot_removal` | 4 machines of up to 4 functions, any devices removed at any read | the tree survives, what is left is listed, nodes say what their registers say, the scan returns |
| `reads_refine_scan` | the machines of `leads_back` and of `hot_removal`, nothing removed | the scan read by read implements `PciTree`; as far as six nodes reach, the tree stays a tree, is walked in order and is freed exactly once, also on tangled machines |
| `command_line` | every flag, width and mode; about 1300 texts | of what is looked at, exactly the forms of the usage are accepted, with their options; the package is freed |
| `id_names` | 1800 class codes, 57 vendor IDs, reachable or not | the best row is the one found; the parts of the line agree |
| `whole_program` | 12 command lines, 4 firmwares, 3 machines, allocations failing anywhere | what is asked for is shown, in full and once; nothing is held at the end; the program returns |

Bounds, and why they are enough:

- *Capability list*: four slots hold a list, a list with a cycle behind a tail, a
  self-loop, a pointer into the header. The budget equals the number of slots, as in
  the code (48 slots from 0x40 to 0xFC).
- *Numbered machines*: three buses give depth 2, a bridge beside an endpoint, a
  bridge on function 1, two bridges on one bus. `DepthModulus` is 3, exactly the
  number of levels, as 256 is for the code. The pool holds more nodes than any
  of the machines has functions; allocations fail at any of them.
- *Tangled machines*: a scan on them ends only when memory or the stack does, so the pool is
  the bound (6 nodes): enough to go round the longest loop (two buses)
  more than once. The safety properties are about every state up to there, and are proved for pools
  of any size. That such a scan returns is not claimed: it would, in a model with a small pool and an endless stack,
  and say nothing about the program.
- *Firmwares*: lengths on both sides of 36, 44 and 60, and of each multiple of 8
  and 16 up to three entries; no, one and two ACPI entries; the MCFG absent, first,
  in the middle, twice; overlapping windows (where reads are not judged), two
  ranges of one segment, an entry with base 0. Addresses and shifts are the code's
  own numbers. `WordModulus` is 4096: all that matters is that a wrapped
  count exceeds every table.
- *Dump*: the legacy space has the code's 256 bytes, the extended space 64 more
  instead of 3840: four rows after the boundary are like all others. The
  theorems are about every size.

- *Removal*: three buses, so that all ones (`LastBus`, 0xFF in the code) is a bus of the machine, and in
  two machines holds a function: a scan that follows all ones finds something. The
  pool (8 nodes) is larger than the machines, and the scans of the last bus that a
  vanishing bridge starts are bounded by the devices that vanish.
- *Command lines*: for each field the values 0, its maximum, one more, one of which only the low
  bits fit, and one that does not fit 64 bits (`MaxUint64` is 2^20 - 1, all
  that matters being that it exceeds every field); a local and a full address with each
  lexeme replaced, removed from the end, or one added; all texts of up to 5
  lexemes of four kinds.
- *Class codes*: every base class of the table and two beside it, every subclass that a row of any class
  names and others, every interface that a row names and others. No row distinguishes more.
- *Whole program*: every mode and every way out of the parser; firmwares without a table, with one segment,
  with two in either order; machines with a bridge, with a second segment, and empty.

`CHECK_DEADLOCK FALSE` stands in every configuration because the program ends.

Fairness is weak fairness of the whole next-state relation: one thread goes on
executing. In `ScanReads` it is that of the program's own steps alone
(`WF(Program)`): devices go or stay as they please. Nothing is assumed of which
allocation succeeds.

## Proofs

- `CapabilityListProofs`: `TypeCorrect` and `AnswerCorrect`, for every number of slots and
  every budget no smaller than it. The invariant behind it says that the slots read so far are a
  prefix of the list without a PCI Express capability, that their number plus
  the budget is the initial budget, and so that a spent budget means that every slot was read.
- `PciTreeProofs`: `TypeCorrect` and `LinksForwardCorrect`, for every geometry, pool and
  set of machines. `LinksForward` alone is not inductive: that a link goes
  forward when it is made needs to know that the chain's tail is older than
  the node now made, that the node an activation hangs its chain on (`Out`) is older than the
  chain, and that the segment being scanned is newer than all before. `ShapeInv`
  adds this (`FramesOK` for the stack of `ScanPciBus`, `ListOK` for the locals of
  `ScanAllSegments`); TLC checked it on both sets of machines before it was proved.
  `ShallowRecursionCorrect` and `NoScanWithinItselfCorrect` have the hypothesis `BridgesLeadUp`, which is weaker than
  `Inventory!Numbered`: the open activations scan ever higher buses (`DepthOK`), so no bus is among them twice and there are no more
  of them than bus numbers. A function is only scanned if function 0 has shown the multi-function bit, so that
  nothing is asked of registers no read reaches.
- `PciTreeProofs`, its second part: `SingleHolderCorrect`, `VisitsInOrderCorrect`,
  `NothingDanglingCorrect` and `NothingLeakedCorrect`, on the same assumptions.
  What holds a node is a link of another, the root, or a local of an open activation; each step
  of the scan makes one pointer or moves one from a holder to another, and `HolderInv` says that
  it was the only one. The walk is in order because the nodes that are still to be visited are
  exactly those behind what the activations hold, the deepest activation's before its caller's. The
  release gives back a node only after both of its links have been read into locals, so the nodes
  still allocated are exactly those that hang on the activations of `FreeSubtree` (`FreeInv`).
- `PciTreeProofs`, its third part: `ListsInventoryCorrect`, the refinement of `PciInventory`: on every machine with numbered
  buses (`Inventory!Numbered`), whatever of memory there is, scan and walk list each function once, in
  depth-first order, at its depth. It needs three invariants besides those above. `CoverOK` says what the
  scan has done: each function that the loops have passed has a node or was lost, and the bus behind each bridge that has a
  node is scanned or is being scanned. `RoutesOK` says where: each activation stands at a path, all that was seen has a
  path before it, and nodes are made in the order of their paths. `LevelOK` says that a link to a sibling
  keeps the length of the path and one to a child adds 1, so that the depth the walk counts (`WalksLevel`) is
  the one of the inventory. Together they are `ListInv`. The paths are a recursive function on bus numbers; that it
  exists (`PathEquation`) is shown by a least bus at which it would not, as no installed prover can instantiate an
  induction theorem. `MetReached` and `Reached` are the two inclusions between the functions that have nodes and those the inventory
  lists. Under the refinement mapping the last step of the scan is `Scan`, `Visit` is `Report`, the return of the first activation of
  the walk and `SkipWalk` are `Close`, and everything else stutters.
- `ScanReadsProofs`: `ReadsTypeCorrect`, `TreeSurvivesCorrect` and `FlagsOfFunctionCorrect` for machines that
  lose devices at any read, and `ScansAsIfAtomicCorrect`, the refinement of `PciTree`, for machines that
  keep them. The first three rest on lemmas of `PciTreeProofs`: the only steps
  on the list that are not literally those of `PciTree` add a node or step over a function, and what
  the registers answered does not matter for the links (`ReadsInv`). `FlagsInv` adds that what was read of a function
  that is still there is what its registers say. For the refinement, the read of an absent function's vendor ID is `SkipAbsent`,
  `Create` is `AddNode`, `CreateFails` is `NoMemory`, every other read is a stutter, and the rest of the program is its
  own image. `LoopShown` is what this needs beyond `FlagsInv`: an activation that has not read the multi-function
  bit stands at function 0 with a bound of 1, and only the topmost activation is in the middle of a function.
  TLC checked `ReadsInv`, `FlagsInv` and `SteadyInv` on the machines of the runs before they were proved.
  `RemainingListedCorrect` has no hypothesis on the numbering: a path only counts bridges that lead to a higher bus, and on
  a tangled machine the scan goes through those as well. `RemainInv` is `CoverOK` of the functions that are left, with the
  function in the middle of which the scan stands (`ReadSoFar`); a removal only takes obligations away (`GoneOwesNothing`). The step
  that needs care is the loop's bound: a function behind function 0 is passed over only if the
  multi-function bit was read as clear, which a device that is left says of itself.
- `SegmentTableProofs`: `TypeCorrect`, `WithinTablesCorrect`, `NeverPartialCorrect`,
  `BuildsTableCorrect` and `ReadsReachFunctionCorrect`, for every firmware. `IInv` says how far
  the search has come (everything before `index` is no match; the count equals the
  number of entries, which needs the length checks) and that the array agrees
  with the MCFG up to `index`. The last theorem rests on the arithmetic of ECAM
  addresses (`DecodesOffset`: the four fields do not overlap) and on windows
  being disjoint (`WindowAnswers`).
- `RegisterDumpProofs`: `TypeCorrect`, `WithinBufferCorrect`, `ShowsRegistersCorrect` and
  `ShowsBarsCorrect`. `IInv` says how far the array agrees with the configuration space
  (`FillInv`), the cells with the array (`TableInv`, `CellsInv`) and the BAR lines with the header
  (`BarsInv`). `RowGeometry` holds the arithmetic: in each of the three layouts, 16
  bytes make a row, and the labels of a cell add up to the offset of its element. TLC checked `IInv` first.
- `CliParserProofs`: `TypeCorrect`, `NothingHeldCorrect`, `AcceptsUsageCorrect`, `UsageAccepted` and `OptionsAsSaidCorrect`,
  for every command line and
  every limit of the conversions that exceeds the fields. `IInv` adds where the package and the problem parameter are
  held (`HeldInv`) and that the rest of the text is a text (`CursorInv`).
  `FittingValue` is the step that needs care: what passes a field's check is not changed when it is narrowed.
  For the last three, `GrammarInv` says at each field that the command line is understood exactly if what is left of
  the address is a valid end of one, and which options have their final values by then. The attempt to prove them
  corrected the definition of the width in the specification: of several "-r", only the first one counts. `InUsage` is README.md's
  list of forms, word for word; `LookedAt` is what the code takes notice of; `AcceptsUsageCorrect` relates the two, and
  `UsageAccepted` is the half of it that holds of the whole command line. The other half does not; see Findings.
- `PciIdNamesProofs`: `TypeCorrect`, `NamesVendorCorrect`, `NamesClassBestCorrect` and `ReadsAgreeCorrect`, for
  every vendor ID, every class code and every segment table, whether or not the function can be reached.
  The name tables are those of the source, so a part of the argument is about their contents: of two rows for one class
  code the earlier is the narrower one (`ClassNamesOrdered`), shown block by block, a block being the rows of
  one base class. That is why the first row found is the best one. The invariant says that no row a lookup has passed is for
  the function, that the row it found is, and that the word behind the class name is that of the base class read.
- `PciUtilProofs`: `TypeCorrect` and `NothingHeldCorrect`, of the whole program. It instantiates the parts
  once more, with the proofs about them (`CliP`, `TableP`, `TreeP`): every step of the program is a step of one of them and
  a stutter of the others (`PartSteps`), so their invariants carry over, the assumptions of the
  parts being discharged from those of the whole. `OrderInv` says how they hand over: the list is
  untouched (`TreeBegin`) until the table is built, what is built is a table the tree's assumptions allow
  (`AnnouncedEntries`), and from then on the table stays and `FreeInv` of the tree holds, so that the end of the release
  is the end of every node. A return before the table is built leaves everything as it was.
- `PciUtilProofs`, its second part: `ShowsWhatIsAskedCorrect`, from the command line to what is shown, on every machine,
  under every firmware and for every command line. `ShowInv` says that nothing is shown before the list stands, and
  from then on what is shown is nothing yet, the single device, or one call for each entry of `report`. At
  the end of the showing `GrammarInv` of the parser gives the options (`Accepted`), `IInv` of `SegmentTableProofs` that the
  table is the announced one or none (`TableShown`), and `ListInv` of the tree that
  the report is the whole inventory in its order (`WholeListing`); that as many functions are shown as the inventory has follows
  because the report is a bijection (`Counting`). On a machine whose buses are not numbered the property does not say which
  functions "all" and "pcitree" show; `VisitsInOrderCorrect` does: those that have nodes, once each.

The assumptions are those of the modules: the geometry and `Platforms` are typed,
`HopLimit` is at least the number of slots, the configuration space is larger than 0x100 and a
multiple of 16, ACPI tables hold as many entries as their
length says, and the segments they announce have buses that exist (`FirmwareAssumption` of `PciUtil`: a byte cannot
say anything else). `ListsInventoryCorrect` and `ShowsWhatIsAskedCorrect` state one more, `DepthModulus > LastBus`: the depth is a
`UINT8` and counts to 256, and a bus number is at most 0xFF, so that the depth of numbered buses does not wrap.

Every invariant the runs check is proved, and so are both refinements. Only model-checked:

- the liveness properties, which need `ENABLED`.

## Findings

`single_bridge`: `RegisterDump.h:51` says that `DumpBar` prints "for bridges, the
I/O/Memory/Prefetchable windows"; `PciUtil.c:89` calls it with `IsBridge = FALSE` for every single
device. A bridge named on the command line is shown without its windows, and
with its registers 0x18 to 0x27, which are bus numbers and windows, as BAR2 to BAR5.

`wide_bar`: `DumpBar` takes each dword from 0x10 on for a BAR of its own. The upper half of a
64-bit BAR is one of them, and is shown as "BARn: ..., I/O Space" whenever its
bit 0 is set, as for a BAR at 4 GiB. The comment at `RegisterDump.c:247` reads that bit as "I/O
Space", and `RegisterDump.h:51` promises "the device's BARs".

`leads_back`: `PciTree.c:153` scans whatever bus the secondary bus register names, and
nothing says which buses are being scanned already. A bridge whose register leads back
(0 if no firmware has set it up) has its own bus scanned inside the scan of that bus, and so on without an end but that of
the pool or, much sooner, of the stack. `PciTree.h:69` promises "a NODE tree ... for every
device/function found", and a return. `NoScanWithinItselfCorrect` shows that bridges which lead back are the
only ones that do this.

One more disagreement is stated by a definition instead of a run (`LookedAt` of `CliParser`): `ParseArguments` looks at the first parameter and the first `-r`, and for `pcitree` at no
flag. `all pcitree -r 8`, `1:2.3 foo -r 8` and `pcitree -r 7 -x` are accepted, although
`README.md:12` and `CliParser.h:5` list no such form and `CliParser.h:41` has `PciParseError` for "a bad argument".
`AcceptsUsage` therefore speaks of what is looked at, and `command_line` has such lines among its own.

## Not modelled, and why

- *The stack of the firmware.* The model has no stack limit. `ShallowRecursionCorrect` proves that machines whose
  bridges lead up need no more of it than one activation for each bus number. On a machine whose bridges lead back, the real stack ends
  long before the pool does; what holds there (`LinksForward` and the others of `reads_refine_scan`) holds up to that point.
- *Removal while the tree is shown, and functions that appear.* `ScanReads` removes devices
  during the scan, where the answers steer the program. Later reads only change what
  is printed. A function that appears during the scan would be one of another machine.
- *Reads of a bus outside its segment's range.* The code does not compare `StartBus` and
  `EndBus`; such a read goes to whatever lies there. `ReadsReachFunction` does not judge
  it; in `PciTree` the machine may answer anything anywhere, so the tree's properties hold
  whatever it returns.
- *ACPI checksums and pointers to nowhere.* The code trusts the tables' addresses;
  so does the model.
- *Colours, wording, the values of windows and BARs.* They are printed as they
  are read. Of a BAR the model keeps bit 0 and whether it is half of a wide one.
- *The shell.* How it splits the line, and how digits make a number, is external: a
  text comes as lexemes. Blanks or a sign before the digits are not among them.
- *Most of the vendor table.* All but 19 of its rows are commented out in the source; the
  model has these 19. `map` names the extent of the table.
- *The build description* has no behaviour.

## Plan

Every component with behaviour is modelled, and of the properties that the runs check only the liveness
properties are not proved. What could be added:

1. A run with four buses for `tree_numbered`, when a change of `ScanPciBus` makes the depth of the
   recursion matter more than it does now.
2. Functions that appear during a scan, if the program should ever promise something about them.
3. If `DumpBar` is changed to tell 64-bit BARs from others, `wide_bar` becomes an invariant, to be proved beside
   `ShowsBarsCorrect`.

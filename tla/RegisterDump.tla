---------------------------- MODULE RegisterDump ----------------------------
(***************************************************************************)
(* RegisterDump.c: how one function is shown, by VisitAllDevice or as the  *)
(* single device of PciUtilEntryPoint.  DumpDeviceRegisters reads the      *)
(* configuration space into a buffer, DumpRegisterTable prints the buffer  *)
(* as a table, DumpBar prints windows and BARs.                            *)
(*                                                                         *)
(* The buffer is an array of bytes.  A byte is named by the register it    *)
(* was read from; there are two more, of all ones and of all zeros.  Names *)
(* (DisplayDeviceName), colours and layout are left out.                   *)
(***************************************************************************)
EXTENDS PciConfigAccess

CONSTANTS
  ConfigSize,  \* 0x1000, the size of the configuration space
  Functions,   \* the functions considered
  Tables       \* the segment tables considered

BarOffsets == {16, 20, 24, 28, 32, 36}    \* 0x10 .. 0x24

ASSUME ConfigSizeAssumption ==
  ConfigSize \in Nat /\ ConfigSize > LegacySize /\ ConfigSize % 16 = 0

(* bridge: bit 0 of the header type; pcie: the answer of IsPcieDevice;
   ioBars: the dwords of 0x10 .. 0x24 whose bit 0 is set; wide: those at which
   a 64-bit BAR starts, whose upper half is the next dword. *)
ASSUME FunctionAssumption ==
  Functions \subseteq
    [Seg: SegmentNumbers, bridge: BOOLEAN, pcie: BOOLEAN,
     ioBars: SUBSET BarOffsets, wide: SUBSET BarOffsets]

ASSUME TableAssumption == Tables \subseteq Seq(PCI_SEGMENT_INFO)

VARIABLES
  function, table,   \* what is shown, with which segment table
  IsBridge, ReadType, ExtendSpace,   \* arguments, as the caller gives them
  mode,        \* the caller: "all" or "single"
  pc,          \* where the program stands
  RegNum, Row, \* loop counters
  buffer,      \* the array of DumpDeviceRegisters, a function on its bytes
  held,        \* the array is allocated
  touched,     \* history: how many bytes, from its start, the loops needed
  cells,       \* history: the elements printed, each with its labels' sum
  windows,     \* history: the windows of a bridge were printed
  bars         \* history: the BAR lines printed

args == <<function, table, IsBridge, ReadType, ExtendSpace, mode>>
vars == <<function, table, IsBridge, ReadType, ExtendSpace, mode, pc, RegNum, Row,
          buffer, held, touched, cells, windows, bars>>

-----------------------------------------------------------------------------
OnesByte == ConfigSize
ZeroByte == ConfigSize + 1
Bytes    == 0 .. ConfigSize + 1

(* The byte a read of register r brings. *)
ByteAt(r) == IF HasRoute(table, function.Seg, r) THEN r ELSE OnesByte

DumpExtended == ReadType = 8 /\ ExtendSpace /\ function.pcie

(* Size and number of the array's elements. *)
ElementSize  == ReadType \div 8
ElementCount == CASE ReadType = 8  -> IF DumpExtended THEN ConfigSize ELSE LegacySize
                  [] ReadType = 16 -> 128
                  [] ReadType = 32 -> 64
ByteCount    == ElementCount * ElementSize

(* The visitor passes what the scan has read, the entry point FALSE.  Variant:
   the visitor passes FALSE too. *)
BridgeArgumentNever(m, f) == FALSE
BridgeArgument(m, f) == m = "all" /\ f.bridge

(* Functions in the tree, and PCI Express functions, have answered a read; a
   single device is whatever the user has named. *)
Init ==
  /\ function \in Functions /\ table \in Tables
  /\ mode \in {"all", "single"}
  /\ mode = "all" \/ function.pcie => HasRoute(table, function.Seg, 0)
  /\ IsBridge = BridgeArgument(mode, function)
  /\ ReadType \in {8, 16, 32} /\ ExtendSpace \in BOOLEAN
  /\ pc = "allocate" /\ RegNum = 0 /\ Row = 0
  /\ buffer = <<>> /\ held = FALSE /\ touched = 0
  /\ cells = <<>> /\ windows = FALSE /\ bars = <<>>

-----------------------------------------------------------------------------
(* DumpDeviceRegisters. *)
Allocate ==
  /\ pc = "allocate"
  /\ held' = TRUE
  /\ buffer' = [b \in 0 .. ByteCount - 1 |-> ZeroByte]
  /\ pc' = "fill"
  /\ UNCHANGED <<args, RegNum, Row, touched, cells, windows, bars>>

NoMemory ==
  /\ pc = "allocate"
  /\ pc' = "windows"
  /\ UNCHANGED <<args, RegNum, Row, buffer, held, touched, cells, windows, bars>>

(* An access to the bytes below n: those below the end of the array count. *)
Touch(n) == touched' = IF n > touched THEN n ELSE touched

(* One turn of a loop: an element is read from the function and stored.
   Variant: RegNum is a UINT8. *)
StoreElementByteCounter ==
  /\ buffer' = [b \in DOMAIN buffer |->
                  IF RegNum <= b /\ b < RegNum + ElementSize THEN ByteAt(b) ELSE buffer[b]]
  /\ Touch(RegNum + ElementSize)
  /\ RegNum' = (RegNum + ElementSize) % 256
  /\ UNCHANGED <<args, pc, Row, held, cells, windows, bars>>

StoreElement ==
  /\ buffer' = [b \in DOMAIN buffer |->
                  IF RegNum <= b /\ b < RegNum + ElementSize THEN ByteAt(b) ELSE buffer[b]]
  /\ Touch(RegNum + ElementSize)
  /\ RegNum' = RegNum + ElementSize
  /\ UNCHANGED <<args, pc, Row, held, cells, windows, bars>>

(* The loop conditions.  Variant: the first reaches 0x100. *)
MoreLegacyInclusive == RegNum <= LegacySize
MoreLegacy   == RegNum <= LegacySize - 1
MoreExtended == DumpExtended /\ RegNum < ConfigSize

Fill         == pc = "fill" /\ MoreLegacy /\ StoreElement
FillExtended == pc = "fill" /\ ~MoreLegacy /\ MoreExtended /\ StoreElement

EndFill ==
  /\ pc = "fill" /\ ~MoreLegacy /\ ~MoreExtended
  /\ pc' = "table" /\ Row' = 0
  /\ UNCHANGED <<args, RegNum, buffer, held, touched, cells, windows, bars>>

-----------------------------------------------------------------------------
(* DumpRegisterTable. *)
ElementsPerRow == 16 \div ElementSize
RowCount       == (ElementCount + ElementsPerRow - 1) \div ElementsPerRow

(* The labels: "%03X0" of Row - 1 before the row, and Col times the size of
   an element above the column.  Variant: columns are numbered. *)
CellLabelNumbered(col) == (Row - 1) * 16 + col
CellLabel(col) == (Row - 1) * 16 + col * ElementSize

Element(offset) ==
  [k \in 1 .. ElementSize |-> buffer[offset * ElementSize + k - 1]]

(* Row 0 has the column labels and no cell. *)
PrintHeading ==
  /\ pc = "table" /\ Row = 0
  /\ Row' = 1
  /\ UNCHANGED <<args, pc, RegNum, buffer, held, touched, cells, windows, bars>>

(* The columns of a row whose Offset is within the array, from left to right. *)
PrintRow ==
  /\ pc = "table" /\ Row > 0 /\ Row <= RowCount
  /\ LET first == (Row - 1) * ElementsPerRow
         count == IF first + ElementsPerRow <= ElementCount
                    THEN ElementsPerRow ELSE ElementCount - first
     IN /\ cells' = cells \o [c \in 1 .. count |->
                                [at |-> CellLabel(c - 1), value |-> Element(first + c - 1)]]
        /\ Touch((first + count) * ElementSize)
  /\ Row' = Row + 1
  /\ UNCHANGED <<args, pc, RegNum, buffer, held, windows, bars>>

EndTable ==
  /\ pc = "table" /\ Row > RowCount
  /\ pc' = "release"
  /\ UNCHANGED <<args, RegNum, Row, buffer, held, touched, cells, windows, bars>>

(* gBS->FreePool.  Variant: forgotten. *)
ReleaseForgotten ==
  /\ pc = "release"
  /\ pc' = "windows"
  /\ UNCHANGED <<args, RegNum, Row, buffer, held, touched, cells, windows, bars>>

Release ==
  /\ pc = "release"
  /\ held' = FALSE /\ buffer' = <<>>
  /\ pc' = "windows"
  /\ UNCHANGED <<args, RegNum, Row, touched, cells, windows, bars>>

-----------------------------------------------------------------------------
(* DumpBar. *)
MaxRegNum == IF IsBridge THEN 20 ELSE 36    \* 0x14, 0x24

PrintWindows ==
  /\ pc = "windows"
  /\ windows' = IsBridge
  /\ RegNum' = 16
  /\ pc' = "bars"
  /\ UNCHANGED <<args, Row, buffer, held, touched, cells, bars>>

(* Bit 0 of the dword tells I/O from memory; a read without a route has it
   set. *)
IsIoBar(r) == HasRoute(table, function.Seg, r) => r \in function.ioBars

PrintBar ==
  /\ pc = "bars" /\ RegNum <= MaxRegNum
  /\ bars' = Append(bars, [num |-> (RegNum - 16) \div 4, at |-> RegNum, io |-> IsIoBar(RegNum)])
  /\ RegNum' = RegNum + 4
  /\ UNCHANGED <<args, pc, Row, buffer, held, touched, cells, windows>>

EndBars ==
  /\ pc = "bars" /\ RegNum > MaxRegNum
  /\ pc' = "done"
  /\ UNCHANGED <<args, RegNum, Row, buffer, held, touched, cells, windows, bars>>

-----------------------------------------------------------------------------
DumpDeviceRegisters == Allocate \/ NoMemory \/ Fill \/ FillExtended \/ EndFill \/ Release
DumpRegisterTable   == PrintHeading \/ PrintRow \/ EndTable
DumpBar             == PrintWindows \/ PrintBar \/ EndBars

Next == DumpDeviceRegisters \/ DumpRegisterTable \/ DumpBar

Spec == Init /\ [][Next]_vars
(* The processor goes on executing the program. *)
FairSpec == Spec /\ WF_vars(Next)

-----------------------------------------------------------------------------
BarLines == [num: 0 .. 5, at: BarOffsets, io: BOOLEAN]

(* Every variable keeps its type: the counters stay where the loops end, the
   array is there exactly as long as the loops over it run, and no more BARs
   are printed than a header has. *)
TypeOK ==
  /\ function \in Functions /\ table \in Tables
  /\ IsBridge \in BOOLEAN /\ ReadType \in {8, 16, 32} /\ ExtendSpace \in BOOLEAN
  /\ mode \in {"all", "single"}
  /\ pc \in {"allocate", "fill", "table", "release", "windows", "bars", "done"}
  /\ RegNum \in 0 .. ConfigSize /\ Row \in 0 .. RowCount + 1
  /\ held \in BOOLEAN /\ (held <=> pc \in {"fill", "table", "release"})
  /\ buffer \in IF held THEN [0 .. ByteCount - 1 -> Bytes] ELSE {<<>>}
  /\ touched \in Nat
  /\ cells \in Seq([at: 0 .. ConfigSize - 1, value: [1 .. ElementSize -> Bytes]])
  /\ windows \in BOOLEAN
  /\ bars \in Seq(BarLines)

(* The loops that fill the array and the loop that prints it, each with bounds
   of its own, never need a byte beyond the ByteCount that was allocated. *)
WithinBuffer == touched <= ByteCount

(* What the table must show at label r: the element of the function's
   configuration space at r.  A segment without a known ECAM base reads back
   as all ones, except for segment 0 below 0x100. *)
EcamKnown == FindEcamBaseForSegment(table, function.Seg) # 0

Contents(r) ==
  [k \in 1 .. ElementSize |->
     IF EcamKnown \/ (function.Seg = 0 /\ r < LegacySize) THEN r + k - 1 ELSE OnesByte]

ShownSize ==
  IF function.pcie /\ ExtendSpace /\ ReadType = 8 THEN ConfigSize ELSE LegacySize

(* The table shows every register once, in order, in the cell whose labels add
   up to its offset, in the width asked for; the extended space with it for a
   PCI Express function and "-r 8 -x".  Without memory for the array it shows none. *)
ShowsRegisters ==
  /\ \A i \in DOMAIN cells :
       /\ cells[i].at = (i - 1) * ElementSize
       /\ cells[i].value = Contents(cells[i].at)
  /\ pc \in {"release", "windows"} /\ touched > 0 => Len(cells) * ElementSize = ShownSize

(* For "all", the BAR lines are the BARs of the function's header, six or two,
   numbered from 0, each in the space its bit 0 names; and the windows of a
   bridge, no others, are printed. *)
ShowsBars ==
  pc = "done" /\ mode = "all" =>
    /\ Len(bars) = (IF function.bridge THEN 2 ELSE 6)
    /\ \A i \in DOMAIN bars :
         bars[i] = [num |-> i - 1, at |-> 16 + 4 * (i - 1),
                    io |-> 16 + 4 * (i - 1) \in function.ioBars]
    /\ windows = function.bridge

(* RegisterDump.h on DumpBar: "Print the device's BARs, and for bridges, the
   I/O/Memory/Prefetchable windows forwarded to its secondary bus."  Not so
   for a single device, for which the entry point says that it is no bridge. *)
BridgeWindowsShown ==
  pc = "done" /\ function.bridge /\ HasRoute(table, function.Seg, 0) => windows

(* RegisterDump.c on the test of bit 0: "Bit 0 = 1: I/O Space".  Not so in the
   upper half of a 64-bit BAR, whose bit 0 is bit 32 of an address. *)
IoLinesAreIoBars ==
  \A k \in DOMAIN bars :
    bars[k].io /\ HasRoute(table, function.Seg, 0) => bars[k].at - 4 \notin function.wide

(* The dump returns. *)
Returns == <>(pc = "done")
=============================================================================

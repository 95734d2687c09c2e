-------------------------- MODULE RegisterDumpProofs --------------------------
(***************************************************************************)
(* Proofs about RegisterDump, for every function, every segment table and  *)
(* every size of the configuration space.                                  *)
(***************************************************************************)
EXTENDS RegisterDump, SequenceTheorems, TLAPS

(* The three layouts of the array: 16 bytes to a row, and only bytes reach
   beyond the legacy space. *)
LEMMA Layout ==
  ASSUME ReadType \in {8, 16, 32}
  PROVE  /\ ElementSize \in {1, 2, 4}
         /\ ElementCount \in Nat /\ ElementsPerRow \in {16, 8, 4}
         /\ ElementsPerRow * ElementSize = 16
         /\ ByteCount = (IF DumpExtended THEN ConfigSize ELSE 256)
         /\ DumpExtended => ElementSize = 1
         /\ RowCount \in Nat /\ RowCount * ElementsPerRow = ElementCount
<1> USE ConfigSizeAssumption DEF LegacySize
<1>1. CASE ReadType = 8
  <2>1. ElementSize = 1 /\ ElementsPerRow = 16
    BY <1>1, SMT DEF ElementSize, ElementsPerRow
  <2>2. ElementCount = IF DumpExtended THEN ConfigSize ELSE 256
    BY <1>1 DEF ElementCount
  <2>3. ElementCount \in Nat /\ ElementCount % 16 = 0
    BY <2>2, SMT
  <2>4. \A n \in Nat : n % 16 = 0 => (n + 16 - 1) \div 16 \in Nat
                                     /\ ((n + 16 - 1) \div 16) * 16 = n
    BY SMT
  <2>5. RowCount = (ElementCount + 16 - 1) \div 16
    BY <2>1 DEF RowCount
  <2>6. RowCount \in Nat /\ RowCount * 16 = ElementCount
    BY <2>3, <2>4, <2>5, Zenon
  <2> QED BY <2>1, <2>2, <2>3, <2>6 DEF ByteCount
<1>2. CASE ReadType = 16
  <2>1. ElementSize = 2 /\ ElementsPerRow = 8
    BY <1>2, SMT DEF ElementSize, ElementsPerRow
  <2>2. ElementCount = 128 /\ ~DumpExtended
    BY <1>2 DEF ElementCount, DumpExtended
  <2>3. RowCount = 16
    BY <2>1, <2>2, SMT DEF RowCount
  <2> QED BY <2>1, <2>2, <2>3 DEF ByteCount
<1>3. CASE ReadType = 32
  <2>1. ElementSize = 4 /\ ElementsPerRow = 4
    BY <1>3, SMT DEF ElementSize, ElementsPerRow
  <2>2. ElementCount = 64 /\ ~DumpExtended
    BY <1>3 DEF ElementCount, DumpExtended
  <2>3. RowCount = 16
    BY <2>1, <2>2, SMT DEF RowCount
  <2> QED BY <2>1, <2>2, <2>3 DEF ByteCount
<1> QED BY <1>1, <1>2, <1>3

LEMMA Bounds ==
  ASSUME ReadType \in {8, 16, 32}
  PROVE  ByteCount \in Nat /\ 256 <= ByteCount /\ ByteCount <= ConfigSize
BY Layout, ConfigSizeAssumption DEF LegacySize

(* Every row is full, and its elements follow those of the row before: the
   labels of a cell add up to the offset of its element. *)
LEMMA RowGeometry ==
  ASSUME ReadType \in {8, 16, 32}, NEW r \in 1 .. RowCount,
         NEW c \in 0 .. ElementsPerRow - 1
  PROVE  /\ (r - 1) * ElementsPerRow \in Nat
         /\ (r - 1) * ElementsPerRow + ElementsPerRow = r * ElementsPerRow
         /\ r * ElementsPerRow <= ElementCount
         /\ (r * ElementsPerRow) * ElementSize <= ByteCount
         /\ ((r - 1) * ElementsPerRow + c) * ElementSize = (r - 1) * 16 + c * ElementSize
         /\ ((r - 1) * ElementsPerRow + c) * ElementSize + ElementSize <= ByteCount
<1> DEFINE S == ElementSize  P == ElementsPerRow  N == ElementCount  M == RowCount
<1>1. /\ M \in Nat /\ M * P = N /\ N \in Nat /\ ByteCount = N * S
      /\ r \in 1 .. M /\ c \in 0 .. P - 1
      /\ S \in {1, 2, 4} /\ P \in {16, 8, 4} /\ P * S = 16
  BY Layout DEF ByteCount
<1>2. (P = 16 /\ S = 1) \/ (P = 8 /\ S = 2) \/ (P = 4 /\ S = 4)
  BY <1>1
<1> SUFFICES /\ (r - 1) * P \in Nat
             /\ (r - 1) * P + P = r * P
             /\ r * P <= N
             /\ (r * P) * S <= N * S
             /\ ((r - 1) * P + c) * S = (r - 1) * 16 + c * S
             /\ ((r - 1) * P + c) * S + S <= N * S
  BY <1>1
<1> HIDE DEF S, P, N, M
<1>3. CASE P = 16 /\ S = 1  BY <1>1, <1>3
<1>4. CASE P = 8 /\ S = 2   BY <1>1, <1>4
<1>5. CASE P = 4 /\ S = 4   BY <1>1, <1>5
<1> QED BY <1>2, <1>3, <1>4, <1>5

(* What the loops read into an element is what the table must show. *)
LEMMA ElementBytes ==
  ASSUME ReadType \in {8, 16, 32}, NEW n \in Nat, NEW k \in 1 .. ElementSize
  PROVE  ByteAt(n * ElementSize + k - 1) = Contents(n * ElementSize)[k]
<1> DEFINE S == ElementSize
<1>1. S \in {1, 2, 4}
  BY Layout
<1>2. n * S < 256 <=> n * S + k - 1 < 256
  <2> HIDE DEF S
  <2>1. k \in 1 .. S
    BY DEF S
  <2>2. CASE S = 1  BY <2>1, <2>2
  <2>3. CASE S = 2  BY <2>1, <2>3
  <2>4. CASE S = 4  BY <2>1, <2>4
  <2> QED BY <1>1, <2>2, <2>3, <2>4
<1>3. HasRoute(table, function.Seg, n * S + k - 1)
        <=> EcamKnown \/ (function.Seg = 0 /\ n * S < LegacySize)
  BY <1>2 DEF HasRoute, IsLegacy, EcamKnown, LegacySize
<1> QED BY <1>3 DEF ByteAt, Contents

-----------------------------------------------------------------------------
(* The inductive invariant.  The array agrees with the configuration space as
   far as the loops have come, the cells with the array, the BAR lines with
   the header. *)
ArgsInv ==
  /\ IsBridge = BridgeArgument(mode, function)
  /\ mode = "all" => HasRoute(table, function.Seg, 0)

FillInv ==
  /\ pc = "allocate" => RegNum = 0
  /\ pc = "fill" =>
       /\ RegNum <= ByteCount /\ RegNum % ElementSize = 0
       /\ \A b \in 0 .. RegNum - 1 : buffer[b] = ByteAt(b)

TableInv ==
  pc = "table" =>
    /\ \A b \in 0 .. ByteCount - 1 : buffer[b] = ByteAt(b)
    /\ Len(cells) = IF Row = 0 THEN 0 ELSE (Row - 1) * ElementsPerRow

CellsInv ==
  /\ pc \in {"allocate", "fill"} => cells = <<>>
  /\ pc = "allocate" => touched = 0
  /\ pc = "release" => Len(cells) = ElementCount
  /\ pc = "windows" /\ touched > 0 => Len(cells) = ElementCount
  /\ \A i \in DOMAIN cells :
       /\ cells[i].at = (i - 1) * ElementSize
       /\ cells[i].value = Contents(cells[i].at)

BarLine(i) ==
  [num |-> i - 1, at |-> 16 + 4 * (i - 1), io |-> IsIoBar(16 + 4 * (i - 1))]

BarLimit == IF IsBridge THEN 2 ELSE 6

BarsInv ==
  /\ pc \notin {"bars", "done"} => bars = <<>>
  /\ pc = "bars" => RegNum = 16 + 4 * Len(bars) /\ Len(bars) <= BarLimit
  /\ pc \in {"bars", "done"} => windows = IsBridge
  /\ pc = "done" => Len(bars) = BarLimit
  /\ \A i \in DOMAIN bars : bars[i] = BarLine(i)

IInv ==
  /\ TypeOK /\ WithinBuffer
  /\ ArgsInv /\ FillInv /\ TableInv /\ CellsInv /\ BarsInv

-----------------------------------------------------------------------------
(* The arguments do not change, nor does what depends on them alone. *)
LEMMA ArgumentsStay ==
  ASSUME UNCHANGED args
  PROVE  /\ UNCHANGED <<function, table, IsBridge, ReadType, ExtendSpace, mode>>
         /\ UNCHANGED <<ElementSize, ElementCount, ElementsPerRow, RowCount, ByteCount>>
         /\ UNCHANGED <<ShownSize, BarLimit>>
         /\ \A b : ByteAt(b)' = ByteAt(b)
         /\ \A r : Contents(r)' = Contents(r)
         /\ \A j : BarLine(j)' = BarLine(j)
<1>1. UNCHANGED <<function, table, IsBridge, ReadType, ExtendSpace, mode>>
  BY DEF args
<1>2. UNCHANGED <<ElementSize, ElementCount, ElementsPerRow, RowCount, ByteCount>>
  BY <1>1 DEF ElementSize, ElementCount, ElementsPerRow, RowCount, ByteCount, DumpExtended
<1>3. UNCHANGED <<ShownSize, BarLimit>>
  BY <1>1 DEF ShownSize, BarLimit
<1>4. \A b : ByteAt(b)' = ByteAt(b)
  BY <1>1 DEF ByteAt, HasRoute
<1>5. \A r : Contents(r)' = Contents(r)
  BY <1>1, <1>2 DEF Contents, EcamKnown
<1>6. \A j : BarLine(j)' = BarLine(j)
  BY <1>1 DEF BarLine, IsIoBar, HasRoute
<1> QED BY <1>1, <1>2, <1>3, <1>4, <1>5, <1>6

LEMMA ArrayThere ==
  ASSUME TypeOK, pc \in {"fill", "table", "release"}
  PROVE  held /\ buffer \in [0 .. ByteCount - 1 -> Bytes]
<1>1. held
  BY DEF TypeOK
<1>2. buffer \in IF held THEN [0 .. ByteCount - 1 -> Bytes] ELSE {<<>>}
  BY DEF TypeOK
<1>3. buffer \in [0 .. ByteCount - 1 -> Bytes]
  BY <1>1, <1>2, Zenon
<1> QED BY <1>1, <1>3

(* The array is filled from the front; the tests leave room for an element. *)
LEMMA FillStep ==
  ASSUME IInv, Fill \/ FillExtended
  PROVE  IInv'
<1> USE DEF IInv
<1>1. UNCHANGED args /\ UNCHANGED <<pc, Row, held, cells, windows, bars>> /\ pc = "fill"
  BY DEF Fill, FillExtended, StoreElement
<1>2. ReadType \in {8, 16, 32} /\ RegNum \in Nat /\ held /\ touched \in Nat
      /\ buffer \in [0 .. ByteCount - 1 -> Bytes]
  BY <1>1, ArrayThere DEF TypeOK
<1> DEFINE S == ElementSize
<1>3. S \in {1, 2, 4} /\ RegNum % S = 0 /\ RegNum <= ByteCount
  BY <1>1, <1>2, Layout DEF FillInv
<1>4. RegNum + S <= ByteCount /\ (RegNum + S) % S = 0
  <2>1. CASE Fill
    <3>1. RegNum <= 255
      BY <2>1, <1>2 DEF Fill, MoreLegacy, LegacySize
    <3> HIDE DEF S
    <3>2. \A n \in Nat : n <= 255 /\ n % 1 = 0 => n + 1 <= 256 /\ (n + 1) % 1 = 0
      BY SMT
    <3>3. \A n \in Nat : n <= 255 /\ n % 2 = 0 => n + 2 <= 256 /\ (n + 2) % 2 = 0
      BY SMT
    <3>4. \A n \in Nat : n <= 255 /\ n % 4 = 0 => n + 4 <= 256 /\ (n + 4) % 4 = 0
      BY SMT
    <3>5. RegNum + S <= 256 /\ (RegNum + S) % S = 0
      <4>1. CASE S = 1  BY <4>1, <3>1, <3>2, <1>2, <1>3
      <4>2. CASE S = 2  BY <4>2, <3>1, <3>3, <1>2, <1>3
      <4>3. CASE S = 4  BY <4>3, <3>1, <3>4, <1>2, <1>3
      <4> QED BY <1>3, <4>1, <4>2, <4>3
    <3> QED BY <3>5, <1>2, <1>3, Bounds
  <2>2. CASE FillExtended
    <3>1. S = 1 /\ RegNum < ConfigSize /\ ByteCount = ConfigSize
      BY <2>2, <1>2, Layout DEF FillExtended, MoreExtended
    <3>2. \A n \in Nat : (n + 1) % 1 = 0
      BY SMT
    <3> QED BY <3>1, <3>2, <1>2, ConfigSizeAssumption
  <2> QED BY <2>1, <2>2
<1>5. RegNum' = RegNum + S
      /\ touched' = (IF RegNum + S > touched THEN RegNum + S ELSE touched)
      /\ buffer' = [b \in DOMAIN buffer |->
                      IF RegNum <= b /\ b < RegNum + S THEN ByteAt(b) ELSE buffer[b]]
  BY DEF Fill, FillExtended, StoreElement, Touch
<1> HIDE DEF S
<1>6. ByteCount \in Nat /\ ByteCount <= ConfigSize
  BY <1>2, Bounds
<1>7. \A b \in 0 .. ByteCount - 1 : ByteAt(b) \in Bytes
  BY <1>6, ConfigSizeAssumption DEF ByteAt, Bytes, OnesByte
<1>8. buffer' \in [0 .. ByteCount - 1 -> Bytes]
  BY <1>2, <1>5, <1>7
<1>9. \A b \in 0 .. RegNum' - 1 : buffer'[b] = ByteAt(b)
  BY <1>1, <1>2, <1>3, <1>4, <1>5, <1>6 DEF FillInv
<1>10. RegNum' \in 0 .. ConfigSize /\ touched' \in Nat /\ touched' <= ByteCount
  BY <1>2, <1>3, <1>4, <1>5, <1>6, ConfigSizeAssumption DEF WithinBuffer
<1>11. TypeOK' /\ WithinBuffer'
  BY <1>1, <1>8, <1>10, ArgumentsStay DEF TypeOK, WithinBuffer
<1>12. FillInv'
  BY <1>1, <1>3, <1>4, <1>5, <1>9, ArgumentsStay DEF FillInv, S
<1>13. ArgsInv' /\ TableInv' /\ CellsInv' /\ BarsInv'
  BY <1>1, ArgumentsStay DEF ArgsInv, TableInv, CellsInv, BarsInv
<1> QED BY <1>11, <1>12, <1>13

-----------------------------------------------------------------------------
LEMMA InitInv == Init => IInv
<1> SUFFICES ASSUME Init PROVE IInv
  OBVIOUS
<1>1. ReadType \in {8, 16, 32} /\ ConfigSize \in Nat
  BY ConfigSizeAssumption DEF Init
<1>2. IsBridge \in BOOLEAN
  BY FunctionAssumption DEF Init, BridgeArgument
<1>3. RowCount \in Nat
  BY <1>1, Layout
<1>4. held \in BOOLEAN /\ (held <=> pc \in {"fill", "table", "release"})
  BY DEF Init
<1>5. buffer \in IF held THEN [0 .. ByteCount - 1 -> Bytes] ELSE {<<>>}
  BY DEF Init
<1>6. TypeOK
  <2>1. /\ function \in Functions /\ table \in Tables /\ ExtendSpace \in BOOLEAN
        /\ mode \in {"all", "single"} /\ windows \in BOOLEAN
        /\ pc \in {"allocate", "fill", "table", "release", "windows", "bars", "done"}
    BY DEF Init
  <2>2. RegNum \in 0 .. ConfigSize /\ Row \in 0 .. RowCount + 1 /\ touched \in Nat
    BY <1>1, <1>3 DEF Init
  <2>3. /\ cells \in Seq([at: 0 .. ConfigSize - 1, value: [1 .. ElementSize -> Bytes]])
        /\ bars \in Seq(BarLines)
    BY DEF Init
  <2> QED BY <1>1, <1>2, <1>4, <1>5, <2>1, <2>2, <2>3, Zenon DEF TypeOK
<1>7. WithinBuffer
  BY <1>1, Bounds DEF Init, WithinBuffer
<1>8. ArgsInv /\ FillInv /\ TableInv /\ CellsInv /\ BarsInv
  BY DEF Init, ArgsInv, FillInv, TableInv, CellsInv, BarsInv
<1> QED BY <1>6, <1>7, <1>8 DEF IInv

LEMMA AllocateStep ==
  ASSUME IInv, Allocate
  PROVE  IInv'
<1> USE DEF IInv
<1>1. /\ UNCHANGED args /\ UNCHANGED <<RegNum, Row, touched, cells, windows, bars>>
      /\ pc = "allocate" /\ pc' = "fill" /\ held' = TRUE
      /\ buffer' = [b \in 0 .. ByteCount - 1 |-> ZeroByte]
  BY DEF Allocate
<1>2. ReadType \in {8, 16, 32} /\ RegNum = 0
  BY <1>1 DEF TypeOK, FillInv
<1>3. ByteCount \in Nat /\ ElementSize \in {1, 2, 4}
  BY <1>2, Bounds, Layout
<1>4. ZeroByte \in Bytes
  BY ConfigSizeAssumption DEF ZeroByte, Bytes
<1>5. buffer' \in [0 .. ByteCount - 1 -> Bytes]
  BY <1>1, <1>4
<1>6. buffer' \in IF held' THEN [0 .. ByteCount' - 1 -> Bytes] ELSE {<<>>}
  BY <1>1, <1>5, ArgumentsStay
<1>7. held' \in BOOLEAN /\ (held' <=> pc' \in {"fill", "table", "release"})
  BY <1>1
<1>8. TypeOK' /\ WithinBuffer'
  BY <1>1, <1>6, <1>7, ArgumentsStay DEF TypeOK, WithinBuffer
<1>9. FillInv'
  BY <1>1, <1>2, <1>3, ArgumentsStay DEF FillInv
<1>10. ArgsInv' /\ TableInv' /\ CellsInv' /\ BarsInv'
  BY <1>1, ArgumentsStay DEF ArgsInv, TableInv, CellsInv, BarsInv
<1> QED BY <1>8, <1>9, <1>10

LEMMA NoMemoryStep ==
  ASSUME IInv, NoMemory
  PROVE  IInv'
<1> USE DEF IInv
<1>1. /\ UNCHANGED args
      /\ UNCHANGED <<RegNum, Row, buffer, held, touched, cells, windows, bars>>
      /\ pc = "allocate" /\ pc' = "windows"
  BY DEF NoMemory
<1>2. held' \in BOOLEAN /\ (held' <=> pc' \in {"fill", "table", "release"})
  BY <1>1 DEF TypeOK
<1>3. TypeOK' /\ WithinBuffer'
  BY <1>1, <1>2, ArgumentsStay DEF TypeOK, WithinBuffer
<1>4. CellsInv'
  BY <1>1, ArgumentsStay DEF CellsInv
<1>5. ArgsInv' /\ FillInv' /\ TableInv' /\ BarsInv'
  BY <1>1, ArgumentsStay DEF ArgsInv, FillInv, TableInv, BarsInv
<1> QED BY <1>3, <1>4, <1>5

(* The loops end with the whole array filled. *)
LEMMA EndFillStep ==
  ASSUME IInv, EndFill
  PROVE  IInv'
<1> USE DEF IInv
<1>1. /\ UNCHANGED args /\ UNCHANGED <<RegNum, buffer, held, touched, cells, windows, bars>>
      /\ pc = "fill" /\ pc' = "table" /\ Row' = 0
      /\ ~(RegNum <= 255) /\ ~(DumpExtended /\ RegNum < ConfigSize)
  BY DEF EndFill, MoreLegacy, MoreExtended, LegacySize
<1>2. ReadType \in {8, 16, 32} /\ RegNum \in Nat
  BY <1>1 DEF TypeOK
<1>3. RegNum = ByteCount
  BY <1>1, <1>2, Layout, ConfigSizeAssumption DEF FillInv
<1>4. held' \in BOOLEAN /\ (held' <=> pc' \in {"fill", "table", "release"})
  BY <1>1, ArrayThere
<1>5. RowCount \in Nat
  BY <1>2, Layout
<1>6. TypeOK' /\ WithinBuffer'
  BY <1>1, <1>4, <1>5, ArgumentsStay DEF TypeOK, WithinBuffer
<1>7. TableInv'
  <2>1. \A b \in 0 .. ByteCount - 1 : buffer[b] = ByteAt(b)
    BY <1>1, <1>3 DEF FillInv
  <2>2. cells = <<>>
    BY <1>1 DEF CellsInv
  <2> QED BY <1>1, <2>1, <2>2, ArgumentsStay DEF TableInv
<1>8. ArgsInv' /\ FillInv' /\ CellsInv' /\ BarsInv'
  BY <1>1, ArgumentsStay DEF ArgsInv, FillInv, CellsInv, BarsInv
<1> QED BY <1>6, <1>7, <1>8

-----------------------------------------------------------------------------
LEMMA PrintHeadingStep ==
  ASSUME IInv, PrintHeading
  PROVE  IInv'
<1> USE DEF IInv
<1>1. /\ UNCHANGED args
      /\ UNCHANGED <<pc, RegNum, buffer, held, touched, cells, windows, bars>>
      /\ pc = "table" /\ Row = 0 /\ Row' = 1
  BY DEF PrintHeading
<1>2. RowCount \in Nat /\ ElementsPerRow \in {16, 8, 4}
  BY Layout DEF TypeOK
<1>3. TypeOK' /\ WithinBuffer'
  BY <1>1, <1>2, ArgumentsStay DEF TypeOK, WithinBuffer
<1>4. TableInv'
  BY <1>1, <1>2, ArgumentsStay DEF TableInv
<1>5. ArgsInv' /\ FillInv' /\ CellsInv' /\ BarsInv'
  BY <1>1, ArgumentsStay DEF ArgsInv, FillInv, CellsInv, BarsInv
<1> QED BY <1>3, <1>4, <1>5

(* A row adds the cells of its 16 bytes, each with what the array holds at
   the sum of its labels. *)
LEMMA PrintRowStep ==
  ASSUME IInv, PrintRow
  PROVE  IInv'
<1> USE DEF IInv
<1> DEFINE S == ElementSize
           P == ElementsPerRow
           first == (Row - 1) * P
           row == [c \in 1 .. P |-> [at |-> CellLabel(c - 1), value |-> Element(first + c - 1)]]
           Cell == [at: 0 .. ConfigSize - 1, value: [1 .. S -> Bytes]]
<1>1. /\ UNCHANGED args /\ UNCHANGED <<pc, RegNum, buffer, held, windows, bars>>
      /\ pc = "table" /\ Row > 0 /\ Row <= RowCount /\ Row' = Row + 1
  BY DEF PrintRow
<1>2. /\ ReadType \in {8, 16, 32} /\ Row \in Nat /\ touched \in Nat /\ cells \in Seq(Cell)
      /\ buffer \in [0 .. ByteCount - 1 -> Bytes]
  BY <1>1, ArrayThere, Layout DEF TypeOK
<1>3. /\ S \in {1, 2, 4} /\ P \in {16, 8, 4} /\ RowCount \in Nat /\ Row \in 1 .. RowCount
      /\ ElementCount \in Nat
      /\ ByteCount \in Nat /\ ByteCount <= ConfigSize
  BY <1>1, <1>2, Layout, Bounds
<1>4. first \in Nat /\ first + P = Row * P /\ first + P <= ElementCount
      /\ (first + P) * S <= ByteCount
  <2>1. 0 \in 0 .. P - 1
    BY <1>3
  <2>2. /\ first \in Nat /\ first + P = Row * P /\ Row * P <= ElementCount
        /\ (Row * P) * S <= ByteCount
    BY <1>2, <1>3, <2>1, RowGeometry
  <2> HIDE DEF first, P, S
  <2> QED BY <2>2
<1>5. \A c \in 1 .. P : /\ CellLabel(c - 1) = (first + c - 1) * S
                       /\ (first + c - 1) * S + S <= ByteCount
  <2> TAKE c \in 1 .. P
  <2>1. c - 1 \in 0 .. P - 1
    BY <1>3
  <2>2. first + (c - 1) = first + c - 1
    BY <1>3, <1>4
  <2> QED BY <1>2, <1>3, <2>1, <2>2, RowGeometry DEF CellLabel
<1>6. cells' = cells \o row /\ touched' = (IF (first + P) * S > touched THEN (first + P) * S ELSE touched)
  BY <1>4 DEF PrintRow, Touch
<1>7. \A c \in 1 .. P : row[c].at = (first + c - 1) * S
                       /\ row[c].value = Contents((first + c - 1) * S)
  <2> TAKE c \in 1 .. P
  <2> DEFINE n == first + c - 1
  <2>1. n \in Nat /\ n * S + S <= ByteCount
    BY <1>3, <1>4, <1>5
  <2>2. row[c].at = n * S /\ row[c].value = Element(n)
    BY <1>5
  <2>3. Element(n) = [k \in 1 .. S |-> buffer[n * S + k - 1]]
    BY DEF Element
  <2>4. \A k \in 1 .. S : buffer[n * S + k - 1] = Contents(n * S)[k]
    <3> TAKE k \in 1 .. S
    <3>1. n * S + k - 1 \in 0 .. ByteCount - 1
      <4>1. n * S \in Nat
        BY <1>3, <2>1
      <4> HIDE DEF n, S
      <4> QED BY <4>1, <1>3, <2>1
    <3>2. buffer[n * S + k - 1] = ByteAt(n * S + k - 1)
      BY <1>1, <3>1 DEF TableInv
    <3>3. ByteAt(n * S + k - 1) = Contents(n * S)[k]
      BY <1>2, <2>1, ElementBytes
    <3> QED BY <3>2, <3>3
  <2>5. Contents(n * S) = [k \in 1 .. S |-> Contents(n * S)[k]]
    BY DEF Contents
  <2> QED BY <2>2, <2>3, <2>4, <2>5
<1>8. row \in Seq(Cell)
  <2>1. \A c \in 1 .. P : row[c] \in Cell
    <3> TAKE c \in 1 .. P
    <3> DEFINE n == first + c - 1
    <3>1. n \in Nat /\ n * S + S <= ByteCount
      BY <1>3, <1>4, <1>5
    <3>2. n * S \in Nat
      BY <1>3, <3>1
    <3>3. n * S \in 0 .. ConfigSize - 1
      <4> HIDE DEF n, S
      <4> QED BY <1>3, <3>1, <3>2, ConfigSizeAssumption
    <3>4. Element(n) \in [1 .. S -> Bytes]
      <4> SUFFICES ASSUME NEW k \in 1 .. S PROVE buffer[n * S + k - 1] \in Bytes
        BY DEF Element
      <4>1. n * S + k - 1 \in 0 .. ByteCount - 1
        <5> HIDE DEF n, S
        <5> QED BY <1>3, <3>1, <3>2
      <4> QED BY <1>2, <4>1
    <3>5. row[c] = [at |-> n * S, value |-> Element(n)]
      BY <1>5
    <3> HIDE DEF row, n
    <3> QED BY <3>3, <3>4, <3>5
  <2>2. row = [c \in 1 .. P |-> row[c]]
    OBVIOUS
  <2> HIDE DEF row, Cell, P
  <2>3. row \in [1 .. P -> Cell]
    BY <2>1, <2>2
  <2> QED BY <1>3, <2>3, SeqDef
<1> HIDE DEF row, Cell
<1>9. Len(cells) = first /\ Len(row) = P
  <2>1. DOMAIN row = 1 .. P
    BY DEF row
  <2> QED BY <1>1, <1>2, <1>3, <1>8, <2>1 DEF TableInv
<1>10. /\ cells' \in Seq(Cell) /\ Len(cells') = first + P
       /\ \A i \in 1 .. first + P :
            cells'[i] = IF i <= first THEN cells[i] ELSE row[i - first]
  <2>1. /\ cells \o row \in Seq(Cell)
        /\ Len(cells \o row) = Len(cells) + Len(row)
        /\ \A i \in 1 .. Len(cells) + Len(row) :
             (cells \o row)[i] = IF i <= Len(cells) THEN cells[i] ELSE row[i - Len(cells)]
    BY <1>2, <1>8, ConcatProperties, Zenon
  <2> HIDE DEF first, P
  <2> QED BY <1>6, <1>9, <2>1
<1>11. \A i \in 1 .. first + P :
         cells'[i].at = (i - 1) * S /\ cells'[i].value = Contents((i - 1) * S)
  <2> TAKE i \in 1 .. first + P
  <2> HIDE DEF first, P
  <2>1. CASE i <= first
    <3>1. i \in 1 .. first /\ cells'[i] = cells[i]
      BY <1>3, <1>4, <1>10, <2>1
    <3>2. i \in DOMAIN cells
      BY <1>2, <1>9, <3>1
    <3> QED BY <3>1, <3>2 DEF CellsInv
  <2>2. CASE i > first
    <3>1. i - first \in 1 .. P
      BY <1>3, <1>4, <2>2
    <3>2. cells'[i] = row[i - first]
      BY <1>4, <1>10, <2>2
    <3>3. first + (i - first) - 1 = i - 1
      BY <1>4
    <3> QED BY <1>7, <3>1, <3>2, <3>3
  <2> QED BY <1>3, <1>4, <2>1, <2>2
<1>12. touched' \in Nat /\ touched' <= ByteCount
  <2>1. (first + P) * S \in Nat
    BY <1>3, <1>4
  <2> HIDE DEF first, P, S
  <2> QED BY <1>2, <1>4, <1>6, <2>1 DEF WithinBuffer
<1>13. Row' \in 0 .. RowCount + 1
  BY <1>1, <1>3
<1>14. TypeOK' /\ WithinBuffer'
  BY <1>1, <1>10, <1>12, <1>13, ArgumentsStay DEF TypeOK, WithinBuffer, Cell
<1>15. TableInv'
  <2>1. Row' # 0 /\ Row' - 1 = Row
    BY <1>1, <1>2
  <2>2. Len(cells') = Row * P
    BY <1>4, <1>10
  <2>3. Len(cells') = (Row' - 1) * P
    BY <2>1, <2>2
  <2> QED BY <1>1, <2>1, <2>3, ArgumentsStay DEF TableInv
<1>16. CellsInv'
  <2>1. DOMAIN cells' = 1 .. first + P
    BY <1>4, <1>10
  <2> QED BY <1>1, <1>11, <2>1, ArgumentsStay DEF CellsInv
<1>17. ArgsInv' /\ FillInv' /\ BarsInv'
  BY <1>1, ArgumentsStay DEF ArgsInv, FillInv, BarsInv
<1> QED BY <1>14, <1>15, <1>16, <1>17

(* All rows are printed, so all elements. *)
LEMMA EndTableStep ==
  ASSUME IInv, EndTable
  PROVE  IInv'
<1> USE DEF IInv
<1>1. /\ UNCHANGED args
      /\ UNCHANGED <<RegNum, Row, buffer, held, touched, cells, windows, bars>>
      /\ pc = "table" /\ Row > RowCount /\ pc' = "release"
  BY DEF EndTable
<1>2. RowCount \in Nat /\ Row \in 0 .. RowCount + 1 /\ RowCount * ElementsPerRow = ElementCount
  BY Layout DEF TypeOK
<1>3. Row # 0 /\ Row - 1 = RowCount
  BY <1>1, <1>2
<1>4. Len(cells) = ElementCount
  BY <1>1, <1>2, <1>3 DEF TableInv
<1>5. held' \in BOOLEAN /\ (held' <=> pc' \in {"fill", "table", "release"})
  BY <1>1, ArrayThere
<1>6. TypeOK' /\ WithinBuffer'
  BY <1>1, <1>5, ArgumentsStay DEF TypeOK, WithinBuffer
<1>7. CellsInv'
  BY <1>1, <1>4, ArgumentsStay DEF CellsInv
<1>8. ArgsInv' /\ FillInv' /\ TableInv' /\ BarsInv'
  BY <1>1, ArgumentsStay DEF ArgsInv, FillInv, TableInv, BarsInv
<1> QED BY <1>6, <1>7, <1>8

LEMMA ReleaseStep ==
  ASSUME IInv, Release
  PROVE  IInv'
<1> USE DEF IInv
<1>1. /\ UNCHANGED args
      /\ UNCHANGED <<RegNum, Row, touched, cells, windows, bars>>
      /\ pc = "release" /\ pc' = "windows" /\ held' = FALSE /\ buffer' = <<>>
  BY DEF Release
<1>2. buffer' \in IF held' THEN [0 .. ByteCount' - 1 -> Bytes] ELSE {<<>>}
  BY <1>1
<1>3. held' \in BOOLEAN /\ (held' <=> pc' \in {"fill", "table", "release"})
  BY <1>1
<1>4. TypeOK' /\ WithinBuffer'
  BY <1>1, <1>2, <1>3, ArgumentsStay DEF TypeOK, WithinBuffer
<1>5. CellsInv'
  BY <1>1, ArgumentsStay DEF CellsInv
<1>6. ArgsInv' /\ FillInv' /\ TableInv' /\ BarsInv'
  BY <1>1, ArgumentsStay DEF ArgsInv, FillInv, TableInv, BarsInv
<1> QED BY <1>4, <1>5, <1>6

-----------------------------------------------------------------------------
LEMMA PrintWindowsStep ==
  ASSUME IInv, PrintWindows
  PROVE  IInv'
<1> USE DEF IInv
<1>1. /\ UNCHANGED args /\ UNCHANGED <<Row, buffer, held, touched, cells, bars>>
      /\ pc = "windows" /\ pc' = "bars" /\ windows' = IsBridge /\ RegNum' = 16
  BY DEF PrintWindows
<1>2. RegNum' \in 0 .. ConfigSize
  BY <1>1, ConfigSizeAssumption DEF LegacySize
<1>3. held' \in BOOLEAN /\ (held' <=> pc' \in {"fill", "table", "release"})
  BY <1>1 DEF TypeOK
<1>4. TypeOK' /\ WithinBuffer'
  BY <1>1, <1>2, <1>3, ArgumentsStay DEF TypeOK, WithinBuffer
<1>5. BarsInv'
  <2>1. bars = <<>> /\ BarLimit \in {2, 6}
    BY <1>1 DEF BarsInv, BarLimit
  <2> QED BY <1>1, <2>1, ArgumentsStay DEF BarsInv
<1>6. ArgsInv' /\ FillInv' /\ TableInv' /\ CellsInv'
  BY <1>1, ArgumentsStay DEF ArgsInv, FillInv, TableInv, CellsInv
<1> QED BY <1>4, <1>5, <1>6

(* The last line of an endpoint is that of 0x24, of a bridge that of 0x14. *)
LEMMA PrintBarStep ==
  ASSUME IInv, PrintBar
  PROVE  IInv'
<1> USE DEF IInv
<1> DEFINE n == Len(bars)
<1>1. /\ UNCHANGED args /\ UNCHANGED <<pc, Row, buffer, held, touched, cells, windows>>
      /\ pc = "bars" /\ RegNum <= MaxRegNum /\ RegNum' = RegNum + 4
      /\ bars' = Append(bars, [num |-> (RegNum - 16) \div 4, at |-> RegNum,
                               io |-> IsIoBar(RegNum)])
  BY DEF PrintBar
<1>2. bars \in Seq(BarLines) /\ IsBridge \in BOOLEAN
  BY DEF TypeOK
<1>3. n \in Nat /\ RegNum = 16 + 4 * n
  BY <1>1, <1>2 DEF BarsInv
<1>4. n + 1 <= BarLimit /\ BarLimit \in {2, 6}
  BY <1>1, <1>3 DEF MaxRegNum, BarLimit
<1>5. bars' = Append(bars, BarLine(n + 1))
  <2> HIDE DEF n
  <2>1. \A m \in Nat : (16 + 4 * m - 16) \div 4 = m
    BY SMT
  <2>2. (RegNum - 16) \div 4 = (n + 1) - 1 /\ RegNum = 16 + 4 * ((n + 1) - 1)
    BY <1>3, <2>1
  <2> QED BY <1>1, <2>2 DEF BarLine
<1>6. BarLine(n + 1) \in BarLines
  <2>1. IsIoBar(16 + 4 * ((n + 1) - 1)) \in BOOLEAN
    BY DEF IsIoBar
  <2>2. (n + 1) - 1 \in 0 .. 5 /\ 16 + 4 * ((n + 1) - 1) \in BarOffsets
    <3> HIDE DEF n
    <3>1. n \in 0 .. 5
      BY <1>3, <1>4
    <3> QED BY <3>1 DEF BarOffsets
  <2> QED BY <2>1, <2>2 DEF BarLine, BarLines
<1>7. bars' \in Seq(BarLines) /\ Len(bars') = n + 1
      /\ \A i \in 1 .. n + 1 : bars'[i] = IF i <= n THEN bars[i] ELSE BarLine(n + 1)
  <2> HIDE DEF BarLine
  <2> QED BY <1>2, <1>3, <1>5, <1>6, AppendProperties
<1>8. RegNum' \in 0 .. ConfigSize
  BY <1>1, <1>3, <1>4, ConfigSizeAssumption DEF LegacySize, BarLimit
<1>9. TypeOK' /\ WithinBuffer'
  BY <1>1, <1>7, <1>8, ArgumentsStay DEF TypeOK, WithinBuffer
<1>10. BarsInv'
  <2>1. \A i \in DOMAIN bars' : bars'[i] = BarLine(i)
    <3> TAKE i \in DOMAIN bars'
    <3>1. i \in 1 .. n + 1
      BY <1>3, <1>7
    <3>2. CASE i <= n
      BY <1>2, <1>3, <1>7, <3>1, <3>2 DEF BarsInv
    <3>3. CASE i > n
      <4>1. i = n + 1
        BY <1>3, <3>1, <3>3
      <4> QED BY <1>3, <1>7, <4>1
    <3> QED BY <1>3, <3>1, <3>2, <3>3
  <2>2. RegNum' = 16 + 4 * Len(bars') /\ Len(bars') <= BarLimit
    BY <1>1, <1>3, <1>4, <1>7
  <2> QED BY <1>1, <2>1, <2>2, ArgumentsStay DEF BarsInv
<1>11. ArgsInv' /\ FillInv' /\ TableInv' /\ CellsInv'
  BY <1>1, ArgumentsStay DEF ArgsInv, FillInv, TableInv, CellsInv
<1> QED BY <1>9, <1>10, <1>11

LEMMA EndBarsStep ==
  ASSUME IInv, EndBars
  PROVE  IInv'
<1> USE DEF IInv
<1>1. /\ UNCHANGED args
      /\ UNCHANGED <<RegNum, Row, buffer, held, touched, cells, windows, bars>>
      /\ pc = "bars" /\ RegNum > MaxRegNum /\ pc' = "done"
  BY DEF EndBars
<1>2. bars \in Seq(BarLines) /\ RegNum = 16 + 4 * Len(bars) /\ Len(bars) <= BarLimit
  BY <1>1 DEF TypeOK, BarsInv
<1>3. Len(bars) = BarLimit
  <2> DEFINE n == Len(bars)
  <2>1. n \in Nat
    BY <1>2
  <2>2. (BarLimit = 2 /\ MaxRegNum = 20) \/ (BarLimit = 6 /\ MaxRegNum = 36)
    BY DEF BarLimit, MaxRegNum
  <2>3. 16 + 4 * n > MaxRegNum /\ n <= BarLimit
    BY <1>1, <1>2
  <2> HIDE DEF n
  <2>4. n = BarLimit
    BY <2>1, <2>2, <2>3
  <2> QED BY <2>4 DEF n
<1>4. held' \in BOOLEAN /\ (held' <=> pc' \in {"fill", "table", "release"})
  BY <1>1 DEF TypeOK
<1>5. TypeOK' /\ WithinBuffer'
  BY <1>1, <1>4, ArgumentsStay DEF TypeOK, WithinBuffer
<1>6. BarsInv'
  BY <1>1, <1>3, ArgumentsStay DEF BarsInv
<1>7. ArgsInv' /\ FillInv' /\ TableInv' /\ CellsInv'
  BY <1>1, ArgumentsStay DEF ArgsInv, FillInv, TableInv, CellsInv
<1> QED BY <1>5, <1>6, <1>7

-----------------------------------------------------------------------------
LEMMA StutterStep ==
  ASSUME IInv, UNCHANGED vars
  PROVE  IInv'
<1> USE DEF IInv
<1>1. UNCHANGED <<args, pc, RegNum, Row, buffer, held, touched, cells, windows, bars>>
  BY DEF vars, args
<1>2. TypeOK' /\ WithinBuffer'
  BY <1>1, ArgumentsStay DEF TypeOK, WithinBuffer
<1>3. FillInv' /\ TableInv' /\ CellsInv'
  BY <1>1, ArgumentsStay DEF FillInv, TableInv, CellsInv
<1>4. ArgsInv' /\ BarsInv'
  BY <1>1, ArgumentsStay DEF ArgsInv, BarsInv
<1> QED BY <1>2, <1>3, <1>4

LEMMA Invariance == Spec => []IInv
<1>1. IInv /\ [Next]_vars => IInv'
  <2> SUFFICES ASSUME IInv, [Next]_vars PROVE IInv'
    OBVIOUS
  <2>1. CASE DumpDeviceRegisters
    BY <2>1, AllocateStep, NoMemoryStep, FillStep, EndFillStep, ReleaseStep
    DEF DumpDeviceRegisters
  <2>2. CASE DumpRegisterTable
    BY <2>2, PrintHeadingStep, PrintRowStep, EndTableStep DEF DumpRegisterTable
  <2>3. CASE DumpBar
    BY <2>3, PrintWindowsStep, PrintBarStep, EndBarsStep DEF DumpBar
  <2>4. CASE UNCHANGED vars
    BY <2>4, StutterStep
  <2> QED BY <2>1, <2>2, <2>3, <2>4 DEF Next
<1> QED BY InitInv, <1>1, PTL DEF Spec

(* Counters, array and history keep their types: among others, the array is
   allocated exactly while the loops run on it. *)
THEOREM TypeCorrect == Spec => []TypeOK
<1>1. IInv => TypeOK
  BY DEF IInv
<1> QED BY Invariance, <1>1, PTL

(* DumpDeviceRegisters and DumpRegisterTable stay inside the array. *)
THEOREM WithinBufferCorrect == Spec => []WithinBuffer
<1>1. IInv => WithinBuffer
  BY DEF IInv
<1> QED BY Invariance, <1>1, PTL

(* The table shows every register once, at its place, in every width. *)
THEOREM ShowsRegistersCorrect == Spec => []ShowsRegisters
<1>1. IInv => ShowsRegisters
  <2> SUFFICES ASSUME IInv, pc \in {"release", "windows"}, touched > 0
               PROVE  Len(cells) * ElementSize = ShownSize
    BY DEF IInv, CellsInv, ShowsRegisters
  <2>1. Len(cells) = ElementCount
    BY DEF IInv, CellsInv
  <2>2. ElementCount * ElementSize = IF DumpExtended THEN ConfigSize ELSE 256
    BY Layout DEF IInv, TypeOK, ByteCount
  <2>3. ShownSize = IF DumpExtended THEN ConfigSize ELSE 256
    BY DEF ShownSize, DumpExtended, LegacySize
  <2> QED BY <2>1, <2>2, <2>3
<1> QED BY Invariance, <1>1, PTL

(* "all" prints the BARs that the header has, and the windows of bridges. *)
THEOREM ShowsBarsCorrect == Spec => []ShowsBars
<1>1. IInv => ShowsBars
  <2> SUFFICES ASSUME IInv, pc = "done", mode = "all"
               PROVE  /\ Len(bars) = (IF function.bridge THEN 2 ELSE 6)
                      /\ \A i \in DOMAIN bars :
                           bars[i] = [num |-> i - 1, at |-> 16 + 4 * (i - 1),
                                      io |-> 16 + 4 * (i - 1) \in function.ioBars]
                      /\ windows = function.bridge
    BY DEF ShowsBars
  <2>1. function.bridge \in BOOLEAN
    BY FunctionAssumption DEF IInv, TypeOK
  <2>2. IsBridge = function.bridge
    BY <2>1 DEF IInv, ArgsInv, BridgeArgument
  <2>3. Len(bars) = BarLimit /\ windows = IsBridge /\ bars \in Seq(BarLines)
    BY DEF IInv, BarsInv, TypeOK
  <2>4. BarLimit = IF function.bridge THEN 2 ELSE 6
    BY <2>2 DEF BarLimit
  <2>5. \A i \in DOMAIN bars : HasRoute(table, function.Seg, 16 + 4 * (i - 1))
    <3> TAKE i \in DOMAIN bars
    <3>1. HasRoute(table, function.Seg, 0)
      BY DEF IInv, ArgsInv
    <3>2. i \in 1 .. 6
      BY <2>3 DEF BarLimit
    <3>3. 16 + 4 * (i - 1) < 256
      BY <3>2
    <3> QED BY <3>1, <3>3 DEF HasRoute, IsLegacy, LegacySize
  <2>6. \A i \in DOMAIN bars : bars[i] = BarLine(i)
    BY DEF IInv, BarsInv
  <2>7. \A i \in DOMAIN bars :
          IsIoBar(16 + 4 * (i - 1)) = (16 + 4 * (i - 1) \in function.ioBars)
    BY <2>5 DEF IsIoBar
  <2> QED BY <2>2, <2>3, <2>4, <2>6, <2>7 DEF BarLine
<1> QED BY Invariance, <1>1, PTL
=============================================================================

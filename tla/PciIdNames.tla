----------------------------- MODULE PciIdNames -----------------------------
(***************************************************************************)
(* PciIdNames.c: the names of vendors and device classes, and              *)
(* DisplayDeviceName (RegisterDump.c), which looks them up to print the    *)
(* line of a function.                                                     *)
(*                                                                         *)
(* A name is its position in its table; 0 is the empty name.  The function *)
(* is read through the segment table while the line is made.               *)
(***************************************************************************)
EXTENDS PciConfigAccess, FiniteSets

CONSTANTS
  Devices,  \* the functions considered
  Tables    \* the segment tables considered

Byte == 0 .. 255
Word == 0 .. 65535
Any  == 255           \* 0xff in a row of ClassNames

(* The rows that are not commented out. *)
VendorNames ==
  <<4098, 4130, 4147, 4172, 4279, 4318, 4332, 4354, 4358, 4523, 5348, 5772,
    6945, 6987, 7023, 32902, 36868, 36869, 42791>>

(* Rows of one base class: one for each subclass, of any interface. *)
Rows(base, subs) == [k \in 1 .. Len(subs) |-> <<base, subs[k], Any>>]
UpTo(n)          == [k \in 1 .. n + 1 |-> k - 1]
ThenAny(subs)    == Append(subs, Any)

ClassNames ==
  Rows(0, UpTo(1)) \o Rows(1, ThenAny(UpTo(6))) \o Rows(2, ThenAny(UpTo(6)))
  \o Rows(3, ThenAny(UpTo(2))) \o Rows(4, ThenAny(UpTo(3))) \o Rows(5, ThenAny(UpTo(1)))
  \o Rows(6, UpTo(10)) \o Rows(7, ThenAny(UpTo(5))) \o Rows(8, ThenAny(UpTo(4)))
  \o Rows(9, ThenAny(UpTo(4))) \o Rows(10, <<Any>>) \o Rows(11, <<Any>>)
  \o << <<12, 0, 0>>, <<12, 0, 16>>, <<12, 1, Any>>, <<12, 2, Any>>,
        <<12, 3, 0>>, <<12, 3, 16>>, <<12, 3, 32>>, <<12, 3, Any>> >>
  \o Rows(12, <<4, 5, 6, 7, 8, 9>>) \o Rows(13, <<0, 1, 16, 17, 18, Any>>)
  \o Rows(14, <<Any>>) \o Rows(15, <<1, 2, 3, 4>>) \o Rows(16, <<0, 16, Any>>)
  \o Rows(17, <<0, 1, 16, 32, Any>>)

(* The registers the line is made of: the vendor ID and the four bytes of the
   dword at 0x08, the lowest one first: revision, interface, subclass, class. *)
ASSUME DeviceAssumption ==
  Devices \subseteq [Seg: SegmentNumbers, vendor: Word, class: [1 .. 4 -> Byte]]
ASSUME NameTableAssumption == Tables \subseteq Seq(PCI_SEGMENT_INFO)

VARIABLES
  device, table, \* what is shown, with which segment table
  pc,            \* which call DisplayDeviceName stands in
  i,             \* the loop counter; the code counts from 0
  dword,         \* ClassCode, as its bytes
  vendor, class, type  \* history: the parts of the line, as they are printed

vars == <<device, table, pc, i, dword, vendor, class, type>>

AllOnesDword == [k \in 1 .. 4 |-> 255]

Init ==
  /\ device \in Devices /\ table \in Tables
  /\ pc = "vendor" /\ i = 1 /\ dword = AllOnesDword
  /\ vendor = 0 /\ class = 0 /\ type = "none"

-----------------------------------------------------------------------------
Answers == HasRoute(table, device.Seg, 0)

VendorId == IF Answers THEN device.vendor ELSE 65535

(* Loop conditions of PciVendorName and PciClassName.  Variant: the last
   vendor is never reached. *)
MoreVendorsOneShort == i < Len(VendorNames)
MoreVendors == i <= Len(VendorNames)
MoreClasses == i <= Len(ClassNames)

PassVendor ==
  /\ pc = "vendor" /\ MoreVendors /\ VendorNames[i] # VendorId
  /\ i' = i + 1
  /\ UNCHANGED <<device, table, pc, dword, vendor, class, type>>

(* PciVendorName returns: with the row found, or with the empty name.  Next
   the dword at 0x08 is read. *)
EndVendor ==
  /\ pc = "vendor" /\ (MoreVendors => VendorNames[i] = VendorId)
  /\ vendor' = IF MoreVendors THEN i ELSE 0
  /\ dword' = IF Answers THEN device.class ELSE AllOnesDword
  /\ pc' = "class" /\ i' = 1
  /\ UNCHANGED <<device, table, class, type>>

(* (UINT8)(ClassCode >> shift). *)
FieldOf(shift) == dword[shift \div 8 + 1]

(* Row k is for the class code in dword.  Variant: a wildcard in the subclass
   settles the match. *)
RowMatchesSubclassOnly(k) ==
  /\ ClassNames[k][1] = FieldOf(24)
  /\ ClassNames[k][2] \in {FieldOf(16), Any}

RowMatches(k) ==
  /\ ClassNames[k][1] = FieldOf(24)
  /\ ClassNames[k][2] \in {FieldOf(16), Any}
  /\ ClassNames[k][3] \in {FieldOf(8), Any}

PassClass ==
  /\ pc = "class" /\ MoreClasses /\ ~RowMatches(i)
  /\ i' = i + 1
  /\ UNCHANGED <<device, table, pc, dword, vendor, class, type>>

(* PciClassName returns.  Variant: the counter of the loop is the answer also
   when no row was found. *)
EndClassAtCounter ==
  /\ pc = "class" /\ (MoreClasses => RowMatches(i))
  /\ class' = i
  /\ pc' = IF type = "none" THEN "type" ELSE "done"
  /\ UNCHANGED <<device, table, i, dword, vendor, type>>

EndClass ==
  /\ pc = "class" /\ (MoreClasses => RowMatches(i))
  /\ class' = IF MoreClasses THEN i ELSE 0
  /\ pc' = IF type = "none" THEN "type" ELSE "done"
  /\ UNCHANGED <<device, table, i, dword, vendor, type>>

PciTypeName(BaseClass) ==
  CASE BaseClass = 6        -> "Bridge"
    [] BaseClass \in {4, 9} -> "Device"
    [] BaseClass = 8        -> "blank"
    [] OTHER                -> "Controller"

(* The byte at 0x0B is read anew.  Variant: the one before it. *)
BaseClassReadBefore == IF Answers THEN device.class[3] ELSE 255
BaseClassRead == IF Answers THEN device.class[4] ELSE 255

(* The two names are arguments of one call of Print: which of them is looked up
   first is the compiler's choice. *)
LookUpType ==
  /\ pc = "type" \/ (pc = "class" /\ i = 1)
  /\ type = "none"
  /\ type' = PciTypeName(BaseClassRead)
  /\ pc' = IF pc = "class" THEN "class" ELSE "done"
  /\ UNCHANGED <<device, table, i, dword, vendor, class>>

Next == PassVendor \/ EndVendor \/ PassClass \/ EndClass \/ LookUpType

Spec == Init /\ [][Next]_vars

-----------------------------------------------------------------------------
(* Every variable keeps its type; a row that is looked at is in its table. *)
TypeOK ==
  /\ device \in Devices /\ table \in Tables
  /\ pc \in {"vendor", "class", "type", "done"}
  /\ i \in 1 .. (IF pc = "vendor" THEN Len(VendorNames) ELSE Len(ClassNames)) + 1
  /\ dword \in [1 .. 4 -> Byte]
  /\ vendor \in 0 .. Len(VendorNames) /\ class \in 0 .. Len(ClassNames)
  /\ type \in {"none", "Bridge", "Device", "blank", "Controller"}

(* A function whose vendor is in the table is shown with that vendor's name,
   any other with none, and one that no read reaches with none. *)
NamesVendor ==
  pc = "done" =>
    IF Answers /\ \E k \in DOMAIN VendorNames : VendorNames[k] = device.vendor
      THEN vendor # 0 /\ VendorNames[vendor] = device.vendor
      ELSE vendor = 0

(* The rows for class code c, and how much of the code a row names. *)
RowsFor(c) ==
  {k \in DOMAIN ClassNames : \A n \in 1 .. 3 :
     ClassNames[k][n] = c[5 - n] \/ (n > 1 /\ ClassNames[k][n] = Any)}

Named(k) == Cardinality({n \in 1 .. 3 : ClassNames[k][n] # Any})

(* Although the first match wins, the name shown is that of the one row that
   names most of the class code: no row is hidden behind a wildcard or behind
   another row like it.  The name is empty only if no row is for the class. *)
NamesClassBest ==
  pc = "done" /\ Answers =>
    IF RowsFor(device.class) = {} THEN class = 0
    ELSE /\ class \in RowsFor(device.class)
         /\ \A k \in RowsFor(device.class) \ {class} : Named(k) < Named(class)

(* The three reads of the line agree: a class name and the word behind it are
   of one base class, and of an absent function neither is a name. *)
ReadsAgree ==
  pc = "done" =>
    /\ class # 0 => type = PciTypeName(ClassNames[class][1])
    /\ ~Answers => class = 0 /\ type = "Controller"
=============================================================================

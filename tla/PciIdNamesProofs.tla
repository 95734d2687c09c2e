--------------------------- MODULE PciIdNamesProofs ---------------------------
(***************************************************************************)
(* Proofs about PciIdNames, for every function and every segment table.    *)
(* The two tables of names are those of the source, row by row; what is    *)
(* needed of ClassNames is that no row hides one that names more.          *)
(***************************************************************************)
EXTENDS PciIdNames, SequenceTheorems, FiniteSetTheorems, TLAPS

-----------------------------------------------------------------------------
(* The order of ClassNames. *)
Row == {r \in [1 .. 3 -> Byte] : r[1] \in 0 .. 17}

(* No class code is that of both rows. *)
Apart(r, s) == \E n \in 1 .. 3 : r[n] # Any /\ s[n] # Any /\ r[n] # s[n]

(* r names all that s names, and more. *)
Narrower(r, s) ==
  /\ \A n \in 1 .. 3 : s[n] # Any => r[n] # Any
  /\ \E n \in 1 .. 3 : r[n] # Any /\ s[n] = Any

Ordered(rows) ==
  /\ rows \in Seq(Row)
  /\ \A j, k \in 1 .. Len(rows) : j < k => Apart(rows[j], rows[k]) \/ Narrower(rows[j], rows[k])

Below(rows, base) == Ordered(rows) /\ \A k \in 1 .. Len(rows) : rows[k][1] < base

Block(rows, base) == Ordered(rows) /\ \A k \in 1 .. Len(rows) : rows[k][1] = base

(* No subclass twice, and Any at most as the last one. *)
Subclasses(subs) ==
  /\ subs \in Seq(Byte)
  /\ \A j, k \in 1 .. Len(subs) : j < k => subs[j] # Any /\ subs[j] # subs[k]

LEMMA TypedRow ==
  ASSUME NEW a \in 0 .. 17, NEW b \in Byte
  PROVE  <<a, b, Any>> \in Row
<1> DEFINE r == <<a, b, Any>>
<1>1. a \in Byte /\ Any \in Byte
  BY DEF Byte, Any
<1>2. r \in [1 .. 3 -> Byte] /\ r[1] = a
  BY <1>1
<1> QED BY <1>2 DEF Row

LEMMA RowsBlock ==
  ASSUME NEW base \in 0 .. 17, NEW subs, Subclasses(subs)
  PROVE  Block(Rows(base, subs), base)
<1> DEFINE rows == Rows(base, subs)
<1>1. Len(subs) \in Nat /\ \A k \in 1 .. Len(subs) : subs[k] \in Byte
  BY DEF Subclasses
<1>2. rows = [k \in 1 .. Len(subs) |-> <<base, subs[k], Any>>]
  BY DEF Rows
<1>3. rows \in [1 .. Len(subs) -> Row]
  <2>1. ASSUME NEW k \in 1 .. Len(subs) PROVE <<base, subs[k], Any>> \in Row
    BY <1>1, TypedRow
  <2> QED BY <1>2, <2>1
<1>4. rows \in Seq(Row)
  BY <1>1, <1>3, SeqDef
<1>5. Len(rows) = Len(subs)
  BY <1>1, <1>2
<1>6. \A k \in 1 .. Len(rows) : /\ rows[k][1] = base /\ rows[k][2] = subs[k] /\ rows[k][3] = Any
  BY <1>2, <1>5
<1> HIDE DEF rows
<1>7. ASSUME NEW j \in 1 .. Len(rows), NEW k \in 1 .. Len(rows), j < k
      PROVE  Apart(rows[j], rows[k]) \/ Narrower(rows[j], rows[k])
  <2>1. subs[j] # Any /\ subs[j] # subs[k]
    BY <1>5, <1>7 DEF Subclasses
  <2>2. CASE subs[k] # Any
    BY <1>6, <2>1, <2>2 DEF Apart
  <2>3. CASE subs[k] = Any
    BY <1>6, <2>1, <2>3 DEF Narrower, Any
  <2> QED BY <2>2, <2>3
<1> QED BY <1>4, <1>6, <1>7 DEF Block, Ordered, rows

LEMMA ConcatOrdered ==
  ASSUME NEW s, NEW t, Ordered(s), Ordered(t),
         \A j \in 1 .. Len(s), k \in 1 .. Len(t) :
           Apart(s[j], t[k]) \/ Narrower(s[j], t[k])
  PROVE  /\ Ordered(s \o t)
         /\ Len(s \o t) = Len(s) + Len(t)
         /\ \A k \in 1 .. Len(s \o t) :
              \/ k \in 1 .. Len(s) /\ (s \o t)[k] = s[k]
              \/ k - Len(s) \in 1 .. Len(t) /\ (s \o t)[k] = t[k - Len(s)]
<1> DEFINE st == s \o t
<1>1. s \in Seq(Row) /\ t \in Seq(Row)
  BY DEF Ordered
<1>2. /\ st \in Seq(Row) /\ Len(st) = Len(s) + Len(t)
      /\ \A k \in 1 .. Len(s) + Len(t) : st[k] = IF k <= Len(s) THEN s[k] ELSE t[k - Len(s)]
  BY <1>1, ConcatProperties, Zenon
<1>3. Len(s) \in Nat /\ Len(t) \in Nat
  BY <1>1
<1> HIDE DEF st
<1>4. ASSUME NEW j \in 1 .. Len(st), NEW k \in 1 .. Len(st), j < k
      PROVE  Apart(st[j], st[k]) \/ Narrower(st[j], st[k])
  <2>1. CASE k <= Len(s)
    <3>1. j \in 1 .. Len(s) /\ k \in 1 .. Len(s)
      BY <1>3, <1>4, <2>1
    <3> QED BY <1>2, <1>3, <1>4, <2>1, <3>1 DEF Ordered
  <2>2. CASE j <= Len(s) /\ ~(k <= Len(s))
    <3>1. j \in 1 .. Len(s) /\ k - Len(s) \in 1 .. Len(t)
      BY <1>2, <1>3, <2>2
    <3> QED BY <1>2, <2>2, <3>1
  <2>3. CASE ~(j <= Len(s))
    <3>1. /\ j - Len(s) \in 1 .. Len(t) /\ k - Len(s) \in 1 .. Len(t)
          /\ j - Len(s) < k - Len(s) /\ ~(k <= Len(s))
      BY <1>2, <1>3, <1>4, <2>3
    <3> QED BY <1>2, <2>3, <3>1 DEF Ordered
  <2> QED BY <1>3, <2>1, <2>2, <2>3
<1>5. ASSUME NEW k \in 1 .. Len(st)
      PROVE  \/ k \in 1 .. Len(s) /\ st[k] = s[k]
             \/ k - Len(s) \in 1 .. Len(t) /\ st[k] = t[k - Len(s)]
  BY <1>2, <1>3
<1> QED BY <1>2, <1>4, <1>5 DEF Ordered, st

LEMMA NextBlock ==
  ASSUME NEW base \in 0 .. 17, NEW s, NEW t, Below(s, base), Block(t, base)
  PROVE  Below(s \o t, base + 1)
<1>1. /\ Ordered(s) /\ Ordered(t)
      /\ \A k \in 1 .. Len(s) : s[k] \in Row
      /\ \A k \in 1 .. Len(t) : t[k] \in Row
  BY DEF Below, Block, Ordered
<1>2. ASSUME NEW j \in 1 .. Len(s), NEW k \in 1 .. Len(t)
      PROVE  Apart(s[j], t[k]) \/ Narrower(s[j], t[k])
  <2>1. s[j][1] \in 0 .. 17 /\ s[j][1] < base /\ t[k][1] = base
    BY <1>1 DEF Below, Block, Row
  <2> QED BY <2>1 DEF Apart, Any
<1>3. /\ Ordered(s \o t) /\ Len(s \o t) = Len(s) + Len(t)
      /\ \A k \in 1 .. Len(s \o t) :
           \/ k \in 1 .. Len(s) /\ (s \o t)[k] = s[k]
           \/ k - Len(s) \in 1 .. Len(t) /\ (s \o t)[k] = t[k - Len(s)]
  BY <1>1, <1>2, ConcatOrdered
<1> DEFINE st == s \o t
<1> HIDE DEF st
<1>4. ASSUME NEW k \in 1 .. Len(st) PROVE st[k][1] < base + 1
  <2>1. CASE k \in 1 .. Len(s) /\ st[k] = s[k]
    <3>1. s[k][1] \in 0 .. 17 /\ s[k][1] < base
      BY <1>1, <2>1 DEF Below, Row
    <3>2. st[k][1] = s[k][1]
      BY <2>1, Zenon
    <3>3. \A x \in 0 .. 17 : x < base => x < base + 1
      OBVIOUS
    <3> QED BY <3>1, <3>2, <3>3, Zenon
  <2>2. CASE k - Len(s) \in 1 .. Len(t) /\ st[k] = t[k - Len(s)]
    <3>1. t[k - Len(s)][1] = base
      BY <2>2 DEF Block
    <3>2. st[k][1] = base
      BY <2>2, <3>1, Zenon
    <3>3. base < base + 1
      OBVIOUS
    <3> QED BY <3>2, <3>3, Zenon
  <2> QED BY <1>3, <2>1, <2>2 DEF st
<1> QED BY <1>3, <1>4 DEF Below, st

(* The subclasses of each base class. *)
LEMMA UpToSubclasses ==
  ASSUME NEW n \in 0 .. 10
  PROVE  Subclasses(UpTo(n)) /\ Subclasses(ThenAny(UpTo(n)))
<1> DEFINE u == [k \in 1 .. n + 1 |-> k - 1]
<1>1. u \in [1 .. n + 1 -> Byte] /\ n + 1 \in Nat
  BY DEF Byte
<1>2. u \in Seq(Byte) /\ Len(u) = n + 1
  BY <1>1, SeqDef
<1>3. \A k \in 1 .. n + 1 : u[k] = k - 1
  OBVIOUS
<1> HIDE DEF u
<1>4. Subclasses(u)
  BY <1>2, <1>3 DEF Subclasses, Any
<1> DEFINE v == Append(u, Any)
<1>5. v \in Seq(Byte) /\ Len(v) = n + 2 /\ v[n + 2] = Any
  BY <1>2 DEF Byte, Any
<1>6. \A k \in 1 .. n + 1 : v[k] = k - 1
  BY <1>2, <1>3
<1> HIDE DEF v
<1>7. ASSUME NEW j \in 1 .. Len(v), NEW k \in 1 .. Len(v), j < k
      PROVE  v[j] # Any /\ v[j] # v[k]
  <2>1. j \in 1 .. n + 1 /\ (k \in 1 .. n + 1 \/ k = n + 2)
    BY <1>5, <1>7
  <2> QED BY <1>5, <1>6, <1>7, <2>1 DEF Any
<1>8. Subclasses(v)
  BY <1>5, <1>7 DEF Subclasses
<1> QED BY <1>4, <1>8 DEF u, v, UpTo, ThenAny

LEMMA ListedSubclasses ==
  /\ Subclasses(<<Any>>)
  /\ Subclasses(<<4, 5, 6, 7, 8, 9>>)
  /\ Subclasses(<<0, 1, 16, 17, 18, Any>>)
  /\ Subclasses(<<1, 2, 3, 4>>)
  /\ Subclasses(<<0, 16, Any>>)
  /\ Subclasses(<<0, 1, 16, 32, Any>>)
<1> USE DEF Subclasses, Byte, Any
<1>1. Subclasses(<<Any>>)
  OBVIOUS
<1>2. Subclasses(<<4, 5, 6, 7, 8, 9>>)
  OBVIOUS
<1>3. Subclasses(<<0, 1, 16, 17, 18, Any>>)
  OBVIOUS
<1>4. Subclasses(<<1, 2, 3, 4>>)
  OBVIOUS
<1>5. Subclasses(<<0, 16, Any>>)
  OBVIOUS
<1>6. Subclasses(<<0, 1, 16, 32, Any>>)
  OBVIOUS
<1> QED BY <1>1, <1>2, <1>3, <1>4, <1>5, <1>6

(* The serial buses, where rows also differ in the interface. *)
SerialByInterface ==
  << <<12, 0, 0>>, <<12, 0, 16>>, <<12, 1, Any>>, <<12, 2, Any>>,
     <<12, 3, 0>>, <<12, 3, 16>>, <<12, 3, 32>>, <<12, 3, Any>> >>

LEMMA SerialTyped == SerialByInterface \in Seq(Row)
<1>1. /\ <<12, 0, 0>> \in Row /\ <<12, 0, 16>> \in Row /\ <<12, 1, Any>> \in Row
      /\ <<12, 2, Any>> \in Row /\ <<12, 3, 0>> \in Row /\ <<12, 3, 16>> \in Row
      /\ <<12, 3, 32>> \in Row /\ <<12, 3, Any>> \in Row
  BY DEF Row, Byte, Any
<1> QED BY <1>1 DEF SerialByInterface

LEMMA SerialBlock == Block(SerialByInterface \o Rows(12, <<4, 5, 6, 7, 8, 9>>), 12)
<1> DEFINE s == SerialByInterface
           t == Rows(12, <<4, 5, 6, 7, 8, 9>>)
<1>1. Len(s) = 8 /\ s \in Seq(Row)
  BY SerialTyped DEF SerialByInterface
<1>2. /\ s[1] = <<12, 0, 0>> /\ s[2] = <<12, 0, 16>> /\ s[3] = <<12, 1, Any>>
      /\ s[4] = <<12, 2, Any>> /\ s[5] = <<12, 3, 0>> /\ s[6] = <<12, 3, 16>>
      /\ s[7] = <<12, 3, 32>> /\ s[8] = <<12, 3, Any>>
  BY DEF SerialByInterface
<1>3. Block(t, 12)
  BY RowsBlock, ListedSubclasses
<1>4. \A k \in 1 .. Len(t) : t[k][1] = 12 /\ t[k][2] \in 4 .. 9
  <2> DEFINE subs == <<4, 5, 6, 7, 8, 9>>
  <2>1. Len(subs) = 6 /\ \A k \in 1 .. 6 : subs[k] \in 4 .. 9
    OBVIOUS
  <2> HIDE DEF subs
  <2>2. t = [k \in 1 .. 6 |-> <<12, subs[k], Any>>]
    BY <2>1 DEF Rows, subs
  <2> HIDE DEF t
  <2>3. Len(t) = 6 /\ \A k \in 1 .. 6 : t[k] = <<12, subs[k], Any>>
    BY <2>2
  <2> QED BY <2>1, <2>3
<1> HIDE DEF s, t
<1>5. \A j \in 1 .. 8 : s[j][1] = 12 /\ s[j][2] \in 0 .. 3
  <2>1. \A j \in 1 .. 8 :
          j = 1 \/ j = 2 \/ j = 3 \/ j = 4 \/ j = 5 \/ j = 6 \/ j = 7 \/ j = 8
    OBVIOUS
  <2> QED BY <1>2, <2>1
<1>6. ASSUME NEW j \in 1 .. 8, NEW k \in 1 .. 8, j < k
      PROVE  Apart(s[j], s[k]) \/ Narrower(s[j], s[k])
  <2>1. CASE s[j][2] # s[k][2]
    BY <1>5, <2>1 DEF Apart, Any
  <2>2. CASE s[j][2] = s[k][2] /\ s[k][3] # Any
    <3>1. s[j][3] # Any /\ s[j][3] # s[k][3]
      BY <1>2, <1>6, <2>2 DEF Any
    <3> QED BY <2>2, <3>1 DEF Apart
  <2>3. CASE s[j][2] = s[k][2] /\ s[k][3] = Any
    <3>1. s[j][3] # Any
      BY <1>2, <1>6, <2>3 DEF Any
    <3> QED BY <1>5, <2>3, <3>1 DEF Narrower, Any
  <2> QED BY <2>1, <2>2, <2>3
<1>7. Ordered(s)
  BY <1>1, <1>6 DEF Ordered
<1>8. \A j \in 1 .. Len(s), k \in 1 .. Len(t) : Apart(s[j], t[k]) \/ Narrower(s[j], t[k])
  <2> SUFFICES ASSUME NEW j \in 1 .. Len(s), NEW k \in 1 .. Len(t)
               PROVE  Apart(s[j], t[k])
    OBVIOUS
  <2>1. s[j][2] \in 0 .. 3 /\ t[k][2] \in 4 .. 9
    BY <1>1, <1>4, <1>5
  <2>2. \A a \in 0 .. 3, b \in 4 .. 9 : a # Any /\ b # Any /\ a # b
    BY DEF Any
  <2>3. s[j][2] # Any /\ t[k][2] # Any /\ s[j][2] # t[k][2]
    BY <2>1, <2>2, Zenon
  <2> QED BY <2>3 DEF Apart
<1>9. Ordered(t)
  BY <1>3 DEF Block
<1>10. /\ Ordered(s \o t)
       /\ \A k \in 1 .. Len(s \o t) :
            \/ k \in 1 .. Len(s) /\ (s \o t)[k] = s[k]
            \/ k - Len(s) \in 1 .. Len(t) /\ (s \o t)[k] = t[k - Len(s)]
  BY <1>7, <1>8, <1>9, ConcatOrdered
<1>11. \A k \in 1 .. Len(s \o t) : (s \o t)[k][1] = 12
  BY <1>1, <1>4, <1>5, <1>10
<1> QED BY <1>10, <1>11 DEF Block, s, t

(* In the whole table no row hides one behind it that names as much. *)
LEMMA ClassNamesOrdered == Ordered(ClassNames)
<1> DEFINE s0  == Rows(0, UpTo(1))
           s1  == s0 \o Rows(1, ThenAny(UpTo(6)))
           s2  == s1 \o Rows(2, ThenAny(UpTo(6)))
           s3  == s2 \o Rows(3, ThenAny(UpTo(2)))
           s4  == s3 \o Rows(4, ThenAny(UpTo(3)))
           s5  == s4 \o Rows(5, ThenAny(UpTo(1)))
           s6  == s5 \o Rows(6, UpTo(10))
           s7  == s6 \o Rows(7, ThenAny(UpTo(5)))
           s8  == s7 \o Rows(8, ThenAny(UpTo(4)))
           s9  == s8 \o Rows(9, ThenAny(UpTo(4)))
           s10 == s9 \o Rows(10, <<Any>>)
           s11 == s10 \o Rows(11, <<Any>>)
           s12 == (s11 \o SerialByInterface) \o Rows(12, <<4, 5, 6, 7, 8, 9>>)
           s13 == s12 \o Rows(13, <<0, 1, 16, 17, 18, Any>>)
           s14 == s13 \o Rows(14, <<Any>>)
           s15 == s14 \o Rows(15, <<1, 2, 3, 4>>)
           s16 == s15 \o Rows(16, <<0, 16, Any>>)
           s17 == s16 \o Rows(17, <<0, 1, 16, 32, Any>>)
<1>1. ClassNames = s17
  BY Zenon DEF ClassNames, SerialByInterface
<1> HIDE DEF s0, s1, s2, s3, s4, s5, s6, s7, s8, s9, s10, s11, s12, s13, s14, s15, s16, s17
<1>2. ASSUME NEW base \in 0 .. 17, NEW s, Below(s, base), NEW subs, Subclasses(subs)
      PROVE  Below(s \o Rows(base, subs), base + 1)
  BY <1>2, RowsBlock, NextBlock
<1>10. Below(s0, 1)
  <2>1. Block(s0, 0)
    BY UpToSubclasses, RowsBlock DEF s0
  <2> QED BY <2>1 DEF Block, Below
<1>11. Below(s1, 2)
  BY <1>2, <1>10, UpToSubclasses DEF s1
<1>12. Below(s2, 3)
  BY <1>2, <1>11, UpToSubclasses DEF s2
<1>13. Below(s3, 4)
  BY <1>2, <1>12, UpToSubclasses DEF s3
<1>14. Below(s4, 5)
  BY <1>2, <1>13, UpToSubclasses DEF s4
<1>15. Below(s5, 6)
  BY <1>2, <1>14, UpToSubclasses DEF s5
<1>16. Below(s6, 7)
  BY <1>2, <1>15, UpToSubclasses DEF s6
<1>17. Below(s7, 8)
  BY <1>2, <1>16, UpToSubclasses DEF s7
<1>18. Below(s8, 9)
  BY <1>2, <1>17, UpToSubclasses DEF s8
<1>19. Below(s9, 10)
  BY <1>2, <1>18, UpToSubclasses DEF s9
<1>20. Below(s10, 11)
  BY <1>2, <1>19, ListedSubclasses DEF s10
<1>21. Below(s11, 12)
  BY <1>2, <1>20, ListedSubclasses DEF s11
<1>22. Below(s12, 13)
  <2> DEFINE t == Rows(12, <<4, 5, 6, 7, 8, 9>>)
  <2>1. s11 \in Seq(Row) /\ SerialByInterface \in Seq(Row) /\ t \in Seq(Row)
    <3>1. t \in Seq(Row)
      BY RowsBlock, ListedSubclasses DEF Block, Ordered
    <3> QED BY <1>21, <3>1, SerialTyped DEF Below, Ordered
  <2>2. s12 = (s11 \o SerialByInterface) \o t
    BY Zenon DEF s12
  <2>3. Block(SerialByInterface \o t, 12)
    BY SerialBlock, Zenon
  <2> HIDE DEF t
  <2>4. Below(s11 \o (SerialByInterface \o t), 12 + 1)
    BY <1>21, <2>3, NextBlock
  <2>5. (s11 \o SerialByInterface) \o t = s11 \o (SerialByInterface \o t)
    <3>1. \A a, b, c \in Seq(Row) : (a \o b) \o c = a \o (b \o c)
      BY ConcatAssociative
    <3> QED BY <2>1, <3>1, Zenon
  <2> QED BY <2>2, <2>4, <2>5
<1>23. Below(s13, 14)
  BY <1>2, <1>22, ListedSubclasses DEF s13
<1>24. Below(s14, 15)
  BY <1>2, <1>23, ListedSubclasses DEF s14
<1>25. Below(s15, 16)
  BY <1>2, <1>24, ListedSubclasses DEF s15
<1>26. Below(s16, 17)
  BY <1>2, <1>25, ListedSubclasses DEF s16
<1>27. Below(s17, 18)
  BY <1>2, <1>26, ListedSubclasses DEF s17
<1> QED BY <1>1, <1>27 DEF Below-----------------------------------------------------------------------------
LEMMA TablesTyped ==
  /\ ClassNames \in Seq(Row) /\ Len(ClassNames) \in Nat
  /\ \A k \in 1 .. Len(ClassNames) :
       /\ k \in DOMAIN ClassNames /\ ClassNames[k] \in Row
       /\ ClassNames[k][1] \in 0 .. 17
  /\ Len(VendorNames) = 19 /\ DOMAIN VendorNames = 1 .. 19
  /\ DOMAIN ClassNames = 1 .. Len(ClassNames)
<1>1. ClassNames \in Seq(Row)
  BY ClassNamesOrdered DEF Ordered
<1>2. Len(VendorNames) = 19 /\ DOMAIN VendorNames = 1 .. 19
  BY DEF VendorNames
<1>3. /\ Len(ClassNames) \in Nat /\ DOMAIN ClassNames = 1 .. Len(ClassNames)
      /\ \A k \in 1 .. Len(ClassNames) : ClassNames[k] \in Row
  BY <1>1
<1> QED BY <1>1, <1>2, <1>3 DEF Row

(* 0xffff, which an absent function answers, is no vendor of the table. *)
LEMMA NobodyIsAllOnes == \A k \in 1 .. 19 : VendorNames[k] # 65535
<1>1. \A k \in 1 .. 19 :
        \/ k = 1 \/ k = 2 \/ k = 3 \/ k = 4 \/ k = 5 \/ k = 6 \/ k = 7 \/ k = 8 \/ k = 9 \/ k = 10
        \/ k = 11 \/ k = 12 \/ k = 13 \/ k = 14 \/ k = 15 \/ k = 16 \/ k = 17 \/ k = 18 \/ k = 19
  BY SMT
<1> QED BY <1>1, SMT DEF VendorNames

LEMMA NamesLess ==
  ASSUME NEW c, NEW j \in RowsFor(c), NEW k \in RowsFor(c), j < k
  PROVE  Named(k) < Named(j)
<1> DEFINE nj == {n \in 1 .. 3 : ClassNames[j][n] # Any}
           nk == {n \in 1 .. 3 : ClassNames[k][n] # Any}
<1>1. j \in 1 .. Len(ClassNames) /\ k \in 1 .. Len(ClassNames)
  BY TablesTyped DEF RowsFor
<1>3. ~Apart(ClassNames[j], ClassNames[k])
  <2> SUFFICES ASSUME NEW n \in 1 .. 3, ClassNames[j][n] # Any, ClassNames[k][n] # Any
               PROVE  ClassNames[j][n] = ClassNames[k][n]
    BY DEF Apart
  <2> QED BY DEF RowsFor
<1>4. Narrower(ClassNames[j], ClassNames[k])
  BY <1>1, <1>3, ClassNamesOrdered DEF Ordered
<1>5. nk \subseteq nj /\ nk # nj
  BY <1>4 DEF Narrower
<1>6. IsFiniteSet(nj) /\ IsFiniteSet(nk)
  <2>1. IsFiniteSet(1 .. 3)
    BY 1 \in Int, 3 \in Int, FS_Interval, Zenon
  <2> QED BY <2>1, FS_Subset
<1> HIDE DEF nj, nk
<1>7. Cardinality(nk) \in Nat /\ Cardinality(nj) \in Nat /\ Cardinality(nk) < Cardinality(nj)
  BY <1>5, <1>6, FS_Subset, FS_CardinalityType
<1> QED BY <1>7 DEF Named, nj, nk

-----------------------------------------------------------------------------
(* How far the two lookups have come: the rows before the counter are not for
   the function, and what was found is the first row that is. *)
ClassCode == IF Answers THEN device.class ELSE AllOnesDword

VendorsPassed(n) == \A k \in 1 .. 19 : k < n => VendorNames[k] # VendorId

ClassesPassed(n) == \A k \in 1 .. Len(ClassNames) : k < n => ~RowMatches(k)

VendorInv ==
  /\ pc = "vendor" => vendor = 0 /\ VendorsPassed(i)
  /\ pc # "vendor" => IF vendor = 0 THEN VendorsPassed(20) ELSE VendorNames[vendor] = VendorId

ClassInv ==
  /\ pc # "vendor" => dword = ClassCode
  /\ pc \in {"vendor", "class"} => class = 0
  /\ pc = "class" => ClassesPassed(i)
  /\ pc \in {"type", "done"} =>
       IF class = 0 THEN ClassesPassed(Len(ClassNames) + 1)
       ELSE RowMatches(class) /\ ClassesPassed(class)

TypeInv ==
  /\ pc \in {"vendor", "type"} => type = "none"
  /\ pc = "done" => type # "none"
  /\ type # "none" => type = PciTypeName(BaseClassRead)

IInv == TypeOK /\ VendorInv /\ ClassInv /\ TypeInv

LEMMA DeviceTyped ==
  ASSUME TypeOK
  PROVE  /\ device.class \in [1 .. 4 -> Byte]
         /\ ClassCode \in [1 .. 4 -> Byte] /\ AllOnesDword \in [1 .. 4 -> Byte]
<1>1. device.class \in [1 .. 4 -> Byte]
  BY DeviceAssumption, SMT DEF TypeOK
<1>2. AllOnesDword \in [1 .. 4 -> Byte]
  BY DEF AllOnesDword, Byte
<1> QED BY <1>1, <1>2, SMT DEF ClassCode

LEMMA InitInv == Init => IInv
<1> SUFFICES ASSUME Init PROVE IInv
  OBVIOUS
<1>1. AllOnesDword \in [1 .. 4 -> Byte]
  BY DEF AllOnesDword, Byte
<1>2. TypeOK
  BY <1>1, TablesTyped DEF Init, TypeOK
<1>3. VendorInv
  BY DEF Init, VendorInv, VendorsPassed
<1> QED BY <1>2, <1>3 DEF Init, IInv, ClassInv, TypeInv

LEMMA PassVendorInv == IInv /\ PassVendor => IInv'
<1> SUFFICES ASSUME IInv, PassVendor PROVE IInv'
  OBVIOUS
<1>1. TypeOK'
  BY TablesTyped DEF IInv, TypeOK, PassVendor, MoreVendors
<1>2. VendorInv'
  <2>1. VendorsPassed(i) /\ VendorNames[i] # VendorId /\ i \in Nat
    BY TablesTyped DEF IInv, VendorInv, TypeOK, PassVendor
  <2>2. VendorsPassed(i + 1)
    BY <2>1 DEF VendorsPassed
  <2>3. VendorsPassed(i)'
    BY <2>2 DEF PassVendor, VendorsPassed, VendorId, Answers
  <2> QED BY <2>3 DEF IInv, VendorInv, PassVendor
<1>3. ClassInv' /\ TypeInv'
  BY DEF IInv, ClassInv, TypeInv, PassVendor
<1> QED BY <1>1, <1>2, <1>3 DEF IInv

LEMMA EndVendorInv == IInv /\ EndVendor => IInv'
<1> SUFFICES ASSUME IInv, EndVendor PROVE IInv'
  OBVIOUS
<1>1. Answers' = Answers /\ VendorId' = VendorId /\ ClassCode' = ClassCode
  BY DEF EndVendor, Answers, VendorId, ClassCode
<1>2. i \in 1 .. 20 /\ VendorsPassed(i)
  BY TablesTyped DEF IInv, VendorInv, TypeOK, EndVendor
<1>3. MoreVendors <=> i <= 19
  BY TablesTyped DEF MoreVendors
<1>4. TypeOK'
  <2>1. dword' = ClassCode /\ ClassCode \in [1 .. 4 -> Byte]
    BY DeviceTyped DEF IInv, EndVendor, ClassCode
  <2>2. vendor' \in 0 .. Len(VendorNames)
    BY <1>2, <1>3, TablesTyped DEF EndVendor
  <2>3. i' \in 1 .. (IF pc' = "vendor" THEN Len(VendorNames) ELSE Len(ClassNames)) + 1
    BY TablesTyped DEF EndVendor
  <2>4. /\ device \in Devices /\ table \in Tables /\ class \in 0 .. Len(ClassNames)
        /\ type \in {"none", "Bridge", "Device", "blank", "Controller"}
    BY DEF IInv, TypeOK
  <2>5. device' \in Devices /\ table' \in Tables /\ class' \in 0 .. Len(ClassNames)
        /\ type' \in {"none", "Bridge", "Device", "blank", "Controller"} /\ pc' = "class"
    BY <2>4 DEF EndVendor
  <2> QED BY <2>1, <2>2, <2>3, <2>5 DEF TypeOK
<1>5. VendorInv'
  <2>1. CASE MoreVendors
    BY <1>1, <1>2, <1>3, <2>1 DEF EndVendor, VendorInv
  <2>2. CASE ~MoreVendors
    <3>1. i = 20
      BY <1>2, <1>3, <2>2
    <3>2. VendorsPassed(20)'
      BY <1>1, <1>2, <3>1 DEF VendorsPassed
    <3> QED BY <2>2, <3>2 DEF EndVendor, VendorInv
  <2> QED BY <2>1, <2>2
<1>6. ClassInv'
  <2>1. dword' = ClassCode /\ pc' = "class" /\ i' = 1 /\ class' = 0
    BY DEF EndVendor, ClassCode, IInv, ClassInv
  <2>2. ClassesPassed(i)'
    BY <2>1 DEF ClassesPassed
  <2> QED BY <1>1, <2>1, <2>2 DEF ClassInv
<1>7. TypeInv'
  BY DEF IInv, TypeInv, EndVendor
<1> QED BY <1>4, <1>5, <1>6, <1>7 DEF IInv

LEMMA PassClassInv == IInv /\ PassClass => IInv'
<1> SUFFICES ASSUME IInv, PassClass PROVE IInv'
  OBVIOUS
<1>1. TypeOK'
  BY TablesTyped DEF IInv, TypeOK, PassClass, MoreClasses
<1>2. ClassesPassed(i) /\ ~RowMatches(i) /\ i \in Nat
  BY TablesTyped DEF IInv, ClassInv, TypeOK, PassClass
<1>3. ClassesPassed(i + 1)
  BY <1>2, TablesTyped DEF ClassesPassed
<1>4. ClassesPassed(i)'
  BY <1>3 DEF PassClass, ClassesPassed, RowMatches, FieldOf
<1>5. ClassInv'
  BY <1>4 DEF IInv, ClassInv, PassClass, ClassCode, Answers
<1>6. VendorInv' /\ TypeInv'
  BY DEF IInv, VendorInv, TypeInv, PassClass, VendorsPassed, VendorId, Answers, BaseClassRead
<1> QED BY <1>1, <1>5, <1>6 DEF IInv

LEMMA EndClassInv == IInv /\ EndClass => IInv'
<1> SUFFICES ASSUME IInv, EndClass PROVE IInv'
  OBVIOUS
<1>1. i \in 1 .. Len(ClassNames) + 1 /\ ClassesPassed(i) /\ (MoreClasses => RowMatches(i))
  BY DEF IInv, ClassInv, TypeOK, EndClass
<1>2. TypeOK'
  BY <1>1, TablesTyped DEF IInv, TypeOK, EndClass, MoreClasses
<1>3. ClassInv'
  <2>1. /\ dword' = ClassCode /\ ClassCode' = ClassCode /\ dword' = dword
        /\ pc' \in {"type", "done"}
    BY DEF IInv, ClassInv, EndClass, ClassCode, Answers
  <2>2. CASE MoreClasses
    <3>1. class' = i /\ i # 0
      BY <1>1, <2>2 DEF EndClass
    <3>2. RowMatches(class)' /\ ClassesPassed(class)'
      BY <1>1, <2>1, <2>2, <3>1 DEF RowMatches, FieldOf, ClassesPassed
    <3> QED BY <2>1, <3>1, <3>2 DEF ClassInv
  <2>3. CASE ~MoreClasses
    <3>1. class' = 0
      BY <2>3 DEF EndClass
    <3>2. i = Len(ClassNames) + 1
      BY <1>1, <2>3, TablesTyped DEF MoreClasses
    <3>3. ClassesPassed(Len(ClassNames) + 1)'
      BY <1>1, <2>1, <3>2 DEF RowMatches, FieldOf, ClassesPassed
    <3> QED BY <2>1, <3>1, <3>3 DEF ClassInv
  <2> QED BY <2>2, <2>3
<1>4. VendorInv'
  BY DEF IInv, VendorInv, EndClass, VendorsPassed, VendorId, Answers
<1>5. TypeInv'
  BY DEF IInv, TypeInv, EndClass, BaseClassRead, Answers
<1> QED BY <1>2, <1>3, <1>4, <1>5 DEF IInv

LEMMA LookUpTypeInv == IInv /\ LookUpType => IInv'
<1> SUFFICES ASSUME IInv, LookUpType PROVE IInv'
  OBVIOUS
<1>1. type' = PciTypeName(BaseClassRead) /\ BaseClassRead' = BaseClassRead
  BY DEF LookUpType, BaseClassRead, Answers
<1>2. \A b : PciTypeName(b) \in {"Bridge", "Device", "blank", "Controller"}
  BY Zenon DEF PciTypeName
<1>3. TypeOK'
  BY <1>1, <1>2 DEF IInv, TypeOK, LookUpType
<1>4. ClassInv'
  BY DEF IInv, ClassInv, LookUpType, ClassCode, Answers, ClassesPassed, RowMatches, FieldOf
<1>5. VendorInv'
  BY DEF IInv, VendorInv, LookUpType, VendorsPassed, VendorId, Answers
<1>6. TypeInv'
  BY <1>1, <1>2 DEF TypeInv, LookUpType
<1> QED BY <1>3, <1>4, <1>5, <1>6 DEF IInv

LEMMA NextInv == IInv /\ [Next]_vars => IInv'
<1> SUFFICES ASSUME IInv, [Next]_vars PROVE IInv'
  OBVIOUS
<1>1. CASE UNCHANGED vars
  BY <1>1 DEF vars, IInv, TypeOK, VendorInv, ClassInv, TypeInv, VendorsPassed, ClassesPassed,
              RowMatches, FieldOf, VendorId, ClassCode, Answers, BaseClassRead
<1> QED
  BY <1>1, PassVendorInv, EndVendorInv, PassClassInv, EndClassInv, LookUpTypeInv DEF Next

LEMMA AlwaysInv == Spec => []IInv
  BY InitInv, NextInv, PTL DEF Spec

(* For every function and table: every variable keeps its type, and the loops
   look at no row beyond their table. *)
THEOREM TypeCorrect == Spec => []TypeOK
<1>1. IInv => TypeOK
  BY DEF IInv
<1> QED BY <1>1, AlwaysInv, PTL

(* For every function and table: PciVendorName finds the vendor's row if there
   is one, and no name for a function that no read reaches. *)
THEOREM NamesVendorCorrect == Spec => []NamesVendor
<1>1. IInv => NamesVendor
  <2> SUFFICES ASSUME IInv, pc = "done"
               PROVE  IF Answers /\ \E k \in DOMAIN VendorNames : VendorNames[k] = device.vendor
                        THEN vendor # 0 /\ VendorNames[vendor] = device.vendor
                        ELSE vendor = 0
    BY DEF NamesVendor
  <2>1. /\ IF vendor = 0 THEN VendorsPassed(20) ELSE VendorNames[vendor] = VendorId
        /\ vendor \in 0 .. 19
    BY TablesTyped DEF IInv, VendorInv, TypeOK
  <2>2. CASE Answers
    <3>1. VendorId = device.vendor
      BY <2>2 DEF VendorId
    <3>2. CASE vendor = 0
      <4>1. \A k \in 1 .. 19 : VendorNames[k] # device.vendor
        BY <2>1, <3>1, <3>2 DEF VendorsPassed
      <4> QED BY <3>2, <4>1, TablesTyped
    <3>3. CASE vendor # 0
      <4>1. vendor \in DOMAIN VendorNames
        BY <2>1, <3>3, TablesTyped
      <4> QED BY <2>1, <2>2, <3>1, <3>3, <4>1
    <3> QED BY <3>2, <3>3
  <2>3. CASE ~Answers
    <3>1. VendorId = 65535
      BY <2>3 DEF VendorId
    <3> QED BY <2>1, <2>3, <3>1, NobodyIsAllOnes
  <2> QED BY <2>2, <2>3
<1> QED BY <1>1, AlwaysInv, PTL

LEMMA MatchesClass ==
  ASSUME IInv, pc # "vendor", NEW k \in 1 .. Len(ClassNames)
  PROVE  RowMatches(k) <=> k \in RowsFor(ClassCode)
<1>1. dword = ClassCode
  BY DEF IInv, ClassInv
<1>2. /\ FieldOf(24) = ClassCode[4] /\ FieldOf(16) = ClassCode[3] /\ FieldOf(8) = ClassCode[2]
  <2>1. 24 \div 8 + 1 = 4 /\ 16 \div 8 + 1 = 3 /\ 8 \div 8 + 1 = 2
    OBVIOUS
  <2> QED BY <1>1, <2>1 DEF FieldOf
<1> DEFINE c == ClassCode
           r == ClassNames[k]
<1>3. k \in RowsFor(c) <=> \A n \in 1 .. 3 : r[n] = c[5 - n] \/ (n > 1 /\ r[n] = Any)
  BY TablesTyped DEF RowsFor
<1> HIDE DEF c, r
<1>4. (\A n \in 1 .. 3 : r[n] = c[5 - n] \/ (n > 1 /\ r[n] = Any))
        <=> /\ r[1] = c[4] /\ r[2] \in {c[3], Any} /\ r[3] \in {c[2], Any}
  <2>1. 5 - 1 = 4 /\ 5 - 2 = 3 /\ 5 - 3 = 2
    OBVIOUS
  <2>2. \A n \in 1 .. 3 : n = 1 \/ n = 2 \/ n = 3
    OBVIOUS
  <2> QED BY <2>1, <2>2
<1> QED BY <1>2, <1>3, <1>4 DEF RowMatches, c, r

(* For every function and table: of all rows for the class code PciClassName
   finds the one that names most of it. *)
THEOREM NamesClassBestCorrect == Spec => []NamesClassBest
<1>1. IInv => NamesClassBest
  <2> SUFFICES ASSUME IInv, pc = "done", Answers
               PROVE  IF RowsFor(device.class) = {} THEN class = 0
                      ELSE /\ class \in RowsFor(device.class)
                           /\ \A k \in RowsFor(device.class) \ {class} : Named(k) < Named(class)
    BY DEF NamesClassBest
  <2>1. ClassCode = device.class
    BY DEF ClassCode
  <2>2. \A k \in RowsFor(device.class) : k \in 1 .. Len(ClassNames) /\ RowMatches(k)
    <3>1. \A k \in RowsFor(device.class) : k \in 1 .. Len(ClassNames)
      BY TablesTyped DEF RowsFor
    <3> QED BY <2>1, <3>1, MatchesClass
  <2>3. IF class = 0 THEN ClassesPassed(Len(ClassNames) + 1)
        ELSE RowMatches(class) /\ ClassesPassed(class)
    BY DEF IInv, ClassInv
  <2>4. class \in 0 .. Len(ClassNames) /\ Len(ClassNames) \in Nat
    BY TablesTyped DEF IInv, TypeOK
  <2>5. CASE class = 0
    <3>1. \A k \in 1 .. Len(ClassNames) : ~RowMatches(k)
      BY <2>3, <2>4, <2>5 DEF ClassesPassed
    <3> QED BY <2>2, <2>5, <3>1
  <2>6. CASE class # 0
    <3>1. class \in 1 .. Len(ClassNames)
      BY <2>4, <2>6
    <3>2. class \in RowsFor(device.class)
      BY <2>1, <2>3, <2>6, <3>1, MatchesClass
    <3>3. ASSUME NEW k \in RowsFor(device.class) \ {class} PROVE Named(k) < Named(class)
      <4>1. ~(k < class)
        BY <2>2, <2>3, <2>6 DEF ClassesPassed
      <4>2. class < k
        BY <2>2, <3>1, <4>1
      <4> QED BY <3>2, <4>2, NamesLess
    <3> QED BY <3>2, <3>3
  <2> QED BY <2>5, <2>6
<1> QED BY <1>1, AlwaysInv, PTL

(* For every function and table: the word behind a class name is that of its
   base class, whichever of the two is looked up first, and an absent function
   has neither a class name nor a word of another class. *)
THEOREM ReadsAgreeCorrect == Spec => []ReadsAgree
<1>1. IInv => ReadsAgree
  <2> SUFFICES ASSUME IInv, pc = "done"
               PROVE  /\ class # 0 => type = PciTypeName(ClassNames[class][1])
                      /\ ~Answers => class = 0 /\ type = "Controller"
    BY DEF ReadsAgree
  <2>1. dword = ClassCode /\ type = PciTypeName(BaseClassRead) /\ (class # 0 => RowMatches(class))
    BY DEF IInv, ClassInv, TypeInv
  <2>2. FieldOf(24) = BaseClassRead
    <3>1. 24 \div 8 + 1 = 4
      OBVIOUS
    <3>2. AllOnesDword[4] = 255
      BY DEF AllOnesDword
    <3> QED BY <2>1, <3>1, <3>2 DEF FieldOf, BaseClassRead, ClassCode
  <2>3. class # 0 => ClassNames[class][1] = BaseClassRead
    BY <2>1, <2>2 DEF RowMatches
  <2>4. ASSUME ~Answers PROVE class = 0 /\ type = "Controller"
    <3>1. BaseClassRead = 255
      BY <2>4 DEF BaseClassRead
    <3>2. class = 0
      <4> SUFFICES ASSUME class # 0 PROVE FALSE
        OBVIOUS
      <4>1. class \in 1 .. Len(ClassNames)
        BY TablesTyped DEF IInv, TypeOK
      <4>2. ClassNames[class][1] \in 0 .. 17
        BY <4>1, TablesTyped
      <4> QED BY <2>3, <3>1, <4>2
    <3>3. PciTypeName(255) = "Controller"
      <4>1. 255 # 6 /\ 255 \notin {4, 9} /\ 255 # 8
        OBVIOUS
      <4> QED BY <4>1, Zenon DEF PciTypeName
    <3> QED BY <2>1, <3>1, <3>2, <3>3
  <2> QED BY <2>1, <2>3, <2>4
<1> QED BY <1>1, AlwaysInv, PTL
=============================================================================

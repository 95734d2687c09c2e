-------------------------- MODULE CliParserProofs --------------------------
(***************************************************************************)
(* Proofs about CliParser, for every command line: its type invariant;     *)
(* that ParseArguments frees what the shell library allocated on each of   *)
(* its ways out; that it accepts the language of README.md's usage, with   *)
(* the options that were said.  The argument of the last two: what is left *)
(* of an address at each of its fields decides whether it is one, and      *)
(* holds the values of the fields not yet read.                            *)
(***************************************************************************)
EXTENDS CliParser, SequenceTheorems, FiniteSetTheorems, TLAPS

(* The rest of the text is a sequence of numbers and codes. *)
CursorInv == Cursor \in Seq(Int)

(* What is allocated where: a problem parameter until it is reported, the
   package from the end of the parse to its release. *)
HeldInv ==
  /\ pc \in {"parse", "done"} => held = {}
  /\ pc = "report" => held \subseteq {"problem"}
  /\ pc \notin {"parse", "done", "report"} => held = {"package"}

IInv == TypeOK /\ CursorInv /\ HeldInv

Fields == {"Seg", "Bus", "Dev", "Fun"}

-----------------------------------------------------------------------------
(* The texts the shell library finds are sequences of integers. *)
LEMMA TextsAreSequences == Texts \subseteq Seq(Int)
<1>1. Seq(Nat \cup {Colon, Dot, Other}) \subseteq Seq(Int)
  <2>1. SUFFICES ASSUME NEW s \in Seq(Nat \cup {Colon, Dot, Other}) PROVE s \in Seq(Int)
    OBVIOUS
  <2>2. /\ Len(s) \in Nat /\ DOMAIN s = 1 .. Len(s)
        /\ \A i \in 1 .. Len(s) : s[i] \in Nat \cup {Colon, Dot, Other}
    BY ElementOfSeq, LenProperties
  <2>3. s \in [1 .. Len(s) -> Int]
    <3>1. s = [i \in 1 .. Len(s) |-> s[i]]
      BY <2>1, <2>2, SeqDef
    <3>2. \A i \in 1 .. Len(s) : s[i] \in Int
      BY <2>2 DEF Colon, Dot, Other
    <3> QED BY <3>1, <3>2
  <2> QED BY <2>2, <2>3, SeqDef
<1>2. AllWord \in Seq(Int) /\ TreeWord \in Seq(Int)
  BY DEF AllWord, TreeWord
<1> QED BY <1>1, <1>2 DEF Texts

LEMMA FirstParameter ==
  ASSUME command \in CommandLines, command.params # <<>>
  PROVE  command.params[1] \in Seq(Int)
<1>1. command.params \in Seq(Texts)
  BY CommandLineAssumption DEF CommandLine
<1>2. 1 \in 1 .. Len(command.params)
  BY <1>1, EmptySeq, LenProperties
<1>3. command.params[1] \in Texts
  BY <1>1, <1>2, ElementOfSeq
<1> QED BY <1>3, TextsAreSequences

(* A conversion yields a number of 64 bits, and a rest that is a text. *)
LEMMA ConvertType ==
  ASSUME NEW text \in Seq(Int)
  PROVE  Convert(text).Value \in 0 .. MaxUint64 /\ Convert(text).End \in Seq(Int)
<1>1. MaxUint64 \in Nat
  BY MaxAssumption
<1>2. CASE text = <<>> \/ text[1] < 0
  BY <1>1, <1>2 DEF Convert
<1>3. CASE ~(text = <<>> \/ text[1] < 0)
  <2>1. text # <<>> /\ text[1] \in Nat /\ Tail(text) \in Seq(Int)
    <3>1. 1 \in 1 .. Len(text)
      BY <1>3, EmptySeq, LenProperties
    <3>2. text[1] \in Int
      BY <3>1, ElementOfSeq
    <3>3. Tail(text) \in Seq(Int)
      BY <1>3, HeadTailProperties
    <3> QED BY <1>3, <3>2, <3>3
  <2>2. <<9>> \o Tail(text) \in Seq(Int)
    <3>1. <<9>> \in Seq(Int)
      OBVIOUS
    <3> QED BY <2>1, <3>1, ConcatProperties
  <2>3. CASE text[1] > MaxUint64
    BY <1>1, <1>3, <2>2, <2>3 DEF Convert
  <2>4. CASE ~(text[1] > MaxUint64)
    BY <1>1, <1>3, <2>1, <2>4 DEF Convert
  <2> QED BY <2>3, <2>4
<1> QED BY <1>2, <1>3

(* The options before and after an assignment to one of them. *)
LEMMA SmallNumbers ==
  /\ 0 \in UINT16 /\ 1 \in UINT16 /\ 0 \in UINT8 /\ 1 \in UINT8
  /\ 0 \in 0 .. 32 /\ 8 \in 0 .. 32 /\ 16 \in 0 .. 32 /\ 32 \in 0 .. 32
BY SMT DEF UINT16, MAX_UINT16, UINT8

LEMMA ZeroOptionsType == ZeroOptions \in PCI_CLI_OPTIONS
BY SmallNumbers, Zenon DEF ZeroOptions, PCI_CLI_OPTIONS, Modes

LEMMA ZeroOptionsOK ==
  ZeroOptions \in PCI_CLI_OPTIONS /\ ZeroOptions.Dev = 0 /\ ZeroOptions.Fun = 0
  /\ ZeroOptions.ReadType = 0
BY ZeroOptionsType, Zenon DEF ZeroOptions

LEMMA LeftoversOK ==
  ASSUME NEW o \in Leftovers
  PROVE  o \in PCI_CLI_OPTIONS /\ o.Dev = 1 /\ o.Fun = 1 /\ o.ReadType = 8
<1>1. PICK m \in Modes :
        o = [Mode |-> m, ExtendFlag |-> TRUE, Seg |-> 1, Bus |-> 1, Dev |-> 1, Fun |-> 1,
             ReadType |-> 8]
  BY SMT DEF Leftovers
<1>2. o \in PCI_CLI_OPTIONS
  BY <1>1, SmallNumbers, Zenon DEF PCI_CLI_OPTIONS
<1>3. o.Dev = 1 /\ o.Fun = 1 /\ o.ReadType = 8
  BY <1>1, Zenon
<1> QED BY <1>2, <1>3

LEMMA AssignFields ==
  ASSUME NEW o \in PCI_CLI_OPTIONS
  PROVE  /\ \A v \in UINT16 :
              /\ [o EXCEPT !.Seg = v] \in PCI_CLI_OPTIONS
              /\ [o EXCEPT !.Seg = v].Dev = o.Dev
              /\ [o EXCEPT !.Seg = v].Fun = o.Fun
              /\ [o EXCEPT !.Seg = v].ReadType = o.ReadType
         /\ \A v \in UINT8 :
              /\ [o EXCEPT !.Bus = v] \in PCI_CLI_OPTIONS
              /\ [o EXCEPT !.Bus = v].Dev = o.Dev
              /\ [o EXCEPT !.Bus = v].Fun = o.Fun
              /\ [o EXCEPT !.Bus = v].ReadType = o.ReadType
         /\ \A v \in UINT8 :
              /\ [o EXCEPT !.Dev = v] \in PCI_CLI_OPTIONS
              /\ [o EXCEPT !.Dev = v].Dev = v
              /\ [o EXCEPT !.Dev = v].Fun = o.Fun
              /\ [o EXCEPT !.Dev = v].ReadType = o.ReadType
         /\ \A v \in UINT8 :
              /\ [o EXCEPT !.Fun = v] \in PCI_CLI_OPTIONS
              /\ [o EXCEPT !.Fun = v].Dev = o.Dev
              /\ [o EXCEPT !.Fun = v].Fun = v
              /\ [o EXCEPT !.Fun = v].ReadType = o.ReadType
BY Zenon DEF PCI_CLI_OPTIONS

LEMMA AssignOthers ==
  ASSUME NEW o \in PCI_CLI_OPTIONS
  PROVE  /\ \A v \in Modes :
              /\ [o EXCEPT !.Mode = v] \in PCI_CLI_OPTIONS
              /\ [o EXCEPT !.Mode = v].Dev = o.Dev
              /\ [o EXCEPT !.Mode = v].Fun = o.Fun
              /\ [o EXCEPT !.Mode = v].ReadType = o.ReadType
         /\ \A v \in BOOLEAN :
              /\ [o EXCEPT !.ExtendFlag = v] \in PCI_CLI_OPTIONS
              /\ [o EXCEPT !.ExtendFlag = v].Dev = o.Dev
              /\ [o EXCEPT !.ExtendFlag = v].Fun = o.Fun
              /\ [o EXCEPT !.ExtendFlag = v].ReadType = o.ReadType
         /\ \A v \in 0 .. 32 :
              /\ [o EXCEPT !.ReadType = v] \in PCI_CLI_OPTIONS
              /\ [o EXCEPT !.ReadType = v].Dev = o.Dev
              /\ [o EXCEPT !.ReadType = v].Fun = o.Fun
              /\ [o EXCEPT !.ReadType = v].ReadType = v
BY Zenon DEF PCI_CLI_OPTIONS

LEMMA DomainOfField == DOMAIN Field = Fields
BY SMT DEF Field, Fields

(* A value that fits its field is within the field's maximum, and its width
   does not change it. *)
LEMMA FittingValue ==
  ASSUME Cursor \in Seq(Int), NEW p \in Fields, FieldFits(Field[p], Convert(Cursor))
  PROVE  /\ Convert(Cursor).Value % Field[p].Width = Convert(Cursor).Value
         /\ Convert(Cursor).Value \in 0 .. Field[p].MaxValue
<1> DEFINE v == Convert(Cursor).Value
<1>1. v \in Nat
  BY ConvertType, MaxAssumption
<1>2. v <= Field[p].MaxValue
  BY DEF FieldFits
<1>3. /\ Field[p].MaxValue \in Nat /\ Field[p].Width \in Nat
      /\ Field[p].MaxValue < Field[p].Width
  BY SMT DEF Field, Fields, MAX_UINT16
<1> HIDE DEF v
<1>4. ASSUME NEW m \in Nat, NEW w \in Nat, v <= m, m < w PROVE v % w = v
  BY <1>1, <1>4, SMT
<1>5. v % Field[p].Width = v
  BY <1>2, <1>3, <1>4
<1>6. v \in 0 .. Field[p].MaxValue
  BY <1>1, <1>2, <1>3
<1> QED BY <1>5, <1>6 DEF v

LEMMA RestOfField ==
  ASSUME Cursor \in Seq(Int), NEW p \in Fields, FieldFits(Field[p], Convert(Cursor))
  PROVE  /\ Field[p].Terminator = Nul => Convert(Cursor).End \in Seq(Int)
         /\ Field[p].Terminator # Nul => Tail(Convert(Cursor).End) \in Seq(Int)
<1> DEFINE e == Convert(Cursor).End
<1>1. e \in Seq(Int)
  BY ConvertType
<1>2. ASSUME Field[p].Terminator # Nul PROVE Tail(e) \in Seq(Int)
  <2>1. e # <<>>
    BY <1>2 DEF FieldFits, At
  <2> HIDE DEF e
  <2> QED BY <1>1, <2>1, HeadTailProperties
<1> QED BY <1>1, <1>2

-----------------------------------------------------------------------------
LEMMA InitInvariant == Init => IInv
<1> SUFFICES ASSUME Init PROVE IInv
  OBVIOUS
<1>1. Options \in PCI_CLI_OPTIONS /\ Options.Dev = 1 /\ Options.Fun = 1 /\ Options.ReadType = 8
  BY LeftoversOK DEF Init
<1>3. TypeOK
  BY <1>1, SMT DEF Init, TypeOK, Results
<1>2. CursorInv /\ HeldInv
  BY DEF Init, CursorInv, HeldInv
<1> QED BY <1>2, <1>3 DEF IInv

(* ParseField is the step that moves values into the options. *)
LEMMA ParseFieldInvariant ==
  ASSUME IInv, ParseField PROVE IInv'
<1> DEFINE f == Field[pc]
           c == Convert(Cursor)
<1>1. pc \in Fields
  BY DomainOfField DEF ParseField
<1>2. Cursor \in Seq(Int) /\ held = {"package"}
  BY <1>1 DEF IInv, CursorInv, HeldInv, Fields
<1>3. CASE FieldFits(f, c)
  <2>1. /\ Options' = [Options EXCEPT ![pc] = c.Value % f.Width]
        /\ Cursor' = IF f.Terminator = Nul THEN c.End ELSE Tail(c.End)
        /\ pc' = f.next
        /\ UNCHANGED <<command, Result, held>>
    BY <1>3 DEF ParseField
  <2>2. c.Value % f.Width = c.Value /\ c.Value \in 0 .. f.MaxValue
    BY <1>1, <1>2, <1>3, FittingValue
  <2>3. Cursor' \in Seq(Int)
    BY <1>1, <1>2, <1>3, <2>1, RestOfField
  <2> DEFINE v == c.Value
  <2>4. Options' = [Options EXCEPT ![pc] = v] /\ v \in 0 .. f.MaxValue
    BY <2>1, <2>2
  <2> HIDE DEF v, c
  <2>5. /\ Options' \in PCI_CLI_OPTIONS
        /\ Options'.Dev <= 31 /\ Options'.Fun <= 7 /\ Options'.ReadType = Options.ReadType
    <3>1. Options \in PCI_CLI_OPTIONS /\ Options.Dev <= 31 /\ Options.Fun <= 7
      BY DEF IInv, TypeOK
    <3>2. CASE pc = "Seg"
      <4>1. v \in UINT16
        BY <2>4, <3>2, SMT DEF Field, UINT16
      <4>2. Options' = [Options EXCEPT !.Seg = v]
        BY <2>4, <3>2, Zenon
      <4> QED BY <3>1, <4>1, <4>2, AssignFields
    <3>3. CASE pc = "Bus"
      <4>1. v \in UINT8
        BY <2>4, <3>3, SMT DEF Field, UINT8
      <4>2. Options' = [Options EXCEPT !.Bus = v]
        BY <2>4, <3>3, Zenon
      <4> QED BY <3>1, <4>1, <4>2, AssignFields
    <3>4. CASE pc = "Dev"
      <4>1. v \in UINT8 /\ v <= 31
        BY <2>4, <3>4, SMT DEF Field, UINT8
      <4>2. Options' = [Options EXCEPT !.Dev = v]
        BY <2>4, <3>4, Zenon
      <4> QED BY <3>1, <4>1, <4>2, AssignFields
    <3>5. CASE pc = "Fun"
      <4>1. v \in UINT8 /\ v <= 7
        BY <2>4, <3>5, SMT DEF Field, UINT8
      <4>2. Options' = [Options EXCEPT !.Fun = v]
        BY <2>4, <3>5, Zenon
      <4> QED BY <3>1, <4>1, <4>2, AssignFields
    <3> QED BY <1>1, <3>2, <3>3, <3>4, <3>5 DEF Fields
  <2>6. pc' \in {"Bus", "Dev", "Fun", "single"}
    BY <1>1, <2>1, SMT DEF Field, Fields
  <2>7. TypeOK'
    BY <2>1, <2>5, <2>6, DomainOfField DEF IInv, TypeOK, Fields
  <2>8. HeldInv'
    BY <1>2, <2>1, <2>6 DEF HeldInv
  <2> QED BY <2>3, <2>7, <2>8 DEF IInv, CursorInv
<1>4. CASE ~FieldFits(f, c)
  <2>1. Fail /\ UNCHANGED Options
    BY <1>4 DEF ParseField
  <2> QED BY <1>2, <2>1 DEF Fail, IInv, TypeOK, CursorInv, HeldInv, Results
<1> QED BY <1>3, <1>4

LEMMA StepInvariant == IInv /\ [Next]_vars => IInv'
<1> SUFFICES ASSUME IInv, [Next]_vars PROVE IInv'
  OBVIOUS
<1> USE DEF IInv
<1>1. CASE UNCHANGED vars
  BY <1>1 DEF vars, TypeOK, CursorInv, HeldInv
<1>2. CASE Parse
  <2>1. TypeOK'
    BY <1>2, ZeroOptionsOK DEF Parse, TypeOK
  <2>2. CursorInv' /\ HeldInv'
    BY <1>2 DEF Parse, CursorInv, HeldInv
  <2> QED BY <2>1, <2>2
<1>3. CASE ParseFails
  <2>1. TypeOK'
    BY <1>3, ZeroOptionsOK DEF ParseFails, TypeOK
  <2>2. CursorInv' /\ HeldInv'
    BY <1>3 DEF ParseFails, CursorInv, HeldInv
  <2> QED BY <2>1, <2>2
<1>4. CASE ReportProblem
  BY <1>4 DEF ReportProblem, TypeOK, CursorInv, HeldInv, Results
<1>5. CASE Help
  BY <1>5 DEF Help, TypeOK, CursorInv, HeldInv, Results
<1>6. CASE NoHelp
  <2>1. command.x \in BOOLEAN
    BY CommandLineAssumption DEF TypeOK, CommandLine
  <2>2. /\ Options' \in PCI_CLI_OPTIONS
        /\ Options'.Dev = Options.Dev /\ Options'.Fun = Options.Fun
        /\ Options'.ReadType = Options.ReadType
    <3>1. Options' = [Options EXCEPT !.ExtendFlag = command.x] /\ Options \in PCI_CLI_OPTIONS
      BY <1>6 DEF NoHelp, TypeOK
    <3> QED BY <2>1, <3>1, AssignOthers, Zenon
  <2> QED BY <1>6, <2>2 DEF NoHelp, TypeOK, CursorInv, HeldInv
<1>7. ASSUME NEW mode \in Modes, NEW next \in {"free", "width"}, ModeIs(mode, next),
             pc \in {"mode", "single"}
      PROVE  IInv'
  <2>1. /\ Options' \in PCI_CLI_OPTIONS
        /\ Options'.Dev = Options.Dev /\ Options'.Fun = Options.Fun
        /\ Options'.ReadType = Options.ReadType
    <3>1. Options' = [Options EXCEPT !.Mode = mode] /\ Options \in PCI_CLI_OPTIONS
      BY <1>7 DEF ModeIs, TypeOK
    <3> QED BY <1>7, <3>1, AssignOthers, Zenon
  <2> QED BY <1>7, <2>1 DEF ModeIs, TypeOK, CursorInv, HeldInv
<1>8. CASE NoParameter \/ TreeParameter \/ AllParameter \/ SingleParameter
  BY <1>7, <1>8 DEF NoParameter, TreeParameter, AllParameter, SingleParameter, Parameter, Modes
<1>9. CASE BeginBdf
  <2>1. /\ Options' = [Options EXCEPT !.Seg = 0] /\ command' = command
        /\ pc = "mode" /\ command.params # <<>> /\ held' = held
    BY <1>9 DEF BeginBdf, Fail
  <2>2. \/ /\ Cursor' = command.params[1] /\ pc' \in {"Seg", "Bus"} /\ Result' = Result
        \/ /\ Cursor' = Cursor /\ pc' = "free" /\ Result' = "PciParseError"
    BY <1>9 DEF BeginBdf, Fail
  <2>3. /\ Options' \in PCI_CLI_OPTIONS
        /\ Options'.Dev = Options.Dev /\ Options'.Fun = Options.Fun
        /\ Options'.ReadType = Options.ReadType
    BY <2>1, AssignFields, SmallNumbers DEF TypeOK
  <2>4. CursorInv'
    BY <2>1, <2>2, FirstParameter DEF TypeOK, CursorInv
  <2>5. TypeOK'
    BY <2>1, <2>2, <2>3, DomainOfField DEF TypeOK, Results, Fields
  <2>6. HeldInv'
    BY <2>1, <2>2 DEF HeldInv
  <2> QED BY <2>4, <2>5, <2>6
<1>10. CASE ParseField
  BY <1>10, ParseFieldInvariant
<1>11. CASE ParseReadType
  <2> DEFINE w == WidthOf(command.r[1])
  <2>1. CASE command.r # <<>> /\ w \in {8, 16, 32}
    <3>1. /\ Options' = [Options EXCEPT !.ReadType = w] /\ pc' = "free" /\ pc = "width"
          /\ UNCHANGED <<command, Cursor, Result, held>>
      BY <1>11, <2>1 DEF ParseReadType
    <3> HIDE DEF w
    <3>2. w \in 0 .. 32
      BY <2>1, SMT
    <3>3. /\ Options' \in PCI_CLI_OPTIONS
          /\ Options'.Dev = Options.Dev /\ Options'.Fun = Options.Fun
          /\ Options'.ReadType \in {8, 16, 32}
      <4>1. Options \in PCI_CLI_OPTIONS
        BY DEF TypeOK
      <4>2. LET new == [Options EXCEPT !.ReadType = w]
            IN new \in PCI_CLI_OPTIONS /\ new.Dev = Options.Dev /\ new.Fun = Options.Fun
               /\ new.ReadType = w
        BY <3>2, <4>1, AssignOthers, Zenon
      <4> QED BY <2>1, <3>1, <4>2, Zenon
    <3> QED BY <3>1, <3>3, <2>1 DEF TypeOK, CursorInv, HeldInv
  <2>2. CASE ~(command.r # <<>> /\ w \in {8, 16, 32})
    <3>1. pc = "width" /\ Fail /\ UNCHANGED Options
      BY <1>11, <2>2 DEF ParseReadType
    <3> QED BY <3>1 DEF Fail, TypeOK, CursorInv, HeldInv, Results
  <2> QED BY <2>1, <2>2
<1>12. CASE Free
  BY <1>12 DEF Free, TypeOK, CursorInv, HeldInv
<1> QED BY <1>1, <1>2, <1>3, <1>4, <1>5, <1>6, <1>8, <1>9, <1>10, <1>11, <1>12 DEF Next

LEMMA Invariance == Spec => []IInv
BY InitInvariant, StepInvariant, PTL DEF Spec

(* Every variable of ParseArguments keeps its type; the options never hold a
   device or function number that does not exist, also after a failed parse. *)
THEOREM TypeCorrect == Spec => []TypeOK
<1>1. IInv => TypeOK
  BY DEF IInv
<1> QED BY <1>1, Invariance, PTL

(* On each of its ways out ParseArguments has freed the package and the
   problem parameter. *)
THEOREM NothingHeldCorrect == Spec => []NothingHeld
<1>1. IInv => NothingHeld
  BY DEF IInv, HeldInv, NothingHeld
<1> QED BY <1>1, Invariance, PTL

-----------------------------------------------------------------------------
(* The grammar.  A text of an address is matched from the front: what is left
   of it at each field decides. *)
First == command.params[1]

IsFullAddress(text) ==
  /\ Len(text) = 7
  /\ text[1] \in UINT16 /\ text[2] = Colon
  /\ IsBusDevFun(SubSeq(text, 3, 7))

IsDevFun(text) ==
  Len(text) = 3 /\ text[1] \in 0 .. 31 /\ text[2] = Dot /\ text[3] \in 0 .. 7

IsFun(text) == Len(text) = 1 /\ text[1] \in 0 .. 7

(* A text of the shell, or the rest of one. *)
Lexemes(text) == text \in Seq(Int) /\ \A i \in 1 .. Len(text) : text[i] # Nul

LEMMA TextsAreLexemes == \A t \in Texts : Lexemes(t)
<1> SUFFICES ASSUME NEW t \in Texts PROVE Lexemes(t)
  OBVIOUS
<1>1. t \in Seq(Int)
  BY TextsAreSequences
<1>2. ASSUME NEW i \in 1 .. Len(t) PROVE t[i] # Nul
  <2>1. CASE t \in Seq(Nat \cup {Colon, Dot, Other})
    <3>1. t[i] \in Nat \cup {Colon, Dot, Other}
      BY <1>2, <2>1, ElementOfSeq
    <3> QED BY <3>1 DEF Colon, Dot, Other, Nul
  <2>2. CASE t = AllWord
    <3>1. Len(AllWord) = 1 /\ AllWord[1] = -5
      BY DEF AllWord
    <3> QED BY <1>2, <2>2, <3>1 DEF Nul
  <2>3. CASE t = TreeWord
    <3>1. Len(TreeWord) = 1 /\ TreeWord[1] = -6
      BY DEF TreeWord
    <3> QED BY <1>2, <2>3, <3>1 DEF Nul
  <2> QED BY <2>1, <2>2, <2>3 DEF Texts
<1> QED BY <1>1, <1>2 DEF Lexemes

LEMMA TailOfText ==
  ASSUME NEW s, Lexemes(s), s # <<>>
  PROVE  /\ Lexemes(Tail(s)) /\ Len(s) \in Nat \ {0} /\ Len(Tail(s)) = Len(s) - 1
         /\ \A i \in 1 .. Len(s) - 1 : Tail(s)[i] = s[i + 1]
<1>1. s \in Seq(Int)
  BY DEF Lexemes
<1>2. /\ Tail(s) \in Seq(Int) /\ Len(Tail(s)) = Len(s) - 1
      /\ \A i \in 1 .. Len(Tail(s)) : Tail(s)[i] = s[i + 1]
  BY <1>1, HeadTailProperties
<1>3. Len(s) \in Nat \ {0}
  BY <1>1, EmptySeq
<1>4. ASSUME NEW i \in 1 .. Len(s) - 1 PROVE Tail(s)[i] # Nul
  <2>1. i + 1 \in 1 .. Len(s) /\ Tail(s)[i] = s[i + 1]
    BY <1>2, <1>3
  <2> QED BY <2>1 DEF Lexemes
<1> QED BY <1>2, <1>3, <1>4 DEF Lexemes

LEMMA NotEmpty ==
  ASSUME NEW s, Len(s) # 0
  PROVE  s # <<>>
<1>1. Len(<<>>) = 0
  BY EmptySeq
<1>2. CASE s = <<>>
  BY <1>1, <1>2, Zenon
<1> QED BY <1>2

LEMMA TailTwice ==
  ASSUME NEW s, Lexemes(s), Len(s) >= 2
  PROVE  /\ Lexemes(Tail(Tail(s))) /\ Len(Tail(Tail(s))) = Len(s) - 2
         /\ \A i \in 1 .. Len(s) - 2 : Tail(Tail(s))[i] = s[i + 2]
<1>1. s # <<>>
  BY NotEmpty, Len(s) # 0
<1>2. /\ Lexemes(Tail(s)) /\ Len(s) \in Nat \ {0} /\ Len(Tail(s)) = Len(s) - 1
      /\ \A i \in 1 .. Len(s) - 1 : Tail(s)[i] = s[i + 1]
  BY <1>1, TailOfText
<1>3. Tail(s) # <<>>
  <2>1. Len(Tail(s)) # 0
    BY <1>2
  <2> QED BY <2>1, NotEmpty, Zenon
<1>4. /\ Lexemes(Tail(Tail(s))) /\ Len(Tail(Tail(s))) = Len(s) - 2
      /\ \A i \in 1 .. Len(s) - 2 : Tail(Tail(s))[i] = Tail(s)[i + 1]
  <2>1. /\ Lexemes(Tail(Tail(s))) /\ Len(Tail(Tail(s))) = Len(Tail(s)) - 1
        /\ \A i \in 1 .. Len(Tail(s)) - 1 : Tail(Tail(s))[i] = Tail(s)[i + 1]
    BY <1>2, <1>3, TailOfText
  <2> QED BY <1>2, <2>1
<1>5. ASSUME NEW i \in 1 .. Len(s) - 2 PROVE Tail(Tail(s))[i] = s[i + 2]
  <2>1. i + 1 \in 1 .. Len(s) - 1 /\ (i + 1) + 1 = i + 2
    BY <1>2
  <2> QED BY <1>2, <1>4, <2>1
<1> QED BY <1>4, <1>5

(* What a field that fits has read: a number within its maximum, with the
   terminator behind it. *)
LEMMA FitsMeans ==
  ASSUME Lexemes(Cursor), NEW p \in Fields
  PROVE  /\ FieldFits(Field[p], Convert(Cursor)) <=>
              /\ Cursor # <<>> /\ Cursor[1] \in 0 .. Field[p].MaxValue
              /\ At(Tail(Cursor)) = Field[p].Terminator
         /\ FieldFits(Field[p], Convert(Cursor)) =>
              Convert(Cursor).Value = Cursor[1] /\ Convert(Cursor).End = Tail(Cursor)
<1> DEFINE f == Field[p]
<1>1. /\ f.MaxValue \in Nat /\ f.MaxValue <= MAX_UINT16 /\ f.Terminator < 0 /\ f.Terminator \in Int
  BY SMT DEF Field, Fields, MAX_UINT16, Colon, Dot, Nul
<1>2. MaxUint64 \in Nat /\ MaxUint64 >= MAX_UINT16 /\ MAX_UINT16 \in Nat
  <2>1. MAX_UINT16 \in Nat
    BY SMT DEF MAX_UINT16
  <2> QED BY <2>1, MaxAssumption
<1> HIDE DEF f
<1>3. CASE Cursor = <<>>
  <2>1. Convert(Cursor).End = Cursor
    BY <1>3 DEF Convert
  <2> QED BY <1>3, <2>1 DEF FieldFits, f
<1>4. CASE Cursor # <<>>
  <2>1. Cursor[1] \in Int
    <3>1. Cursor \in Seq(Int)
      BY DEF Lexemes
    <3>2. 1 \in 1 .. Len(Cursor)
      BY <1>4, <3>1, EmptySeq
    <3> QED BY <3>1, <3>2, ElementOfSeq
  <2>2. Tail(Cursor) # Cursor
    <3>1. Len(Cursor) \in Nat \ {0} /\ Len(Tail(Cursor)) = Len(Cursor) - 1
      BY <1>4, TailOfText
    <3>2. \A n \in Nat : n - 1 # n
      OBVIOUS
    <3>3. Len(Tail(Cursor)) # Len(Cursor)
      BY <3>1, <3>2, Zenon
    <3> QED BY <3>3, Zenon
  <2>3. CASE Cursor[1] < 0
    <3>1. Convert(Cursor).End = Cursor
      BY <2>3 DEF Convert
    <3>2. Cursor[1] \notin 0 .. f.MaxValue
      BY <1>1, <2>1, <2>3
    <3> QED BY <3>1, <3>2 DEF FieldFits, f
  <2>4. CASE Cursor[1] > MaxUint64
    <3>1. Convert(Cursor).Value = MaxUint64 /\ Convert(Cursor).End = <<9>> \o Tail(Cursor)
      BY <1>2, <1>4, <2>1, <2>4 DEF Convert
    <3>2. At(Convert(Cursor).End) = 9
      <4>1. Tail(Cursor) \in Seq(Int) /\ <<9>> \in Seq(Int) /\ Len(<<9>>) = 1 /\ <<9>>[1] = 9
        BY <1>4, TailOfText DEF Lexemes
      <4> DEFINE e == <<9>> \o Tail(Cursor)
      <4>2. Len(e) = 1 + Len(Tail(Cursor)) /\ e[1] = 9
        BY <4>1
      <4>3. Len(Tail(Cursor)) \in Nat
        BY <4>1
      <4>4. e # <<>>
        <5>1. Len(<<>>) = 0
          BY EmptySeq
        <5> HIDE DEF e
        <5> QED BY <4>2, <4>3, <5>1
      <4> HIDE DEF e
      <4>5. Convert(Cursor).End = e
        BY <3>1 DEF e
      <4> QED BY <4>2, <4>4, <4>5 DEF At
    <3>3. Cursor[1] \notin 0 .. f.MaxValue
      BY <1>1, <1>2, <2>1, <2>4
    <3>4. ~FieldFits(f, Convert(Cursor))
      BY <1>1, <3>2 DEF FieldFits
    <3> QED BY <3>3, <3>4 DEF f
  <2>5. CASE ~(Cursor[1] < 0) /\ ~(Cursor[1] > MaxUint64)
    <3>1. Convert(Cursor).Value = Cursor[1] /\ Convert(Cursor).End = Tail(Cursor)
      BY <1>4, <2>5 DEF Convert
    <3>2. Cursor[1] \in 0 .. f.MaxValue <=> Cursor[1] <= f.MaxValue
      BY <1>1, <2>1, <2>5
    <3> QED BY <1>4, <2>2, <3>1, <3>2 DEF FieldFits, f
  <2> QED BY <2>3, <2>4, <2>5
<1> QED BY <1>3, <1>4

(* Behind the first lexeme stands a terminator exactly if it is the second
   one; the end exactly if there is no second one. *)
LEMMA BehindFirst ==
  ASSUME NEW s, Lexemes(s), s # <<>>
  PROVE  /\ \A t \in {Colon, Dot} : At(Tail(s)) = t <=> Len(s) >= 2 /\ s[2] = t
         /\ At(Tail(s)) = Nul <=> Len(s) = 1
<1>1. /\ Lexemes(Tail(s)) /\ Len(s) \in Nat \ {0} /\ Len(Tail(s)) = Len(s) - 1
      /\ \A i \in 1 .. Len(s) - 1 : Tail(s)[i] = s[i + 1]
  BY TailOfText
<1>2. CASE Len(s) = 1
  <2>1. Tail(s) = <<>>
    <3>1. Tail(s) \in Seq(Int) /\ Len(Tail(s)) = 0
      BY <1>1, <1>2 DEF Lexemes
    <3> QED BY <3>1, EmptySeq
  <2>2. At(Tail(s)) = Nul
    BY <2>1 DEF At
  <2>3. Colon # Nul /\ Dot # Nul
    BY DEF Colon, Dot, Nul
  <2> QED BY <1>2, <2>2, <2>3
<1>3. CASE Len(s) >= 2
  <2>1. 1 \in 1 .. Len(s) - 1 /\ Len(Tail(s)) # 0
    BY <1>1, <1>3
  <2>2. Tail(s)[1] = s[2] /\ 2 \in 1 .. Len(s)
    BY <1>1, <1>3, <2>1
  <2>3. Tail(s) # <<>>
    BY <2>1, EmptySeq
  <2>4. At(Tail(s)) = s[2] /\ s[2] # Nul
    BY <2>2, <2>3 DEF At, Lexemes
  <2> QED BY <1>1, <1>3, <2>4
<1> QED BY <1>1, <1>2, <1>3

(* One field of an address is taken from the front. *)
LEMMA MatchBus ==
  ASSUME NEW s, Lexemes(s)
  PROVE  IsBusDevFun(s) <=>
           Len(s) >= 2 /\ s[1] \in 0 .. 255 /\ s[2] = Colon /\ IsDevFun(Tail(Tail(s)))
<1>1. s \in Seq(Int) /\ Len(s) \in Nat
  BY DEF Lexemes
<1>2. CASE Len(s) >= 2
  <2> DEFINE t == Tail(Tail(s))
  <2>1. Len(t) = Len(s) - 2 /\ \A i \in 1 .. Len(s) - 2 : t[i] = s[i + 2]
    BY <1>2, TailTwice
  <2> HIDE DEF t
  <2>2. Len(s) = 5 => t[1] = s[3] /\ t[2] = s[4] /\ t[3] = s[5]
    BY <2>1
  <2>3. Len(s) = 5 <=> Len(t) = 3
    BY <1>1, <2>1
  <2>4. IsBusDevFun(s) <=> s[1] \in 0 .. 255 /\ s[2] = Colon /\ IsDevFun(t)
    BY <2>2, <2>3 DEF IsBusDevFun, IsDevFun
  <2> QED BY <1>2, <2>4 DEF t
<1>3. CASE ~(Len(s) >= 2)
  BY <1>3 DEF IsBusDevFun
<1> QED BY <1>2, <1>3

LEMMA MatchDev ==
  ASSUME NEW s, Lexemes(s)
  PROVE  IsDevFun(s) <=>
           Len(s) >= 2 /\ s[1] \in 0 .. 31 /\ s[2] = Dot /\ IsFun(Tail(Tail(s)))
<1>1. s \in Seq(Int) /\ Len(s) \in Nat
  BY DEF Lexemes
<1>2. CASE Len(s) >= 2
  <2> DEFINE t == Tail(Tail(s))
  <2>1. Len(t) = Len(s) - 2 /\ \A i \in 1 .. Len(s) - 2 : t[i] = s[i + 2]
    BY <1>2, TailTwice
  <2> HIDE DEF t
  <2>2. Len(s) = 3 => t[1] = s[3]
    BY <2>1
  <2>3. Len(s) = 3 <=> Len(t) = 1
    BY <1>1, <2>1
  <2>4. IsDevFun(s) <=> s[1] \in 0 .. 31 /\ s[2] = Dot /\ IsFun(t)
    BY <2>2, <2>3 DEF IsDevFun, IsFun
  <2> QED BY <1>2, <2>4 DEF t
<1>3. CASE ~(Len(s) >= 2)
  BY <1>3 DEF IsDevFun
<1> QED BY <1>2, <1>3

LEMMA MatchSeg ==
  ASSUME NEW s, Lexemes(s)
  PROVE  IsFullAddress(s) <=>
           Len(s) >= 2 /\ s[1] \in UINT16 /\ s[2] = Colon /\ IsBusDevFun(Tail(Tail(s)))
<1>1. s \in Seq(Int) /\ Len(s) \in Nat
  BY DEF Lexemes
<1>2. CASE Len(s) >= 2
  <2> DEFINE t == Tail(Tail(s))
             u == SubSeq(s, 3, 7)
  <2>1. Len(t) = Len(s) - 2 /\ \A i \in 1 .. Len(s) - 2 : t[i] = s[i + 2]
    BY <1>2, TailTwice
  <2>2. ASSUME Len(s) = 7
        PROVE  Len(u) = 5 /\ \A i \in 1 .. 5 : u[i] = t[i]
    <3>1. \A i \in 3 .. 7 : s[i] \in Int
      BY <1>1, <2>2
    <3>2. Len(u) = 5 /\ \A i \in 1 .. 7 - 3 + 1 : u[i] = s[3 + i - 1]
      BY <3>1, SubSeqProperties
    <3>3. ASSUME NEW i \in 1 .. 5 PROVE u[i] = t[i]
      <4>1. i \in 1 .. 7 - 3 + 1 /\ i \in 1 .. Len(s) - 2 /\ 3 + i - 1 = i + 2
        BY <2>2
      <4> QED BY <2>1, <3>2, <4>1
    <3> QED BY <3>2, <3>3
  <2>. HIDE DEF t, u
  <2>3. Len(s) = 7 <=> Len(t) = 5
    BY <1>1, <2>1
  <2>4. Len(s) = 7 => (IsBusDevFun(u) <=> IsBusDevFun(t))
    BY <2>2, <2>3 DEF IsBusDevFun
  <2>5. IsBusDevFun(t) => Len(s) = 7
    BY <2>3 DEF IsBusDevFun
  <2>6. IsFullAddress(s) <=> s[1] \in UINT16 /\ s[2] = Colon /\ IsBusDevFun(t)
    <3>1. IsFullAddress(s) <=>
            Len(s) = 7 /\ s[1] \in UINT16 /\ s[2] = Colon /\ IsBusDevFun(u)
      BY Zenon DEF IsFullAddress, u
    <3> QED BY <2>4, <2>5, <3>1, Zenon
  <2> QED BY <1>2, <2>6, Zenon DEF t
<1>3. CASE ~(Len(s) >= 2)
  <2>1. \A n \in Nat : ~(n >= 2) => n # 7
    OBVIOUS
  <2>2. Len(s) # 7
    BY <1>1, <1>3, <2>1, Zenon
  <2> QED BY <1>3, <2>2, Zenon DEF IsFullAddress
<1> QED BY <1>2, <1>3

(* The colons tell the two forms of an address apart. *)
LEMMA OneColon ==
  ASSUME NEW s, Lexemes(s), IsBusDevFun(s)
  PROVE  ColonCount(s) = 1
<1>1. DOMAIN s = 1 .. 5
  BY DEF IsBusDevFun, Lexemes
<1>2. ASSUME NEW i \in 1 .. 5 PROVE s[i] = Colon <=> i = 2
  BY DEF IsBusDevFun, Colon, Dot
<1>3. {i \in DOMAIN s : s[i] = Colon} = {2}
  BY <1>1, <1>2
<1> QED BY <1>3, FS_Singleton DEF ColonCount

LEMMA TwoColons ==
  ASSUME NEW s, Lexemes(s), IsFullAddress(s)
  PROVE  ColonCount(s) = 2
<1>1. DOMAIN s = 1 .. 7
  <2>1. s \in Seq(Int) /\ Len(s) = 7
    BY Zenon DEF IsFullAddress, Lexemes
  <2> QED BY <2>1
<1> DEFINE t == Tail(Tail(s))
<1>2. s[1] \in UINT16 /\ s[2] = Colon /\ IsBusDevFun(t)
  BY MatchSeg
<1>3. t[1] = s[3] /\ t[2] = s[4] /\ t[3] = s[5] /\ t[4] = s[6] /\ t[5] = s[7]
  <2>1. Len(s) = 7
    BY Zenon DEF IsFullAddress
  <2>2. Len(s) >= 2
    BY <2>1
  <2>3. \A i \in 1 .. Len(s) - 2 : t[i] = s[i + 2]
    BY <2>2, TailTwice
  <2> HIDE DEF t
  <2>4. \A i \in 1 .. 5 : t[i] = s[i + 2]
    BY <2>1, <2>3
  <2> QED BY <2>4
<1> HIDE DEF t
<1>4. /\ s[1] # Colon /\ s[2] = Colon /\ s[3] # Colon /\ s[4] = Colon
      /\ s[5] # Colon /\ s[6] # Colon /\ s[7] # Colon
  <2>1. s[1] # Colon
    <3>1. \A v \in UINT16 : v # Colon
      BY SMTT(30) DEF UINT16, MAX_UINT16, Colon
    <3>2. s[1] \in UINT16
      BY <1>2
    <3> QED BY <3>1, <3>2
  <2>2. t[1] # Colon /\ t[2] = Colon /\ t[3] # Colon /\ t[4] # Colon /\ t[5] # Colon
    BY <1>2 DEF IsBusDevFun, Colon, Dot
  <2> QED BY <1>2, <1>3, <2>1, <2>2
<1>5. ASSUME NEW i \in 1 .. 7 PROVE s[i] = Colon <=> i = 2 \/ i = 4
  BY <1>4
<1>6. {i \in DOMAIN s : s[i] = Colon} = {2} \cup {4}
  BY <1>1, <1>5
<1>7. Cardinality({2} \cup {4}) = 2
  <2>1. IsFiniteSet({2}) /\ Cardinality({2}) = 1
    BY FS_Singleton
  <2> QED BY <2>1, FS_AddElement
<1> QED BY <1>6, <1>7 DEF ColonCount

(* A width is one number, one of the three. *)
LEMMA WidthMeans ==
  ASSUME NEW t \in Texts
  PROVE  /\ WidthOf(t) \in {8, 16, 32} <=> t \in {<<8>>, <<16>>, <<32>>}
         /\ WidthOf(t) \in {8, 16, 32} => WidthOf(t) = t[1]
<1>1. Lexemes(t) /\ t \in Seq(Int)
  BY TextsAreLexemes DEF Lexemes
<1>2. MaxUint64 \in Nat /\ MaxUint64 >= 32
  <2>1. MAX_UINT16 \in Nat /\ MAX_UINT16 >= 32
    BY SMT DEF MAX_UINT16
  <2> QED BY <2>1, MaxAssumption
<1>3. ASSUME WidthOf(t) \in {8, 16, 32}
      PROVE  t = <<WidthOf(t)>> /\ WidthOf(t) = t[1]
  <2>1. Convert(t).End = <<>> /\ WidthOf(t) = Convert(t).Value /\ Convert(t).Value # 0
    BY <1>3 DEF WidthOf
  <2>2. t # <<>> /\ ~(t[1] < 0)
    <3>1. CASE t = <<>> \/ t[1] < 0
      <4>1. Convert(t).Value = 0
        BY <3>1 DEF Convert
      <4> QED BY <2>1, <4>1
    <3> QED BY <3>1
  <2>3. Tail(t) \in Seq(Int) /\ Len(t) \in Nat \ {0} /\ Len(Tail(t)) = Len(t) - 1
    BY <1>1, <2>2, TailOfText DEF Lexemes
  <2>4. ~(t[1] > MaxUint64)
    <3>1. CASE t[1] > MaxUint64
      <4>1. Convert(t).End = <<9>> \o Tail(t)
        BY <2>2, <3>1 DEF Convert
      <4> DEFINE e == <<9>> \o Tail(t)
      <4>2. Len(e) = 1 + Len(Tail(t)) /\ Len(Tail(t)) \in Nat
        <5>1. <<9>> \in Seq(Int) /\ Len(<<9>>) = 1
          OBVIOUS
        <5> QED BY <2>3, <5>1
      <4> HIDE DEF e
      <4>3. e # <<>>
        <5>1. Len(e) # 0
          BY <4>2
        <5> QED BY <5>1, NotEmpty, Zenon
      <4> QED BY <2>1, <4>1, <4>3, Zenon DEF e
    <3> QED BY <3>1
  <2>5. Convert(t).Value = t[1] /\ Convert(t).End = Tail(t)
    BY <2>2, <2>4 DEF Convert
  <2>6. Len(t) = 1
    <3>1. Len(<<>>) = 0
      BY EmptySeq
    <3>2. Len(Tail(t)) = 0
      BY <2>1, <2>5, <3>1, Zenon
    <3>3. \A n \in Nat : n - 1 = 0 => n = 1
      OBVIOUS
    <3> QED BY <2>3, <3>2, <3>3, Zenon
  <2>7. t = <<t[1]>>
    BY <1>1, <2>6
  <2> QED BY <2>1, <2>5, <2>7
<1>4. ASSUME NEW w \in {8, 16, 32}, t = <<w>>
      PROVE  WidthOf(t) = w
  <2>1. t # <<>> /\ t[1] = w /\ Tail(t) = <<>> /\ ~(w < 0) /\ ~(w > MaxUint64)
    BY <1>2, <1>4
  <2>2. Convert(t).Value = w /\ Convert(t).End = <<>>
    BY <2>1 DEF Convert
  <2> QED BY <2>2 DEF WidthOf
<1> QED BY <1>3, <1>4

-----------------------------------------------------------------------------
(* What is left of the text decides, and holds what the fields that are not
   yet read will be. *)
LeftInv ==
  /\ pc \in Fields \cup {"single"} => command.params # <<>> /\ First \notin {AllWord, TreeWord}
  /\ pc \in Fields => Lexemes(Cursor)
  /\ pc = "Seg" => Cursor = First /\ ColonCount(First) = 2
  /\ pc = "Bus" =>
       /\ IsAddress(First) <=> IsBusDevFun(Cursor)
       /\ IsAddress(First) =>
            /\ Options.Seg = Said(command).Seg
            /\ Said(command).Bus = Cursor[1] /\ Said(command).Dev = Cursor[3]
            /\ Said(command).Fun = Cursor[5]
  /\ pc = "Dev" =>
       /\ IsAddress(First) <=> IsDevFun(Cursor)
       /\ IsAddress(First) =>
            /\ Options.Seg = Said(command).Seg /\ Options.Bus = Said(command).Bus
            /\ Said(command).Dev = Cursor[1] /\ Said(command).Fun = Cursor[3]
  /\ pc = "Fun" =>
       /\ IsAddress(First) <=> IsFun(Cursor)
       /\ IsAddress(First) =>
            /\ Options.Seg = Said(command).Seg /\ Options.Bus = Said(command).Bus
            /\ Options.Dev = Said(command).Dev /\ Said(command).Fun = Cursor[1]
  /\ pc = "single" =>
       /\ IsAddress(First)
       /\ Options.Seg = Said(command).Seg /\ Options.Bus = Said(command).Bus
       /\ Options.Dev = Said(command).Dev /\ Options.Fun = Said(command).Fun

(* How far the options are what the command line says. *)
OptionsInv ==
  /\ pc = "help" => Options = ZeroOptions
  /\ pc = "mode" => Options = [ZeroOptions EXCEPT !.ExtendFlag = command.x]
  /\ pc \in Fields \cup {"single"} => Options.ExtendFlag = command.x /\ Options.ReadType = 0
  /\ pc = "width" =>
       /\ command.params # <<>> /\ First # TreeWord /\ (First = AllWord \/ IsAddress(First))
       /\ Options = [Said(command) EXCEPT !.ReadType = 0]
  /\ pc = "free" /\ Result = "PciParseOk" => Options = Said(command)

(* The same as Understood, in the order in which the code looks at it. *)
HasWidth(c) == c.r # <<>> /\ c.r[1] \in {<<8>>, <<16>>, <<32>>}

InLanguage(c) ==
  c.params # <<>> =>
    \/ c.params[1] = TreeWord
    \/ (c.params[1] = AllWord \/ IsAddress(c.params[1])) /\ HasWidth(c)

AcceptsLanguage ==
  pc = "done" =>
    Result = IF command.status # "success" THEN "PciParseError"
             ELSE IF command.help           THEN "PciParseHelp"
             ELSE IF InLanguage(command)    THEN "PciParseOk"
             ELSE "PciParseError"

(* No complaint yet, until the last step but one. *)
ResultInv ==
  /\ pc \notin {"free", "done"} => Result = "PciParseOk"
  /\ pc = "report" => command.status # "success"
  /\ pc \notin {"parse", "report", "done"} => command.status = "success"
  /\ pc \notin {"parse", "report", "help", "done"} => ~command.help
  /\ pc = "free" => Result = IF InLanguage(command) THEN "PciParseOk" ELSE "PciParseError"

GrammarInv == IInv /\ LeftInv /\ OptionsInv /\ ResultInv /\ AcceptsLanguage /\ OptionsAsSaid

LEMMA InitGrammar == Init => GrammarInv
<1> SUFFICES ASSUME Init PROVE GrammarInv
  OBVIOUS
<1>1. pc = "parse" /\ Result = "PciParseOk"
  BY DEF Init
<1>2. LeftInv /\ OptionsInv /\ ResultInv /\ AcceptsLanguage /\ OptionsAsSaid
  BY <1>1 DEF LeftInv, OptionsInv, ResultInv, AcceptsLanguage, OptionsAsSaid, Fields
<1> QED BY <1>2, InitInvariant DEF GrammarInv

(* Options are their fields. *)
LEMMA RecordOf ==
  ASSUME NEW o \in PCI_CLI_OPTIONS
  PROVE  o = [Mode |-> o.Mode, ExtendFlag |-> o.ExtendFlag, Seg |-> o.Seg, Bus |-> o.Bus,
              Dev |-> o.Dev, Fun |-> o.Fun, ReadType |-> o.ReadType]
BY Zenon DEF PCI_CLI_OPTIONS

LEMMA Assigned ==
  ASSUME NEW o \in PCI_CLI_OPTIONS, NEW n, NEW v
  PROVE  /\ n = [o EXCEPT !.Seg = v] =>
              /\ n.Seg = v /\ n.Bus = o.Bus /\ n.Dev = o.Dev /\ n.Fun = o.Fun
              /\ n.ExtendFlag = o.ExtendFlag /\ n.ReadType = o.ReadType
         /\ n = [o EXCEPT !.Bus = v] =>
              /\ n.Seg = o.Seg /\ n.Bus = v /\ n.Dev = o.Dev /\ n.Fun = o.Fun
              /\ n.ExtendFlag = o.ExtendFlag /\ n.ReadType = o.ReadType
         /\ n = [o EXCEPT !.Dev = v] =>
              /\ n.Seg = o.Seg /\ n.Bus = o.Bus /\ n.Dev = v /\ n.Fun = o.Fun
              /\ n.ExtendFlag = o.ExtendFlag /\ n.ReadType = o.ReadType
         /\ n = [o EXCEPT !.Fun = v] =>
              /\ n.Seg = o.Seg /\ n.Bus = o.Bus /\ n.Dev = o.Dev /\ n.Fun = v
              /\ n.ExtendFlag = o.ExtendFlag /\ n.ReadType = o.ReadType
BY Zenon DEF PCI_CLI_OPTIONS

(* What the command line says, for a device and for "all". *)
LEMMA SaidDevice ==
  ASSUME command.params # <<>>, First \notin {AllWord, TreeWord}
  PROVE  /\ Said(command) =
              [Mode |-> "PciCmdSingle", ExtendFlag |-> command.x,
               Seg  |-> Said(command).Seg, Bus |-> Said(command).Bus,
               Dev  |-> Said(command).Dev, Fun |-> Said(command).Fun,
               ReadType |-> command.r[1][1]]
         /\ Said(command).Seg = IF Len(First) = 7 THEN First[1] ELSE 0
         /\ Said(command).Bus = First[Len(First) - 4]
         /\ Said(command).Dev = First[Len(First) - 2]
         /\ Said(command).Fun = First[Len(First)]
<1> DEFINE n == Len(First)
           s == IF n = 7 THEN First[1] ELSE 0
           b == First[n - 4]
           d == First[n - 2]
           f == First[n]
           r == command.r[1][1]
           x == command.x
<1>1. Said(command) = [Mode |-> "PciCmdSingle", ExtendFlag |-> x, Seg |-> s, Bus |-> b,
                       Dev |-> d, Fun |-> f, ReadType |-> r]
  BY Zenon DEF Said, First
<1> HIDE DEF s, b, d, f, r, x
<1>2. /\ Said(command).Seg = s /\ Said(command).Bus = b
      /\ Said(command).Dev = d /\ Said(command).Fun = f
  BY <1>1, SMT
<1>3. Said(command) = [Mode |-> "PciCmdSingle", ExtendFlag |-> x, Seg |-> Said(command).Seg,
                       Bus |-> Said(command).Bus, Dev |-> Said(command).Dev,
                       Fun |-> Said(command).Fun, ReadType |-> r]
  BY <1>1, <1>2, Zenon
<1> QED BY <1>2, <1>3, Zenon DEF s, b, d, f, r, x

LEMMA SaidAll ==
  ASSUME command.params # <<>>, First = AllWord
  PROVE  Said(command) =
           [Mode |-> "PciCmdAll", ExtendFlag |-> command.x, Seg |-> 0, Bus |-> 0, Dev |-> 0,
            Fun |-> 0, ReadType |-> command.r[1][1]]
<1>1. AllWord # TreeWord
  BY DEF AllWord, TreeWord
<1>2. Said(command) = [ZeroOptions EXCEPT !.ExtendFlag = command.x, !.Mode = "PciCmdAll",
                                          !.ReadType = command.r[1][1]]
  BY <1>1, Zenon DEF Said, First
<1> QED BY <1>2 DEF ZeroOptions

LEMMA FirstIsText ==
  ASSUME command \in CommandLines, command.params # <<>>
  PROVE  First \in Texts /\ Lexemes(First)
<1>1. command.params \in Seq(Texts)
  BY CommandLineAssumption DEF CommandLine
<1>2. 1 \in 1 .. Len(command.params)
  BY <1>1, EmptySeq, LenProperties
<1>3. First \in Texts
  BY <1>1, <1>2, ElementOfSeq DEF First
<1> QED BY <1>3, TextsAreLexemes

(* The two forms of an address. *)
LEMMA AddressForms ==
  ASSUME NEW s, Lexemes(s)
  PROVE  /\ IsAddress(s) <=> IsBusDevFun(s) \/ IsFullAddress(s)
         /\ IsBusDevFun(s) => ColonCount(s) = 1 /\ Len(s) = 5
         /\ IsFullAddress(s) => ColonCount(s) = 2 /\ Len(s) = 7
<1>1. IsAddress(s) <=> IsBusDevFun(s) \/ IsFullAddress(s)
  BY Zenon DEF IsAddress, IsFullAddress
<1>2. IsBusDevFun(s) => ColonCount(s) = 1 /\ Len(s) = 5
  BY OneColon, Zenon DEF IsBusDevFun
<1>3. IsFullAddress(s) => ColonCount(s) = 2 /\ Len(s) = 7
  BY TwoColons, Zenon DEF IsFullAddress
<1> QED BY <1>1, <1>2, <1>3

(* One turn of ParseField: the number and its terminator are taken, or the
   parse has failed. *)
LEMMA ParseFieldEffect ==
  ASSUME IInv, Lexemes(Cursor), ParseField
  PROVE  /\ pc \in Fields
         /\ LET f    == Field[pc]
                fits == /\ Cursor # <<>> /\ Cursor[1] \in 0 .. f.MaxValue
                        /\ At(Tail(Cursor)) = f.Terminator
            IN \/ /\ fits
                  /\ Options' = [Options EXCEPT ![pc] = Cursor[1]]
                  /\ Cursor' = IF f.Terminator = Nul THEN Tail(Cursor) ELSE Tail(Tail(Cursor))
                  /\ pc' = f.next
                  /\ UNCHANGED <<command, Result, held>>
               \/ ~fits /\ Fail /\ UNCHANGED Options
<1> DEFINE f == Field[pc]
           c == Convert(Cursor)
<1>1. pc \in Fields /\ Cursor \in Seq(Int)
  BY DomainOfField DEF ParseField, Lexemes
<1>2. /\ FieldFits(f, c) <=> /\ Cursor # <<>> /\ Cursor[1] \in 0 .. f.MaxValue
                             /\ At(Tail(Cursor)) = f.Terminator
      /\ FieldFits(f, c) => c.Value = Cursor[1] /\ c.End = Tail(Cursor)
  BY <1>1, FitsMeans
<1>3. CASE FieldFits(f, c)
  <2>1. /\ Options' = [Options EXCEPT ![pc] = c.Value % f.Width]
        /\ Cursor' = IF f.Terminator = Nul THEN c.End ELSE Tail(c.End)
        /\ pc' = f.next
        /\ UNCHANGED <<command, Result, held>>
    BY <1>3 DEF ParseField
  <2>2. c.Value % f.Width = c.Value
    BY <1>1, <1>3, FittingValue
  <2> HIDE DEF f, c
  <2>3. /\ Options' = [Options EXCEPT ![pc] = Cursor[1]]
        /\ Cursor' = IF f.Terminator = Nul THEN Tail(Cursor) ELSE Tail(Tail(Cursor))
    BY <1>2, <1>3, <2>1, <2>2, Zenon
  <2> QED BY <1>1, <1>2, <1>3, <2>1, <2>3, Zenon DEF f
<1>4. CASE ~FieldFits(f, c)
  <2>1. Fail /\ UNCHANGED Options
    BY <1>4 DEF ParseField
  <2> QED BY <1>1, <1>2, <1>4, <2>1, Zenon
<1> QED BY <1>3, <1>4, Zenon

(* A field with a terminator is taken from the front of the text if it stands
   there. *)
Taken(stands, field, next) ==
  \/ /\ stands /\ Cursor' = Tail(Tail(Cursor))
     /\ Options' = [Options EXCEPT ![field] = Cursor[1]] /\ pc' = next
     /\ UNCHANGED <<command, Result, held>>
  \/ ~stands /\ Fail /\ UNCHANGED Options

LEMMA FieldRead ==
  ASSUME IInv, LeftInv, ParseField
  PROVE  /\ pc \in Fields /\ Lexemes(Cursor)
         /\ pc = "Seg" =>
              Taken(Len(Cursor) >= 2 /\ Cursor[1] \in UINT16 /\ Cursor[2] = Colon, "Seg", "Bus")
         /\ pc = "Bus" =>
              Taken(Len(Cursor) >= 2 /\ Cursor[1] \in 0 .. 255 /\ Cursor[2] = Colon, "Bus", "Dev")
         /\ pc = "Dev" =>
              Taken(Len(Cursor) >= 2 /\ Cursor[1] \in 0 .. 31 /\ Cursor[2] = Dot, "Dev", "Fun")
         /\ pc = "Fun" =>
              \/ /\ IsFun(Cursor) /\ pc' = "single"
                 /\ Options' = [Options EXCEPT !.Fun = Cursor[1]]
                 /\ UNCHANGED <<command, Result, held>>
              \/ ~IsFun(Cursor) /\ Fail /\ UNCHANGED Options
<1>1. pc \in Fields /\ Lexemes(Cursor)
  BY DomainOfField DEF ParseField, LeftInv
<1> DEFINE f == Field[pc]
           fits == /\ Cursor # <<>> /\ Cursor[1] \in 0 .. f.MaxValue
                   /\ At(Tail(Cursor)) = f.Terminator
<1>2. \/ /\ fits
         /\ Options' = [Options EXCEPT ![pc] = Cursor[1]]
         /\ Cursor' = IF f.Terminator = Nul THEN Tail(Cursor) ELSE Tail(Tail(Cursor))
         /\ pc' = f.next
         /\ UNCHANGED <<command, Result, held>>
      \/ ~fits /\ Fail /\ UNCHANGED Options
  BY <1>1, ParseFieldEffect, Zenon
<1>3. Cursor # <<>> =>
        /\ At(Tail(Cursor)) = Colon <=> Len(Cursor) >= 2 /\ Cursor[2] = Colon
        /\ At(Tail(Cursor)) = Dot <=> Len(Cursor) >= 2 /\ Cursor[2] = Dot
        /\ At(Tail(Cursor)) = Nul <=> Len(Cursor) = 1
  BY <1>1, BehindFirst
<1>4. Colon # Nul /\ Dot # Nul
  BY DEF Colon, Dot, Nul
<1>5. Len(Cursor) >= 2 => Cursor # <<>>
  <2>1. Len(Cursor) >= 2 => Len(Cursor) # 0
    OBVIOUS
  <2> QED BY <2>1, NotEmpty
<1> HIDE DEF f, fits
<1>6. ASSUME f.Terminator # Nul, NEW stands, stands <=> fits, NEW next, next = f.next
      PROVE  Taken(stands, pc, next)
  <2>1. CASE fits
    BY <1>2, <1>6, <2>1, Zenon DEF Taken
  <2>2. CASE ~fits
    BY <1>2, <1>6, <2>2, Zenon DEF Taken
  <2> QED BY <2>1, <2>2
<1>7. CASE pc = "Seg"
  <2>1. f.Terminator = Colon /\ 0 .. f.MaxValue = UINT16 /\ f.next = "Bus"
    BY <1>7, SMT DEF f, Field, UINT16
  <2>2. Len(Cursor) >= 2 /\ Cursor[1] \in UINT16 /\ Cursor[2] = Colon <=> fits
    BY <1>3, <1>5, <2>1, Zenon DEF fits
  <2>3. Taken(Len(Cursor) >= 2 /\ Cursor[1] \in UINT16 /\ Cursor[2] = Colon, "Seg", "Bus")
    <3> DEFINE stands == Len(Cursor) >= 2 /\ Cursor[1] \in UINT16 /\ Cursor[2] = Colon
    <3>1. f.Terminator # Nul /\ f.next = "Bus" /\ (stands <=> fits)
      BY <1>4, <2>1, <2>2
    <3> HIDE DEF stands
    <3>2. Taken(stands, pc, "Bus")
      BY <1>6, <3>1
    <3> QED BY <1>7, <3>2, Zenon DEF stands
  <2> QED BY <1>1, <1>7, <2>3
<1>8. CASE pc = "Bus"
  <2>1. f.Terminator = Colon /\ f.MaxValue = 255 /\ f.next = "Dev"
    BY <1>8, SMT DEF f, Field
  <2>2. Len(Cursor) >= 2 /\ Cursor[1] \in 0 .. 255 /\ Cursor[2] = Colon <=> fits
    BY <1>3, <1>5, <2>1, Zenon DEF fits
  <2>3. Taken(Len(Cursor) >= 2 /\ Cursor[1] \in 0 .. 255 /\ Cursor[2] = Colon, "Bus", "Dev")
    <3> DEFINE stands == Len(Cursor) >= 2 /\ Cursor[1] \in 0 .. 255 /\ Cursor[2] = Colon
    <3>1. f.Terminator # Nul /\ f.next = "Dev" /\ (stands <=> fits)
      BY <1>4, <2>1, <2>2
    <3> HIDE DEF stands
    <3>2. Taken(stands, pc, "Dev")
      BY <1>6, <3>1
    <3> QED BY <1>8, <3>2, Zenon DEF stands
  <2> QED BY <1>1, <1>8, <2>3
<1>9. CASE pc = "Dev"
  <2>1. f.Terminator = Dot /\ f.MaxValue = 31 /\ f.next = "Fun"
    BY <1>9, SMT DEF f, Field
  <2>2. Len(Cursor) >= 2 /\ Cursor[1] \in 0 .. 31 /\ Cursor[2] = Dot <=> fits
    BY <1>3, <1>5, <2>1, Zenon DEF fits
  <2>3. Taken(Len(Cursor) >= 2 /\ Cursor[1] \in 0 .. 31 /\ Cursor[2] = Dot, "Dev", "Fun")
    <3> DEFINE stands == Len(Cursor) >= 2 /\ Cursor[1] \in 0 .. 31 /\ Cursor[2] = Dot
    <3>1. f.Terminator # Nul /\ f.next = "Fun" /\ (stands <=> fits)
      BY <1>4, <2>1, <2>2
    <3> HIDE DEF stands
    <3>2. Taken(stands, pc, "Fun")
      BY <1>6, <3>1
    <3> QED BY <1>9, <3>2, Zenon DEF stands
  <2> QED BY <1>1, <1>9, <2>3
<1>10. CASE pc = "Fun"
  <2>1. f.Terminator = Nul /\ f.MaxValue = 7 /\ f.next = "single"
    BY <1>10, SMT DEF f, Field
  <2>2. Cursor = <<>> => Len(Cursor) # 1
    BY EmptySeq
  <2>3. IsFun(Cursor) <=> fits
    BY <1>3, <2>1, <2>2, Zenon DEF IsFun, fits
  <2>4. \/ /\ IsFun(Cursor) /\ pc' = "single"
           /\ Options' = [Options EXCEPT !.Fun = Cursor[1]]
           /\ UNCHANGED <<command, Result, held>>
        \/ ~IsFun(Cursor) /\ Fail /\ UNCHANGED Options
    BY <1>2, <1>10, <2>1, <2>3, Zenon
  <2> QED BY <1>1, <1>10, <2>4
<1> QED BY <1>1, <1>7, <1>8, <1>9, <1>10 DEF Fields

StepInv == LeftInv /\ OptionsInv /\ ResultInv /\ AcceptsLanguage /\ OptionsAsSaid

LEMMA NotAddress ==
  ASSUME command.params # <<>>, First \notin {AllWord, TreeWord}, ~IsAddress(First)
  PROVE  ~InLanguage(command)
BY Zenon DEF InLanguage, First

(* A complaint is justified. *)
LEMMA FailGrammar ==
  ASSUME StepInv, pc \in Fields \cup {"mode", "width"}, Fail, ~InLanguage(command)
  PROVE  StepInv'
<1>1. pc' = "free" /\ Result' = "PciParseError" /\ command' = command
  BY DEF Fail
<1>2. command.status = "success" /\ ~command.help
  BY DEF StepInv, ResultInv, Fields
<1>3. ~InLanguage(command)'
  BY <1>1
<1>4. LeftInv' /\ OptionsInv' /\ AcceptsLanguage' /\ OptionsAsSaid'
  BY <1>1 DEF LeftInv, OptionsInv, AcceptsLanguage, OptionsAsSaid, Fields
<1>5. ResultInv'
  BY <1>1, <1>2, <1>3 DEF ResultInv
<1> QED BY <1>4, <1>5 DEF StepInv

(* An address is read field by field: what is left of it stays decisive. *)
LEMMA FieldGrammar ==
  ASSUME IInv, StepInv, ParseField
  PROVE  StepInv'
<1> DEFINE S == Said(command)
           rest == Tail(Tail(Cursor))
           v == Cursor[1]
<1>1. /\ LeftInv /\ OptionsInv /\ ResultInv
      /\ Options \in PCI_CLI_OPTIONS /\ command \in CommandLines
  BY DEF StepInv, IInv, TypeOK
<1>2. pc \in Fields /\ Lexemes(Cursor)
  BY <1>1, FieldRead
<1>3. command.params # <<>> /\ First \notin {AllWord, TreeWord}
  BY <1>1, <1>2 DEF LeftInv
<1>4. /\ Lexemes(First)
      /\ S.Seg = IF Len(First) = 7 THEN First[1] ELSE 0
      /\ S.Bus = First[Len(First) - 4] /\ S.Dev = First[Len(First) - 2]
      /\ S.Fun = First[Len(First)]
  BY <1>1, <1>3, SaidDevice, FirstIsText
<1>5. Options.ExtendFlag = command.x /\ Options.ReadType = 0
  BY <1>1, <1>2 DEF OptionsInv
<1>6. Result = "PciParseOk" /\ command.status = "success" /\ ~command.help
  BY <1>1, <1>2 DEF ResultInv, Fields
<1>7. ASSUME ~IsAddress(First), Fail PROVE StepInv'
  BY <1>2, <1>3, <1>7, NotAddress, FailGrammar
<1>8. ASSUME command' = command, Result' = Result, pc' \in {"Bus", "Dev", "Fun", "single"},
             Options'.ExtendFlag = Options.ExtendFlag, Options'.ReadType = Options.ReadType
      PROVE  /\ OptionsInv' /\ ResultInv' /\ AcceptsLanguage' /\ OptionsAsSaid'
             /\ First' = First /\ Said(command)' = S
  <2>1. First' = First /\ Said(command)' = S
    BY <1>8 DEF First
  <2>2. OptionsInv' /\ ResultInv' /\ AcceptsLanguage' /\ OptionsAsSaid'
    BY <1>5, <1>6, <1>8 DEF OptionsInv, ResultInv, AcceptsLanguage, OptionsAsSaid, Fields
  <2> QED BY <2>1, <2>2
<1>9. /\ Len(Cursor) >= 2 => /\ Lexemes(rest) /\ Len(rest) = Len(Cursor) - 2
                             /\ \A i \in 1 .. Len(Cursor) - 2 : rest[i] = Cursor[i + 2]
      /\ Len(Cursor) >= 2 => Cursor # <<>>
  <2>1. Len(Cursor) >= 2 => Len(Cursor) # 0
    OBVIOUS
  <2> QED BY <1>2, <2>1, TailTwice, NotEmpty
<1> HIDE DEF S, rest
<1>10. CASE pc = "Seg"
  <2> DEFINE head == Len(Cursor) >= 2 /\ v \in UINT16 /\ Cursor[2] = Colon
  <2>1. \/ /\ head /\ Cursor' = rest /\ Options' = [Options EXCEPT !.Seg = v] /\ pc' = "Bus"
           /\ UNCHANGED <<command, Result, held>>
        \/ ~head /\ Fail /\ UNCHANGED Options
    <3>1. Taken(Len(Cursor) >= 2 /\ Cursor[1] \in UINT16 /\ Cursor[2] = Colon, "Seg", "Bus")
      BY <1>1, <1>10, FieldRead, Zenon
    <3> QED BY <3>1, Zenon DEF Taken, rest
  <2>2. IsAddress(First) <=> head /\ IsBusDevFun(rest)
    <3>1. Cursor = First /\ ColonCount(First) = 2
      BY <1>1, <1>10 DEF LeftInv
    <3>2. IsAddress(First) <=> IsFullAddress(First)
      BY <1>4, <3>1, AddressForms
    <3>3. IsFullAddress(First) <=> head /\ IsBusDevFun(rest)
      BY <1>4, <3>1, MatchSeg DEF rest
    <3> QED BY <3>2, <3>3
  <2>3. CASE /\ head /\ Cursor' = rest /\ Options' = [Options EXCEPT !.Seg = v] /\ pc' = "Bus"
             /\ UNCHANGED <<command, Result, held>>
    <3>1. /\ Options'.Seg = v
          /\ Options'.ExtendFlag = Options.ExtendFlag /\ Options'.ReadType = Options.ReadType
      <4>1. Options \in PCI_CLI_OPTIONS /\ Options' = [Options EXCEPT !.Seg = v]
        BY <1>1, <2>3
      <4> HIDE DEF v
      <4> QED BY <4>1, Assigned
    <3>2. IsAddress(First) =>
            S.Seg = v /\ S.Bus = rest[1] /\ S.Dev = rest[3] /\ S.Fun = rest[5]
      <4>1. SUFFICES ASSUME IsAddress(First)
                     PROVE  S.Seg = v /\ S.Bus = rest[1] /\ S.Dev = rest[3] /\ S.Fun = rest[5]
        OBVIOUS
      <4>2. Cursor = First /\ Len(rest) = 5 /\ Len(First) \in Nat
        BY <1>1, <1>4, <1>10, <2>2, <4>1 DEF LeftInv, IsBusDevFun, Lexemes
      <4>3. Len(First) = 7
        BY <1>9, <2>3, <4>2
      <4>4. rest[1] = First[3] /\ rest[3] = First[5] /\ rest[5] = First[7]
        BY <1>9, <2>3, <4>2, <4>3
      <4> QED BY <1>4, <4>2, <4>3, <4>4
    <3>3. LeftInv'
      BY <1>3, <1>8, <1>9, <2>2, <2>3, <3>1, <3>2 DEF LeftInv, Fields
    <3> QED BY <1>8, <2>3, <3>1, <3>3 DEF StepInv
  <2> QED BY <1>7, <2>1, <2>2, <2>3
<1>11. CASE pc = "Bus"
  <2> DEFINE head == Len(Cursor) >= 2 /\ v \in 0 .. 255 /\ Cursor[2] = Colon
  <2>1. \/ /\ head /\ Cursor' = rest /\ Options' = [Options EXCEPT !.Bus = v] /\ pc' = "Dev"
           /\ UNCHANGED <<command, Result, held>>
        \/ ~head /\ Fail /\ UNCHANGED Options
    <3>1. Taken(Len(Cursor) >= 2 /\ Cursor[1] \in 0 .. 255 /\ Cursor[2] = Colon, "Bus", "Dev")
      BY <1>1, <1>11, FieldRead, Zenon
    <3> QED BY <3>1, Zenon DEF Taken, rest
  <2>2. IsAddress(First) <=> head /\ IsDevFun(rest)
    <3>1. IsAddress(First) <=> IsBusDevFun(Cursor)
      BY <1>1, <1>11 DEF LeftInv
    <3>2. IsBusDevFun(Cursor) <=> head /\ IsDevFun(rest)
      BY <1>2, MatchBus DEF rest
    <3> QED BY <3>1, <3>2
  <2>3. CASE /\ head /\ Cursor' = rest /\ Options' = [Options EXCEPT !.Bus = v] /\ pc' = "Dev"
             /\ UNCHANGED <<command, Result, held>>
    <3>1. /\ Options'.Seg = Options.Seg /\ Options'.Bus = v
          /\ Options'.ExtendFlag = Options.ExtendFlag /\ Options'.ReadType = Options.ReadType
      <4>1. Options \in PCI_CLI_OPTIONS /\ Options' = [Options EXCEPT !.Bus = v]
        BY <1>1, <2>3
      <4> HIDE DEF v
      <4> QED BY <4>1, Assigned
    <3>2. IsAddress(First) =>
            Options.Seg = S.Seg /\ S.Bus = v /\ S.Dev = rest[1] /\ S.Fun = rest[3]
      <4>1. SUFFICES ASSUME IsAddress(First)
                     PROVE  Options.Seg = S.Seg /\ S.Bus = v /\ S.Dev = rest[1] /\ S.Fun = rest[3]
        OBVIOUS
      <4>2. Len(Cursor) = 5
        BY <1>1, <1>11, <4>1 DEF LeftInv, IsBusDevFun
      <4>3. rest[1] = Cursor[3] /\ rest[3] = Cursor[5]
        BY <1>9, <2>3, <4>2
      <4>4. Options.Seg = S.Seg /\ S.Bus = v /\ S.Dev = Cursor[3] /\ S.Fun = Cursor[5]
        BY <1>1, <1>11, <4>1 DEF LeftInv, S
      <4> QED BY <4>3, <4>4
    <3>3. LeftInv'
      BY <1>3, <1>8, <1>9, <2>2, <2>3, <3>1, <3>2 DEF LeftInv, Fields
    <3> QED BY <1>8, <2>3, <3>1, <3>3 DEF StepInv
  <2> QED BY <1>7, <2>1, <2>2, <2>3
<1>12. CASE pc = "Dev"
  <2> DEFINE head == Len(Cursor) >= 2 /\ v \in 0 .. 31 /\ Cursor[2] = Dot
  <2>1. \/ /\ head /\ Cursor' = rest /\ Options' = [Options EXCEPT !.Dev = v] /\ pc' = "Fun"
           /\ UNCHANGED <<command, Result, held>>
        \/ ~head /\ Fail /\ UNCHANGED Options
    <3>1. Taken(Len(Cursor) >= 2 /\ Cursor[1] \in 0 .. 31 /\ Cursor[2] = Dot, "Dev", "Fun")
      BY <1>1, <1>12, FieldRead, Zenon
    <3> QED BY <3>1, Zenon DEF Taken, rest
  <2>2. IsAddress(First) <=> head /\ IsFun(rest)
    <3>1. IsAddress(First) <=> IsDevFun(Cursor)
      BY <1>1, <1>12 DEF LeftInv
    <3>2. IsDevFun(Cursor) <=> head /\ IsFun(rest)
      BY <1>2, MatchDev DEF rest
    <3> QED BY <3>1, <3>2
  <2>3. CASE /\ head /\ Cursor' = rest /\ Options' = [Options EXCEPT !.Dev = v] /\ pc' = "Fun"
             /\ UNCHANGED <<command, Result, held>>
    <3>1. /\ Options'.Seg = Options.Seg /\ Options'.Bus = Options.Bus /\ Options'.Dev = v
          /\ Options'.ExtendFlag = Options.ExtendFlag /\ Options'.ReadType = Options.ReadType
      <4>1. Options \in PCI_CLI_OPTIONS /\ Options' = [Options EXCEPT !.Dev = v]
        BY <1>1, <2>3
      <4> HIDE DEF v
      <4> QED BY <4>1, Assigned
    <3>2. IsAddress(First) =>
            Options.Seg = S.Seg /\ Options.Bus = S.Bus /\ S.Dev = v /\ S.Fun = rest[1]
      <4>1. SUFFICES ASSUME IsAddress(First)
                     PROVE  Options.Seg = S.Seg /\ Options.Bus = S.Bus /\ S.Dev = v /\ S.Fun = rest[1]
        OBVIOUS
      <4>2. Len(Cursor) = 3
        BY <1>1, <1>12, <4>1 DEF LeftInv, IsDevFun
      <4>3. rest[1] = Cursor[3]
        BY <1>9, <2>3, <4>2
      <4>4. Options.Seg = S.Seg /\ Options.Bus = S.Bus /\ S.Dev = v /\ S.Fun = Cursor[3]
        BY <1>1, <1>12, <4>1 DEF LeftInv, S
      <4> QED BY <4>3, <4>4
    <3>3. LeftInv'
      BY <1>3, <1>8, <1>9, <2>2, <2>3, <3>1, <3>2 DEF LeftInv, Fields
    <3> QED BY <1>8, <2>3, <3>1, <3>3 DEF StepInv
  <2> QED BY <1>7, <2>1, <2>2, <2>3
<1>13. CASE pc = "Fun"
  <2>1. \/ /\ IsFun(Cursor) /\ pc' = "single" /\ Options' = [Options EXCEPT !.Fun = v]
           /\ UNCHANGED <<command, Result, held>>
        \/ ~IsFun(Cursor) /\ Fail /\ UNCHANGED Options
    BY <1>1, <1>13, FieldRead, Zenon
  <2>2. IsAddress(First) <=> IsFun(Cursor)
    BY <1>1, <1>13 DEF LeftInv
  <2>3. CASE /\ IsFun(Cursor) /\ pc' = "single" /\ Options' = [Options EXCEPT !.Fun = v]
             /\ UNCHANGED <<command, Result, held>>
    <3>1. /\ Options'.Seg = Options.Seg /\ Options'.Bus = Options.Bus
          /\ Options'.Dev = Options.Dev /\ Options'.Fun = v
          /\ Options'.ExtendFlag = Options.ExtendFlag /\ Options'.ReadType = Options.ReadType
      <4>1. Options \in PCI_CLI_OPTIONS /\ Options' = [Options EXCEPT !.Fun = v]
        BY <1>1, <2>3
      <4> HIDE DEF v
      <4> QED BY <4>1, Assigned
    <3>2. Options.Seg = S.Seg /\ Options.Bus = S.Bus /\ Options.Dev = S.Dev /\ S.Fun = v
      BY <1>1, <1>13, <2>2, <2>3 DEF LeftInv, S
    <3>3. LeftInv'
      BY <1>3, <1>8, <2>2, <2>3, <3>1, <3>2 DEF LeftInv, Fields
    <3> QED BY <1>8, <2>3, <3>1, <3>3 DEF StepInv
  <2> QED BY <1>7, <2>1, <2>2, <2>3
<1> QED BY <1>2, <1>10, <1>11, <1>12, <1>13 DEF Fields

(* The steps around the parameters. *)
LEMMA OutsideGrammar ==
  ASSUME IInv, StepInv, Parse \/ ParseFails \/ ReportProblem \/ Help \/ NoHelp \/ Free
  PROVE  StepInv'
<1>1. LeftInv /\ OptionsInv /\ ResultInv
  BY DEF StepInv
<1>2. CASE Parse
  <2>1. /\ Options' = ZeroOptions /\ pc = "parse" /\ pc' = "help" /\ command.status = "success"
        /\ command' = command /\ Result' = Result
    BY <1>2 DEF Parse
  <2> QED BY <1>1, <2>1 DEF StepInv, LeftInv, OptionsInv, ResultInv, AcceptsLanguage,
                            OptionsAsSaid, Fields
<1>3. CASE ParseFails
  <2>1. /\ pc = "parse" /\ pc' = "report" /\ command.status # "success"
        /\ command' = command /\ Result' = Result
    BY <1>3 DEF ParseFails
  <2> QED BY <1>1, <2>1 DEF StepInv, LeftInv, OptionsInv, ResultInv, AcceptsLanguage,
                            OptionsAsSaid, Fields
<1>4. CASE ReportProblem
  <2>1. /\ pc = "report" /\ pc' = "done" /\ command' = command /\ Result' = "PciParseError"
    BY <1>4 DEF ReportProblem
  <2> QED BY <1>1, <2>1 DEF StepInv, LeftInv, OptionsInv, ResultInv, AcceptsLanguage,
                            OptionsAsSaid, Fields
<1>5. CASE Help
  <2>1. /\ pc = "help" /\ pc' = "done" /\ command.help
        /\ command' = command /\ Result' = "PciParseHelp"
    BY <1>5 DEF Help
  <2> QED BY <1>1, <2>1 DEF StepInv, LeftInv, OptionsInv, ResultInv, AcceptsLanguage,
                            OptionsAsSaid, Fields
<1>6. CASE NoHelp
  <2>1. /\ pc = "help" /\ pc' = "mode" /\ ~command.help
        /\ command' = command /\ Result' = Result
        /\ Options' = [Options EXCEPT !.ExtendFlag = command.x]
    BY <1>6 DEF NoHelp
  <2>2. Options' = [ZeroOptions EXCEPT !.ExtendFlag = command'.x]
    BY <1>1, <2>1, Zenon DEF OptionsInv
  <2>3. OptionsInv'
    BY <2>1, <2>2 DEF OptionsInv, Fields
  <2> QED BY <1>1, <2>1, <2>3 DEF StepInv, LeftInv, ResultInv, AcceptsLanguage,
                                  OptionsAsSaid, Fields
<1>7. CASE Free
  <2>1. /\ pc = "free" /\ pc' = "done"
        /\ command' = command /\ Result' = Result /\ Options' = Options
    BY <1>7 DEF Free
  <2> DEFINE IL == InLanguage(command)
             S == Said(command)
  <2>2. Said(command)' = S /\ InLanguage(command)' = IL
    BY <2>1
  <2>3. /\ command.status = "success" /\ ~command.help
        /\ Result = IF IL THEN "PciParseOk" ELSE "PciParseError"
        /\ Result = "PciParseOk" => Options = S
    BY <1>1, <2>1 DEF OptionsInv, ResultInv
  <2> HIDE DEF IL, S
  <2>4. LeftInv' /\ OptionsInv' /\ ResultInv'
    BY <2>1 DEF LeftInv, OptionsInv, ResultInv, Fields
  <2>5. AcceptsLanguage'
    BY <2>1, <2>2, <2>3 DEF AcceptsLanguage
  <2>6. OptionsAsSaid'
    BY <2>1, <2>2, <2>3 DEF OptionsAsSaid
  <2> QED BY <2>4, <2>5, <2>6 DEF StepInv
<1> QED BY <1>2, <1>3, <1>4, <1>5, <1>6, <1>7

(* Without a parameter, and with "pcitree", nothing else is looked at. *)
LEMMA WordGrammar ==
  ASSUME IInv, StepInv, NoParameter \/ TreeParameter
  PROVE  StepInv'
<1> DEFINE m == IF command.params = <<>> THEN "PciCmdNone" ELSE "PciCmdTree"
           S == Said(command)
<1>1. LeftInv /\ OptionsInv /\ ResultInv
  BY DEF StepInv
<1>2. /\ pc = "mode" /\ pc' = "free" /\ command' = command /\ Result' = Result
      /\ Options' = [Options EXCEPT !.Mode = m]
      /\ command.params = <<>> \/ First = TreeWord
  BY DEF NoParameter, TreeParameter, Parameter, ModeIs, First
<1>3. Options = [ZeroOptions EXCEPT !.ExtendFlag = command.x] /\ Result = "PciParseOk"
      /\ command.status = "success" /\ ~command.help
  BY <1>1, <1>2 DEF OptionsInv, ResultInv
<1>4. S = [ZeroOptions EXCEPT !.ExtendFlag = command.x, !.Mode = m]
  BY <1>2, Zenon DEF Said, First
<1>5. Options' = S
  <2> DEFINE x == command.x
  <2>1. Options = [ZeroOptions EXCEPT !.ExtendFlag = x] /\ Options' = [Options EXCEPT !.Mode = m]
        /\ S = [ZeroOptions EXCEPT !.ExtendFlag = x, !.Mode = m]
    BY <1>2, <1>3, <1>4
  <2> HIDE DEF x, m, S
  <2> QED BY <2>1 DEF ZeroOptions
<1>6. InLanguage(command)
  BY <1>2, Zenon DEF InLanguage, First
<1> DEFINE IL == InLanguage(command)
<1>7. Said(command)' = S /\ InLanguage(command)' = IL
  BY <1>2
<1> HIDE DEF S, IL
<1>8. LeftInv' /\ AcceptsLanguage' /\ OptionsAsSaid'
  BY <1>2 DEF LeftInv, AcceptsLanguage, OptionsAsSaid, Fields
<1>9. OptionsInv' /\ ResultInv'
  BY <1>2, <1>3, <1>5, <1>6, <1>7 DEF OptionsInv, ResultInv, Fields, IL
<1> QED BY <1>8, <1>9 DEF StepInv

(* "all", and an address that has been read, go on to the width with all the
   rest of the options as said. *)
LEMMA ToWidth ==
  ASSUME StepInv, pc \in {"mode", "single"}, pc' = "width",
         command' = command, Result' = Result,
         command.params # <<>>, First # TreeWord, First = AllWord \/ IsAddress(First),
         Options' = [Said(command) EXCEPT !.ReadType = 0]
  PROVE  StepInv'
<1> DEFINE S == Said(command)
<1>1. Said(command)' = S /\ First' = First
  BY DEF First
<1>2. ResultInv
  BY DEF StepInv
<1> HIDE DEF S
<1>3. LeftInv' /\ AcceptsLanguage' /\ OptionsAsSaid'
  BY DEF LeftInv, AcceptsLanguage, OptionsAsSaid, Fields
<1>4. Options' = [S EXCEPT !.ReadType = 0]
  BY DEF S
<1>5. OptionsInv'
  BY <1>1, <1>4 DEF OptionsInv, Fields
<1>6. ResultInv'
  BY <1>2 DEF ResultInv, Fields
<1> QED BY <1>3, <1>5, <1>6 DEF StepInv

LEMMA AllGrammar ==
  ASSUME IInv, StepInv, AllParameter
  PROVE  StepInv'
<1>1. /\ pc = "mode" /\ pc' = "width" /\ command' = command /\ Result' = Result
      /\ Options' = [Options EXCEPT !.Mode = "PciCmdAll"]
      /\ command.params # <<>> /\ First = AllWord
  BY DEF AllParameter, Parameter, ModeIs, First
<1>2. Options = [ZeroOptions EXCEPT !.ExtendFlag = command.x]
  BY <1>1 DEF StepInv, OptionsInv
<1>3. First # TreeWord
  BY <1>1 DEF AllWord, TreeWord
<1>4. Options' = [Said(command) EXCEPT !.ReadType = 0]
  <2> DEFINE S == Said(command)
             r == command.r[1][1]
             x == command.x
  <2>1. S = [Mode |-> "PciCmdAll", ExtendFlag |-> x, Seg |-> 0, Bus |-> 0, Dev |-> 0,
             Fun |-> 0, ReadType |-> r]
    BY <1>1, SaidAll
  <2>2. Options = [ZeroOptions EXCEPT !.ExtendFlag = x]
        /\ Options' = [Options EXCEPT !.Mode = "PciCmdAll"]
    BY <1>1, <1>2
  <2> HIDE DEF S, r, x
  <2>3. Options' = [Mode |-> "PciCmdAll", ExtendFlag |-> x, Seg |-> 0, Bus |-> 0, Dev |-> 0,
                   Fun |-> 0, ReadType |-> 0]
    BY <2>2 DEF ZeroOptions
  <2>4. [S EXCEPT !.ReadType = 0] =
          [Mode |-> "PciCmdAll", ExtendFlag |-> x, Seg |-> 0, Bus |-> 0, Dev |-> 0,
           Fun |-> 0, ReadType |-> 0]
    BY <2>1
  <2> QED BY <2>3, <2>4 DEF S
<1> QED BY <1>1, <1>3, <1>4, ToWidth

LEMMA SingleGrammar ==
  ASSUME IInv, StepInv, SingleParameter
  PROVE  StepInv'
<1>1. /\ pc = "single" /\ pc' = "width" /\ command' = command /\ Result' = Result
      /\ Options' = [Options EXCEPT !.Mode = "PciCmdSingle"]
  BY DEF SingleParameter, ModeIs
<1> DEFINE S == Said(command)
           r == command.r[1][1]
           x == command.x
<1>2. /\ command.params # <<>> /\ First \notin {AllWord, TreeWord} /\ IsAddress(First)
      /\ Options.Seg = S.Seg /\ Options.Bus = S.Bus /\ Options.Dev = S.Dev /\ Options.Fun = S.Fun
      /\ Options.ExtendFlag = x /\ Options.ReadType = 0
  BY <1>1 DEF StepInv, LeftInv, OptionsInv
<1>3. Options' = [S EXCEPT !.ReadType = 0]
  <2> DEFINE o == Options
             n == Options'
  <2>1. n = [o EXCEPT !.Mode = "PciCmdSingle"]
    BY <1>1
  <2>2. o = [Mode |-> o.Mode, ExtendFlag |-> o.ExtendFlag, Seg |-> o.Seg, Bus |-> o.Bus,
             Dev |-> o.Dev, Fun |-> o.Fun, ReadType |-> o.ReadType]
    BY RecordOf DEF IInv, TypeOK
  <2>3. S = [Mode |-> "PciCmdSingle", ExtendFlag |-> x, Seg |-> S.Seg, Bus |-> S.Bus,
             Dev |-> S.Dev, Fun |-> S.Fun, ReadType |-> r]
    BY <1>2, SaidDevice
  <2>4. /\ o.Seg = S.Seg /\ o.Bus = S.Bus /\ o.Dev = S.Dev /\ o.Fun = S.Fun
        /\ o.ExtendFlag = x /\ o.ReadType = 0
    BY <1>2
  <2> DEFINE s == S.Seg
             b == S.Bus
             d == S.Dev
             f == S.Fun
             m == o.Mode
  <2>5. o = [Mode |-> m, ExtendFlag |-> x, Seg |-> s, Bus |-> b, Dev |-> d, Fun |-> f,
             ReadType |-> 0]
    BY <2>2, <2>4, Zenon
  <2>6. S = [Mode |-> "PciCmdSingle", ExtendFlag |-> x, Seg |-> s, Bus |-> b, Dev |-> d,
             Fun |-> f, ReadType |-> r]
    BY <2>3
  <2>7. n = [S EXCEPT !.ReadType = 0]
    <3> HIDE DEF o, n, S, r, x, s, b, d, f, m
    <3>1. n = [Mode |-> "PciCmdSingle", ExtendFlag |-> x, Seg |-> s, Bus |-> b, Dev |-> d,
               Fun |-> f, ReadType |-> 0]
      BY <2>1, <2>5
    <3>2. [S EXCEPT !.ReadType = 0] =
            [Mode |-> "PciCmdSingle", ExtendFlag |-> x, Seg |-> s, Bus |-> b, Dev |-> d,
             Fun |-> f, ReadType |-> 0]
      BY <2>6
    <3> QED BY <3>1, <3>2
  <2> QED BY <2>7
<1>4. First # TreeWord
  BY <1>2
<1> HIDE DEF S
<1>5. Options' = [Said(command) EXCEPT !.ReadType = 0]
  BY <1>3 DEF S
<1> QED BY <1>1, <1>2, <1>4, <1>5, ToWidth

(* The colons decide whether a segment is expected. *)
LEMMA BdfGrammar ==
  ASSUME IInv, StepInv, BeginBdf
  PROVE  StepInv'
<1> DEFINE S == Said(command)
           n == ColonCount(First)
<1>1. /\ pc = "mode" /\ command.params # <<>> /\ First \notin {AllWord, TreeWord}
      /\ Options' = [Options EXCEPT !.Seg = 0] /\ command' = command
      /\ \/ /\ n \in {1, 2} /\ Cursor' = First /\ pc' = IF n = 2 THEN "Seg" ELSE "Bus"
            /\ Result' = Result
         \/ n \notin {1, 2} /\ Fail
  <2> HIDE DEF n
  <2>1. /\ pc = "mode" /\ command.params # <<>> /\ First \notin {AllWord, TreeWord}
        /\ Options' = [Options EXCEPT !.Seg = 0]
        /\ IF n \in {1, 2}
             THEN /\ Cursor' = First /\ pc' = IF n = 2 THEN "Seg" ELSE "Bus"
                  /\ UNCHANGED <<command, Result, held>>
             ELSE Fail
    BY Zenon DEF BeginBdf, First, n
  <2>2. Fail => command' = command
    BY DEF Fail
  <2> QED BY <2>1, <2>2
<1>2. /\ Options = [ZeroOptions EXCEPT !.ExtendFlag = command.x]
      /\ Result = "PciParseOk" /\ command.status = "success" /\ ~command.help
  BY <1>1 DEF StepInv, OptionsInv, ResultInv
<1>3. Options'.Seg = 0 /\ Options'.ExtendFlag = command.x /\ Options'.ReadType = 0
  <2> DEFINE x == command.x
  <2>1. Options' = [[ZeroOptions EXCEPT !.ExtendFlag = x] EXCEPT !.Seg = 0]
    BY <1>1, <1>2
  <2> HIDE DEF x
  <2>2. Options'.Seg = 0 /\ Options'.ExtendFlag = x /\ Options'.ReadType = 0
    BY <2>1 DEF ZeroOptions
  <2> QED BY <2>2 DEF x
<1>4. /\ Lexemes(First)
      /\ S.Seg = IF Len(First) = 7 THEN First[1] ELSE 0
      /\ S.Bus = First[Len(First) - 4] /\ S.Dev = First[Len(First) - 2]
      /\ S.Fun = First[Len(First)]
  BY <1>1, SaidDevice, FirstIsText DEF IInv, TypeOK
<1>5. /\ IsAddress(First) <=> IsBusDevFun(First) \/ IsFullAddress(First)
      /\ IsBusDevFun(First) => n = 1 /\ Len(First) = 5
      /\ IsFullAddress(First) => n = 2 /\ Len(First) = 7
  BY <1>4, AddressForms
<1>6. Said(command)' = S /\ First' = First
  BY <1>1 DEF First
<1> HIDE DEF S, n
<1>7. CASE /\ n \in {1, 2} /\ Cursor' = First /\ pc' = IF n = 2 THEN "Seg" ELSE "Bus"
           /\ Result' = Result
  <2>1. OptionsInv' /\ ResultInv' /\ AcceptsLanguage' /\ OptionsAsSaid'
    BY <1>1, <1>2, <1>3, <1>7 DEF OptionsInv, ResultInv, AcceptsLanguage, OptionsAsSaid, Fields
  <2>2. CASE n = 2
    <3>1. pc' = "Seg" /\ ColonCount(First)' = 2 /\ Cursor' = First'
          /\ command'.params # <<>> /\ First' \notin {AllWord, TreeWord} /\ Lexemes(Cursor)'
      BY <1>1, <1>4, <1>6, <1>7, <2>2 DEF n
    <3>2. LeftInv'
      BY <3>1 DEF LeftInv, Fields
    <3> QED BY <2>1, <3>2 DEF StepInv
  <2>3. CASE n = 1
    <3>1. pc' = "Bus" /\ Cursor' = First'
          /\ command'.params # <<>> /\ First' \notin {AllWord, TreeWord} /\ Lexemes(Cursor)'
      BY <1>1, <1>4, <1>6, <1>7, <2>3
    <3>2. IsAddress(First) <=> IsBusDevFun(First)
      <4>1. n # 2
        BY <2>3
      <4> QED BY <1>5, <4>1, Zenon
    <3>3. IsAddress(First) => S.Seg = 0 /\ S.Bus = First[1] /\ S.Dev = First[3] /\ S.Fun = First[5]
      <4>1. SUFFICES ASSUME IsAddress(First)
                     PROVE  S.Seg = 0 /\ S.Bus = First[1] /\ S.Dev = First[3] /\ S.Fun = First[5]
        OBVIOUS
      <4>2. Len(First) = 5
        BY <1>5, <3>2, <4>1, Zenon
      <4> QED BY <1>4, <4>2
    <3>4. /\ IsAddress(First)' <=> IsBusDevFun(Cursor)'
          /\ IsAddress(First)' =>
               /\ Options'.Seg = Said(command)'.Seg
               /\ Said(command)'.Bus = Cursor'[1] /\ Said(command)'.Dev = Cursor'[3]
               /\ Said(command)'.Fun = Cursor'[5]
      BY <1>3, <1>6, <3>1, <3>2, <3>3, Zenon
    <3>5. LeftInv'
      BY <3>1, <3>4 DEF LeftInv, Fields
    <3> QED BY <2>1, <3>5 DEF StepInv
  <2> QED BY <1>7, <2>2, <2>3
<1>8. CASE n \notin {1, 2} /\ Fail
  <2>1. ~IsAddress(First)
    BY <1>5, <1>8, Zenon
  <2> QED BY <1>1, <1>8, <2>1, NotAddress, FailGrammar
<1> QED BY <1>1, <1>7, <1>8

(* The width completes the options. *)
LEMMA WidthGrammar ==
  ASSUME IInv, StepInv, ParseReadType
  PROVE  StepInv'
<1> DEFINE w == WidthOf(command.r[1])
           fits == command.r # <<>> /\ w \in {8, 16, 32}
           S == Said(command)
<1>1. /\ pc = "width"
      /\ \/ /\ fits /\ Options' = [Options EXCEPT !.ReadType = w] /\ pc' = "free"
            /\ UNCHANGED <<command, Cursor, Result, held>>
         \/ ~fits /\ Fail /\ UNCHANGED Options
  BY DEF ParseReadType
<1>2. /\ command.params # <<>> /\ First # TreeWord /\ (First = AllWord \/ IsAddress(First))
      /\ Options = [S EXCEPT !.ReadType = 0]
      /\ Result = "PciParseOk" /\ command.status = "success" /\ ~command.help
  BY <1>1 DEF StepInv, OptionsInv, ResultInv
<1>3. HasWidth(command) <=> fits
  <2>1. command.r # <<>> => command.r[1] \in Texts
    <3>1. command.r \in Seq(Texts)
      BY CommandLineAssumption DEF CommandLine, IInv, TypeOK
    <3>2. command.r # <<>> => 1 \in 1 .. Len(command.r)
      BY <3>1, EmptySeq, LenProperties
    <3> QED BY <3>1, <3>2, ElementOfSeq
  <2>2. command.r # <<>> => (w \in {8, 16, 32} <=> command.r[1] \in {<<8>>, <<16>>, <<32>>})
    BY <2>1, WidthMeans
  <2> QED BY <2>2, Zenon DEF HasWidth
<1>4. InLanguage(command) <=> fits
  <2>1. InLanguage(command) <=> HasWidth(command)
    BY <1>2, Zenon DEF InLanguage, First
  <2> QED BY <1>3, <2>1, Zenon
<1>5. fits => w = command.r[1][1]
  <2>1. ASSUME fits PROVE w = command.r[1][1]
    <3>1. command.r \in Seq(Texts)
      BY CommandLineAssumption DEF CommandLine, IInv, TypeOK
    <3>2. 1 \in 1 .. Len(command.r)
      BY <2>1, <3>1, EmptySeq, LenProperties
    <3>3. command.r[1] \in Texts
      BY <3>1, <3>2, ElementOfSeq
    <3> QED BY <2>1, <3>3, WidthMeans
  <2> QED BY <2>1, Zenon
<1>6. [S EXCEPT !.ReadType = command.r[1][1]] = S
  <2> DEFINE r == command.r[1][1]
             x == command.x
             s == S.Seg
             b == S.Bus
             d == S.Dev
             f == S.Fun
  <2>1. \/ S = [Mode |-> "PciCmdSingle", ExtendFlag |-> x, Seg |-> s, Bus |-> b, Dev |-> d,
                Fun |-> f, ReadType |-> r]
        \/ S = [Mode |-> "PciCmdAll", ExtendFlag |-> x, Seg |-> 0, Bus |-> 0, Dev |-> 0,
                Fun |-> 0, ReadType |-> r]
    BY <1>2, SaidDevice, SaidAll
  <2> HIDE DEF S, r, x, s, b, d, f
  <2>2. [S EXCEPT !.ReadType = r] = S
    BY <2>1
  <2> QED BY <2>2 DEF r
<1> HIDE DEF w, S
<1>7. CASE /\ fits /\ Options' = [Options EXCEPT !.ReadType = w] /\ pc' = "free"
           /\ UNCHANGED <<command, Cursor, Result, held>>
  <2> DEFINE IL == InLanguage(command)
  <2>1. Said(command)' = S /\ InLanguage(command)' = IL
    BY <1>7 DEF S
  <2>2. Options' = S
    <3> DEFINE r == command.r[1][1]
    <3>1. Options' = [[S EXCEPT !.ReadType = 0] EXCEPT !.ReadType = r] /\ [S EXCEPT !.ReadType = r] = S
      BY <1>2, <1>5, <1>6, <1>7, Zenon
    <3> HIDE DEF r
    <3> QED BY <3>1
  <2>3. IL
    BY <1>4, <1>7, Zenon
  <2> HIDE DEF IL
  <2>4. LeftInv' /\ AcceptsLanguage' /\ OptionsAsSaid'
    BY <1>7 DEF LeftInv, AcceptsLanguage, OptionsAsSaid, Fields
  <2>5. OptionsInv' /\ ResultInv'
    BY <1>2, <1>7, <2>1, <2>2, <2>3 DEF OptionsInv, ResultInv, Fields
  <2> QED BY <2>4, <2>5 DEF StepInv
<1>8. CASE ~fits /\ Fail /\ UNCHANGED Options
  <2>1. ~InLanguage(command)
    BY <1>4, <1>8, Zenon
  <2> QED BY <1>1, <1>8, <2>1, FailGrammar
<1> QED BY <1>1, <1>7, <1>8, Zenon

LEMMA NextGrammar == GrammarInv /\ [Next]_vars => GrammarInv'
<1> SUFFICES ASSUME GrammarInv, [Next]_vars PROVE GrammarInv'
  OBVIOUS
<1>1. IInv /\ StepInv
  BY DEF GrammarInv, StepInv
<1>2. IInv'
  BY <1>1, StepInvariant
<1>3. CASE UNCHANGED vars
  <2>1. /\ command' = command /\ pc' = pc /\ Options' = Options /\ Cursor' = Cursor
        /\ Result' = Result
    BY <1>3 DEF vars
  <2>2. /\ IsAddress(First)' = IsAddress(First) /\ IsBusDevFun(Cursor)' = IsBusDevFun(Cursor)
        /\ IsDevFun(Cursor)' = IsDevFun(Cursor) /\ IsFun(Cursor)' = IsFun(Cursor)
        /\ First' = First /\ ColonCount(First)' = ColonCount(First)
        /\ Said(command)' = Said(command) /\ InLanguage(command)' = InLanguage(command)
        /\ Lexemes(Cursor)' = Lexemes(Cursor)
    BY <2>1 DEF First
  <2>3. LeftInv' = LeftInv
    BY <2>1, <2>2 DEF LeftInv, First
  <2>4. OptionsInv' = OptionsInv /\ ResultInv' = ResultInv
    BY <2>1, <2>2 DEF OptionsInv, ResultInv, First
  <2>5. AcceptsLanguage' = AcceptsLanguage /\ OptionsAsSaid' = OptionsAsSaid
    BY <2>1, <2>2 DEF AcceptsLanguage, OptionsAsSaid
  <2> QED BY <1>1, <2>3, <2>4, <2>5, <1>2, Zenon DEF GrammarInv, StepInv
<1>4. CASE Next
  <2>1. StepInv'
    BY <1>1, <1>4, OutsideGrammar, WordGrammar, AllGrammar, BdfGrammar, FieldGrammar,
       SingleGrammar, WidthGrammar, Zenon DEF Next
  <2> QED BY <1>2, <2>1 DEF GrammarInv, StepInv
<1> QED BY <1>3, <1>4

LEMMA GrammarInvariance == Spec => []GrammarInv
BY InitGrammar, NextGrammar, PTL DEF Spec

(* What is looked at is a form of the usage, if each part is in order that is
   looked at. *)
LEMMA UnderstoodMeans == Understood(command) <=> InLanguage(command)
<1> DEFINE p == command.params[1]
           r == IF command.r = <<>> THEN <<>> ELSE <<command.r[1]>>
           W == {<< <<8>> >>, << <<16>> >>, << <<32>> >>}
<1>1. CASE p = TreeWord
  <2>1. LookedAt(command) = [params |-> <<TreeWord>>, r |-> <<>>, x |-> FALSE]
    BY <1>1, Zenon DEF LookedAt
  <2>2. InUsage(LookedAt(command))
    BY <2>1 DEF InUsage
  <2> QED BY <1>1, <2>2, Zenon DEF Understood, InLanguage
<1>2. CASE p # TreeWord
  <2>1. LookedAt(command) = [params |-> <<p>>, r |-> r, x |-> command.x]
    BY <1>2, Zenon DEF LookedAt
  <2>2. r \in W <=> HasWidth(command)
    <3>1. \A t : <<t>> # <<>> /\ <<t>>[1] = t
      OBVIOUS
    <3>2. CASE command.r = <<>>
      BY <3>1, <3>2, Zenon DEF HasWidth
    <3>3. CASE command.r # <<>>
      <4> DEFINE q == command.r[1]
      <4>1. r = <<q>>
        BY <3>3, Zenon
      <4>2. HasWidth(command) <=> q \in {<<8>>, <<16>>, <<32>>}
        BY <3>3, Zenon DEF HasWidth
      <4> HIDE DEF r, q
      <4>3. \A v : <<q>> = <<v>> <=> q = v
        BY <3>1, Zenon
      <4> QED BY <4>1, <4>2, <4>3, Zenon
    <3> QED BY <3>2, <3>3
  <2> HIDE DEF p, r, W
  <2>3. LET u == LookedAt(command) IN Len(u.params) = 1 /\ u.params[1] = p /\ u.r = r
    BY <2>1
  <2>4. InUsage(LookedAt(command)) <=> (p = AllWord \/ IsAddress(p)) /\ r \in W
    BY <1>2, <2>3, Zenon DEF InUsage, W
  <2>5. InLanguage(command) <=>
          (command.params # <<>> => (p = AllWord \/ IsAddress(p)) /\ HasWidth(command))
    BY <1>2, Zenon DEF InLanguage, p
  <2> QED BY <2>2, <2>4, <2>5, Zenon DEF Understood
<1> QED BY <1>1, <1>2

LEMMA GrammarUsage == GrammarInv => AcceptsUsage
<1>1. GrammarInv => AcceptsLanguage
  BY DEF GrammarInv
<1> QED BY <1>1, UnderstoodMeans, Zenon DEF AcceptsUsage, AcceptsLanguage

(* For every list of parameters and of values of "-r", ParseArguments accepts a
   command line exactly if what it looks at of it is a form of the usage; help
   comes before the complaints. *)
THEOREM AcceptsUsageCorrect == Spec => []AcceptsUsage
BY GrammarUsage, GrammarInvariance, PTL

(* Every form the usage lists is accepted, unless it asks for help: what is not
   looked at of it is not there. *)
THEOREM UsageAccepted ==
  Spec => [](/\ pc = "done" /\ command.status = "success" /\ ~command.help /\ InUsage(command)
             => Result = "PciParseOk")
<1>1. GrammarInv /\ InUsage(command) => Understood(command)
  <2> SUFFICES ASSUME GrammarInv, InUsage(command) PROVE InLanguage(command)
    BY UnderstoodMeans
  <2>1. command.r \in {<< <<8>> >>, << <<16>> >>, << <<32>> >>} => HasWidth(command)
    BY DEF HasWidth
  <2> QED BY <2>1, Zenon DEF InUsage, InLanguage
<1>2. GrammarInv => (/\ pc = "done" /\ command.status = "success" /\ ~command.help /\ InUsage(command)
                     => Result = "PciParseOk")
  BY <1>1, GrammarUsage, Zenon DEF AcceptsUsage
<1> QED BY <1>2, GrammarInvariance, PTL

(* Each option of an accepted command line comes from its own place in it, and
   what the command line does not say is 0. *)
THEOREM OptionsAsSaidCorrect == Spec => []OptionsAsSaid
<1>1. GrammarInv => OptionsAsSaid
  BY DEF GrammarInv
<1> QED BY <1>1, GrammarInvariance, PTL
=============================================================================

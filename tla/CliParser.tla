----------------------------- MODULE CliParser -----------------------------
(***************************************************************************)
(* ParseArguments (CliParser.c): from the parameters the shell library     *)
(* has found on the command line to PCI_CLI_OPTIONS.                       *)
(*                                                                         *)
(* A text is a sequence of lexemes: a run of digits is the number it       *)
(* denotes, however it is written, and what stands between two runs is one *)
(* of the negative codes below.  A pointer into a text is the rest of the  *)
(* text from there on; Nul is what a pointer to its end points to.         *)
(***************************************************************************)
EXTENDS Integers, Sequences, FiniteSets

CONSTANTS
  MaxUint64,   \* 2^64 - 1, where the number conversions saturate
  CommandLines \* what the shell library may find, see CommandLine

Nul   == -1
Colon == -2
Dot   == -3
Other == -4             \* anything else
AllWord  == <<-5>>       \* the word "all"
TreeWord == <<-6>>      \* the word "pcitree"

Texts == Seq(Nat \cup {Colon, Dot, Other}) \cup {AllWord, TreeWord}

(* What ShellCommandLineParseEx makes of the command line: a package, in which
   it finds the flags, the values of "-r" (none if there is no "-r", or nothing
   behind it) and the other parameters; or an error, with or without the
   parameter that is to blame. *)
CommandLine ==
  [status: {"success", "problem", "error"}, help: BOOLEAN, x: BOOLEAN,
   r: Seq(Texts), params: Seq(Texts)]

MAX_UINT16 == 65535

ASSUME MaxAssumption == MaxUint64 \in Nat /\ MaxUint64 >= MAX_UINT16
ASSUME CommandLineAssumption == CommandLines \subseteq CommandLine

Modes   == {"PciCmdNone", "PciCmdSingle", "PciCmdAll", "PciCmdTree"}
Results == {"PciParseOk", "PciParseHelp", "PciParseError"}

UINT16 == 0 .. MAX_UINT16
UINT8  == 0 .. 255

PCI_CLI_OPTIONS ==
  [Mode: Modes, ExtendFlag: BOOLEAN, Seg: UINT16, Bus: UINT8, Dev: UINT8,
   Fun: UINT8, ReadType: 0 .. 32]

(* What the stack may hold before ZeroMem. *)
Leftovers ==
  {[Mode |-> m, ExtendFlag |-> TRUE, Seg |-> 1, Bus |-> 1, Dev |-> 1, Fun |-> 1,
    ReadType |-> 8] : m \in Modes}

VARIABLES
  command,  \* the command line
  pc,       \* where ParseArguments stands; "Seg" .. "Fun" in ParseBdf
  Options,
  Cursor,   \* of ParseBdf: the rest of the text
  Result,
  held      \* what the shell library allocated and is not yet freed

vars == <<command, pc, Options, Cursor, Result, held>>

Init ==
  /\ command \in CommandLines
  /\ pc = "parse" /\ Options \in Leftovers /\ Cursor = <<>>
  /\ Result = "PciParseOk" /\ held = {}

-----------------------------------------------------------------------------
(* StrHexToUint64S and StrDecimalToUint64S: the value of the digits at the
   start of the text, and where the conversion stopped.  Without digits it
   stops at once, with 0; a number that is too large saturates, and the
   conversion stops within its digits. *)
Convert(text) ==
  IF text = <<>> \/ text[1] < 0 THEN [Value |-> 0, End |-> text]
  ELSE IF text[1] > MaxUint64   THEN [Value |-> MaxUint64, End |-> <<9>> \o Tail(text)]
  ELSE [Value |-> text[1], End |-> Tail(text)]

At(text) == IF text = <<>> THEN Nul ELSE text[1]

ZeroOptions ==
  [Mode |-> "PciCmdNone", ExtendFlag |-> FALSE, Seg |-> 0, Bus |-> 0, Dev |-> 0,
   Fun |-> 0, ReadType |-> 0]

(* ZeroMem and ShellCommandLineParseEx.  Variant: the options are not zeroed. *)
ParseKeepsLeftovers ==
  /\ pc = "parse" /\ command.status = "success"
  /\ held' = {"package"}
  /\ pc' = "help"
  /\ UNCHANGED <<command, Options, Cursor, Result>>

Parse ==
  /\ pc = "parse" /\ command.status = "success"
  /\ Options' = ZeroOptions
  /\ held' = {"package"}
  /\ pc' = "help"
  /\ UNCHANGED <<command, Cursor, Result>>

(* The error is printed, and ProblemParam, if there is one, freed. *)
ParseFails ==
  /\ pc = "parse" /\ command.status # "success"
  /\ Options' = ZeroOptions
  /\ held' = IF command.status = "problem" THEN {"problem"} ELSE {}
  /\ pc' = "report"
  /\ UNCHANGED <<command, Cursor, Result>>

ReportProblem ==
  /\ pc = "report"
  /\ held' = held \ {"problem"}
  /\ Result' = "PciParseError"
  /\ pc' = "done"
  /\ UNCHANGED <<command, Options, Cursor>>

(* Variant: the package is kept. *)
HelpKeepsPackage ==
  /\ pc = "help" /\ command.help
  /\ Result' = "PciParseHelp"
  /\ pc' = "done"
  /\ UNCHANGED <<command, Options, Cursor, held>>

Help ==
  /\ pc = "help" /\ command.help
  /\ held' = held \ {"package"}
  /\ Result' = "PciParseHelp"
  /\ pc' = "done"
  /\ UNCHANGED <<command, Options, Cursor>>

NoHelp ==
  /\ pc = "help" /\ ~command.help
  /\ Options' = [Options EXCEPT !.ExtendFlag = command.x]
  /\ pc' = "mode"
  /\ UNCHANGED <<command, Cursor, Result, held>>

-----------------------------------------------------------------------------
(* The first parameter decides; others behind it are not looked at. *)
ModeIs(mode, next) ==
  /\ Options' = [Options EXCEPT !.Mode = mode]
  /\ pc' = next
  /\ UNCHANGED <<command, Cursor, Result, held>>

NoParameter   == pc = "mode" /\ command.params = <<>> /\ ModeIs("PciCmdNone", "free")
Parameter(p)  == pc = "mode" /\ command.params # <<>> /\ command.params[1] = p
TreeParameter == Parameter(TreeWord) /\ ModeIs("PciCmdTree", "free")
AllParameter  == Parameter(AllWord) /\ ModeIs("PciCmdAll", "width")

Fail ==
  /\ Result' = "PciParseError"
  /\ pc' = "free"
  /\ UNCHANGED <<command, Cursor, held>>

(* ParseBdf starts: with one colon there is no segment. *)
ColonCount(text) == Cardinality({i \in DOMAIN text : text[i] = Colon})

BeginBdf ==
  /\ pc = "mode" /\ command.params # <<>> /\ command.params[1] \notin {AllWord, TreeWord}
  /\ Options' = [Options EXCEPT !.Seg = 0]
  /\ LET Str == command.params[1]
     IN IF ColonCount(Str) \in {1, 2}
          THEN /\ Cursor' = Str
               /\ pc' = IF ColonCount(Str) = 2 THEN "Seg" ELSE "Bus"
               /\ UNCHANGED <<command, Result, held>>
          ELSE Fail

(* The fields of an address: terminator, largest value, width of its type and
   what comes after it. *)
Field ==
  [Seg |-> [Terminator |-> Colon, MaxValue |-> MAX_UINT16, Width |-> MAX_UINT16 + 1,
            next |-> "Bus"],
   Bus |-> [Terminator |-> Colon, MaxValue |-> 255, Width |-> 256, next |-> "Dev"],
   Dev |-> [Terminator |-> Dot, MaxValue |-> 31, Width |-> 256, next |-> "Fun"],
   Fun |-> [Terminator |-> Nul, MaxValue |-> 7, Width |-> 256, next |-> "single"]]

(* ParseHexField succeeds.  Variants: the value is not compared, or only after
   it has been narrowed. *)
FieldFitsAnyValue(f, c) == c.End # Cursor /\ At(c.End) = f.Terminator
FieldFitsNarrowed(f, c) ==
  c.End # Cursor /\ At(c.End) = f.Terminator /\ c.Value % f.Width <= f.MaxValue
FieldFits(f, c) ==
  c.End # Cursor /\ At(c.End) = f.Terminator /\ c.Value <= f.MaxValue

(* One ParseHexField and the assignment of its value. *)
ParseField ==
  /\ pc \in DOMAIN Field
  /\ LET f == Field[pc]
         c == Convert(Cursor)
     IN IF FieldFits(f, c)
          THEN /\ Options' = [Options EXCEPT ![pc] = c.Value % f.Width]
               /\ Cursor' = IF f.Terminator = Nul THEN c.End ELSE Tail(c.End)
               /\ pc' = f.next
               /\ UNCHANGED <<command, Result, held>>
          ELSE Fail /\ UNCHANGED Options

(* ParseBdf has returned TRUE. *)
SingleParameter == pc = "single" /\ ModeIs("PciCmdSingle", "width")

(* ParseReadType, on the value of "-r". *)
WidthOf(text) == IF Convert(text).End = <<>> THEN Convert(text).Value ELSE 0

ParseReadType ==
  /\ pc = "width"
  /\ IF command.r # <<>> /\ WidthOf(command.r[1]) \in {8, 16, 32}
       THEN /\ Options' = [Options EXCEPT !.ReadType = WidthOf(command.r[1])]
            /\ pc' = "free"
            /\ UNCHANGED <<command, Cursor, Result, held>>
       ELSE Fail /\ UNCHANGED Options

Free ==
  /\ pc = "free"
  /\ held' = held \ {"package"}
  /\ pc' = "done"
  /\ UNCHANGED <<command, Options, Cursor, Result>>

Next ==
  \/ Parse \/ ParseFails \/ ReportProblem \/ Help \/ NoHelp
  \/ NoParameter \/ TreeParameter \/ AllParameter
  \/ BeginBdf \/ ParseField \/ SingleParameter \/ ParseReadType \/ Free

Spec == Init /\ [][Next]_vars

-----------------------------------------------------------------------------
(* Every variable keeps its type.  While an address is parsed the options
   hold the fields read so far, within their maxima: also a failed parse leaves
   no device or function number that does not exist. *)
TypeOK ==
  /\ command \in CommandLines
  /\ pc \in {"parse", "report", "help", "mode", "single", "width", "free", "done"}
            \cup DOMAIN Field
  /\ Options \in PCI_CLI_OPTIONS
  /\ Options.Dev <= 31 /\ Options.Fun <= 7
  /\ Options.ReadType \in {0, 8, 16, 32}
  /\ Result \in Results
  /\ held \subseteq {"package", "problem"}

(* README.md, "Usage": an address is segment:bus:dev.func or bus:dev.func. *)
IsBusDevFun(text) ==
  /\ Len(text) = 5
  /\ text[1] \in 0 .. 255 /\ text[2] = Colon
  /\ text[3] \in 0 .. 31 /\ text[4] = Dot
  /\ text[5] \in 0 .. 7

IsAddress(text) ==
  \/ IsBusDevFun(text)
  \/ /\ Len(text) = 7
     /\ text[1] \in UINT16 /\ text[2] = Colon
     /\ IsBusDevFun(SubSeq(text, 3, 7))

(* README.md, "Usage": the forms a command line with a parameter may have. *)
InUsage(c) ==
  /\ Len(c.params) = 1
  /\ \/ c.params[1] = TreeWord /\ c.r = <<>> /\ ~c.x
     \/ /\ c.params[1] = AllWord \/ IsAddress(c.params[1])
        /\ c.r \in {<< <<8>> >>, << <<16>> >>, << <<32>> >>}

(* What ParseArguments looks at: neither the parameters behind the first nor a
   second "-r", and with "pcitree" no flag at all. *)
LookedAt(c) ==
  IF c.params[1] = TreeWord
    THEN [params |-> <<TreeWord>>, r |-> <<>>, x |-> FALSE]
    ELSE [params |-> <<c.params[1]>>, r |-> IF c.r = <<>> THEN <<>> ELSE <<c.r[1]>>, x |-> c.x]

Understood(c) == c.params # <<>> => InUsage(LookedAt(c))

(* ParseArguments accepts a command line exactly if what it looks at of it is a
   form of the usage: all that README.md lists, and more, as what stands behind
   a first parameter goes unnoticed.
   No check of a field turns away a value at its limit, lets one beyond it
   pass, or one of which only the low bits fit; no part of an address may be
   missing and nothing may stand behind it.  "-h" comes before any other
   complaint. *)
AcceptsUsage ==
  pc = "done" =>
    Result = IF command.status # "success" THEN "PciParseError"
             ELSE IF command.help           THEN "PciParseHelp"
             ELSE IF Understood(command)    THEN "PciParseOk"
             ELSE "PciParseError"

(* PciParseOk comes with the options that the command line says, each field
   from its own place; what the command line does not say is 0 and nothing of
   what was on the stack is left. *)
Said(c) ==
  IF c.params = <<>> \/ c.params[1] = TreeWord
    THEN [ZeroOptions EXCEPT !.ExtendFlag = c.x,
                             !.Mode = IF c.params = <<>> THEN "PciCmdNone" ELSE "PciCmdTree"]
  ELSE IF c.params[1] = AllWord
    THEN [ZeroOptions EXCEPT !.ExtendFlag = c.x, !.Mode = "PciCmdAll", !.ReadType = c.r[1][1]]
  ELSE LET text == c.params[1]
           n    == Len(text)
       IN [Mode |-> "PciCmdSingle", ExtendFlag |-> c.x,
           Seg  |-> IF n = 7 THEN text[1] ELSE 0,
           Bus  |-> text[n - 4], Dev |-> text[n - 2], Fun |-> text[n],
           ReadType |-> c.r[1][1]]

OptionsAsSaid == pc = "done" /\ Result = "PciParseOk" => Options = Said(command)

(* ParseArguments returns with everything freed that the shell library
   allocated for it, on each of its ways out. *)
NothingHeld == pc = "done" => held = {}
=============================================================================

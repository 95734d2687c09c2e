---------------------------- MODULE MCCliParser ----------------------------
(***************************************************************************)
(* Command lines for CliParser: addresses whose numbers are on both sides  *)
(* of every limit, damaged addresses, short texts of all kinds, and every  *)
(* combination of flags and "-r".                                          *)
(***************************************************************************)
EXTENDS CliParser

Max64 == 1048575
Huge  == Max64 + 1

Local(B, D, F) == {<<b, Colon, d, Dot, f>> : b \in B, d \in D, f \in F}

\* 0x100 and 0x10000 are 0 in the width of their field.
LocalAddresses == Local({0, 255, 256, Huge}, {0, 31, 32, 256, Huge}, {0, 7, 8, 256, Huge})

FullAddresses ==
  {<<s, Colon>> \o a : s \in {0, 65535, 65536, Huge}, a \in Local({0, 255, 256}, {31, 32}, {7, 8})}

Chars == {3, Colon, Dot, Other}

\* One lexeme replaced, the end cut off, one lexeme too many.
Damaged(t) ==
  {[t EXCEPT ![i] = c] : i \in DOMAIN t, c \in Chars}
    \cup {SubSeq(t, 1, n) : n \in 0 .. Len(t)}
    \cup {Append(t, c) : c \in Chars} \cup {<<c>> \o t : c \in Chars}

ShortTexts == UNION {[1 .. n -> Chars] : n \in 0 .. 5}

\* Two numbers do not stand side by side.
IsText(t) == \A i \in 1 .. Len(t) - 1 : t[i] < 0 \/ t[i + 1] < 0

AllTexts ==
  {t \in LocalAddresses \cup FullAddresses \cup ShortTexts
         \cup Damaged(<<1, Colon, 31, Dot, 7>>) \cup Damaged(<<2, Colon, 1, Colon, 31, Dot, 7>>) :
     IsText(t)}

Widths ==
  {<<>>, << <<>> >>, << <<Other>> >>, << <<8, Other>> >>, << <<Huge>> >>, << <<8>>, <<16>> >>,
   << <<7>>, <<8>> >>}
    \cup {<< <<n>> >> : n \in {0, 8, 16, 32, 64}}

Line(s, h, x, r, p) == [status |-> s, help |-> h, x |-> x, r |-> r, params |-> p]

MixedLines ==
  {Line(s, h, x, r, p) :
     s \in {"success", "problem", "error"}, h \in BOOLEAN, x \in BOOLEAN, r \in Widths,
     p \in {<<>>, <<AllWord>>, <<TreeWord>>, <<AllWord, TreeWord>>, << <<1, Colon, 2, Dot, 3>> >>,
            << <<1, Colon, 2, Dot, 8>>, TreeWord>>}}

AddressLines == {Line("success", FALSE, FALSE, << <<16>> >>, <<t>>) : t \in AllTexts}

\* The same arguments, alone and with something that no form of the usage has.
ExtraLines ==
  {Line("success", FALSE, x, r, p) :
     x \in BOOLEAN, r \in {<<>>, << <<8>> >>, << <<8>>, <<16>> >>},
     p \in {<<>>} \cup {<<q>> \o e : q \in {AllWord, TreeWord, <<1, Colon, 2, Dot, 3>>},
                                e \in {<<>>, <<TreeWord>>, << <<3>> >>}}}

AllLines == MixedLines \cup AddressLines \cup ExtraLines
=============================================================================

------------------------------- MODULE Number -------------------------------
(***************************************************************************)
(* dom::Number of just-kdl and its NumberBuilder: a number is kept as a    *)
(* text, which the builder makes of what it reads one character at a time. *)
(* The builder is fed by the lexer (ident_inner), which has seen that the  *)
(* text starts like a number, or by FromStr, with any text.  A number may  *)
(* also be made of a float.                                                *)
(*                                                                         *)
(* What is right is defined without the builder: Meanings, by the grammar  *)
(* of KDL, takes a whole text apart.                                       *)
(***************************************************************************)
EXTENDS Integers, Sequences, SequencesExt

CONSTANTS
  MaxLen,       \* bound on the text
  MaxInt,       \* the greatest value of the integers used for bases (i32, i64)
  SlashBehind,  \* a slash may directly follow a number
  OddFloats     \* floats may be NaN, or be printed with an exponent

ASSUME NumberAssumption ==
  /\ MaxLen \in Nat /\ MaxInt \in Nat
  /\ SlashBehind \in BOOLEAN /\ OddFloats \in BOOLEAN

VARIABLES
  source,  \* who makes the number: "lexer", "parse" (FromStr) or "float"
  read,    \* the characters that were accepted
  stop,    \* the one that ended them: "end" is the end of the text or any other
           \* character that ends an identifier, "tail" one that does not
  state, base, text,  \* NumberBuilder, text without the tag in front
  result,  \* "none" while it reads, then "Number" or "Err"
  tag      \* of the finished number

numberVars == <<source, read, stop, state, base, text, result, tag>>

\* Digits of base 2, 8 (not 2), 10 (not 8) and 16 (not 10); b and e are of base
\* 16 too.
Decimals == {"0", "1", "7", "9"}
NonZero  == Decimals \ {"0"}
Hexes    == Decimals \union {"a", "b", "e", "E"}

\* Characters that ident_inner hands to the builder: "z" is any letter, or a
\* comma, that is in no number.
Handed == Hexes \union {"x", "o", "underscore", ".", "+", "-", "z", "/"}

Digits(b) ==
  CASE b = "Binary" -> {"0", "1"}
    [] b = "Octal"  -> {"0", "1", "7"}
    [] b = "Decimal" -> Decimals
    [] b = "Hexadecimal" -> Hexes

-----------------------------------------------------------------------------
(* NumberBuilder                                                           *)

\* What a rule pushes before the character, and whether it pushes that.
Nothing  == [first |-> <<>>, char |-> FALSE]
Char     == [first |-> <<>>, char |-> TRUE]
Zero     == [first |-> <<"0">>, char |-> FALSE]
ZeroChar == [first |-> <<"0">>, char |-> TRUE]
PlusChar == [first |-> <<"+">>, char |-> TRUE]

Rule(from, on, to, push) == [from |-> from, on |-> on, to |-> to, push |-> push]

\* The arms of step(); cancel_base is the Zero of a leading zero.
Rules ==
  LET digits == Digits(base)
      decimal == base = "Decimal"
  IN  { Rule("Start", {"+"}, "Signed", Nothing),
        Rule("Start", {"-"}, "Signed", Char),
        Rule("Start", {"0"}, "MaybeBased", Nothing),
        Rule("Start", NonZero, "Value", Char),
        Rule("Signed", {"0"}, "MaybeBased", Nothing),
        Rule("Signed", NonZero, "Value", Char),
        Rule("MaybeBased", {"x", "o", "b"}, "ValueStart", Nothing),
        Rule("MaybeBased", Decimals, "Value", Char),
        Rule("MaybeBased", {"underscore"}, "Value", Zero),
        Rule("MaybeBased", {"."}, "FractionStart", ZeroChar),
        Rule("MaybeBased", {"e", "E"}, "ExponentStart", ZeroChar),
        Rule("ValueStart", digits, "Value", Char),
        Rule("Value", digits, "Value", Char),
        Rule("Value", {"underscore"}, "Value", Nothing),
        Rule("Value", IF decimal THEN {"."} ELSE {}, "FractionStart", Char),
        Rule("Value", IF decimal THEN {"e", "E"} ELSE {}, "ExponentStart", Char),
        Rule("FractionStart", digits, "Fraction", Char),
        Rule("Fraction", digits, "Fraction", Char),
        Rule("Fraction", {"underscore"}, "Fraction", Nothing),
        Rule("Fraction", {"e", "E"}, "ExponentStart", Char),
        Rule("ExponentStart", {"+", "-"}, "ExponentSigned", Char),
        Rule("ExponentStart", Decimals, "Exponent", PlusChar),
        Rule("ExponentSigned", Decimals, "Exponent", Char),
        Rule("Exponent", Decimals, "Exponent", Char),
        Rule("Exponent", {"underscore"}, "Exponent", Nothing) }

BaseOf(char) ==
  CASE char = "x" -> "Hexadecimal" [] char = "o" -> "Octal" [] char = "b" -> "Binary"

Upper(char) == IF char = "e" THEN "E" ELSE char

\* Mutant: a zero in front of a point or exponent is forgotten.
PushedNoZero(push, char) == IF push.char THEN <<Upper(char)>> ELSE <<>>

Pushed(push, char) == push.first \o (IF push.char THEN <<Upper(char)>> ELSE <<>>)

Accept(char, rule) ==
  /\ rule.from = state /\ char \in rule.on
  /\ state' = rule.to
  /\ base' = IF rule.to = "ValueStart" THEN BaseOf(char) ELSE base
  /\ text' = text \o Pushed(rule.push, char)
  /\ read' = Append(read, char)

Accepts(char) == \E rule \in Rules : rule.from = state /\ char \in rule.on

\* Mutant: a number may end behind its point.
FinalStatesPoint == {"MaybeBased", "Value", "FractionStart", "Fraction", "Exponent"}

FinalStates == {"MaybeBased", "Value", "Fraction", "Exponent"}

Float == state \in {"Fraction", "Exponent"}

Tag(b, float) ==
  IF float THEN "f"
  ELSE CASE b = "Decimal" -> "d" [] b = "Octal" -> "o"
         [] b = "Binary" -> "b" [] b = "Hexadecimal" -> "x"

-----------------------------------------------------------------------------
(* What a finished number is used for                                      *)

Negative == text # <<>> /\ text[1] = "-"
Body     == IF Negative THEN Tail(text) ELSE text

Prefix(t) ==
  CASE t = "x" -> <<"0", "x">> [] t = "o" -> <<"0", "o">> [] t = "b" -> <<"0", "b">>
    [] t \notin {"x", "o", "b"} -> <<>>

\* How the number is written: the sign comes before the base.
Display == (IF Negative THEN <<"-">> ELSE <<>>) \o Prefix(tag) \o Body

DigitValue(char) ==
  CASE char = "0" -> 0 [] char = "1" -> 1 [] char = "7" -> 7 [] char = "9" -> 9
    [] char = "a" -> 10 [] char = "b" -> 11 [] char \in {"e", "E"} -> 14

Radix(b) ==
  CASE b = "Binary" -> 2 [] b = "Octal" -> 8 [] b = "Decimal" -> 10
    [] b = "Hexadecimal" -> 16

ValueOf(digits, b) ==
  LET value[n \in 0 .. Len(digits)] ==
        IF n = 0 THEN 0 ELSE value[n - 1] * Radix(b) + DigitValue(digits[n])
  IN  value[Len(digits)]

BaseTagged(t) ==
  CASE t = "x" -> "Hexadecimal" [] t = "o" -> "Octal" [] t = "b" -> "Binary"
    [] t = "d" -> "Decimal"

Fits(value) == value \in (-MaxInt - 1) .. MaxInt

\* Mutant: an overflow has no sign.
CoercedUnsigned ==
  LET value == (IF Negative THEN -1 ELSE 1) * ValueOf(Body, BaseTagged(tag))
  IN  IF tag = "d" \/ Fits(value) THEN <<value>> ELSE <<"inf">>

\* An integer as a float: another base goes through an integer of the float's
\* width, and saturates there.
Coerced ==
  LET value == (IF Negative THEN -1 ELSE 1) * ValueOf(Body, BaseTagged(tag))
  IN  IF tag = "d" \/ Fits(value) THEN <<value>>
      ELSE IF Negative THEN <<"-inf">> ELSE <<"inf">>

-----------------------------------------------------------------------------
(* Its users                                                               *)

ReadingNumber == result = "none" /\ source # "float"

\* Lexer::ident() has seen a digit, or a sign and a digit.
Previewed(char) ==
  source = "lexer" =>
    IF read = <<>> THEN char \in Decimals \union {"+", "-"}
    ELSE Len(read) = 1 /\ read[1] \in {"+", "-"} => char \in Decimals

Read(char) ==
  /\ ReadingNumber /\ Len(read) < MaxLen /\ Previewed(char)
  /\ \E rule \in Rules : Accept(char, rule)
  /\ UNCHANGED <<source, stop, result, tag>>

\* The character is refused.  In the lexer it is not passed.
Refuse(char) ==
  /\ ReadingNumber /\ Previewed(char) /\ ~Accepts(char)
  /\ char = "/" /\ source = "lexer" => SlashBehind
  /\ result' = "Err" /\ stop' = char
  /\ UNCHANGED <<source, read, state, base, text, tag>>

\* finish(): a lone zero is pushed now.
Finish ==
  /\ ReadingNumber /\ Previewed("end")
  /\ stop' = "end"
  /\ IF state \in FinalStates
     THEN /\ result' = "Number" /\ tag' = Tag(base, Float)
          /\ text' = IF state = "MaybeBased" THEN Append(text, "0") ELSE text
     ELSE result' = "Err" /\ UNCHANGED <<tag, text>>
  /\ UNCHANGED <<source, read, state, base>>

\* A character that is not ASCII, or that an identifier may have but no number.
RefuseTail ==
  /\ ReadingNumber /\ Previewed("tail")
  /\ result' = "Err" /\ stop' = "tail"
  /\ UNCHANGED <<source, read, state, base, text, tag>>

\* How a float is printed for debugging: NaN has no sign and infinity is inf;
\* very large and small ones have an exponent, others a point.
PlainFloats == {<<"0", ".", "0">>, <<"-", "0", ".", "0">>, <<"1", ".", "7">>}
PrintedWithExponent == {<<"1", "e", "1", "7">>, <<"1", "e", "-", "7">>}
Infinite == {<<"inf">>, <<"-inf">>}
Nan      == {<<"NaN">>}

FromFloat ==
  /\ source = "float" /\ result = "none"
  /\ \/ text' \in Infinite /\ tag' = "#"
     \/ text' \in PlainFloats /\ tag' = "f"
     \/ OddFloats /\ text' \in Nan /\ tag' = "#"
     \/ OddFloats /\ text' \in PrintedWithExponent /\ tag' = "f"
  /\ result' = "Number"
  /\ UNCHANGED <<source, read, stop, state, base>>

\* FromStr knows the special numbers by their text.
FromSpecial ==
  /\ source = "parse" /\ ReadingNumber /\ read = <<>>
  /\ text' \in Infinite \union {<<"nan">>} /\ tag' = "#" /\ result' = "Number"
  /\ UNCHANGED <<source, read, stop, state, base>>

NumberInit ==
  /\ source \in {"lexer", "parse", "float"}
  /\ read = <<>> /\ stop = "none"
  /\ state = "Start" /\ base = "Decimal" /\ text = <<>>
  /\ result = "none" /\ tag = "?"

NumberNext ==
  \/ \E char \in Handed : Read(char) \/ Refuse(char)
  \/ Finish \/ RefuseTail \/ FromFloat \/ FromSpecial

NumberSpec == NumberInit /\ [][NumberNext]_numberVars

-----------------------------------------------------------------------------
(* The numbers of KDL                                                      *)

Signs    == {"+", "-"}
Unsigned(t) == IF t # <<>> /\ t[1] \in Signs THEN Tail(t) ELSE t

\* digit (digit | underscore)*
Whole(t, b) ==
  t # <<>> /\ t[1] \in Digits(b) /\ Range(t) \subseteq Digits(b) \union {"underscore"}

Plain(t) ==
  FlattenSeq([i \in DOMAIN t |-> IF t[i] = "underscore" THEN <<>> ELSE <<Upper(t[i])>>])

\* Without the zeros in front of the last digit.
NoZeros(t) ==
  LET first == CHOOSE i \in DOMAIN t :
                 /\ i = Len(t) \/ t[i] # "0"
                 /\ \A j \in 1 .. i - 1 : t[j] = "0"
  IN  SubSeq(t, first, Len(t))

\* The exponent after its e: a sign or none.
Power(t) ==
  IF t = <<>> THEN <<>>
  ELSE (IF t[2] = "-" THEN <<"-">> ELSE <<"+">>) \o Plain(Unsigned(Tail(t)))

IsPower(t) == t = <<>> \/ (t[1] \in {"e", "E"} /\ Whole(Unsigned(Tail(t)), "Decimal"))
IsFraction(t) == t = <<>> \/ (t[1] = "." /\ Whole(Tail(t), "Decimal"))

\* What follows 0x, 0o or 0b is a whole number in that base.
Based(body) ==
  {b \in {"x", "o", "b"} :
     /\ Len(body) > 2 /\ body[1] = "0" /\ body[2] = b
     /\ Whole(SubSeq(body, 3, Len(body)), BaseOf(b))}

\* Where a decimal number may be cut: its whole part ends at c[1], its fraction
\* at c[2].
Cuts(body) ==
  {c \in (1 .. Len(body)) \X (1 .. Len(body)) :
     /\ c[1] <= c[2]
     /\ Whole(SubSeq(body, 1, c[1]), "Decimal")
     /\ IsFraction(SubSeq(body, c[1] + 1, c[2]))
     /\ IsPower(SubSeq(body, c[2] + 1, Len(body)))}

Meaning(t, b, whole, fraction, power) ==
  [negative |-> t[1] = "-", base |-> b, whole |-> NoZeros(Plain(whole)),
   fraction |-> Plain(fraction), power |-> Power(power)]

\* What a text means as a number: nothing or one meaning.
Meanings(t) ==
  LET body == Unsigned(t)
      part(i, j) == SubSeq(body, i, j)
  IN  {Meaning(t, BaseOf(b), part(3, Len(body)), <<>>, <<>>) : b \in Based(body)}
        \union {Meaning(t, "Decimal", part(1, c[1]), part(c[1] + 1, c[2]),
                        part(c[2] + 1, Len(body))) : c \in Cuts(body)}

\* Some number starts like this.
Hopeful(t) == Meanings(t) # {} \/ Meanings(Append(t, "1")) # {}

\* What may stand behind a number: a slash starts a comment.
Ends == {"end"} \union (IF source = "lexer" THEN {"/"} ELSE {})

-----------------------------------------------------------------------------
(* Properties                                                              *)

\* Exactly the numbers of KDL are accepted, and no text is refused before it
\* is hopeless or read on when it is: what NumberBuilder and ident_inner accept
\* between them.
AcceptsNumbers ==
  /\ ReadingNumber => Hopeful(read)
  /\ result = "Number" /\ stop # "none" => Meanings(read) # {}
  /\ result = "Err" =>
       IF stop \in Ends THEN Meanings(read) = {}
       ELSE stop = "tail" \/ ~Hopeful(Append(read, stop))

Integral(t) == t # <<>> /\ Range(t) \subseteq Decimals

\* The text that Description promises: digits, or -?\d+(.\d+)?(E[+-]\d+)?,
\* or one of three names.
Described ==
  CASE tag = "#" -> text \in {<<"inf">>, <<"-inf">>, <<"nan">>}
    [] tag = "f" -> \E i, j \in 1 .. Len(Body) :
                      /\ i <= j
                      /\ Integral(SubSeq(Body, 1, i))
                      /\ \/ i = j
                         \/ Body[i + 1] = "." /\ Integral(SubSeq(Body, i + 2, j))
                      /\ \/ j = Len(Body)
                         \/ /\ j + 1 < Len(Body) /\ Body[j + 1] = "E"
                            /\ Body[j + 2] \in Signs
                            /\ Integral(SubSeq(Body, j + 3, Len(Body)))
    [] tag \notin {"#", "f"} -> Body # <<>> /\ Range(Body) \subseteq Digits(BaseTagged(tag))

\* A finished number is kept as Description promises its users, and writing it
\* gives a text that is the number that was read.
KeepsValue ==
  result = "Number" =>
    /\ Described
    /\ stop # "none" => Meanings(Display) = Meanings(read)

\* An integer in any base becomes the float it says, or the infinity of its
\* sign where it does not fit (coerce_to_float).
CoercesToValue ==
  result = "Number" /\ tag \in {"d", "x", "o", "b"} =>
    \A m \in Meanings(read) :
      LET size == ValueOf(m.whole, m.base)
          value == IF m.negative THEN -size ELSE size
      IN  Coerced = IF m.base = "Decimal" \/ Fits(value) THEN <<value>>
                    ELSE IF value > 0 THEN <<"inf">> ELSE <<"-inf">>
=============================================================================

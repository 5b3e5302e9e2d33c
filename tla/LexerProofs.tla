----------------------------- MODULE LexerProofs -----------------------------
(***************************************************************************)
(* Lexer keeps its promises for comments and strings of any depth and any  *)
(* number of hashes.                                                       *)
(***************************************************************************)
EXTENDS Lexer, TLAPS, SequenceTheorems

-----------------------------------------------------------------------------
(* The parts of the inductive invariant.  They speak of the first two      *)
(* characters of a text.  All but Nested and Newline hold of every text.   *)

First(text)  == IF text = <<>> THEN "none" ELSE text[1]
Second(text) == IF Len(text) > 1 THEN text[2] ELSE "none"

BlankPoints   == {"spaces", "lines", "escline"}
RecoverPoints == {"recoverLine", "recoverBlock", "recoverString"}
StringPoints  == {"opening", "string", "indent", "closing",
                  "escape", "escapeBlank", "unicode", "hex"}

\* What next_skip is at each point: what is left to do should the call fail.
Places ==
  /\ at \in {"token", "preview", "ident", "number", "hashes"} => nextSkip = "None"
  /\ at \in BlankPoints => nextSkip \in {"None", "Spaces", "Lines"}
  /\ at \in {"block", "recoverBlock"} => nextSkip = "RecoverBlockComment"
  /\ at \in {"line", "recoverLine"} => nextSkip = "RecoverLineComment"
  /\ at \in StringPoints \union {"recoverString"} => nextSkip = "RecoverString"
  /\ nextSkip = "IrrecoverableError" => at = "idle"

\* A pair of characters that the recovery has counted and passed by half.
HalfOpen   == half = "/" /\ First(ahead) = "*"
HalfClosed == half = "*" /\ First(ahead) = "/"

\* The depth is that of the text, or one pair ahead of it.
Nested ==
  IF nextSkip = "RecoverBlockComment"
  THEN /\ half # "no" => First(ahead) # "none"
       /\ HalfOpen \/ HalfClosed => at = "recoverBlock"
       /\ HalfOpen => depth > 0
       /\ nest = IF HalfOpen THEN depth ELSE IF HalfClosed THEN depth + 2 ELSE depth + 1
  ELSE nest = 0

\* Nothing is seen behind a CR or the end.
Apart(text) == \A i \in 1..Len(text) : text[i] \in {"cr", "eof"} => i = Len(text)

\* A CR that was passed is followed by the LF that belongs to it only where
\* both are passed.
Newline ==
  /\ last = "alone" => First(ahead) # "lf"
  /\ last = "cr" =>
       \/ at = "lines" \/ (at = "idle" /\ nextSkip = "Lines")
       \/ nextSkip \in {"RecoverBlockComment", "RecoverString", "IrrecoverableError"}
       \/ First(ahead) \notin {"none", "lf"}
  /\ at = "closing" => last # "cr"

\* Blank text that BeginSkip left to the next call, which passes some of it.
BlankLeft ==
  \/ /\ at \in {"idle", "spaces"} /\ nextSkip = "Spaces"
     /\ First(ahead) = "\\" \/ (First(ahead) = "/" /\ Second(ahead) = "*")
  \/ /\ at \in {"idle", "lines"} /\ nextSkip = "Lines"
     /\ First(ahead) = "/" /\ Second(ahead) = "/"

\* What the last token says of the text that follows it.
Followed ==
  /\ out \in {"Spaces", "Lines"} =>
       /\ at = "idle" => nextSkip = out
       /\ at \notin RecoverPoints
       /\ at = "token" => /\ First(ahead) \notin {"none", "space", "\\"}
                          /\ First(ahead) = "/" => Second(ahead) \notin {"none", "*"}
  /\ out = "Lines" =>
       /\ at # "spaces"
       /\ at \in {"lines", "escline", "block", "line"} => outer = "lines"
       /\ at = "token" => /\ First(ahead) \notin Newlines
                          /\ First(ahead) = "/" => Second(ahead) # "/"
  /\ out = "Eof" =>
       \/ at = "idle" /\ nextSkip = "IrrecoverableError"
       \/ at \in {"idle", "token"} /\ nextSkip = "None" /\ First(ahead) = "eof"

\* Where a call has passed some text, or is about to.
Moving ==
  /\ at = "preview" \/ (at = "ident" /\ ~moved)
       => First(ahead) \notin NotIdent \union {"none", "eof"}
  /\ at = "hashes" /\ ~moved => First(ahead) \in {"#", "quote"}
  /\ at \in StringPoints \union {"escline", "block", "line", "number"} => moved

\* What a text is like that nothing was passed of.
Fresh ==
  /\ moved \/ nextSkip \in {"RecoverLineComment", "RecoverBlockComment", "RecoverString"}
       => begun
  /\ ~begun => out \in {"Start", "Eof"} \/ nextSkip = "IrrecoverableError" \/ BlankLeft

\* A call that follows one that passed nothing passes something.
Stalled ==
  /\ stalls \in 0..1
  /\ stalls = 1 => (at # "idle" /\ moved) \/ nextSkip = "IrrecoverableError" \/ BlankLeft

-----------------------------------------------------------------------------
(* What peek() shows and advance() leaves.                                 *)

Text == Seq(Chars \union {"eof"})

\* Nothing is seen behind the end of the text.
EofLast(text) == \A i \in 1..Len(text) : text[i] = "eof" => i = Len(text)

\* One look at the text: enough of it, or one character more.
LEMMA MoreFacts ==
  ASSUME NEW text \in Text, Len(text) \in 0..3, NEW b \in More(text)
  PROVE  /\ b \in Text /\ Len(b) \in 1..3
         /\ Len(text) <= Len(b)
         /\ \A i \in 1..Len(text) : b[i] = text[i]
         /\ Enough(b) \/ Len(b) = Len(text) + 1
         /\ EofLast(text) => EofLast(b)
         /\ text = <<>> /\ last = "alone" /\ ~SplitNewline => b[1] # "lf"
         /\ IF Enough(text) THEN b = text ELSE Len(b) = Len(text) + 1
<1>1. Need(text) \in 1..3
  BY DEF Need
<1>2. CASE Enough(text)
  <2>1. b = text /\ text # <<>>
    BY <1>2 DEF More, Enough, Ends
  <2>2. text \in Text /\ Len(text) \in 1..3
    BY <2>1, EmptySeq DEF Text
  <2> QED
    BY <1>2, <2>1, <2>2
<1>3. CASE ~Enough(text)
  <2>1. PICK c \in Following(text) : b = Append(text, c)
    BY <1>3 DEF More
  <2>2. c \in Chars \union {"eof"}
    BY DEF Following
  <2>3. Len(text) < 3
    BY <1>1, <1>3 DEF Enough, Text
  <2>4. text # <<>> => text[Len(text)] # "eof"
    BY <1>3 DEF Enough, Ends
  <2>5. /\ b \in Text /\ Len(b) = Len(text) + 1 /\ b[Len(b)] = c
        /\ \A i \in 1..Len(text) : b[i] = text[i]
    BY <2>1, <2>2 DEF Text
  <2>6. text = <<>> /\ last = "alone" /\ ~SplitNewline => c # "lf"
    BY <2>1 DEF Following, LeftOut
  <2> QED
    BY <1>3, <2>3, <2>4, <2>5, <2>6 DEF Text, EofLast
<1> QED
  BY <1>2, <1>3

\* What is known of a text that peek() shows.
Shown(a) ==
  /\ a \in Text /\ Len(a) \in 1..3 /\ EofLast(a)
  /\ a[1] # "eof" /\ NeedsSecond(a) => Len(a) > 1
  /\ Len(ahead) <= Len(a) /\ \A i \in 1..Len(ahead) : a[i] = ahead[i]
  /\ ahead = <<>> /\ last = "alone" /\ ~SplitNewline => a[1] # "lf"

\* A CR is the last character that is seen, unless its LF is looked for.
LinesTogether == at \in {"recoverBlock", "opening"} \/ InLines

CrLast(a) ==
  /\ Len(a) > 1 /\ a[1] = "cr" => LinesTogether
  /\ Len(a) > 2 => a[2] # "cr"

\* The text that a step looks at.
Seen(a) ==
  /\ Len(a) \in 1..3 /\ a[1] \in Chars \union {"eof"}
  /\ Second(a) \in Chars \union {"none", "eof"}
  /\ Second(a) = "none" <=> Len(a) = 1
  /\ Len(a) > 1 => a[1] # "eof" /\ a[2] = Second(a)
  /\ Len(a) > 2 => a[2] # "eof" /\ a[3] \in Chars \union {"eof"}
  /\ a[1] = "cr" /\ Len(a) > 1 => LinesTogether
  /\ a[1] # "eof" /\ NeedsSecond(a) => Len(a) > 1
  /\ First(ahead) \in {"none", a[1]} /\ Second(ahead) \in {"none", Second(a)}
  /\ First(ahead) = "none" /\ last = "alone" /\ ~SplitNewline => a[1] # "lf"

\* What remains of it.
Left(a) ==
  /\ Stay(a) => /\ First(ahead') = a[1] /\ Second(ahead') = Second(a)
                /\ UNCHANGED <<begun, moved, last>>
  /\ Pass(a, 1) =>
       First(ahead') = Second(a) /\ begun' = TRUE /\ moved' = TRUE /\ last' = Kind(a[1])
  /\ Pass(a, 2) /\ Len(a) > 1 =>
       /\ First(ahead') = IF Len(a) > 2 THEN a[3] ELSE "none"
       /\ begun' = TRUE /\ moved' = TRUE /\ last' = Kind(a[2])
  /\ Pass(a, 3) /\ Len(a) > 2 =>
       First(ahead') = "none" /\ begun' = TRUE /\ moved' = TRUE /\ last' = Kind(a[3])
  /\ PassAlone(a) =>
       /\ First(ahead') = Second(a) /\ begun' = TRUE /\ moved' = TRUE
       /\ last' = IF a[1] = "cr" THEN "alone" ELSE Kind(a[1])

Starting(a) ==
  /\ \A x, y : Starts(a, <<x, y>>) <=> Len(a) > 1 /\ a[1] = x /\ a[2] = y
  /\ \A x, y, z : Starts(a, <<x, y, z>>)
       <=> Len(a) > 2 /\ a[1] = x /\ a[2] = y /\ a[3] = z

\* What a step may do with it.
Touches(a) ==
  \/ Stay(a) /\ (a[1] = "cr" => ~LinesTogether)
  \/ PassAlone(a) \/ Pass(a, 1)
  \/ (Pass(a, 2) /\ Len(a) > 1) \/ (Pass(a, 3) /\ Len(a) > 2)

\* What was passed stays passed.
Onward == (begun => begun' = TRUE) /\ (moved => moved' = TRUE)

FlagTypes ==
  begun \in BOOLEAN /\ moved \in BOOLEAN /\ last \in {"cr", "lf", "alone", "other"}

TextTypes == ahead \in Text /\ Len(ahead) <= 3 /\ Apart(ahead) /\ FlagTypes

ControlTypes ==
  at \in Points /\ out \in Tokens \union {"Start", "Err"} /\ stalls \in Nat

CallTypes == ControlTypes /\ keyword \in BOOLEAN /\ nextSkip \in Skips /\ skip \in BOOLEAN

CommentTypes ==
  /\ outer \in {"spaces", "lines"} /\ joined \in BOOLEAN /\ depth \in 0..MaxNest
  /\ half \in {"/", "*", "no"}

StringTypes ==
  /\ hashes \in 0..MaxHashes /\ left \in 0..(MaxHashes + 2) /\ multi \in BOOLEAN
  /\ multi \/ hashes > 0 => nextSkip = "RecoverString" \/ at = "hashes"

\* What holds of every text: the locals have their types, and a call knows
\* what the calls before it left.
Core ==
  /\ TextTypes /\ CallTypes /\ CommentTypes /\ StringTypes
  /\ Places /\ Followed /\ Moving /\ Fresh /\ Stalled

\* What a step keeps of the texts that the bounds leave out, too, and of the others.
Keeps ==
  /\ Core'
  /\ Nested /\ ~Overlap => Nested'
  /\ Newline /\ ~SplitNewline => Newline'

LEMMA ViewFacts ==
  ASSUME ahead \in Text, Len(ahead) \in 0..3,
         Apart(ahead), NEW a \in View
  PROVE  Shown(a) /\ CrLast(a)
<1>1. PICK b \in More(ahead) : a \in UNION {More(c) : c \in More(b)}
  BY Zenon DEF View
<1>2. PICK c \in More(b) : a \in More(c)
  BY <1>1
<1>0. EofLast(ahead)
  BY DEF EofLast, Apart
<1>3. /\ b \in Text /\ Len(b) \in 1..3
      /\ Len(ahead) <= Len(b)
      /\ \A i \in 1..Len(ahead) : b[i] = ahead[i]
      /\ Enough(b) \/ Len(b) = Len(ahead) + 1
      /\ EofLast(b)
      /\ ahead = <<>> /\ last = "alone" /\ ~SplitNewline => b[1] # "lf"
      /\ IF Enough(ahead) THEN b = ahead ELSE Len(b) = Len(ahead) + 1
  BY <1>0, MoreFacts
<1>4. /\ c \in Text /\ Len(c) \in 1..3
      /\ Len(b) <= Len(c)
      /\ \A i \in 1..Len(b) : c[i] = b[i]
      /\ Enough(c) \/ Len(c) = Len(b) + 1
      /\ EofLast(c)
      /\ IF Enough(b) THEN c = b ELSE Len(c) = Len(b) + 1
  <2>1. b \in Text /\ Len(b) \in 0..3
    BY <1>3 DEF Text
  <2> QED
    BY <1>2, <1>3, <2>1, MoreFacts
<1>5. /\ a \in Text /\ Len(a) \in 1..3
      /\ Len(c) <= Len(a)
      /\ \A i \in 1..Len(c) : a[i] = c[i]
      /\ Enough(a) \/ Len(a) = Len(c) + 1
      /\ EofLast(a)
      /\ IF Enough(c) THEN a = c ELSE Len(a) = Len(c) + 1
  <2>1. c \in Text /\ Len(c) \in 0..3
    BY <1>4 DEF Text
  <2> QED
    BY <1>2, <1>4, <2>1, MoreFacts
<1>6. Len(a) = 3 => Enough(a)
  BY <1>5 DEF Enough, Need, Text
<1>7. Enough(a)
  BY <1>3, <1>4, <1>5, <1>6 DEF Text
<1>8. \A i \in 1..Len(ahead) : a[i] = ahead[i]
  BY <1>3, <1>4, <1>5
<1>10. a[1] # "eof" /\ NeedsSecond(a) => Len(a) > 1
  BY <1>5, <1>7 DEF Enough, Ends, Need, Text
<1>11. Shown(a)
  BY <1>3, <1>4, <1>5, <1>8, <1>10 DEF Shown, Text
<1>12. ASSUME NEW t \in Text, Len(t) \in 1..2, ~Enough(t), t[Len(t)] = "cr"
       PROVE  Len(t) = 1 /\ LinesTogether
  <2>1. t # <<>>
    BY <1>12, EmptySeq DEF Text
  <2>2. Len(t) < Need(t)
    BY <1>12, <2>1 DEF Enough, Need, Text
  <2>3. CASE Len(t) = 1
    <3>1. t[1] = "cr" /\ ~NeedsThird(t)
      BY <1>12, <2>3 DEF NeedsThird
    <3>2. NeedsSecond(t)
      BY <2>2, <2>3, <3>1 DEF Need
    <3> QED
      BY <2>3, <3>1, <3>2 DEF NeedsSecond, Signs, LinesTogether, InLines
  <2>4. CASE Len(t) = 2
    <3>1. t[2] = "cr"
      BY <1>12, <2>4
    <3>2. ~NeedsThird(t)
      BY <3>1 DEF NeedsThird
    <3> QED
      BY <2>2, <2>4, <3>2 DEF Need
  <2> QED
    BY <1>12, <2>3, <2>4
<1>13. ASSUME NEW k \in 1..(Len(a) - 1), a[k] = "cr"
       PROVE  k = 1 /\ LinesTogether
  <2>1. CASE k <= Len(ahead)
    <3>1. k = Len(ahead) /\ ahead[k] = "cr" /\ Len(ahead) \in 1..2
      BY <1>5, <1>8, <1>13, <2>1 DEF Text, Apart
    <3>2. ~Enough(ahead)
      BY <1>3, <1>4, <1>5, <1>13, <3>1 DEF Text
    <3> QED
      BY <1>12, <3>1, <3>2
  <2>2. CASE k > Len(ahead) /\ k <= Len(b)
    <3>1. k = Len(b) /\ b[k] = "cr" /\ Len(b) \in 1..2
      BY <1>3, <1>4, <1>5, <1>13, <2>2 DEF Text
    <3>2. ~Enough(b)
      BY <1>3, <1>4, <1>5, <1>13, <3>1 DEF Text
    <3> QED
      BY <1>3, <1>12, <3>1, <3>2
  <2>3. CASE k > Len(b) /\ k <= Len(c)
    <3>1. k = Len(c) /\ c[k] = "cr" /\ Len(c) \in 1..2
      BY <1>3, <1>4, <1>5, <1>13, <2>3 DEF Text
    <3>2. ~Enough(c)
      BY <1>3, <1>4, <1>5, <1>13, <3>1 DEF Text
    <3> QED
      BY <1>4, <1>12, <3>1, <3>2
  <2>4. k <= Len(c)
    BY <1>4, <1>5, <1>13 DEF Text
  <2> QED
    BY <1>3, <1>4, <2>1, <2>2, <2>3, <2>4 DEF Text
<1>14. CrLast(a)
  <2>1. Len(a) > 1 => 1 \in 1..(Len(a) - 1)
    BY <1>5 DEF Text
  <2>2. Len(a) > 2 => 2 \in 1..(Len(a) - 1)
    BY <1>5 DEF Text
  <2> QED
    BY <1>13, <2>1, <2>2 DEF CrLast
<1> QED
  BY <1>11, <1>14

\* What is left of it when some is passed.
LEMMA Passing ==
  ASSUME NEW a \in Text, Len(a) \in 1..3, NEW n \in 1..Len(a)
  PROVE  /\ SubSeq(a, n + 1, Len(a)) \in Text
         /\ Len(SubSeq(a, n + 1, Len(a))) = Len(a) - n
         /\ Len(a) > n => SubSeq(a, n + 1, Len(a))[1] = a[n + 1]
         /\ Len(a) > n + 1 => SubSeq(a, n + 1, Len(a))[2] = a[n + 2]
BY DEF Text

LEMMA StartsWith ==
  ASSUME NEW a \in Text
  PROVE  /\ \A x, y : Starts(a, <<x, y>>) <=> Len(a) > 1 /\ a[1] = x /\ a[2] = y
         /\ \A x, y, z : Starts(a, <<x, y, z>>)
              <=> Len(a) > 2 /\ a[1] = x /\ a[2] = y /\ a[3] = z
<1>1. ASSUME NEW x, NEW y
      PROVE  Starts(a, <<x, y>>) <=> Len(a) > 1 /\ a[1] = x /\ a[2] = y
  <2>1. Len(<<x, y>>) = 2 /\ <<x, y>>[1] = x /\ <<x, y>>[2] = y
    OBVIOUS
  <2> QED
    BY <2>1 DEF Starts, Text
<1>2. ASSUME NEW x, NEW y, NEW z
      PROVE  Starts(a, <<x, y, z>>) <=> Len(a) > 2 /\ a[1] = x /\ a[2] = y /\ a[3] = z
  <2>1. /\ Len(<<x, y, z>>) = 3
        /\ <<x, y, z>>[1] = x /\ <<x, y, z>>[2] = y /\ <<x, y, z>>[3] = z
    OBVIOUS
  <2> QED
    BY <2>1 DEF Starts, Text
<1> QED
  BY <1>1, <1>2

LEMMA Looking ==
  ASSUME TextTypes, NEW a \in View
  PROVE  Shown(a) /\ CrLast(a)
<1>1. ahead \in Text /\ Len(ahead) \in Nat /\ Len(ahead) <= 3 /\ Apart(ahead)
  BY LenProperties DEF TextTypes, Text
<1>2. Len(ahead) \in 0..3
  <2>1. \A n \in Nat : n <= 3 => n \in 0..3
    OBVIOUS
  <2> QED
    BY <1>1, <2>1
<1> QED
  BY <1>1, <1>2, ViewFacts

LEMMA Seeing ==
  ASSUME TextTypes, NEW a \in View
  PROVE  Seen(a) /\ Left(a) /\ Starting(a)
<1>1. Shown(a) /\ CrLast(a)
  BY Looking
<1>2. a \in Text /\ Len(a) \in 1..3 /\ a # <<>>
  BY <1>1 DEF Shown, Text
<1>3. \A i \in 1..Len(a) : a[i] \in Chars \union {"eof"}
  BY <1>2 DEF Text
<1>4. Len(a) > 1 => Second(a) = a[2] /\ a[2] \in Chars \union {"eof"} /\ a[1] # "eof"
  BY <1>1, <1>2, <1>3 DEF Second, Shown, EofLast
<1>5. Len(a) > 2 => a[3] \in Chars \union {"eof"} /\ a[2] # "eof"
  BY <1>1, <1>2, <1>3 DEF Shown, EofLast
<1>6. First(a) = a[1] /\ a[1] \in Chars \union {"eof"}
  BY <1>2, <1>3 DEF First
<1>7. "none" \notin Chars
  BY DEF Chars, NotIdent, Newlines, Invalid, Signs, Operators
<1>8. Second(a) \in Chars \union {"none", "eof"} /\ (Second(a) = "none" <=> Len(a) = 1)
  BY <1>2, <1>4, <1>7 DEF Second
<1>9. Len(ahead) \in Nat /\ ahead \in Text
  BY LenProperties DEF TextTypes, Text
<1>10. First(ahead) \in {"none", a[1]}
  BY <1>1, <1>9, EmptySeq DEF First, Shown, Text
<1>11. Second(ahead) \in {"none", Second(a)}
  BY <1>1, <1>2, <1>4, <1>9 DEF Second, Shown
<1>12. First(ahead) = "none" => ahead = <<>>
  <2>1. ASSUME ahead # <<>>
        PROVE  First(ahead) # "none"
    <3>1. ahead[1] \in Chars \union {"eof"}
      BY <1>9, <2>1, EmptySeq DEF Text
    <3> QED
      BY <1>7, <2>1, <3>1 DEF First
  <2> QED
    BY <2>1
<1>13. Seen(a)
  BY <1>1, <1>2, <1>4, <1>5, <1>6, <1>8, <1>10, <1>11, <1>12 DEF Seen, Shown, CrLast
<1>14. ASSUME NEW n \in 1..3, n <= Len(a), ahead' = SubSeq(a, n + 1, Len(a))
       PROVE  First(ahead') = IF Len(a) > n THEN a[n + 1] ELSE "none"
  <2>1. Len(ahead') = Len(a) - n /\ (Len(a) > n => ahead'[1] = a[n + 1]) /\ ahead' \in Text
    BY <1>2, <1>14, Passing
  <2>2. ahead' = <<>> <=> Len(a) = n
    BY <1>2, <2>1, EmptySeq DEF Text
  <2> QED
    BY <1>2, <1>14, <2>1, <2>2 DEF First
<1>15. ASSUME ahead' = SubSeq(a, 2, Len(a))
       PROVE  First(ahead') = Second(a)
  BY <1>2, <1>4, <1>8, <1>14, <1>15 DEF Second
<1>16. ASSUME ahead' = SubSeq(a, 3, Len(a)), Len(a) > 1
       PROVE  First(ahead') = IF Len(a) > 2 THEN a[3] ELSE "none"
  BY <1>2, <1>14, <1>16
<1>17. ASSUME ahead' = SubSeq(a, 4, Len(a)), Len(a) > 2
       PROVE  First(ahead') = "none"
  BY <1>2, <1>14, <1>17
<1>18. Stay(a) => First(ahead') = a[1] /\ Second(ahead') = Second(a)
  BY <1>6 DEF Stay
<1>19. Left(a)
  BY <1>15, <1>16, <1>17, <1>18 DEF Left, Stay, Pass, PassAlone
<1>20. Starting(a)
  BY <1>2, StartsWith DEF Starting
<1> QED
  BY <1>13, <1>19, <1>20

\* A step that looks at the text leaves a text.
LEMMA TouchTypes ==
  ASSUME TextTypes, NEW a \in View, Touches(a)
  PROVE  TextTypes' /\ Onward
<1>1. Shown(a) /\ CrLast(a)
  BY Looking
<1>2. a \in Text /\ Len(a) \in 1..3
  BY <1>1 DEF Shown
<1>3. CASE Stay(a) /\ (a[1] = "cr" => ~LinesTogether)
  <2>1. ASSUME NEW i \in 1..Len(a), a[i] \in {"cr", "eof"}
        PROVE  i = Len(a)
    <3>1. a[i] = "eof" => i = Len(a)
      BY <1>1 DEF Shown, EofLast
    <3>2. i = 1 \/ i = 2 \/ i = Len(a)
      <4>1. \A n \in 1..3 : \A j \in 1..n : j = 1 \/ j = 2 \/ j = n
        OBVIOUS
      <4> QED
        BY <1>2, <4>1
    <3>3. Len(a) > 1 /\ a[1] = "cr" => FALSE
      BY <1>1, <1>3 DEF CrLast
    <3>4. Len(a) > 2 => a[2] # "cr"
      BY <1>1 DEF CrLast
    <3> QED
      BY <1>2, <2>1, <3>1, <3>2, <3>3, <3>4
  <2>2. ahead' = a /\ begun' = begun /\ moved' = moved /\ last' = last
    BY <1>3 DEF Stay
  <2>3. Apart(ahead')
    BY <2>1, <2>2 DEF Apart
  <2>4. ahead' \in Text /\ Len(ahead') <= 3
    <3>1. \A n \in 1..3 : n <= 3
      OBVIOUS
    <3>2. Len(a) <= 3
      BY <1>2, <3>1
    <3> QED
      BY <1>2, <2>2, <3>2
  <2>5. FlagTypes
    BY DEF TextTypes
  <2>6. FlagTypes' /\ Onward
    BY <2>2, <2>5 DEF FlagTypes, Onward
  <2> QED
    BY <2>3, <2>4, <2>6 DEF TextTypes
<1>4. ASSUME NEW n \in 1..3, n <= Len(a), ahead' = SubSeq(a, n + 1, Len(a))
      PROVE  ahead' \in Text /\ Len(ahead') <= 3 /\ Apart(ahead')
  <2>1. ahead' \in Text /\ Len(ahead') = Len(a) - n
    BY <1>2, <1>4, Passing
  <2>2. Len(a) > n => ahead'[1] = a[n + 1]
    BY <1>2, <1>4, Passing
  <2>3. Len(a) > n + 1 => ahead'[2] = a[n + 2]
    BY <1>2, <1>4, Passing
  <2>4. ASSUME NEW i \in 1..Len(ahead'), ahead'[i] \in {"cr", "eof"}
        PROVE  i = Len(ahead')
    <3>1. ahead'[i] = a[n + i] /\ n + i \in 1..Len(a) /\ n + i > 1 /\ i \in 1..2
      BY <1>2, <1>4, <2>1, <2>2, <2>3, <2>4
    <3>2. a[n + i] = "eof" => n + i = Len(a)
      BY <1>1, <3>1 DEF Shown, EofLast
    <3>3. a[n + i] = "cr" => n + i = Len(a)
      <4>1. n + i = 2 \/ n + i = 3 \/ n + i = Len(a)
        BY <1>2, <1>4, <3>1
      <4>2. Len(a) > 2 => a[2] # "cr"
        BY <1>1 DEF CrLast
      <4> QED
        BY <1>2, <1>4, <3>1, <4>1, <4>2
    <3> QED
      BY <1>2, <1>4, <2>1, <2>4, <3>1, <3>2, <3>3
  <2> QED
    BY <1>2, <1>4, <2>1, <2>4 DEF Apart
<1>5. ASSUME NEW c
      PROVE  Kind(c) \in {"cr", "lf", "other"}
  BY DEF Kind, Newlines
<1>6. CASE Pass(a, 1) \/ PassAlone(a)
  <2>1. ahead' = SubSeq(a, 1 + 1, Len(a)) /\ begun' = TRUE /\ moved' = TRUE
    BY <1>6 DEF Pass, PassAlone
  <2>2. last' \in {"cr", "lf", "alone", "other"}
    BY <1>5, <1>6 DEF Pass, PassAlone
  <2> QED
    BY <1>2, <1>4, <2>1, <2>2 DEF TextTypes, FlagTypes, Onward
<1>7. CASE Pass(a, 2) /\ Len(a) > 1
  <2>1. /\ ahead' = SubSeq(a, 2 + 1, Len(a)) /\ begun' = TRUE /\ moved' = TRUE
        /\ last' \in {"cr", "lf", "alone", "other"}
    BY <1>5, <1>7 DEF Pass
  <2> QED
    BY <1>2, <1>4, <1>7, <2>1 DEF TextTypes, FlagTypes, Onward
<1>8. CASE Pass(a, 3) /\ Len(a) > 2
  <2>1. /\ ahead' = SubSeq(a, 3 + 1, Len(a)) /\ begun' = TRUE /\ moved' = TRUE
        /\ last' \in {"cr", "lf", "alone", "other"}
    BY <1>5, <1>8 DEF Pass
  <2> QED
    BY <1>2, <1>4, <1>8, <2>1 DEF TextTypes, FlagTypes, Onward
<1> QED
  BY <1>3, <1>6, <1>7, <1>8 DEF Touches

-----------------------------------------------------------------------------
(* Each action keeps the invariant.                                        *)

\* A step of a call that has passed some text.
LEMMA Advanced ==
  ASSUME Stalled, begun' = TRUE, moved' = TRUE,
         (at' # "idle" /\ stalls' = stalls) \/ (\E result : Return(result))
  PROVE  Fresh' /\ Stalled'
<1>1. Fresh'
  BY DEF Fresh
<1>2. Stalled'
  BY DEF Stalled, Return
<1> QED
  BY <1>1, <1>2

\* A call goes on or returns.
Controls ==
  \/ \E point \in Points : Goto(point)
  \/ \E result \in Tokens \union {"Err"} : Return(result)

LEMMA Controlled ==
  ASSUME ControlTypes, FlagTypes', Controls
  PROVE  ControlTypes'
BY DEF Controls, ControlTypes, FlagTypes, Goto, Return, Points

LEMMA NoStringTypes ==
  ASSUME NoString
  PROVE  StringTypes'
<1>1. hashes' \in 0..MaxHashes /\ left' \in 0..(MaxHashes + 2)
  BY LexerAssumption DEF NoString
<1>2. multi' \in BOOLEAN /\ ~multi'
  BY DEF NoString
<1>3. ~(hashes' > 0)
  BY DEF NoString
<1> QED
  BY <1>1, <1>2, <1>3 DEF StringTypes

LEMMA SpacesKeeps ==
  ASSUME Core, Spaces
  PROVE  Keeps
<1> USE LexerAssumption
        DEF KeepCall, KeepBlank, ToToken, OpenBlock, Goto, Return, blankVars,
            stringVars, scanVars
<1>1. /\ TextTypes /\ CallTypes /\ CommentTypes /\ StringTypes
      /\ Places /\ Followed /\ Moving /\ Fresh /\ Stalled
  BY DEF Core
<1>2. Spaces!1
  BY DEF Spaces
<1>3. PICK a \in View : Spaces!2!(a)
  BY DEF Spaces
<1>4. Seen(a) /\ Left(a) /\ Starting(a)
  BY <1>1, Seeing
<1>5. Touches(a)
  BY <1>2, <1>3, <1>4 DEF Touches, Seen, Starting, LinesTogether, InLines, Newlines
<1>6. TextTypes' /\ Onward
  BY <1>1, <1>5, TouchTypes
<1>7. FlagTypes /\ FlagTypes'
  BY <1>1, <1>6 DEF TextTypes
<1>8. Controls
  BY <1>1, <1>2, <1>3 DEF CommentTypes, Controls, Points, Tokens, TextTokens
<1>9. CallTypes'
  BY <1>1, <1>2, <1>3, <1>7, <1>8, Controlled DEF CallTypes, Skips
<1>10. StringTypes'
  BY <1>1, <1>2, <1>3 DEF StringTypes, Places, StringPoints, BlankPoints
<1>11. Places'
  BY <1>1, <1>2, <1>3 DEF CommentTypes, Places, BlankPoints, StringPoints
<1>12. CommentTypes'
  <2>1. CASE Spaces!2!(a)!1
    BY <1>1, <1>2, <2>1 DEF CommentTypes
  <2>2. CASE Spaces!2!(a)!2
    BY <1>1, <1>2, <2>2 DEF CommentTypes
  <2>3. CASE Spaces!2!(a)!3
    BY <1>1, <1>2, <2>3 DEF CommentTypes
  <2>4. CASE Spaces!2!(a)!4
    BY <1>1, <1>2, <2>4 DEF CommentTypes
  <2> QED
    BY <1>3, <2>1, <2>2, <2>3, <2>4
<1>13. ASSUME Nested, ~Overlap
       PROVE  Nested'
  BY <1>1, <1>2, <1>3, <1>4, <1>13
     DEF Nested, HalfOpen, HalfClosed, CommentTypes, CallTypes, Places, BlankPoints,
         StringPoints, Seen, Left, Starting, NeedsSecond
<1>14. ASSUME Newline, ~SplitNewline
       PROVE  Newline'
  BY <1>1, <1>2, <1>3, <1>4, <1>7, <1>14
     DEF FlagTypes, Newline, CommentTypes, Kind, Newlines, LinesTogether, InLines,
         CallTypes, Places, BlankPoints, StringPoints, Seen, Left, Starting, NeedsSecond
<1>15. Followed'
  <2>1. CASE Spaces!2!(a)!1
    BY <1>1, <1>2, <1>4, <2>1
       DEF Followed, CallTypes, ControlTypes, RecoverPoints, BlankPoints, Left
  <2>2. CASE Spaces!2!(a)!2
    BY <1>1, <1>2, <1>4, <2>2
       DEF Followed, CallTypes, ControlTypes, RecoverPoints, BlankPoints, Left
  <2>3. CASE Spaces!2!(a)!3
    BY <1>1, <1>2, <1>4, <2>3
       DEF Followed, CallTypes, ControlTypes, RecoverPoints, BlankPoints, Left
  <2>4. CASE Spaces!2!(a)!4
    <3>1. a[1] = "/" => Second(a) \notin {"none", "*"}
      BY <1>2, <1>4, <2>4 DEF Seen, NeedsSecond, Starting
    <3>2. First(ahead') = a[1] /\ Second(ahead') = Second(a) /\ a[1] # "none"
      BY <1>4, <2>4 DEF Seen, Left, Chars, NotIdent, Newlines, Invalid, Signs, Operators
    <3>3. at' = "token" /\ nextSkip' = "None" /\ out' = out
      BY <2>4
    <3> QED
      BY <1>1, <1>2, <2>4, <3>1, <3>2, <3>3 DEF Followed, RecoverPoints, Newlines
  <2> QED
    BY <1>3, <2>1, <2>2, <2>3, <2>4
<1>16. Moving'
  BY <1>1, <1>2, <1>3, <1>4, <1>7
     DEF FlagTypes, Moving, CommentTypes, Newlines, NotIdent, Invalid, CallTypes,
         Places, BlankPoints, StringPoints, Seen, Left, Starting, NeedsSecond
<1>17. Fresh'
  BY <1>1, <1>2, <1>3, <1>4, <1>7
     DEF FlagTypes, Moving, Followed, Fresh, BlankLeft, Newlines, CallTypes, Places,
         BlankPoints, StringPoints, Seen, Left, Starting, NeedsSecond
<1>18. Stalled'
  BY <1>1, <1>2, <1>3, <1>4, <1>7
     DEF FlagTypes, Moving, Stalled, BlankLeft, Newlines, CallTypes, Places,
         BlankPoints, StringPoints, Seen, Left, Starting, NeedsSecond
<1> QED
  BY <1>6, <1>9, <1>10, <1>11, <1>12, <1>13, <1>14, <1>15, <1>16, <1>17, <1>18
     DEF Core, Keeps

LEMMA LinesKeeps ==
  ASSUME Core, Lines
  PROVE  Keeps
<1> USE LexerAssumption
        DEF KeepCall, KeepBlank, ToToken, OpenBlock, OpenLine, Newlines, Goto, Return,
            blankVars, stringVars, scanVars
<1>1. /\ TextTypes /\ CallTypes /\ CommentTypes /\ StringTypes
      /\ Places /\ Followed /\ Moving /\ Fresh /\ Stalled
  BY DEF Core
<1>2. Lines!1
  BY DEF Lines
<1>3. PICK a \in View : Lines!2!(a)
  BY DEF Lines
<1>4. Seen(a) /\ Left(a) /\ Starting(a)
  BY <1>1, Seeing
<1>5. Touches(a)
  BY <1>2, <1>3, <1>4 DEF Touches, Seen, Starting, LinesTogether, InLines
<1>6. TextTypes' /\ Onward
  BY <1>1, <1>5, TouchTypes
<1>7. FlagTypes /\ FlagTypes'
  BY <1>1, <1>6 DEF TextTypes
<1>8. Controls
  BY <1>1, <1>2, <1>3 DEF CommentTypes, Controls, Points, Tokens, TextTokens
<1>9. CallTypes'
  BY <1>1, <1>2, <1>3, <1>7, <1>8, Controlled DEF CallTypes, Skips
<1>10. StringTypes'
  BY <1>1, <1>2, <1>3 DEF StringTypes, Places, StringPoints, BlankPoints
<1>11. Places'
  BY <1>1, <1>2, <1>3 DEF CommentTypes, Places, BlankPoints, StringPoints
<1>12. CommentTypes'
  <2>1. CASE Lines!2!(a)!1
    BY <1>1, <1>2, <2>1 DEF CommentTypes
  <2>2. CASE Lines!2!(a)!2
    BY <1>1, <1>2, <2>2 DEF CommentTypes
  <2>3. CASE Lines!2!(a)!3
    BY <1>1, <1>2, <2>3 DEF CommentTypes
  <2>4. CASE Lines!2!(a)!4
    BY <1>1, <1>2, <2>4 DEF CommentTypes
  <2>5. CASE Lines!2!(a)!5
    BY <1>1, <1>2, <2>5 DEF CommentTypes
  <2> QED
    BY <1>3, <2>1, <2>2, <2>3, <2>4, <2>5
<1>13. ASSUME Nested, ~Overlap
       PROVE  Nested'
  BY <1>1, <1>2, <1>3, <1>4, <1>13
     DEF Nested, HalfOpen, HalfClosed, CommentTypes, CallTypes, Places, BlankPoints,
         StringPoints, Seen, Left, Starting, NeedsSecond
<1>14. ASSUME Newline, ~SplitNewline
       PROVE  Newline'
  <2>1. CASE Lines!2!(a)!1
    <3>1. last' # "alone" /\ at' = "lines"
      BY <1>4, <2>1 DEF Left, Kind
    <3> QED
      BY <3>1 DEF Newline
  <2>2. CASE Lines!2!(a)!4
    <3>1. last' # "cr" /\ last' # "alone"
      BY <1>4, <2>2 DEF Left, Kind, Starting
    <3> QED
      BY <2>2, <3>1 DEF Newline
  <2>3. CASE Lines!2!(a)!5
    <3>1. First(ahead') = a[1] /\ a[1] \notin {"none", "cr", "lf"}
      BY <1>4, <2>3 DEF Seen, Left, Chars, NotIdent, Invalid, Signs, Operators
    <3> QED
      BY <2>3, <3>1 DEF Newline
  <2>4. CASE Lines!2!(a)!2
    <3>1. last' # "cr" /\ last' # "alone"
      BY <1>4, <2>4 DEF Left, Kind
    <3> QED
      BY <2>4, <3>1 DEF Newline
  <2>5. CASE Lines!2!(a)!3
    <3>1. last' # "cr" /\ last' # "alone"
      BY <1>4, <2>5 DEF Left, Kind, Starting
    <3> QED
      BY <2>5, <3>1 DEF Newline
  <2> QED
    BY <1>3, <2>1, <2>2, <2>3, <2>4, <2>5
<1>15. Followed'
  <2>1. CASE Lines!2!(a)!1
    BY <1>1, <1>2, <1>4, <2>1
       DEF Followed, CallTypes, ControlTypes, RecoverPoints, BlankPoints, Left
  <2>2. CASE Lines!2!(a)!2
    BY <1>1, <1>2, <1>4, <2>2
       DEF Followed, CallTypes, ControlTypes, RecoverPoints, BlankPoints, Left
  <2>3. CASE Lines!2!(a)!3
    BY <1>1, <1>2, <1>4, <2>3
       DEF Followed, CallTypes, ControlTypes, RecoverPoints, BlankPoints, Left
  <2>4. CASE Lines!2!(a)!4
    BY <1>1, <1>2, <1>4, <2>4
       DEF Followed, CallTypes, ControlTypes, RecoverPoints, BlankPoints, Left
  <2>5. CASE Lines!2!(a)!5
    <3>1. a[1] = "/" => Second(a) \notin {"none", "*", "/"}
      BY <1>2, <1>4, <2>5 DEF Seen, NeedsSecond, Starting
    <3>2. First(ahead') = a[1] /\ Second(ahead') = Second(a) /\ a[1] # "none"
      BY <1>4, <2>5 DEF Seen, Left, Chars, NotIdent, Newlines, Invalid, Signs, Operators
    <3>3. at' = "token" /\ nextSkip' = "None" /\ out' = out
      BY <2>5
    <3> QED
      BY <1>1, <1>2, <2>5, <3>1, <3>2, <3>3 DEF Followed, RecoverPoints, Newlines
  <2> QED
    BY <1>3, <2>1, <2>2, <2>3, <2>4, <2>5
<1>16. Moving'
  BY <1>1, <1>2, <1>3, <1>4, <1>7
     DEF FlagTypes, Moving, CommentTypes, NotIdent, Invalid, CallTypes, Places,
         BlankPoints, StringPoints, Seen, Left, Starting, NeedsSecond
<1>17. Fresh'
  BY <1>1, <1>2, <1>3, <1>4, <1>7
     DEF FlagTypes, Moving, Followed, Fresh, BlankLeft, CallTypes, Places, BlankPoints,
         StringPoints, Seen, Left, Starting, NeedsSecond
<1>18. Stalled'
  BY <1>1, <1>2, <1>3, <1>4, <1>7
     DEF FlagTypes, Moving, Stalled, BlankLeft, CallTypes, Places, BlankPoints,
         StringPoints, Seen, Left, Starting, NeedsSecond
<1> QED
  BY <1>6, <1>9, <1>10, <1>11, <1>12, <1>13, <1>14, <1>15, <1>16, <1>17, <1>18
     DEF Core, Keeps

LEMMA EsclineKeeps ==
  ASSUME Core, Escline
  PROVE  Keeps
<1> USE LexerAssumption
        DEF KeepBlank, BadEscline, ContinuationNewline, OpenBlock, OpenLine, Drop,
            Newlines, Goto, Return, blankVars, stringVars, scanVars
<1>1. /\ TextTypes /\ CallTypes /\ CommentTypes /\ StringTypes
      /\ Places /\ Followed /\ Moving /\ Fresh /\ Stalled
  BY DEF Core
<1>2. Escline!1 /\ Escline!2
  BY DEF Escline
<1>3. PICK a \in View : Escline!3!(a)
  BY DEF Escline
<1>4. Seen(a) /\ Left(a) /\ Starting(a)
  BY <1>1, Seeing
<1>5. Touches(a)
  BY <1>2, <1>3, <1>4 DEF Touches, Seen, Starting, LinesTogether, InLines
<1>6. TextTypes' /\ Onward
  BY <1>1, <1>5, TouchTypes
<1>7. FlagTypes /\ FlagTypes'
  BY <1>1, <1>6 DEF TextTypes
<1>8. Controls
  BY <1>1, <1>2, <1>3 DEF CommentTypes, Controls, Points, Tokens, TextTokens
<1>9. CallTypes'
  BY <1>1, <1>2, <1>3, <1>7, <1>8, Controlled DEF CallTypes, Skips
<1>10. StringTypes'
  BY <1>1, <1>2, <1>3 DEF StringTypes, Places, StringPoints, BlankPoints
<1>11. Places'
  BY <1>1, <1>2, <1>3 DEF CommentTypes, Places, BlankPoints, StringPoints
<1>12. CommentTypes'
  <2>1. CASE BadEscline(a)
    BY <1>1, <1>2, <2>1 DEF CommentTypes
  <2>2. CASE Escline!3!(a)!2!2!1
    BY <1>1, <1>2, <2>2 DEF CommentTypes
  <2>3. CASE Escline!3!(a)!2!2!2
    BY <1>1, <1>2, <2>3 DEF CommentTypes
  <2>4. CASE Escline!3!(a)!2!2!3
    BY <1>1, <1>2, <2>4 DEF CommentTypes
  <2>5. CASE Escline!3!(a)!2!2!4
    BY <1>1, <1>2, <2>5 DEF CommentTypes
  <2>6. CASE Escline!3!(a)!2!2!5
    BY <1>1, <1>2, <2>6 DEF CommentTypes
  <2> QED
    BY <1>3, <2>1, <2>2, <2>3, <2>4, <2>5, <2>6
<1>13. ASSUME Nested, ~Overlap
       PROVE  Nested'
  BY <1>1, <1>2, <1>3, <1>4, <1>13
     DEF Nested, HalfOpen, HalfClosed, CommentTypes, CallTypes, Places, BlankPoints,
         StringPoints, Seen, Left, Starting, NeedsSecond
<1>14. ASSUME Newline, ~SplitNewline
       PROVE  Newline'
  <2>1. CASE BadEscline(a)
    BY <1>1, <1>2, <1>4, <1>7, <1>14, <2>1
       DEF FlagTypes, Newline, CommentTypes, Kind, LinesTogether, InLines, CallTypes,
           Places, BlankPoints, StringPoints, Seen, Left, Starting, NeedsSecond
  <2>2. CASE Escline!3!(a)!2!2!1
    BY <1>1, <1>2, <1>4, <1>7, <1>14, <2>2
       DEF FlagTypes, Newline, CommentTypes, Kind, LinesTogether, InLines, CallTypes,
           Places, BlankPoints, StringPoints, Seen, Left, Starting, NeedsSecond
  <2>3. CASE Escline!3!(a)!2!2!2
    BY <1>1, <1>2, <1>4, <1>7, <1>14, <2>3
       DEF FlagTypes, Newline, CommentTypes, Kind, LinesTogether, InLines, CallTypes,
           Places, BlankPoints, StringPoints, Seen, Left, Starting, NeedsSecond
  <2>4. CASE Escline!3!(a)!2!2!3
    BY <1>1, <1>2, <1>4, <1>7, <1>14, <2>4
       DEF FlagTypes, Newline, CommentTypes, Kind, LinesTogether, InLines, CallTypes,
           Places, BlankPoints, StringPoints, Seen, Left, Starting, NeedsSecond
  <2>5. CASE Escline!3!(a)!2!2!4
    BY <1>1, <1>2, <1>4, <1>7, <1>14, <2>5
       DEF FlagTypes, Newline, CommentTypes, Kind, LinesTogether, InLines, CallTypes,
           Places, BlankPoints, StringPoints, Seen, Left, Starting, NeedsSecond
  <2>6. CASE Escline!3!(a)!2!2!5
    BY <1>1, <1>2, <1>4, <1>7, <1>14, <2>6
       DEF FlagTypes, Newline, CommentTypes, Kind, LinesTogether, InLines, CallTypes,
           Places, BlankPoints, StringPoints, Seen, Left, Starting, NeedsSecond
  <2> QED
    BY <1>3, <2>1, <2>2, <2>3, <2>4, <2>5, <2>6
<1>15. Followed'
  BY <1>1, <1>2, <1>3, <1>4
     DEF Followed, CommentTypes, RecoverPoints, BlankLeft, CallTypes, Places,
         BlankPoints, StringPoints, Seen, Left, Starting, NeedsSecond
<1>16. Moving'
  BY <1>1, <1>2, <1>3, <1>4, <1>7
     DEF FlagTypes, Moving, CommentTypes, NotIdent, Invalid, CallTypes, Places,
         BlankPoints, StringPoints, Seen, Left, Starting, NeedsSecond
<1>17. moved' = TRUE /\ begun' = TRUE
  BY <1>1, <1>2, <1>6, <1>7 DEF Onward, Moving, Fresh, StringPoints, FlagTypes
<1>18. (at' # "idle" /\ stalls' = stalls) \/ (\E result : Return(result))
  BY <1>1, <1>2, <1>3 DEF CommentTypes
<1>19. Fresh' /\ Stalled'
  BY <1>1, <1>17, <1>18, Advanced
<1> QED
  BY <1>6, <1>9, <1>10, <1>11, <1>12, <1>13, <1>14, <1>15, <1>16, <1>19 DEF Core, Keeps

LEMMA BlockCommentKeeps ==
  ASSUME Core, BlockComment
  PROVE  Keeps
<1> USE LexerAssumption
        DEF BlockRefused, BlockOpen, BlockClose, PassScanned, Scan, Scanned, Drop,
            Invalid, Goto, Return, blankVars, stringVars, scanVars
<1>1. /\ TextTypes /\ CallTypes /\ CommentTypes /\ StringTypes
      /\ Places /\ Followed /\ Moving /\ Fresh /\ Stalled
  BY DEF Core
<1>2. BlockComment!1
  BY DEF BlockComment
<1>3. PICK a \in View : BlockComment!2!(a)
  BY DEF BlockComment
<1>4. Seen(a) /\ Left(a) /\ Starting(a)
  BY <1>1, Seeing
<1>5. Touches(a)
  BY <1>2, <1>3, <1>4 DEF Touches, Seen, Starting, LinesTogether, InLines, Newlines
<1>6. TextTypes' /\ Onward
  BY <1>1, <1>5, TouchTypes
<1>7. FlagTypes /\ FlagTypes'
  BY <1>1, <1>6 DEF TextTypes
<1>8. Controls
  BY <1>1, <1>2, <1>3 DEF CommentTypes, Controls, Points, Tokens, TextTokens
<1>9. CallTypes'
  BY <1>1, <1>2, <1>3, <1>7, <1>8, Controlled DEF CallTypes, Skips
<1>10. StringTypes'
  BY <1>1, <1>2, <1>3 DEF StringTypes, Places, StringPoints, BlankPoints
<1>11. Places'
  BY <1>1, <1>2, <1>3 DEF CommentTypes, Places, BlankPoints, StringPoints
<1>12. CommentTypes'
  <2>1. half' \in {"/", "*", "no"}
    BY <1>1, <1>3 DEF CommentTypes
  <2>2. outer' \in {"spaces", "lines"} /\ joined' \in BOOLEAN
    BY <1>1, <1>3 DEF CommentTypes
  <2>3. depth' \in 0..MaxNest
    <3>1. depth' = depth \/ (depth' = depth + 1 /\ depth < MaxNest)
            \/ (depth' = depth - 1 /\ depth # 0) \/ depth' = 0
      BY <1>3
    <3> QED
      BY <1>1, <3>1 DEF CommentTypes
  <2> QED
    BY <2>1, <2>2, <2>3 DEF CommentTypes
<1>13. ASSUME Nested, ~Overlap
       PROVE  Nested'
  BY <1>1, <1>2, <1>3, <1>4, <1>13
     DEF Nested, HalfOpen, HalfClosed, CommentTypes, CallTypes, Places, BlankPoints,
         StringPoints, Seen, Left, Starting, NeedsSecond
<1>14. ASSUME Newline, ~SplitNewline
       PROVE  Newline'
  BY <1>1, <1>2, <1>3, <1>4, <1>7, <1>14
     DEF FlagTypes, Newline, CommentTypes, Kind, Newlines, LinesTogether, InLines,
         CallTypes, Places, BlankPoints, StringPoints, Seen, Left, Starting, NeedsSecond
<1>15. Followed'
  BY <1>1, <1>2, <1>3, <1>4
     DEF Followed, CommentTypes, RecoverPoints, BlankLeft, Newlines, CallTypes, Places,
         BlankPoints, StringPoints, Seen, Left, Starting, NeedsSecond
<1>16. Moving'
  BY <1>1, <1>2, <1>3, <1>4, <1>7
     DEF FlagTypes, Moving, CommentTypes, Newlines, NotIdent, CallTypes, Places,
         BlankPoints, StringPoints, Seen, Left, Starting, NeedsSecond
<1>17. moved' = TRUE /\ begun' = TRUE
  BY <1>1, <1>2, <1>6, <1>7 DEF Onward, Moving, Fresh, StringPoints, FlagTypes
<1>18. (at' # "idle" /\ stalls' = stalls) \/ (\E result : Return(result))
  BY <1>1, <1>2, <1>3 DEF CommentTypes
<1>19. Fresh' /\ Stalled'
  BY <1>1, <1>17, <1>18, Advanced
<1> QED
  BY <1>6, <1>9, <1>10, <1>11, <1>12, <1>13, <1>14, <1>15, <1>16, <1>19 DEF Core, Keeps

LEMMA LineCommentKeeps ==
  ASSUME Core, LineComment
  PROVE  Keeps
<1> USE LexerAssumption
        DEF LineRefused, LineEnd, Drop, Newlines, Invalid, Goto, Return, blankVars,
            stringVars, scanVars
<1>1. /\ TextTypes /\ CallTypes /\ CommentTypes /\ StringTypes
      /\ Places /\ Followed /\ Moving /\ Fresh /\ Stalled
  BY DEF Core
<1>2. LineComment!1
  BY DEF LineComment
<1>3. PICK a \in View : LineComment!2!(a)
  BY DEF LineComment
<1>4. Seen(a) /\ Left(a) /\ Starting(a)
  BY <1>1, Seeing
<1>5. Touches(a)
  BY <1>2, <1>3, <1>4 DEF Touches, Seen, Starting, LinesTogether, InLines
<1>6. TextTypes' /\ Onward
  BY <1>1, <1>5, TouchTypes
<1>7. FlagTypes /\ FlagTypes'
  BY <1>1, <1>6 DEF TextTypes
<1>8. Controls
  BY <1>1, <1>2, <1>3 DEF CommentTypes, Controls, Points, Tokens, TextTokens
<1>9. CallTypes'
  BY <1>1, <1>2, <1>3, <1>7, <1>8, Controlled DEF CallTypes, Skips
<1>10. StringTypes'
  BY <1>1, <1>2, <1>3 DEF StringTypes, Places, StringPoints, BlankPoints
<1>11. Places'
  BY <1>1, <1>2, <1>3 DEF CommentTypes, Places, BlankPoints, StringPoints
<1>12. CommentTypes'
  BY <1>1, <1>2, <1>3 DEF CommentTypes
<1>13. ASSUME Nested, ~Overlap
       PROVE  Nested'
  BY <1>1, <1>2, <1>3, <1>4, <1>13
     DEF Nested, HalfOpen, HalfClosed, CommentTypes, CallTypes, Places, BlankPoints,
         StringPoints, Seen, Left, Starting, NeedsSecond
<1>14. ASSUME Newline, ~SplitNewline
       PROVE  Newline'
  <2>1. CASE LineComment!2!(a)!1
    BY <1>1, <1>2, <1>4, <1>7, <1>14, <2>1
       DEF FlagTypes, Newline, CommentTypes, Kind, LinesTogether, InLines, CallTypes,
           Places, BlankPoints, StringPoints, Seen, Left, Starting, NeedsSecond
  <2>2. CASE LineComment!2!(a)!2
    BY <1>1, <1>2, <1>4, <1>7, <1>14, <2>2
       DEF FlagTypes, Newline, CommentTypes, Kind, LinesTogether, InLines, CallTypes,
           Places, BlankPoints, StringPoints, Seen, Left, Starting, NeedsSecond
  <2>3. CASE LineComment!2!(a)!3
    BY <1>1, <1>2, <1>4, <1>7, <1>14, <2>3
       DEF FlagTypes, Newline, CommentTypes, Kind, LinesTogether, InLines, CallTypes,
           Places, BlankPoints, StringPoints, Seen, Left, Starting, NeedsSecond
  <2> QED
    BY <1>3, <2>1, <2>2, <2>3
<1>15. Followed'
  BY <1>1, <1>2, <1>3, <1>4
     DEF Followed, CommentTypes, RecoverPoints, BlankLeft, CallTypes, Places,
         BlankPoints, StringPoints, Seen, Left, Starting, NeedsSecond
<1>16. Moving'
  BY <1>1, <1>2, <1>3, <1>4, <1>7
     DEF FlagTypes, Moving, CommentTypes, NotIdent, CallTypes, Places, BlankPoints,
         StringPoints, Seen, Left, Starting, NeedsSecond
<1>17. moved' = TRUE /\ begun' = TRUE
  BY <1>1, <1>2, <1>6, <1>7 DEF Onward, Moving, Fresh, StringPoints, FlagTypes
<1>18. (at' # "idle" /\ stalls' = stalls) \/ (\E result : Return(result))
  BY <1>1, <1>2, <1>3 DEF CommentTypes
<1>19. Fresh' /\ Stalled'
  BY <1>1, <1>17, <1>18, Advanced
<1> QED
  BY <1>6, <1>9, <1>10, <1>11, <1>12, <1>13, <1>14, <1>15, <1>16, <1>19 DEF Core, Keeps

LEMMA RecoverLineCommentKeeps ==
  ASSUME Core, RecoverLineComment
  PROVE  Keeps
<1> USE LexerAssumption
        DEF KeepLocals, ToToken, Newlines, Goto, Return, blankVars, stringVars, scanVars
<1>1. /\ TextTypes /\ CallTypes /\ CommentTypes /\ StringTypes
      /\ Places /\ Followed /\ Moving /\ Fresh /\ Stalled
  BY DEF Core
<1>2. RecoverLineComment!1
  BY DEF RecoverLineComment
<1>3. PICK a \in View : RecoverLineComment!2!(a)
  BY DEF RecoverLineComment
<1>4. Seen(a) /\ Left(a) /\ Starting(a)
  BY <1>1, Seeing
<1>5. Touches(a)
  BY <1>2, <1>3, <1>4 DEF Touches, Seen, Starting, LinesTogether, InLines
<1>6. TextTypes' /\ Onward
  BY <1>1, <1>5, TouchTypes
<1>7. FlagTypes /\ FlagTypes'
  BY <1>1, <1>6 DEF TextTypes
<1>8. Controls
  BY <1>1, <1>2, <1>3 DEF CommentTypes, Controls, Points, Tokens, TextTokens
<1>9. CallTypes'
  BY <1>1, <1>2, <1>3, <1>7, <1>8, Controlled DEF CallTypes, Skips
<1>10. StringTypes'
  BY <1>1, <1>2, <1>3 DEF StringTypes, Places, StringPoints, BlankPoints
<1>11. Places'
  BY <1>1, <1>2, <1>3 DEF CommentTypes, Places, BlankPoints, StringPoints
<1>12. CommentTypes'
  BY <1>1, <1>2, <1>3 DEF CommentTypes
<1>13. ASSUME Nested, ~Overlap
       PROVE  Nested'
  BY <1>1, <1>2, <1>3, <1>4, <1>13
     DEF Nested, HalfOpen, HalfClosed, CommentTypes, CallTypes, Places, BlankPoints,
         StringPoints, Seen, Left, Starting, NeedsSecond
<1>14. ASSUME Newline, ~SplitNewline
       PROVE  Newline'
  <2>1. CASE RecoverLineComment!2!(a)!1
    BY <1>1, <1>2, <1>4, <1>7, <1>14, <2>1
       DEF FlagTypes, Newline, CommentTypes, Kind, LinesTogether, InLines, CallTypes,
           Places, BlankPoints, StringPoints, Seen, Left, Starting, NeedsSecond
  <2>2. CASE RecoverLineComment!2!(a)!2
    BY <1>1, <1>2, <1>4, <1>7, <1>14, <2>2
       DEF FlagTypes, Newline, CommentTypes, Kind, LinesTogether, InLines, CallTypes,
           Places, BlankPoints, StringPoints, Seen, Left, Starting, NeedsSecond
  <2>3. CASE RecoverLineComment!2!(a)!3
    BY <1>1, <1>2, <1>4, <1>7, <1>14, <2>3
       DEF FlagTypes, Newline, CommentTypes, Kind, LinesTogether, InLines, CallTypes,
           Places, BlankPoints, StringPoints, Seen, Left, Starting, NeedsSecond
  <2> QED
    BY <1>3, <2>1, <2>2, <2>3
<1>15. Followed'
  BY <1>1, <1>2, <1>3, <1>4
     DEF Followed, CommentTypes, RecoverPoints, BlankLeft, CallTypes, Places,
         BlankPoints, StringPoints, Seen, Left, Starting, NeedsSecond
<1>16. Moving'
  BY <1>1, <1>2, <1>3, <1>4, <1>7
     DEF FlagTypes, Moving, CommentTypes, NotIdent, Invalid, CallTypes, Places,
         BlankPoints, StringPoints, Seen, Left, Starting, NeedsSecond
<1>17. Fresh'
  BY <1>1, <1>2, <1>3, <1>6, <1>7
     DEF Onward, FlagTypes, Fresh, Places, BlankLeft, StringPoints
<1>18. Stalled'
  BY <1>1, <1>2, <1>3, <1>6, <1>7
     DEF Onward, FlagTypes, Stalled, Places, BlankLeft, StringPoints, CallTypes
<1> QED
  BY <1>6, <1>9, <1>10, <1>11, <1>12, <1>13, <1>14, <1>15, <1>16, <1>17, <1>18
     DEF Core, Keeps

LEMMA RecoverBlockCommentKeeps ==
  ASSUME Core, RecoverBlockComment
  PROVE  Keeps
<1> USE LexerAssumption
        DEF KeepLocals, ToToken, PassScanned, Scan, Scanned, Overlaps, NoComment, Goto,
            Return, blankVars, stringVars, scanVars
<1>1. /\ TextTypes /\ CallTypes /\ CommentTypes /\ StringTypes
      /\ Places /\ Followed /\ Moving /\ Fresh /\ Stalled
  BY DEF Core
<1>2. RecoverBlockComment!1
  BY DEF RecoverBlockComment
<1>3. PICK a \in View : RecoverBlockComment!2!(a)
  BY DEF RecoverBlockComment
<1>4. Seen(a) /\ Left(a) /\ Starting(a)
  BY <1>1, Seeing
<1>5. Touches(a)
  BY <1>2, <1>3, <1>4 DEF Touches, Seen, Starting, LinesTogether, InLines, Newlines
<1>6. TextTypes' /\ Onward
  BY <1>1, <1>5, TouchTypes
<1>7. FlagTypes /\ FlagTypes'
  BY <1>1, <1>6 DEF TextTypes
<1>8. Controls
  BY <1>1, <1>2, <1>3 DEF CommentTypes, Controls, Points, Tokens, TextTokens
<1>9. CallTypes'
  BY <1>1, <1>2, <1>3, <1>7, <1>8, Controlled DEF CallTypes, Skips
<1>10. StringTypes'
  BY <1>1, <1>2, <1>3 DEF StringTypes, Places, StringPoints, BlankPoints
<1>11. Places'
  BY <1>1, <1>2, <1>3 DEF CommentTypes, Places, BlankPoints, StringPoints
<1>12. CommentTypes'
  BY <1>1, <1>2, <1>3 DEF CommentTypes
<1>13. ASSUME Nested, ~Overlap
       PROVE  Nested'
  BY <1>1, <1>2, <1>3, <1>4, <1>13
     DEF Nested, HalfOpen, HalfClosed, CommentTypes, CallTypes, Places, BlankPoints,
         StringPoints, Seen, Left, Starting, NeedsSecond
<1>14. ASSUME Newline, ~SplitNewline
       PROVE  Newline'
  BY <1>1, <1>2, <1>3, <1>4, <1>7, <1>14
     DEF FlagTypes, Newline, CommentTypes, Kind, Newlines, LinesTogether, InLines,
         CallTypes, Places, BlankPoints, StringPoints, Seen, Left, Starting, NeedsSecond
<1>15. Followed'
  BY <1>1, <1>2, <1>3, <1>4
     DEF Followed, CommentTypes, RecoverPoints, BlankLeft, Newlines, CallTypes, Places,
         BlankPoints, StringPoints, Seen, Left, Starting, NeedsSecond
<1>16. Moving'
  BY <1>1, <1>2, <1>3, <1>4, <1>7
     DEF FlagTypes, Moving, CommentTypes, Newlines, NotIdent, Invalid, CallTypes,
         Places, BlankPoints, StringPoints, Seen, Left, Starting, NeedsSecond
<1>17. Fresh'
  BY <1>1, <1>2, <1>3, <1>6, <1>7
     DEF Onward, FlagTypes, Fresh, Places, BlankLeft, StringPoints
<1>18. Stalled'
  BY <1>1, <1>2, <1>3, <1>6, <1>7
     DEF Onward, FlagTypes, Stalled, Places, BlankLeft, StringPoints, CallTypes
<1> QED
  BY <1>6, <1>9, <1>10, <1>11, <1>12, <1>13, <1>14, <1>15, <1>16, <1>17, <1>18
     DEF Core, Keeps

LEMMA RecoverStringKeeps ==
  ASSUME Core, RecoverString
  PROVE  Keeps
<1> USE LexerAssumption
        DEF KeepLocals, ToToken, Quotes, NoString, Goto, Return, blankVars, stringVars,
            scanVars
<1>1. /\ TextTypes /\ CallTypes /\ CommentTypes /\ StringTypes
      /\ Places /\ Followed /\ Moving /\ Fresh /\ Stalled
  BY DEF Core
<1>2. RecoverString!1
  BY DEF RecoverString
<1>3. PICK a \in View : RecoverString!2!(a)
  BY DEF RecoverString
<1>4. Seen(a) /\ Left(a) /\ Starting(a)
  BY <1>1, Seeing
<1>5. Touches(a)
  BY <1>2, <1>3, <1>4 DEF Touches, Seen, Starting, LinesTogether, InLines, Newlines
<1>6. TextTypes' /\ Onward
  BY <1>1, <1>5, TouchTypes
<1>7. FlagTypes /\ FlagTypes'
  BY <1>1, <1>6 DEF TextTypes
<1>8. Controls
  BY <1>1, <1>2, <1>3 DEF CommentTypes, Controls, Points, Tokens, TextTokens
<1>9. CallTypes'
  BY <1>1, <1>2, <1>3, <1>7, <1>8, Controlled DEF CallTypes, Skips
<1>10. StringTypes'
  <2>1. CASE NoString
    BY <2>1, NoStringTypes
  <2>2. CASE ~NoString
    <3>1. nextSkip' = "RecoverString" /\ hashes' = hashes /\ multi' = multi
      BY <1>1, <1>2, <1>3, <2>2 DEF Places, StringPoints
    <3>2. left' = 0 \/ (left' = left + 1 /\ left + 1 < Quotes + hashes)
      BY <1>1, <1>3, <2>2 DEF StringTypes
    <3>3. Quotes \in {1, 3}
      OBVIOUS
    <3>4. left' \in 0..(MaxHashes + 2)
      BY <1>1, <3>2, <3>3 DEF StringTypes
    <3> QED
      BY <1>1, <3>1, <3>4 DEF StringTypes
  <2> QED
    BY <2>1, <2>2
<1>11. Places'
  BY <1>1, <1>2, <1>3 DEF CommentTypes, Places, BlankPoints, StringPoints
<1>12. CommentTypes'
  BY <1>1, <1>2, <1>3 DEF CommentTypes
<1>13. ASSUME Nested, ~Overlap
       PROVE  Nested'
  BY <1>1, <1>2, <1>3, <1>4, <1>13
     DEF Nested, HalfOpen, HalfClosed, CommentTypes, CallTypes, Places, BlankPoints,
         StringPoints, Seen, Left, Starting, NeedsSecond
<1>14. ASSUME Newline, ~SplitNewline
       PROVE  Newline'
  <2>1. CASE a[1] = "eof" /\ Stay(a) /\ ToToken
    BY <1>1, <1>4, <1>14, <2>1 DEF Newline, Left
  <2>2. CASE Pass(a, 1) /\ ToToken /\ a[1] \in {"quote", "#"}
    <3>1. last' = "other"
      BY <1>4, <2>2 DEF Left, Kind, Newlines
    <3> QED
      BY <2>2, <3>1 DEF Newline
  <2>3. CASE Pass(a, 1) /\ Goto("recoverString") /\ UNCHANGED nextSkip
    BY <1>1, <1>2, <1>4, <1>14, <2>3 DEF Newline, Left, Kind, Newlines, Places
  <2>4. a[1] \notin {"quote", "#"} => Quotes + hashes # 0
    BY <1>1 DEF StringTypes
  <2> QED
    BY <1>3, <2>1, <2>2, <2>3, <2>4
<1>15. Followed'
  BY <1>1, <1>2, <1>3, <1>4
     DEF Followed, CommentTypes, RecoverPoints, BlankLeft, Newlines, CallTypes, Places,
         BlankPoints, StringPoints, Seen, Left, Starting, NeedsSecond
<1>16. Moving'
  BY <1>1, <1>2, <1>3, <1>4, <1>7
     DEF FlagTypes, Moving, CommentTypes, Newlines, NotIdent, Invalid, CallTypes,
         Places, BlankPoints, StringPoints, Seen, Left, Starting, NeedsSecond
<1>17. Fresh'
  BY <1>1, <1>2, <1>3, <1>6, <1>7
     DEF Onward, FlagTypes, Fresh, Places, BlankLeft, StringPoints
<1>18. Stalled'
  BY <1>1, <1>2, <1>3, <1>6, <1>7
     DEF Onward, FlagTypes, Stalled, Places, BlankLeft, StringPoints, CallTypes
<1> QED
  BY <1>6, <1>9, <1>10, <1>11, <1>12, <1>13, <1>14, <1>15, <1>16, <1>17, <1>18
     DEF Core, Keeps

LEMMA TokenKeeps ==
  ASSUME Core, Token
  PROVE  Keeps
<1> USE LexerAssumption
        DEF BlankToken, ShortToken, KeywordToken, KeywordLen, BeginSkip, Whole,
            ReturnText, Newlines, Operators, NotIdent, Invalid, Goto, Return, blankVars,
            stringVars, scanVars
<1>1. /\ TextTypes /\ CallTypes /\ CommentTypes /\ StringTypes
      /\ Places /\ Followed /\ Moving /\ Fresh /\ Stalled
  BY DEF Core
<1>2. Token!1
  BY DEF Token
<1>3. PICK a \in View : Token!2!(a)
  BY DEF Token
<1>4. Seen(a) /\ Left(a) /\ Starting(a)
  BY <1>1, Seeing
<1>5. Touches(a)
  BY <1>2, <1>3, <1>4 DEF Touches, Seen, Starting, LinesTogether, InLines
<1>6. TextTypes' /\ Onward
  BY <1>1, <1>5, TouchTypes
<1>7. FlagTypes /\ FlagTypes'
  BY <1>1, <1>6 DEF TextTypes
<1>8. Controls
  BY <1>1, <1>2, <1>3 DEF CommentTypes, Controls, Points, Tokens, TextTokens
<1>9. CallTypes'
  BY <1>1, <1>2, <1>3, <1>7, <1>8, Controlled DEF CallTypes, Skips
<1>10. StringTypes'
  BY <1>1, <1>2, <1>3 DEF StringTypes, Places, StringPoints, BlankPoints
<1>11. Places'
  BY <1>1, <1>2, <1>3 DEF CommentTypes, Places, BlankPoints, StringPoints
<1>12. CommentTypes'
  BY <1>1, <1>2, <1>3 DEF CommentTypes
<1>13. ASSUME Nested, ~Overlap
       PROVE  Nested'
  BY <1>1, <1>2, <1>3, <1>4, <1>13
     DEF Nested, HalfOpen, HalfClosed, CommentTypes, CallTypes, Places, BlankPoints,
         StringPoints, Seen, Left, Starting, NeedsSecond
<1>14. ASSUME Newline, ~SplitNewline
       PROVE  Newline'
  BY <1>1, <1>2, <1>3, <1>4, <1>7, <1>14
     DEF FlagTypes, Newline, CommentTypes, Kind, LinesTogether, InLines, CallTypes,
         Places, BlankPoints, StringPoints, Seen, Left, Starting, NeedsSecond
<1>15. Followed'
  BY <1>1, <1>2, <1>3, <1>4
     DEF Followed, CommentTypes, RecoverPoints, BlankLeft, CallTypes, Places,
         BlankPoints, StringPoints, Seen, Left, Starting, NeedsSecond
<1>16. Moving'
  <2>1. CASE at' = "idle"
    BY <2>1 DEF Moving, StringPoints
  <2>2. CASE Token!2!(a)!2
    <3>1. First(ahead') = a[1]
      BY <1>4, <2>2 DEF Left
    <3> QED
      BY <2>2, <3>1 DEF Moving, StringPoints
  <2>3. CASE Token!2!(a)!3
    <3>1. First(ahead') = a[1] /\ a[1] # "none"
      BY <1>4, <2>3 DEF Left, Seen, Chars, Signs
    <3> QED
      BY <2>3, <3>1 DEF Moving, StringPoints
  <2> QED
    BY <1>3, <2>1, <2>2, <2>3
<1>17. Fresh'
  BY <1>1, <1>2, <1>3, <1>4, <1>7
     DEF FlagTypes, Moving, Followed, Fresh, BlankLeft, CallTypes, Places, BlankPoints,
         StringPoints, Seen, Left, Starting, NeedsSecond
<1>18. Stalled'
  BY <1>1, <1>2, <1>3, <1>4, <1>7
     DEF FlagTypes, Moving, Stalled, BlankLeft, CallTypes, Places, BlankPoints,
         StringPoints, Seen, Left, Starting, NeedsSecond
<1> QED
  BY <1>6, <1>9, <1>10, <1>11, <1>12, <1>13, <1>14, <1>15, <1>16, <1>17, <1>18
     DEF Core, Keeps

LEMMA PreviewKeeps ==
  ASSUME Core, Preview
  PROVE  Keeps
<1> USE LexerAssumption
        DEF KeepIdent, NumberStart, PointFirst, IdentStart, Signs, NotIdent, Newlines,
            Invalid, Operators, Goto, Return, blankVars, stringVars, scanVars
<1>1. /\ TextTypes /\ CallTypes /\ CommentTypes /\ StringTypes
      /\ Places /\ Followed /\ Moving /\ Fresh /\ Stalled
  BY DEF Core
<1>2. Preview!1
  BY DEF Preview
<1>3. PICK a \in View : Preview!2!(a)
  BY DEF Preview
<1>4. Seen(a) /\ Left(a) /\ Starting(a)
  BY <1>1, Seeing
<1>5. Touches(a)
  <2>1. CASE Preview!2!(a)!1
    BY <1>2, <1>4, <2>1 DEF Touches, Seen, Starting, LinesTogether, InLines, NeedsSecond
  <2>2. CASE Preview!2!(a)!2
    BY <1>2, <1>4, <2>2 DEF Touches, Seen, Starting, LinesTogether, InLines, NeedsSecond
  <2>3. CASE Preview!2!(a)!3
    BY <1>2, <1>4, <2>3 DEF Touches, Seen, Starting, LinesTogether, InLines, NeedsSecond
  <2> QED
    BY <1>3, <2>1, <2>2, <2>3
<1>6. TextTypes' /\ Onward
  BY <1>1, <1>5, TouchTypes
<1>7. FlagTypes /\ FlagTypes'
  BY <1>1, <1>6 DEF TextTypes
<1>8. Controls
  BY <1>1, <1>2, <1>3 DEF CommentTypes, Controls, Points, Tokens, TextTokens
<1>9. CallTypes'
  BY <1>1, <1>2, <1>3, <1>7, <1>8, Controlled DEF CallTypes, Skips
<1>10. StringTypes'
  BY <1>1, <1>2, <1>3 DEF StringTypes, Places, StringPoints, BlankPoints
<1>11. Places'
  BY <1>1, <1>2, <1>3 DEF CommentTypes, Places, BlankPoints, StringPoints
<1>12. CommentTypes'
  BY <1>1, <1>2, <1>3 DEF CommentTypes
<1>13. ASSUME Nested, ~Overlap
       PROVE  Nested'
  BY <1>1, <1>2, <1>3, <1>4, <1>13
     DEF Nested, HalfOpen, HalfClosed, CommentTypes, CallTypes, Places, BlankPoints,
         StringPoints, Seen, Left, Starting, NeedsSecond
<1>14. ASSUME Newline, ~SplitNewline
       PROVE  Newline'
  <2>1. CASE Preview!2!(a)!1
    BY <1>1, <1>2, <1>4, <1>7, <1>14, <2>1
       DEF FlagTypes, Newline, CommentTypes, Kind, LinesTogether, InLines, CallTypes,
           Places, BlankPoints, StringPoints, Seen, Left, Starting, NeedsSecond
  <2>2. CASE Preview!2!(a)!2
    BY <1>1, <1>2, <1>4, <1>7, <1>14, <2>2
       DEF FlagTypes, Newline, CommentTypes, Kind, LinesTogether, InLines, CallTypes,
           Places, BlankPoints, StringPoints, Seen, Left, Starting, NeedsSecond
  <2>3. CASE Preview!2!(a)!3
    BY <1>1, <1>2, <1>4, <1>7, <1>14, <2>3
       DEF FlagTypes, Newline, CommentTypes, Kind, LinesTogether, InLines, CallTypes,
           Places, BlankPoints, StringPoints, Seen, Left, Starting, NeedsSecond
  <2> QED
    BY <1>3, <2>1, <2>2, <2>3
<1>15. Followed'
  BY <1>1, <1>2, <1>3, <1>4
     DEF Followed, CommentTypes, RecoverPoints, BlankLeft, CallTypes, Places,
         BlankPoints, StringPoints, Seen, Left, Starting, NeedsSecond
<1>16. Moving'
  BY <1>1, <1>2, <1>3, <1>4, <1>7
     DEF FlagTypes, Moving, CommentTypes, CallTypes, Places, BlankPoints, StringPoints,
         Seen, Left, Starting, NeedsSecond
<1>17. Fresh'
  <2>1. CASE Preview!2!(a)!1
    BY <1>1, <1>2, <1>4, <1>7, <2>1
       DEF FlagTypes, Moving, Followed, Fresh, BlankLeft, CallTypes, Places,
           BlankPoints, StringPoints, Seen, Left, Starting, NeedsSecond
  <2>2. CASE Preview!2!(a)!2
    BY <1>1, <1>2, <1>4, <1>7, <2>2
       DEF FlagTypes, Moving, Followed, Fresh, BlankLeft, CallTypes, Places,
           BlankPoints, StringPoints, Seen, Left, Starting, NeedsSecond
  <2>3. CASE Preview!2!(a)!3
    BY <1>1, <1>2, <1>4, <1>7, <2>3
       DEF FlagTypes, Moving, Followed, Fresh, BlankLeft, CallTypes, Places,
           BlankPoints, StringPoints, Seen, Left, Starting, NeedsSecond
  <2> QED
    BY <1>3, <2>1, <2>2, <2>3
<1>18. Stalled'
  <2>1. CASE Preview!2!(a)!1
    BY <1>1, <1>2, <1>4, <1>7, <2>1
       DEF FlagTypes, Moving, Stalled, BlankLeft, CallTypes, Places, BlankPoints,
           StringPoints, Seen, Left, Starting, NeedsSecond
  <2>2. CASE Preview!2!(a)!2
    BY <1>1, <1>2, <1>4, <1>7, <2>2
       DEF FlagTypes, Moving, Stalled, BlankLeft, CallTypes, Places, BlankPoints,
           StringPoints, Seen, Left, Starting, NeedsSecond
  <2>3. CASE Preview!2!(a)!3
    BY <1>1, <1>2, <1>4, <1>7, <2>3
       DEF FlagTypes, Moving, Stalled, BlankLeft, CallTypes, Places, BlankPoints,
           StringPoints, Seen, Left, Starting, NeedsSecond
  <2> QED
    BY <1>3, <2>1, <2>2, <2>3
<1> QED
  BY <1>6, <1>9, <1>10, <1>11, <1>12, <1>13, <1>14, <1>15, <1>16, <1>17, <1>18
     DEF Core, Keeps

LEMMA IdentKeeps ==
  ASSUME Core, Ident
  PROVE  Keeps
<1> USE LexerAssumption
        DEF KeepIdent, IdentEnd, ReturnText, NotIdent, Newlines, Invalid, Operators,
            Goto, Return, blankVars, stringVars, scanVars
<1>1. /\ TextTypes /\ CallTypes /\ CommentTypes /\ StringTypes
      /\ Places /\ Followed /\ Moving /\ Fresh /\ Stalled
  BY DEF Core
<1>2. Ident!1
  BY DEF Ident
<1>3. PICK a \in View : Ident!2!(a)
  BY DEF Ident
<1>4. Seen(a) /\ Left(a) /\ Starting(a)
  BY <1>1, Seeing
<1>5. Touches(a)
  BY <1>2, <1>3, <1>4 DEF Touches, Seen, Starting, LinesTogether, InLines
<1>6. TextTypes' /\ Onward
  BY <1>1, <1>5, TouchTypes
<1>7. FlagTypes /\ FlagTypes'
  BY <1>1, <1>6 DEF TextTypes
<1>8. Controls
  BY <1>1, <1>2, <1>3 DEF CommentTypes, Controls, Points, Tokens, TextTokens
<1>9. CallTypes'
  BY <1>1, <1>2, <1>3, <1>7, <1>8, Controlled DEF CallTypes, Skips
<1>10. StringTypes'
  BY <1>1, <1>2, <1>3 DEF StringTypes, Places, StringPoints, BlankPoints
<1>11. Places'
  BY <1>1, <1>2, <1>3 DEF CommentTypes, Places, BlankPoints, StringPoints
<1>12. CommentTypes'
  BY <1>1, <1>2, <1>3 DEF CommentTypes
<1>13. ASSUME Nested, ~Overlap
       PROVE  Nested'
  BY <1>1, <1>2, <1>3, <1>4, <1>13
     DEF Nested, HalfOpen, HalfClosed, CommentTypes, CallTypes, Places, BlankPoints,
         StringPoints, Seen, Left, Starting, NeedsSecond
<1>14. ASSUME Newline, ~SplitNewline
       PROVE  Newline'
  BY <1>1, <1>2, <1>3, <1>4, <1>7, <1>14
     DEF FlagTypes, Newline, CommentTypes, Kind, LinesTogether, InLines, CallTypes,
         Places, BlankPoints, StringPoints, Seen, Left, Starting, NeedsSecond
<1>15. Followed'
  BY <1>1, <1>2, <1>3, <1>4
     DEF Followed, CommentTypes, RecoverPoints, BlankLeft, CallTypes, Places,
         BlankPoints, StringPoints, Seen, Left, Starting, NeedsSecond
<1>16. Moving'
  BY <1>1, <1>2, <1>3, <1>4, <1>7
     DEF FlagTypes, Moving, CommentTypes, CallTypes, Places, BlankPoints, StringPoints,
         Seen, Left, Starting, NeedsSecond
<1>17. Fresh'
  BY <1>1, <1>2, <1>3, <1>4, <1>7
     DEF FlagTypes, Moving, Followed, Fresh, BlankLeft, CallTypes, Places, BlankPoints,
         StringPoints, Seen, Left, Starting, NeedsSecond
<1>18. Stalled'
  BY <1>1, <1>2, <1>3, <1>4, <1>7
     DEF FlagTypes, Moving, Stalled, BlankLeft, CallTypes, Places, BlankPoints,
         StringPoints, Seen, Left, Starting, NeedsSecond
<1> QED
  BY <1>6, <1>9, <1>10, <1>11, <1>12, <1>13, <1>14, <1>15, <1>16, <1>17, <1>18
     DEF Core, Keeps

LEMMA NumberLoopKeeps ==
  ASSUME Core, NumberLoop
  PROVE  Keeps
<1> USE LexerAssumption
        DEF KeepIdent, ReturnText, NotIdent, Newlines, Invalid, Operators, Signs, Goto,
            Return, blankVars, stringVars, scanVars
<1>1. /\ TextTypes /\ CallTypes /\ CommentTypes /\ StringTypes
      /\ Places /\ Followed /\ Moving /\ Fresh /\ Stalled
  BY DEF Core
<1>2. NumberLoop!1
  BY DEF NumberLoop
<1>3. PICK a \in View : NumberLoop!2!(a)
  BY DEF NumberLoop
<1>4. Seen(a) /\ Left(a) /\ Starting(a)
  BY <1>1, Seeing
<1>5. Touches(a)
  BY <1>2, <1>3, <1>4 DEF Touches, Seen, Starting, LinesTogether, InLines
<1>6. TextTypes' /\ Onward
  BY <1>1, <1>5, TouchTypes
<1>7. FlagTypes /\ FlagTypes'
  BY <1>1, <1>6 DEF TextTypes
<1>8. Controls
  BY <1>1, <1>2, <1>3 DEF CommentTypes, Controls, Points, Tokens, TextTokens
<1>9. CallTypes'
  BY <1>1, <1>2, <1>3, <1>7, <1>8, Controlled DEF CallTypes, Skips
<1>10. StringTypes'
  BY <1>1, <1>2, <1>3 DEF StringTypes, Places, StringPoints, BlankPoints
<1>11. Places'
  BY <1>1, <1>2, <1>3 DEF CommentTypes, Places, BlankPoints, StringPoints
<1>12. CommentTypes'
  BY <1>1, <1>2, <1>3 DEF CommentTypes
<1>13. ASSUME Nested, ~Overlap
       PROVE  Nested'
  BY <1>1, <1>2, <1>3, <1>4, <1>13
     DEF Nested, HalfOpen, HalfClosed, CommentTypes, CallTypes, Places, BlankPoints,
         StringPoints, Seen, Left, Starting, NeedsSecond
<1>14. ASSUME Newline, ~SplitNewline
       PROVE  Newline'
  BY <1>1, <1>2, <1>3, <1>4, <1>7, <1>14
     DEF FlagTypes, Newline, CommentTypes, Kind, LinesTogether, InLines, CallTypes,
         Places, BlankPoints, StringPoints, Seen, Left, Starting, NeedsSecond
<1>15. Followed'
  BY <1>1, <1>2, <1>3, <1>4
     DEF Followed, CommentTypes, RecoverPoints, BlankLeft, CallTypes, Places,
         BlankPoints, StringPoints, Seen, Left, Starting, NeedsSecond
<1>16. Moving'
  BY <1>1, <1>2, <1>3, <1>4, <1>7
     DEF FlagTypes, Moving, CommentTypes, CallTypes, Places, BlankPoints, StringPoints,
         Seen, Left, Starting, NeedsSecond
<1>17. moved' = TRUE /\ begun' = TRUE
  BY <1>1, <1>2, <1>6, <1>7 DEF Onward, Moving, Fresh, StringPoints, FlagTypes
<1>18. (at' # "idle" /\ stalls' = stalls) \/ (\E result : Return(result))
  BY <1>1, <1>2, <1>3 DEF CommentTypes
<1>19. Fresh' /\ Stalled'
  BY <1>1, <1>17, <1>18, Advanced
<1> QED
  BY <1>6, <1>9, <1>10, <1>11, <1>12, <1>13, <1>14, <1>15, <1>16, <1>19 DEF Core, Keeps

LEMMA HashesKeeps ==
  ASSUME Core, Hashes
  PROVE  Keeps
<1> USE LexerAssumption
        DEF KeepString, OpenString, NoString, Goto, Return, blankVars, stringVars,
            scanVars
<1>1. /\ TextTypes /\ CallTypes /\ CommentTypes /\ StringTypes
      /\ Places /\ Followed /\ Moving /\ Fresh /\ Stalled
  BY DEF Core
<1>2. Hashes!1
  BY DEF Hashes
<1>3. PICK a \in View : Hashes!2!(a)
  BY DEF Hashes
<1>4. Seen(a) /\ Left(a) /\ Starting(a)
  BY <1>1, Seeing
<1>5. Touches(a)
  BY <1>2, <1>3, <1>4 DEF Touches, Seen, Starting, LinesTogether, InLines, Newlines
<1>6. TextTypes' /\ Onward
  BY <1>1, <1>5, TouchTypes
<1>7. FlagTypes /\ FlagTypes'
  BY <1>1, <1>6 DEF TextTypes
<1>8. Controls
  BY <1>1, <1>2, <1>3 DEF CommentTypes, Controls, Points, Tokens, TextTokens
<1>9. CallTypes'
  BY <1>1, <1>2, <1>3, <1>7, <1>8, Controlled DEF CallTypes, Skips
<1>10. StringTypes'
  <2>1. CASE Hashes!2!(a)!1
    BY <1>1, <1>2, <2>1 DEF StringTypes
  <2>2. CASE Hashes!2!(a)!2
    BY <1>1, <1>2, <2>2 DEF StringTypes
  <2>3. CASE Hashes!2!(a)!3
    BY <1>1, <1>2, <2>3 DEF StringTypes
  <2>4. CASE NoString
    BY <2>4, NoStringTypes
  <2> QED
    BY <1>3, <2>1, <2>2, <2>3, <2>4
<1>11. Places'
  BY <1>1, <1>2, <1>3 DEF CommentTypes, Places, BlankPoints, StringPoints
<1>12. CommentTypes'
  BY <1>1, <1>2, <1>3 DEF CommentTypes
<1>13. ASSUME Nested, ~Overlap
       PROVE  Nested'
  BY <1>1, <1>2, <1>3, <1>4, <1>13
     DEF Nested, HalfOpen, HalfClosed, CommentTypes, CallTypes, Places, BlankPoints,
         StringPoints, Seen, Left, Starting, NeedsSecond
<1>14. ASSUME Newline, ~SplitNewline
       PROVE  Newline'
  BY <1>1, <1>2, <1>3, <1>4, <1>7, <1>14
     DEF FlagTypes, Newline, CommentTypes, Kind, Newlines, LinesTogether, InLines,
         CallTypes, Places, BlankPoints, StringPoints, Seen, Left, Starting, NeedsSecond
<1>15. Followed'
  BY <1>1, <1>2, <1>3, <1>4
     DEF Followed, CommentTypes, RecoverPoints, BlankLeft, Newlines, CallTypes, Places,
         BlankPoints, StringPoints, Seen, Left, Starting, NeedsSecond
<1>16. Moving'
  BY <1>1, <1>2, <1>3, <1>4, <1>7
     DEF FlagTypes, Moving, CommentTypes, Newlines, NotIdent, Invalid, CallTypes,
         Places, BlankPoints, StringPoints, Seen, Left, Starting, NeedsSecond
<1>17. Fresh'
  BY <1>1, <1>2, <1>3, <1>4, <1>7
     DEF FlagTypes, Moving, Followed, Fresh, BlankLeft, Newlines, CallTypes, Places,
         BlankPoints, StringPoints, Seen, Left, Starting, NeedsSecond
<1>18. Stalled'
  BY <1>1, <1>2, <1>3, <1>4, <1>7
     DEF FlagTypes, Moving, Stalled, BlankLeft, Newlines, CallTypes, Places,
         BlankPoints, StringPoints, Seen, Left, Starting, NeedsSecond
<1> QED
  BY <1>6, <1>9, <1>10, <1>11, <1>12, <1>13, <1>14, <1>15, <1>16, <1>17, <1>18
     DEF Core, Keeps

LEMMA MultilineOpeningKeeps ==
  ASSUME Core, MultilineOpening
  PROVE  Keeps
<1> USE LexerAssumption
        DEF KeepString, NewlineLen, Newlines, Goto, Return, blankVars, stringVars,
            scanVars
<1>1. /\ TextTypes /\ CallTypes /\ CommentTypes /\ StringTypes
      /\ Places /\ Followed /\ Moving /\ Fresh /\ Stalled
  BY DEF Core
<1>2. MultilineOpening!1
  BY DEF MultilineOpening
<1>3. PICK a \in View : MultilineOpening!2!(a)
  BY DEF MultilineOpening
<1>4. Seen(a) /\ Left(a) /\ Starting(a)
  BY <1>1, Seeing
<1>5. Touches(a)
  BY <1>2, <1>3, <1>4 DEF Touches, Seen, Starting, LinesTogether, InLines
<1>6. TextTypes' /\ Onward
  BY <1>1, <1>5, TouchTypes
<1>7. FlagTypes /\ FlagTypes'
  BY <1>1, <1>6 DEF TextTypes
<1>8. Controls
  BY <1>1, <1>2, <1>3 DEF CommentTypes, Controls, Points, Tokens, TextTokens
<1>9. CallTypes'
  BY <1>1, <1>2, <1>3, <1>7, <1>8, Controlled DEF CallTypes, Skips
<1>10. StringTypes'
  BY <1>1, <1>2, <1>3 DEF StringTypes, Places, StringPoints, BlankPoints
<1>11. Places'
  BY <1>1, <1>2, <1>3 DEF CommentTypes, Places, BlankPoints, StringPoints
<1>12. CommentTypes'
  BY <1>1, <1>2, <1>3 DEF CommentTypes
<1>13. ASSUME Nested, ~Overlap
       PROVE  Nested'
  BY <1>1, <1>2, <1>3, <1>4, <1>13
     DEF Nested, HalfOpen, HalfClosed, CommentTypes, CallTypes, Places, BlankPoints,
         StringPoints, Seen, Left, Starting, NeedsSecond
<1>14. ASSUME Newline, ~SplitNewline
       PROVE  Newline'
  BY <1>1, <1>2, <1>3, <1>4, <1>7, <1>14
     DEF FlagTypes, Newline, CommentTypes, Kind, LinesTogether, InLines, CallTypes,
         Places, BlankPoints, StringPoints, Seen, Left, Starting, NeedsSecond
<1>15. Followed'
  BY <1>1, <1>2, <1>3, <1>4
     DEF Followed, CommentTypes, RecoverPoints, BlankLeft, CallTypes, Places,
         BlankPoints, StringPoints, Seen, Left, Starting, NeedsSecond
<1>16. Moving'
  BY <1>1, <1>2, <1>3, <1>4, <1>7
     DEF FlagTypes, Moving, CommentTypes, NotIdent, Invalid, CallTypes, Places,
         BlankPoints, StringPoints, Seen, Left, Starting, NeedsSecond
<1>17. moved' = TRUE /\ begun' = TRUE
  BY <1>1, <1>2, <1>6, <1>7 DEF Onward, Moving, Fresh, StringPoints, FlagTypes
<1>18. (at' # "idle" /\ stalls' = stalls) \/ (\E result : Return(result))
  BY <1>1, <1>2, <1>3 DEF CommentTypes
<1>19. Fresh' /\ Stalled'
  BY <1>1, <1>17, <1>18, Advanced
<1> QED
  BY <1>6, <1>9, <1>10, <1>11, <1>12, <1>13, <1>14, <1>15, <1>16, <1>19 DEF Core, Keeps

LEMMA StringKeeps ==
  ASSUME Core, String
  PROVE  Keeps
<1> USE LexerAssumption
        DEF KeepString, GoOnLine, StringRefused, ClosingQuotes, NewlineLen, Newlines,
            Invalid, Goto, Return, blankVars, stringVars, scanVars
<1>1. /\ TextTypes /\ CallTypes /\ CommentTypes /\ StringTypes
      /\ Places /\ Followed /\ Moving /\ Fresh /\ Stalled
  BY DEF Core
<1>2. String!1
  BY DEF String
<1>3. PICK a \in View : String!2!(a)
  BY DEF String
<1>4. Seen(a) /\ Left(a) /\ Starting(a)
  BY <1>1, Seeing
<1>5. Touches(a)
  BY <1>2, <1>3, <1>4 DEF Touches, Seen, Starting, LinesTogether, InLines
<1>6. TextTypes' /\ Onward
  BY <1>1, <1>5, TouchTypes
<1>7. FlagTypes /\ FlagTypes'
  BY <1>1, <1>6 DEF TextTypes
<1>8. Controls
  BY <1>1, <1>2, <1>3 DEF CommentTypes, Controls, Points, Tokens, TextTokens
<1>9. CallTypes'
  BY <1>1, <1>2, <1>3, <1>7, <1>8, Controlled DEF CallTypes, Skips
<1>10. StringTypes'
  BY <1>1, <1>2, <1>3 DEF StringTypes, Places, StringPoints, BlankPoints
<1>11. Places'
  BY <1>1, <1>2, <1>3 DEF CommentTypes, Places, BlankPoints, StringPoints
<1>12. CommentTypes'
  BY <1>1, <1>2, <1>3 DEF CommentTypes
<1>13. ASSUME Nested, ~Overlap
       PROVE  Nested'
  BY <1>1, <1>2, <1>3, <1>4, <1>13
     DEF Nested, HalfOpen, HalfClosed, CommentTypes, CallTypes, Places, BlankPoints,
         StringPoints, Seen, Left, Starting, NeedsSecond
<1>14. ASSUME Newline, ~SplitNewline
       PROVE  Newline'
  BY <1>1, <1>2, <1>3, <1>4, <1>7, <1>14
     DEF FlagTypes, Newline, CommentTypes, Kind, LinesTogether, InLines, CallTypes,
         Places, BlankPoints, StringPoints, Seen, Left, Starting, NeedsSecond
<1>15. Followed'
  BY <1>1, <1>2, <1>3, <1>4
     DEF Followed, CommentTypes, RecoverPoints, BlankLeft, CallTypes, Places,
         BlankPoints, StringPoints, Seen, Left, Starting, NeedsSecond
<1>16. Moving'
  BY <1>1, <1>2, <1>3, <1>4, <1>7
     DEF FlagTypes, Moving, CommentTypes, NotIdent, CallTypes, Places, BlankPoints,
         StringPoints, Seen, Left, Starting, NeedsSecond
<1>17. moved' = TRUE /\ begun' = TRUE
  BY <1>1, <1>2, <1>6, <1>7 DEF Onward, Moving, Fresh, StringPoints, FlagTypes
<1>18. (at' # "idle" /\ stalls' = stalls) \/ (\E result : Return(result))
  BY <1>1, <1>2, <1>3 DEF CommentTypes
<1>19. Fresh' /\ Stalled'
  BY <1>1, <1>17, <1>18, Advanced
<1> QED
  BY <1>6, <1>9, <1>10, <1>11, <1>12, <1>13, <1>14, <1>15, <1>16, <1>19 DEF Core, Keeps

LEMMA IndentKeeps ==
  ASSUME Core, Indent
  PROVE  Keeps
<1> USE LexerAssumption
        DEF KeepString, GoOnLine, Newlines, Goto, Return, blankVars, stringVars, scanVars
<1>1. /\ TextTypes /\ CallTypes /\ CommentTypes /\ StringTypes
      /\ Places /\ Followed /\ Moving /\ Fresh /\ Stalled
  BY DEF Core
<1>2. Indent!1
  BY DEF Indent
<1>3. PICK a \in View : Indent!2!(a)
  BY DEF Indent
<1>4. Seen(a) /\ Left(a) /\ Starting(a)
  BY <1>1, Seeing
<1>5. Touches(a)
  BY <1>2, <1>3, <1>4 DEF Touches, Seen, Starting, LinesTogether, InLines
<1>6. TextTypes' /\ Onward
  BY <1>1, <1>5, TouchTypes
<1>7. FlagTypes /\ FlagTypes'
  BY <1>1, <1>6 DEF TextTypes
<1>8. Controls
  BY <1>1, <1>2, <1>3 DEF CommentTypes, Controls, Points, Tokens, TextTokens
<1>9. CallTypes'
  BY <1>1, <1>2, <1>3, <1>7, <1>8, Controlled DEF CallTypes, Skips
<1>10. StringTypes'
  BY <1>1, <1>2, <1>3 DEF StringTypes, Places, StringPoints, BlankPoints
<1>11. Places'
  BY <1>1, <1>2, <1>3 DEF CommentTypes, Places, BlankPoints, StringPoints
<1>12. CommentTypes'
  BY <1>1, <1>2, <1>3 DEF CommentTypes
<1>13. ASSUME Nested, ~Overlap
       PROVE  Nested'
  BY <1>1, <1>2, <1>3, <1>4, <1>13
     DEF Nested, HalfOpen, HalfClosed, CommentTypes, CallTypes, Places, BlankPoints,
         StringPoints, Seen, Left, Starting, NeedsSecond
<1>14. ASSUME Newline, ~SplitNewline
       PROVE  Newline'
  BY <1>1, <1>2, <1>3, <1>4, <1>7, <1>14
     DEF FlagTypes, Newline, CommentTypes, Kind, LinesTogether, InLines, CallTypes,
         Places, BlankPoints, StringPoints, Seen, Left, Starting, NeedsSecond
<1>15. Followed'
  BY <1>1, <1>2, <1>3, <1>4
     DEF Followed, CommentTypes, RecoverPoints, BlankLeft, CallTypes, Places,
         BlankPoints, StringPoints, Seen, Left, Starting, NeedsSecond
<1>16. Moving'
  BY <1>1, <1>2, <1>3, <1>6 DEF Moving, StringPoints, Onward
<1>17. moved' = TRUE /\ begun' = TRUE
  BY <1>1, <1>2, <1>6, <1>7 DEF Onward, Moving, Fresh, StringPoints, FlagTypes
<1>18. (at' # "idle" /\ stalls' = stalls) \/ (\E result : Return(result))
  BY <1>1, <1>2, <1>3 DEF CommentTypes
<1>19. Fresh' /\ Stalled'
  BY <1>1, <1>17, <1>18, Advanced
<1> QED
  BY <1>6, <1>9, <1>10, <1>11, <1>12, <1>13, <1>14, <1>15, <1>16, <1>19 DEF Core, Keeps

LEMMA ClosingKeeps ==
  ASSUME Core, Closing
  PROVE  Keeps
<1> USE LexerAssumption
        DEF KeepString, NoString, Goto, Return, blankVars, stringVars, scanVars
<1>1. /\ TextTypes /\ CallTypes /\ CommentTypes /\ StringTypes
      /\ Places /\ Followed /\ Moving /\ Fresh /\ Stalled
  BY DEF Core
<1>2. Closing!1
  BY DEF Closing
<1>3. PICK a \in View : Closing!2!(a)
  BY DEF Closing
<1>4. Seen(a) /\ Left(a) /\ Starting(a)
  BY <1>1, Seeing
<1>5. Touches(a)
  BY <1>2, <1>3, <1>4 DEF Touches, Seen, Starting, LinesTogether, InLines, Newlines
<1>6. TextTypes' /\ Onward
  BY <1>1, <1>5, TouchTypes
<1>7. FlagTypes /\ FlagTypes'
  BY <1>1, <1>6 DEF TextTypes
<1>8. Controls
  BY <1>1, <1>2, <1>3 DEF CommentTypes, Controls, Points, Tokens, TextTokens
<1>9. CallTypes'
  BY <1>1, <1>2, <1>3, <1>7, <1>8, Controlled DEF CallTypes, Skips
<1>10. StringTypes'
  <2>1. CASE Closing!2!(a)!1
    BY <1>1, <1>2, <2>1 DEF StringTypes, Places, StringPoints
  <2>2. CASE NoString
    BY <2>2, NoStringTypes
  <2>3. CASE Closing!2!(a)!3
    BY <1>1, <1>2, <2>3 DEF StringTypes, Places, StringPoints
  <2> QED
    BY <1>3, <2>1, <2>2, <2>3
<1>11. Places'
  BY <1>1, <1>2, <1>3 DEF CommentTypes, Places, BlankPoints, StringPoints
<1>12. CommentTypes'
  BY <1>1, <1>2, <1>3 DEF CommentTypes
<1>13. ASSUME Nested, ~Overlap
       PROVE  Nested'
  BY <1>1, <1>2, <1>3, <1>4, <1>13
     DEF Nested, HalfOpen, HalfClosed, CommentTypes, CallTypes, Places, BlankPoints,
         StringPoints, Seen, Left, Starting, NeedsSecond
<1>14. ASSUME Newline, ~SplitNewline
       PROVE  Newline'
  BY <1>1, <1>2, <1>3, <1>4, <1>7, <1>14
     DEF FlagTypes, Newline, CommentTypes, Kind, Newlines, LinesTogether, InLines,
         CallTypes, Places, BlankPoints, StringPoints, Seen, Left, Starting, NeedsSecond
<1>15. Followed'
  BY <1>1, <1>2, <1>3, <1>4
     DEF Followed, CommentTypes, RecoverPoints, BlankLeft, Newlines, CallTypes, Places,
         BlankPoints, StringPoints, Seen, Left, Starting, NeedsSecond
<1>16. Moving'
  <2>1. CASE Closing!2!(a)!1
    BY <1>1, <1>2, <1>4, <1>7, <2>1
       DEF FlagTypes, Moving, CommentTypes, Newlines, NotIdent, Invalid, CallTypes,
           Places, BlankPoints, StringPoints, Seen, Left, Starting, NeedsSecond
  <2>2. CASE Closing!2!(a)!2
    BY <1>1, <1>2, <1>4, <1>7, <2>2
       DEF FlagTypes, Moving, CommentTypes, Newlines, NotIdent, Invalid, CallTypes,
           Places, BlankPoints, StringPoints, Seen, Left, Starting, NeedsSecond
  <2>3. CASE Closing!2!(a)!3
    BY <1>1, <1>2, <1>4, <1>7, <2>3
       DEF FlagTypes, Moving, CommentTypes, Newlines, NotIdent, Invalid, CallTypes,
           Places, BlankPoints, StringPoints, Seen, Left, Starting, NeedsSecond
  <2> QED
    BY <1>3, <2>1, <2>2, <2>3
<1>17. moved' = TRUE /\ begun' = TRUE
  BY <1>1, <1>2, <1>6, <1>7 DEF Onward, Moving, Fresh, StringPoints, FlagTypes
<1>18. (at' # "idle" /\ stalls' = stalls) \/ (\E result : Return(result))
  BY <1>1, <1>2, <1>3 DEF CommentTypes
<1>19. Fresh' /\ Stalled'
  BY <1>1, <1>17, <1>18, Advanced
<1> QED
  BY <1>6, <1>9, <1>10, <1>11, <1>12, <1>13, <1>14, <1>15, <1>16, <1>19 DEF Core, Keeps

LEMMA EscapeKeeps ==
  ASSUME Core, Escape
  PROVE  Keeps
<1> USE LexerAssumption
        DEF KeepString, Blank, Newlines, Goto, Return, blankVars, stringVars, scanVars
<1>1. /\ TextTypes /\ CallTypes /\ CommentTypes /\ StringTypes
      /\ Places /\ Followed /\ Moving /\ Fresh /\ Stalled
  BY DEF Core
<1>2. Escape!1
  BY DEF Escape
<1>3. PICK a \in View : Escape!2!(a)
  BY DEF Escape
<1>4. Seen(a) /\ Left(a) /\ Starting(a)
  BY <1>1, Seeing
<1>5. Touches(a)
  BY <1>2, <1>3, <1>4 DEF Touches, Seen, Starting, LinesTogether, InLines
<1>6. TextTypes' /\ Onward
  BY <1>1, <1>5, TouchTypes
<1>7. FlagTypes /\ FlagTypes'
  BY <1>1, <1>6 DEF TextTypes
<1>8. Controls
  BY <1>1, <1>2, <1>3 DEF CommentTypes, Controls, Points, Tokens, TextTokens
<1>9. CallTypes'
  BY <1>1, <1>2, <1>3, <1>7, <1>8, Controlled DEF CallTypes, Skips
<1>10. StringTypes'
  BY <1>1, <1>2, <1>3 DEF StringTypes, Places, StringPoints, BlankPoints
<1>11. Places'
  BY <1>1, <1>2, <1>3 DEF CommentTypes, Places, BlankPoints, StringPoints
<1>12. CommentTypes'
  BY <1>1, <1>2, <1>3 DEF CommentTypes
<1>13. ASSUME Nested, ~Overlap
       PROVE  Nested'
  BY <1>1, <1>2, <1>3, <1>4, <1>13
     DEF Nested, HalfOpen, HalfClosed, CommentTypes, CallTypes, Places, BlankPoints,
         StringPoints, Seen, Left, Starting, NeedsSecond
<1>14. ASSUME Newline, ~SplitNewline
       PROVE  Newline'
  BY <1>1, <1>2, <1>3, <1>4, <1>7, <1>14
     DEF FlagTypes, Newline, CommentTypes, Kind, LinesTogether, InLines, CallTypes,
         Places, BlankPoints, StringPoints, Seen, Left, Starting, NeedsSecond
<1>15. Followed'
  BY <1>1, <1>2, <1>3, <1>4
     DEF Followed, CommentTypes, RecoverPoints, BlankLeft, CallTypes, Places,
         BlankPoints, StringPoints, Seen, Left, Starting, NeedsSecond
<1>16. Moving'
  BY <1>1, <1>2, <1>3, <1>4, <1>7
     DEF FlagTypes, Moving, CommentTypes, NotIdent, Invalid, CallTypes, Places,
         BlankPoints, StringPoints, Seen, Left, Starting, NeedsSecond
<1>17. moved' = TRUE /\ begun' = TRUE
  BY <1>1, <1>2, <1>6, <1>7 DEF Onward, Moving, Fresh, StringPoints, FlagTypes
<1>18. (at' # "idle" /\ stalls' = stalls) \/ (\E result : Return(result))
  BY <1>1, <1>2, <1>3 DEF CommentTypes
<1>19. Fresh' /\ Stalled'
  BY <1>1, <1>17, <1>18, Advanced
<1> QED
  BY <1>6, <1>9, <1>10, <1>11, <1>12, <1>13, <1>14, <1>15, <1>16, <1>19 DEF Core, Keeps

LEMMA EscapeBlankKeeps ==
  ASSUME Core, EscapeBlank
  PROVE  Keeps
<1> USE LexerAssumption
        DEF KeepString, Blank, Newlines, Goto, Return, blankVars, stringVars, scanVars
<1>1. /\ TextTypes /\ CallTypes /\ CommentTypes /\ StringTypes
      /\ Places /\ Followed /\ Moving /\ Fresh /\ Stalled
  BY DEF Core
<1>2. EscapeBlank!1
  BY DEF EscapeBlank
<1>3. PICK a \in View : EscapeBlank!2!(a)
  BY DEF EscapeBlank
<1>4. Seen(a) /\ Left(a) /\ Starting(a)
  BY <1>1, Seeing
<1>5. Touches(a)
  BY <1>2, <1>3, <1>4 DEF Touches, Seen, Starting, LinesTogether, InLines
<1>6. TextTypes' /\ Onward
  BY <1>1, <1>5, TouchTypes
<1>7. FlagTypes /\ FlagTypes'
  BY <1>1, <1>6 DEF TextTypes
<1>8. Controls
  BY <1>1, <1>2, <1>3 DEF CommentTypes, Controls, Points, Tokens, TextTokens
<1>9. CallTypes'
  BY <1>1, <1>2, <1>3, <1>7, <1>8, Controlled DEF CallTypes, Skips
<1>10. StringTypes'
  BY <1>1, <1>2, <1>3 DEF StringTypes, Places, StringPoints, BlankPoints
<1>11. Places'
  BY <1>1, <1>2, <1>3 DEF CommentTypes, Places, BlankPoints, StringPoints
<1>12. CommentTypes'
  BY <1>1, <1>2, <1>3 DEF CommentTypes
<1>13. ASSUME Nested, ~Overlap
       PROVE  Nested'
  BY <1>1, <1>2, <1>3, <1>4, <1>13
     DEF Nested, HalfOpen, HalfClosed, CommentTypes, CallTypes, Places, BlankPoints,
         StringPoints, Seen, Left, Starting, NeedsSecond
<1>14. ASSUME Newline, ~SplitNewline
       PROVE  Newline'
  BY <1>1, <1>2, <1>3, <1>4, <1>7, <1>14
     DEF FlagTypes, Newline, CommentTypes, Kind, LinesTogether, InLines, CallTypes,
         Places, BlankPoints, StringPoints, Seen, Left, Starting, NeedsSecond
<1>15. Followed'
  BY <1>1, <1>2, <1>3, <1>4
     DEF Followed, CommentTypes, RecoverPoints, BlankLeft, CallTypes, Places,
         BlankPoints, StringPoints, Seen, Left, Starting, NeedsSecond
<1>16. Moving'
  BY <1>1, <1>2, <1>3, <1>6 DEF Moving, StringPoints, Onward
<1>17. moved' = TRUE /\ begun' = TRUE
  BY <1>1, <1>2, <1>6, <1>7 DEF Onward, Moving, Fresh, StringPoints, FlagTypes
<1>18. (at' # "idle" /\ stalls' = stalls) \/ (\E result : Return(result))
  BY <1>1, <1>2, <1>3 DEF CommentTypes
<1>19. Fresh' /\ Stalled'
  BY <1>1, <1>17, <1>18, Advanced
<1> QED
  BY <1>6, <1>9, <1>10, <1>11, <1>12, <1>13, <1>14, <1>15, <1>16, <1>19 DEF Core, Keeps

LEMMA UnicodeOpenKeeps ==
  ASSUME Core, UnicodeOpen
  PROVE  Keeps
<1> USE LexerAssumption
        DEF KeepString, Operators, Goto, Return, blankVars, stringVars, scanVars
<1>1. /\ TextTypes /\ CallTypes /\ CommentTypes /\ StringTypes
      /\ Places /\ Followed /\ Moving /\ Fresh /\ Stalled
  BY DEF Core
<1>2. UnicodeOpen!1
  BY DEF UnicodeOpen
<1>3. PICK a \in View : UnicodeOpen!2!(a)
  BY DEF UnicodeOpen
<1>4. Seen(a) /\ Left(a) /\ Starting(a)
  BY <1>1, Seeing
<1>5. Touches(a)
  BY <1>2, <1>3, <1>4 DEF Touches, Seen, Starting, LinesTogether, InLines, Newlines
<1>6. TextTypes' /\ Onward
  BY <1>1, <1>5, TouchTypes
<1>7. FlagTypes /\ FlagTypes'
  BY <1>1, <1>6 DEF TextTypes
<1>8. Controls
  BY <1>1, <1>2, <1>3 DEF CommentTypes, Controls, Points, Tokens, TextTokens
<1>9. CallTypes'
  BY <1>1, <1>2, <1>3, <1>7, <1>8, Controlled DEF CallTypes, Skips
<1>10. StringTypes'
  BY <1>1, <1>2, <1>3 DEF StringTypes, Places, StringPoints, BlankPoints
<1>11. Places'
  BY <1>1, <1>2, <1>3 DEF CommentTypes, Places, BlankPoints, StringPoints
<1>12. CommentTypes'
  BY <1>1, <1>2, <1>3 DEF CommentTypes
<1>13. ASSUME Nested, ~Overlap
       PROVE  Nested'
  BY <1>1, <1>2, <1>3, <1>4, <1>13
     DEF Nested, HalfOpen, HalfClosed, CommentTypes, CallTypes, Places, BlankPoints,
         StringPoints, Seen, Left, Starting, NeedsSecond
<1>14. ASSUME Newline, ~SplitNewline
       PROVE  Newline'
  BY <1>1, <1>2, <1>3, <1>4, <1>7, <1>14
     DEF FlagTypes, Newline, CommentTypes, Kind, Newlines, LinesTogether, InLines,
         CallTypes, Places, BlankPoints, StringPoints, Seen, Left, Starting, NeedsSecond
<1>15. Followed'
  BY <1>1, <1>2, <1>3, <1>4
     DEF Followed, CommentTypes, RecoverPoints, BlankLeft, Newlines, CallTypes, Places,
         BlankPoints, StringPoints, Seen, Left, Starting, NeedsSecond
<1>16. Moving'
  BY <1>1, <1>2, <1>3, <1>4, <1>7
     DEF FlagTypes, Moving, CommentTypes, Newlines, NotIdent, Invalid, CallTypes,
         Places, BlankPoints, StringPoints, Seen, Left, Starting, NeedsSecond
<1>17. moved' = TRUE /\ begun' = TRUE
  BY <1>1, <1>2, <1>6, <1>7 DEF Onward, Moving, Fresh, StringPoints, FlagTypes
<1>18. (at' # "idle" /\ stalls' = stalls) \/ (\E result : Return(result))
  BY <1>1, <1>2, <1>3 DEF CommentTypes
<1>19. Fresh' /\ Stalled'
  BY <1>1, <1>17, <1>18, Advanced
<1> QED
  BY <1>6, <1>9, <1>10, <1>11, <1>12, <1>13, <1>14, <1>15, <1>16, <1>19 DEF Core, Keeps

LEMMA UnicodeDigitsKeeps ==
  ASSUME Core, UnicodeDigits
  PROVE  Keeps
<1> USE LexerAssumption
        DEF KeepString, Operators, Goto, Return, blankVars, stringVars, scanVars
<1>1. /\ TextTypes /\ CallTypes /\ CommentTypes /\ StringTypes
      /\ Places /\ Followed /\ Moving /\ Fresh /\ Stalled
  BY DEF Core
<1>2. UnicodeDigits!1
  BY DEF UnicodeDigits
<1>3. PICK a \in View : UnicodeDigits!2!(a)
  BY DEF UnicodeDigits
<1>4. Seen(a) /\ Left(a) /\ Starting(a)
  BY <1>1, Seeing
<1>5. Touches(a)
  BY <1>2, <1>3, <1>4 DEF Touches, Seen, Starting, LinesTogether, InLines, Newlines
<1>6. TextTypes' /\ Onward
  BY <1>1, <1>5, TouchTypes
<1>7. FlagTypes /\ FlagTypes'
  BY <1>1, <1>6 DEF TextTypes
<1>8. Controls
  BY <1>1, <1>2, <1>3 DEF CommentTypes, Controls, Points, Tokens, TextTokens
<1>9. CallTypes'
  BY <1>1, <1>2, <1>3, <1>7, <1>8, Controlled DEF CallTypes, Skips
<1>10. StringTypes'
  BY <1>1, <1>2, <1>3 DEF StringTypes, Places, StringPoints, BlankPoints
<1>11. Places'
  BY <1>1, <1>2, <1>3 DEF CommentTypes, Places, BlankPoints, StringPoints
<1>12. CommentTypes'
  BY <1>1, <1>2, <1>3 DEF CommentTypes
<1>13. ASSUME Nested, ~Overlap
       PROVE  Nested'
  BY <1>1, <1>2, <1>3, <1>4, <1>13
     DEF Nested, HalfOpen, HalfClosed, CommentTypes, CallTypes, Places, BlankPoints,
         StringPoints, Seen, Left, Starting, NeedsSecond
<1>14. ASSUME Newline, ~SplitNewline
       PROVE  Newline'
  BY <1>1, <1>2, <1>3, <1>4, <1>7, <1>14
     DEF FlagTypes, Newline, CommentTypes, Kind, Newlines, LinesTogether, InLines,
         CallTypes, Places, BlankPoints, StringPoints, Seen, Left, Starting, NeedsSecond
<1>15. Followed'
  BY <1>1, <1>2, <1>3, <1>4
     DEF Followed, CommentTypes, RecoverPoints, BlankLeft, Newlines, CallTypes, Places,
         BlankPoints, StringPoints, Seen, Left, Starting, NeedsSecond
<1>16. Moving'
  BY <1>1, <1>2, <1>3, <1>4, <1>7
     DEF FlagTypes, Moving, CommentTypes, Newlines, NotIdent, Invalid, CallTypes,
         Places, BlankPoints, StringPoints, Seen, Left, Starting, NeedsSecond
<1>17. moved' = TRUE /\ begun' = TRUE
  BY <1>1, <1>2, <1>6, <1>7 DEF Onward, Moving, Fresh, StringPoints, FlagTypes
<1>18. (at' # "idle" /\ stalls' = stalls) \/ (\E result : Return(result))
  BY <1>1, <1>2, <1>3 DEF CommentTypes
<1>19. Fresh' /\ Stalled'
  BY <1>1, <1>17, <1>18, Advanced
<1> QED
  BY <1>6, <1>9, <1>10, <1>11, <1>12, <1>13, <1>14, <1>15, <1>16, <1>19 DEF Core, Keeps

-----------------------------------------------------------------------------
(* The steps that do not look at the text.                                 *)

LEMMA CallKeeps ==
  ASSUME Core, Call
  PROVE  Keeps
<1> USE DEF Goto, scanVars, stringVars
<1>1. /\ TextTypes /\ CallTypes /\ CommentTypes /\ StringTypes
      /\ Places /\ Followed /\ Moving /\ Fresh /\ Stalled
  BY DEF Core
<1>2. /\ at = "idle" /\ nextSkip # "IrrecoverableError"
      /\ skip' \in BOOLEAN /\ moved' = FALSE
      /\ outer' = IF nextSkip = "Lines" THEN "lines" ELSE "spaces"
      /\ UNCHANGED <<ahead, begun, last, nest, half, joined, depth, hashes, left, multi>>
      /\ UNCHANGED <<keyword, nextSkip, out, stalls>>
  BY DEF Call
<1>3. /\ nextSkip \in Skips
      /\ nextSkip = "None" => at' = "token"
      /\ nextSkip = "Spaces" => at' = "spaces"
      /\ nextSkip = "Lines" => at' = "lines"
      /\ nextSkip = "RecoverLineComment" => at' = "recoverLine"
      /\ nextSkip = "RecoverBlockComment" => at' = "recoverBlock"
      /\ nextSkip = "RecoverString" => at' = "recoverString"
  BY <1>1 DEF Call, CallTypes
<1>4. \/ nextSkip = "None" /\ at' = "token"
      \/ nextSkip = "Spaces" /\ at' = "spaces"
      \/ nextSkip = "Lines" /\ at' = "lines"
      \/ nextSkip = "RecoverLineComment" /\ at' = "recoverLine"
      \/ nextSkip = "RecoverBlockComment" /\ at' = "recoverBlock"
      \/ nextSkip = "RecoverString" /\ at' = "recoverString"
  BY <1>2, <1>3 DEF Skips
<1>5. TextTypes'
  BY <1>1, <1>2 DEF TextTypes, FlagTypes, Apart, Text
<1>6. CallTypes'
  BY <1>1, <1>2, <1>4 DEF CallTypes, ControlTypes, Points, Skips
<1>7. CommentTypes' /\ StringTypes'
  BY <1>1, <1>2 DEF CommentTypes, StringTypes
<1>8. Places'
  BY <1>2, <1>4 DEF Places, BlankPoints, StringPoints
<1>9. First(ahead') = First(ahead) /\ Second(ahead') = Second(ahead)
  BY <1>2
<1>10. ASSUME Nested
       PROVE  Nested'
  BY <1>2, <1>4, <1>9, <1>10 DEF Nested, HalfOpen, HalfClosed
<1>11. ASSUME Newline
       PROVE  Newline'
  BY <1>2, <1>4, <1>9, <1>11 DEF Newline
<1>12. Followed'
  BY <1>1, <1>2, <1>4, <1>9 DEF Followed, RecoverPoints
<1>13. Moving'
  BY <1>2, <1>4 DEF Moving, StringPoints
<1>14. BlankLeft => BlankLeft'
  BY <1>2, <1>4, <1>9 DEF BlankLeft
<1>15. Fresh'
  BY <1>1, <1>2, <1>14 DEF Fresh, TextTypes, FlagTypes
<1>16. Stalled'
  BY <1>1, <1>2, <1>14 DEF Stalled
<1> QED
  BY <1>5, <1>6, <1>7, <1>8, <1>10, <1>11, <1>12, <1>13, <1>15, <1>16 DEF Core, Keeps

LEMMA CallFailedKeeps ==
  ASSUME Core, CallFailed
  PROVE  Keeps
<1> USE DEF scanVars, stringVars, blankVars
<1>1. /\ TextTypes /\ CallTypes /\ CommentTypes /\ StringTypes
      /\ Places /\ Followed /\ Moving /\ Fresh /\ Stalled
  BY DEF Core
<1>2. /\ at = "idle" /\ nextSkip = "IrrecoverableError"
      /\ skip' \in BOOLEAN /\ moved' = FALSE /\ at' = "idle" /\ out' = "Eof" /\ stalls' = 0
      /\ UNCHANGED <<ahead, begun, last, nest, half, outer, joined, depth, hashes, left>>
      /\ UNCHANGED <<multi, keyword, nextSkip>>
  BY DEF CallFailed, Return
<1>3. TextTypes'
  BY <1>1, <1>2 DEF TextTypes, FlagTypes, Apart, Text
<1>4. CallTypes'
  BY <1>1, <1>2 DEF CallTypes, ControlTypes, Points, Tokens
<1>5. CommentTypes' /\ StringTypes'
  BY <1>1, <1>2 DEF CommentTypes, StringTypes
<1>6. Places'
  BY <1>2 DEF Places, BlankPoints, StringPoints
<1>7. ASSUME Nested
      PROVE  Nested'
  BY <1>2, <1>7 DEF Nested
<1>8. ASSUME Newline
      PROVE  Newline'
  <2>1. First(ahead') = First(ahead)
    BY <1>2
  <2> QED
    BY <1>2, <1>8, <2>1 DEF Newline
<1>9. Followed' /\ Moving' /\ Fresh' /\ Stalled'
  BY <1>2 DEF Followed, Moving, Fresh, Stalled, StringPoints
<1> QED
  BY <1>3, <1>4, <1>5, <1>6, <1>7, <1>8, <1>9 DEF Core, Keeps

\* No text is passed, and the call returns what is neither blank nor the end.
LEMMA Unread ==
  ASSUME Core, UNCHANGED <<ahead, begun, moved, last, skip>>, at' = "idle",
         NEW result \in TextTokens \union {"Err"}, Return(result),
         nextSkip # "IrrecoverableError", ~BlankLeft,
         nextSkip' = "IrrecoverableError"
           \/ (nextSkip' = "None" /\ moved /\ (Newline => last # "cr")),
         depth' = 0 \/ UNCHANGED depth, Nested => nest' = 0, half' \in {"/", "*", "no"},
         outer' \in {"spaces", "lines"}, joined' \in BOOLEAN, keyword' \in BOOLEAN,
         NoString
  PROVE  Keeps
<1>1. /\ TextTypes /\ CallTypes /\ CommentTypes /\ Places /\ Fresh /\ Stalled
  BY DEF Core
<1>2. TextTypes'
  BY <1>1 DEF TextTypes, FlagTypes, Apart, Text
<1>3. ControlTypes'
  BY <1>1, <1>2
     DEF CallTypes, ControlTypes, TextTypes, FlagTypes, Return, Points, Tokens
<1>4. CallTypes'
  BY <1>1, <1>3 DEF CallTypes, Skips
<1>5. CommentTypes'
  BY <1>1, LexerAssumption DEF CommentTypes
<1>6. StringTypes'
  BY NoStringTypes
<1>7. Places'
  BY DEF Places, BlankPoints, StringPoints
<1>8. Nested => Nested'
  BY DEF Nested
<1>9. Newline => Newline'
  BY <1>1 DEF Newline
<1>10. out' \notin {"Spaces", "Lines", "Eof", "Start"}
  BY DEF Return, TextTokens
<1>11. Followed' /\ Moving'
  BY <1>10 DEF Followed, Moving, StringPoints
<1>12. Fresh'
  BY <1>1 DEF Fresh, TextTypes, FlagTypes
<1>13. stalls \in 0..1 /\ (stalls = 1 => moved)
  BY <1>1 DEF Stalled
<1>14. stalls' \in 0..1 /\ (stalls' = 1 => ~moved' \/ stalls = 1)
  BY <1>13 DEF Return
<1>15. nextSkip' # "IrrecoverableError" => stalls' = 0
  BY DEF Return
<1>16. Stalled'
  BY <1>14, <1>15 DEF Stalled
<1> QED
  BY <1>2, <1>4, <1>5, <1>6, <1>7, <1>8, <1>9, <1>11, <1>12, <1>16 DEF Core, Keeps

\* No more is looked at where enough is seen.
LEMMA EnoughView ==
  ASSUME Enough(ahead)
  PROVE  View = {ahead}
<1>1. More(ahead) = {ahead}
  BY DEF More
<1> QED
  BY <1>1 DEF View

LEMMA BlankLeftView ==
  ASSUME BlankLeft, at # "idle"
  PROVE  View = {ahead}
<1>1. ahead # <<>>
  BY DEF BlankLeft, First
<1>2. CASE First(ahead) = "\\"
  <2>1. ~NeedsSecond(ahead) /\ ~NeedsThird(ahead)
    BY <1>1, <1>2 DEF BlankLeft, NeedsSecond, NeedsThird, InLines, First, Signs
  <2> QED
    BY <1>1, <2>1, EnoughView DEF Enough, Need
<1>3. CASE First(ahead) = "/"
  <2>1. Len(ahead) > 1 /\ ~NeedsThird(ahead)
    BY <1>3 DEF BlankLeft, NeedsThird, InLines, Second
  <2> QED
    BY <1>1, <2>1, EnoughView DEF Enough, Need
<1> QED
  BY <1>2, <1>3 DEF BlankLeft

LEMMA IoErrorKeeps ==
  ASSUME Core, IoError
  PROVE  Keeps
<1>1. nextSkip # "IrrecoverableError" /\ ~BlankLeft
  BY BlankLeftView DEF Core, Places, IoError
<1> QED
  BY <1>1, Unread DEF IoError, Stay, Return, Drop, NoComment

LEMMA StringEndKeeps ==
  ASSUME Core, StringEnd
  PROVE  Keeps
<1>1. /\ at = "closing" /\ UNCHANGED <<ahead, begun, moved, last, skip>>
      /\ UNCHANGED <<outer, joined, depth, nest, half, keyword>>
      /\ nextSkip' = "None" /\ NoString
  BY DEF StringEnd, Stay, KeepString, blankVars, scanVars
<1>0. ~BlankLeft
  BY <1>1 DEF BlankLeft
<1>2. PICK result \in TextTokens \union {"Err"} : Return(result)
  BY DEF StringEnd, ReturnText, TextTokens
<1>3. moved /\ nextSkip = "RecoverString" /\ (Newline => last # "cr")
  BY <1>1 DEF Core, Moving, Newline, Places, StringPoints
<1>4. at' = "idle"
  BY <1>2 DEF Return
<1>5. Nested => nest' = 0
  BY <1>1, <1>3 DEF Nested
<1>6. CommentTypes /\ keyword \in BOOLEAN
  BY DEF Core, CallTypes
<1> QED
  BY <1>0, <1>1, <1>2, <1>3, <1>4, <1>5, <1>6, Unread DEF CommentTypes

LEMMA InitInv ==
  ASSUME Init
  PROVE  Core /\ Nested /\ Newline
<1> USE LexerAssumption DEF Init
<1>1. ahead = <<>> /\ ahead \in Seq(Chars \union {"eof"}) /\ Len(ahead) = 0
  OBVIOUS
<1>2. TextTypes
  <2>1. Len(ahead) <= 3 /\ Apart(ahead)
    BY <1>1 DEF Apart
  <2>2. FlagTypes
    BY DEF FlagTypes
  <2> QED
    BY <1>1, <2>1, <2>2 DEF TextTypes, Text
<1>3. CallTypes
  BY DEF CallTypes, ControlTypes, Points, Skips
<1>4. CommentTypes /\ StringTypes
  <2>1. 0 \in 0..MaxNest /\ 0 \in 0..MaxHashes /\ 0 \in 0..(MaxHashes + 2)
    BY LexerAssumption
  <2>2. CommentTypes
    BY <2>1 DEF CommentTypes
  <2>3. multi \in BOOLEAN /\ ~multi
    OBVIOUS
  <2>4. ~(hashes > 0)
    OBVIOUS
  <2> QED
    BY <2>1, <2>2, <2>3, <2>4 DEF StringTypes
<1>5. Places /\ Nested /\ Newline /\ Followed /\ Moving /\ Fresh /\ Stalled
  BY DEF Places, Nested, Newline, Followed, Moving, Fresh, Stalled, BlankPoints,
         StringPoints
<1> QED
  BY <1>2, <1>3, <1>4, <1>5 DEF Core

LEMMA NextInv ==
  ASSUME Core, [Next]_vars
  PROVE  Keeps
<1>1. CASE UNCHANGED vars
  <2> USE <1>1 DEF vars, textVars, scanVars, callVars, blankVars, stringVars
  <2>1. TextTypes'
    BY DEF Core, TextTypes, FlagTypes, Apart
  <2>2. CallTypes'
    BY DEF Core, CallTypes, ControlTypes
  <2>3. CommentTypes' /\ StringTypes'
    BY DEF Core, CommentTypes, StringTypes
  <2>4. Places'
    BY DEF Core, Places
  <2>5. (Nested => Nested') /\ (Newline => Newline')
    BY DEF Nested, Newline, HalfOpen, HalfClosed
  <2>6. Followed' /\ Moving' /\ Fresh' /\ Stalled'
    BY DEF Core, Followed, Moving, Fresh, Stalled, BlankLeft
  <2> QED
    BY <2>1, <2>2, <2>3, <2>4, <2>5, <2>6 DEF Core, Keeps
<1>2. CASE Next
  BY <1>2, CallKeeps, CallFailedKeeps, IoErrorKeeps, SpacesKeeps, LinesKeeps, EsclineKeeps,
     BlockCommentKeeps, LineCommentKeeps, RecoverLineCommentKeeps, RecoverBlockCommentKeeps,
     RecoverStringKeeps, TokenKeeps, PreviewKeeps, IdentKeeps, NumberLoopKeeps, HashesKeeps,
     MultilineOpeningKeeps, StringKeeps, IndentKeeps, StringEndKeeps, ClosingKeeps, EscapeKeeps,
     EscapeBlankKeeps, UnicodeOpenKeeps, UnicodeDigitsKeeps DEF Next
<1> QED
  BY <1>1, <1>2

-----------------------------------------------------------------------------

\* What is needed of every text holds in every state, for comments of any depth
\* and any number of hashes.
THEOREM CoreInvariance == Spec => []Core
<1>1. Init => Core
  BY InitInv
<1>2. Core /\ [Next]_vars => Core'
  BY NextInv DEF Keeps
<1> QED
  BY <1>1, <1>2, PTL DEF Spec

\* The depth of a comment is that of the text.
THEOREM NestedInvariance ==
  ASSUME ~Overlap
  PROVE  Spec => []Nested
<1>1. Init => Nested
  BY InitInv
<1>2. Core /\ Nested /\ [Next]_vars => Nested'
  BY NextInv DEF Keeps
<1> QED
  BY <1>1, <1>2, CoreInvariance, PTL DEF Spec

\* A CR and the LF behind it are passed together, or the LF as blank text.
THEOREM NewlineInvariance ==
  ASSUME ~SplitNewline
  PROVE  Spec => []Newline
<1>1. Init => Newline
  BY InitInv
<1>2. Core /\ Newline /\ [Next]_vars => Newline'
  BY NextInv DEF Keeps
<1> QED
  BY <1>1, <1>2, CoreInvariance, PTL DEF Spec

\* The lexer's locals have their types, and what next_skip promises is there:
\* for every text in which no refused comment holds "/*/" or "*/*".
THEOREM TypeCorrect ==
  ASSUME ~Overlap
  PROVE  Spec => []TypeOK
<1>1. Core /\ Nested => TypeOK
  <2>1. ASSUME Nested, CommentTypes
        PROVE  nest \in Nat
    BY <2>1, LexerAssumption DEF Nested, CommentTypes
  <2> QED
    BY <2>1 DEF Core, TypeOK, TextTypes, FlagTypes, CallTypes, ControlTypes, CommentTypes,
                StringTypes, Text
<1> QED
  BY <1>1, CoreInvariance, NestedInvariance, PTL

\* Of two calls in a row one passes some of the text or gives its end, whatever
\* the text.
THEOREM ProgressMade == Spec => []Progresses
<1>1. Core => Progresses
  BY DEF Core, Stalled, Progresses
<1> QED
  BY <1>1, CoreInvariance, PTL

\* The lexer is in a comment, or about to recover from one, exactly when the
\* text is: for every text in which no refused comment holds "/*/" or "*/*".
THEOREM CommentsAreMatched ==
  ASSUME ~Overlap
  PROVE  Spec => []CommentsMatch
<1>1. Core /\ Nested => CommentsMatch
  BY LexerAssumption DEF Core, CommentTypes, Places, Nested, CommentsMatch
<1> QED
  BY <1>1, CoreInvariance, NestedInvariance, PTL

\* What every action but Token returns, if it returns.
TextResults == IF skip' THEN {"SkippedString", "SkippedNumber"} ELSE {"String", "Number"}

Plain ==
  at \notin {"idle", "token"} /\ (at' = "idle" => out' \in TextResults \union {"Err"})

LEMMA StepPlain ==
  ASSUME Core, Next, ~Call, ~CallFailed, ~IoError, ~Token
  PROVE  Plain
<1> USE DEF Plain, TextResults, Goto, Return, ReturnText, ToToken, KeepCall, KeepLocals,
            KeepIdent, KeepString
<1>0. outer # "idle"
  BY DEF Core, CommentTypes
<1>1. CASE Spaces
  BY <1>1 DEF Spaces, OpenBlock
<1>2. CASE Lines
  BY <1>2 DEF Lines, OpenBlock, OpenLine
<1>3. CASE Escline
  BY <1>0, <1>3 DEF Escline, OpenBlock, OpenLine, BadEscline, ContinuationNewline
<1>4. CASE BlockComment
  BY <1>0, <1>4 DEF BlockComment, BlockRefused, BlockOpen, BlockClose
<1>5. CASE LineComment
  BY <1>0, <1>5 DEF LineComment, LineRefused, LineEnd
<1>6. CASE RecoverLineComment \/ RecoverBlockComment \/ RecoverString
  BY <1>6 DEF RecoverLineComment, RecoverBlockComment, RecoverString
<1>7. CASE Preview
  BY <1>7 DEF Preview
<1>8. CASE Ident
  BY <1>8 DEF Ident, IdentEnd
<1>9. CASE NumberLoop
  BY <1>9 DEF NumberLoop
<1>10. CASE Hashes
  BY <1>10 DEF Hashes, OpenString
<1>11. CASE MultilineOpening \/ String \/ Indent
  BY <1>11 DEF MultilineOpening, String, Indent, GoOnLine
<1>12. CASE StringEnd \/ Closing
  BY <1>12 DEF StringEnd, Closing
<1>13. CASE Escape \/ EscapeBlank
  BY <1>13 DEF Escape, EscapeBlank
<1>14. CASE UnicodeOpen \/ UnicodeDigits
  BY <1>14 DEF UnicodeOpen, UnicodeDigits
<1> QED
  BY <1>1, <1>2, <1>3, <1>4, <1>5, <1>6, <1>7, <1>8, <1>9, <1>10, <1>11, <1>12, <1>13,
     <1>14 DEF Next

\* At the end of the text nothing more is read.
LEMMA EndView ==
  ASSUME Core, First(ahead) = "eof"
  PROVE  View = {ahead}
<1>1. ahead \in Text /\ ahead # <<>> /\ ahead[1] = "eof" /\ Len(ahead) \in Nat /\ Apart(ahead)
  BY LenProperties DEF Core, TextTypes, Text, First
<1>2. Len(ahead) >= 1
  BY <1>1, EmptySeq DEF Text
<1>3. Len(ahead) = 1
  <2>1. 1 \in 1..Len(ahead)
    BY <1>1, <1>2
  <2> QED
    BY <1>1, <2>1 DEF Apart
<1> QED
  BY <1>1, <1>3, EnoughView DEF Enough, Ends

\* A token that may not follow the last one is not returned.
LEMMA StepPromised ==
  ASSUME Core, [Next]_vars
  PROVE  [at' = "idle" => Promise(out, out')]_vars
<1>1. CASE UNCHANGED vars
  BY <1>1
<1>2. CASE Call
  BY <1>2, CallKeeps DEF Call, Goto, Core, CallTypes, Skips
<1>3. CASE CallFailed
  BY <1>3 DEF CallFailed, Return, Promise
<1>4. CASE IoError
  <2>1. out # "Eof"
    BY <1>4, EndView DEF Core, Followed, IoError
  <2> QED
    BY <1>4, <2>1 DEF IoError, Return, Promise
<1>5. CASE Token
  <2>1. PICK a \in View : Token!2!(a)
    BY <1>5 DEF Token
  <2>2. Seen(a) /\ Left(a) /\ Starting(a)
    BY Seeing DEF Core
  <2>3. at = "token" /\ nextSkip = "None" /\ skip' = skip
    BY <1>5 DEF Token, Core, Places
  <2>4. CASE BlankToken(a)
    <3>1. out' \in {"Spaces", "Lines"}
      BY <2>4 DEF BlankToken, BeginSkip, Return
    <3>2. out # "Eof"
      BY <2>2, <2>3, <2>4 DEF Core, Followed, Seen, Starting, BlankToken, Newlines
    <3>3. out = "Lines" => out' # "Lines"
      BY <2>2, <2>3, <2>4
         DEF Core, Followed, Seen, Starting, BlankToken, BeginSkip, Return, Newlines
    <3>4. out \in {"Spaces", "Lines"} => out' # "Spaces"
      BY <2>2, <2>3, <2>4
         DEF Core, Followed, Seen, Starting, BlankToken, BeginSkip, Return, Newlines
    <3> QED
      BY <3>1, <3>2, <3>3, <3>4 DEF Promise
  <2>5. CASE ShortToken(a)
    <3>1. out = "Eof" => a[1] = "eof"
      BY <2>2, <2>3 DEF Core, Followed, Seen
    <3>2. out = "Eof" => out' = "Eof"
      BY <2>2, <2>5, <3>1 DEF ShortToken, Return, Operators, Starting
    <3>3. out' = "Bom" => ~begun /\ a[1] = "bom"
      BY <2>5 DEF ShortToken, Whole, Return
    <3>4. out' = "Bom" => out = "Start"
      BY <2>3, <3>1, <3>3 DEF Core, Fresh, BlankLeft
    <3>5. out' \in {"Eof", "Bom", "Err", "Operator", "SlashDash"}
      BY <2>5 DEF ShortToken, Whole, Return
    <3> QED
      BY <3>2, <3>4, <3>5 DEF Promise
  <2>6. CASE KeywordToken(a)
    <3>1. out # "Eof"
      BY <2>2, <2>3, <2>6 DEF Core, Followed, Seen, Starting, KeywordToken, KeywordLen
    <3>2. out' \in {"Keyword", "Err"} \union TextResults
      BY <2>3, <2>6 DEF KeywordToken, Return, ReturnText, TextResults
    <3> QED
      BY <3>1, <3>2 DEF Promise, TextResults
  <2>7. CASE at' \in {"hashes", "preview"}
    BY <2>7
  <2> QED
    BY <2>1, <2>4, <2>5, <2>6, <2>7 DEF Goto
<1>6. CASE Next /\ ~Call /\ ~CallFailed /\ ~IoError /\ ~Token
  <2>1. Plain
    BY <1>6, StepPlain
  <2>2. out # "Eof"
    BY <2>1 DEF Core, Followed, Plain
  <2> QED
    BY <2>1, <2>2 DEF Promise, Plain, TextResults
<1> QED
  BY <1>1, <1>2, <1>3, <1>4, <1>5, <1>6

\* What the lexer returns is always what Reader!Lexable allows behind what it
\* returned before, whatever the text and whichever calls skip.
THEOREM PromiseKept == Spec => Promised
  BY StepPromised, CoreInvariance, PTL DEF Spec, Promised

LEMMA StepWhole ==
  ASSUME Core, Newline, [Next]_vars, ~SplitNewline
  PROVE  [out' = "Lines" /\ at = "token" /\ last \in {"cr", "alone"} => last' # "lf"]_vars
<1>1. CASE UNCHANGED vars
  BY <1>1
<1>2. CASE Next /\ ~Token
  <2>1. at = "token" => out' = "Err"
    BY <1>2, StepPlain DEF Plain, Call, CallFailed, IoError, Return
  <2> QED
    BY <2>1
<1>3. CASE Token
  <2>1. PICK a \in View : Token!2!(a)
    BY <1>3 DEF Token
  <2>2. Seen(a) /\ Left(a) /\ nextSkip = "None" /\ at = "token"
    BY <1>3, Seeing DEF Token, Core, Places
  <2>3. SUFFICES ASSUME out' = "Lines", last \in {"cr", "alone"}
                 PROVE  last' # "lf"
    OBVIOUS
  <2>4. a[1] # "lf"
    BY <2>2, <2>3 DEF Seen, Newline
  <2>5. Stay(a) \/ (Pass(a, 1) /\ a[1] \in Newlines)
    BY <2>1, <2>3
       DEF BlankToken, ShortToken, KeywordToken, BeginSkip, Whole, Return, ReturnText
  <2> QED
    BY <2>2, <2>3, <2>4, <2>5 DEF Left, Kind, Newlines
<1> QED
  BY <1>1, <1>2, <1>3

\* No newline is counted twice: for every text in which a CR LF ends neither a
\* continuation nor a refused comment.
THEOREM NewlinesAreWhole ==
  ASSUME ~SplitNewline
  PROVE  Spec => WholeNewlines
<1>1. Core /\ Newline /\ [Next]_vars =>
        [out' = "Lines" /\ at = "token" /\ last \in {"cr", "alone"} => last' # "lf"]_vars
  BY StepWhole
<1> QED
  BY <1>1, CoreInvariance, NewlineInvariance, PTL DEF Spec, WholeNewlines

=============================================================================

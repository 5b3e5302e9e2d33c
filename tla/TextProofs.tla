----------------------------- MODULE TextProofs -----------------------------
(***************************************************************************)
(* How the texts of just-kdl are put together.                             *)
(*                                                                         *)
(* A multi-line string is skipped if and only if it can be read, for lines *)
(* indented by any number of spaces, if the first byte of a space tells it *)
(* from all other characters, and unless reading panics.  The argument is  *)
(* Common: the closing quotes' indentation begins those of all lines just  *)
(* when it begins the longest common one.                                  *)
(*                                                                         *)
(* A SmolStrBuilder2 of any size holds the string that was asked for.  The *)
(* argument is BuilderInv, and what the encoding of a string is: Encoding  *)
(* is defined by recursion over the string, and its laws are proved by     *)
(* induction, with sets in place of predicates (NatInductionSet).          *)
(*                                                                         *)
(* NumberBuilder accepts the numbers of KDL, of any length.  The argument  *)
(* is Shape, which says for every state what has been read in it: a step   *)
(* goes from shape to shape (ShapeGrows), there is no other way into a     *)
(* shape (ShapeShrinks), no text has two (ShapeTells), and those of the    *)
(* final states are the numbers (FormFinal).                               *)
(*                                                                         *)
(* What it keeps of a number is the number, and an integer becomes the     *)
(* float it says.  The argument is Kept, which says for every state how    *)
(* the text follows from what has been read (KeptGrows); a text put        *)
(* together of the parts of a number means that number (PartsMeaning,      *)
(* BasedMeaning), and the parts that are kept are such parts again         *)
(* (LeadAgain, FractionAgain, PowerAgain).  A zero in front of a number is *)
(* not kept, and has no worth (LeadNoZeros, NoZerosValue).                 *)
(***************************************************************************)
EXTENDS Multiline, Ssb2, Number, TLAPS, SequenceTheorems, FiniteSetTheorems


-----------------------------------------------------------------------------
(* Sequences of spaces.                                                    *)

LEMMA Beginning ==
  ASSUME NEW s \in Seq(Spaces), NEW n \in 0..Len(s)
  PROVE  /\ SubSeq(s, 1, n) \in Seq(Spaces)
         /\ Len(SubSeq(s, 1, n)) = n
         /\ \A i \in 1..n : SubSeq(s, 1, n)[i] = s[i]
OBVIOUS

LEMMA OneMore ==
  ASSUME NEW s \in Seq(Spaces), NEW space \in Spaces
  PROVE  /\ Append(s, space) \in Seq(Spaces)
         /\ Len(Append(s, space)) = Len(s) + 1
         /\ \A i \in 1..Len(s) : Append(s, space)[i] = s[i]
         /\ Append(s, space)[Len(s) + 1] = space
OBVIOUS

\* Two sequences of spaces are equal if they have the same elements.
LEMMA SameSpaces ==
  ASSUME NEW s \in Seq(Spaces), NEW t \in Seq(Spaces), Len(s) = Len(t),
         \A i \in 1..Len(s) : s[i] = t[i]
  PROVE  s = t
OBVIOUS

-----------------------------------------------------------------------------
(* Initially, and with every item of the text, IInv holds.                 *)

\* If their first bytes tell the spaces from all other characters, the match of
\* an indentation never breaks inside a character.
LEMMA NeverInside ==
  ASSUME DistinctLeads, TypeOK, NEW char \in Alphabet
  PROVE  ~BreaksInside(char)
<1>1. at = "match" => indent[matched + 1] \in Spaces
  BY DEF TypeOK
<1> QED  BY <1>1 DEF DistinctLeads, BreaksInside

LEMMA InitInv ==
  ASSUME Init
  PROVE  IInv
<1>1. TypeOK
  <2>1. line \in Seq(Spaces) /\ indent \in Seq(Spaces) /\ Len(indent) = 0
    BY DEF Init
  <2>2. /\ body = FALSE /\ lines = {} /\ regular = "none" /\ skip = "none"
        /\ truncate = 0 /\ matched = 0 /\ leading = FALSE /\ hasBody = FALSE
        /\ at = "first"
    BY DEF Init
  <2>3. body \in BOOLEAN /\ leading \in BOOLEAN /\ hasBody \in BOOLEAN
    BY <2>2
  <2>4. truncate \in 0..Len(indent) /\ matched \in 0..Len(indent)
    BY <2>1, <2>2
  <2>5. lines \subseteq Seq(Spaces) /\ at # "match"
    BY <2>2
  <2>6. regular \in Results /\ skip \in Results /\ at \in {"first", "match", "start", "text"}
    BY <2>2 DEF Results
  <2> QED  BY <2>1, <2>3, <2>4, <2>5, <2>6, Zenon DEF TypeOK
<1>2. Common /\ Place
  BY DEF Init, Common, Place
<1> QED  BY <1>1, <1>2 DEF IInv, Init, SkipAgrees, Reading

\* A space behind some text changes nothing that matters.
LEMMA SpaceInTextInv ==
  ASSUME IInv, Reading, body, NEW space \in Spaces,
         RegularSpace(space), SkipSpace(space)
  PROVE  IInv'
<1>1. at = "text" /\ UNCHANGED vars
  BY DEF IInv, Place, RegularSpace, SkipSpace, vars, regularVars, skipVars
<1> QED  BY <1>1 DEF IInv, TypeOK, Common, Place, Match, SkipAgrees, Reading,
               vars, regularVars, skipVars

LEMMA SpaceInv ==
  ASSUME IInv, Reading, ~body, NEW space \in Spaces,
         RegularSpace(space), SkipSpace(space)
  PROVE  IInv'
<1> DEFINE longer == Append(line, space)
<1>1. /\ line' = longer /\ UNCHANGED <<body, lines, regular, hasBody, skip>>
  BY DEF RegularSpace, SkipSpace
<1>2. line \in Seq(Spaces) /\ indent \in Seq(Spaces)
  BY DEF IInv, TypeOK
<1>3. /\ longer \in Seq(Spaces) /\ Len(longer) = Len(line) + 1
      /\ \A i \in 1..Len(line) : longer[i] = line[i]
      /\ longer[Len(line) + 1] = space
  BY <1>2, OneMore
<1> HIDE DEF longer
<1>4. hasBody = body /\ skip = "none" /\ regular = "none"
  BY DEF IInv, Place, Reading
<1>5. CASE at = "first" /\ at' = "first"
  <2>1. /\ line = indent /\ lines = {} /\ ~leading
        /\ indent' = longer /\ truncate' = Len(longer) /\ UNCHANGED <<matched, leading>>
    BY <1>5 DEF IInv, Place, SkipSpace, longer
  <2>2. TypeOK'
    BY <1>1, <1>2, <1>3, <1>5, <2>1 DEF IInv, TypeOK
  <2>3. Common' /\ Place'
    BY <1>1, <1>4, <1>5, <2>1 DEF Common, Place, IInv
  <2> QED  BY <2>2, <2>3, <1>1, <1>4 DEF IInv, SkipAgrees, Reading
<1>6. CASE at = "match" /\ indent[matched + 1] = space
  <2>1. /\ matched' = matched + 1 /\ UNCHANGED <<indent, truncate, leading>>
        /\ at' = IF matched' = Len(indent) THEN "start" ELSE "match"
    BY <1>6 DEF SkipSpace
  <2>2. /\ Len(line) = matched /\ matched \in Nat /\ matched < Len(indent) /\ ~leading
        /\ truncate = Len(indent) /\ lines # {}
        /\ \A i \in 1..matched : line[i] = indent[i]
    BY <1>6 DEF IInv, Place, TypeOK
  <2>3. Len(longer) = matched' /\ \A i \in 1..matched' : longer[i] = indent[i]
    BY <1>3, <1>6, <2>1, <2>2
  <2>4. at' = "start" => longer = indent
    BY <1>2, <1>3, <2>1, <2>3, SameSpaces
  <2>5. TypeOK'
    BY <1>1, <1>2, <1>3, <2>1, <2>2 DEF IInv, TypeOK
  <2>6. Common'
    BY <1>1, <2>1 DEF IInv, Common, StartsWith
  <2>7. Place'
    BY <1>1, <1>4, <2>1, <2>2, <2>3, <2>4 DEF Place, IInv
  <2> QED  BY <2>5, <2>6, <2>7, <1>1, <1>4 DEF IInv, SkipAgrees, Reading
<1>7. CASE (at = "start" \/ (at = "match" /\ indent[matched + 1] # space)) /\ at' = "text"
  <2>1. /\ leading' = TRUE /\ UNCHANGED <<indent, matched>>
        /\ truncate' = IF at = "match" THEN matched ELSE truncate
    BY <1>7 DEF SkipSpace, Unmatched
  <2>2. /\ truncate' = Len(line) /\ truncate' \in 0..Len(indent)
        /\ \A i \in 1..truncate' : line[i] = indent[i]
        /\ truncate' < Len(indent) => indent[truncate' + 1] # space
    BY <1>2, <1>7, <2>1 DEF IInv, Place, TypeOK
  <2>3. TypeOK'
    BY <1>1, <1>2, <1>3, <1>7, <2>1, <2>2 DEF IInv, TypeOK
  <2>4. Common'
    BY <1>1, <2>1 DEF IInv, Common, StartsWith
  <2>5. Match'
    BY <1>1, <1>2, <1>3, <2>1, <2>2 DEF Match
  <2>6. lines # {}
    BY <1>7 DEF IInv, Place
  <2>7. Place'
    BY <1>1, <1>4, <1>7, <2>1, <2>5, <2>6 DEF Place
  <2> QED  BY <2>3, <2>4, <2>7, <1>1, <1>4 DEF IInv, SkipAgrees, Reading
<1>8. CASE at = "text" /\ UNCHANGED <<indent, truncate, matched, leading, at>>
  <2>1. Match /\ leading /\ lines # {}
    BY <1>8 DEF IInv, Place
  <2>2. Match'
    <3>1. truncate \in 0..Len(line) /\ truncate < Len(line) /\ Len(line) \in Nat
      BY <1>2, <2>1 DEF Match, IInv, TypeOK
    <3>2. leading' /\ truncate' < Len(line') /\ truncate' <= Len(line')
      BY <1>1, <1>3, <1>8, <2>1, <3>1
    <3>3. \A i \in 1..truncate' : line'[i] = indent'[i]
      <4>1. \A i \in 1..truncate : line[i] = indent[i]
        BY <2>1 DEF Match
      <4> QED  BY <1>1, <1>3, <1>8, <3>1, <4>1
    <3>4. longer[truncate + 1] = line[truncate + 1]
      BY <1>3, <3>1
    <3>5. truncate' < Len(indent') => line'[truncate' + 1] # indent'[truncate' + 1]
      <4>1. truncate < Len(indent) => line[truncate + 1] # indent[truncate + 1]
        BY <2>1, <3>1 DEF Match
      <4> QED  BY <1>1, <1>8, <3>4, <4>1
    <3> QED  BY <3>2, <3>3, <3>5 DEF Match
  <2>3. TypeOK'
    BY <1>1, <1>3, <1>8 DEF IInv, TypeOK
  <2>4. Common'
    BY <1>1, <1>8 DEF IInv, Common, StartsWith
  <2>5. Place'
    BY <1>1, <1>4, <1>8, <2>1, <2>2 DEF Place
  <2> QED  BY <2>3, <2>4, <2>5, <1>1, <1>4 DEF IInv, SkipAgrees, Reading
<1> QED  BY <1>5, <1>6, <1>7, <1>8 DEF SkipSpace

LEMMA TextInv ==
  ASSUME IInv, Reading, RegularText, SkipText
  PROVE  IInv'
<1>1. /\ body' = TRUE /\ hasBody' = TRUE /\ at' = "text"
      /\ truncate' = IF at = "match" THEN matched ELSE truncate
      /\ UNCHANGED <<line, lines, regular, indent, matched, leading, skip>>
  BY DEF RegularText, SkipText, Unmatched
<1>2. line \in Seq(Spaces) /\ indent \in Seq(Spaces)
  BY DEF IInv, TypeOK
<1>3. regular = "none" /\ skip = "none"
  BY DEF Reading, IInv
<1>4. TypeOK'
  BY <1>1 DEF IInv, TypeOK
<1>5. Common'
  BY <1>1, <1>3 DEF IInv, Reading, Common, StartsWith
<1>6. Match'
  <2>1. CASE at = "text"
    BY <1>1, <1>3, <2>1 DEF IInv, Reading, Place, Match
  <2>2. CASE at = "match"
    BY <1>1, <1>2, <1>3, <2>2 DEF IInv, Reading, Place, TypeOK, Match
  <2>3. CASE at \in {"first", "start"}
    BY <1>1, <1>2, <1>3, <2>3 DEF IInv, Reading, Place, TypeOK, Match
  <2> QED  BY <2>1, <2>2, <2>3 DEF IInv, TypeOK
<1>7. lines = {} => line = indent
  BY <1>3 DEF IInv, Reading, Place
<1>8. Place'
  BY <1>1, <1>6, <1>7 DEF Place
<1> QED  BY <1>1, <1>3, <1>4, <1>5, <1>8 DEF IInv, SkipAgrees, Reading

-----------------------------------------------------------------------------
(* The end of a line: the one place where the common indentation changes.  *)

LEMMA NewlineInv ==
  ASSUME IInv, Reading, at = "first" => body, RegularNewline, SkipNewline
  PROVE  IInv'
<1>1. /\ lines' = IF body THEN lines \union {line} ELSE lines
      /\ line' = <<>> /\ body' = FALSE /\ hasBody' = FALSE /\ leading' = FALSE
      /\ indent' = IF hasBody THEN SubSeq(indent, 1, truncate) ELSE indent
      /\ truncate' = Len(indent') /\ matched' = 0
      /\ at' = IF indent' = <<>> THEN "start" ELSE "match"
      /\ UNCHANGED <<regular, skip>>
  BY DEF RegularNewline, SkipNewline
<1>2. /\ line \in Seq(Spaces) /\ indent \in Seq(Spaces) /\ lines \subseteq Seq(Spaces)
      /\ truncate \in 0..Len(indent)
  BY DEF IInv, TypeOK
<1>3. regular = "none" /\ skip = "none" /\ Common /\ Place /\ hasBody = body
  BY DEF Reading, IInv, Place
<1>4. at = "first" => body
  OBVIOUS
<1>5. /\ indent' \in Seq(Spaces) /\ Len(indent') <= Len(indent)
      /\ \A i \in 1..Len(indent') : indent'[i] = indent[i]
  BY <1>1, <1>2, Beginning
<1>6. /\ at' \in {"start", "match"} /\ hasBody' = body'
      /\ at' = "match" => 0 < Len(indent')
      /\ at' = "start" => line' = indent'
      /\ line' \in Seq(Spaces) /\ Len(line') = 0
  <2>1. line' \in Seq(Spaces) /\ Len(line') = 0
    BY <1>1
  <2>2. indent' # <<>> => 0 < Len(indent')
    BY <1>5
  <2>3. hasBody' = FALSE /\ body' = FALSE /\ line' = <<>>
    BY <1>1
  <2>4. CASE indent' = <<>>
    BY <1>1, <2>1, <2>3, <2>4, Zenon
  <2>5. CASE indent' # <<>>
    <3>1. at' = "match"
      BY <1>1, <2>5, Zenon
    <3> QED  BY <2>1, <2>2, <2>3, <2>5, <3>1
  <2> QED  BY <2>4, <2>5
<1>7. TypeOK' /\ lines' # {}
  <2>1. lines' \subseteq Seq(Spaces)
    <3>1. lines' = IF body THEN lines \union {line} ELSE lines
      BY <1>1
    <3> QED  BY <1>2, <3>1
  <2>2. lines' # {}
    BY <1>1, <1>3, <1>4 DEF Place
  <2>3. /\ truncate' = Len(indent') /\ matched' = 0 /\ body' = FALSE
        /\ leading' = FALSE /\ hasBody' = FALSE /\ UNCHANGED <<regular, skip>>
    BY <1>1
  <2>4. regular \in Results /\ skip \in Results
    BY DEF IInv, TypeOK
  <2>5. body' \in BOOLEAN /\ leading' \in BOOLEAN /\ hasBody' \in BOOLEAN
    BY <2>3
  <2>6. /\ truncate' \in 0..Len(indent') /\ matched' \in 0..Len(indent')
        /\ at' = "match" => matched' < Len(indent')
    BY <1>5, <1>6, <2>3
  <2>7. at' \in {"first", "match", "start", "text"}
    BY <1>6
  <2>8. regular' \in Results /\ skip' \in Results
    BY <2>3, <2>4
  <2> QED  BY <1>5, <1>6, <2>1, <2>2, <2>5, <2>6, <2>7, <2>8, Zenon DEF TypeOK
<1>8. Place'
  <2>1. /\ truncate' = Len(indent') /\ matched' = 0 /\ body' = FALSE /\ leading' = FALSE
    BY <1>1
  <2> QED  BY <1>6, <1>7, <2>1 DEF Place
<1>9. CASE ~body
  BY <1>1, <1>3, <1>7, <1>8, <1>9 DEF IInv, Common, StartsWith, SkipAgrees, Reading
<1>10. CASE body
  <2>1. at = "text" /\ Match
    BY <1>3, <1>10 DEF Place
  <2>2. Len(indent') = truncate /\ lines' = lines \union {line}
    BY <1>1, <1>2, <1>3, <1>10, Beginning
  <2>3. \A other \in lines' : StartsWith(other, indent')
    <3>1. StartsWith(line, indent')
      BY <1>2, <1>5, <2>1, <2>2 DEF Match, StartsWith
    <3>2. \A other \in lines : StartsWith(other, indent')
      BY <1>2, <1>3, <1>5 DEF Common, StartsWith
    <3> QED  BY <2>2, <3>1, <3>2
  <2>4. SUFFICES ASSUME NEW space \in Spaces,
                        \A other \in lines' : /\ truncate < Len(other)
                                              /\ other[truncate + 1] = space
                 PROVE  FALSE
    BY <1>7, <1>8, <2>2, <2>3, <1>1, <1>3 DEF IInv, Common, SkipAgrees, Reading
  <2>5. truncate < Len(line) /\ line[truncate + 1] = space
    BY <2>2, <2>4
  <2>6. lines # {}
    BY <1>2, <1>3, <2>1, <2>5 DEF Place, Match
  <2>7. CASE truncate = Len(indent)
    BY <1>3, <2>2, <2>4, <2>6, <2>7 DEF Common
  <2>8. CASE truncate < Len(indent)
    <3>1. indent[truncate + 1] # space
      BY <2>1, <2>5, <2>8 DEF Match
    <3>2. PICK other \in lines : other[truncate + 1] = space
      BY <2>2, <2>4, <2>6
    <3>3. StartsWith(other, indent)
      BY <1>3 DEF Common
    <3>4. truncate + 1 \in 1..Len(indent)
      BY <1>2, <2>8
    <3>5. other[truncate + 1] = indent[truncate + 1]
      BY <3>3, <3>4 DEF StartsWith
    <3> QED  BY <3>1, <3>2, <3>5
  <2> QED  BY <1>2, <2>7, <2>8
<1> QED  BY <1>9, <1>10

-----------------------------------------------------------------------------
(* The closing quotes, and the end of the input: both give the same result. *)

LEMMA CloseInv ==
  ASSUME IInv, Close
  PROVE  IInv'
<1>1. /\ body => regular' = "BadEndString"
      /\ ~body /\ (\A other \in lines : StartsWith(other, line)) => regular' = "Ok"
      /\ ~body /\ ~(\A other \in lines : StartsWith(other, line)) =>
           regular' \in {"Panic", "BadIndent"}
      /\ skip' = IF hasBody THEN "BadEndString" ELSE IF leading THEN "BadIndent" ELSE "Ok"
      /\ UNCHANGED <<line, body, lines, indent, truncate, matched, leading, hasBody, at>>
  BY DEF Close, RegularClose, SkipClose, IInv
<1>2. /\ line \in Seq(Spaces) /\ indent \in Seq(Spaces) /\ lines \subseteq Seq(Spaces)
      /\ truncate \in 0..Len(indent) /\ matched \in 0..Len(indent)
  BY DEF IInv, TypeOK
<1>3. Common /\ Place /\ hasBody = body
  BY DEF Close, Reading, IInv, Place
<1>4. TypeOK' /\ regular' # "none"
  BY <1>1 DEF IInv, TypeOK, Results
<1>5. ASSUME ~body
      PROVE  leading <=> ~\A other \in lines : StartsWith(other, line)
  <2>1. CASE at # "text"
    <3>1. ~leading
      BY <1>3, <2>1 DEF Place
    <3>2. lines # {} => Len(line) <= Len(indent) /\ \A i \in 1..Len(line) : line[i] = indent[i]
      BY <1>2, <1>3, <2>1 DEF Place, IInv, TypeOK
    <3> QED  BY <1>2, <1>3, <3>1, <3>2 DEF Common, StartsWith
  <2>2. CASE at = "text"
    <3>1. leading /\ Match /\ truncate < Len(line) /\ lines # {}
      BY <1>3, <1>5, <2>2 DEF Place, Match
    <3>2. SUFFICES ASSUME \A other \in lines : StartsWith(other, line)
                   PROVE  FALSE
      BY <3>1
    <3>3. /\ line[truncate + 1] \in Spaces
          /\ \A other \in lines : /\ truncate < Len(other)
                                  /\ other[truncate + 1] = line[truncate + 1]
      BY <1>2, <3>1, <3>2 DEF StartsWith
    <3>4. CASE truncate = Len(indent)
      BY <1>3, <3>1, <3>3, <3>4 DEF Common
    <3>5. CASE truncate < Len(indent)
      <4>1. line[truncate + 1] # indent[truncate + 1]
        BY <3>1, <3>5 DEF Match
      <4>2. PICK other \in lines : other[truncate + 1] = line[truncate + 1]
        BY <3>1, <3>3
      <4>3. StartsWith(other, indent)
        BY <1>3 DEF Common
      <4>4. truncate + 1 \in 1..Len(indent)
        BY <1>2, <3>5
      <4>5. other[truncate + 1] = indent[truncate + 1]
        BY <4>3, <4>4 DEF StartsWith
      <4> QED  BY <4>1, <4>2, <4>5
    <3> QED  BY <1>2, <3>4, <3>5
  <2> QED  BY <2>1, <2>2
<1>6. SkipAgrees'
  BY <1>1, <1>3, <1>5 DEF SkipAgrees, Reading
<1> QED  BY <1>4, <1>6 DEF IInv, Reading

LEMMA EofInv ==
  ASSUME ~Unclosed, IInv, Eof
  PROVE  IInv'
<1>1. /\ regular' = "UnexpectedEof" /\ skip' = "UnexpectedEof"
      /\ UNCHANGED <<line, body, lines, indent, truncate, matched, leading, hasBody, at>>
  BY DEF Eof, RegularEof, SkipEof, IInv
<1>2. TypeOK'
  BY <1>1 DEF IInv, TypeOK, Results
<1> QED  BY <1>1, <1>2 DEF IInv, Reading, SkipAgrees

LEMMA NextInv ==
  ASSUME DistinctLeads, ~BlankStart, ~Unclosed, IInv, [Next]_vars
  PROVE  IInv'
<1>0. ASSUME Reading, NEW char \in Alphabet
      PROVE  skip = "none" /\ ~BreaksInside(char)
  BY <1>0, NeverInside DEF IInv
<1>1. CASE Space
  <2>1. PICK space \in Spaces : RegularSpace(space) /\ SkipChar(space, SkipSpace(space))
    BY <1>1 DEF Space
  <2>2. Reading /\ SkipSpace(space)
    BY <1>0, <1>1, <2>1 DEF Space, SkipChar, Alphabet
  <2> QED  BY <2>1, <2>2, SpaceInTextInv, SpaceInv
<1>2. CASE Text
  <2>1. PICK char \in Visible : SkipChar(char, SkipText)
    BY <1>2 DEF Text
  <2>2. Reading /\ RegularText /\ SkipText
    BY <1>0, <1>2, <2>1 DEF Text, SkipChar, Alphabet
  <2> QED  BY <2>2, TextInv
<1>3. CASE Newline
  <2>1. PICK break \in Breaks : SkipChar(break, SkipNewline)
    BY <1>3 DEF Newline
  <2>2. /\ Reading /\ RegularNewline /\ SkipNewline
        /\ at = "first" => body
    BY <1>0, <1>3, <2>1 DEF Newline, SkipChar, Alphabet
  <2> QED  BY <2>2, NewlineInv
<1>4. CASE Close
  BY <1>4, CloseInv
<1>5. CASE Eof
  BY <1>5, EofInv
<1>6. CASE UNCHANGED vars
  BY <1>6 DEF vars, regularVars, skipVars, IInv, TypeOK, Common, Place, Match,
              SkipAgrees, Reading, StartsWith
<1> QED  BY <1>1, <1>2, <1>3, <1>4, <1>5, <1>6 DEF Next

-----------------------------------------------------------------------------

\* For any indentations of spaces of any lengths that are told apart by their
\* first bytes, from each other and from all else, if the first line of a string
\* is not blank and the input does not end within an indentation: the locals
\* of both functions have their types.
THEOREM TypeCorrect ==
  ASSUME DistinctLeads, ~BlankStart, ~Unclosed
  PROVE  Spec => []TypeOK
<1>1. IInv /\ [Next]_vars => IInv'
  BY NextInv
<1>2. IInv => TypeOK
  BY DEF IInv
<1> QED  BY <1>1, <1>2, InitInv, PTL DEF Spec

\* Under the same conditions, multiline_string_skip returns what
\* multiline_string_regular returns, if that returns and does not panic.
THEOREM SkippingIsReading ==
  ASSUME DistinctLeads, ~BlankStart, ~Unclosed
  PROVE  Spec => []SkipAgrees
<1>1. IInv /\ [Next]_vars => IInv'
  BY NextInv
<1>2. IInv => SkipAgrees
  BY DEF IInv
<1> QED  BY <1>1, <1>2, InitInv, PTL DEF Spec

-----------------------------------------------------------------------------
(* Induction.  A set that has 0 and with every number the next has them    *)
(* all: the least number that it does not have would be the last of a set  *)
(* 0 .. x than which no other is smaller, and those are well-founded.      *)

LEMMA NatInductionSet ==
  ASSUME NEW S, 0 \in S, \A n \in Nat : n \in S => n + 1 \in S
  PROVE  Nat \subseteq S
<1> SUFFICES ASSUME NEW k \in Nat, k \notin S PROVE FALSE
  OBVIOUS
<1> DEFINE T == {U \in FiniteSubsetsOf(Nat) : \E x \in Nat : x \notin S /\ U = 0 .. x}
<1>1. 0 .. k \in T
  BY FS_Interval DEF FiniteSubsetsOf
<1>2. T \subseteq FiniteSubsetsOf(Nat) /\ T # {}
  BY <1>1
<1>3. PICK U \in T : \A V \in T : <<V, U>> \notin StrictSubsetOrdering(Nat)
  <2> HIDE DEF T
  <2> QED BY <1>2, FS_StrictSubsetOrderingWellFounded, WFMin
<1>4. PICK x \in Nat : x \notin S /\ U = 0 .. x
  BY <1>3
<1>5. x - 1 \in Nat /\ x - 1 \notin S
  BY <1>4
<1>6. 0 .. (x - 1) \in T
  BY <1>5, FS_Interval DEF FiniteSubsetsOf
<1>7. <<0 .. (x - 1), U>> \in StrictSubsetOrdering(Nat)
  BY <1>4, <1>5 DEF StrictSubsetOrdering
<1> QED
  BY <1>3, <1>6, <1>7

-----------------------------------------------------------------------------
(* FlattenSeq is defined with a recursive function: that there is one, and *)
(* only one, is what FlatExists and FlatUnique show.                       *)

\* f has the sequences that FlattenSeq goes through, up to the nth.
Flattens(f, seqs, n) ==
  \A i \in 1 .. n : f[i] = IF i = 1 THEN seqs[i] ELSE f[i - 1] \o seqs[i]

FlatUpTo(B, seqs, n) == \E f \in [1 .. n -> Seq(B)] : Flattens(f, seqs, n)

LEMMA FlatExists ==
  ASSUME NEW B, NEW seqs \in Seq(Seq(B))
  PROVE  FlatUpTo(B, seqs, Len(seqs))
<1> DEFINE S == {n \in Nat : n <= Len(seqs) => FlatUpTo(B, seqs, n)}
<1>1. 0 \in S
  <2>1. [i \in 1 .. 0 |-> <<>>] \in [1 .. 0 -> Seq(B)] OBVIOUS
  <2>2. Flattens([i \in 1 .. 0 |-> <<>>], seqs, 0) BY DEF Flattens
  <2> QED BY <2>1, <2>2 DEF FlatUpTo
<1>2. ASSUME NEW n \in Nat, n \in S PROVE n + 1 \in S
  <2> SUFFICES ASSUME n + 1 <= Len(seqs) PROVE FlatUpTo(B, seqs, n + 1)
    OBVIOUS
  <2>0. FlatUpTo(B, seqs, n)
    BY <1>2
  <2>1. PICK f \in [1 .. n -> Seq(B)] : Flattens(f, seqs, n)
    BY <2>0 DEF FlatUpTo
  <2> DEFINE last == IF n = 0 THEN seqs[1] ELSE f[n] \o seqs[n + 1]
             g == [i \in 1 .. n + 1 |-> IF i = n + 1 THEN last ELSE f[i]]
  <2>2. last \in Seq(B)
    <3>1. seqs[n + 1] \in Seq(B) BY LenProperties, ElementOfSeq
    <3>2. CASE n = 0 BY <3>1, <3>2
    <3>3. CASE n # 0
      <4>1. f[n] \in Seq(B) BY <3>3
      <4>2. f[n] \o seqs[n + 1] \in Seq(B) BY <3>1, <4>1, ConcatProperties
      <4> QED BY <3>3, <4>2
    <3> QED BY <3>2, <3>3
  <2> HIDE DEF last
  <2>3. g \in [1 .. n + 1 -> Seq(B)]
    <3> SUFFICES ASSUME NEW i \in 1 .. n + 1
                 PROVE  (IF i = n + 1 THEN last ELSE f[i]) \in Seq(B)
      OBVIOUS
    <3>1. CASE i = n + 1 BY <3>1, <2>2
    <3>2. CASE i # n + 1
      <4>1. i \in 1 .. n BY <3>2
      <4>2. f[i] \in Seq(B) BY <4>1
      <4> QED BY <3>2, <4>2
    <3> QED BY <3>1, <3>2
  <2>4. ASSUME NEW i \in 1 .. n + 1
        PROVE  g[i] = IF i = 1 THEN seqs[i] ELSE g[i - 1] \o seqs[i]
    <3>1. CASE i = n + 1
      <4>1. g[i] = last BY <3>1
      <4>2. n # 0 => g[i - 1] = f[n] BY <3>1
      <4> QED BY <3>1, <4>1, <4>2 DEF last
    <3>2. CASE i # n + 1
      <4>1. i \in 1 .. n BY <3>2
      <4>2. f[i] = IF i = 1 THEN seqs[i] ELSE f[i - 1] \o seqs[i]
        BY <2>1, <4>1 DEF Flattens
      <4>3. g[i] = f[i] BY <4>1
      <4>4. i # 1 => g[i - 1] = f[i - 1] BY <4>1
      <4> HIDE DEF g
      <4> QED BY <4>2, <4>3, <4>4
    <3> QED BY <3>1, <3>2
  <2>5. Flattens(g, seqs, n + 1)
    <3> HIDE DEF g
    <3> QED BY <2>4 DEF Flattens
  <2> HIDE DEF g
  <2> QED BY <2>3, <2>5 DEF FlatUpTo
<1>3. Nat \subseteq S
  <2> HIDE DEF S
  <2> QED BY <1>1, <1>2, NatInductionSet
<1>4. Len(seqs) \in S
  <2> HIDE DEF S
  <2> QED BY <1>3, LenProperties
<1> QED BY <1>4, LenProperties

\* The recursive function in FlattenSeq.
FlatPrefixes(seqs) ==
  CHOOSE f : f = [i \in 1 .. Len(seqs) |-> IF i = 1 THEN seqs[i] ELSE f[i - 1] \o seqs[i]]

LEMMA FlatPrefixesIs ==
  ASSUME NEW B, NEW seqs \in Seq(Seq(B))
  PROVE  FlatPrefixes(seqs) =
              [i \in 1 .. Len(seqs) |->
                 IF i = 1 THEN seqs[i] ELSE FlatPrefixes(seqs)[i - 1] \o seqs[i]]
<1>1. PICK f \in [1 .. Len(seqs) -> Seq(B)] : Flattens(f, seqs, Len(seqs))
  BY FlatExists DEF FlatUpTo
<1>2. f = [i \in 1 .. Len(seqs) |-> f[i]] OBVIOUS
<1>3. f = [i \in 1 .. Len(seqs) |-> IF i = 1 THEN seqs[i] ELSE f[i - 1] \o seqs[i]]
  BY <1>1, <1>2 DEF Flattens
<1> QED BY <1>3 DEF FlatPrefixes

LEMMA FlattenIs ==
  ASSUME NEW seqs, Len(seqs) # 0
  PROVE  FlattenSeq(seqs) = FlatPrefixes(seqs)[Len(seqs)]
BY DEF FlattenSeq, FlatPrefixes

\* A set that has the empty sequence and with every sequence the longer ones.
LEMMA SeqInductionSet ==
  ASSUME NEW A, NEW S, <<>> \in S,
         \A s \in Seq(A), a \in A : s \in S => Append(s, a) \in S
  PROVE  Seq(A) \subseteq S
<1> DEFINE N == {n \in Nat : \A s \in Seq(A) : Len(s) = n => s \in S}
<1>1. 0 \in N
  BY EmptySeq
<1>2. ASSUME NEW n \in Nat, n \in N PROVE n + 1 \in N
  <2> SUFFICES ASSUME NEW s \in Seq(A), Len(s) = n + 1 PROVE s \in S
    OBVIOUS
  <2>1. s # <<>>
    BY EmptySeq
  <2>2. /\ SubSeq(s, 1, Len(s) - 1) \in Seq(A) /\ s[Len(s)] \in A
        /\ s = Append(SubSeq(s, 1, Len(s) - 1), s[Len(s)])
        /\ Len(SubSeq(s, 1, Len(s) - 1)) = n
    <3>1. SubSeq(s, 1, n) \in Seq(A) /\ Len(SubSeq(s, 1, n)) = n
      BY SubSeqProperties
    <3>2. s[n + 1] \in A
      BY ElementOfSeq
    <3>3. Append(SubSeq(s, 1, n), s[n + 1]) = s
      <4> DEFINE t == Append(SubSeq(s, 1, n), s[n + 1])
      <4>1. t \in Seq(A) /\ Len(t) = n + 1
        BY <3>1, <3>2, AppendProperties
      <4>2. ASSUME NEW i \in 1 .. n + 1 PROVE t[i] = s[i]
        <5>1. CASE i = n + 1 BY <5>1, <3>1, <3>2, AppendProperties
        <5>2. CASE i # n + 1
          <6>1. SubSeq(s, 1, n)[i] = s[i] BY <5>2, SubSeqProperties
          <6> QED BY <6>1, <5>2, <3>1, <3>2, AppendProperties
        <5> QED BY <5>1, <5>2
      <4> HIDE DEF t
      <4>3. t = s BY <4>1, <4>2, SeqEqual
      <4> QED BY <4>3 DEF t
    <3> QED BY <3>1, <3>2, <3>3
  <2>3. SubSeq(s, 1, Len(s) - 1) \in S
    BY <1>2, <2>2
  <2> QED BY <2>2, <2>3
<1>3. Nat \subseteq N
  <2> HIDE DEF N
  <2> QED BY <1>1, <1>2, NatInductionSet
<1> QED
  BY <1>3, LenProperties

\* Two that go through the same sequences are equal as far as they do.
LEMMA FlatUnique ==
  ASSUME NEW seqs, NEW n \in Nat, NEW f, NEW g, Flattens(f, seqs, n), Flattens(g, seqs, n)
  PROVE  \A i \in 1 .. n : f[i] = g[i]
<1> DEFINE S == {i \in Nat : i \in 1 .. n => f[i] = g[i]}
<1>1. 0 \in S OBVIOUS
<1>2. ASSUME NEW i \in Nat, i \in S PROVE i + 1 \in S
  <2> SUFFICES ASSUME i + 1 \in 1 .. n PROVE f[i + 1] = g[i + 1]
    OBVIOUS
  <2>1. CASE i = 0
    BY <2>1 DEF Flattens
  <2>2. CASE i # 0
    <3>1. f[i] = g[i] BY <1>2, <2>2
    <3>2. (i + 1) - 1 = i /\ i + 1 \in 1 .. n /\ i + 1 # 1 BY <2>2
    <3>3. f[i + 1] = f[(i + 1) - 1] \o seqs[i + 1]
      BY <3>2 DEF Flattens
    <3>4. g[i + 1] = g[(i + 1) - 1] \o seqs[i + 1]
      BY <3>2 DEF Flattens
    <3> QED BY <3>1, <3>2, <3>3, <3>4
  <2> QED BY <2>1, <2>2
<1>3. Nat \subseteq S
  <2> HIDE DEF S
  <2> QED BY <1>1, <1>2, NatInductionSet
<1> QED BY <1>3

LEMMA FlatPrefixesDef ==
  ASSUME NEW B, NEW seqs \in Seq(Seq(B))
  PROVE  /\ Flattens(FlatPrefixes(seqs), seqs, Len(seqs))
         /\ \A i \in 1 .. Len(seqs) : FlatPrefixes(seqs)[i] \in Seq(B)
<1> DEFINE p == FlatPrefixes(seqs)
<1>1. p = [i \in 1 .. Len(seqs) |-> IF i = 1 THEN seqs[i] ELSE p[i - 1] \o seqs[i]]
  BY FlatPrefixesIs
<1>2. Flattens(p, seqs, Len(seqs))
  <2> HIDE DEF p
  <2> SUFFICES ASSUME NEW i \in 1 .. Len(seqs)
               PROVE  p[i] = IF i = 1 THEN seqs[i] ELSE p[i - 1] \o seqs[i]
    BY DEF Flattens
  <2> QED BY <1>1
<1>3. PICK f \in [1 .. Len(seqs) -> Seq(B)] : Flattens(f, seqs, Len(seqs))
  BY FlatExists DEF FlatUpTo
<1>4. \A i \in 1 .. Len(seqs) : p[i] = f[i]
  BY <1>2, <1>3, FlatUnique, LenProperties
<1> QED BY <1>2, <1>3, <1>4

\* The equations of FlattenSeq.
LEMMA FlattenEmpty == FlattenSeq(<<>>) = <<>>
BY EmptySeq DEF FlattenSeq

LEMMA FlattenType ==
  ASSUME NEW B, NEW seqs \in Seq(Seq(B))
  PROVE  FlattenSeq(seqs) \in Seq(B)
<1>1. CASE seqs = <<>>
  BY <1>1, FlattenEmpty, EmptySeq
<1>2. CASE seqs # <<>>
  <2>1. Len(seqs) \in 1 .. Len(seqs) /\ Len(seqs) # 0
    BY <1>2, EmptySeq, LenProperties
  <2> QED BY <2>1, FlattenIs, FlatPrefixesDef
<1> QED BY <1>1, <1>2

LEMMA FlattenAppend ==
  ASSUME NEW B, NEW seqs \in Seq(Seq(B)), NEW b \in Seq(B)
  PROVE  FlattenSeq(Append(seqs, b)) = FlattenSeq(seqs) \o b
<1> DEFINE n == Len(seqs)
           more == Append(seqs, b)
<1>1. /\ more \in Seq(Seq(B)) /\ Len(more) = n + 1 /\ n \in Nat
      /\ \A i \in 1 .. n : more[i] = seqs[i]
      /\ more[n + 1] = b
  BY AppendProperties, LenProperties
<1> HIDE DEF more
<1>2. Flattens(FlatPrefixes(more), more, n + 1)
  BY <1>1, FlatPrefixesDef
<1>3. FlattenSeq(more) = FlatPrefixes(more)[n + 1]
  BY <1>1, FlattenIs
<1>4. CASE n = 0
  <2>1. seqs = <<>> BY <1>4, EmptySeq
  <2>2. FlattenSeq(more) = b BY <1>1, <1>2, <1>3, <1>4 DEF Flattens
  <2> QED BY <2>1, <2>2, FlattenEmpty, ConcatEmptySeq DEF more
<1>5. CASE n # 0
  <2>1. Flattens(FlatPrefixes(more), seqs, n)
    <3> SUFFICES ASSUME NEW i \in 1 .. n
                 PROVE  FlatPrefixes(more)[i] =
                          IF i = 1 THEN seqs[i] ELSE FlatPrefixes(more)[i - 1] \o seqs[i]
      BY DEF Flattens
    <3>1. i \in 1 .. n + 1 /\ more[i] = seqs[i] BY <1>1
    <3> QED BY <1>2, <3>1 DEF Flattens
  <2>2. Flattens(FlatPrefixes(seqs), seqs, n)
    BY FlatPrefixesDef
  <2>3. FlatPrefixes(more)[n] = FlatPrefixes(seqs)[n]
    <3> DEFINE f == FlatPrefixes(more)
               g == FlatPrefixes(seqs)
    <3>1. \A i \in 1 .. n : f[i] = g[i]
      <4>1. Flattens(f, seqs, n) /\ Flattens(g, seqs, n) /\ n \in Nat
        BY <2>1, <2>2, <1>1
      <4> HIDE DEF f, g, n
      <4> QED BY <4>1, FlatUnique
    <3> QED BY <3>1, <1>1, <1>5
  <2>4. FlatPrefixes(more)[n + 1] = FlatPrefixes(more)[n] \o b
    <3>1. (n + 1) - 1 = n /\ n + 1 \in 1 .. n + 1 /\ n + 1 # 1 BY <1>1, <1>5
    <3>2. FlatPrefixes(more)[n + 1] = FlatPrefixes(more)[(n + 1) - 1] \o more[n + 1]
      BY <1>2, <3>1 DEF Flattens
    <3> QED BY <3>1, <3>2, <1>1
  <2>5. FlattenSeq(seqs) = FlatPrefixes(seqs)[n]
    BY <1>5, FlattenIs
  <2> QED BY <1>3, <2>3, <2>4, <2>5 DEF more
<1> QED BY <1>4, <1>5

-----------------------------------------------------------------------------
(* Encodings of strings.                                                   *)

\* The bytes of characters, and the one that the buffer is filled with.
Bytes == (Chars \union {"#0"}) \X (1 .. 3)

Size(s) == Len(Encoding(s))

LEMMA WidthIs == \A c \in Chars : Width[c] \in 1 .. 3
BY DEF Chars, Width

LEMMA EncodedType ==
  ASSUME NEW c \in Chars
  PROVE  /\ Encoded(c) \in Seq(Bytes) /\ Len(Encoded(c)) = Width[c]
         /\ \A k \in 1 .. Width[c] : Encoded(c)[k] = <<c, k>>
<1>1. Width[c] \in 1 .. 3
  BY WidthIs
<1>2. Encoded(c) \in [1 .. Width[c] -> Bytes]
  <2> SUFFICES ASSUME NEW k \in 1 .. Width[c] PROVE <<c, k>> \in Bytes
    BY DEF Encoded
  <2> QED BY <1>1 DEF Bytes
<1> QED BY <1>1, <1>2 DEF Encoded

LEMMA EncodingEmpty == Encoding(<<>>) = <<>>
<1>1. [i \in DOMAIN <<>> |-> Encoded(<<>>[i])] = <<>>
  OBVIOUS
<1> QED BY <1>1, FlattenEmpty DEF Encoding

LEMMA EachEncoded ==
  ASSUME NEW s \in Seq(Chars)
  PROVE  [i \in DOMAIN s |-> Encoded(s[i])] \in Seq(Seq(Bytes))
<1>1. DOMAIN s = 1 .. Len(s) /\ Len(s) \in Nat
  BY LenProperties
<1>2. \A i \in 1 .. Len(s) : Encoded(s[i]) \in Seq(Bytes)
  BY ElementOfSeq, EncodedType
<1> QED BY <1>1, <1>2, IsASeq

LEMMA EncodingType ==
  ASSUME NEW s \in Seq(Chars)
  PROVE  Encoding(s) \in Seq(Bytes) /\ Size(s) \in Nat
BY EachEncoded, FlattenType, LenProperties DEF Encoding, Size

LEMMA EncodingAppend ==
  ASSUME NEW s \in Seq(Chars), NEW c \in Chars
  PROVE  Encoding(Append(s, c)) = Encoding(s) \o Encoded(c)
<1> DEFINE each == [i \in DOMAIN s |-> Encoded(s[i])]
           more == [i \in DOMAIN Append(s, c) |-> Encoded(Append(s, c)[i])]
           n == Len(s)
<1>1. n \in Nat /\ DOMAIN s = 1 .. n
  BY LenProperties
<1>2. /\ Append(s, c) \in Seq(Chars) /\ Len(Append(s, c)) = n + 1
      /\ DOMAIN Append(s, c) = 1 .. n + 1
      /\ \A i \in 1 .. n : Append(s, c)[i] = s[i]
      /\ Append(s, c)[n + 1] = c
  BY AppendProperties, LenProperties
<1>3. each \in Seq(Seq(Bytes)) /\ more \in Seq(Seq(Bytes)) /\ Encoded(c) \in Seq(Bytes)
  BY <1>2, EachEncoded, EncodedType
<1>4. Len(each) = n /\ Len(more) = n + 1
  BY <1>1, <1>2
<1>5. /\ \A i \in 1 .. n : more[i] = each[i]
      /\ more[n + 1] = Encoded(c)
  BY <1>1, <1>2
<1> HIDE DEF each, more
<1>6. more = Append(each, Encoded(c))
  <2>1. /\ Append(each, Encoded(c)) \in Seq(Seq(Bytes))
        /\ Len(Append(each, Encoded(c))) = n + 1
        /\ \A i \in 1 .. n : Append(each, Encoded(c))[i] = each[i]
        /\ Append(each, Encoded(c))[n + 1] = Encoded(c)
    <3> DEFINE b == Encoded(c)
               A == Seq(Bytes)
    <3>1. each \in Seq(A) /\ b \in A BY <1>3
    <3> HIDE DEF b, A
    <3> QED BY <3>1, <1>4, AppendProperties DEF b, A
  <2>2. \A i \in 1 .. n + 1 : more[i] = Append(each, Encoded(c))[i]
    <3> TAKE i \in 1 .. n + 1
    <3>1. CASE i = n + 1 BY <3>1, <2>1, <1>5
    <3>2. CASE i # n + 1 BY <3>2, <2>1, <1>5, <1>1
    <3> QED BY <3>1, <3>2
  <2> QED BY <1>3, <1>4, <2>1, <2>2, SeqEqual
<1> QED BY <1>3, <1>6, FlattenAppend DEF Encoding, each, more

LEMMA EncodingConcat ==
  ASSUME NEW s \in Seq(Chars), NEW t \in Seq(Chars)
  PROVE  Encoding(s \o t) = Encoding(s) \o Encoding(t)
<1> DEFINE S == {u \in Seq(Chars) : Encoding(s \o u) = Encoding(s) \o Encoding(u)}
<1>1. <<>> \in S
  BY EncodingEmpty, EncodingType, ConcatEmptySeq, EmptySeq
<1>2. ASSUME NEW u \in Seq(Chars), NEW c \in Chars, u \in S
      PROVE  Append(u, c) \in S
  <2>1. s \o Append(u, c) = Append(s \o u, c)
    BY AppendIsConcat, ConcatAssociative, ConcatProperties
  <2>2. s \o u \in Seq(Chars) /\ Append(u, c) \in Seq(Chars)
    BY ConcatProperties, AppendProperties
  <2>3. Encoding(s \o Append(u, c)) = Encoding(s \o u) \o Encoded(c)
    BY <2>1, <2>2, EncodingAppend
  <2>4. Encoding(Append(u, c)) = Encoding(u) \o Encoded(c)
    BY EncodingAppend
  <2>5. Encoding(s \o u) = Encoding(s) \o Encoding(u)
    BY <1>2
  <2>6. (Encoding(s) \o Encoding(u)) \o Encoded(c) = Encoding(s) \o (Encoding(u) \o Encoded(c))
    <3> DEFINE e1 == Encoding(s)
               e2 == Encoding(u)
               e3 == Encoded(c)
    <3>1. e1 \in Seq(Bytes) /\ e2 \in Seq(Bytes) /\ e3 \in Seq(Bytes)
      BY EncodingType, EncodedType
    <3> HIDE DEF e1, e2, e3
    <3>2. (e1 \o e2) \o e3 = e1 \o (e2 \o e3)
      BY <3>1, ConcatAssociative, Z3T(30)
    <3> QED BY <3>2 DEF e1, e2, e3
  <2> QED BY <2>2, <2>3, <2>4, <2>5, <2>6
<1>3. Seq(Chars) \subseteq S
  <2> HIDE DEF S
  <2> QED BY <1>1, <1>2, SeqInductionSet
<1> QED BY <1>3

LEMMA SizeConcat ==
  ASSUME NEW s \in Seq(Chars), NEW t \in Seq(Chars)
  PROVE  Size(s \o t) = Size(s) + Size(t)
BY EncodingConcat, EncodingType, ConcatProperties DEF Size

LEMMA SizeAppend ==
  ASSUME NEW s \in Seq(Chars), NEW c \in Chars
  PROVE  Size(Append(s, c)) = Size(s) + Width[c]
BY EncodingAppend, EncodingType, EncodedType, ConcatProperties DEF Size

LEMMA SizeGrows ==
  ASSUME NEW s \in Seq(Chars), s # <<>>
  PROVE  Size(s) > 0
<1>1. PICK t \in Seq(Chars), c \in Chars : s = Append(t, c)
  BY SequenceEmptyOrAppend
<1> QED BY <1>1, SizeAppend, EncodingType, WidthIs

\* A beginning of a string, its encoding, and where that ends.
LEMMA StringBeginning ==
  ASSUME NEW s \in Seq(Chars), NEW n \in 0 .. Len(s)
  PROVE  /\ SubSeq(s, 1, n) \in Seq(Chars) /\ Len(SubSeq(s, 1, n)) = n
         /\ SubSeq(s, n + 1, Len(s)) \in Seq(Chars)
         /\ s = SubSeq(s, 1, n) \o SubSeq(s, n + 1, Len(s))
         /\ Encoding(s) = Encoding(SubSeq(s, 1, n)) \o Encoding(SubSeq(s, n + 1, Len(s)))
         /\ Size(SubSeq(s, 1, n)) \in 0 .. Size(s)
         /\ \A i \in 1 .. Size(SubSeq(s, 1, n)) :
              Encoding(SubSeq(s, 1, n))[i] = Encoding(s)[i]
<1>1. /\ SubSeq(s, 1, n) \in Seq(Chars) /\ Len(SubSeq(s, 1, n)) = n
      /\ SubSeq(s, n + 1, Len(s)) \in Seq(Chars)
  BY SubSeqProperties, LenProperties
<1>2. s = SubSeq(s, 1, n) \o SubSeq(s, n + 1, Len(s))
  <2>1. SubSeq(s, 1, n) \o SubSeq(s, n + 1, Len(s)) = SubSeq(s, 1, Len(s))
    <3>1. 1 \in 1 .. Len(s) + 1 /\ n \in 1 - 1 .. Len(s) /\ Len(s) \in n .. Len(s)
      BY LenProperties
    <3> QED BY <3>1, ConcatAdjacentSubSeq
  <2> QED BY <2>1, SubSeqFull
<1>3. Encoding(s) = Encoding(SubSeq(s, 1, n)) \o Encoding(SubSeq(s, n + 1, Len(s)))
  BY <1>1, <1>2, EncodingConcat
<1>4. Size(s) = Size(SubSeq(s, 1, n)) + Size(SubSeq(s, n + 1, Len(s)))
  BY <1>1, <1>2, SizeConcat
<1>5. /\ Size(SubSeq(s, 1, n)) \in 0 .. Size(s)
      /\ \A i \in 1 .. Size(SubSeq(s, 1, n)) : Encoding(SubSeq(s, 1, n))[i] = Encoding(s)[i]
  <2> DEFINE e1 == Encoding(SubSeq(s, 1, n))
             e2 == Encoding(SubSeq(s, n + 1, Len(s)))
  <2>1. /\ e1 \in Seq(Bytes) /\ e2 \in Seq(Bytes)
        /\ Len(e1) \in Nat /\ Len(e2) \in Nat
        /\ Encoding(s) = e1 \o e2
    BY <1>1, <1>3, EncodingType, LenProperties
  <2> HIDE DEF e1, e2
  <2>2. /\ Len(e1 \o e2) = Len(e1) + Len(e2)
        /\ \A i \in 1 .. Len(e1) + Len(e2) :
             (e1 \o e2)[i] = IF i <= Len(e1) THEN e1[i] ELSE e2[i - Len(e1)]
    BY <2>1, ConcatProperties
  <2>3. Len(e1) \in 0 .. Len(Encoding(s)) /\ \A i \in 1 .. Len(e1) : e1[i] = Encoding(s)[i]
    BY <2>1, <2>2
  <2> QED BY <2>3 DEF e1, Size
<1> QED BY <1>1, <1>2, <1>3, <1>5

LEMMA BeginningsGrow ==
  ASSUME NEW s \in Seq(Chars), NEW n \in 0 .. Len(s), NEW m \in 0 .. Len(s), n < m
  PROVE  Size(SubSeq(s, 1, n)) < Size(SubSeq(s, 1, m))
<1> DEFINE a == SubSeq(s, 1, n)
           b == SubSeq(s, n + 1, m)
<1>1. a \o b = SubSeq(s, 1, m)
  <2>1. 1 \in 1 .. Len(s) + 1 /\ n \in 1 - 1 .. Len(s) /\ m \in n .. Len(s)
    BY LenProperties
  <2> QED BY <2>1, ConcatAdjacentSubSeq
<1>2. a \in Seq(Chars) /\ b \in Seq(Chars) /\ Len(b) = m - n
  BY SubSeqProperties, LenProperties
<1> HIDE DEF a, b
<1>3. b # <<>>
  BY <1>2, EmptySeq
<1>4. Size(b) > 0 /\ Size(a) \in Nat /\ Size(b) \in Nat /\ Size(a \o b) = Size(a) + Size(b)
  BY <1>2, <1>3, SizeGrows, SizeConcat, EncodingType
<1>5. Size(a) < Size(a \o b)
  BY <1>4
<1> QED BY <1>1, <1>5 DEF a

\* Where the nth character of a string ends.
End(s, n) == Size(SubSeq(s, 1, n))

LEMMA EndsOrdered ==
  ASSUME NEW s \in Seq(Chars)
  PROVE  /\ End(s, 0) = 0 /\ End(s, Len(s)) = Size(s)
         /\ \A n \in 0 .. Len(s) : End(s, n) \in 0 .. Size(s)
         /\ \A n, m \in 0 .. Len(s) : n < m => End(s, n) < End(s, m)
<1>1. SubSeq(s, 1, 0) = <<>> /\ SubSeq(s, 1, Len(s)) = s
  <2>1. Len(SubSeq(s, 1, 0)) = 0 /\ SubSeq(s, 1, 0) \in Seq(Chars)
    BY SubSeqProperties, LenProperties
  <2> QED BY <2>1, EmptySeq, SubSeqFull
<1>2. Size(<<>>) = 0
  BY EncodingEmpty, EmptySeq DEF Size
<1> QED BY <1>1, <1>2, StringBeginning, BeginningsGrow DEF End

LEMMA EndsAppend ==
  ASSUME NEW u \in Seq(Chars), NEW c \in Chars
  PROVE  /\ Len(Append(u, c)) = Len(u) + 1
         /\ \A n \in 0 .. Len(u) : End(Append(u, c), n) = End(u, n)
<1> DEFINE v == Append(u, c)
<1>1. v \in Seq(Chars) /\ Len(v) = Len(u) + 1 /\ \A i \in 1 .. Len(u) : v[i] = u[i]
  BY AppendProperties, LenProperties
<1>2. ASSUME NEW n \in 0 .. Len(u) PROVE SubSeq(v, 1, n) = SubSeq(u, 1, n)
  <2> HIDE DEF v
  <2>1. /\ SubSeq(v, 1, n) \in Seq(Chars) /\ Len(SubSeq(v, 1, n)) = n
        /\ \A i \in 1 .. n : SubSeq(v, 1, n)[i] = v[i]
    BY <1>1, SubSeqProperties, LenProperties
  <2>2. /\ SubSeq(u, 1, n) \in Seq(Chars) /\ Len(SubSeq(u, 1, n)) = n
        /\ \A i \in 1 .. n : SubSeq(u, 1, n)[i] = u[i]
    BY SubSeqProperties, LenProperties
  <2>3. \A i \in 1 .. n : u[i] = v[i]
    BY <1>1, LenProperties
  <2> QED BY <2>1, <2>2, <2>3, SeqEqual
<1> QED BY <1>1, <1>2 DEF End

LEMMA EncodingAppendAt ==
  ASSUME NEW u \in Seq(Chars), NEW c \in Chars
  PROVE  /\ \A q \in 1 .. Size(u) : Encoding(Append(u, c))[q] = Encoding(u)[q]
         /\ \A q \in Size(u) + 1 .. Size(u) + Width[c] :
              Encoding(Append(u, c))[q] = <<c, q - Size(u)>>
<1> DEFINE e == Encoding(u)
           f == Encoded(c)
<1>1. /\ e \in Seq(Bytes) /\ f \in Seq(Bytes) /\ Len(e) \in Nat /\ Len(f) = Width[c]
      /\ Width[c] \in 1 .. 3
      /\ \A i \in 1 .. Width[c] : f[i] = <<c, i>>
  BY EncodingType, EncodedType, WidthIs, LenProperties
<1>2. Encoding(Append(u, c)) = e \o f
  BY EncodingAppend
<1> HIDE DEF e, f
<1>3. \A q \in 1 .. Len(e) + Len(f) : (e \o f)[q] = IF q <= Len(e) THEN e[q] ELSE f[q - Len(e)]
  BY <1>1, ConcatProperties
<1>4. ASSUME NEW q \in Len(e) + 1 .. Len(e) + Width[c] PROVE (e \o f)[q] = <<c, q - Len(e)>>
  <2>1. q - Len(e) \in 1 .. Width[c] /\ q \in 1 .. Len(e) + Len(f) /\ ~(q <= Len(e))
    BY <1>1
  <2>2. (e \o f)[q] = f[q - Len(e)]
    BY <1>3, <2>1
  <2> QED BY <1>1, <2>1, <2>2
<1>5. ASSUME NEW q \in 1 .. Len(e) PROVE (e \o f)[q] = e[q]
  <2>1. q \in 1 .. Len(e) + Len(f) /\ q <= Len(e)
    BY <1>1
  <2> QED BY <1>3, <2>1
<1> QED BY <1>2, <1>4, <1>5 DEF e, Size

\* The bytes that continue no character are the first ones of characters.
Bounded(s) ==
  \A p \in 1 .. Size(s) :
    ~Continues(Encoding(s)[p]) <=> \E n \in 0 .. Len(s) - 1 : p = End(s, n) + 1

LEMMA BoundedAppend ==
  ASSUME NEW u \in Seq(Chars), NEW c \in Chars, Bounded(u)
  PROVE  Bounded(Append(u, c))
<1> DEFINE v == Append(u, c)
           k == Len(u)
           z == Size(u)
<1>1. /\ v \in Seq(Chars) /\ Len(v) = k + 1 /\ k \in Nat
      /\ \A n \in 0 .. k : End(v, n) = End(u, n)
  BY AppendProperties, EndsAppend, LenProperties
<1>2. /\ Size(v) = z + Width[c] /\ z \in Nat /\ Width[c] \in 1 .. 3
      /\ \A q \in 1 .. z : Encoding(v)[q] = Encoding(u)[q]
      /\ \A q \in z + 1 .. z + Width[c] : Encoding(v)[q] = <<c, q - z>>
  BY SizeAppend, EncodingType, WidthIs, EncodingAppendAt
<1>3. /\ \A n \in 0 .. k : End(u, n) \in Nat /\ (n # k => End(u, n) < z)
      /\ End(u, k) = z
  <2>1. \A n \in 0 .. k : n # k => n < k BY <1>1
  <2> QED BY <2>1, <1>1, <1>2, EndsOrdered
<1> HIDE DEF v, z, k
<1> SUFFICES ASSUME NEW p \in 1 .. Size(v)
             PROVE  ~Continues(Encoding(v)[p]) <=>
                      \E n \in 0 .. Len(v) - 1 : p = End(v, n) + 1
  BY DEF Bounded, v
<1>4. p \in Nat /\ Len(v) - 1 = k
  BY <1>1, <1>2
<1>5. CASE p <= z
  <2>1. p \in 1 .. z
    BY <1>4, <1>5
  <2>2. ~Continues(Encoding(v)[p]) <=> \E n \in 0 .. k - 1 : p = End(u, n) + 1
    BY <1>2, <2>1 DEF Bounded, z, k
  <2>3. ASSUME NEW n \in 0 .. k - 1, p = End(u, n) + 1
        PROVE  \E m \in 0 .. k : p = End(v, m) + 1
    <3>1. n \in 0 .. k BY <1>1
    <3> QED BY <3>1, <2>3, <1>1
  <2>4. ASSUME NEW n \in 0 .. k, p = End(v, n) + 1
        PROVE  \E m \in 0 .. k - 1 : p = End(u, m) + 1
    <3>1. n # k BY <2>4, <1>1, <1>3, <1>5, <1>2
    <3>2. n \in 0 .. k - 1 BY <3>1, <1>1
    <3> QED BY <3>2, <2>4, <1>1
  <2> QED BY <2>2, <2>3, <2>4, <1>4
<1>6. CASE ~(p <= z)
  <2>1. p \in z + 1 .. z + Width[c]
    BY <1>2, <1>4, <1>6
  <2>2. Encoding(v)[p] = <<c, p - z>>
    BY <1>2, <2>1
  <2>3. ~Continues(Encoding(v)[p]) <=> p = z + 1
    BY <2>1, <2>2, <1>2, <1>4 DEF Continues
  <2>4. ASSUME NEW n \in 0 .. k, p = End(v, n) + 1 PROVE p = z + 1
    <3>1. End(v, n) = End(u, n) BY <1>1
    <3>2. End(u, n) \in Nat /\ (n # k => End(u, n) < z) BY <1>3
    <3>3. n = k BY <3>1, <3>2, <2>4, <2>1, <1>2
    <3> QED BY <3>1, <3>3, <2>4, <1>3
  <2>5. k \in 0 .. k /\ End(v, k) = z
    BY <1>1, <1>3
  <2> QED BY <2>3, <2>4, <2>5, <1>4
<1> QED BY <1>5, <1>6

LEMMA Boundaries ==
  ASSUME NEW s \in Seq(Chars)
  PROVE  Bounded(s)
<1> DEFINE S == {u \in Seq(Chars) : Bounded(u)}
<1>1. <<>> \in S
  <2>1. Size(<<>>) = 0 BY EncodingEmpty, EmptySeq DEF Size
  <2> QED BY <2>1, EmptySeq DEF Bounded
<1>2. ASSUME NEW u \in Seq(Chars), NEW c \in Chars, u \in S
      PROVE  Append(u, c) \in S
  BY <1>2, BoundedAppend, AppendProperties
<1>3. Seq(Chars) \subseteq S
  <2> HIDE DEF S
  <2> QED BY <1>1, <1>2, SeqInductionSet
<1> QED BY <1>3

LEMMA NatMaximum ==
  ASSUME NEW k \in Nat, NEW T, T \subseteq 0 .. k, T # {}
  PROVE  \E n \in T : \A m \in T : m <= n
<1> DEFINE S == {j \in Nat : \A U \in SUBSET (0 .. j) : U # {} => \E n \in U : \A m \in U : m <= n}
<1>1. 0 \in S
  <2> SUFFICES ASSUME NEW U \in SUBSET (0 .. 0), U # {}
               PROVE  \E n \in U : \A m \in U : m <= n
    OBVIOUS
  <2>1. \A m \in U : m = 0 OBVIOUS
  <2>2. 0 \in U BY <2>1
  <2> QED BY <2>1, <2>2
<1>2. ASSUME NEW j \in Nat, j \in S PROVE j + 1 \in S
  <2> SUFFICES ASSUME NEW U \in SUBSET (0 .. j + 1), U # {}
               PROVE  \E n \in U : \A m \in U : m <= n
    OBVIOUS
  <2>1. CASE j + 1 \in U
    <3>1. \A m \in U : m <= j + 1 OBVIOUS
    <3> QED BY <2>1, <3>1
  <2>2. CASE j + 1 \notin U
    <3>1. U \in SUBSET (0 .. j)
      <4> SUFFICES ASSUME NEW m \in U PROVE m \in 0 .. j OBVIOUS
      <4>1. m \in 0 .. j + 1 /\ m # j + 1 BY <2>2
      <4> QED BY <4>1
    <3> QED BY <3>1, <1>2
  <2> QED BY <2>1, <2>2
<1>3. Nat \subseteq S
  <2> HIDE DEF S
  <2> QED BY <1>1, <1>2, NatInductionSet
<1> QED BY <1>3

\* The nth character is the last that ends at or before the index.
LastWithin(s, index, n) ==
  /\ n \in 0 .. Len(s) /\ End(s, n) <= index
  /\ \A m \in 0 .. Len(s) : End(s, m) <= index => m <= n

LEMMA FitsLast ==
  ASSUME NEW s \in Seq(Chars), NEW index \in Nat
  PROVE  \E n \in 0 .. Len(s) : LastWithin(s, index, n)
<1> DEFINE T == {n \in 0 .. Len(s) : End(s, n) <= index}
<1>1. T \subseteq 0 .. Len(s) /\ Len(s) \in Nat
  BY LenProperties
<1>2. 0 \in T
  BY EndsOrdered, LenProperties
<1>3. \E n \in T : \A m \in T : m <= n
  <2> HIDE DEF T
  <2> QED BY <1>1, <1>2, NatMaximum
<1> QED BY <1>3 DEF LastWithin

LEMMA FittingIs ==
  ASSUME string \in Seq(Chars), NEW index \in Nat, NEW n, LastWithin(string, index, n)
  PROVE  Fitting(index) = SubSeq(string, 1, n)
<1> DEFINE T == {m \in 0 .. Len(string) : Len(Encoding(SubSeq(string, 1, m))) <= index}
<1>1. n \in T /\ \A m \in T : m <= n
  BY DEF LastWithin, End, Size
<1>2. T \subseteq Int
  BY LenProperties
<1>3. (CHOOSE i \in T : \A m \in T : m <= i) = n
  <2> HIDE DEF T
  <2>1. ASSUME NEW i \in T, \A m \in T : m <= i PROVE i = n
    <3>1. i <= n /\ n <= i BY <1>1, <2>1
    <3> QED BY <3>1, <1>1, <1>2
  <2> QED BY <1>1, <2>1
<1> QED BY <1>3 DEF Fitting

\* What FloorCharBoundary looks for.
IsFloor(bytes, index, i) ==
  /\ i = 0 \/ ~Continues(bytes[i + 1])
  /\ \A j \in i + 1 .. index : Continues(bytes[j + 1])

LEMMA FloorUnique ==
  ASSUME NEW bytes, NEW index \in Nat, NEW i \in 0 .. index, IsFloor(bytes, index, i),
         index < Len(bytes), Len(bytes) \in Nat
  PROVE  FloorCharBoundary(bytes, index) = i
<1>1. ASSUME NEW h \in 0 .. index, IsFloor(bytes, index, h) PROVE h = i
  <2>1. ~(h < i)
    <3> SUFFICES ASSUME h < i PROVE FALSE OBVIOUS
    <3>1. i \in h + 1 .. index /\ i # 0 OBVIOUS
    <3> QED BY <3>1, <1>1 DEF IsFloor
  <2>2. ~(i < h)
    <3> SUFFICES ASSUME i < h PROVE FALSE OBVIOUS
    <3>1. h \in i + 1 .. index /\ h # 0 OBVIOUS
    <3> QED BY <3>1, <1>1 DEF IsFloor
  <2> QED BY <2>1, <2>2
<1>2. (CHOOSE h \in 0 .. index : IsFloor(bytes, index, h)) = i
  BY <1>1
<1>3. ~(index >= Len(bytes))
  OBVIOUS
<1> QED BY <1>2, <1>3 DEF FloorCharBoundary, IsFloor

\* The boundary at or before an index of the bytes, if they begin with a string,
\* is where the last character ends that fits.
LEMMA Floor ==
  ASSUME NEW s \in Seq(Chars), NEW bytes, Len(bytes) \in Nat, Size(s) <= Len(bytes),
         \A p \in 1 .. Size(s) : bytes[p] = Encoding(s)[p],
         NEW index \in 0 .. Size(s),
         index = Size(s) /\ index < Len(bytes) => ~Continues(bytes[index + 1]),
         NEW n, LastWithin(s, index, n)
  PROVE  FloorCharBoundary(bytes, index) = End(s, n)
<1> DEFINE z == Size(s)
           k == Len(s)
           e == End(s, n)
<1>1. /\ z \in Nat /\ k \in Nat /\ n \in 0 .. k /\ e \in 0 .. z /\ e <= index
      /\ End(s, k) = z /\ index \in 0 .. z /\ (n # k => e < z)
      /\ \A m \in 0 .. k : End(s, m) <= index => m <= n
      /\ \A m \in 0 .. k : m < n => End(s, m) < e
  <2>1. z \in Nat /\ k \in Nat /\ n \in 0 .. k /\ e <= index /\ k \in 0 .. k
    BY EncodingType, LenProperties DEF LastWithin
  <2>2. n # k => n < k BY <2>1
  <2> QED BY <2>1, <2>2, EndsOrdered DEF LastWithin
<1>2. \A p \in 1 .. z : ~Continues(bytes[p]) <=> \E m \in 0 .. k - 1 : p = End(s, m) + 1
  BY Boundaries DEF Bounded
<1>3. \A m \in 0 .. k : End(s, m) \in 0 .. z
  BY EndsOrdered
<1>4. CASE index >= Len(bytes)
  <2>1. index = z /\ index = Len(bytes) /\ k <= n
    <3>1. index = z BY <1>1, <1>4
    <3> QED BY <3>1, <1>1, <1>4
  <2>2. e = z BY <2>1, <1>1
  <2> QED BY <2>1, <2>2, <1>4 DEF FloorCharBoundary
<1>5. CASE index < Len(bytes)
  <2>1. e = 0 \/ ~Continues(bytes[e + 1])
    <3>1. CASE n = k
      <4>1. e = index /\ index = z BY <3>1, <1>1
      <4> QED BY <4>1, <1>5
    <3>2. CASE n # k
      <4>1. e + 1 \in 1 .. z /\ n \in 0 .. k - 1 BY <3>2, <1>1
      <4> QED BY <4>1, <1>2
    <3> QED BY <3>1, <3>2
  <2>2. ASSUME NEW j \in e + 1 .. index PROVE Continues(bytes[j + 1])
    <3> SUFFICES ASSUME ~Continues(bytes[j + 1]) PROVE FALSE OBVIOUS
    <3>0. j \in Nat /\ j <= z /\ e < j /\ j <= index BY <1>1
    <3>1. CASE j = z
      <4>1. index = z BY <3>0, <3>1, <1>1
      <4>2. k <= n BY <4>1, <1>1
      <4> QED BY <4>2, <1>1, <3>0, <3>1
    <3>2. CASE j # z
      <4>1. j + 1 \in 1 .. z BY <3>0, <3>2, <1>1
      <4>2. PICK m \in 0 .. k - 1 : j + 1 = End(s, m) + 1 BY <4>1, <1>2
      <4>3. m \in 0 .. k /\ End(s, m) = j
        <5>1. m \in 0 .. k BY <1>1
        <5>2. End(s, m) \in 0 .. z BY <5>1, <1>3
        <5> QED BY <5>1, <5>2, <4>2, <3>0
      <4>4. m <= n BY <4>3, <3>0, <1>1
      <4>5. End(s, m) <= e
        <5>1. CASE m = n BY <5>1, <1>1
        <5>2. CASE m # n
          <6>1. m < n BY <4>3, <4>4, <5>2, <1>1
          <6>2. End(s, m) < e BY <4>3, <6>1, <1>1
          <6>3. End(s, m) \in 0 .. z BY <4>3, <1>3
          <6> QED BY <6>2, <6>3, <1>1
        <5> QED BY <5>1, <5>2
      <4> QED BY <4>3, <4>5, <3>0, <1>1
    <3> QED BY <3>1, <3>2
  <2>3. IsFloor(bytes, index, e) BY <2>1, <2>2 DEF IsFloor
  <2>4. e \in 0 .. index /\ index \in Nat BY <1>1
  <2> HIDE DEF e
  <2>5. FloorCharBoundary(bytes, index) = e BY <2>3, <2>4, <1>5, FloorUnique
  <2> QED BY <2>5 DEF e
<1> QED BY <1>1, <1>4, <1>5

-----------------------------------------------------------------------------
(* SmolStrBuilder2.                                                        *)

\* Behind the string the buffer has no byte that continues it.
BuilderInv ==
  /\ variant \in {"Inline", "Heap"} /\ size \in 0 .. MaxInline
  /\ buffer \in Seq(Bytes) /\ Len(buffer) = MaxInline
  /\ heap \in Seq(Bytes) /\ string \in Seq(Chars) /\ truncated \in BOOLEAN
  /\ AsBytes = Encoding(string)
  /\ variant = "Inline" /\ size < MaxInline => ~Continues(buffer[size + 1])
  /\ variant = "Inline" /\ ~truncated =>
       \A i \in size + 1 .. MaxInline : buffer[i] = ZeroByte

LEMMA Held ==
  ASSUME BuilderInv
  PROVE  /\ Size(string) = IF variant = "Inline" THEN size ELSE Len(heap)
         /\ variant = "Inline" => \A p \in 1 .. size : buffer[p] = Encoding(string)[p]
<1>1. CASE variant = "Inline"
  <2>1. Len(SubSeq(buffer, 1, size)) = size
        /\ \A p \in 1 .. size : SubSeq(buffer, 1, size)[p] = buffer[p]
    BY Ssb2Assumption, SubSeqProperties DEF BuilderInv
  <2> QED BY <1>1, <2>1 DEF BuilderInv, AsBytes, Size
<1>2. CASE variant # "Inline"
  BY <1>2 DEF BuilderInv, AsBytes, Size
<1> QED BY <1>1, <1>2

\* A sequence with bytes written behind its first n.
Over(old, bytes, n) ==
  [i \in 1 .. Len(old) |-> IF i - n \in DOMAIN bytes THEN bytes[i - n] ELSE old[i]]

LEMMA WriteBehind ==
  ASSUME NEW B, NEW old \in Seq(B), NEW bytes \in Seq(B), NEW n \in Nat,
         n + Len(bytes) <= Len(old)
  PROVE  /\ Over(old, bytes, n) \in Seq(B) /\ Len(Over(old, bytes, n)) = Len(old)
         /\ SubSeq(Over(old, bytes, n), 1, n + Len(bytes)) = SubSeq(old, 1, n) \o bytes
         /\ \A i \in n + Len(bytes) + 1 .. Len(old) : Over(old, bytes, n)[i] = old[i]
<1> DEFINE new == [i \in 1 .. Len(old) |->
                     IF i - n \in DOMAIN bytes THEN bytes[i - n] ELSE old[i]]
<1>0. Len(bytes) \in Nat /\ Len(old) \in Nat /\ DOMAIN bytes = 1 .. Len(bytes)
  BY LenProperties
<1>1. new \in Seq(B) /\ Len(new) = Len(old)
  <2>1. ASSUME NEW i \in 1 .. Len(old)
        PROVE  (IF i - n \in DOMAIN bytes THEN bytes[i - n] ELSE old[i]) \in B
    BY ElementOfSeq, <1>0
  <2>2. new \in [1 .. Len(old) -> B]
    BY <2>1
  <2> QED BY <2>2, <1>0
<1>2. \A i \in 1 .. n : new[i] = old[i]
  BY <1>0
<1>3. \A i \in 1 .. Len(bytes) : new[n + i] = bytes[i]
  <2> TAKE i \in 1 .. Len(bytes)
  <2>1. n + i \in 1 .. Len(old) /\ (n + i) - n = i
    BY <1>0
  <2>2. (n + i) - n \in DOMAIN bytes
    BY <2>1, <1>0
  <2> QED BY <2>1, <2>2
<1>4. \A i \in n + Len(bytes) + 1 .. Len(old) : new[i] = old[i]
  <2> TAKE i \in n + Len(bytes) + 1 .. Len(old)
  <2>1. i \in 1 .. Len(old) /\ i - n \notin DOMAIN bytes
    BY <1>0
  <2> QED BY <2>1
<1> DEFINE a == SubSeq(new, 1, n + Len(bytes))
           b == SubSeq(old, 1, n)
<1>5. /\ a \in Seq(B) /\ Len(a) = n + Len(bytes)
      /\ \A i \in 1 .. n + Len(bytes) : a[i] = new[i]
  BY <1>0, <1>1, SubSeqProperties
<1>6. /\ b \in Seq(B) /\ Len(b) = n
      /\ \A i \in 1 .. n : b[i] = old[i]
  BY <1>0, SubSeqProperties
<1> HIDE DEF a, b
<1>7. /\ b \o bytes \in Seq(B) /\ Len(b \o bytes) = n + Len(bytes)
      /\ \A i \in 1 .. n + Len(bytes) :
           (b \o bytes)[i] = IF i <= n THEN b[i] ELSE bytes[i - n]
  BY <1>6, ConcatProperties
<1>8. ASSUME NEW i \in 1 .. n + Len(bytes) PROVE a[i] = (b \o bytes)[i]
  <2>1. CASE i <= n
    <3>1. i \in 1 .. n BY <2>1
    <3> QED BY <2>1, <3>1, <1>2, <1>5, <1>6, <1>7
  <2>2. CASE ~(i <= n)
    <3>1. i - n \in 1 .. Len(bytes) /\ n + (i - n) = i BY <2>2, <1>0
    <3>2. new[n + (i - n)] = bytes[i - n] BY <3>1, <1>3
    <3>3. new[i] = bytes[i - n] BY <3>1, <3>2
    <3> QED BY <2>2, <3>3, <1>5, <1>7
  <2> QED BY <2>1, <2>2
<1>9. a = b \o bytes
  BY <1>5, <1>7, <1>8, SeqEqual
<1> QED BY <1>1, <1>4, <1>9 DEF a, b, Over

LEMMA ExtendKeeps ==
  ASSUME BuilderInv, ~PushAfterTruncate, NEW s \in Seq(Chars), Extend(s, TRUE)
  PROVE  BuilderInv'
<1> DEFINE bytes == Encoding(s)
<1>1. bytes \in Seq(Bytes) /\ Len(bytes) \in Nat
  BY EncodingType, LenProperties
<1>2. ~truncated /\ truncated' = truncated /\ string' = string \o s
      /\ AppendBytes(bytes, TRUE)
  BY DEF Extend
<1>3. string' \in Seq(Chars) /\ Encoding(string') = Encoding(string) \o bytes
  BY <1>2, EncodingConcat, ConcatProperties DEF BuilderInv
<1>4. AsBytes \in Seq(Bytes)
  BY EncodingType DEF BuilderInv
<1> HIDE DEF bytes
<1>5. CASE variant = "Inline" /\ ~Moves(Len(bytes))
  <2>1. /\ buffer' = Written(bytes) /\ size' = size + Len(bytes)
        /\ variant' = variant /\ heap' = heap /\ size + Len(bytes) <= MaxInline
    BY <1>5, <1>2, <1>1, Ssb2Assumption DEF AppendBytes, Moves, BuilderInv
  <2>2. /\ buffer' \in Seq(Bytes) /\ Len(buffer') = MaxInline
        /\ SubSeq(buffer', 1, size + Len(bytes)) = SubSeq(buffer, 1, size) \o bytes
        /\ \A i \in size + Len(bytes) + 1 .. MaxInline : buffer'[i] = buffer[i]
    <3>1. buffer \in Seq(Bytes) /\ Len(buffer) = MaxInline /\ size \in Nat
      BY Ssb2Assumption DEF BuilderInv
    <3>2. buffer' = Over(buffer, bytes, size)
      BY <2>1, <3>1 DEF Written, Over
    <3> DEFINE old == buffer
               z == size
    <3>3. old \in Seq(Bytes) /\ z \in Nat /\ z + Len(bytes) <= Len(old)
      BY <3>1, <2>1
    <3> HIDE DEF old, z
    <3>4. /\ Over(old, bytes, z) \in Seq(Bytes) /\ Len(Over(old, bytes, z)) = Len(old)
          /\ SubSeq(Over(old, bytes, z), 1, z + Len(bytes)) = SubSeq(old, 1, z) \o bytes
          /\ \A i \in z + Len(bytes) + 1 .. Len(old) : Over(old, bytes, z)[i] = old[i]
      BY <3>3, <1>1, WriteBehind
    <3> QED BY <3>1, <3>2, <3>4 DEF old, z
  <2>3. AsBytes' = Encoding(string')
    BY <2>1, <2>2, <1>3, <1>5 DEF AsBytes, BuilderInv
  <2>4. \A i \in size' + 1 .. MaxInline : buffer'[i] = ZeroByte
    <3> TAKE i \in size' + 1 .. MaxInline
    <3>1. i \in size + Len(bytes) + 1 .. MaxInline /\ i \in size + 1 .. MaxInline
      BY <2>1, <1>1, Ssb2Assumption DEF BuilderInv
    <3>2. buffer'[i] = buffer[i]
      BY <3>1, <2>2
    <3>3. buffer[i] = ZeroByte
      BY <3>1, <1>2, <1>5 DEF BuilderInv
    <3> QED BY <3>2, <3>3
  <2>5. size' \in 0 .. MaxInline
    BY <2>1, <1>1, Ssb2Assumption DEF BuilderInv
  <2>6. size' < MaxInline => ~Continues(buffer'[size' + 1])
    <3> SUFFICES ASSUME size' < MaxInline PROVE ~Continues(buffer'[size' + 1])
      OBVIOUS
    <3>0. size' + 1 \in size' + 1 .. MaxInline
      <4>1. size' \in Nat /\ MaxInline \in Nat /\ size' < MaxInline
        BY <2>5, Ssb2Assumption
      <4>2. \A a, b \in Nat : a < b => a + 1 \in a + 1 .. b OBVIOUS
      <4> QED BY <4>1, <4>2
    <3>1. buffer'[size' + 1] = ZeroByte BY <2>4, <3>0
    <3> QED BY <3>1 DEF Continues, ZeroByte
  <2> QED BY <1>2, <1>3, <2>1, <2>2, <2>3, <2>4, <2>5, <2>6 DEF BuilderInv
<1>6. CASE ~(variant = "Inline" /\ ~Moves(Len(bytes)))
  <2>1. /\ variant' = "Heap" /\ heap' = AsBytes \o bytes
        /\ size' = size /\ buffer' = buffer
    BY <1>6, <1>2 DEF AppendBytes
  <2>2. heap' \in Seq(Bytes)
    BY <2>1, <1>1, <1>4, ConcatProperties
  <2>3. AsBytes' = Encoding(string')
    BY <2>1, <1>3 DEF AsBytes, BuilderInv
  <2> QED BY <1>2, <1>3, <2>1, <2>2, <2>3 DEF BuilderInv
<1> QED BY <1>5, <1>6

LEMMA BeginningBytes ==
  ASSUME NEW s \in Seq(Chars), NEW bytes \in Seq(Bytes), Size(s) <= Len(bytes),
         \A p \in 1 .. Size(s) : bytes[p] = Encoding(s)[p], NEW n \in 0 .. Len(s)
  PROVE  SubSeq(bytes, 1, End(s, n)) = Encoding(SubSeq(s, 1, n))
<1> DEFINE e == Encoding(SubSeq(s, 1, n))
           z == Len(e)
           b == SubSeq(bytes, 1, z)
<1>1. /\ SubSeq(s, 1, n) \in Seq(Chars) /\ z \in 0 .. Size(s) /\ Size(s) \in Nat
      /\ \A i \in 1 .. z : e[i] = Encoding(s)[i]
  BY StringBeginning, EncodingType DEF Size
<1>2. e \in Seq(Bytes)
  BY <1>1, EncodingType
<1>3. \A i \in 1 .. z : e[i] = bytes[i]
  BY <1>1
<1> HIDE DEF e
<1>4. b \in Seq(Bytes) /\ Len(b) = z /\ \A i \in 1 .. z : b[i] = bytes[i]
  BY <1>1, SubSeqProperties, LenProperties
<1> HIDE DEF b
<1>5. b = e
  BY <1>2, <1>3, <1>4, SeqEqual
<1> QED BY <1>5 DEF b, e, End, Size

LEMMA TruncateKeeps ==
  ASSUME BuilderInv, NEW len \in Nat, TruncateFloor(len)
  PROVE  BuilderInv'
<1>1. PICK n \in 0 .. Len(string) : LastWithin(string, len, n)
  BY FitsLast DEF BuilderInv
<1> DEFINE e == End(string, n)
<1>2. string \in Seq(Chars)
  BY DEF BuilderInv
<1>3. string' = SubSeq(string, 1, n) /\ string' \in Seq(Chars) /\ truncated' = TRUE
  BY <1>1, <1>2, FittingIs, StringBeginning DEF TruncateFloor
<1>4. e \in 0 .. Size(string) /\ Size(string) \in Nat /\ e <= len
  BY <1>1, <1>2, EndsOrdered, EncodingType DEF LastWithin
<1>5. variant' = variant /\ buffer' = buffer
  BY DEF TruncateFloor
<1>6. ASSUME NEW index \in Nat, index <= len, index <= Size(string), len = index \/ index = Size(string)
      PROVE  index \in 0 .. Size(string) /\ LastWithin(string, index, n)
  <2>1. index \in 0 .. Size(string) BY <1>6, <1>4
  <2>2. \A m \in 0 .. Len(string) : End(string, m) <= index => End(string, m) <= len
    <3> TAKE m \in 0 .. Len(string)
    <3>1. End(string, m) \in 0 .. Size(string) BY <1>2, EndsOrdered
    <3> QED BY <3>1, <1>6, <1>4
  <2>3. e <= index BY <1>6, <1>4
  <2> QED BY <2>1, <2>2, <2>3, <1>1 DEF LastWithin
<1>7. CASE variant = "Inline"
  <2> DEFINE index == IF len < size THEN len ELSE size
  <2>1. size' = FloorCharBoundary(buffer, index) /\ heap' = heap
    BY <1>7 DEF TruncateFloor
  <2>2. /\ Size(string) = size /\ Len(buffer) = MaxInline /\ MaxInline \in Nat
        /\ buffer \in Seq(Bytes) /\ size \in 0 .. MaxInline
        /\ \A p \in 1 .. size : buffer[p] = Encoding(string)[p]
    BY <1>7, Held, Ssb2Assumption DEF BuilderInv
  <2>3. index \in Nat /\ index <= len /\ index <= size /\ (len = index \/ index = size)
    BY <2>2
  <2> HIDE DEF index
  <2>4. index \in 0 .. Size(string) /\ LastWithin(string, index, n)
    BY <2>2, <2>3, <1>6
  <2>5. index = Size(string) /\ index < Len(buffer) => ~Continues(buffer[index + 1])
    BY <1>7, <2>2 DEF BuilderInv
  <2>6. FloorCharBoundary(buffer, index) = e
    BY <1>2, <2>2, <2>4, <2>5, Floor
  <2>7. SubSeq(buffer, 1, e) = Encoding(string')
    BY <1>2, <1>3, <2>2, BeginningBytes
  <2>8. AsBytes' = Encoding(string')
    BY <1>5, <1>7, <2>1, <2>6, <2>7 DEF AsBytes
  <2>9. e < MaxInline => ~Continues(buffer[e + 1])
    <3> SUFFICES ASSUME e < MaxInline PROVE ~Continues(buffer[e + 1])
      OBVIOUS
    <3>1. CASE n = Len(string)
      <4>1. e = size BY <3>1, <1>2, <2>2, EndsOrdered
      <4> QED BY <4>1, <1>7, <2>2 DEF BuilderInv
    <3>2. CASE n # Len(string)
      <4>1. n \in 0 .. Len(string) - 1 /\ n < Len(string) /\ Len(string) \in 0 .. Len(string)
        BY <3>2, <1>2, LenProperties
      <4>2. e < Size(string) BY <4>1, <1>2, EndsOrdered
      <4>3. e + 1 \in 1 .. Size(string) BY <4>2, <1>4
      <4>4. ~Continues(Encoding(string)[e + 1])
        BY <4>1, <4>3, <1>2, Boundaries DEF Bounded
      <4> QED BY <4>3, <4>4, <2>2
    <3> QED BY <3>1, <3>2
  <2>10. size' = e /\ e \in 0 .. MaxInline
    BY <2>1, <2>6, <1>4, <2>2
  <2> HIDE DEF e
  <2> QED BY <1>3, <1>5, <2>1, <2>8, <2>9, <2>10, <1>7 DEF BuilderInv
<1>8. CASE variant # "Inline"
  <2>1. heap' = SubSeq(heap, 1, FloorCharBoundary(heap, len)) /\ size' = size
    BY <1>8 DEF TruncateFloor
  <2>2. /\ heap \in Seq(Bytes) /\ heap = Encoding(string) /\ Len(heap) = Size(string)
        /\ Len(heap) \in Nat /\ variant = "Heap"
    BY <1>8, <1>4 DEF BuilderInv, AsBytes, Size
  <2>3. FloorCharBoundary(heap, len) = e
    <3>1. CASE len >= Len(heap)
      <4>1. FloorCharBoundary(heap, len) = Size(string)
        BY <3>1, <2>2 DEF FloorCharBoundary
      <4>2. End(string, Len(string)) = Size(string) /\ Len(string) \in 0 .. Len(string)
        BY <1>2, EndsOrdered, LenProperties
      <4>3. Len(string) <= n
        BY <4>2, <1>1, <3>1, <2>2 DEF LastWithin
      <4>4. n = Len(string)
        BY <4>3, <1>1, <1>2, LenProperties
      <4> QED BY <4>1, <4>2, <4>4
    <3>2. CASE ~(len >= Len(heap))
      <4>1. len \in 0 .. Size(string) /\ LastWithin(string, len, n)
        BY <3>2, <2>2, <1>6
      <4>2. len # Size(string) BY <3>2, <2>2
      <4>3. /\ Size(string) <= Len(heap)
            /\ \A p \in 1 .. Size(string) : heap[p] = Encoding(string)[p]
        BY <2>2
      <4> QED BY <4>1, <4>2, <4>3, <2>2, <1>2, Floor
    <3> QED BY <3>1, <3>2
  <2>4. SubSeq(heap, 1, e) = Encoding(string')
    BY <1>2, <1>3, <2>2, BeginningBytes
  <2>5. heap' \in Seq(Bytes) /\ AsBytes' = Encoding(string')
    BY <1>5, <1>8, <1>3, <2>1, <2>3, <2>4, EncodingType DEF AsBytes
  <2> QED BY <1>3, <1>5, <1>8, <2>1, <2>2, <2>5 DEF BuilderInv
<1> QED BY <1>7, <1>8

LEMMA EncodingOne ==
  ASSUME NEW c \in Chars
  PROVE  Encoding(<<c>>) = Encoded(c)
<1>1. Append(<<>>, c) = <<c>> /\ <<>> \in Seq(Chars)
  OBVIOUS
<1>2. Encoding(Append(<<>>, c)) = Encoding(<<>>) \o Encoded(c)
  BY <1>1, EncodingAppend
<1>3. <<>> \o Encoded(c) = Encoded(c)
  BY EncodedType, ConcatEmptySeq
<1> QED BY <1>1, <1>2, <1>3, EncodingEmpty

LEMMA HeadConcat ==
  ASSUME NEW B, NEW a \in Seq(B), NEW e \in Seq(B), Len(a) = 1
  PROVE  /\ a \o e \in Seq(B) /\ Len(a \o e) = 1 + Len(e)
         /\ \A i \in 1 .. 1 + Len(e) : (a \o e)[i] = IF i <= 1 THEN a[i] ELSE e[i - 1]
<1>1. /\ a \o e \in Seq(B) /\ Len(a \o e) = Len(a) + Len(e)
      /\ \A i \in 1 .. Len(a) + Len(e) :
           (a \o e)[i] = IF i <= Len(a) THEN a[i] ELSE e[i - Len(a)]
  BY ConcatProperties, Z3T(30)
<1> DEFINE p == a \o e
<1> HIDE DEF p
<1>2. /\ p \in Seq(B) /\ Len(p) = 1 + Len(e)
      /\ \A i \in 1 .. 1 + Len(e) : p[i] = IF i <= 1 THEN a[i] ELSE e[i - 1]
  BY <1>1 DEF p
<1> QED BY <1>2 DEF p

LEMMA HeadReplaced ==
  ASSUME NEW B, NEW a \in Seq(B), NEW b \in Seq(B), NEW e \in Seq(B), NEW x \in B,
         Len(a) = 1, Len(b) = 1, a[1] = x
  PROVE  a \o e = [b \o e EXCEPT ![1] = x] /\ Len(b \o e) >= 1
<1>1. Len(e) \in Nat
  BY LenProperties
<1>2. /\ a \o e \in Seq(B) /\ Len(a \o e) = 1 + Len(e)
      /\ \A i \in 1 .. 1 + Len(e) : (a \o e)[i] = IF i <= 1 THEN a[i] ELSE e[i - 1]
  BY HeadConcat
<1>3. /\ b \o e \in Seq(B) /\ Len(b \o e) = 1 + Len(e)
      /\ \A i \in 1 .. 1 + Len(e) : (b \o e)[i] = IF i <= 1 THEN b[i] ELSE e[i - 1]
  BY HeadConcat
<1> DEFINE p == a \o e
           q == b \o e
<1>4. p \in Seq(B) /\ q \in Seq(B) /\ Len(p) = 1 + Len(e) /\ Len(q) = 1 + Len(e)
      /\ p[1] = x /\ \A i \in 2 .. 1 + Len(e) : p[i] = q[i]
  <2>1. ASSUME NEW i \in 2 .. 1 + Len(e) PROVE p[i] = q[i]
    <3>1. i \in 1 .. 1 + Len(e) /\ ~(i <= 1) BY <1>1
    <3> QED BY <3>1, <1>2, <1>3
  <2>2. 1 \in 1 .. 1 + Len(e) /\ 1 <= 1 BY <1>1
  <2>3. p[1] = x BY <2>2, <1>2
  <2> QED BY <1>2, <1>3, <2>1, <2>3
<1> HIDE DEF p, q
<1>5. /\ [q EXCEPT ![1] = x] \in Seq(B) /\ Len([q EXCEPT ![1] = x]) = 1 + Len(e)
      /\ \A i \in 1 .. 1 + Len(e) : [q EXCEPT ![1] = x][i] = IF i = 1 THEN x ELSE q[i]
  <2>1. DOMAIN q = 1 .. 1 + Len(e) /\ 1 \in 1 .. Len(q)
    BY <1>1, <1>4, LenProperties
  <2> QED BY <2>1, <1>4, ExceptSeq
<1>6. ASSUME NEW i \in 1 .. 1 + Len(e) PROVE p[i] = [q EXCEPT ![1] = x][i]
  <2>1. CASE i = 1 BY <2>1, <1>4, <1>5
  <2>2. CASE i # 1
    <3>1. i \in 2 .. 1 + Len(e) BY <2>2, <1>1
    <3> QED BY <2>2, <3>1, <1>4, <1>5
  <2> QED BY <2>1, <2>2
<1>7. p = [q EXCEPT ![1] = x]
  BY <1>4, <1>5, <1>6, SeqEqual
<1> QED BY <1>1, <1>4, <1>7 DEF p, q

\* The first character of a string replaced, both of one byte.
LEMMA EncodingSwap ==
  ASSUME NEW s \in Seq(Chars), s # <<>>, NEW c \in Ascii, s[1] \in Ascii
  PROVE  /\ [s EXCEPT ![1] = c] \in Seq(Chars)
         /\ Encoding([s EXCEPT ![1] = c]) = [Encoding(s) EXCEPT ![1] = <<c, 1>>]
         /\ Size(s) >= 1
<1> DEFINE t == [s EXCEPT ![1] = c]
           n == Len(s)
           rest == SubSeq(s, 2, n)
<1>0. n \in Nat \ {0} /\ c \in Chars /\ s[1] \in Chars /\ Width[c] = 1 /\ Width[s[1]] = 1
  BY EmptySeq, LenProperties DEF Ascii
<1>1. t \in Seq(Chars) /\ Len(t) = n /\ t[1] = c /\ \A i \in 2 .. n : t[i] = s[i]
  BY <1>0, ExceptSeq
<1>2. rest \in Seq(Chars) /\ Len(rest) = n - 1 /\ \A i \in 1 .. n - 1 : rest[i] = s[i + 1]
  <2>1. n - 2 + 1 = n - 1 /\ \A i \in 1 .. n - 1 : 2 + i - 1 = i + 1 BY <1>0
  <2> QED BY <1>0, <2>1, SubSeqProperties
<1> HIDE DEF t, rest, n
<1>3. ASSUME NEW u \in Seq(Chars), NEW a \in Chars, Len(u) = n, u[1] = a, \A i \in 2 .. n : u[i] = s[i]
      PROVE  u = <<a>> \o rest
  <2>1. <<a>> \in Seq(Chars) /\ Len(<<a>>) = 1 /\ <<a>>[1] = a
    OBVIOUS
  <2>2. /\ <<a>> \o rest \in Seq(Chars) /\ Len(<<a>> \o rest) = n
        /\ \A i \in 1 .. n : (<<a>> \o rest)[i] = IF i <= 1 THEN <<a>>[i] ELSE rest[i - 1]
    BY <2>1, <1>2, <1>0, ConcatProperties
  <2>3. ASSUME NEW i \in 1 .. n PROVE u[i] = (<<a>> \o rest)[i]
    <3>1. CASE i = 1 BY <3>1, <2>1, <2>2, <1>3
    <3>2. CASE i # 1
      <4>1. i - 1 \in 1 .. n - 1 /\ (i - 1) + 1 = i /\ i \in 2 .. n /\ ~(i <= 1)
        BY <3>2, <1>0
      <4>2. rest[i - 1] = s[i] BY <4>1, <1>2
      <4> QED BY <4>1, <4>2, <2>2, <1>3
    <3> QED BY <3>1, <3>2
  <2> QED BY <1>3, <2>2, <2>3, SeqEqual
<1>4. t = <<c>> \o rest
  BY <1>0, <1>1, <1>3
<1>5. s = <<s[1]>> \o rest
  BY <1>0, <1>3 DEF n
<1>6. /\ Encoding(t) = Encoded(c) \o Encoding(rest)
      /\ Encoding(s) = Encoded(s[1]) \o Encoding(rest)
  <2>1. <<c>> \in Seq(Chars) /\ <<s[1]>> \in Seq(Chars) BY <1>0
  <2> QED BY <2>1, <1>0, <1>2, <1>4, <1>5, EncodingConcat, EncodingOne
<1> DEFINE e == Encoding(rest)
<1>7. e \in Seq(Bytes)
  BY <1>2, EncodingType
<1>8. /\ Encoded(c) \in Seq(Bytes) /\ Encoded(s[1]) \in Seq(Bytes)
      /\ Len(Encoded(c)) = 1 /\ Len(Encoded(s[1])) = 1 /\ Encoded(c)[1] = <<c, 1>>
      /\ <<c, 1>> \in Bytes
  <2>1. <<c, 1>> \in Bytes BY <1>0 DEF Bytes
  <2>2. 1 \in 1 .. Width[c] BY <1>0
  <2>3. Encoded(c)[1] = <<c, 1>> BY <1>0, <2>2, EncodedType
  <2>4. Encoded(c) \in Seq(Bytes) /\ Len(Encoded(c)) = 1 BY <1>0, EncodedType
  <2>5. Encoded(s[1]) \in Seq(Bytes) /\ Len(Encoded(s[1])) = 1 BY <1>0, EncodedType
  <2> QED BY <2>1, <2>3, <2>4, <2>5
<1> HIDE DEF e
<1>9. Encoded(c) \o e = [Encoded(s[1]) \o e EXCEPT ![1] = <<c, 1>>] /\ Len(Encoded(s[1]) \o e) >= 1
  <2> DEFINE a == Encoded(c)
             b == Encoded(s[1])
             x == <<c, 1>>
             B == Bytes
  <2>1. /\ a \in Seq(B) /\ b \in Seq(B) /\ Len(a) = 1 /\ Len(b) = 1 /\ a[1] = x
        /\ x \in B /\ e \in Seq(B)
    BY <1>7, <1>8
  <2> HIDE DEF a, b, x, B
  <2>2. a \o e = [b \o e EXCEPT ![1] = x] /\ Len(b \o e) >= 1
    BY <2>1, HeadReplaced
  <2> QED BY <2>2 DEF a, b, x
<1> QED BY <1>1, <1>6, <1>9 DEF t, e, Size

LEMMA SwapKeeps ==
  ASSUME BuilderInv, NEW c \in Ascii, Swap0(c)
  PROVE  BuilderInv'
<1> DEFINE x == <<c, 1>>
<1>1. /\ string' \in Seq(Chars) /\ Encoding(string') = [Encoding(string) EXCEPT ![1] = x]
      /\ Size(string) >= 1
  BY EncodingSwap DEF Swap0, BuilderInv
<1>2. variant' = variant /\ size' = size /\ truncated' = truncated
  BY DEF Swap0
<1>3. x \in Bytes /\ ~Continues(x)
  BY DEF Ascii, Bytes, Continues
<1> HIDE DEF x
<1>4. CASE variant = "Inline"
  <2>1. buffer' = [buffer EXCEPT ![1] = x] /\ heap' = heap
    BY <1>4 DEF Swap0, x
  <2>2. size \in 1 .. MaxInline /\ MaxInline \in Nat
    BY <1>1, <1>4, Held, Ssb2Assumption DEF BuilderInv
  <2>3. /\ buffer' \in Seq(Bytes) /\ Len(buffer') = MaxInline
        /\ SubSeq(buffer', 1, size) = [SubSeq(buffer, 1, size) EXCEPT ![1] = x]
        /\ \A i \in size + 1 .. MaxInline : buffer'[i] = buffer[i]
    <3> DEFINE new == [buffer EXCEPT ![1] = x]
               a == SubSeq(new, 1, size)
               b == SubSeq(buffer, 1, size)
    <3>1. /\ new \in Seq(Bytes) /\ Len(new) = MaxInline /\ new[1] = x
          /\ \A i \in 2 .. MaxInline : new[i] = buffer[i]
      BY <2>2, <1>3, ExceptSeq DEF BuilderInv
    <3> HIDE DEF new
    <3>2. a \in Seq(Bytes) /\ Len(a) = size /\ \A i \in 1 .. size : a[i] = new[i]
      BY <3>1, <2>2, SubSeqProperties
    <3>3. b \in Seq(Bytes) /\ Len(b) = size /\ \A i \in 1 .. size : b[i] = buffer[i]
      BY <2>2, SubSeqProperties DEF BuilderInv
    <3> HIDE DEF a, b
    <3>4. /\ [b EXCEPT ![1] = x] \in Seq(Bytes) /\ Len([b EXCEPT ![1] = x]) = size
          /\ \A i \in 1 .. size : [b EXCEPT ![1] = x][i] = IF i = 1 THEN x ELSE b[i]
      BY <3>3, <2>2, <1>3, ExceptSeq
    <3>5. ASSUME NEW i \in 1 .. size PROVE a[i] = [b EXCEPT ![1] = x][i]
      <4>1. CASE i = 1 BY <4>1, <3>1, <3>2, <3>4
      <4>2. CASE i # 1
        <5>1. i \in 2 .. MaxInline BY <4>2, <2>2
        <5> QED BY <4>2, <5>1, <3>1, <3>2, <3>3, <3>4
      <4> QED BY <4>1, <4>2
    <3>6. a = [b EXCEPT ![1] = x]
      BY <3>2, <3>4, <3>5, SeqEqual
    <3>7. \A i \in size + 1 .. MaxInline : new[i] = buffer[i]
      BY <3>1, <2>2
    <3> QED BY <2>1, <3>1, <3>6, <3>7 DEF new, a, b
  <2>4. AsBytes' = Encoding(string')
    BY <1>1, <1>2, <1>4, <2>3 DEF AsBytes, BuilderInv
  <2>5. size < MaxInline => ~Continues(buffer'[size + 1])
    BY <2>2, <2>3, <1>4 DEF BuilderInv
  <2>6. ~truncated => \A i \in size + 1 .. MaxInline : buffer'[i] = ZeroByte
    BY <2>3, <1>4 DEF BuilderInv
  <2> QED BY <1>1, <1>2, <2>1, <2>3, <2>4, <2>5, <2>6 DEF BuilderInv
<1>5. CASE variant # "Inline"
  <2>1. heap' = [heap EXCEPT ![1] = x] /\ buffer' = buffer
    BY <1>5 DEF Swap0, x
  <2>2. heap' = Encoding(string')
    BY <2>1, <1>1, <1>5 DEF BuilderInv, AsBytes
  <2>3. heap' \in Seq(Bytes) /\ AsBytes' = Encoding(string')
    BY <2>2, <1>1, <1>2, <1>5, EncodingType DEF AsBytes
  <2> QED BY <1>1, <1>2, <1>5, <2>1, <2>3 DEF BuilderInv
<1> QED BY <1>4, <1>5

LEMMA BuilderStarts == Ssb2Init => BuilderInv
<1> SUFFICES ASSUME Ssb2Init PROVE BuilderInv
  OBVIOUS
<1>1. buffer \in Seq(Bytes) /\ Len(buffer) = MaxInline
  <2>1. ZeroByte \in Bytes BY DEF ZeroByte, Bytes
  <2> QED BY <2>1, Ssb2Assumption DEF Ssb2Init
<1>2. AsBytes = Encoding(string)
  <2>1. SubSeq(buffer, 1, 0) = <<>>
    <3>1. SubSeq(buffer, 1, 0) \in Seq(Bytes) /\ Len(SubSeq(buffer, 1, 0)) = 0
      BY <1>1, Ssb2Assumption, SubSeqProperties
    <3> QED BY <3>1, EmptySeq
  <2> QED BY <2>1, EncodingEmpty DEF Ssb2Init, AsBytes
<1>3. \A i \in 1 .. MaxInline : buffer[i] = ZeroByte
  BY DEF Ssb2Init
<1>4. ~Continues(ZeroByte)
  BY DEF Continues, ZeroByte
<1>5. buffer[size + 1] = ZeroByte
  <2>1. size + 1 \in 1 .. MaxInline BY Ssb2Assumption DEF Ssb2Init
  <2> QED BY <2>1, <1>3
<1>6. heap \in Seq(Bytes) /\ string \in Seq(Chars)
  BY DEF Ssb2Init
<1>7. size + 1 = 1 /\ variant = "Inline" /\ truncated = FALSE /\ size \in 0 .. MaxInline
  BY Ssb2Assumption DEF Ssb2Init
<1>8. \A i \in size + 1 .. MaxInline : buffer[i] = ZeroByte
  BY <1>3, <1>7
<1> QED BY <1>1, <1>2, <1>4, <1>5, <1>6, <1>7, <1>8 DEF BuilderInv

LEMMA BuilderStep ==
  ASSUME ~Release, ~PushAfterTruncate, BuilderInv, [Ssb2Next]_ssb2Vars
  PROVE  BuilderInv'
<1>1. CASE \E c \in Chars : Push(c)
  <2>1. PICK c \in Chars : Extend(<<c>>, TRUE)
    BY <1>1 DEF Push
  <2>2. <<c>> \in Seq(Chars) OBVIOUS
  <2> QED BY <2>1, <2>2, ExtendKeeps
<1>2. CASE \E s \in SeqOf(Chars, 2) : PushStr(s)
  <2>1. PICK s \in SeqOf(Chars, 2) : Extend(s, TRUE)
    BY <1>2 DEF PushStr
  <2>2. PICK m \in 0 .. 2 : s \in [1 .. m -> Chars] BY DEF SeqOf
  <2>3. s \in Seq(Chars) BY <2>2
  <2> QED BY <2>1, <2>3, ExtendKeeps
<1>3. CASE \E c \in Ascii, n \in 0 .. MaxInline : PushRepeated(c, n)
  <2>1. PICK c \in Ascii, n \in 0 .. MaxInline : Extend([i \in 1 .. n |-> c], TRUE)
    BY <1>3 DEF PushRepeated
  <2>2. [i \in 1 .. n |-> c] \in Seq(Chars) BY Ssb2Assumption DEF Ascii
  <2> QED BY <2>1, <2>2, ExtendKeeps
<1>4. CASE \E len \in 0 .. MaxBytes : TruncateFloor(len)
  BY <1>4, TruncateKeeps
<1>5. CASE \E c \in Ascii : Swap0(c)
  BY <1>5, SwapKeeps
<1>6. CASE UNCHANGED ssb2Vars
  BY <1>6 DEF ssb2Vars, BuilderInv, AsBytes
<1> QED BY <1>1, <1>2, <1>3, <1>4, <1>5, <1>6 DEF Ssb2Next

-----------------------------------------------------------------------------

\* For buffers of any size and strings of any length, in a debug build, if no
\* string grows again that was truncated: whatever the calls and wherever the
\* bytes are kept, SmolStrBuilder2 holds the string that was asked for.
THEOREM BuilderIsFaithful ==
  ASSUME ~Release, ~PushAfterTruncate
  PROVE  Ssb2Spec => []Faithful
<1>1. BuilderInv => Faithful
  BY Ssb2Assumption DEF BuilderInv, Faithful
<1>2. BuilderInv /\ [Ssb2Next]_ssb2Vars => BuilderInv'
  BY BuilderStep
<1> QED BY <1>1, <1>2, BuilderStarts, PTL DEF Ssb2Spec

-----------------------------------------------------------------------------
(* What NumberBuilder has read, state by state.                            *)

\* u has the digits of a whole number from its ith to its jth character.
DigitRun(u, i, j, b) ==
  /\ i <= j /\ u[i] \in Digits(b)
  /\ \A k \in i .. j : u[k] \in Digits(b) \union {"underscore"}

Marks == {"e", "E"}
Letters == {"x", "o", "b"}

\* The first j characters have no exponent.
Mantissa(u, j) ==
  \/ DigitRun(u, 1, j, "Decimal")
  \/ \E i \in 1 .. j : /\ DigitRun(u, 1, i, "Decimal") /\ u[i + 1] = "."
                       /\ DigitRun(u, i + 2, j, "Decimal")

Exponential(u, j, n) ==
  /\ Mantissa(u, j) /\ u[j + 1] \in Marks
  /\ \/ DigitRun(u, j + 2, n, "Decimal")
     \/ u[j + 2] \in Signs /\ DigitRun(u, j + 3, n, "Decimal")

\* What NumberBuilder has read in a state, the sign apart.
Shape(q, b, u, n) ==
  \/ q = "MaybeBased" /\ b = "Decimal" /\ n = 1 /\ u[1] = "0"
  \/ q = "ValueStart" /\ n = 2 /\ u[1] = "0" /\ u[2] \in Letters /\ b = BaseOf(u[2])
  \/ q = "Value" /\ n > 2 /\ u[1] = "0" /\ u[2] \in Letters /\ b = BaseOf(u[2]) /\ DigitRun(u, 3, n, b)
  \/ q = "Value" /\ b = "Decimal" /\ DigitRun(u, 1, n, b) /\ ~(n = 1 /\ u[1] = "0")
  \/ q = "FractionStart" /\ b = "Decimal" /\ DigitRun(u, 1, n - 1, b) /\ u[n] = "."
  \/ q = "Fraction" /\ b = "Decimal" /\ \E i \in 1 .. n :
       DigitRun(u, 1, i, b) /\ u[i + 1] = "." /\ DigitRun(u, i + 2, n, b)
  \/ q = "ExponentStart" /\ b = "Decimal" /\ u[n] \in Marks /\ Mantissa(u, n - 1)
  \/ q = "ExponentSigned" /\ b = "Decimal" /\ u[n] \in Signs /\ u[n - 1] \in Marks
     /\ Mantissa(u, n - 2)
  \/ q = "Exponent" /\ b = "Decimal" /\ \E j \in 1 .. n : Exponential(u, j, n)

\* The arms of step(), with the base after them.
Step(q, b, c, q2, b2) ==
  \/ q = "Start" /\ c \in Signs /\ q2 = "Signed" /\ b2 = b
  \/ q \in {"Start", "Signed"} /\ c = "0" /\ q2 = "MaybeBased" /\ b2 = b
  \/ q \in {"Start", "Signed"} /\ c \in NonZero /\ q2 = "Value" /\ b2 = b
  \/ q = "MaybeBased" /\ c \in Letters /\ q2 = "ValueStart" /\ b2 = BaseOf(c)
  \/ q = "MaybeBased" /\ c \in Decimals \union {"underscore"} /\ q2 = "Value" /\ b2 = b
  \/ q = "MaybeBased" /\ c = "." /\ q2 = "FractionStart" /\ b2 = b
  \/ q = "MaybeBased" /\ c \in Marks /\ q2 = "ExponentStart" /\ b2 = b
  \/ q = "ValueStart" /\ c \in Digits(b) /\ q2 = "Value" /\ b2 = b
  \/ q = "Value" /\ c \in Digits(b) \union {"underscore"} /\ q2 = "Value" /\ b2 = b
  \/ q = "Value" /\ b = "Decimal" /\ c = "." /\ q2 = "FractionStart" /\ b2 = b
  \/ q = "Value" /\ b = "Decimal" /\ c \in Marks /\ q2 = "ExponentStart" /\ b2 = b
  \/ q = "FractionStart" /\ c \in Digits(b) /\ q2 = "Fraction" /\ b2 = b
  \/ q = "Fraction" /\ c \in Digits(b) \union {"underscore"} /\ q2 = "Fraction" /\ b2 = b
  \/ q = "Fraction" /\ c \in Marks /\ q2 = "ExponentStart" /\ b2 = b
  \/ q = "ExponentStart" /\ c \in Signs /\ q2 = "ExponentSigned" /\ b2 = b
  \/ q \in {"ExponentStart", "ExponentSigned"} /\ c \in Decimals /\ q2 = "Exponent" /\ b2 = b
  \/ q = "Exponent" /\ c \in Decimals \union {"underscore"} /\ q2 = "Exponent" /\ b2 = b

LEMMA StepIs ==
  ASSUME NEW c, NEW rule \in Rules, rule.from = state, c \in rule.on
  PROVE  Step(state, base, c, rule.to, IF rule.to = "ValueStart" THEN BaseOf(c) ELSE base)
BY Z3T(60) DEF Rules, Rule, Step, Letters, Marks, Signs

LEMMA StepAccepts ==
  ASSUME NEW c, NEW q2, NEW b2, Step(state, base, c, q2, b2)
  PROVE  Accepts(c)
BY Z3T(60) DEF Accepts, Rules, Rule, Step, Letters, Marks, Signs

\* The digits of the bases.
LEMMA DigitsAre ==
  /\ Digits("Decimal") = Decimals
  /\ \A l \in Letters : BaseOf(l) # "Decimal" /\ "1" \in Digits(BaseOf(l))
                        /\ "underscore" \notin Digits(BaseOf(l))
BY DEF Digits, Letters, BaseOf, Decimals, Hexes

Agree(u, v, n) == \A k \in 1 .. n : u[k] = v[k]

LEMMA RunSame ==
  ASSUME NEW n \in Nat, NEW u, NEW v, Agree(u, v, n), NEW i \in Nat \ {0}, NEW j \in Int, j <= n, NEW b,
         DigitRun(u, i, j, b)
  PROVE  DigitRun(v, i, j, b)
<1>1. i \in 1 .. n /\ \A k \in i .. j : k \in 1 .. n
  BY DEF DigitRun
<1> QED BY <1>1 DEF DigitRun, Agree

LEMMA MantissaSame ==
  ASSUME NEW n \in Nat, NEW u, NEW v, Agree(u, v, n), NEW j \in Int, j <= n, Mantissa(u, j)
  PROVE  Mantissa(v, j)
<1>1. CASE DigitRun(u, 1, j, "Decimal")
  BY <1>1, RunSame DEF Mantissa
<1>2. ASSUME NEW i \in 1 .. j, DigitRun(u, 1, i, "Decimal"), u[i + 1] = ".", DigitRun(u, i + 2, j, "Decimal")
      PROVE  Mantissa(v, j)
  <2>1. i + 2 <= j BY <1>2 DEF DigitRun
  <2>2. i + 1 \in 1 .. n /\ i + 2 \in Nat \ {0} /\ i <= n /\ i \in Int BY <2>1
  <2>3. v[i + 1] = "." BY <1>2, <2>2 DEF Agree
  <2>4. DigitRun(v, 1, i, "Decimal") BY <1>2, <2>2, RunSame
  <2>5. DigitRun(v, i + 2, j, "Decimal") BY <1>2, <2>2, RunSame
  <2> QED BY <2>3, <2>4, <2>5 DEF Mantissa
<1> QED BY <1>1, <1>2 DEF Mantissa

\* One more character, and one less.
LEMMA RunLonger ==
  ASSUME NEW u, NEW i \in Int, NEW n \in Int, i <= n, NEW b
  PROVE  DigitRun(u, i, n + 1, b) <=> DigitRun(u, i, n, b) /\ u[n + 1] \in Digits(b) \union {"underscore"}
<1>1. \A k \in Int : k \in i .. n + 1 <=> k \in i .. n \/ k = n + 1
  OBVIOUS
<1> QED BY <1>1 DEF DigitRun

LEMMA RunOfOne ==
  ASSUME NEW u, NEW n \in Int, NEW b
  PROVE  DigitRun(u, n, n, b) <=> u[n] \in Digits(b)
<1>1. \A k \in n .. n : k = n
  OBVIOUS
<1> QED BY <1>1 DEF DigitRun

LEMMA MantissaLasts ==
  ASSUME NEW u, NEW j \in Int, Mantissa(u, j)
  PROVE  j >= 1 /\ u[j] \in Decimals \union {"underscore"}
<1>1. \A i \in Int : DigitRun(u, i, j, "Decimal") => u[j] \in Decimals \union {"underscore"} /\ i <= j
  BY DigitsAre DEF DigitRun
<1> QED BY <1>1 DEF Mantissa

\* A rule takes the builder from the shape of its state to that of the next.
LEMMA ShapeGrows ==
  ASSUME NEW n \in Nat, NEW u, NEW v, Agree(u, v, n),
         NEW q, NEW b, NEW q2, NEW b2, Shape(q, b, u, n), n >= 1, Step(q, b, v[n + 1], q2, b2)
  PROVE  Shape(q2, b2, v, n + 1)
<1> DEFINE c == v[n + 1]
<1>0. Digits("Decimal") = Decimals
  BY DigitsAre
<1>1. CASE q = "MaybeBased"
  <2>1. b = "Decimal" /\ n = 1 /\ v[1] = "0"
    BY <1>1, Z3T(30) DEF Shape, Agree
  <2>2. DigitRun(v, 1, 1, "Decimal")
    BY <2>1, <1>0, RunOfOne DEF Decimals
  <2>3. CASE c \in Letters /\ q2 = "ValueStart" /\ b2 = BaseOf(c)
    BY <2>1, <2>3 DEF Shape
  <2>4. CASE c \in Decimals \union {"underscore"} /\ q2 = "Value" /\ b2 = b
    <3>1. DigitRun(v, 1, 2, "Decimal")
      BY <2>1, <2>2, <2>4, <1>0, RunLonger
    <3> QED BY <2>1, <2>4, <3>1 DEF Shape
  <2>5. CASE c = "." /\ q2 = "FractionStart" /\ b2 = b
    BY <2>1, <2>2, <2>5 DEF Shape
  <2>6. CASE c \in Marks /\ q2 = "ExponentStart" /\ b2 = b
    BY <2>1, <2>2, <2>6 DEF Shape, Mantissa
  <2> QED BY <1>1, <2>3, <2>4, <2>5, <2>6 DEF Step
<1>2. CASE q = "ValueStart"
  <2>1. n = 2 /\ v[1] = "0" /\ v[2] \in Letters /\ b = BaseOf(v[2])
    BY <1>2 DEF Shape, Agree
  <2>2. c \in Digits(b) /\ q2 = "Value" /\ b2 = b
    BY <1>2 DEF Step
  <2>3. DigitRun(v, 3, 3, b)
    BY <2>1, <2>2, RunOfOne
  <2> QED BY <2>1, <2>2, <2>3 DEF Shape
<1>3. CASE q = "Value" /\ b # "Decimal"
  <2>1. n > 2 /\ v[1] = "0" /\ v[2] \in Letters /\ b = BaseOf(v[2]) /\ DigitRun(u, 3, n, b)
    BY <1>3 DEF Shape, Agree
  <2>2. DigitRun(v, 3, n, b)
    BY <2>1, RunSame
  <2>3. c \in Digits(b) \union {"underscore"} /\ q2 = "Value" /\ b2 = b
    BY <1>3 DEF Step
  <2>4. DigitRun(v, 3, n + 1, b)
    BY <2>1, <2>2, <2>3, RunLonger
  <2> QED BY <2>1, <2>3, <2>4 DEF Shape
<1>4. CASE q = "Value" /\ b = "Decimal"
  <2>1. DigitRun(u, 1, n, "Decimal")
    BY <1>4, DigitsAre DEF Shape
  <2>2. DigitRun(v, 1, n, "Decimal")
    BY <2>1, RunSame
  <2>3. CASE c \in Digits(b) \union {"underscore"} /\ q2 = "Value" /\ b2 = b
    <3>1. DigitRun(v, 1, n + 1, "Decimal")
      BY <2>2, <2>3, <1>4, RunLonger
    <3> QED BY <2>3, <3>1, <1>4 DEF Shape
  <2>4. CASE c = "." /\ q2 = "FractionStart" /\ b2 = b
    BY <2>2, <2>4, <1>4 DEF Shape
  <2>5. CASE c \in Marks /\ q2 = "ExponentStart" /\ b2 = b
    BY <2>2, <2>5, <1>4 DEF Shape, Mantissa
  <2> QED BY <1>4, <2>3, <2>4, <2>5 DEF Step
<1>5. CASE q = "FractionStart"
  <2>1. b = "Decimal" /\ DigitRun(u, 1, n - 1, "Decimal") /\ v[n] = "."
    BY <1>5 DEF Shape, Agree
  <2>2. DigitRun(v, 1, n - 1, "Decimal") /\ n - 1 \in 1 .. n + 1
    BY <2>1, RunSame DEF DigitRun
  <2>3. c \in Digits(b) /\ q2 = "Fraction" /\ b2 = b
    BY <1>5 DEF Step
  <2>4. DigitRun(v, n + 1, n + 1, "Decimal") /\ (n - 1) + 1 = n /\ (n - 1) + 2 = n + 1
    BY <2>1, <2>3, RunOfOne
  <2> QED BY <2>1, <2>2, <2>3, <2>4 DEF Shape
<1>6. CASE q = "Fraction"
  <2>1. b = "Decimal" /\ Mantissa(u, n)
    BY <1>6 DEF Shape, Mantissa
  <2>2. PICK i \in 1 .. n : DigitRun(u, 1, i, "Decimal") /\ u[i + 1] = "." /\ DigitRun(u, i + 2, n, "Decimal")
    BY <1>6 DEF Shape
  <2>3. i + 2 <= n /\ i \in 1 .. n + 1 BY <2>2 DEF DigitRun
  <2>4. DigitRun(v, 1, i, "Decimal") /\ v[i + 1] = "." /\ DigitRun(v, i + 2, n, "Decimal")
    <3>1. i + 1 \in 1 .. n BY <2>3
    <3> QED BY <2>2, <2>3, <3>1, RunSame DEF Agree
  <2>5. CASE c \in Digits(b) \union {"underscore"} /\ q2 = "Fraction" /\ b2 = b
    <3>1. DigitRun(v, i + 2, n + 1, "Decimal")
      BY <2>1, <2>3, <2>4, <2>5, RunLonger
    <3> QED BY <2>1, <2>3, <2>4, <2>5, <3>1 DEF Shape
  <2>6. CASE c \in Marks /\ q2 = "ExponentStart" /\ b2 = b
    <3>1. Mantissa(v, n) BY <2>1, MantissaSame
    <3> QED BY <2>1, <2>6, <3>1 DEF Shape
  <2> QED BY <1>6, <2>5, <2>6 DEF Step
<1>7. CASE q = "ExponentStart"
  <2>1. b = "Decimal" /\ v[n] \in Marks /\ Mantissa(u, n - 1)
    BY <1>7 DEF Shape, Agree
  <2>2. Mantissa(v, n - 1) /\ n - 1 \in 1 .. n + 1
    BY <2>1, MantissaSame, MantissaLasts
  <2>3. CASE c \in Signs /\ q2 = "ExponentSigned" /\ b2 = b
    <3>1. (n + 1) - 1 = n /\ (n + 1) - 2 = n - 1 OBVIOUS
    <3> QED BY <2>1, <2>2, <2>3, <3>1 DEF Shape
  <2>4. CASE c \in Decimals /\ q2 = "Exponent" /\ b2 = b
    <3>1. DigitRun(v, n + 1, n + 1, "Decimal") /\ (n - 1) + 1 = n /\ (n - 1) + 2 = n + 1
      BY <2>4, <1>0, RunOfOne
    <3>2. Exponential(v, n - 1, n + 1)
      BY <2>1, <2>2, <3>1 DEF Exponential
    <3> QED BY <2>1, <2>2, <2>4, <3>2 DEF Shape
  <2> QED BY <1>7, <2>3, <2>4 DEF Step
<1>8. CASE q = "ExponentSigned"
  <2>1. b = "Decimal" /\ v[n] \in Signs /\ u[n - 1] \in Marks /\ Mantissa(u, n - 2)
    BY <1>8 DEF Shape, Agree
  <2>2. Mantissa(v, n - 2) /\ n - 2 \in 1 .. n + 1
    BY <2>1, MantissaSame, MantissaLasts
  <2>3. v[n - 1] \in Marks
    BY <2>1, <2>2 DEF Agree
  <2>4. c \in Decimals /\ q2 = "Exponent" /\ b2 = b
    BY <1>8 DEF Step
  <2>5. DigitRun(v, n + 1, n + 1, "Decimal") /\ (n - 2) + 1 = n - 1 /\ (n - 2) + 2 = n /\ (n - 2) + 3 = n + 1
    BY <2>4, <1>0, RunOfOne
  <2>6. Exponential(v, n - 2, n + 1)
    BY <2>1, <2>2, <2>3, <2>5 DEF Exponential
  <2> QED BY <2>1, <2>2, <2>4, <2>6 DEF Shape
<1>9. CASE q = "Exponent"
  <2>1. b = "Decimal" /\ c \in Decimals \union {"underscore"} /\ q2 = "Exponent" /\ b2 = b
    BY <1>9 DEF Shape, Step
  <2>2. PICK j \in 1 .. n : Exponential(u, j, n)
    BY <1>9 DEF Shape
  <2>3. Mantissa(v, j) BY <2>2, MantissaSame DEF Exponential
  <2>4. CASE DigitRun(u, j + 2, n, "Decimal")
    <3>1. j + 2 <= n BY <2>4 DEF DigitRun
    <3>2. DigitRun(v, j + 2, n, "Decimal") BY <2>4, RunSame
    <3>3. DigitRun(v, j + 2, n + 1, "Decimal") BY <3>1, <3>2, <2>1, <1>0, RunLonger
    <3>4. v[j + 1] \in Marks BY <3>1, <2>2 DEF Agree, Exponential
    <3>5. Exponential(v, j, n + 1) BY <2>3, <3>3, <3>4 DEF Exponential
    <3>6. j \in 1 .. n + 1 OBVIOUS
    <3> QED BY <2>1, <3>5, <3>6 DEF Shape
  <2>5. CASE u[j + 2] \in Signs /\ DigitRun(u, j + 3, n, "Decimal")
    <3>1. j + 3 <= n BY <2>5 DEF DigitRun
    <3>2. DigitRun(v, j + 3, n, "Decimal") BY <2>5, RunSame
    <3>3. DigitRun(v, j + 3, n + 1, "Decimal") BY <3>1, <3>2, <2>1, <1>0, RunLonger
    <3>4. v[j + 1] \in Marks /\ v[j + 2] \in Signs BY <3>1, <2>2, <2>5 DEF Agree, Exponential
    <3>5. Exponential(v, j, n + 1) BY <2>3, <3>3, <3>4 DEF Exponential
    <3>6. j \in 1 .. n + 1 OBVIOUS
    <3> QED BY <2>1, <3>5, <3>6 DEF Shape
  <2> QED BY <2>2, <2>4, <2>5 DEF Exponential
<1>10. q \in {"MaybeBased", "ValueStart", "Value", "FractionStart", "Fraction",
              "ExponentStart", "ExponentSigned", "Exponent"}
  BY DEF Shape
<1> QED BY <1>1, <1>2, <1>3, <1>4, <1>5, <1>6, <1>7, <1>8, <1>9, <1>10

\* The shape tells the state and the base.
InBase(u, n) == n >= 2 /\ u[2] \in Letters
Has(u, n, chars) == \E k \in 1 .. n : u[k] \in chars

ShapeState(u, n) ==
  IF n = 1 /\ u[1] = "0" THEN "MaybeBased"
  ELSE IF InBase(u, n) THEN (IF n = 2 THEN "ValueStart" ELSE "Value")
  ELSE IF Has(u, n, Marks)
  THEN (IF u[n] \in Marks THEN "ExponentStart"
        ELSE IF u[n] \in Signs THEN "ExponentSigned" ELSE "Exponent")
  ELSE IF Has(u, n, {"."}) THEN (IF u[n] = "." THEN "FractionStart" ELSE "Fraction")
  ELSE "Value"

ShapeBase(u, n) == IF InBase(u, n) THEN BaseOf(u[2]) ELSE "Decimal"

LEMMA CharsDiffer ==
  ASSUME NEW c \in Decimals \union {"underscore"}
  PROVE  c \notin Letters /\ c \notin Marks /\ c \notin Signs /\ c # "."
BY DEF Decimals, Letters, Marks, Signs

LEMMA RunPlain ==
  ASSUME NEW u, NEW i \in Int, NEW j \in Int, DigitRun(u, i, j, "Decimal")
  PROVE  /\ i <= j
         /\ \A k \in i .. j : /\ u[k] \notin Letters /\ u[k] \notin Marks
                              /\ u[k] \notin Signs /\ u[k] # "."
BY DigitsAre, CharsDiffer DEF DigitRun

LEMMA MantissaPlain ==
  ASSUME NEW u, NEW j \in Int, Mantissa(u, j)
  PROVE  /\ j >= 1
         /\ \A k \in 1 .. j : u[k] \notin Letters /\ u[k] \notin Marks /\ u[k] \notin Signs
<1>1. CASE DigitRun(u, 1, j, "Decimal")
  BY <1>1, RunPlain
<1>2. ASSUME NEW i \in 1 .. j, DigitRun(u, 1, i, "Decimal"), u[i + 1] = ".", DigitRun(u, i + 2, j, "Decimal"),
             NEW k \in 1 .. j
      PROVE  u[k] \notin Letters /\ u[k] \notin Marks /\ u[k] \notin Signs
  <2>1. CASE k \in 1 .. i BY <1>2, <2>1, RunPlain
  <2>2. CASE k = i + 1 BY <1>2, <2>2 DEF Letters, Marks, Signs
  <2>3. CASE k \in i + 2 .. j
    <3>1. i + 2 \in Int OBVIOUS
    <3> QED BY <1>2, <2>3, <3>1, RunPlain
  <2> QED BY <2>1, <2>2, <2>3
<1>3. j >= 1 BY MantissaLasts
<1> QED BY <1>1, <1>2, <1>3 DEF Mantissa

LEMMA ShapeTells ==
  ASSUME NEW n \in Nat, NEW u, NEW q, NEW b, Shape(q, b, u, n)
  PROVE  q = ShapeState(u, n) /\ b = ShapeBase(u, n)
<1>0. Letters \intersect (Marks \union Signs \union {"."} \union Decimals \union {"underscore"}) = {}
      /\ Marks \intersect Signs = {} /\ "." \notin Marks \union Signs
  BY DEF Letters, Marks, Signs, Decimals
<1>1. CASE q = "MaybeBased" /\ b = "Decimal" /\ n = 1 /\ u[1] = "0"
  BY <1>1 DEF ShapeState, ShapeBase, InBase
<1>2. CASE q = "ValueStart" /\ n = 2 /\ u[1] = "0" /\ u[2] \in Letters /\ b = BaseOf(u[2])
  BY <1>2 DEF ShapeState, ShapeBase, InBase
<1>3. CASE q = "Value" /\ n > 2 /\ u[1] = "0" /\ u[2] \in Letters /\ b = BaseOf(u[2]) /\ DigitRun(u, 3, n, b)
  BY <1>3 DEF ShapeState, ShapeBase, InBase
<1>4. CASE q = "Value" /\ b = "Decimal" /\ DigitRun(u, 1, n, b) /\ ~(n = 1 /\ u[1] = "0")
  <2>1. \A k \in 1 .. n : u[k] \notin Letters /\ u[k] \notin Marks /\ u[k] # "."
    BY <1>4, RunPlain
  <2>2. ~InBase(u, n) /\ ~Has(u, n, Marks) /\ ~Has(u, n, {"."})
    BY <2>1 DEF InBase, Has
  <2> QED BY <1>4, <2>2 DEF ShapeState, ShapeBase
<1>5. CASE q = "FractionStart" /\ b = "Decimal" /\ DigitRun(u, 1, n - 1, b) /\ u[n] = "."
  <2>1. n >= 2 /\ \A k \in 1 .. n - 1 : u[k] \notin Letters /\ u[k] \notin Marks
    BY <1>5, RunPlain
  <2>2. \A k \in 1 .. n : u[k] \notin Letters /\ u[k] \notin Marks
    <3> TAKE k \in 1 .. n
    <3>1. CASE k = n BY <3>1, <1>5, <1>0
    <3>2. CASE k # n BY <3>2, <2>1
    <3> QED BY <3>1, <3>2
  <2>3. ~InBase(u, n) /\ ~Has(u, n, Marks) /\ Has(u, n, {"."})
    BY <2>1, <2>2, <1>5 DEF InBase, Has
  <2> QED BY <1>5, <2>1, <2>3 DEF ShapeState, ShapeBase
<1>6. CASE q = "Fraction" /\ b = "Decimal" /\ \E i \in 1 .. n :
               DigitRun(u, 1, i, b) /\ u[i + 1] = "." /\ DigitRun(u, i + 2, n, b)
  <2>1. PICK i \in 1 .. n : DigitRun(u, 1, i, "Decimal") /\ u[i + 1] = "." /\ DigitRun(u, i + 2, n, "Decimal")
    BY <1>6
  <2>2. i + 2 <= n /\ u[n] # "." /\ i + 1 \in 1 .. n
    BY <2>1, RunPlain
  <2>3. Mantissa(u, n)
    BY <2>1 DEF Mantissa
  <2>4. \A k \in 1 .. n : u[k] \notin Letters /\ u[k] \notin Marks
    BY <2>3, MantissaPlain
  <2>5. ~InBase(u, n) /\ ~Has(u, n, Marks) /\ Has(u, n, {"."})
    BY <2>1, <2>2, <2>4 DEF InBase, Has
  <2> QED BY <1>6, <2>2, <2>5 DEF ShapeState, ShapeBase
<1>7. CASE q = "ExponentStart" /\ b = "Decimal" /\ u[n] \in Marks /\ Mantissa(u, n - 1)
  <2>1. n >= 2 /\ \A k \in 1 .. n - 1 : u[k] \notin Letters
    BY <1>7, MantissaPlain
  <2>2. ~InBase(u, n)
    <3>1. CASE n = 2 BY <3>1, <1>7, <1>0 DEF InBase
    <3>2. CASE n # 2 BY <3>2, <2>1 DEF InBase
    <3> QED BY <3>1, <3>2
  <2>3. Has(u, n, Marks)
    BY <2>1, <1>7 DEF Has
  <2> QED BY <1>7, <2>1, <2>2, <2>3 DEF ShapeState, ShapeBase
<1>8. CASE q = "ExponentSigned" /\ b = "Decimal" /\ u[n] \in Signs /\ u[n - 1] \in Marks
           /\ Mantissa(u, n - 2)
  <2>1. n >= 3 /\ \A k \in 1 .. n - 2 : u[k] \notin Letters
    BY <1>8, MantissaPlain
  <2>2. ~InBase(u, n)
    <3>1. CASE n = 3 BY <3>1, <1>8, <1>0 DEF InBase
    <3>2. CASE n # 3 BY <3>2, <2>1 DEF InBase
    <3> QED BY <3>1, <3>2
  <2>3. Has(u, n, Marks) /\ u[n] \notin Marks
    <3>1. n - 1 \in 1 .. n BY <2>1
    <3> QED BY <3>1, <1>8, <1>0 DEF Has
  <2> QED BY <1>8, <2>1, <2>2, <2>3 DEF ShapeState, ShapeBase
<1>9. CASE q = "Exponent" /\ b = "Decimal" /\ \E j \in 1 .. n : Exponential(u, j, n)
  <2>1. PICK j \in 1 .. n : Exponential(u, j, n)
    BY <1>9
  <2>2. j >= 1 /\ \A k \in 1 .. j : u[k] \notin Letters
    BY <2>1, MantissaPlain DEF Exponential
  <2>3. j + 2 <= n /\ u[n] \notin Marks /\ u[n] \notin Signs
    <3>1. CASE DigitRun(u, j + 2, n, "Decimal") BY <3>1, RunPlain
    <3>2. CASE DigitRun(u, j + 3, n, "Decimal") BY <3>2, RunPlain
    <3> QED BY <2>1, <3>1, <3>2 DEF Exponential
  <2>4. ~InBase(u, n)
    <3>1. CASE j = 1
      <4>1. u[2] \in Marks BY <3>1, <2>1 DEF Exponential
      <4> QED BY <4>1, <1>0 DEF InBase
    <3>2. CASE j # 1 BY <3>2, <2>2 DEF InBase
    <3> QED BY <3>1, <3>2
  <2>5. Has(u, n, Marks)
    <3>1. j + 1 \in 1 .. n BY <2>3
    <3> QED BY <3>1, <2>1 DEF Has, Exponential
  <2> QED BY <1>9, <2>3, <2>4, <2>5 DEF ShapeState, ShapeBase
<1> QED BY <1>1, <1>2, <1>3, <1>4, <1>5, <1>6, <1>7, <1>8, <1>9, Z3T(30) DEF Shape

LEMMA ShapeLong ==
  ASSUME NEW n \in Nat, NEW u, NEW q, NEW b, Shape(q, b, u, n)
  PROVE  n >= 1
<1>1. ASSUME NEW i \in Int, NEW j \in Int, NEW d, DigitRun(u, i, j, d) PROVE i <= j
  BY <1>1 DEF DigitRun
<1>2. ASSUME NEW j \in Int, Mantissa(u, j) PROVE j >= 1
  BY <1>2, MantissaLasts
<1>3. CASE q \in {"MaybeBased", "ValueStart", "Value", "FractionStart", "Fraction", "Exponent"}
  BY <1>3, <1>1 DEF Shape
<1>4. CASE q \in {"ExponentStart", "ExponentSigned"}
  <2>1. n - 1 >= 1 \/ n - 2 >= 1
    BY <1>4, <1>2 DEF Shape
  <2> QED BY <2>1
<1> QED BY <1>3, <1>4 DEF Shape

\* What has no exponent is in one of three states.
LEMMA MantissaShape ==
  ASSUME NEW n \in Nat, NEW u, Mantissa(u, n)
  PROVE  \E q \in {"MaybeBased", "Value", "Fraction"} : Shape(q, "Decimal", u, n)
<1>1. CASE n = 1 /\ u[1] = "0"
  BY <1>1 DEF Shape
<1>2. CASE DigitRun(u, 1, n, "Decimal") /\ ~(n = 1 /\ u[1] = "0")
  BY <1>2 DEF Shape
<1>3. CASE \E i \in 1 .. n : /\ DigitRun(u, 1, i, "Decimal") /\ u[i + 1] = "."
                             /\ DigitRun(u, i + 2, n, "Decimal")
  BY <1>3 DEF Shape
<1> QED BY <1>1, <1>2, <1>3 DEF Mantissa

\* Every shape comes from another by a rule.
Comes(c, u, n, q2, b2) == \E q, b : Shape(q, b, u, n) /\ Step(q, b, c, q2, b2)

LEMMA ShapeShrinks ==
  ASSUME NEW n \in Nat, n >= 1, NEW u, NEW v, Agree(v, u, n),
         NEW q2, NEW b2, Shape(q2, b2, v, n + 1)
  PROVE  Comes(v[n + 1], u, n, q2, b2)
<1> DEFINE c == v[n + 1]
<1>0. Digits("Decimal") = Decimals
  BY DigitsAre
<1>1. ASSUME NEW q, NEW b, Shape(q, b, u, n), Step(q, b, c, q2, b2)
      PROVE  Comes(c, u, n, q2, b2)
  BY <1>1 DEF Comes
<1>2. CASE q2 = "MaybeBased"
  BY <1>2 DEF Shape
<1>3. CASE q2 = "ValueStart"
  <2>1. n = 1 /\ v[1] = "0" /\ c \in Letters /\ b2 = BaseOf(c)
    BY <1>3 DEF Shape
  <2>2. Shape("MaybeBased", "Decimal", u, n) BY <2>1 DEF Shape, Agree
  <2>3. Step("MaybeBased", "Decimal", c, q2, b2) BY <1>3, <2>1 DEF Step
  <2> QED BY <1>1, <2>2, <2>3
<1>4. CASE q2 = "Value" /\ n + 1 > 2 /\ v[1] = "0" /\ v[2] \in Letters /\ b2 = BaseOf(v[2])
           /\ DigitRun(v, 3, n + 1, b2)
  <2>1. u[1] = "0" /\ u[2] = v[2] BY <1>4 DEF Agree
  <2>2. CASE n = 2
    <3>1. c \in Digits(b2) BY <1>4, <2>2, RunOfOne
    <3>2. Shape("ValueStart", b2, u, n) BY <1>4, <2>1, <2>2 DEF Shape
    <3>3. Step("ValueStart", b2, c, q2, b2) BY <1>4, <3>1 DEF Step
    <3> QED BY <1>1, <3>2, <3>3
  <2>3. CASE n > 2
    <3>1. DigitRun(v, 3, n, b2) /\ c \in Digits(b2) \union {"underscore"}
      BY <1>4, <2>3, RunLonger
    <3>2. DigitRun(u, 3, n, b2) BY <3>1, RunSame
    <3>3. Shape("Value", b2, u, n) BY <1>4, <2>1, <2>3, <3>2 DEF Shape
    <3>4. Step("Value", b2, c, q2, b2) BY <1>4, <3>1 DEF Step
    <3> QED BY <1>1, <3>3, <3>4
  <2> QED BY <1>4, <2>2, <2>3
<1>5. CASE q2 = "Value" /\ b2 = "Decimal" /\ DigitRun(v, 1, n + 1, b2)
  <2>1. DigitRun(v, 1, n, "Decimal") /\ c \in Decimals \union {"underscore"}
    BY <1>5, <1>0, RunLonger
  <2>2. DigitRun(u, 1, n, "Decimal") BY <2>1, RunSame
  <2>3. CASE n = 1 /\ u[1] = "0"
    <3>1. Shape("MaybeBased", "Decimal", u, n) BY <2>3 DEF Shape
    <3>2. Step("MaybeBased", "Decimal", c, q2, b2) BY <1>5, <2>1 DEF Step
    <3> QED BY <1>1, <3>1, <3>2
  <2>4. CASE ~(n = 1 /\ u[1] = "0")
    <3>1. Shape("Value", "Decimal", u, n) BY <2>2, <2>4 DEF Shape
    <3>2. Step("Value", "Decimal", c, q2, b2) BY <1>5, <1>0, <2>1 DEF Step
    <3> QED BY <1>1, <3>1, <3>2
  <2> QED BY <2>3, <2>4
<1>6. CASE q2 = "FractionStart"
  <2>1. DigitRun(v, 1, n, "Decimal") /\ c = "." /\ b2 = "Decimal"
    <3>1. (n + 1) - 1 = n OBVIOUS
    <3> QED BY <1>6, <3>1 DEF Shape
  <2>2. DigitRun(u, 1, n, "Decimal") BY <2>1, RunSame
  <2>3. CASE n = 1 /\ u[1] = "0"
    <3>1. Shape("MaybeBased", "Decimal", u, n) BY <2>3 DEF Shape
    <3>2. Step("MaybeBased", "Decimal", c, q2, b2) BY <1>6, <2>1 DEF Step
    <3> QED BY <1>1, <3>1, <3>2
  <2>4. CASE ~(n = 1 /\ u[1] = "0")
    <3>1. Shape("Value", "Decimal", u, n) BY <2>2, <2>4 DEF Shape
    <3>2. Step("Value", "Decimal", c, q2, b2) BY <1>6, <2>1 DEF Step
    <3> QED BY <1>1, <3>1, <3>2
  <2> QED BY <2>3, <2>4
<1>7. CASE q2 = "Fraction"
  <2>1. PICK i \in 1 .. n + 1 :
          DigitRun(v, 1, i, "Decimal") /\ v[i + 1] = "." /\ DigitRun(v, i + 2, n + 1, "Decimal")
    BY <1>7 DEF Shape
  <2>2. b2 = "Decimal" BY <1>7 DEF Shape
  <2>3. i + 2 <= n + 1 /\ i + 1 \in 1 .. n /\ i <= n /\ i \in Nat BY <2>1 DEF DigitRun
  <2>4. DigitRun(u, 1, i, "Decimal") /\ u[i + 1] = "."
    BY <2>1, <2>3, RunSame DEF Agree
  <2>5. CASE i + 2 = n + 1
    <3>1. i = n - 1 /\ i + 1 = n BY <2>3, <2>5
    <3>2. Shape("FractionStart", "Decimal", u, n) BY <2>4, <3>1 DEF Shape
    <3>3. DigitRun(v, n + 1, n + 1, "Decimal") BY <2>1, <2>5
    <3>4. c \in Decimals BY <3>3, <1>0, RunOfOne
    <3>5. Step("FractionStart", "Decimal", c, q2, b2) BY <1>7, <1>0, <2>2, <3>4 DEF Step
    <3> QED BY <1>1, <3>2, <3>5
  <2>6. CASE i + 2 # n + 1
    <3>1. i + 2 <= n /\ i + 2 \in Int /\ i + 2 \in Nat \ {0} BY <2>3, <2>6
    <3>2. DigitRun(v, i + 2, n, "Decimal") /\ c \in Decimals \union {"underscore"}
      BY <2>1, <3>1, <1>0, RunLonger
    <3>3. DigitRun(u, i + 2, n, "Decimal") BY <3>1, <3>2, RunSame
    <3>4. i \in 1 .. n BY <2>3
    <3>5. Shape("Fraction", "Decimal", u, n) BY <2>4, <3>3, <3>4 DEF Shape
    <3>6. Step("Fraction", "Decimal", c, q2, b2) BY <1>7, <1>0, <2>2, <3>2 DEF Step
    <3> QED BY <1>1, <3>5, <3>6
  <2> QED BY <2>5, <2>6
<1>8. CASE q2 = "ExponentStart"
  <2>1. c \in Marks /\ Mantissa(v, n) /\ b2 = "Decimal"
    <3>1. (n + 1) - 1 = n OBVIOUS
    <3> QED BY <1>8, <3>1 DEF Shape
  <2>2. Mantissa(u, n) BY <2>1, MantissaSame
  <2>3. PICK q \in {"MaybeBased", "Value", "Fraction"} : Shape(q, "Decimal", u, n)
    BY <2>2, MantissaShape
  <2>4. Step(q, "Decimal", c, q2, b2) BY <1>8, <2>1, <2>3 DEF Step
  <2> QED BY <1>1, <2>3, <2>4
<1>9. CASE q2 = "ExponentSigned"
  <2>1. c \in Signs /\ v[n] \in Marks /\ Mantissa(v, n - 1) /\ b2 = "Decimal"
    <3>1. (n + 1) - 1 = n /\ (n + 1) - 2 = n - 1 OBVIOUS
    <3> QED BY <1>9, <3>1 DEF Shape
  <2>2. Mantissa(u, n - 1) BY <2>1, MantissaSame
  <2>3. u[n] \in Marks BY <2>1 DEF Agree
  <2>4. Shape("ExponentStart", "Decimal", u, n) BY <2>2, <2>3 DEF Shape
  <2>5. Step("ExponentStart", "Decimal", c, q2, b2) BY <1>9, <2>1 DEF Step
  <2> QED BY <1>1, <2>4, <2>5
<1>10. CASE q2 = "Exponent"
  <2>1. PICK j \in 1 .. n + 1 : Exponential(v, j, n + 1)
    BY <1>10 DEF Shape
  <2>2. b2 = "Decimal" BY <1>10 DEF Shape
  <2>3. j + 2 <= n + 1 BY <2>1 DEF Exponential, DigitRun
  <2>4. j \in 1 .. n /\ j \in Nat /\ j + 1 \in 1 .. n /\ j <= n BY <2>3
  <2>5. Mantissa(u, j) /\ u[j + 1] \in Marks
    BY <2>1, <2>4, MantissaSame DEF Exponential, Agree
  <2>6. CASE DigitRun(v, j + 2, n + 1, "Decimal")
    <3>1. CASE j + 2 = n + 1
      <4>1. c \in Decimals BY <2>6, <3>1, <1>0, RunOfOne
      <4>2. j = n - 1 /\ j + 1 = n BY <3>1, <2>4
      <4>3. Shape("ExponentStart", "Decimal", u, n) BY <2>5, <4>2 DEF Shape
      <4>4. Step("ExponentStart", "Decimal", c, q2, b2) BY <1>10, <2>2, <4>1 DEF Step
      <4> QED BY <1>1, <4>3, <4>4
    <3>2. CASE j + 2 # n + 1
      <4>1. j + 2 <= n /\ j + 2 \in Int /\ j + 2 \in Nat \ {0} BY <2>3, <2>4, <3>2
      <4>2. DigitRun(v, j + 2, n, "Decimal") /\ c \in Decimals \union {"underscore"}
        BY <2>6, <4>1, <1>0, RunLonger
      <4>3. DigitRun(u, j + 2, n, "Decimal") BY <4>1, <4>2, RunSame
      <4>4. Exponential(u, j, n) BY <2>5, <4>3 DEF Exponential
      <4>5. Shape("Exponent", "Decimal", u, n) BY <2>4, <4>4 DEF Shape
      <4>6. Step("Exponent", "Decimal", c, q2, b2) BY <1>10, <2>2, <4>2 DEF Step
      <4> QED BY <1>1, <4>5, <4>6
    <3> QED BY <3>1, <3>2
  <2>7. CASE v[j + 2] \in Signs /\ DigitRun(v, j + 3, n + 1, "Decimal")
    <3>0. j + 3 <= n + 1 BY <2>7 DEF DigitRun
    <3>1. j + 2 \in 1 .. n BY <3>0, <2>4
    <3>2. u[j + 2] \in Signs BY <3>1, <2>7 DEF Agree
    <3>3. CASE j + 3 = n + 1
      <4>1. c \in Decimals BY <2>7, <3>3, <1>0, RunOfOne
      <4>2. j = n - 2 /\ j + 1 = n - 1 /\ j + 2 = n BY <3>3, <2>4
      <4>3. Shape("ExponentSigned", "Decimal", u, n) BY <2>5, <3>2, <4>2 DEF Shape
      <4>4. Step("ExponentSigned", "Decimal", c, q2, b2) BY <1>10, <2>2, <4>1 DEF Step
      <4> QED BY <1>1, <4>3, <4>4
    <3>4. CASE j + 3 # n + 1
      <4>1. j + 3 <= n /\ j + 3 \in Int /\ j + 3 \in Nat \ {0} BY <3>0, <2>4, <3>4
      <4>2. DigitRun(v, j + 3, n, "Decimal") /\ c \in Decimals \union {"underscore"}
        BY <2>7, <4>1, <1>0, RunLonger
      <4>3. DigitRun(u, j + 3, n, "Decimal") BY <4>1, <4>2, RunSame
      <4>4. Exponential(u, j, n) BY <2>5, <3>2, <4>3 DEF Exponential
      <4>5. Shape("Exponent", "Decimal", u, n) BY <2>4, <4>4 DEF Shape
      <4>6. Step("Exponent", "Decimal", c, q2, b2) BY <1>10, <2>2, <4>2 DEF Step
      <4> QED BY <1>1, <4>5, <4>6
    <3> QED BY <3>3, <3>4
  <2> QED BY <2>1, <2>6, <2>7 DEF Exponential
<1>11. q2 = "Value" =>
         \/ n + 1 > 2 /\ v[1] = "0" /\ v[2] \in Letters /\ b2 = BaseOf(v[2]) /\ DigitRun(v, 3, n + 1, b2)
         \/ b2 = "Decimal" /\ DigitRun(v, 1, n + 1, b2)
  BY DEF Shape
<1>12. q2 \in {"MaybeBased", "ValueStart", "Value", "FractionStart", "Fraction",
               "ExponentStart", "ExponentSigned", "Exponent"}
  BY DEF Shape
<1> QED BY <1>2, <1>3, <1>4, <1>5, <1>6, <1>7, <1>8, <1>9, <1>10, <1>11, <1>12

\* The first character behind the sign.
LEMMA ShapeFirst ==
  ASSUME NEW v, NEW q, q \in {"Start", "Signed"}, NEW q2, NEW b2, q2 # "Signed"
  PROVE  Shape(q2, b2, v, 1) <=> Step(q, "Decimal", v[1], q2, b2)
<1>0. Digits("Decimal") = Decimals /\ (DigitRun(v, 1, 1, "Decimal") <=> v[1] \in Decimals)
  BY DigitsAre, RunOfOne
<1>1. ASSUME Step(q, "Decimal", v[1], q2, b2) PROVE Shape(q2, b2, v, 1)
  BY <1>0, <1>1 DEF Step, Shape, NonZero
<1>2. ASSUME Shape(q2, b2, v, 1) PROVE Step(q, "Decimal", v[1], q2, b2)
  <2>1. ~Mantissa(v, 1 - 1) /\ ~Mantissa(v, 1 - 2) /\ ~DigitRun(v, 1, 1 - 1, "Decimal")
    BY MantissaLasts DEF DigitRun
  <2>2. ASSUME NEW i \in 1 .. 1 PROVE ~DigitRun(v, i + 2, 1, "Decimal") /\ ~Exponential(v, i, 1)
    BY DEF DigitRun, Exponential
  <2>3. q2 \notin {"ValueStart", "FractionStart", "Fraction", "ExponentStart", "ExponentSigned", "Exponent"}
    BY <1>2, <2>1, <2>2 DEF Shape
  <2>4. CASE q2 = "MaybeBased"
    BY <1>2, <2>4 DEF Shape, Step
  <2>5. CASE q2 = "Value"
    <3>1. DigitRun(v, 1, 1, b2) /\ b2 = "Decimal" /\ v[1] # "0" BY <1>2, <2>5 DEF Shape
    <3>2. v[1] \in NonZero BY <3>1, <1>0 DEF NonZero
    <3> QED BY <2>5, <3>1, <3>2 DEF Step
  <2> QED BY <1>2, <2>3, <2>4, <2>5 DEF Shape
<1> QED BY <1>1, <1>2

-----------------------------------------------------------------------------
(* What Meanings finds.                                                    *)

FormBased(u, n) == n > 2 /\ u[1] = "0" /\ u[2] \in Letters /\ DigitRun(u, 3, n, BaseOf(u[2]))

FormCut(u, n, i, j) ==
  /\ i <= j /\ DigitRun(u, 1, i, "Decimal")
  /\ j = i \/ (u[i + 1] = "." /\ DigitRun(u, i + 2, j, "Decimal"))
  /\ \/ j = n
     \/ /\ u[j + 1] \in Marks
        /\ \/ DigitRun(u, j + 2, n, "Decimal")
           \/ u[j + 2] \in Signs /\ DigitRun(u, j + 3, n, "Decimal")

Form(u, n) == FormBased(u, n) \/ \E i, j \in 1 .. n : FormCut(u, n, i, j)

\* A number is what the builder may end behind.
LEMMA FormFinal ==
  ASSUME NEW u, NEW n \in Nat
  PROVE  Form(u, n) <=> \E q \in FinalStates : \E b : Shape(q, b, u, n)
<1>1. ASSUME FormBased(u, n) PROVE \E q \in FinalStates : \E b : Shape(q, b, u, n)
  BY <1>1 DEF FormBased, Shape, FinalStates
<1>2. ASSUME NEW i \in 1 .. n, NEW j \in 1 .. n, FormCut(u, n, i, j)
      PROVE  \E q \in FinalStates : \E b : Shape(q, b, u, n)
  <2>1. Mantissa(u, j)
    BY <1>2 DEF FormCut, Mantissa
  <2>2. CASE j = n
    BY <2>1, <2>2, MantissaShape DEF FinalStates
  <2>3. CASE j # n
    <3>1. Exponential(u, j, n) BY <1>2, <2>1, <2>3 DEF FormCut, Exponential
    <3>2. Shape("Exponent", "Decimal", u, n) BY <3>1 DEF Shape
    <3> QED BY <3>2 DEF FinalStates
  <2> QED BY <2>2, <2>3
<1>3. ASSUME NEW j \in 1 .. n, Mantissa(u, j),
             \/ j = n
             \/ /\ u[j + 1] \in Marks
                /\ \/ DigitRun(u, j + 2, n, "Decimal")
                   \/ u[j + 2] \in Signs /\ DigitRun(u, j + 3, n, "Decimal")
      PROVE  Form(u, n)
  <2>1. CASE DigitRun(u, 1, j, "Decimal")
    <3>1. FormCut(u, n, j, j) BY <1>3, <2>1 DEF FormCut
    <3> QED BY <3>1 DEF Form
  <2>2. ASSUME NEW i \in 1 .. j, DigitRun(u, 1, i, "Decimal"), u[i + 1] = ".", DigitRun(u, i + 2, j, "Decimal")
        PROVE  Form(u, n)
    <3>1. FormCut(u, n, i, j) /\ i \in 1 .. n BY <1>3, <2>2 DEF FormCut
    <3> QED BY <3>1 DEF Form
  <2> QED BY <1>3, <2>1, <2>2 DEF Mantissa
<1>4. ASSUME NEW q \in FinalStates, NEW b, Shape(q, b, u, n) PROVE Form(u, n)
  <2>1. n >= 1 BY <1>4, ShapeLong
  <2>2. CASE q = "MaybeBased"
    <3>1. n = 1 /\ u[1] = "0" BY <1>4, <2>2 DEF Shape
    <3>2. DigitRun(u, 1, 1, "Decimal") BY <3>1, RunOfOne, DigitsAre DEF Decimals
    <3>3. Mantissa(u, 1) BY <3>2 DEF Mantissa
    <3> QED BY <3>1, <3>3, <1>3
  <2>3. CASE q = "Value" /\ b # "Decimal"
    BY <1>4, <2>3 DEF Shape, Form, FormBased
  <2>4. CASE q = "Value" /\ b = "Decimal"
    <3>1. DigitRun(u, 1, n, "Decimal") BY <1>4, <2>4, DigitsAre DEF Shape
    <3>2. Mantissa(u, n) BY <3>1 DEF Mantissa
    <3> QED BY <2>1, <3>2, <1>3
  <2>5. CASE q = "Fraction"
    <3>1. Mantissa(u, n) BY <1>4, <2>5 DEF Shape, Mantissa
    <3> QED BY <2>1, <3>1, <1>3
  <2>6. CASE q = "Exponent"
    <3>1. PICK j \in 1 .. n : Exponential(u, j, n) BY <1>4, <2>6 DEF Shape
    <3> QED BY <3>1, <1>3 DEF Exponential
  <2> QED BY <1>4, <2>2, <2>3, <2>4, <2>5, <2>6 DEF FinalStates
<1> QED BY <1>1, <1>2, <1>4 DEF Form

\* A part of a text as a whole number.
LEMMA WholePart ==
  ASSUME NEW u \in Seq(Handed), NEW i \in Nat \ {0}, NEW j \in 0 .. Len(u), NEW b
  PROVE  Whole(SubSeq(u, i, j), b) <=> DigitRun(u, i, j, b)
<1> DEFINE s == SubSeq(u, i, j)
<1>0. Len(u) \in Nat /\ j \in Nat
  BY LenProperties
<1>1. CASE j < i
  <2>1. s = <<>> BY <1>1, <1>0
  <2> QED BY <1>1, <1>0, <2>1 DEF Whole, DigitRun
<1>2. CASE i <= j
  <2>1. /\ DOMAIN s = 1 .. (j - i + 1)
        /\ \A k \in 1 .. j - i + 1 : s[k] = u[i + k - 1]
    BY <1>0, <1>2
  <2>2. s # <<>> /\ s[1] = u[i]
    BY <2>1, <1>0, <1>2
  <2> HIDE DEF s
  <2>3. ASSUME Range(s) \subseteq Digits(b) \union {"underscore"}, NEW k \in i .. j
        PROVE  u[k] \in Digits(b) \union {"underscore"}
    <3>1. k - i + 1 \in 1 .. j - i + 1 /\ i + (k - i + 1) - 1 = k
      BY <1>0
    <3>2. s[k - i + 1] = u[k] BY <3>1, <2>1
    <3> QED BY <3>1, <3>2, <2>1, <2>3 DEF Range
  <2>4. ASSUME \A k \in i .. j : u[k] \in Digits(b) \union {"underscore"}, NEW k \in 1 .. j - i + 1
        PROVE  s[k] \in Digits(b) \union {"underscore"}
    <3>1. i + k - 1 \in i .. j BY <1>0
    <3> QED BY <3>1, <2>1, <2>4
  <2>5. (Range(s) \subseteq Digits(b) \union {"underscore"}) <=>
          \A k \in i .. j : u[k] \in Digits(b) \union {"underscore"}
    BY <2>1, <2>3, <2>4 DEF Range
  <2> QED BY <1>2, <2>2, <2>5 DEF Whole, DigitRun, s
<1> QED BY <1>0, <1>1, <1>2

\* Handed characters without a sign in front.
LEMMA UnsignedIs ==
  ASSUME NEW t \in Seq(Handed)
  PROVE  /\ Unsigned(t) \in Seq(Handed)
         /\ t # <<>> /\ t[1] \in Signs =>
              /\ Len(Unsigned(t)) = Len(t) - 1
              /\ \A k \in 1 .. Len(t) - 1 : Unsigned(t)[k] = t[k + 1]
         /\ ~(t # <<>> /\ t[1] \in Signs) => Unsigned(t) = t
<1>1. CASE t # <<>> /\ t[1] \in Signs
  <2>1. /\ Tail(t) \in Seq(Handed) /\ Len(Tail(t)) = Len(t) - 1
        /\ \A k \in 1 .. Len(t) - 1 : Tail(t)[k] = t[k + 1]
    BY <1>1
  <2> QED BY <1>1, <2>1 DEF Unsigned
<1>2. CASE ~(t # <<>> /\ t[1] \in Signs)
  BY <1>2 DEF Unsigned
<1> QED BY <1>1, <1>2

LEMMA TailPart ==
  ASSUME NEW B, NEW u \in Seq(B), NEW i \in 1 .. Len(u), NEW j \in i .. Len(u)
  PROVE  /\ SubSeq(u, i, j) \in Seq(B) /\ SubSeq(u, i, j) # <<>>
         /\ SubSeq(u, i, j)[1] = u[i]
         /\ Tail(SubSeq(u, i, j)) = SubSeq(u, i + 1, j)
<1> DEFINE s == SubSeq(u, i, j)
           r == SubSeq(u, i + 1, j)
<1>0. Len(u) \in Nat
  BY LenProperties
<1>1. /\ s \in Seq(B) /\ Len(s) = j - i + 1
      /\ \A k \in 1 .. j - i + 1 : s[k] = u[i + k - 1]
  BY <1>0, SubSeqProperties
<1>2. /\ r \in Seq(B) /\ Len(r) = j - i
      /\ \A k \in 1 .. j - i : r[k] = u[i + k]
  BY <1>0, SubSeqProperties
<1> HIDE DEF s, r
<1>3. s # <<>> /\ s[1] = u[i]
  <2>1. 1 \in 1 .. j - i + 1 /\ i + 1 - 1 = i BY <1>0
  <2> QED BY <1>1, <2>1, EmptySeq
<1>4. /\ Tail(s) \in Seq(B) /\ Len(Tail(s)) = j - i
      /\ \A k \in 1 .. j - i : Tail(s)[k] = s[k + 1]
  <2>1. Len(s) - 1 = j - i BY <1>1, <1>0
  <2> QED BY <1>1, <1>3, <2>1, HeadTailProperties
<1>5. \A k \in 1 .. j - i : Tail(s)[k] = r[k]
  <2> TAKE k \in 1 .. j - i
  <2>1. k + 1 \in 1 .. j - i + 1 /\ i + (k + 1) - 1 = i + k BY <1>0
  <2>2. s[k + 1] = u[i + k] BY <1>1, <2>1
  <2> QED BY <1>2, <1>4, <2>2
<1>6. Tail(s) = r
  BY <1>2, <1>4, <1>5, SeqEqual
<1> QED BY <1>1, <1>3, <1>6 DEF s, r

\* The exponent and the fraction as parts of a text.
LEMMA FractionPart ==
  ASSUME NEW u \in Seq(Handed), NEW i \in 1 .. Len(u), NEW j \in i .. Len(u)
  PROVE  IsFraction(SubSeq(u, i + 1, j)) <=>
           j = i \/ (u[i + 1] = "." /\ DigitRun(u, i + 2, j, "Decimal"))
<1> DEFINE s == SubSeq(u, i + 1, j)
<1>0. Len(u) \in Nat
  BY LenProperties
<1>1. CASE j = i
  <2>1. s = <<>> BY <1>0, <1>1
  <2> QED BY <1>1, <2>1 DEF IsFraction
<1>2. CASE j # i
  <2>1. s \in Seq(Handed) /\ s # <<>> /\ s[1] = u[i + 1]
    BY <1>0, <1>2
  <2>2. Tail(s) = SubSeq(u, i + 2, j)
    BY <1>0, <1>2
  <2>3. Whole(SubSeq(u, i + 2, j), "Decimal") <=> DigitRun(u, i + 2, j, "Decimal")
    <3>1. i + 2 \in Nat \ {0} /\ j \in 0 .. Len(u) BY <1>0
    <3> QED BY <3>1, WholePart
  <2> HIDE DEF s
  <2> QED BY <1>2, <2>1, <2>2, <2>3 DEF IsFraction, s
<1> QED BY <1>1, <1>2

LEMMA PowerPart ==
  ASSUME NEW u \in Seq(Handed), NEW j \in 1 .. Len(u)
  PROVE  IsPower(SubSeq(u, j + 1, Len(u))) <=>
           \/ j = Len(u)
           \/ /\ u[j + 1] \in Marks
              /\ \/ DigitRun(u, j + 2, Len(u), "Decimal")
                 \/ u[j + 2] \in Signs /\ DigitRun(u, j + 3, Len(u), "Decimal")
<1> DEFINE n == Len(u)
           s == SubSeq(u, j + 1, n)
           r == SubSeq(u, j + 2, n)
<1>0. n \in Nat
  BY LenProperties
<1>1. CASE j = n
  <2>1. s = <<>> BY <1>0, <1>1
  <2> QED BY <1>1, <2>1 DEF IsPower
<1>2. CASE j # n
  <2>1. s \in Seq(Handed) /\ s # <<>> /\ s[1] = u[j + 1] /\ Tail(s) = r
    <3>1. j + 1 \in 1 .. Len(u) /\ n \in j + 1 .. Len(u) /\ (j + 1) + 1 = j + 2
      BY <1>0, <1>2
    <3> DEFINE i == j + 1
    <3> HIDE DEF i
    <3>2. i \in 1 .. Len(u) /\ n \in i .. Len(u) BY <3>1 DEF i
    <3>3. /\ SubSeq(u, i, n) \in Seq(Handed) /\ SubSeq(u, i, n) # <<>>
          /\ SubSeq(u, i, n)[1] = u[i] /\ Tail(SubSeq(u, i, n)) = SubSeq(u, i + 1, n)
      <4> HIDE DEF n
      <4> QED BY <3>2, TailPart
    <3> QED BY <3>1, <3>3 DEF i
  <2>2. Whole(SubSeq(u, j + 2, n), "Decimal") <=> DigitRun(u, j + 2, n, "Decimal")
    <3>1. j + 2 \in Nat \ {0} /\ n \in 0 .. Len(u) BY <1>0
    <3> QED BY <3>1, WholePart
  <2>3. Whole(SubSeq(u, j + 3, n), "Decimal") <=> DigitRun(u, j + 3, n, "Decimal")
    <3>1. j + 3 \in Nat \ {0} /\ n \in 0 .. Len(u) BY <1>0
    <3> QED BY <3>1, WholePart
  <2>4. Whole(Unsigned(r), "Decimal") <=>
          \/ DigitRun(u, j + 2, n, "Decimal")
          \/ u[j + 2] \in Signs /\ DigitRun(u, j + 3, n, "Decimal")
    <3>1. CASE j + 1 = n
      <4>1. r = <<>> BY <1>0, <3>1
      <4>2. ~Whole(Unsigned(r), "Decimal") BY <4>1 DEF Unsigned, Whole
      <4>3. ~DigitRun(u, j + 2, n, "Decimal") /\ ~DigitRun(u, j + 3, n, "Decimal") BY <1>0, <3>1 DEF DigitRun
      <4> QED BY <4>2, <4>3
    <3>2. CASE j + 1 # n
      <4>1. r # <<>> /\ r[1] = u[j + 2] /\ Tail(r) = SubSeq(u, j + 3, n)
        <5>1. j + 2 \in 1 .. Len(u) /\ n \in j + 2 .. Len(u) /\ (j + 2) + 1 = j + 3
          BY <1>0, <1>2, <3>2
        <5> DEFINE i == j + 2
        <5> HIDE DEF i
        <5>2. i \in 1 .. Len(u) /\ n \in i .. Len(u) BY <5>1 DEF i
        <5>3. /\ SubSeq(u, i, n) # <<>> /\ SubSeq(u, i, n)[1] = u[i]
              /\ Tail(SubSeq(u, i, n)) = SubSeq(u, i + 1, n)
          <6> HIDE DEF n
          <6> QED BY <5>2, TailPart
        <5> QED BY <5>1, <5>3 DEF i
      <4> HIDE DEF r
      <4>2. CASE u[j + 2] \in Signs
        <5>1. Unsigned(r) = SubSeq(u, j + 3, n) BY <4>1, <4>2 DEF Unsigned
        <5>2. ~DigitRun(u, j + 2, n, "Decimal") BY <4>2, DigitsAre DEF DigitRun, Signs, Decimals
        <5> QED BY <4>2, <5>1, <5>2, <2>3
      <4>3. CASE u[j + 2] \notin Signs
        <5>1. Unsigned(r) = SubSeq(u, j + 2, n) BY <4>1, <4>3 DEF Unsigned, r
        <5> QED BY <4>3, <5>1, <2>2
      <4> QED BY <4>2, <4>3
    <3> QED BY <3>1, <3>2
  <2> HIDE DEF s, r
  <2> QED BY <1>2, <2>1, <2>4 DEF IsPower, Marks, s, n
<1> QED BY <1>1, <1>2

LEMMA MeaningsForm ==
  ASSUME NEW t \in Seq(Handed)
  PROVE  Meanings(t) # {} <=> Form(Unsigned(t), Len(Unsigned(t)))
<1> DEFINE behind == Unsigned(t)
           n == Len(behind)
           based == Based(behind)
           cuts == Cuts(behind)
<1>0. behind \in Seq(Handed) /\ n \in Nat
  BY UnsignedIs, LenProperties
<1>1. Meanings(t) # {} <=> based # {} \/ cuts # {}
  BY DEF Meanings
<1>2. based # {} <=> FormBased(behind, n)
  <2>1. Whole(SubSeq(behind, 3, n), BaseOf(behind[2])) <=> DigitRun(behind, 3, n, BaseOf(behind[2]))
    <3>1. n \in 0 .. Len(behind) /\ 3 \in Nat \ {0} BY <1>0
    <3> HIDE DEF behind, n
    <3> QED BY <1>0, <3>1, WholePart
  <2> HIDE DEF behind
  <2> QED BY <2>1 DEF FormBased, Based, Letters
<1>3. cuts # {} <=> \E i, j \in 1 .. n : FormCut(behind, n, i, j)
  <2>1. ASSUME NEW i \in 1 .. n, NEW j \in 1 .. n, i <= j
        PROVE  /\ Whole(SubSeq(behind, 1, i), "Decimal") <=> DigitRun(behind, 1, i, "Decimal")
               /\ IsFraction(SubSeq(behind, i + 1, j)) <=>
                    j = i \/ (behind[i + 1] = "." /\ DigitRun(behind, i + 2, j, "Decimal"))
               /\ IsPower(SubSeq(behind, j + 1, n)) <=>
                    \/ j = n
                    \/ /\ behind[j + 1] \in Marks
                       /\ \/ DigitRun(behind, j + 2, n, "Decimal")
                          \/ behind[j + 2] \in Signs /\ DigitRun(behind, j + 3, n, "Decimal")
    <3>1. i \in 0 .. n /\ 1 \in Nat \ {0} /\ j \in i .. n BY <2>1, <1>0
    <3> HIDE DEF behind
    <3>2. Whole(SubSeq(behind, 1, i), "Decimal") <=> DigitRun(behind, 1, i, "Decimal")
      BY <1>0, <3>1, WholePart
    <3>3. IsFraction(SubSeq(behind, i + 1, j)) <=>
                    j = i \/ (behind[i + 1] = "." /\ DigitRun(behind, i + 2, j, "Decimal"))
      BY <1>0, <3>1, FractionPart
    <3>4. IsPower(SubSeq(behind, j + 1, n)) <=>
                    \/ j = n
                    \/ /\ behind[j + 1] \in Marks
                       /\ \/ DigitRun(behind, j + 2, n, "Decimal")
                          \/ behind[j + 2] \in Signs /\ DigitRun(behind, j + 3, n, "Decimal")
      BY <1>0, <3>1, PowerPart
    <3> QED BY <3>2, <3>3, <3>4
  <2>2. ASSUME NEW i \in 1 .. n, NEW j \in 1 .. n
        PROVE  <<i, j>> \in cuts <=> FormCut(behind, n, i, j)
    <3>1. CASE i <= j
      <4> HIDE DEF behind
      <4> QED BY <2>1, <3>1 DEF FormCut, Cuts
    <3>2. CASE ~(i <= j) BY <3>2 DEF FormCut, Cuts
    <3> QED BY <3>1, <3>2
  <2>3. ASSUME NEW c \in cuts PROVE \E i, j \in 1 .. n : FormCut(behind, n, i, j)
    <3>1. c = <<c[1], c[2]>> /\ c[1] \in 1 .. n /\ c[2] \in 1 .. n
      BY DEF Cuts
    <3>2. <<c[1], c[2]>> \in cuts BY <3>1
    <3>3. FormCut(behind, n, c[1], c[2]) BY <2>2, <3>1, <3>2
    <3> QED BY <3>1, <3>3
  <2> HIDE DEF cuts
  <2> QED BY <2>2, <2>3
<1> HIDE DEF based, cuts
<1> QED BY <1>1, <1>2, <1>3 DEF Form

-----------------------------------------------------------------------------
(* Texts and what the builder has made of them.                            *)

TextShape(q, b, t) ==
  \/ q = "Start" /\ b = "Decimal" /\ t = <<>>
  \/ q = "Signed" /\ b = "Decimal" /\ Len(t) = 1 /\ t[1] \in Signs
  \/ Shape(q, b, Unsigned(t), Len(Unsigned(t)))

\* One more character, the sign apart.
LEMMA UnsignedAppend ==
  ASSUME NEW t \in Seq(Handed), NEW c \in Handed
  PROVE  LET u == Unsigned(t)  v == Unsigned(Append(t, c))
         IN  /\ t = <<>> /\ c \in Signs => Len(v) = 0 /\ Append(t, c) = <<c>>
             /\ ~(t = <<>> /\ c \in Signs) =>
                  /\ Len(v) = Len(u) + 1 /\ v[Len(u) + 1] = c
                  /\ Agree(u, v, Len(u)) /\ Agree(v, u, Len(u))
<1> DEFINE u == Unsigned(t)
           m == Append(t, c)
           v == Unsigned(m)
<1>1. /\ m \in Seq(Handed) /\ Len(m) = Len(t) + 1 /\ m # <<>> /\ Len(t) \in Nat
      /\ \A k \in 1 .. Len(t) : m[k] = t[k]
      /\ m[Len(t) + 1] = c
  BY AppendProperties, LenProperties
<1> HIDE DEF m
<1>2. CASE t = <<>>
  <2>1. Len(t) = 0 /\ m[1] = c /\ Len(m) = 1 BY <1>1, <1>2
  <2>2. CASE c \in Signs
    <3>1. Len(v) = 0 BY <1>1, <2>1, <2>2, UnsignedIs
    <3>2. m = <<c>> BY <1>2 DEF m
    <3> QED BY <1>2, <2>2, <3>1, <3>2 DEF m
  <2>3. CASE c \notin Signs
    <3>1. v = m BY <1>1, <2>1, <2>3, UnsignedIs
    <3>2. u = <<>> BY <1>2 DEF Unsigned
    <3>3. Len(u) = 0 BY <3>2
    <3> HIDE DEF u, v
    <3>4. Agree(u, v, 0) /\ Agree(v, u, 0) BY DEF Agree
    <3>5. Len(u) + 1 = 1 /\ Len(v) = 1 /\ v[1] = c BY <2>1, <3>1, <3>3
    <3>6. Len(v) = Len(u) + 1 /\ v[Len(u) + 1] = c BY <3>5
    <3>7. Agree(u, v, Len(u)) /\ Agree(v, u, Len(u)) BY <3>3, <3>4
    <3> QED BY <2>3, <3>6, <3>7 DEF m, u, v
  <2> QED BY <2>2, <2>3
<1>3. CASE t # <<>>
  <2>0. 1 \in 1 .. Len(t) BY <1>1, <1>3, EmptySeq
  <2>1. m[1] = t[1] BY <1>1, <2>0
  <2>2. CASE t[1] \in Signs
    <3>1. /\ Len(u) = Len(t) - 1 /\ \A k \in 1 .. Len(t) - 1 : u[k] = t[k + 1]
      BY <1>3, <2>2, UnsignedIs
    <3>2. /\ Len(v) = Len(t) /\ \A k \in 1 .. Len(t) : v[k] = m[k + 1]
      <4>1. Len(m) - 1 = Len(t) BY <1>1
      <4> QED BY <1>1, <2>1, <2>2, <4>1, UnsignedIs
    <3> HIDE DEF u, v
    <3>3. ASSUME NEW k \in 1 .. Len(u) PROVE u[k] = v[k]
      <4>1. k \in 1 .. Len(t) /\ k + 1 \in 1 .. Len(t) BY <3>1, <1>1
      <4> QED BY <4>1, <3>1, <3>2, <1>1
    <3>4. v[Len(u) + 1] = c
      <4>1. Len(u) + 1 = Len(t) /\ Len(t) \in 1 .. Len(t) BY <3>1, <1>1, <2>0
      <4> QED BY <4>1, <3>2, <1>1
    <3>5. Agree(u, v, Len(u)) /\ Agree(v, u, Len(u)) BY <3>3 DEF Agree
    <3>6. Len(v) = Len(u) + 1 BY <3>1, <3>2, <1>1
    <3> QED BY <1>3, <3>4, <3>5, <3>6 DEF u, v, m
  <2>3. CASE t[1] \notin Signs
    <3>1. u = t BY <2>3, UnsignedIs
    <3>2. v = m BY <1>1, <2>1, <2>3, UnsignedIs
    <3> HIDE DEF u, v
    <3>3. Agree(u, v, Len(u)) /\ Agree(v, u, Len(u)) BY <3>1, <3>2, <1>1 DEF Agree
    <3> QED BY <1>1, <1>3, <3>1, <3>2, <3>3 DEF u, v, m
  <2> QED BY <2>2, <2>3
<1> QED BY <1>2, <1>3

LEMMA TextGrows ==
  ASSUME NEW t \in Seq(Handed), NEW c \in Handed, NEW q, NEW b, NEW q2, NEW b2,
         TextShape(q, b, t), Step(q, b, c, q2, b2)
  PROVE  TextShape(q2, b2, Append(t, c))
<1> DEFINE u == Unsigned(t)
           n == Len(u)
           m == Append(t, c)
           v == Unsigned(m)
<1>0. n \in Nat
  BY UnsignedIs, LenProperties
<1>1. CASE q = "Start" /\ b = "Decimal" /\ t = <<>>
  <2>1. CASE c \in Signs
    <3>1. m = <<c>> /\ Len(m) = 1 /\ m[1] = c BY <1>1
    <3>2. q2 = "Signed" /\ b2 = "Decimal"
      BY <1>1, <2>1 DEF Step, Signs, NonZero, Decimals
    <3> QED BY <2>1, <3>1, <3>2 DEF TextShape
  <2>2. CASE c \notin Signs
    <3>1. u = <<>> BY <1>1 DEF Unsigned
    <3>2. Len(u) = 0 BY <3>1
    <3>3. Len(v) = 1 /\ v[1] = c
      <4>1. Len(v) = n + 1 /\ v[n + 1] = c BY <2>2, UnsignedAppend
      <4>2. n + 1 = 1 BY <3>2
      <4> QED BY <4>1, <4>2
    <3>4. q2 # "Signed" BY <1>1, <2>2 DEF Step
    <3>5. Shape(q2, b2, v, 1) BY <1>1, <3>3, <3>4, ShapeFirst
    <3> QED BY <3>3, <3>5 DEF TextShape
  <2> QED BY <2>1, <2>2
<1>2. CASE q = "Signed" /\ b = "Decimal" /\ Len(t) = 1 /\ t[1] \in Signs
  <2>0. t # <<>> BY <1>2, EmptySeq
  <2>1. Len(u) = 0 BY <1>2, <2>0, UnsignedIs
  <2>2. Len(v) = 1 /\ v[1] = c
    <3>1. Len(v) = n + 1 /\ v[n + 1] = c BY <2>0, UnsignedAppend
    <3>2. n + 1 = 1 BY <2>1
    <3> QED BY <3>1, <3>2
  <2>3. q2 # "Signed" BY <1>2 DEF Step
  <2>4. Shape(q2, b2, v, 1) BY <1>2, <2>2, <2>3, ShapeFirst
  <2> QED BY <2>2, <2>4 DEF TextShape
<1>3. CASE Shape(q, b, u, n)
  <2>1. n >= 1 BY <1>0, <1>3, ShapeLong
  <2>2. t # <<>>
    <3>1. t = <<>> => u = <<>> BY DEF Unsigned
    <3> QED BY <2>1, <3>1, EmptySeq
  <2>3. Len(v) = n + 1 /\ v[n + 1] = c /\ Agree(u, v, n)
    BY <2>2, UnsignedAppend
  <2> HIDE DEF u, n, v, m
  <2>4. Shape(q2, b2, v, n + 1)
    BY <1>0, <1>3, <2>1, <2>3, ShapeGrows
  <2> QED BY <2>3, <2>4 DEF TextShape, v, m
<1> QED BY <1>1, <1>2, <1>3 DEF TextShape

TextComes(c, t, q2, b2) == \E q, b : TextShape(q, b, t) /\ Step(q, b, c, q2, b2)

LEMMA TextShrinks ==
  ASSUME NEW t \in Seq(Handed), NEW c \in Handed, NEW q2, NEW b2,
         TextShape(q2, b2, Append(t, c))
  PROVE  TextComes(c, t, q2, b2)
<1> DEFINE u == Unsigned(t)
           n == Len(u)
           m == Append(t, c)
           v == Unsigned(m)
<1>0. /\ n \in Nat /\ Len(t) \in Nat /\ m \in Seq(Handed) /\ Len(m) = Len(t) + 1 /\ m # <<>>
      /\ \A k \in 1 .. Len(t) : m[k] = t[k]
  BY UnsignedIs, LenProperties, AppendProperties
<1>1. ASSUME NEW q, NEW b, TextShape(q, b, t), Step(q, b, c, q2, b2)
      PROVE  TextComes(c, t, q2, b2)
  BY <1>1 DEF TextComes
<1>2. CASE t = <<>> /\ c \in Signs
  <2>1. Len(v) = 0 /\ m = <<c>> BY <1>2, UnsignedAppend
  <2>2. ~Shape(q2, b2, v, Len(v)) BY <2>1, ShapeLong
  <2>3. q2 = "Signed" /\ b2 = "Decimal" BY <1>0, <2>2 DEF TextShape
  <2>4. TextShape("Start", "Decimal", t) BY <1>2 DEF TextShape
  <2>5. Step("Start", "Decimal", c, q2, b2) BY <1>2, <2>3 DEF Step
  <2> QED BY <1>1, <2>4, <2>5
<1>3. CASE ~(t = <<>> /\ c \in Signs)
  <2>1. Len(v) = n + 1 /\ v[n + 1] = c /\ Agree(v, u, n) BY <1>3, UnsignedAppend
  <2>2. Shape(q2, b2, v, n + 1)
    <3>1. ~(Len(m) = 1 /\ m[1] \in Signs)
      <4> SUFFICES ASSUME Len(m) = 1, m[1] \in Signs PROVE FALSE OBVIOUS
      <4>1. Len(t) = 0 BY <1>0
      <4>2. t = <<>> BY <4>1, EmptySeq
      <4>3. m[1] = c BY <4>2
      <4> QED BY <1>3, <4>2, <4>3
    <3> HIDE DEF n, m
    <3> QED BY <1>0, <2>1, <3>1 DEF TextShape, m
  <2>3. CASE n = 0
    <3>1. Shape(q2, b2, v, 1) /\ v[1] = c BY <2>1, <2>2, <2>3
    <3>2. q2 # "Signed" BY <3>1 DEF Shape
    <3>3. CASE t = <<>>
      <4>1. TextShape("Start", "Decimal", t) BY <3>3 DEF TextShape
      <4>2. Step("Start", "Decimal", c, q2, b2) BY <3>1, <3>2, ShapeFirst
      <4> QED BY <1>1, <4>1, <4>2
    <3>4. CASE t # <<>>
      <4>0. Len(t) # 0 BY <3>4, EmptySeq
      <4>1. t[1] \in Signs /\ Len(t) - 1 = 0 BY <2>3, <3>4, <4>0, UnsignedIs
      <4>2. TextShape("Signed", "Decimal", t) BY <1>0, <4>1 DEF TextShape
      <4>3. Step("Signed", "Decimal", c, q2, b2) BY <3>1, <3>2, ShapeFirst
      <4> QED BY <1>1, <4>2, <4>3
    <3> QED BY <3>3, <3>4
  <2>4. CASE n # 0
    <3> HIDE DEF u, n, v, m
    <3>1. Comes(v[n + 1], u, n, q2, b2)
      <4>1. n >= 1 BY <1>0, <2>4
      <4> QED BY <1>0, <4>1, <2>1, <2>2, ShapeShrinks
    <3>2. PICK q, b : Shape(q, b, u, n) /\ Step(q, b, c, q2, b2)
      BY <2>1, <3>1 DEF Comes
    <3>3. TextShape(q, b, t) BY <3>2 DEF TextShape, u, n
    <3> QED BY <1>1, <3>2, <3>3
  <2> QED BY <2>3, <2>4
<1> QED BY <1>2, <1>3

\* A text has one shape only.
LEMMA TextUnique ==
  ASSUME NEW t \in Seq(Handed), NEW q, NEW b, NEW q2, NEW b2,
         TextShape(q, b, t), TextShape(q2, b2, t)
  PROVE  q = q2 /\ b = b2
<1> DEFINE u == Unsigned(t)
           n == Len(u)
<1>0. n \in Nat
  BY UnsignedIs, LenProperties
<1>1. CASE t = <<>>
  <2>1. u = <<>> BY <1>1 DEF Unsigned
  <2>2. n = 0 /\ Len(t) = 0 BY <1>1, <2>1
  <2>3. \A p, d : ~Shape(p, d, u, n) BY <2>2, <1>0, ShapeLong
  <2> QED BY <2>2, <2>3 DEF TextShape
<1>2. CASE Len(t) = 1 /\ t[1] \in Signs
  <2>1. t # <<>> BY <1>2, EmptySeq
  <2>2. n = 0 BY <1>2, <2>1, UnsignedIs
  <2>3. \A p, d : ~Shape(p, d, u, n) BY <2>2, <1>0, ShapeLong
  <2> QED BY <2>1, <2>3 DEF TextShape
<1>3. CASE t # <<>> /\ ~(Len(t) = 1 /\ t[1] \in Signs)
  <2>1. Shape(q, b, u, n) /\ Shape(q2, b2, u, n) BY <1>3 DEF TextShape
  <2> HIDE DEF u, n
  <2> QED BY <1>0, <2>1, ShapeTells
<1> QED BY <1>1, <1>2, <1>3

\* A text has a meaning if and only if its state is a final one.
LEMMA MeaningsFinal ==
  ASSUME NEW t \in Seq(Handed)
  PROVE  Meanings(t) # {} <=> \E q \in FinalStates : \E b : TextShape(q, b, t)
<1>1. Len(Unsigned(t)) \in Nat
  BY UnsignedIs, LenProperties
<1>2. Meanings(t) # {} <=> \E q \in FinalStates : \E b : Shape(q, b, Unsigned(t), Len(Unsigned(t)))
  BY <1>1, MeaningsForm, FormFinal
<1> QED BY <1>2 DEF TextShape, FinalStates

\* What the builder has read can become a number.
LEMMA ShapeHopeful ==
  ASSUME NEW t \in Seq(Handed), NEW q, NEW b, TextShape(q, b, t)
  PROVE  Hopeful(t)
<1>1. CASE q \in FinalStates
  BY <1>1, MeaningsFinal DEF Hopeful
<1>2. CASE q \notin FinalStates
  <2>1. q \in {"Start", "Signed", "ValueStart", "FractionStart", "ExponentStart", "ExponentSigned"}
    BY <1>2 DEF TextShape, Shape, FinalStates
  <2>2. "1" \in Handed /\ "1" \in NonZero /\ "1" \in Decimals
    BY DEF Handed, NonZero, Decimals, Hexes
  <2>3. q = "ValueStart" => "1" \in Digits(b)
    BY DigitsAre DEF TextShape, Shape
  <2>4. q = "FractionStart" => "1" \in Digits(b)
    BY <2>2, DigitsAre DEF TextShape, Shape
  <2>5. \E q2 \in FinalStates : \E b2 : Step(q, b, "1", q2, b2)
    <3>1. \E q2 \in {"Value", "Fraction", "Exponent"} : Step(q, b, "1", q2, b)
      BY <2>1, <2>2, <2>3, <2>4 DEF Step
    <3> QED BY <3>1 DEF FinalStates
  <2>6. \E q2 \in FinalStates : \E b2 : TextShape(q2, b2, Append(t, "1"))
    BY <2>2, <2>5, TextGrows
  <2>7. Append(t, "1") \in Seq(Handed)
    BY <2>2, AppendProperties
  <2> QED BY <2>6, <2>7, MeaningsFinal DEF Hopeful
<1> QED BY <1>1, <1>2

\* A character that no rule takes makes the text hopeless.
LEMMA RefusedHopeless ==
  ASSUME NEW t \in Seq(Handed), NEW q, NEW b, TextShape(q, b, t), NEW c \in Handed,
         \A q2, b2 : ~Step(q, b, c, q2, b2)
  PROVE  ~Hopeful(Append(t, c))
<1> DEFINE m == Append(t, c)
<1>0. m \in Seq(Handed) /\ "1" \in Handed /\ Append(m, "1") \in Seq(Handed)
  BY AppendProperties DEF Handed, Hexes, Decimals
<1>1. \A q2, b2 : ~TextShape(q2, b2, m)
  <2> SUFFICES ASSUME NEW q2, NEW b2, TextShape(q2, b2, m) PROVE FALSE
    OBVIOUS
  <2>1. PICK p, d : TextShape(p, d, t) /\ Step(p, d, c, q2, b2)
    BY TextShrinks DEF TextComes
  <2>2. p = q /\ d = b
    BY <2>1, TextUnique
  <2> QED BY <2>1, <2>2
<1> HIDE DEF m
<1>2. \A q2, b2 : ~TextShape(q2, b2, Append(m, "1"))
  BY <1>0, <1>1, TextShrinks DEF TextComes
<1> QED BY <1>0, <1>1, <1>2, MeaningsFinal DEF Hopeful, m

\* Likewise the end in a state that is not final.
LEMMA EndedMeaningless ==
  ASSUME NEW t \in Seq(Handed), NEW q, NEW b, TextShape(q, b, t), q \notin FinalStates
  PROVE  Meanings(t) = {}
BY TextUnique, MeaningsFinal

-----------------------------------------------------------------------------
(* The builder at work.                                                    *)

NumberInv ==
  /\ source \in {"lexer", "parse", "float"} /\ result \in {"none", "Number", "Err"}
  /\ read \in Seq(Handed)
  /\ TextShape(state, base, read)
  /\ result = "none" => stop = "none"
  /\ result = "Number" => stop = "none" \/ state \in FinalStates
  /\ result = "Err" =>
       \/ stop = "tail"
       \/ stop = "end" /\ state \notin FinalStates
       \/ /\ stop \in Handed /\ (stop = "/" => source # "lexer")
          /\ \A q2, b2 : ~Step(state, base, stop, q2, b2)

LEMMA NumberInvProperty == NumberInv => AcceptsNumbers
<1> SUFFICES ASSUME NumberInv PROVE AcceptsNumbers
  OBVIOUS
<1>1. Hopeful(read)
  BY ShapeHopeful DEF NumberInv
<1>2. ASSUME result = "Number", stop # "none" PROVE Meanings(read) # {}
  <2>1. state \in FinalStates BY <1>2 DEF NumberInv
  <2> QED BY <2>1, MeaningsFinal DEF NumberInv
<1>3. ASSUME result = "Err"
      PROVE  IF stop \in Ends THEN Meanings(read) = {}
             ELSE stop = "tail" \/ ~Hopeful(Append(read, stop))
  <2>0. "tail" \notin Ends /\ "end" \in Ends /\ "end" \notin Handed
    BY DEF Ends, Handed, Hexes, Decimals
  <2>1. CASE stop = "tail" BY <2>0, <2>1
  <2>2. CASE stop = "end" /\ state \notin FinalStates
    BY <2>0, <2>2, EndedMeaningless DEF NumberInv
  <2>3. CASE /\ stop \in Handed /\ (stop = "/" => source # "lexer")
             /\ \A q2, b2 : ~Step(state, base, stop, q2, b2)
    <3>1. stop \notin Ends BY <2>0, <2>3 DEF Ends
    <3>2. ~Hopeful(Append(read, stop)) BY <2>3, RefusedHopeless DEF NumberInv
    <3> QED BY <3>1, <3>2
  <2> QED BY <1>3, <2>1, <2>2, <2>3 DEF NumberInv
<1> QED BY <1>1, <1>2, <1>3 DEF AcceptsNumbers

LEMMA NumberInvStarts == NumberInit => NumberInv
BY DEF NumberInit, NumberInv, TextShape

LEMMA NumberInvStep ==
  ASSUME ~SlashBehind, NumberInv, [NumberNext]_numberVars
  PROVE  NumberInv'
<1>1. ASSUME NEW char \in Handed, Read(char) PROVE NumberInv'
  <2>1. PICK rule \in Rules : Accept(char, rule)
    BY <1>1 DEF Read
  <2>2. Step(state, base, char, state', base')
    BY <2>1, StepIs DEF Accept
  <2>3. read' = Append(read, char) /\ read' \in Seq(Handed)
    BY <2>1, AppendProperties DEF Accept, NumberInv
  <2>4. TextShape(state', base', read')
    BY <2>2, <2>3, TextGrows DEF NumberInv
  <2>5. source' = source /\ stop' = stop /\ result' = result /\ result = "none"
    BY <1>1 DEF Read, ReadingNumber
  <2> QED BY <2>3, <2>4, <2>5 DEF NumberInv
<1>2. ASSUME NEW char \in Handed, Refuse(char) PROVE NumberInv'
  <2>1. \A q2, b2 : ~Step(state, base, char, q2, b2)
    BY <1>2, StepAccepts DEF Refuse
  <2>2. /\ result' = "Err" /\ stop' = char /\ source' = source /\ read' = read
        /\ state' = state /\ base' = base /\ (char = "/" => source # "lexer")
    BY <1>2 DEF Refuse
  <2> QED BY <2>1, <2>2 DEF NumberInv
<1>3. CASE Finish
  BY <1>3 DEF Finish, NumberInv
<1>4. CASE RefuseTail
  BY <1>4 DEF RefuseTail, NumberInv
<1>5. CASE FromFloat \/ FromSpecial
  BY <1>5 DEF FromFloat, FromSpecial, ReadingNumber, NumberInv
<1>6. CASE UNCHANGED numberVars
  BY <1>6 DEF numberVars, NumberInv
<1> QED BY <1>1, <1>2, <1>3, <1>4, <1>5, <1>6 DEF NumberNext

-----------------------------------------------------------------------------

\* For texts of any length, if no slash directly follows a number in the lexer:
\* exactly the numbers of KDL are accepted, and no text is refused before it is
\* hopeless or read on when it is.
THEOREM NumbersAreAccepted ==
  ASSUME ~SlashBehind
  PROVE  NumberSpec => []AcceptsNumbers
<1>1. NumberInv /\ [NumberNext]_numberVars => NumberInv'
  BY NumberInvStep
<1> QED BY <1>1, NumberInvStarts, NumberInvProperty, PTL DEF NumberSpec


-----------------------------------------------------------------------------
(* Plain: what is left of a part of a text.                                *)

\* What the builder pushes for a digit or an underscore.
One(c) == IF c = "underscore" THEN <<>> ELSE <<Upper(c)>>

Figures == Handed \ {"underscore", "e"}

LEMMA OneType ==
  ASSUME NEW c \in Handed
  PROVE  One(c) \in Seq(Figures)
<1>1. c # "underscore" => Upper(c) \in Figures
  BY DEF Upper, Figures, Handed, Hexes, Decimals
<1>2. CASE c = "underscore" BY <1>2 DEF One
<1>3. CASE c # "underscore"
  <2>1. <<Upper(c)>> \in Seq(Figures) BY <1>1, <1>3
  <2> QED BY <1>3, <2>1 DEF One
<1> QED BY <1>2, <1>3

LEMMA EachPlain ==
  ASSUME NEW t \in Seq(Handed)
  PROVE  /\ [i \in DOMAIN t |-> One(t[i])] \in Seq(Seq(Figures))
         /\ Plain(t) = FlattenSeq([i \in DOMAIN t |-> One(t[i])])
<1>1. DOMAIN t = 1 .. Len(t) /\ Len(t) \in Nat
  BY LenProperties
<1>2. \A i \in 1 .. Len(t) : One(t[i]) \in Seq(Figures)
  BY ElementOfSeq, OneType
<1>3. [i \in DOMAIN t |-> One(t[i])] \in Seq(Seq(Figures))
  BY <1>1, <1>2, IsASeq
<1>4. [i \in DOMAIN t |-> One(t[i])] =
        [i \in DOMAIN t |-> IF t[i] = "underscore" THEN <<>> ELSE <<Upper(t[i])>>]
  BY DEF One
<1> QED BY <1>3, <1>4 DEF Plain

LEMMA PlainType ==
  ASSUME NEW t \in Seq(Handed)
  PROVE  Plain(t) \in Seq(Figures)
BY EachPlain, FlattenType

LEMMA PlainEmpty == Plain(<<>>) = <<>>
<1>1. [i \in DOMAIN <<>> |-> IF <<>>[i] = "underscore" THEN <<>> ELSE <<Upper(<<>>[i])>>] = <<>>
  OBVIOUS
<1> QED BY <1>1, FlattenEmpty DEF Plain

LEMMA PlainAppend ==
  ASSUME NEW t \in Seq(Handed), NEW c \in Handed
  PROVE  Plain(Append(t, c)) = Plain(t) \o One(c)
<1> DEFINE each == [i \in DOMAIN t |-> One(t[i])]
           more == [i \in DOMAIN Append(t, c) |-> One(Append(t, c)[i])]
           n == Len(t)
<1>1. n \in Nat /\ DOMAIN t = 1 .. n
  BY LenProperties
<1>2. /\ Append(t, c) \in Seq(Handed) /\ Len(Append(t, c)) = n + 1
      /\ DOMAIN Append(t, c) = 1 .. n + 1
      /\ \A i \in 1 .. n : Append(t, c)[i] = t[i]
      /\ Append(t, c)[n + 1] = c
  BY AppendProperties, LenProperties
<1>3. each \in Seq(Seq(Figures)) /\ more \in Seq(Seq(Figures)) /\ One(c) \in Seq(Figures)
  BY <1>2, EachPlain, OneType
<1>4. Len(each) = n /\ Len(more) = n + 1
  BY <1>1, <1>2
<1>5. /\ \A i \in 1 .. n : more[i] = each[i]
      /\ more[n + 1] = One(c)
  BY <1>1, <1>2
<1>7. Plain(t) = FlattenSeq(each) /\ Plain(Append(t, c)) = FlattenSeq(more)
  BY <1>2, EachPlain
<1> HIDE DEF each, more
<1>6. more = Append(each, One(c))
  <2>1. /\ Append(each, One(c)) \in Seq(Seq(Figures))
        /\ Len(Append(each, One(c))) = n + 1
        /\ \A i \in 1 .. n : Append(each, One(c))[i] = each[i]
        /\ Append(each, One(c))[n + 1] = One(c)
    <3> DEFINE b == One(c)
               A == Seq(Figures)
    <3>1. each \in Seq(A) /\ b \in A BY <1>3
    <3> HIDE DEF b, A
    <3> QED BY <3>1, <1>4, AppendProperties DEF b, A
  <2>2. \A i \in 1 .. n + 1 : more[i] = Append(each, One(c))[i]
    <3> TAKE i \in 1 .. n + 1
    <3>1. CASE i = n + 1 BY <3>1, <2>1, <1>5
    <3>2. CASE i # n + 1 BY <3>2, <2>1, <1>5, <1>1
    <3> QED BY <3>1, <3>2
  <2> QED BY <1>3, <1>4, <2>1, <2>2, SeqEqual
<1> QED BY <1>3, <1>6, <1>7, FlattenAppend

\* Sequences of the characters that are left are sequences of characters.
LEMMA FiguresHanded ==
  ASSUME NEW s \in Seq(Figures)
  PROVE  s \in Seq(Handed)
BY SeqMonotonic DEF Figures

\* Three sequences put together, in either order.
LEMMA Regroup ==
  ASSUME NEW A, NEW r \in Seq(A), NEW s \in Seq(A), NEW t \in Seq(A)
  PROVE  (r \o s) \o t = r \o (s \o t)
BY ConcatAssociative, Z3T(30)

LEMMA AppendAfter ==
  ASSUME NEW A, NEW s \in Seq(A), NEW t \in Seq(A), NEW a \in A
  PROVE  s \o Append(t, a) = Append(s \o t, a) /\ s \o Append(t, a) = (s \o t) \o <<a>>
<1>1. s \o t \in Seq(A) /\ <<a>> \in Seq(A)
  BY ConcatProperties
<1>2. Append(t, a) = t \o <<a>> /\ Append(s \o t, a) = (s \o t) \o <<a>>
  BY <1>1, AppendIsConcat
<1> QED BY <1>1, <1>2, Regroup

LEMMA PlainConcat ==
  ASSUME NEW s \in Seq(Handed), NEW t \in Seq(Handed)
  PROVE  Plain(s \o t) = Plain(s) \o Plain(t)
<1> DEFINE S == {u \in Seq(Handed) : Plain(s \o u) = Plain(s) \o Plain(u)}
<1>1. <<>> \in S
  BY PlainEmpty, PlainType, ConcatEmptySeq, EmptySeq
<1>2. ASSUME NEW u \in Seq(Handed), NEW c \in Handed, u \in S
      PROVE  Append(u, c) \in S
  <2>1. s \o Append(u, c) = Append(s \o u, c)
    BY AppendAfter
  <2>2. s \o u \in Seq(Handed) /\ Append(u, c) \in Seq(Handed)
    BY ConcatProperties, AppendProperties
  <2>3. Plain(s \o Append(u, c)) = Plain(s \o u) \o One(c)
    BY <2>1, <2>2, PlainAppend
  <2>4. Plain(Append(u, c)) = Plain(u) \o One(c)
    BY PlainAppend
  <2>5. Plain(s \o u) = Plain(s) \o Plain(u)
    BY <1>2
  <2>6. (Plain(s) \o Plain(u)) \o One(c) = Plain(s) \o (Plain(u) \o One(c))
    BY PlainType, OneType, Regroup
  <2> QED BY <2>2, <2>3, <2>4, <2>5, <2>6
<1>3. Seq(Handed) \subseteq S
  <2> HIDE DEF S
  <2> QED BY <1>1, <1>2, SeqInductionSet
<1> QED BY <1>3

\* What is left is left once more.
LEMMA PlainAgain ==
  ASSUME NEW t \in Seq(Figures)
  PROVE  Plain(t) = t
<1> DEFINE S == {u \in Seq(Figures) : Plain(u) = u}
<1>1. <<>> \in S
  BY PlainEmpty, EmptySeq
<1>2. ASSUME NEW u \in Seq(Figures), NEW c \in Figures, u \in S
      PROVE  Append(u, c) \in S
  <2>1. One(c) = <<c>>
    BY DEF One, Figures, Upper
  <2>2. u \in Seq(Handed) /\ c \in Handed
    BY FiguresHanded DEF Figures
  <2>3. Plain(Append(u, c)) = u \o <<c>>
    BY <1>2, <2>1, <2>2, PlainAppend
  <2>4. Append(u, c) = u \o <<c>> /\ Append(u, c) \in Seq(Figures)
    BY AppendIsConcat, AppendProperties
  <2> QED BY <2>3, <2>4
<1>3. Seq(Figures) \subseteq S
  <2> HIDE DEF S
  <2> QED BY <1>1, <1>2, SeqInductionSet
<1> QED BY <1>3

-----------------------------------------------------------------------------
(* Whole numbers and the zeros in front of them.                           *)

\* The digits of a base as they are left in the text, and their values.
DigitsLeft(b) == Digits(b) \ {"e"}

Bases == {"Binary", "Octal", "Decimal", "Hexadecimal"}

LEMMA BaseFacts ==
  /\ \A l \in Letters : BaseOf(l) \in Bases
  /\ \A b \in Bases : Digits(b) \subseteq Handed /\ "0" \in Digits(b)
  /\ \A b \in Bases : \A c \in Digits(b) : Upper(c) \in DigitsLeft(b) /\ c # "underscore"
  /\ \A b \in Bases : DigitsLeft(b) \subseteq Figures
  /\ DigitsLeft("Decimal") = Decimals /\ \A c \in Decimals : Upper(c) = c
BY DEF Bases, BaseOf, Letters, Digits, DigitsLeft, Handed, Hexes, Decimals, Figures, Upper

LEMMA RangeOf ==
  ASSUME NEW t \in Seq(Handed), NEW S
  PROVE  Range(t) \subseteq S <=> \A k \in 1 .. Len(t) : t[k] \in S
<1>1. DOMAIN t = 1 .. Len(t)
  BY LenProperties
<1> QED BY <1>1 DEF Range

LEMMA WholeGrows ==
  ASSUME NEW w \in Seq(Handed), NEW b, NEW c \in Handed, Whole(w, b),
         c \in Digits(b) \union {"underscore"}
  PROVE  Whole(w \o <<c>>, b)
<1> DEFINE v == w \o <<c>>
           n == Len(w)
<1>1. n \in Nat \ {0} /\ \A k \in 1 .. n : w[k] \in Digits(b) \union {"underscore"}
  BY EmptySeq, RangeOf DEF Whole
<1>2. v = Append(w, c)
  BY AppendIsConcat
<1>3. /\ v \in Seq(Handed) /\ v # <<>> /\ Len(v) = n + 1
      /\ \A k \in 1 .. n : v[k] = w[k]
      /\ v[n + 1] = c
  BY <1>2, AppendProperties
<1> HIDE DEF v
<1>4. \A k \in 1 .. n + 1 : v[k] \in Digits(b) \union {"underscore"}
  <2> TAKE k \in 1 .. n + 1
  <2>1. k \in 1 .. n \/ k = n + 1 BY <1>1
  <2> QED BY <2>1, <1>1, <1>3
<1>5. v[1] = w[1] /\ w[1] \in Digits(b)
  BY <1>1, <1>3 DEF Whole
<1>6. Range(v) \subseteq Digits(b) \union {"underscore"}
  BY <1>3, <1>4, RangeOf
<1> QED BY <1>3, <1>5, <1>6 DEF Whole, v

LEMMA WholeOfOne ==
  ASSUME NEW c \in Handed, NEW b, c \in Digits(b)
  PROVE  Whole(<<c>>, b)
<1>1. <<c>> \in Seq(Handed) /\ Len(<<c>>) = 1 /\ <<c>>[1] = c /\ <<c>> # <<>>
  OBVIOUS
<1>2. \A k \in 1 .. Len(<<c>>) : <<c>>[k] \in Digits(b) \union {"underscore"}
  BY <1>1
<1>3. Range(<<c>>) \subseteq Digits(b) \union {"underscore"}
  BY <1>1, <1>2, RangeOf
<1> QED BY <1>1, <1>3 DEF Whole

\* What is left of a whole number are its digits.
LEMMA WholeLeft ==
  ASSUME NEW w \in Seq(Handed), NEW b \in Bases, Whole(w, b)
  PROVE  Plain(w) \in Seq(DigitsLeft(b)) /\ Plain(w) # <<>>
<1> DEFINE S == {u \in Seq(Handed) : Whole(u, b) => Plain(u) \in Seq(DigitsLeft(b)) /\ Plain(u) # <<>>}
<1>1. <<>> \in S
  BY EmptySeq DEF Whole
<1>2. ASSUME NEW u \in Seq(Handed), NEW c \in Handed, u \in S
      PROVE  Append(u, c) \in S
  <2> DEFINE v == Append(u, c)
             n == Len(u)
  <2>1. /\ v \in Seq(Handed) /\ Len(v) = n + 1 /\ n \in Nat /\ v[n + 1] = c
        /\ \A k \in 1 .. n : v[k] = u[k]
    BY AppendProperties, LenProperties
  <2>2. Plain(v) = Plain(u) \o One(c)
    BY PlainAppend
  <2> HIDE DEF v
  <2> SUFFICES ASSUME Whole(v, b) PROVE Plain(v) \in Seq(DigitsLeft(b)) /\ Plain(v) # <<>>
    BY <2>1 DEF v
  <2>3. \A k \in 1 .. n + 1 : v[k] \in Digits(b) \union {"underscore"}
    BY <2>1, RangeOf DEF Whole
  <2>4. c \in Digits(b) \union {"underscore"}
    BY <2>1, <2>3
  <2>5. One(c) \in Seq(DigitsLeft(b)) /\ (c \in Digits(b) => One(c) # <<>>)
    <3>1. CASE c = "underscore" BY <3>1, BaseFacts DEF One
    <3>2. CASE c # "underscore"
      <4>1. Upper(c) \in DigitsLeft(b) BY <2>4, <3>2, BaseFacts
      <4>2. <<Upper(c)>> \in Seq(DigitsLeft(b)) /\ <<Upper(c)>> # <<>> BY <4>1
      <4> QED BY <3>2, <4>2 DEF One
    <3> QED BY <3>1, <3>2
  <2>6. CASE u = <<>>
    <3>1. v[1] = c BY <2>1, <2>6
    <3>2. c \in Digits(b) BY <3>1 DEF Whole
    <3>3. Plain(v) = One(c) BY <2>2, <2>5, <2>6, PlainEmpty, ConcatEmptySeq
    <3> QED BY <2>5, <3>2, <3>3
  <2>7. CASE u # <<>>
    <3>1. n # 0 BY <2>7, EmptySeq
    <3>2. Whole(u, b)
      <4>1. \A k \in 1 .. n : u[k] \in Digits(b) \union {"underscore"}
        BY <2>1, <2>3
      <4>2. Range(u) \subseteq Digits(b) \union {"underscore"} BY <4>1, RangeOf
      <4>3. u[1] \in Digits(b) BY <2>1, <3>1 DEF Whole
      <4> QED BY <2>7, <4>2, <4>3 DEF Whole
    <3>3. Plain(u) \in Seq(DigitsLeft(b)) /\ Plain(u) # <<>>
      BY <1>2, <3>2
    <3> QED BY <2>2, <2>5, <3>3, ConcatProperties, ConcatEqualIffEmpty
  <2> QED BY <2>6, <2>7
<1>3. Seq(Handed) \subseteq S
  <2> HIDE DEF S
  <2> QED BY <1>1, <1>2, SeqInductionSet
<1> QED BY <1>3

\* Digits are a whole number.
LEMMA DigitsWhole ==
  ASSUME NEW b \in Bases, NEW x \in Seq(DigitsLeft(b)), x # <<>>
  PROVE  /\ x \in Seq(Handed) /\ x \in Seq(Figures) /\ Whole(x, b) /\ Plain(x) = x
         /\ x[1] \in DigitsLeft(b)
<1>1. x \in Seq(Figures)
  BY BaseFacts, SeqMonotonic
<1>2. x \in Seq(Handed) /\ Plain(x) = x
  BY <1>1, FiguresHanded, PlainAgain
<1>3. Len(x) \in Nat \ {0} /\ \A k \in 1 .. Len(x) : x[k] \in DigitsLeft(b)
  BY EmptySeq, ElementOfSeq
<1>4. Range(x) \subseteq Digits(b) \union {"underscore"}
  BY <1>2, <1>3, RangeOf DEF DigitsLeft
<1>5. x[1] \in DigitsLeft(b)
  BY <1>3
<1> QED BY <1>1, <1>2, <1>4, <1>5 DEF Whole, DigitsLeft

\* Where the zeros end.
FirstDigit(t, i) == /\ i \in DOMAIN t
                    /\ i = Len(t) \/ t[i] # "0"
                    /\ \A j \in 1 .. i - 1 : t[j] = "0"

LEMMA FirstDigitExists ==
  ASSUME NEW A, NEW t \in Seq(A), t # <<>>
  PROVE  \E i : FirstDigit(t, i)
<1> DEFINE n == Len(t)
           S == {k \in Nat : k < n => (\A j \in 1 .. k : t[j] = "0") \/ \E i : FirstDigit(t, i)}
<1>0. n \in Nat \ {0} /\ DOMAIN t = 1 .. n
  BY EmptySeq, LenProperties
<1>1. 0 \in S
  OBVIOUS
<1>2. ASSUME NEW k \in Nat, k \in S PROVE k + 1 \in S
  <2> SUFFICES ASSUME k + 1 < n, \A j \in 1 .. k : t[j] = "0"
               PROVE  (\A j \in 1 .. k + 1 : t[j] = "0") \/ \E i : FirstDigit(t, i)
    BY <1>0, <1>2
  <2>1. CASE t[k + 1] = "0"
    <3>1. \A j \in 1 .. k + 1 : j \in 1 .. k \/ j = k + 1 OBVIOUS
    <3> QED BY <2>1, <3>1
  <2>2. CASE t[k + 1] # "0"
    <3>0. k + 1 \in 1 .. n /\ (k + 1) - 1 = k BY <1>0
    <3>1. FirstDigit(t, k + 1) BY <1>0, <2>2, <3>0 DEF FirstDigit
    <3> QED BY <3>1
  <2> QED BY <2>1, <2>2
<1>3. Nat \subseteq S
  <2> HIDE DEF S
  <2> QED BY <1>1, <1>2, NatInductionSet
<1>4. n - 1 \in S /\ n - 1 < n
  BY <1>0, <1>3
<1>5. ASSUME \A j \in 1 .. n - 1 : t[j] = "0" PROVE FirstDigit(t, n)
  BY <1>0, <1>5 DEF FirstDigit
<1> QED BY <1>4, <1>5

LEMMA FirstDigitUnique ==
  ASSUME NEW A, NEW t \in Seq(A), NEW i, NEW k, FirstDigit(t, i), FirstDigit(t, k)
  PROVE  i = k
<1>1. DOMAIN t = 1 .. Len(t) /\ Len(t) \in Nat
  BY LenProperties
<1> QED BY <1>1 DEF FirstDigit

LEMMA NoZerosIs ==
  ASSUME NEW A, NEW t \in Seq(A), NEW i, FirstDigit(t, i)
  PROVE  NoZeros(t) = SubSeq(t, i, Len(t))
<1> DEFINE first == CHOOSE k \in DOMAIN t :
                 /\ k = Len(t) \/ t[k] # "0"
                 /\ \A j \in 1 .. k - 1 : t[j] = "0"
<1>1. FirstDigit(t, first)
  BY DEF FirstDigit
<1>2. first = i
  BY <1>1, FirstDigitUnique
<1> QED BY <1>2 DEF NoZeros

\* x is y, or y without its first zero: what the builder keeps of y.
Lead(x, y) == x # <<>> /\ (y = x \/ y = <<"0">> \o x)

LEMMA LeadNoZeros ==
  ASSUME NEW x \in Seq(Figures), NEW y, Lead(x, y)
  PROVE  NoZeros(y) = NoZeros(x)
<1>1. CASE y = x
  BY <1>1
<1>2. CASE y = <<"0">> \o x
  <2>0. <<"0">> \in Seq(Figures) /\ Len(<<"0">>) = 1 /\ <<"0">>[1] = "0"
    BY DEF Figures, Handed, Hexes, Decimals
  <2>1. /\ y \in Seq(Figures) /\ Len(y) = Len(x) + 1 /\ Len(x) \in Nat
        /\ y[1] = "0" /\ \A k \in 1 .. Len(x) : y[k + 1] = x[k]
    <3>1. /\ y \in Seq(Figures) /\ Len(y) = 1 + Len(x) /\ Len(x) \in Nat
          /\ \A k \in 1 .. 1 + Len(x) : y[k] = IF k <= 1 THEN <<"0">>[k] ELSE x[k - 1]
      BY <1>2, <2>0, ConcatProperties, LenProperties
    <3>2. \A k \in 1 .. Len(x) : y[k + 1] = x[k]
      <4> TAKE k \in 1 .. Len(x)
      <4>1. k + 1 \in 1 .. 1 + Len(x) /\ ~(k + 1 <= 1) /\ (k + 1) - 1 = k BY <3>1
      <4> QED BY <3>1, <4>1
    <3>3. y[1] = "0" BY <3>1, <2>0
    <3> QED BY <3>1, <3>2, <3>3
  <2>2. PICK i : FirstDigit(x, i)
    BY FirstDigitExists DEF Lead
  <2>3. i \in 1 .. Len(x)
    BY <2>2, LenProperties DEF FirstDigit
  <2>4. FirstDigit(y, i + 1)
    <3>1. DOMAIN y = 1 .. Len(x) + 1 BY <2>1, LenProperties
    <3>2. \A j \in 1 .. i : y[j] = "0"
      <4> TAKE j \in 1 .. i
      <4>1. CASE j = 1 BY <4>1, <2>1
      <4>2. CASE j # 1
        <5>1. j - 1 \in 1 .. i - 1 /\ j - 1 \in 1 .. Len(x) /\ (j - 1) + 1 = j BY <4>2, <2>1, <2>3
        <5> QED BY <5>1, <2>1, <2>2 DEF FirstDigit
      <4> QED BY <4>1, <4>2
    <3>3. y[i + 1] = x[i] BY <2>1, <2>3
    <3>4. (i + 1) - 1 = i BY <2>1, <2>3
    <3> QED BY <2>1, <2>2, <2>3, <3>1, <3>2, <3>3, <3>4 DEF FirstDigit
  <2> DEFINE a == SubSeq(x, i, Len(x))
             c == SubSeq(y, i + 1, Len(y))
  <2>5. a = c
    <3>0. Len(x) \in Int /\ i \in Int /\ i + 1 \in Int /\ Len(y) \in Int BY <2>1, <2>3
    <3>1. \A k \in i .. Len(x) : x[k] \in Figures
      BY <2>1, <2>3, ElementOfSeq
    <3>2. \A k \in i + 1 .. Len(y) : y[k] \in Figures
      BY <2>1, <2>3, ElementOfSeq
    <3>3. /\ a \in Seq(Figures) /\ Len(a) = Len(x) - i + 1
          /\ \A k \in 1 .. Len(x) - i + 1 : a[k] = x[i + k - 1]
      BY <3>0, <3>1, <2>3, SubSeqProperties
    <3>4. /\ c \in Seq(Figures) /\ Len(c) = Len(y) - (i + 1) + 1
          /\ \A k \in 1 .. Len(y) - (i + 1) + 1 : c[k] = y[i + 1 + k - 1]
      BY <3>0, <3>2, <2>1, <2>3, SubSeqProperties
    <3> HIDE DEF a, c
    <3>5. Len(a) = Len(c) BY <3>3, <3>4, <2>1, <2>3
    <3>6. \A k \in 1 .. Len(a) : a[k] = c[k]
      <4> TAKE k \in 1 .. Len(a)
      <4>1. i + k - 1 \in 1 .. Len(x) /\ (i + k - 1) + 1 = i + 1 + k - 1 BY <3>3, <2>3, <2>1
      <4>2. k \in 1 .. Len(y) - (i + 1) + 1 BY <3>3, <2>1, <2>3
      <4>3. a[k] = x[i + k - 1] BY <3>3
      <4>4. c[k] = y[(i + k - 1) + 1] BY <3>4, <4>1, <4>2
      <4> QED BY <4>1, <4>3, <4>4, <2>1
    <3> QED BY <3>3, <3>4, <3>5, <3>6, SeqEqual
  <2>6. NoZeros(x) = a BY <2>2, NoZerosIs
  <2>7. NoZeros(y) = c BY <2>1, <2>4, NoZerosIs
  <2> QED BY <2>5, <2>6, <2>7
<1> QED BY <1>1, <1>2 DEF Lead

-----------------------------------------------------------------------------
(* Values.  ValueOf is defined with a recursive function as well.          *)

\* f has the values of the first digits, up to n of them.
Values(f, digits, b, n) ==
  \A i \in 0 .. n :
    f[i] = IF i = 0 THEN 0 ELSE f[i - 1] * Radix(b) + DigitValue(digits[i])

LEMMA OneValue ==
  ASSUME NEW b \in Bases, NEW v \in Nat, NEW c \in Figures \union {"e"},
         c \in Digits(b)
  PROVE  v * Radix(b) + DigitValue(c) \in Nat
<1>1. DigitValue(c) \in Nat
  BY DEF DigitValue, Bases, Digits, Hexes, Decimals
<1>2. v * Radix(b) \in Nat
  BY DEF Radix, Bases
<1> QED BY <1>1, <1>2

ValuesUpTo(digits, b, n) == \E f \in [0 .. n -> Nat] : Values(f, digits, b, n)

LEMMA ValuesExist ==
  ASSUME NEW b \in Bases, NEW digits \in Seq(DigitsLeft(b))
  PROVE  ValuesUpTo(digits, b, Len(digits))
<1> DEFINE S == {n \in Nat : n <= Len(digits) => ValuesUpTo(digits, b, n)}
<1>1. 0 \in S
  <2>1. [i \in 0 .. 0 |-> 0] \in [0 .. 0 -> Nat] OBVIOUS
  <2>2. Values([i \in 0 .. 0 |-> 0], digits, b, 0) BY DEF Values
  <2> QED BY <2>1, <2>2 DEF ValuesUpTo
<1>2. ASSUME NEW n \in Nat, n \in S PROVE n + 1 \in S
  <2> SUFFICES ASSUME n + 1 <= Len(digits) PROVE ValuesUpTo(digits, b, n + 1)
    OBVIOUS
  <2>0. ValuesUpTo(digits, b, n)
    BY <1>2, LenProperties
  <2>1. PICK f \in [0 .. n -> Nat] : Values(f, digits, b, n)
    BY <2>0 DEF ValuesUpTo
  <2> DEFINE last == f[n] * Radix(b) + DigitValue(digits[n + 1])
             g == [i \in 0 .. n + 1 |-> IF i = n + 1 THEN last ELSE f[i]]
  <2>2. last \in Nat
    <3>1. digits[n + 1] \in DigitsLeft(b) BY LenProperties, ElementOfSeq
    <3>2. digits[n + 1] \in Figures /\ digits[n + 1] \in Digits(b)
      BY <3>1, BaseFacts DEF DigitsLeft
    <3>3. f[n] \in Nat OBVIOUS
    <3> QED BY <3>2, <3>3, OneValue
  <2> HIDE DEF last
  <2>3. g \in [0 .. n + 1 -> Nat]
    BY <2>2
  <2>4. ASSUME NEW i \in 0 .. n + 1
        PROVE  g[i] = IF i = 0 THEN 0 ELSE g[i - 1] * Radix(b) + DigitValue(digits[i])
    <3>1. CASE i = n + 1
      <4>1. g[i] = last /\ g[i - 1] = f[n] /\ i # 0 BY <3>1
      <4> HIDE DEF g
      <4> QED BY <3>1, <4>1 DEF last
    <3>2. CASE i # n + 1
      <4>1. i \in 0 .. n BY <3>2
      <4>2. f[i] = IF i = 0 THEN 0 ELSE f[i - 1] * Radix(b) + DigitValue(digits[i])
        BY <2>1, <4>1 DEF Values
      <4>3. g[i] = f[i] BY <4>1
      <4>4. i # 0 => g[i - 1] = f[i - 1] BY <4>1
      <4> HIDE DEF g
      <4> QED BY <4>2, <4>3, <4>4
    <3> QED BY <3>1, <3>2
  <2>5. Values(g, digits, b, n + 1)
    <3> HIDE DEF g
    <3> QED BY <2>4 DEF Values
  <2> HIDE DEF g
  <2> QED BY <2>3, <2>5 DEF ValuesUpTo
<1>3. Nat \subseteq S
  <2> HIDE DEF S
  <2> QED BY <1>1, <1>2, NatInductionSet
<1>4. Len(digits) \in S
  <2> HIDE DEF S
  <2> QED BY <1>3, LenProperties
<1> QED BY <1>4, LenProperties

\* The recursive function in ValueOf.
ValuePrefixes(digits, b) ==
  CHOOSE f : f = [n \in 0 .. Len(digits) |->
                    IF n = 0 THEN 0 ELSE f[n - 1] * Radix(b) + DigitValue(digits[n])]

LEMMA ValuePrefixesDef ==
  ASSUME NEW b \in Bases, NEW digits \in Seq(DigitsLeft(b))
  PROVE  /\ Values(ValuePrefixes(digits, b), digits, b, Len(digits))
         /\ ValueOf(digits, b) = ValuePrefixes(digits, b)[Len(digits)]
<1> DEFINE p == ValuePrefixes(digits, b)
<1>1. PICK f \in [0 .. Len(digits) -> Nat] : Values(f, digits, b, Len(digits))
  BY ValuesExist DEF ValuesUpTo
<1>2. f = [n \in 0 .. Len(digits) |-> f[n]]
  OBVIOUS
<1>3. f = [n \in 0 .. Len(digits) |->
             IF n = 0 THEN 0 ELSE f[n - 1] * Radix(b) + DigitValue(digits[n])]
  BY <1>1, <1>2 DEF Values
<1>4. p = [n \in 0 .. Len(digits) |->
             IF n = 0 THEN 0 ELSE p[n - 1] * Radix(b) + DigitValue(digits[n])]
  BY <1>3 DEF ValuePrefixes
<1>5. Values(p, digits, b, Len(digits))
  <2> HIDE DEF p
  <2> SUFFICES ASSUME NEW i \in 0 .. Len(digits)
               PROVE  p[i] = IF i = 0 THEN 0 ELSE p[i - 1] * Radix(b) + DigitValue(digits[i])
    BY DEF Values
  <2> QED BY <1>4
<1>6. ValueOf(digits, b) = p[Len(digits)]
  BY DEF ValueOf, ValuePrefixes
<1> QED BY <1>5, <1>6

\* Digits that follow nothing but zeros have the same value without these.
LEMMA ZerosWorthless ==
  ASSUME NEW b \in Bases, NEW s \in Seq(DigitsLeft(b)), NEW t \in Seq(DigitsLeft(b)),
         NEW k \in Nat, Len(s) = k + Len(t),
         \A i \in 1 .. k : s[i] = "0",
         \A i \in 1 .. Len(t) : s[k + i] = t[i]
  PROVE  ValueOf(s, b) = ValueOf(t, b)
<1> DEFINE v == ValuePrefixes(s, b)
           w == ValuePrefixes(t, b)
           n == Len(t)
<1>0. n \in Nat /\ Values(v, s, b, k + n) /\ Values(w, t, b, n)
      /\ ValueOf(s, b) = v[k + n] /\ ValueOf(t, b) = w[n]
  BY ValuePrefixesDef, LenProperties
<1> HIDE DEF v, w, n
<1>1. v[k] = 0
  <2> DEFINE S == {i \in Nat : i <= k => v[i] = 0}
  <2>1. 0 \in S
    BY <1>0 DEF Values
  <2>2. ASSUME NEW i \in Nat, i \in S PROVE i + 1 \in S
    <3> SUFFICES ASSUME i + 1 <= k PROVE v[i + 1] = 0
      OBVIOUS
    <3>1. v[i] = 0 /\ s[i + 1] = "0" BY <2>2
    <3>2. i + 1 \in 0 .. k + n /\ i + 1 # 0 /\ (i + 1) - 1 = i BY <1>0
    <3>3. v[i + 1] = v[(i + 1) - 1] * Radix(b) + DigitValue(s[i + 1])
      BY <1>0, <3>2 DEF Values
    <3>4. v[i + 1] = 0 * Radix(b) + DigitValue("0") BY <3>1, <3>2, <3>3
    <3>5. DigitValue("0") = 0 BY DEF DigitValue
    <3>6. 0 * Radix(b) = 0 BY DEF Radix, Bases
    <3> QED BY <3>4, <3>5, <3>6
  <2>3. Nat \subseteq S
    <3> HIDE DEF S
    <3> QED BY <2>1, <2>2, NatInductionSet
  <2> QED BY <2>3
<1>2. DEFINE S == {i \in Nat : i <= n => v[k + i] = w[i]}
<1>3. 0 \in S
  BY <1>0, <1>1 DEF Values
<1>4. ASSUME NEW i \in Nat, i \in S PROVE i + 1 \in S
  <2> SUFFICES ASSUME i + 1 <= n PROVE v[k + (i + 1)] = w[i + 1]
    OBVIOUS
  <2>1. v[k + i] = w[i] BY <1>4, <1>0
  <2>2. s[k + (i + 1)] = t[i + 1] BY <1>0 DEF n
  <2>3. k + (i + 1) \in 0 .. k + n /\ k + (i + 1) # 0 /\ (k + (i + 1)) - 1 = k + i
        /\ i + 1 \in 0 .. n /\ i + 1 # 0 /\ (i + 1) - 1 = i
    BY <1>0
  <2>4. v[k + (i + 1)] = v[(k + (i + 1)) - 1] * Radix(b) + DigitValue(s[k + (i + 1)])
    BY <1>0, <2>3 DEF Values
  <2>5. w[i + 1] = w[(i + 1) - 1] * Radix(b) + DigitValue(t[i + 1])
    BY <1>0, <2>3 DEF Values
  <2> QED BY <2>1, <2>2, <2>3, <2>4, <2>5
<1>5. Nat \subseteq S
  <2> HIDE DEF S
  <2> QED BY <1>3, <1>4, NatInductionSet
<1> QED BY <1>0, <1>5

LEMMA NoZerosValue ==
  ASSUME NEW b \in Bases, NEW s \in Seq(DigitsLeft(b)), s # <<>>
  PROVE  ValueOf(NoZeros(s), b) = ValueOf(s, b)
<1>1. PICK i : FirstDigit(s, i)
  BY FirstDigitExists
<1> DEFINE t == SubSeq(s, i, Len(s))
<1>2. i \in 1 .. Len(s) /\ Len(s) \in Nat /\ \A j \in 1 .. i - 1 : s[j] = "0"
  BY <1>1, LenProperties DEF FirstDigit
<1>3. /\ t \in Seq(DigitsLeft(b)) /\ Len(t) = Len(s) - i + 1
      /\ \A k \in 1 .. Len(s) - i + 1 : t[k] = s[i + k - 1]
  <2>1. \A k \in i .. Len(s) : s[k] \in DigitsLeft(b) BY <1>2, ElementOfSeq
  <2>2. i \in Int /\ Len(s) \in Int /\ i <= Len(s) BY <1>2
  <2> QED BY <2>1, <2>2, SubSeqProperties
<1> HIDE DEF t
<1>4. i - 1 \in Nat /\ Len(s) = (i - 1) + Len(t)
  BY <1>2, <1>3
<1>5. \A k \in 1 .. Len(t) : s[(i - 1) + k] = t[k]
  <2> TAKE k \in 1 .. Len(t)
  <2>1. (i - 1) + k = i + k - 1 BY <1>2, <1>3
  <2> QED BY <1>3, <2>1
<1>6. ValueOf(s, b) = ValueOf(t, b)
  BY <1>2, <1>3, <1>4, <1>5, ZerosWorthless
<1> QED BY <1>1, <1>6, NoZerosIs DEF t

LEMMA ValueType ==
  ASSUME NEW b \in Bases, NEW s \in Seq(DigitsLeft(b))
  PROVE  ValueOf(s, b) \in Nat
<1> DEFINE v == ValuePrefixes(s, b)
           n == Len(s)
           S == {i \in Nat : i <= n => v[i] \in Nat}
<1>0. n \in Nat /\ Values(v, s, b, n) /\ ValueOf(s, b) = v[n]
  BY ValuePrefixesDef, LenProperties
<1> HIDE DEF v
<1>1. 0 \in S
  BY <1>0 DEF Values
<1>2. ASSUME NEW i \in Nat, i \in S PROVE i + 1 \in S
  <2> SUFFICES ASSUME i + 1 <= n PROVE v[i + 1] \in Nat
    OBVIOUS
  <2>1. v[i] \in Nat /\ s[i + 1] \in DigitsLeft(b) BY <1>2, <1>0, ElementOfSeq
  <2>2. s[i + 1] \in Figures /\ s[i + 1] \in Digits(b) BY <2>1, BaseFacts DEF DigitsLeft
  <2>3. i + 1 \in 0 .. n /\ i + 1 # 0 /\ (i + 1) - 1 = i BY <1>0
  <2>4. v[i + 1] = v[(i + 1) - 1] * Radix(b) + DigitValue(s[i + 1])
    BY <1>0, <2>3 DEF Values
  <2>5. v[i] * Radix(b) + DigitValue(s[i + 1]) \in Nat BY <2>1, <2>2, OneValue
  <2> QED BY <2>3, <2>4, <2>5
<1>3. Nat \subseteq S
  <2> HIDE DEF S
  <2> QED BY <1>1, <1>2, NatInductionSet
<1> QED BY <1>0, <1>3

-----------------------------------------------------------------------------
(* A text that is put together of the parts of a number means that number. *)

LEMMA FirstPart ==
  ASSUME NEW A, NEW s \in Seq(A), NEW t \in Seq(A)
  PROVE  SubSeq(s \o t, 1, Len(s)) = s
<1> DEFINE c == s \o t
           d == SubSeq(c, 1, Len(s))
<1>1. Len(s) \in Nat /\ Len(t) \in Nat
  BY LenProperties
<1>2. /\ c \in Seq(A) /\ Len(c) = Len(s) + Len(t)
      /\ \A i \in 1 .. Len(s) + Len(t) : c[i] = IF i <= Len(s) THEN s[i] ELSE t[i - Len(s)]
  BY ConcatProperties
<1> HIDE DEF c
<1>3. \A i \in 1 .. Len(s) : c[i] = s[i] /\ c[i] \in A
  BY <1>1, <1>2, ElementOfSeq
<1>4. d \in Seq(A) /\ Len(d) = Len(s) /\ \A i \in 1 .. Len(s) : d[i] = c[i]
  <2>1. /\ d \in Seq(A) /\ Len(d) = IF 1 <= Len(s) THEN Len(s) - 1 + 1 ELSE 0
        /\ \A i \in 1 .. Len(s) - 1 + 1 : d[i] = c[1 + i - 1]
    BY <1>1, <1>3, SubSeqProperties
  <2>2. \A i \in 1 .. Len(s) : i \in 1 .. Len(s) - 1 + 1 /\ 1 + i - 1 = i BY <1>1
  <2>3. Len(d) = Len(s) BY <1>1, <2>1
  <2> HIDE DEF d
  <2>4. \A i \in 1 .. Len(s) : d[i] = c[i] BY <2>1, <2>2
  <2> QED BY <2>1, <2>3, <2>4
<1> HIDE DEF d
<1>5. d = s
  BY <1>3, <1>4, SeqEqual
<1> QED BY <1>5 DEF d, c

LEMMA LastPart ==
  ASSUME NEW A, NEW s \in Seq(A), NEW t \in Seq(A)
  PROVE  SubSeq(s \o t, Len(s) + 1, Len(s \o t)) = t
<1> DEFINE c == s \o t
           n == Len(s)
           d == SubSeq(c, n + 1, Len(c))
<1>1. n \in Nat /\ Len(t) \in Nat
  BY LenProperties
<1>2. /\ c \in Seq(A) /\ Len(c) = n + Len(t)
      /\ \A i \in 1 .. n + Len(t) : c[i] = IF i <= n THEN s[i] ELSE t[i - n]
  BY ConcatProperties
<1> HIDE DEF c
<1>3. \A i \in n + 1 .. Len(c) : c[i] \in A
  BY <1>1, <1>2, ElementOfSeq
<1>4. /\ d \in Seq(A) /\ Len(d) = IF n + 1 <= Len(c) THEN Len(c) - (n + 1) + 1 ELSE 0
      /\ \A i \in 1 .. Len(c) - (n + 1) + 1 : d[i] = c[n + 1 + i - 1]
  BY <1>1, <1>2, <1>3, SubSeqProperties
<1> HIDE DEF d
<1>5. Len(d) = Len(t)
  BY <1>1, <1>2, <1>4
<1>6. ASSUME NEW i \in 1 .. Len(t) PROVE d[i] = t[i]
  <2>1. i \in 1 .. Len(c) - (n + 1) + 1 /\ n + 1 + i - 1 = n + i /\ n + i \in 1 .. n + Len(t)
        /\ ~(n + i <= n) /\ (n + i) - n = i
    BY <1>1, <1>2
  <2>2. d[i] = c[n + i] BY <1>4, <2>1
  <2> QED BY <1>2, <2>1, <2>2
<1>7. d = t
  BY <1>4, <1>5, <1>6, SeqEqual
<1> QED BY <1>7 DEF d, c

LEMMA MiddlePart ==
  ASSUME NEW A, NEW s \in Seq(A), NEW t \in Seq(A), NEW r \in Seq(A)
  PROVE  /\ SubSeq((s \o t) \o r, 1, Len(s)) = s
         /\ SubSeq((s \o t) \o r, Len(s) + 1, Len(s \o t)) = t
         /\ SubSeq((s \o t) \o r, Len(s \o t) + 1, Len((s \o t) \o r)) = r
<1> DEFINE m == s \o t
           c == m \o r
           i == Len(s) + 1
           j == Len(m)
           d == SubSeq(c, i, j)
           e == SubSeq(m, i, j)
<1>1. m \in Seq(A) /\ t \o r \in Seq(A) /\ c \in Seq(A) /\ Len(s) \in Nat /\ j \in Nat
  BY ConcatProperties, LenProperties
<1>2. SubSeq(c, 1, Len(s)) = s
  <2>1. c = s \o (t \o r) BY Regroup
  <2> QED BY <1>1, <2>1, FirstPart
<1>3. SubSeq(c, j + 1, Len(c)) = r
  <2> HIDE DEF m
  <2> QED BY <1>1, LastPart
<1>4. d = e
  <2> HIDE DEF m
  <2>0. Len(r) \in Nat BY LenProperties
  <2>1. /\ Len(c) = Len(m) + Len(r)
        /\ \A k \in 1 .. Len(m) + Len(r) : c[k] = IF k <= Len(m) THEN m[k] ELSE r[k - Len(m)]
    BY <1>1, ConcatProperties
  <2> HIDE DEF c
  <2>2. \A k \in i .. j : c[k] = m[k] /\ m[k] \in A
    <3> TAKE k \in i .. j
    <3>1. k \in 1 .. Len(m) /\ k \in 1 .. Len(m) + Len(r) /\ k <= Len(m) BY <1>1, <2>0
    <3> QED BY <1>1, <2>1, <3>1, ElementOfSeq
  <2> HIDE DEF i, j
  <2>3. i \in Int /\ j \in Int BY <1>1 DEF i
  <2>4. /\ d \in Seq(A) /\ Len(d) = IF i <= j THEN j - i + 1 ELSE 0
        /\ \A k \in 1 .. j - i + 1 : d[k] = c[i + k - 1]
    BY <2>2, <2>3, SubSeqProperties
  <2>5. /\ e \in Seq(A) /\ Len(e) = IF i <= j THEN j - i + 1 ELSE 0
        /\ \A k \in 1 .. j - i + 1 : e[k] = m[i + k - 1]
    BY <2>2, <2>3, SubSeqProperties
  <2> HIDE DEF d, e
  <2>6. \A k \in 1 .. Len(d) : d[k] = e[k]
    <3> TAKE k \in 1 .. Len(d)
    <3>1. k \in 1 .. j - i + 1 /\ i + k - 1 \in i .. j BY <2>3, <2>4
    <3> QED BY <2>2, <2>4, <2>5, <3>1
  <2> QED BY <2>4, <2>5, <2>6, SeqEqual
<1>5. e = t
  <2>1. SubSeq(s \o t, Len(s) + 1, Len(s \o t)) = t BY LastPart
  <2> QED BY <2>1
<1> QED BY <1>2, <1>3, <1>4, <1>5

\* Where a text may be cut.
LEMMA CutIs ==
  ASSUME NEW u \in Seq(Handed), NEW i \in 1 .. Len(u), NEW j \in 1 .. Len(u)
  PROVE  <<i, j>> \in Cuts(u) <=> FormCut(u, Len(u), i, j)
<1> DEFINE n == Len(u)
<1>0. n \in Nat
  BY LenProperties
<1>1. CASE i <= j
  <2>1. i \in 0 .. n /\ 1 \in Nat \ {0} /\ j \in i .. n BY <1>0, <1>1
  <2>2. Whole(SubSeq(u, 1, i), "Decimal") <=> DigitRun(u, 1, i, "Decimal")
    BY <2>1, WholePart
  <2>3. IsFraction(SubSeq(u, i + 1, j)) <=>
                    j = i \/ (u[i + 1] = "." /\ DigitRun(u, i + 2, j, "Decimal"))
    BY <2>1, FractionPart
  <2>4. IsPower(SubSeq(u, j + 1, n)) <=>
                    \/ j = n
                    \/ /\ u[j + 1] \in Marks
                       /\ \/ DigitRun(u, j + 2, n, "Decimal")
                          \/ u[j + 2] \in Signs /\ DigitRun(u, j + 3, n, "Decimal")
    BY PowerPart
  <2> QED BY <1>1, <2>2, <2>3, <2>4 DEF FormCut, Cuts
<1>2. CASE ~(i <= j)
  BY <1>2 DEF FormCut, Cuts
<1> QED BY <1>1, <1>2

LEMMA CutUnique ==
  ASSUME NEW u, NEW n \in Nat, NEW i \in 1 .. n, NEW j \in 1 .. n, NEW k \in 1 .. n, NEW l \in 1 .. n,
         FormCut(u, n, i, j), FormCut(u, n, k, l)
  PROVE  i = k /\ j = l
<1> DEFINE D == Decimals \union {"underscore"}
<1>0. "." \notin D /\ Marks \cap D = {} /\ "." \notin Marks
  BY DEF Decimals, Marks
<1>1. ASSUME NEW a \in 1 .. n, NEW c \in 1 .. n, FormCut(u, n, a, c)
      PROVE  /\ a <= c /\ \A x \in 1 .. a : u[x] \in D
             /\ a < n => u[a + 1] \notin D
             /\ c < n => u[c + 1] \in Marks
             /\ a < c => u[a + 1] = "." /\ \A x \in a + 2 .. c : u[x] \in D
  <2>1. /\ a <= c /\ \A x \in 1 .. a : u[x] \in D
        /\ a < c => u[a + 1] = "." /\ \A x \in a + 2 .. c : u[x] \in D
        /\ c < n => u[c + 1] \in Marks
    BY <1>1, DigitsAre DEF FormCut, DigitRun
  <2>2. a < n => u[a + 1] \notin D
    BY <1>0, <2>1
  <2> QED BY <2>1, <2>2
<1> HIDE DEF D
<1>2. i = k
  <2>1. ~(i < k) BY <1>1
  <2>2. ~(k < i) BY <1>1
  <2> QED BY <2>1, <2>2
<1>3. ASSUME NEW a \in 1 .. n, NEW c \in 1 .. n, NEW d \in 1 .. n, c < d,
             FormCut(u, n, a, c), FormCut(u, n, a, d)
      PROVE  FALSE
  <2>1. c < n /\ u[c + 1] \in Marks BY <1>1, <1>3
  <2>2. a < d /\ u[a + 1] = "." /\ (\A x \in a + 2 .. d : u[x] \in D) /\ a <= c BY <1>1, <1>3
  <2>3. CASE a = c BY <1>0, <2>1, <2>2, <2>3
  <2>4. CASE a < c
    <3>1. c + 1 \in a + 2 .. d BY <1>3, <2>4
    <3> QED BY <1>0, <2>1, <2>2, <3>1
  <2> QED BY <2>2, <2>3, <2>4
<1> QED BY <1>2, <1>3

LEMMA BasedNoCut ==
  ASSUME NEW u, NEW n \in Nat, n > 1, u[2] \in Letters, NEW i \in 1 .. n, NEW j \in 1 .. n,
         FormCut(u, n, i, j)
  PROVE  FALSE
<1> DEFINE D == Decimals \union {"underscore"}
<1>0. "." \notin Letters /\ Letters \cap Marks = {} /\ Letters \cap D = {}
  BY DEF Letters, Marks, Decimals
<1>1. i <= j /\ \A x \in 1 .. i : u[x] \in D
  BY DigitsAre DEF FormCut, DigitRun
<1>2. i < j => u[i + 1] = "."
  BY DEF FormCut
<1>3. j < n => u[j + 1] \in Marks
  BY DEF FormCut
<1> HIDE DEF D
<1> QED BY <1>0, <1>1, <1>2, <1>3

LEMMA PartsMeaning ==
  ASSUME NEW t \in Seq(Handed), NEW w \in Seq(Handed), NEW f \in Seq(Handed), NEW p \in Seq(Handed),
         Unsigned(t) = (w \o f) \o p, Whole(w, "Decimal"), IsFraction(f), IsPower(p)
  PROVE  Meanings(t) = {Meaning(t, "Decimal", w, f, p)}
<1> DEFINE u == Unsigned(t)
           n == Len(u)
           i == Len(w)
           j == Len(w \o f)
<1>1. /\ u \in Seq(Handed) /\ n \in Nat /\ i \in 1 .. n /\ j \in 1 .. n /\ i <= j
  <2>1. w \o f \in Seq(Handed) /\ Len(w \o f) = Len(w) + Len(f)
        /\ Len((w \o f) \o p) = Len(w \o f) + Len(p) /\ (w \o f) \o p \in Seq(Handed)
    BY ConcatProperties
  <2>2. Len(w) \in Nat \ {0} /\ Len(f) \in Nat /\ Len(p) \in Nat
    BY LenProperties, EmptySeq DEF Whole
  <2> QED BY <2>1, <2>2
<1>2. SubSeq(u, 1, i) = w /\ SubSeq(u, i + 1, j) = f /\ SubSeq(u, j + 1, n) = p
  BY MiddlePart
<1> HIDE DEF u, n, i, j
<1>3. <<i, j>> \in Cuts(u)
  BY <1>1, <1>2 DEF Cuts, n
<1>4. FormCut(u, n, i, j)
  BY <1>1, <1>3, CutIs DEF n
<1>5. Cuts(u) = {<<i, j>>}
  <2> SUFFICES ASSUME NEW c \in Cuts(u) PROVE c = <<i, j>>
    BY <1>3
  <2>1. c = <<c[1], c[2]>> /\ c[1] \in 1 .. n /\ c[2] \in 1 .. n
    BY DEF Cuts, n
  <2>2. FormCut(u, n, c[1], c[2])
    BY <1>1, <2>1, CutIs DEF n
  <2>3. c[1] = i /\ c[2] = j
    BY <1>1, <1>4, <2>1, <2>2, CutUnique
  <2> QED BY <2>1, <2>3
<1>6. Based(u) = {}
  <2> SUFFICES ASSUME NEW b \in Based(u) PROVE FALSE
    OBVIOUS
  <2>1. n > 1 /\ u[2] \in Letters BY <1>1 DEF Based, Letters, n
  <2> QED BY <1>1, <1>4, <2>1, BasedNoCut
<1>7. Meanings(t) = {Meaning(t, "Decimal", SubSeq(u, 1, c[1]), SubSeq(u, c[1] + 1, c[2]),
                             SubSeq(u, c[2] + 1, n)) : c \in Cuts(u)}
  BY <1>6 DEF Meanings, u, n
<1> DEFINE M(c) == Meaning(t, "Decimal", SubSeq(u, 1, c[1]), SubSeq(u, c[1] + 1, c[2]),
                             SubSeq(u, c[2] + 1, n))
<1>8. M(<<i, j>>) = Meaning(t, "Decimal", w, f, p)
  BY <1>2
<1>9. Meanings(t) = {M(c) : c \in Cuts(u)}
  BY <1>7
<1> HIDE DEF M
<1> QED BY <1>5, <1>8, <1>9

LEMMA BasedMeaning ==
  ASSUME NEW t \in Seq(Handed), NEW w \in Seq(Handed), NEW l \in Letters,
         Unsigned(t) = <<"0", l>> \o w, Whole(w, BaseOf(l))
  PROVE  Meanings(t) = {Meaning(t, BaseOf(l), w, <<>>, <<>>)}
<1> DEFINE u == Unsigned(t)
           n == Len(u)
           z == <<"0", l>>
<1>0. z \in Seq(Handed) /\ Len(z) = 2 /\ z[1] = "0" /\ z[2] = l
  BY DEF Handed, Hexes, Decimals, Letters
<1>1. u \in Seq(Handed) /\ n = 2 + Len(w) /\ Len(w) \in Nat \ {0} /\ u[1] = "0" /\ u[2] = l
  <2>1. Len(w) \in Nat \ {0} BY EmptySeq DEF Whole
  <2> HIDE DEF z
  <2>2. /\ z \o w \in Seq(Handed) /\ Len(z \o w) = Len(z) + Len(w)
        /\ \A k \in 1 .. Len(z) + Len(w) : (z \o w)[k] = IF k <= Len(z) THEN z[k] ELSE w[k - Len(z)]
    BY <1>0, ConcatProperties
  <2>5. 1 \in 1 .. Len(z) + Len(w) /\ 2 \in 1 .. Len(z) + Len(w) /\ 1 <= Len(z) /\ 2 <= Len(z)
    BY <2>1, <1>0
  <2>3. (z \o w)[1] = "0" /\ (z \o w)[2] = l BY <2>2, <2>5, <1>0
  <2>4. u = z \o w BY DEF z
  <2>6. n = Len(z \o w) BY <2>4
  <2> HIDE DEF u, n
  <2> QED BY <2>1, <2>2, <2>3, <2>4, <2>6, <1>0
<1>2. SubSeq(u, 3, n) = w
  <2>1. u = z \o w OBVIOUS
  <2> HIDE DEF z, u
  <2>2. SubSeq(z \o w, Len(z) + 1, Len(z \o w)) = w BY <1>0, LastPart
  <2>3. Len(z) + 1 = 3 BY <1>0
  <2> QED BY <2>1, <2>2, <2>3
<1> HIDE DEF u, n, z
<1>3. Based(u) = {l}
  <2>1. l \in {"x", "o", "b"} BY DEF Letters
  <2>4. Len(u) > 2 BY <1>1 DEF n
  <2>5. Whole(SubSeq(u, 3, Len(u)), BaseOf(l)) BY <1>2 DEF n
  <2>2. l \in Based(u) BY <1>1, <2>1, <2>4, <2>5 DEF Based
  <2>3. \A b \in Based(u) : b = l BY <1>1 DEF Based
  <2> QED BY <2>2, <2>3
<1>4. Cuts(u) = {}
  <2> SUFFICES ASSUME NEW c \in Cuts(u) PROVE FALSE
    OBVIOUS
  <2>1. c = <<c[1], c[2]>> /\ c[1] \in 1 .. n /\ c[2] \in 1 .. n
    BY DEF Cuts, n
  <2>2. FormCut(u, n, c[1], c[2])
    BY <1>1, <2>1, CutIs DEF n
  <2>3. n \in Nat /\ n > 1 BY <1>1
  <2> QED BY <1>1, <2>1, <2>2, <2>3, BasedNoCut
<1>5. Meanings(t) = {Meaning(t, BaseOf(b), SubSeq(u, 3, n), <<>>, <<>>) : b \in Based(u)}
  BY <1>4 DEF Meanings, u, n
<1> QED BY <1>2, <1>3, <1>5

-----------------------------------------------------------------------------
(* What the builder keeps of what it has read, state by state: u is what   *)
(* was read, x the text, both without a sign.                              *)

Texts == Seq(Handed)

\* x is kept of the whole part and the fraction that m consists of.
Keeps(m, x, w, f, y) ==
  /\ m = w \o f /\ Whole(w, "Decimal") /\ IsFraction(f)
  /\ Lead(y, Plain(w)) /\ x = y \o Plain(f)

KeptMantissa(m, x) == \E w, f, y \in Texts : Keeps(m, x, w, f, y)

KeptPower(p) == IF p = <<>> THEN <<>> ELSE <<"E">> \o Power(p)

KeptWhole(b, u, x) ==
  \/ \E l \in Letters : \E w \in Texts :
       b = BaseOf(l) /\ u = <<"0", l>> \o w /\ Whole(w, b) /\ x = Plain(w)
  \/ b = "Decimal" /\ Whole(u, b) /\ Lead(x, Plain(u))

Point(u, x) == \E w, y \in Texts :
  u = w \o <<".">> /\ Whole(w, "Decimal") /\ Lead(y, Plain(w)) /\ x = y \o <<".">>

Fractional(u, x) == \E w, f, y \in Texts : f # <<>> /\ Keeps(u, x, w, f, y)

Marked(u, x) == \E m, y \in Texts : \E c \in Marks :
  u = m \o <<c>> /\ KeptMantissa(m, y) /\ x = y \o <<"E">>

SignedMark(u, x) == \E m, y \in Texts : \E c \in Marks : \E s \in Signs :
  u = m \o <<c, s>> /\ KeptMantissa(m, y) /\ x = y \o <<"E", s>>

Powered(u, x) == \E m, y, p \in Texts :
  u = m \o p /\ KeptMantissa(m, y) /\ p # <<>> /\ IsPower(p) /\ x = y \o KeptPower(p)

Kept(q, b, u, x) ==
  \/ q \in {"Start", "Signed"} /\ b = "Decimal" /\ u = <<>> /\ x = <<>>
  \/ q = "MaybeBased" /\ b = "Decimal" /\ u = <<"0">> /\ x = <<>>
  \/ q = "ValueStart" /\ x = <<>> /\ \E l \in Letters : u = <<"0", l>> /\ b = BaseOf(l)
  \/ q = "Value" /\ KeptWhole(b, u, x)
  \/ q = "FractionStart" /\ b = "Decimal" /\ Point(u, x)
  \/ q = "Fraction" /\ b = "Decimal" /\ Fractional(u, x)
  \/ q = "ExponentStart" /\ b = "Decimal" /\ Marked(u, x)
  \/ q = "ExponentSigned" /\ b = "Decimal" /\ SignedMark(u, x)
  \/ q = "Exponent" /\ b = "Decimal" /\ Powered(u, x)

\* The arms of step() with what they push.
Pushes(q, b, c, q2, b2, push) ==
  \/ q = "Start" /\ c = "+" /\ q2 = "Signed" /\ b2 = b /\ push = Nothing
  \/ q = "Start" /\ c = "-" /\ q2 = "Signed" /\ b2 = b /\ push = Char
  \/ q \in {"Start", "Signed"} /\ c = "0" /\ q2 = "MaybeBased" /\ b2 = b /\ push = Nothing
  \/ q \in {"Start", "Signed"} /\ c \in NonZero /\ q2 = "Value" /\ b2 = b /\ push = Char
  \/ q = "MaybeBased" /\ c \in Letters /\ q2 = "ValueStart" /\ b2 = BaseOf(c) /\ push = Nothing
  \/ q = "MaybeBased" /\ c \in Decimals /\ q2 = "Value" /\ b2 = b /\ push = Char
  \/ q = "MaybeBased" /\ c = "underscore" /\ q2 = "Value" /\ b2 = b /\ push = Zero
  \/ q = "MaybeBased" /\ c = "." /\ q2 = "FractionStart" /\ b2 = b /\ push = ZeroChar
  \/ q = "MaybeBased" /\ c \in Marks /\ q2 = "ExponentStart" /\ b2 = b /\ push = ZeroChar
  \/ q = "ValueStart" /\ c \in Digits(b) /\ q2 = "Value" /\ b2 = b /\ push = Char
  \/ q = "Value" /\ c \in Digits(b) /\ q2 = "Value" /\ b2 = b /\ push = Char
  \/ q = "Value" /\ c = "underscore" /\ q2 = "Value" /\ b2 = b /\ push = Nothing
  \/ q = "Value" /\ b = "Decimal" /\ c = "." /\ q2 = "FractionStart" /\ b2 = b /\ push = Char
  \/ q = "Value" /\ b = "Decimal" /\ c \in Marks /\ q2 = "ExponentStart" /\ b2 = b /\ push = Char
  \/ q = "FractionStart" /\ c \in Digits(b) /\ q2 = "Fraction" /\ b2 = b /\ push = Char
  \/ q = "Fraction" /\ c \in Digits(b) /\ q2 = "Fraction" /\ b2 = b /\ push = Char
  \/ q = "Fraction" /\ c = "underscore" /\ q2 = "Fraction" /\ b2 = b /\ push = Nothing
  \/ q = "Fraction" /\ c \in Marks /\ q2 = "ExponentStart" /\ b2 = b /\ push = Char
  \/ q = "ExponentStart" /\ c \in Signs /\ q2 = "ExponentSigned" /\ b2 = b /\ push = Char
  \/ q = "ExponentStart" /\ c \in Decimals /\ q2 = "Exponent" /\ b2 = b /\ push = PlusChar
  \/ q = "ExponentSigned" /\ c \in Decimals /\ q2 = "Exponent" /\ b2 = b /\ push = Char
  \/ q = "Exponent" /\ c \in Decimals /\ q2 = "Exponent" /\ b2 = b /\ push = Char
  \/ q = "Exponent" /\ c = "underscore" /\ q2 = "Exponent" /\ b2 = b /\ push = Nothing

LEMMA PushIs ==
  ASSUME NEW c, NEW rule \in Rules, rule.from = state, c \in rule.on
  PROVE  Pushes(state, base, c, rule.to, IF rule.to = "ValueStart" THEN BaseOf(c) ELSE base,
                rule.push)
BY Z3T(60) DEF Rules, Rule, Pushes, Letters, Marks, Signs

\* Two and three characters put together.
LEMMA Pair ==
  ASSUME NEW a, NEW b
  PROVE  <<a>> \o <<b>> = <<a, b>>
<1> DEFINE A == {a, b}
           s == <<a>>
           r == <<b>>
           l == s \o r
           t == <<a, b>>
<1>1. s \in Seq(A) /\ Len(s) = 1 /\ s[1] = a /\ r \in Seq(A) /\ Len(r) = 1 /\ r[1] = b
  OBVIOUS
<1>2. t \in Seq(A) /\ Len(t) = 2 /\ t[1] = a /\ t[2] = b
  OBVIOUS
<1> HIDE DEF s, t, r, A
<1>3. /\ l \in Seq(A) /\ Len(l) = Len(s) + Len(r)
      /\ \A i \in 1 .. Len(s) + Len(r) : l[i] = IF i <= Len(s) THEN s[i] ELSE r[i - Len(s)]
  BY <1>1, ConcatProperties
<1> HIDE DEF l
<1>4. \A i \in 1 .. Len(l) : l[i] = t[i]
  <2>1. \A i \in 1 .. Len(l) : i = 1 \/ i = 2 BY <1>1, <1>3
  <2> QED BY <1>1, <1>2, <1>3, <2>1
<1>5. Len(l) = Len(t)
  BY <1>1, <1>2, <1>3
<1>6. l = t
  BY <1>2, <1>3, <1>4, <1>5, SeqEqual
<1> QED BY <1>6 DEF l, s, r, t

LEMMA Triple ==
  ASSUME NEW a, NEW b, NEW c
  PROVE  <<a, b>> \o <<c>> = <<a, b, c>>
<1> DEFINE A == {a, b, c}
           s == <<a, b>>
           r == <<c>>
           l == s \o r
           t == <<a, b, c>>
<1>1. s \in Seq(A) /\ Len(s) = 2 /\ s[1] = a /\ s[2] = b /\ r \in Seq(A) /\ Len(r) = 1 /\ r[1] = c
  OBVIOUS
<1>2. t \in Seq(A) /\ Len(t) = 3 /\ t[1] = a /\ t[2] = b /\ t[3] = c
  OBVIOUS
<1> HIDE DEF s, t, r, A
<1>3. /\ l \in Seq(A) /\ Len(l) = Len(s) + Len(r)
      /\ \A i \in 1 .. Len(s) + Len(r) : l[i] = IF i <= Len(s) THEN s[i] ELSE r[i - Len(s)]
  BY <1>1, ConcatProperties
<1> HIDE DEF l
<1>4. \A i \in 1 .. Len(l) : l[i] = t[i]
  <2>1. \A i \in 1 .. Len(l) : i = 1 \/ i = 2 \/ i = 3 BY <1>1, <1>3
  <2> QED BY <1>1, <1>2, <1>3, <2>1
<1>5. Len(l) = Len(t)
  BY <1>1, <1>2, <1>3
<1>6. l = t
  BY <1>2, <1>3, <1>4, <1>5, SeqEqual
<1> QED BY <1>6 DEF l, s, r, t

LEMMA PushedIs ==
  ASSUME NEW c \in Handed
  PROVE  /\ Pushed(Nothing, c) = <<>>
         /\ Pushed(Char, c) = <<Upper(c)>>
         /\ Pushed(Zero, c) = <<"0">>
         /\ Pushed(ZeroChar, c) = <<"0", Upper(c)>>
         /\ Pushed(PlusChar, c) = <<"+">> \o <<Upper(c)>>
<1>1. ASSUME NEW a PROVE <<>> \o <<a>> = <<a>> /\ <<"0">> \o <<a>> = <<"0", a>>
  <2>1. <<a>> \in Seq({a}) OBVIOUS
  <2>2. <<>> \o <<a>> = <<a>> BY <2>1, ConcatEmptySeq
  <2> QED BY <2>2, Pair
<1>4. <<>> \o <<>> = <<>>
  OBVIOUS
<1>5. <<"0">> \o <<>> = <<"0">>
  OBVIOUS
<1> DEFINE a == Upper(c)
<1>2. Pushed(Nothing, c) = <<>> \o <<>> /\ Pushed(Char, c) = <<>> \o <<a>>
      /\ Pushed(Zero, c) = <<"0">> \o <<>> /\ Pushed(ZeroChar, c) = <<"0">> \o <<a>>
      /\ Pushed(PlusChar, c) = <<"+">> \o <<a>>
  <2> HIDE DEF a
  <2>1. a = Upper(c) BY DEF a
  <2> QED BY <2>1 DEF Pushed, Nothing, Char, Zero, ZeroChar, PlusChar
<1> HIDE DEF a
<1>3. <<>> \o <<a>> = <<a>> /\ <<"0">> \o <<a>> = <<"0", a>>
  BY <1>1
<1> QED BY <1>2, <1>3, <1>4, <1>5 DEF a

LEMMA UpperIs ==
  /\ \A c \in Decimals \union Signs \union {"."} : Upper(c) = c
  /\ \A c \in Marks : Upper(c) = "E"
  /\ \A c \in Hexes \union Signs \union {"."} : c # "underscore"
BY DEF Upper, Decimals, Signs, Marks, Hexes


\* One character more.
LEMMA UnsignedLonger ==
  ASSUME NEW t \in Texts, NEW c \in Handed, ~(t = <<>> /\ c \in Signs)
  PROVE  Unsigned(Append(t, c)) = Append(Unsigned(t), c)
<1> DEFINE u == Unsigned(t)
           v == Unsigned(Append(t, c))
           w == Append(u, c)
<1>1. Append(t, c) \in Seq(Handed)
  BY AppendProperties DEF Texts
<1>2. u \in Seq(Handed) /\ v \in Seq(Handed) /\ Len(u) \in Nat
  BY <1>1, UnsignedIs, LenProperties DEF Texts
<1>3. Len(v) = Len(u) + 1 /\ v[Len(u) + 1] = c /\ Agree(u, v, Len(u))
  BY UnsignedAppend DEF Texts
<1> HIDE DEF u, v
<1>4. /\ w \in Seq(Handed) /\ Len(w) = Len(u) + 1
      /\ \A k \in 1 .. Len(u) : w[k] = u[k]
      /\ w[Len(u) + 1] = c
  BY <1>2, AppendProperties
<1> HIDE DEF w
<1>5. \A k \in 1 .. Len(v) : v[k] = w[k]
  <2> TAKE k \in 1 .. Len(v)
  <2>1. k \in 1 .. Len(u) \/ k = Len(u) + 1 BY <1>2, <1>3
  <2> QED BY <2>1, <1>3, <1>4 DEF Agree
<1> QED BY <1>2, <1>3, <1>4, <1>5, SeqEqual DEF u, v, w

LEMMA LongerIs ==
  ASSUME NEW t \in Texts, NEW c \in Handed
  PROVE  /\ t \o <<c>> = Append(t, c) /\ t \o <<c>> \in Texts /\ t \o <<c>> # <<>>
         /\ Plain(t \o <<c>>) = Plain(t) \o One(c)
         /\ \A k \in 1 .. Len(t) : (t \o <<c>>)[k] = t[k]
<1> DEFINE u == Append(t, c)
           v == t \o <<c>>
<1>1. /\ u \in Texts /\ u # <<>> /\ \A k \in 1 .. Len(t) : u[k] = t[k]
  BY AppendProperties DEF Texts
<1>2. v = u
  BY AppendIsConcat DEF Texts
<1>3. Plain(u) = Plain(t) \o One(c)
  BY PlainAppend DEF Texts
<1> HIDE DEF u, v
<1>4. v \in Texts /\ v # <<>> /\ Plain(v) = Plain(t) \o One(c) /\ \A k \in 1 .. Len(t) : v[k] = t[k]
  BY <1>1, <1>2, <1>3
<1> QED BY <1>2, <1>4 DEF u, v

LEMMA Joined ==
  ASSUME NEW r \in Texts, NEW s \in Texts
  PROVE  /\ r \o s \in Texts /\ <<>> \o r = r /\ r \o <<>> = r
BY ConcatProperties, ConcatEmptySeq DEF Texts

LEMMA Rejoined ==
  ASSUME NEW r \in Texts, NEW s \in Texts, NEW t \in Texts
  PROVE  (r \o s) \o t = r \o (s \o t)
BY Regroup DEF Texts

LEMMA Onward ==
  ASSUME NEW u, NEW r \in Texts, NEW s \in Texts, NEW t \in Texts, NEW v, u = r \o s, v = s \o t
  PROVE  u \o t = r \o v
BY Rejoined

LEMMA PlainOfOne ==
  ASSUME NEW c \in Handed
  PROVE  <<c>> \in Texts /\ Plain(<<c>>) = One(c)
<1>1. <<>> \in Texts /\ <<c>> \in Texts
  BY DEF Texts
<1>2. <<>> \o <<c>> = <<c>> /\ <<>> \o One(c) = One(c)
  BY <1>1, OneType, ConcatEmptySeq DEF Texts
<1>3. Plain(<<>> \o <<c>>) = Plain(<<>>) \o One(c)
  BY <1>1, LongerIs
<1> QED BY <1>1, <1>2, <1>3, PlainEmpty

LEMMA KeptType ==
  /\ \A t \in Texts : Plain(t) \in Texts
  /\ \A c \in Handed : One(c) \in Texts
  /\ <<>> \in Texts
BY PlainType, OneType, FiguresHanded DEF Texts

LEMMA DecimalsHanded == Decimals \subseteq Handed /\ Marks \subseteq Handed /\ Signs \subseteq Handed
                        /\ "." \in Handed /\ "underscore" \in Handed /\ "E" \in Handed /\ "0" \in Decimals
                        /\ Letters \subseteq Handed
BY DEF Handed, Hexes, Decimals, Marks, Signs, Letters

LEMMA FractionStarts ==
  ASSUME NEW c \in Decimals
  PROVE  /\ <<".", c>> \in Texts /\ IsFraction(<<".", c>>) /\ <<".", c>> # <<>>
         /\ <<".", c>> = <<".">> \o <<c>>
         /\ Plain(<<".", c>>) = <<".">> \o One(c)
<1>0. c \in Handed /\ "." \in Handed /\ One(".") = <<".">>
  BY DecimalsHanded DEF One, Upper
<1>1. <<".", c>> \in Texts /\ <<".", c>> # <<>> /\ <<".", c>>[1] = "." /\ Tail(<<".", c>>) = <<c>>
  BY <1>0 DEF Texts
<1>2. Whole(<<c>>, "Decimal")
  BY <1>0, WholeOfOne, DigitsAre
<1>3. <<".">> \in Texts /\ Plain(<<".">>) = <<".">>
  BY <1>0, PlainOfOne
<1>4. <<".", c>> = Append(<<".">>, c)
  OBVIOUS
<1>5. <<".", c>> = <<".">> \o <<c>>
  BY <1>0, <1>3, <1>4, LongerIs
<1>6. Plain(<<".">> \o <<c>>) = Plain(<<".">>) \o One(c)
  BY <1>0, <1>3, LongerIs
<1> QED BY <1>1, <1>2, <1>3, <1>5, <1>6 DEF IsFraction

LEMMA FractionGrows ==
  ASSUME NEW f \in Texts, f # <<>>, IsFraction(f), NEW c \in Decimals \union {"underscore"}
  PROVE  IsFraction(f \o <<c>>)
<1>0. c \in Handed
  BY DecimalsHanded
<1>1. f[1] = "." /\ Whole(Tail(f), "Decimal") /\ Tail(f) \in Texts /\ Len(f) \in Nat \ {0}
  BY HeadTailProperties, EmptySeq DEF IsFraction, Texts
<1>2. Whole(Tail(f) \o <<c>>, "Decimal")
  BY <1>0, <1>1, WholeGrows, DigitsAre DEF Texts
<1>3. Tail(f \o <<c>>) = Tail(f) \o <<c>>
  BY <1>0, <1>1, LongerIs, HeadTailAppend DEF Texts
<1>4. (f \o <<c>>)[1] = "."
  BY <1>0, <1>1, LongerIs
<1> QED BY <1>2, <1>3, <1>4 DEF IsFraction

LEMMA PowerType ==
  ASSUME NEW p \in Texts, IsPower(p)
  PROVE  /\ Power(p) \in Texts /\ KeptPower(p) \in Texts
         /\ p # <<>> => /\ Len(p) > 1 /\ p[1] \in Marks
                        /\ Tail(p) \in Texts /\ Tail(p) # <<>>
                        /\ Unsigned(Tail(p)) \in Texts /\ Whole(Unsigned(Tail(p)), "Decimal")
<1>1. CASE p = <<>>
  BY <1>1 DEF Power, KeptPower, Texts
<1>2. CASE p # <<>>
  <2>1. /\ Tail(p) \in Texts /\ Len(Tail(p)) = Len(p) - 1 /\ Len(p) \in Nat \ {0}
    BY <1>2, HeadTailProperties, EmptySeq DEF Texts
  <2>2. Unsigned(Tail(p)) \in Texts BY <2>1, UnsignedIs DEF Texts
  <2>3. p[1] \in Marks /\ Whole(Unsigned(Tail(p)), "Decimal") BY <1>2 DEF IsPower, Marks
  <2>4. Tail(p) # <<>> BY <2>3 DEF Unsigned, Whole
  <2>5. Len(p) > 1 BY <2>1, <2>4, EmptySeq DEF Texts
  <2>6. Plain(Unsigned(Tail(p))) \in Texts BY <2>2, KeptType
  <2>7. <<"-">> \in Texts /\ <<"+">> \in Texts /\ <<"E">> \in Texts
    BY DecimalsHanded DEF Texts, Signs
  <2>8. (IF p[2] = "-" THEN <<"-">> ELSE <<"+">>) \in Texts BY <2>7
  <2>9. Power(p) \in Texts BY <1>2, <2>6, <2>8, ConcatProperties DEF Power, Texts
  <2>10. KeptPower(p) \in Texts BY <1>2, <2>7, <2>9, ConcatProperties DEF KeptPower, Texts
  <2> QED BY <2>1, <2>2, <2>3, <2>4, <2>5, <2>9, <2>10
<1> QED BY <1>1, <1>2

LEMMA PowerGrows ==
  ASSUME NEW p \in Texts, p # <<>>, IsPower(p), NEW c \in Decimals \union {"underscore"}
  PROVE  /\ IsPower(p \o <<c>>) /\ Power(p \o <<c>>) = Power(p) \o One(c)
         /\ KeptPower(p \o <<c>>) = KeptPower(p) \o One(c)
<1> DEFINE r == p \o <<c>>
           d == Tail(p)
           u == Unsigned(d)
           sign == IF p[2] = "-" THEN <<"-">> ELSE <<"+">>
<1>0. c \in Handed
  BY DecimalsHanded
<1>1. /\ Len(p) > 1 /\ p[1] \in Marks /\ d \in Texts /\ d # <<>> /\ u \in Texts /\ Whole(u, "Decimal")
      /\ Power(p) \in Texts /\ Len(p) \in Nat
  BY PowerType, LenProperties DEF Texts
<1>2. /\ r = Append(p, c) /\ r \in Texts /\ r # <<>> /\ r[1] = p[1] /\ r[2] = p[2]
  BY <1>0, <1>1, LongerIs
<1>3. Tail(r) = Append(d, c)
  BY <1>2, HeadTailAppend DEF Texts
<1>4. Unsigned(Tail(r)) = u \o <<c>>
  BY <1>0, <1>1, <1>3, UnsignedLonger, LongerIs
<1>5. Whole(u \o <<c>>, "Decimal")
  BY <1>0, <1>1, WholeGrows, DigitsAre DEF Texts
<1>6. IsPower(r)
  BY <1>1, <1>2, <1>4, <1>5 DEF IsPower, Marks
<1>7. Plain(u \o <<c>>) = Plain(u) \o One(c)
  BY <1>0, <1>1, LongerIs
<1>8. sign \in Texts /\ <<"E">> \in Texts /\ Plain(u) \in Texts /\ One(c) \in Texts
  BY <1>0, <1>1, KeptType, DecimalsHanded DEF Texts, Signs
<1>9. Power(p) = sign \o Plain(u) /\ Power(r) = sign \o (Plain(u) \o One(c))
  BY <1>2, <1>4, <1>7 DEF Power
<1> HIDE DEF r, d, u, sign
<1>10. Power(r) = Power(p) \o One(c)
  <2> DEFINE e == Plain(u)
             o == One(c)
  <2>1. e \in Texts /\ o \in Texts /\ Power(p) = sign \o e /\ Power(r) = sign \o (e \o o)
    BY <1>8, <1>9
  <2> HIDE DEF e, o
  <2>2. (sign \o e) \o o = sign \o (e \o o)
    BY <1>8, <2>1, Rejoined
  <2> QED BY <2>1, <2>2 DEF o
<1>11. KeptPower(r) = <<"E">> \o (Power(p) \o One(c)) /\ KeptPower(p) = <<"E">> \o Power(p)
  BY <1>2, <1>10 DEF KeptPower
<1>12. KeptPower(r) = KeptPower(p) \o One(c)
  <2> DEFINE e == Power(p)
             o == One(c)
             m == <<"E">>
  <2>1. e \in Texts /\ o \in Texts /\ m \in Texts /\ KeptPower(r) = m \o (e \o o)
        /\ KeptPower(p) = m \o e
    BY <1>1, <1>8, <1>11
  <2> HIDE DEF e, o, m
  <2>2. (m \o e) \o o = m \o (e \o o)
    BY <2>1, Rejoined
  <2> QED BY <2>1, <2>2 DEF o
<1> QED BY <1>6, <1>10, <1>12 DEF r

LEMMA PowerStarts ==
  ASSUME NEW c \in Marks, NEW d \in Decimals
  PROVE  /\ <<c, d>> \in Texts /\ <<c, d>> # <<>> /\ IsPower(<<c, d>>)
         /\ Power(<<c, d>>) = <<"+">> \o One(d)
<1>0. c \in Handed /\ d \in Handed /\ d \notin Signs /\ d # "-"
  BY DecimalsHanded DEF Decimals, Signs
<1>1. /\ <<c, d>> \in Texts /\ <<c, d>> # <<>> /\ <<c, d>>[1] = c /\ <<c, d>>[2] = d
      /\ Tail(<<c, d>>) = <<d>>
  BY <1>0 DEF Texts
<1>2. Unsigned(<<d>>) = <<d>>
  BY <1>0 DEF Unsigned
<1>3. Whole(<<d>>, "Decimal")
  BY <1>0, WholeOfOne, DigitsAre
<1>4. Plain(<<d>>) = One(d)
  BY <1>0, PlainOfOne
<1> QED BY <1>0, <1>1, <1>2, <1>3, <1>4 DEF IsPower, Power, Marks

LEMMA PowerStartsSigned ==
  ASSUME NEW c \in Marks, NEW s \in Signs, NEW d \in Decimals
  PROVE  /\ <<c, s, d>> \in Texts /\ <<c, s, d>> # <<>> /\ IsPower(<<c, s, d>>)
         /\ Power(<<c, s, d>>) = <<s>> \o One(d)
<1>0. c \in Handed /\ d \in Handed /\ s \in Handed
  BY DecimalsHanded
<1>1. /\ <<c, s, d>> \in Texts /\ <<c, s, d>> # <<>> /\ <<c, s, d>>[1] = c /\ <<c, s, d>>[2] = s
      /\ Tail(<<c, s, d>>) = <<s, d>> /\ Tail(<<s, d>>) = <<d>> /\ <<s, d>> # <<>> /\ <<s, d>>[1] = s
  BY <1>0 DEF Texts
<1>2. Unsigned(<<s, d>>) = <<d>>
  BY <1>1 DEF Unsigned
<1>3. Whole(<<d>>, "Decimal")
  BY <1>0, WholeOfOne, DigitsAre
<1>4. Plain(<<d>>) = One(d)
  BY <1>0, PlainOfOne
<1>5. (IF s = "-" THEN <<"-">> ELSE <<"+">>) = <<s>>
  BY DEF Signs
<1> QED BY <1>1, <1>2, <1>3, <1>4, <1>5 DEF IsPower, Power, Marks

\* A whole part that is kept.
LEMMA WholeKept ==
  ASSUME NEW w \in Texts, NEW y \in Texts, Whole(w, "Decimal"), Lead(y, Plain(w))
  PROVE  KeptMantissa(w, y)
<1>1. w \o <<>> = w /\ y \o Plain(<<>>) = y /\ <<>> \in Texts
  BY Joined, PlainEmpty, KeptType
<1>2. Keeps(w, y, w, <<>>, y)
  BY <1>1 DEF Keeps, IsFraction
<1> QED BY <1>1, <1>2 DEF KeptMantissa

LEMMA WholeKeptGrows ==
  ASSUME NEW u \in Texts, NEW x \in Texts, Whole(u, "Decimal"), Lead(x, Plain(u)),
         NEW c \in Decimals \union {"underscore"}
  PROVE  Whole(u \o <<c>>, "Decimal") /\ Lead(x \o One(c), Plain(u \o <<c>>))
<1>0. c \in Handed /\ One(c) \in Texts /\ <<"0">> \in Texts
  BY DecimalsHanded, KeptType DEF Texts
<1>1. Whole(u \o <<c>>, "Decimal")
  BY <1>0, WholeGrows, DigitsAre DEF Texts
<1>2. Plain(u \o <<c>>) = Plain(u) \o One(c)
  BY <1>0, LongerIs
<1>3. x \o One(c) # <<>>
  BY <1>0, ConcatEqualIffEmpty DEF Lead, Texts
<1>4. Plain(u) = <<"0">> \o x => Plain(u) \o One(c) = <<"0">> \o (x \o One(c))
  BY <1>0, Rejoined
<1> QED BY <1>1, <1>2, <1>3, <1>4 DEF Lead

\* A zero has been read and nothing pushed for it.
LEMMA ZeroKept ==
  ASSUME NEW c \in Handed
  PROVE  /\ <<"0">> \in Texts /\ Whole(<<"0">>, "Decimal") /\ Lead(<<"0">>, Plain(<<"0">>))
         /\ <<"0">> \o <<c>> = <<"0", c>>
         /\ c \in Decimals => Whole(<<"0", c>>, "Decimal") /\ Lead(<<c>>, Plain(<<"0", c>>))
         /\ c = "underscore" => Whole(<<"0", c>>, "Decimal") /\ Lead(<<"0">>, Plain(<<"0", c>>))
<1>0. "0" \in Handed /\ One("0") = <<"0">> /\ "0" \in Decimals /\ Decimals \subseteq Handed
  BY DecimalsHanded DEF One, Upper
<1>1. <<"0">> \in Texts /\ Plain(<<"0">>) = <<"0">> /\ Whole(<<"0">>, "Decimal")
  BY <1>0, PlainOfOne, WholeOfOne, DigitsAre
<1>2. <<"0">> \o <<c>> = <<"0", c>>
  BY Pair
<1>3. Lead(<<"0">>, Plain(<<"0">>))
  BY <1>1 DEF Lead
<1>4. ASSUME c \in Decimals PROVE Whole(<<"0", c>>, "Decimal") /\ Lead(<<c>>, Plain(<<"0", c>>))
  <2>1. One(c) = <<c>> BY <1>4, UpperIs DEF One, Decimals
  <2>2. Plain(<<"0", c>>) = <<"0">> \o <<c>> BY <1>1, <1>2, <2>1, LongerIs
  <2>3. Whole(<<"0", c>>, "Decimal") BY <1>1, <1>2, <1>4, WholeKeptGrows, <1>3
  <2> QED BY <2>2, <2>3 DEF Lead
<1>5. ASSUME c = "underscore" PROVE Whole(<<"0", c>>, "Decimal") /\ Lead(<<"0">>, Plain(<<"0", c>>))
  <2>1. One(c) = <<>> BY <1>5 DEF One
  <2>2. Plain(<<"0", c>>) = <<"0">> \o <<>> BY <1>1, <1>2, <2>1, LongerIs
  <2>3. Whole(<<"0", c>>, "Decimal") BY <1>1, <1>2, <1>3, <1>5, WholeKeptGrows
  <2>4. <<"0">> \o <<>> = <<"0">> BY <1>1, Joined
  <2> QED BY <2>2, <2>3, <2>4 DEF Lead
<1> QED BY <1>1, <1>2, <1>3, <1>4, <1>5

LEMMA BasedGrows ==
  ASSUME NEW u \in Texts, NEW x \in Texts, NEW b, NEW l \in Letters, NEW w \in Texts, NEW c \in Handed,
         b = BaseOf(l), u = <<"0", l>> \o w, Whole(w, b), x = Plain(w),
         c \in Digits(b) \union {"underscore"}
  PROVE  KeptWhole(b, u \o <<c>>, x \o One(c))
<1>0. <<"0", l>> \in Texts /\ <<c>> \in Texts
  BY DecimalsHanded DEF Texts
<1>1. Whole(w \o <<c>>, b) /\ w \o <<c>> \in Texts
  BY WholeGrows, LongerIs DEF Texts
<1>2. Plain(w \o <<c>>) = x \o One(c)
  BY LongerIs
<1>3. u \o <<c>> = <<"0", l>> \o (w \o <<c>>)
  BY <1>0, Rejoined
<1> QED BY <1>1, <1>2, <1>3 DEF KeptWhole

LEMMA BasedStarts ==
  ASSUME NEW l \in Letters, NEW c \in Handed, c \in Digits(BaseOf(l))
  PROVE  KeptWhole(BaseOf(l), <<"0", l>> \o <<c>>, One(c))
<1>1. <<c>> \in Texts /\ Plain(<<c>>) = One(c) /\ Whole(<<c>>, BaseOf(l))
  BY PlainOfOne, WholeOfOne
<1> QED BY <1>1 DEF KeptWhole

LEMMA WholeGrowsKept ==
  ASSUME NEW u \in Texts, NEW x \in Texts, NEW b, KeptWhole(b, u, x), NEW c \in Handed,
         c \in Digits(b) \union {"underscore"}
  PROVE  KeptWhole(b, u \o <<c>>, x \o One(c))
<1>1. CASE \E l \in Letters : \E w \in Texts :
             b = BaseOf(l) /\ u = <<"0", l>> \o w /\ Whole(w, b) /\ x = Plain(w)
  BY <1>1, BasedGrows
<1>2. CASE b = "Decimal" /\ Whole(u, b) /\ Lead(x, Plain(u))
  BY <1>2, WholeKeptGrows, DigitsAre DEF KeptWhole
<1> QED BY <1>1, <1>2 DEF KeptWhole

LEMMA WholeIsDecimal ==
  ASSUME NEW u, NEW x, KeptWhole("Decimal", u, x)
  PROVE  Whole(u, "Decimal") /\ Lead(x, Plain(u))
BY DigitsAre DEF KeptWhole

LEMMA FractionBegins ==
  ASSUME NEW u \in Texts, NEW x \in Texts, Point(u, x), NEW c \in Decimals
  PROVE  Fractional(u \o <<c>>, x \o One(c))
<1> DEFINE dot == <<".">>
           k == <<c>>
           o == One(c)
           f == <<".", c>>
<1>1. dot \in Texts /\ k \in Texts /\ o \in Texts /\ f \in Texts
  BY DecimalsHanded, KeptType, FractionStarts DEF Texts
<1>2. IsFraction(f) /\ f # <<>> /\ f = dot \o k /\ Plain(f) = dot \o o
  BY FractionStarts
<1>3. PICK w \in Texts, y \in Texts :
        u = w \o dot /\ Whole(w, "Decimal") /\ Lead(y, Plain(w)) /\ x = y \o dot
  BY DEF Point
<1> HIDE DEF dot, k, o, f
<1>4. u \o k = w \o f
  BY <1>1, <1>2, <1>3, Onward
<1>5. x \o o = y \o Plain(f)
  BY <1>1, <1>2, <1>3, Onward
<1>6. Keeps(u \o k, x \o o, w, f, y)
  BY <1>2, <1>3, <1>4, <1>5 DEF Keeps
<1>7. Fractional(u \o k, x \o o)
  BY <1>1, <1>2, <1>6 DEF Fractional
<1> QED BY <1>7 DEF k, o

LEMMA FractionLasts ==
  ASSUME NEW u \in Texts, NEW x \in Texts, Fractional(u, x), NEW c \in Decimals \union {"underscore"}
  PROVE  Fractional(u \o <<c>>, x \o One(c))
<1>0. <<c>> \in Texts /\ One(c) \in Texts /\ c \in Handed
  BY DecimalsHanded, KeptType DEF Texts
<1>1. PICK w, f, y \in Texts : f # <<>> /\ Keeps(u, x, w, f, y)
  BY DEF Fractional
<1> DEFINE g == f \o <<c>>
<1>2. g \in Texts /\ g # <<>> /\ IsFraction(g) /\ Plain(g) = Plain(f) \o One(c)
  BY <1>0, <1>1, FractionGrows, LongerIs DEF Keeps
<1>3. u \o <<c>> = w \o g
  BY <1>0, <1>1, Rejoined DEF Keeps
<1> HIDE DEF g
<1>4. Plain(f) \in Texts
  BY KeptType
<1>5. x \o One(c) = y \o Plain(g)
  <2>1. x = y \o Plain(f) BY <1>1 DEF Keeps
  <2> QED BY <1>0, <1>2, <1>4, <2>1, Onward
<1>6. Keeps(u \o <<c>>, x \o One(c), w, g, y)
  BY <1>1, <1>2, <1>3, <1>5 DEF Keeps
<1> QED BY <1>2, <1>6 DEF Fractional

LEMMA MarkComes ==
  ASSUME NEW u \in Texts, NEW x \in Texts, KeptMantissa(u, x), NEW c \in Marks
  PROVE  Marked(u \o <<c>>, x \o <<"E">>)
BY DEF Marked

LEMMA SignComes ==
  ASSUME NEW u \in Texts, NEW x \in Texts, Marked(u, x), NEW s \in Signs
  PROVE  SignedMark(u \o <<s>>, x \o <<s>>)
<1>1. PICK m \in Texts, y \in Texts, c \in Marks :
        u = m \o <<c>> /\ KeptMantissa(m, y) /\ x = y \o <<"E">>
  BY DEF Marked
<1> DEFINE k == <<c>>
           e == <<"E">>
           z == <<s>>
           kz == <<c, s>>
           ez == <<"E", s>>
<1>2. k \in Texts /\ e \in Texts /\ z \in Texts
  BY DecimalsHanded DEF Texts
<1>3. kz = k \o z /\ ez = e \o z
  BY Pair
<1>4. u = m \o k /\ x = y \o e
  BY <1>1
<1> HIDE DEF k, e, z, kz, ez
<1>5. u \o z = m \o kz
  BY <1>2, <1>3, <1>4, Onward
<1>6. x \o z = y \o ez
  BY <1>2, <1>3, <1>4, Onward
<1> QED BY <1>1, <1>5, <1>6 DEF SignedMark, z, kz, ez

LEMMA PowerComes ==
  ASSUME NEW u \in Texts, NEW x \in Texts, Marked(u, x), NEW d \in Decimals
  PROVE  Powered(u \o <<d>>, x \o (<<"+">> \o One(d)))
<1>1. PICK m \in Texts, y \in Texts, c \in Marks :
        u = m \o <<c>> /\ KeptMantissa(m, y) /\ x = y \o <<"E">>
  BY DEF Marked
<1> DEFINE k == <<c>>
           z == <<d>>
           p == <<c, d>>
           e == <<"E">>
           r == <<"+">> \o One(d)
<1>2. k \in Texts /\ z \in Texts /\ e \in Texts
  BY DecimalsHanded DEF Texts
<1>3. p \in Texts /\ p # <<>> /\ IsPower(p) /\ Power(p) = r /\ p = k \o z
  BY PowerStarts, Pair
<1>4. KeptPower(p) = e \o r /\ r \in Texts
  BY <1>3, PowerType DEF KeptPower
<1>5. u = m \o k /\ x = y \o e
  BY <1>1
<1> HIDE DEF k, z, p, e, r
<1>6. u \o z = m \o p
  BY <1>2, <1>3, <1>5, Onward
<1>7. x \o r = y \o KeptPower(p)
  BY <1>2, <1>4, <1>5, Onward
<1>8. Powered(u \o z, x \o r)
  BY <1>1, <1>3, <1>6, <1>7 DEF Powered
<1> QED BY <1>8 DEF z, r

LEMMA PowerComesSigned ==
  ASSUME NEW u \in Texts, NEW x \in Texts, SignedMark(u, x), NEW d \in Decimals
  PROVE  Powered(u \o <<d>>, x \o One(d))
<1>1. PICK m \in Texts, y \in Texts, c \in Marks, s \in Signs :
        u = m \o <<c, s>> /\ KeptMantissa(m, y) /\ x = y \o <<"E", s>>
  BY DEF SignedMark
<1> DEFINE k == <<c, s>>
           z == <<d>>
           p == <<c, s, d>>
           e == <<"E">>
           g == <<s>>
           eg == <<"E", s>>
           o == One(d)
<1>2. k \in Texts /\ z \in Texts /\ e \in Texts /\ g \in Texts /\ o \in Texts /\ eg \in Texts
  BY DecimalsHanded, KeptType DEF Texts
<1>3. p \in Texts /\ p # <<>> /\ IsPower(p) /\ Power(p) = g \o o /\ p = k \o z
  BY PowerStartsSigned, Triple
<1>4. KeptPower(p) = e \o (g \o o)
  BY <1>3 DEF KeptPower
<1>5. u = m \o k /\ x = y \o eg /\ eg = e \o g
  BY <1>1, Pair
<1> HIDE DEF k, z, p, e, g, eg, o
<1>6. u \o z = m \o p
  <2>1. u = m \o k /\ p = k \o z BY <1>3, <1>5
  <2>2. k \in Texts /\ z \in Texts BY <1>2
  <2> QED BY <2>1, <2>2, Onward
<1>7. eg \o o = KeptPower(p)
  BY <1>2, <1>4, <1>5, Onward
<1>8. x \o o = y \o KeptPower(p)
  <2>1. x = y \o eg BY <1>5
  <2>2. eg \in Texts /\ o \in Texts BY <1>2
  <2>3. KeptPower(p) = eg \o o BY <1>7
  <2> QED BY <2>1, <2>2, <2>3, Onward
<1>9. Powered(u \o z, x \o o)
  BY <1>1, <1>3, <1>6, <1>8 DEF Powered
<1> QED BY <1>9 DEF z, o

LEMMA PowerLasts ==
  ASSUME NEW u \in Texts, NEW x \in Texts, Powered(u, x), NEW c \in Decimals \union {"underscore"}
  PROVE  Powered(u \o <<c>>, x \o One(c))
<1>1. PICK m, y, p \in Texts :
        u = m \o p /\ KeptMantissa(m, y) /\ p # <<>> /\ IsPower(p) /\ x = y \o KeptPower(p)
  BY DEF Powered
<1> DEFINE r == p \o <<c>>
           o == One(c)
           k == KeptPower(p)
<1>2. c \in Handed /\ <<c>> \in Texts /\ o \in Texts /\ k \in Texts
  BY <1>1, DecimalsHanded, KeptType, PowerType DEF Texts
<1>3. r \in Texts /\ r # <<>> /\ IsPower(r) /\ KeptPower(r) = k \o o
  BY <1>1, <1>2, PowerGrows, LongerIs
<1>4. u \o <<c>> = m \o r
  <2>1. u = m \o p /\ m \in Texts /\ p \in Texts /\ <<c>> \in Texts
    BY <1>1, <1>2
  <2> HIDE DEF o, k
  <2> QED BY <2>1, Onward
<1>5. x \o o = y \o (k \o o)
  <2>1. x = y \o k /\ y \in Texts /\ k \in Texts /\ o \in Texts
    BY <1>1, <1>2
  <2> HIDE DEF r, o, k
  <2> QED BY <2>1, Onward
<1> HIDE DEF r, o, k
<1>6. Powered(u \o <<c>>, x \o o)
  BY <1>1, <1>3, <1>4, <1>5 DEF Powered
<1> QED BY <1>6 DEF o

\* A rule keeps what is kept.
LEMMA KeptGrows ==
  ASSUME NEW u \in Texts, NEW x \in Texts, NEW q, NEW b, Kept(q, b, u, x),
         NEW c \in Handed, NEW q2, NEW b2, NEW push, Pushes(q, b, c, q2, b2, push), q2 # "Signed"
  PROVE  Kept(q2, b2, u \o <<c>>, x \o Pushed(push, c))
<1> DEFINE v == u \o <<c>>
           z == x \o Pushed(push, c)
<1>0. /\ x \o <<>> = x /\ <<>> \o <<c>> = <<c>> /\ <<>> \o One(c) = One(c)
      /\ "0" \in Decimals /\ NonZero \subseteq Decimals
  <2>1. <<c>> \in Texts /\ One(c) \in Texts BY PlainOfOne, KeptType
  <2>2. "0" \in Decimals /\ NonZero \subseteq Decimals BY DEF Decimals, NonZero
  <2> QED BY <2>1, <2>2, Joined
<1>1. CASE q \in {"Start", "Signed"}
  <2>1. b = "Decimal" /\ u = <<>> /\ x = <<>> BY <1>1 DEF Kept
  <2>2. v = <<c>> BY <1>0, <2>1
  <2>3. CASE c = "0" /\ q2 = "MaybeBased" /\ b2 = b /\ push = Nothing
    <3>1. z = <<>> BY <1>0, <2>1, <2>3, PushedIs
    <3> QED BY <2>1, <2>2, <2>3, <3>1 DEF Kept
  <2>4. CASE c \in NonZero /\ q2 = "Value" /\ b2 = b /\ push = Char
    <3>1. c \in Decimals BY <1>0, <2>4
    <3>2. One(c) = <<c>> BY <3>1, UpperIs DEF One, Decimals
    <3>3. Pushed(push, c) = One(c) BY <2>4, <3>1, <3>2, PushedIs, UpperIs
    <3>4. z = <<c>> BY <1>0, <2>1, <3>2, <3>3
    <3>5. Whole(<<c>>, "Decimal") BY <3>1, WholeOfOne, DigitsAre
    <3>6. Plain(<<c>>) = <<c>> BY <3>2, PlainOfOne
    <3>7. Lead(<<c>>, Plain(<<c>>)) BY <3>6 DEF Lead
    <3>8. KeptWhole(b2, v, z) BY <2>1, <2>2, <2>4, <3>4, <3>5, <3>7 DEF KeptWhole
    <3> QED BY <2>4, <3>8 DEF Kept
  <2> QED BY <1>1, <2>3, <2>4 DEF Pushes
<1>2. CASE q = "MaybeBased"
  <2>1. b = "Decimal" /\ u = <<"0">> /\ x = <<>> BY <1>2 DEF Kept
  <2>2. v = <<"0", c>> BY <2>1, Pair
  <2>0. Pushed(push, c) \in Texts /\ <<>> \o Pushed(push, c) = Pushed(push, c)
    <3>1. "0" \in Handed /\ "E" \in Handed /\ Upper(c) \in Handed
      BY DecimalsHanded DEF Upper
    <3>2. push \in {Nothing, Char, Zero, ZeroChar} BY <1>2 DEF Pushes
    <3>3. <<>> \in Texts /\ <<Upper(c)>> \in Texts /\ <<"0">> \in Texts /\ <<"0", Upper(c)>> \in Texts
      BY <3>1 DEF Texts
    <3>4. Pushed(push, c) \in Texts BY <3>2, <3>3, PushedIs
    <3> QED BY <3>4, Joined
  <2>3. z = Pushed(push, c) BY <2>0, <2>1
  <2>4. CASE c \in Letters /\ q2 = "ValueStart" /\ b2 = BaseOf(c) /\ push = Nothing
    <3>1. z = <<>> BY <2>3, <2>4, PushedIs
    <3> QED BY <2>2, <2>4, <3>1 DEF Kept
  <2>5. CASE c \in Decimals /\ q2 = "Value" /\ b2 = b /\ push = Char
    <3>1. z = <<c>> BY <2>3, <2>5, PushedIs, UpperIs
    <3>2. KeptWhole(b2, v, z) BY <2>1, <2>2, <2>5, <3>1, ZeroKept DEF KeptWhole
    <3> QED BY <2>5, <3>2 DEF Kept
  <2>6. CASE c = "underscore" /\ q2 = "Value" /\ b2 = b /\ push = Zero
    <3>1. z = <<"0">> BY <2>3, <2>6, PushedIs
    <3>2. KeptWhole(b2, v, z) BY <2>1, <2>2, <2>6, <3>1, ZeroKept DEF KeptWhole
    <3> QED BY <2>6, <3>2 DEF Kept
  <2>7. CASE c = "." /\ q2 = "FractionStart" /\ b2 = b /\ push = ZeroChar
    <3>1. z = <<"0", ".">> BY <2>3, <2>7, PushedIs, UpperIs
    <3>2. z = <<"0">> \o <<".">> /\ v = <<"0">> \o <<".">> BY <2>2, <2>7, <3>1, Pair
    <3>3. Point(v, z) BY <3>2, ZeroKept DEF Point
    <3> QED BY <2>1, <2>7, <3>3 DEF Kept
  <2>8. CASE c \in Marks /\ q2 = "ExponentStart" /\ b2 = b /\ push = ZeroChar
    <3>1. z = <<"0", "E">> BY <2>3, <2>8, PushedIs, UpperIs
    <3>2. z = <<"0">> \o <<"E">> /\ v = <<"0">> \o <<c>> BY <2>2, <3>1, Pair
    <3>3. <<"0">> \in Texts /\ KeptMantissa(<<"0">>, <<"0">>) BY ZeroKept, WholeKept
    <3>4. Marked(v, z) BY <2>8, <3>2, <3>3, MarkComes
    <3> QED BY <2>1, <2>8, <3>4 DEF Kept
  <2> QED BY <1>2, <2>4, <2>5, <2>6, <2>7, <2>8 DEF Pushes
<1>3. ASSUME push = Char, c # "underscore" PROVE Pushed(push, c) = One(c)
  BY <1>3, PushedIs DEF One
<1>4. ASSUME push = Nothing, c = "underscore" PROVE Pushed(push, c) = One(c)
  BY <1>4, PushedIs DEF One
<1>5. CASE q = "ValueStart"
  <2>1. PICK l \in Letters : u = <<"0", l>> /\ b = BaseOf(l) /\ x = <<>>
    BY <1>5 DEF Kept
  <2>2. c \in Digits(b) /\ q2 = "Value" /\ b2 = b /\ push = Char BY <1>5 DEF Pushes
  <2>3. c # "underscore" BY <2>1, <2>2, BaseFacts
  <2>4. z = One(c) BY <1>0, <1>3, <2>1, <2>2, <2>3
  <2>5. KeptWhole(b2, v, z) BY <2>1, <2>2, <2>4, BasedStarts
  <2> QED BY <2>2, <2>5 DEF Kept
<1>6. CASE q = "Value"
  <2>1. KeptWhole(b, u, x) BY <1>6 DEF Kept
  <2>0. b \in Bases BY <2>1, BaseFacts DEF KeptWhole, Bases
  <2>2. CASE c \in Digits(b) \union {"underscore"} /\ q2 = "Value" /\ b2 = b
             /\ push = IF c = "underscore" THEN Nothing ELSE Char
    <3>1. z = x \o One(c) BY <1>3, <1>4, <2>2
    <3>2. KeptWhole(b2, v, z) BY <2>1, <2>2, <3>1, WholeGrowsKept
    <3> QED BY <2>2, <3>2 DEF Kept
  <2>3. CASE b = "Decimal" /\ c = "." /\ q2 = "FractionStart" /\ b2 = b /\ push = Char
    <3>1. z = x \o <<".">> BY <2>3, PushedIs, UpperIs
    <3>2. Whole(u, "Decimal") /\ Lead(x, Plain(u)) BY <2>1, <2>3, WholeIsDecimal
    <3>3. Point(v, z) BY <2>3, <3>1, <3>2 DEF Point
    <3> QED BY <2>3, <3>3 DEF Kept
  <2>4. CASE b = "Decimal" /\ c \in Marks /\ q2 = "ExponentStart" /\ b2 = b /\ push = Char
    <3>1. z = x \o <<"E">> BY <2>4, PushedIs, UpperIs
    <3>2. Whole(u, "Decimal") /\ Lead(x, Plain(u)) BY <2>1, <2>4, WholeIsDecimal
    <3>3. Marked(v, z) BY <2>4, <3>1, <3>2, WholeKept, MarkComes
    <3> QED BY <2>4, <3>3 DEF Kept
  <2>5. "underscore" \notin Digits(b) BY <2>0, BaseFacts
  <2> QED BY <1>6, <2>2, <2>3, <2>4, <2>5 DEF Pushes
<1>7. CASE q = "FractionStart"
  <2>1. b = "Decimal" /\ Point(u, x) BY <1>7 DEF Kept
  <2>2. c \in Decimals /\ q2 = "Fraction" /\ b2 = b /\ push = Char BY <1>7, <2>1, DigitsAre DEF Pushes
  <2>3. z = x \o One(c) BY <1>3, <2>2, UpperIs DEF Decimals
  <2>4. Fractional(v, z) BY <2>1, <2>2, <2>3, FractionBegins
  <2> QED BY <2>1, <2>2, <2>4 DEF Kept
<1>8. CASE q = "Fraction"
  <2>1. b = "Decimal" /\ Fractional(u, x) BY <1>8 DEF Kept
  <2>2. CASE c \in Decimals \union {"underscore"} /\ q2 = "Fraction" /\ b2 = b
             /\ push = IF c = "underscore" THEN Nothing ELSE Char
    <3>1. z = x \o One(c) BY <1>3, <1>4, <2>2
    <3>2. Fractional(v, z) BY <2>1, <2>2, <3>1, FractionLasts
    <3> QED BY <2>1, <2>2, <3>2 DEF Kept
  <2>3. CASE c \in Marks /\ q2 = "ExponentStart" /\ b2 = b /\ push = Char
    <3>1. z = x \o <<"E">> BY <2>3, PushedIs, UpperIs
    <3>2. KeptMantissa(u, x) BY <2>1 DEF Fractional, KeptMantissa
    <3>3. Marked(v, z) BY <2>3, <3>1, <3>2, MarkComes
    <3> QED BY <2>1, <2>3, <3>3 DEF Kept
  <2>4. "underscore" \notin Decimals BY DEF Decimals
  <2> QED BY <1>8, <2>1, <2>2, <2>3, <2>4, DigitsAre DEF Pushes
<1>9. CASE q = "ExponentStart"
  <2>1. b = "Decimal" /\ Marked(u, x) BY <1>9 DEF Kept
  <2>2. CASE c \in Signs /\ q2 = "ExponentSigned" /\ b2 = b /\ push = Char
    <3>1. z = x \o <<c>> BY <2>2, PushedIs, UpperIs
    <3>2. SignedMark(v, z) BY <2>1, <2>2, <3>1, SignComes
    <3> QED BY <2>1, <2>2, <3>2 DEF Kept
  <2>3. CASE c \in Decimals /\ q2 = "Exponent" /\ b2 = b /\ push = PlusChar
    <3>1. One(c) = <<Upper(c)>> BY <2>3 DEF One, Decimals
    <3>2. z = x \o (<<"+">> \o One(c)) BY <2>3, <3>1, PushedIs
    <3>3. Powered(v, z) BY <2>1, <2>3, <3>2, PowerComes
    <3> QED BY <2>1, <2>3, <3>3 DEF Kept
  <2> QED BY <1>9, <2>2, <2>3 DEF Pushes
<1>10. CASE q = "ExponentSigned"
  <2>1. b = "Decimal" /\ SignedMark(u, x) BY <1>10 DEF Kept
  <2>2. c \in Decimals /\ q2 = "Exponent" /\ b2 = b /\ push = Char BY <1>10 DEF Pushes
  <2>3. z = x \o One(c) BY <1>3, <2>2, UpperIs DEF Decimals
  <2>4. Powered(v, z) BY <2>1, <2>2, <2>3, PowerComesSigned
  <2> QED BY <2>1, <2>2, <2>4 DEF Kept
<1>11. CASE q = "Exponent"
  <2>1. b = "Decimal" /\ Powered(u, x) BY <1>11 DEF Kept
  <2>0. "underscore" \notin Decimals BY DEF Decimals
  <2>2. c \in Decimals \union {"underscore"} /\ q2 = "Exponent" /\ b2 = b
        /\ push = IF c = "underscore" THEN Nothing ELSE Char
    BY <1>11, <2>0 DEF Pushes
  <2>3. z = x \o One(c) BY <1>3, <1>4, <2>2
  <2>4. Powered(v, z) BY <2>1, <2>2, <2>3, PowerLasts
  <2> QED BY <2>1, <2>2, <2>4 DEF Kept
<1> QED BY <1>1, <1>2, <1>5, <1>6, <1>7, <1>8, <1>9, <1>10, <1>11 DEF Kept


-----------------------------------------------------------------------------
(* What is kept of a number is a number again.                             *)

\* One character in front of a text.
LEMMA InFront ==
  ASSUME NEW c \in Handed, NEW x \in Texts
  PROVE  /\ <<c>> \in Texts /\ <<c>> \o x \in Texts /\ <<c>> \o x # <<>>
         /\ Len(<<c>> \o x) = Len(x) + 1 /\ Len(x) \in Nat
         /\ (<<c>> \o x)[1] = c /\ Tail(<<c>> \o x) = x
         /\ \A k \in 1 .. Len(x) : (<<c>> \o x)[k + 1] = x[k]
<1> DEFINE s == <<c>>
           t == s \o x
<1>1. s \in Texts /\ Len(s) = 1 /\ s[1] = c
  BY DEF Texts
<1> HIDE DEF s
<1>2. Len(x) \in Nat
  BY LenProperties DEF Texts
<1>3. /\ t \in Texts /\ Len(t) = 1 + Len(x)
      /\ \A k \in 1 .. 1 + Len(x) : t[k] = IF k <= 1 THEN s[k] ELSE x[k - 1]
  <2>1. s \in Seq(Handed) /\ x \in Seq(Handed)
    BY <1>1 DEF Texts
  <2>2. /\ s \o x \in Seq(Handed) /\ Len(s \o x) = Len(s) + Len(x)
        /\ \A k \in 1 .. Len(s) + Len(x) :
             (s \o x)[k] = IF k <= Len(s) THEN s[k] ELSE x[k - Len(s)]
    BY <2>1, ConcatProperties
  <2> QED BY <1>1, <2>2 DEF Texts
<1> HIDE DEF t
<1>4. t # <<>>
  BY <1>2, <1>3, EmptySeq DEF Texts
<1>5. t[1] = c
  <2>1. 1 \in 1 .. 1 + Len(x) BY <1>2
  <2> QED BY <1>1, <1>3, <2>1
<1>6. \A k \in 1 .. Len(x) : t[k + 1] = x[k]
  <2> TAKE k \in 1 .. Len(x)
  <2>1. k + 1 \in 1 .. 1 + Len(x) /\ ~(k + 1 <= 1) /\ (k + 1) - 1 = k BY <1>2
  <2> QED BY <1>3, <2>1
<1> DEFINE r == Tail(t)
<1>7. r \in Texts /\ Len(r) = Len(t) - 1 /\ \A k \in 1 .. Len(r) : r[k] = t[k + 1]
  BY <1>3, <1>4, HeadTailProperties DEF Texts
<1> HIDE DEF r
<1>8. Len(r) = Len(x) /\ \A k \in 1 .. Len(r) : r[k] = x[k]
  BY <1>2, <1>3, <1>6, <1>7
<1>9. r = x
  BY <1>7, <1>8, SeqEqual DEF Texts
<1>10. s \in Texts /\ t \in Texts /\ t # <<>> /\ Len(t) = Len(x) + 1 /\ t[1] = c /\ Tail(t) = x
  BY <1>1, <1>2, <1>3, <1>4, <1>5, <1>9 DEF r
<1> QED BY <1>2, <1>6, <1>10 DEF s, t

\* The first character and the others.
LEMMA FrontAndRest ==
  ASSUME NEW t \in Texts, t # <<>>
  PROVE  t[1] \in Handed /\ Tail(t) \in Texts /\ t = <<t[1]>> \o Tail(t)
<1> DEFINE r == Tail(t)
           c == t[1]
           s == <<c>> \o r
<1>1. Len(t) \in Nat \ {0} /\ r \in Texts /\ Len(r) = Len(t) - 1
      /\ \A k \in 1 .. Len(r) : r[k] = t[k + 1]
  BY HeadTailProperties, EmptySeq DEF Texts
<1>2. c \in Handed
  <2>1. 1 \in 1 .. Len(t) BY <1>1
  <2> QED BY <2>1, ElementOfSeq DEF Texts
<1> HIDE DEF r, c
<1>3. s \in Texts /\ Len(s) = Len(r) + 1 /\ s[1] = c /\ \A k \in 1 .. Len(r) : s[k + 1] = r[k]
  BY <1>1, <1>2, InFront
<1> HIDE DEF s
<1>4. \A k \in 1 .. Len(s) : s[k] = t[k]
  <2> TAKE k \in 1 .. Len(s)
  <2>1. CASE k = 1 BY <2>1, <1>3 DEF c
  <2>2. CASE k # 1
    <3>1. k - 1 \in 1 .. Len(r) /\ (k - 1) + 1 = k BY <1>1, <1>3, <2>2
    <3> QED BY <1>1, <1>3, <3>1
  <2> QED BY <2>1, <2>2
<1>5. s = t
  BY <1>1, <1>3, <1>4, SeqEqual DEF Texts
<1> QED BY <1>1, <1>2, <1>5 DEF s, r, c

\* What is kept of a whole part: digits, and a whole part again.
LEMMA LeadAgain ==
  ASSUME NEW w \in Texts, NEW y \in Texts, Whole(w, "Decimal"), Lead(y, Plain(w))
  PROVE  /\ y \in Seq(Decimals) /\ y # <<>> /\ Whole(y, "Decimal") /\ Plain(y) = y
         /\ y[1] \in Decimals /\ NoZeros(Plain(w)) = NoZeros(y)
<1> DEFINE v == Plain(w)
<1>1. "Decimal" \in Bases /\ DigitsLeft("Decimal") = Decimals
  BY BaseFacts DEF Bases
<1>2. v \in Seq(Decimals)
  BY <1>1, WholeLeft DEF Texts
<1> HIDE DEF v
<1>3. y # <<>> /\ (v = y \/ v = <<"0">> \o y)
  BY DEF Lead, v
<1>4. ASSUME v = y PROVE y \in Seq(Decimals)
  BY <1>2, <1>4
<1>5. ASSUME v = <<"0">> \o y PROVE y \in Seq(Decimals)
  <2>1. Len(v) = Len(y) + 1 /\ Len(y) \in Nat /\ \A k \in 1 .. Len(y) : v[k + 1] = y[k]
    BY <1>5, InFront, DecimalsHanded
  <2>2. \A k \in 1 .. Len(y) : y[k] \in Decimals
    <3> TAKE k \in 1 .. Len(y)
    <3>1. k + 1 \in 1 .. Len(v) BY <2>1
    <3>2. v[k + 1] \in Decimals BY <1>2, <3>1, ElementOfSeq
    <3> QED BY <2>1, <3>2
  <2>3. y = [k \in 1 .. Len(y) |-> y[k]]
    BY LenProperties DEF Texts
  <2>4. [k \in 1 .. Len(y) |-> y[k]] \in Seq(Decimals)
    BY <2>1, <2>2, IsASeq
  <2> QED BY <2>3, <2>4
<1>6. y \in Seq(Decimals)
  BY <1>3, <1>4, <1>5
<1>7. y \in Seq(Figures) /\ Whole(y, "Decimal") /\ Plain(y) = y /\ y[1] \in Decimals
  BY <1>1, <1>3, <1>6, DigitsWhole
<1>8. NoZeros(Plain(w)) = NoZeros(y)
  BY <1>7, LeadNoZeros
<1> QED BY <1>3, <1>6, <1>7, <1>8

\* What is left of a fraction: a fraction again, of a point and digits.
LEMMA FractionAgain ==
  ASSUME NEW f \in Texts, IsFraction(f)
  PROVE  /\ Plain(f) \in Texts /\ IsFraction(Plain(f)) /\ Plain(Plain(f)) = Plain(f)
         /\ f = <<>> => Plain(f) = <<>>
         /\ f # <<>> => \E d \in Seq(Decimals) : d # <<>> /\ Plain(f) = <<".">> \o d
<1>1. Plain(f) \in Texts /\ Plain(Plain(f)) = Plain(f)
  BY KeptType, PlainType, PlainAgain DEF Texts
<1>2. CASE f = <<>>
  BY <1>1, <1>2, PlainEmpty DEF IsFraction
<1>3. CASE f # <<>>
  <2> DEFINE d == Plain(Tail(f))
  <2>1. /\ f[1] = "." /\ Tail(f) \in Texts /\ Whole(Tail(f), "Decimal")
        /\ f = <<".">> \o Tail(f)
    BY <1>3, FrontAndRest DEF IsFraction
  <2>2. <<".">> \in Texts /\ Plain(<<".">>) = <<".">>
    BY DecimalsHanded, PlainOfOne DEF One, Upper
  <2>3. Plain(f) = <<".">> \o d
    BY <2>1, <2>2, PlainConcat DEF Texts
  <2>4. "Decimal" \in Bases /\ DigitsLeft("Decimal") = Decimals
    BY BaseFacts DEF Bases
  <2>5. d \in Seq(Decimals) /\ d # <<>>
    BY <2>1, <2>4, WholeLeft DEF Texts
  <2> HIDE DEF d
  <2>6. d \in Texts /\ Whole(d, "Decimal")
    BY <2>4, <2>5, DigitsWhole DEF Texts
  <2>7. Plain(f)[1] = "." /\ Tail(Plain(f)) = d /\ Plain(f) # <<>>
    BY <2>3, <2>6, InFront, DecimalsHanded
  <2>8. IsFraction(Plain(f))
    BY <2>6, <2>7 DEF IsFraction
  <2> QED BY <1>1, <1>3, <2>3, <2>5, <2>8
<1> QED BY <1>2, <1>3

\* What is kept of a power: a power again, of an E, a sign and digits.
LEMMA PowerAgain ==
  ASSUME NEW p \in Texts, IsPower(p)
  PROVE  /\ KeptPower(p) \in Texts /\ IsPower(KeptPower(p)) /\ Power(KeptPower(p)) = Power(p)
         /\ p = <<>> => KeptPower(p) = <<>>
         /\ p # <<>> => \E s \in Signs : \E d \in Seq(Decimals) :
                          d # <<>> /\ KeptPower(p) = <<"E">> \o (<<s>> \o d)
<1>1. KeptPower(p) \in Texts
  BY PowerType
<1>2. CASE p = <<>>
  BY <1>1, <1>2 DEF KeptPower, IsPower, Power
<1>3. CASE p # <<>>
  <2> DEFINE v == Unsigned(Tail(p))
             d == Plain(v)
             s == IF p[2] = "-" THEN "-" ELSE "+"
             r == <<s>> \o d
             k == <<"E">> \o r
  <2>1. v \in Texts /\ Whole(v, "Decimal")
    BY <1>3, PowerType
  <2>2. "Decimal" \in Bases /\ DigitsLeft("Decimal") = Decimals
    BY BaseFacts DEF Bases
  <2>3. d \in Seq(Decimals) /\ d # <<>>
    BY <2>1, <2>2, WholeLeft DEF Texts
  <2>4. Power(p) = r
    BY <1>3 DEF Power
  <2>5. KeptPower(p) = k
    BY <1>3, <2>4 DEF KeptPower
  <2>6. s \in Signs /\ (IF s = "-" THEN <<"-">> ELSE <<"+">>) = <<s>>
    BY DEF Signs
  <2> HIDE DEF v, d, s
  <2>7. d \in Texts /\ Whole(d, "Decimal") /\ Plain(d) = d
    BY <2>2, <2>3, DigitsWhole DEF Texts
  <2>8. r \in Texts /\ r # <<>> /\ r[1] = s /\ Tail(r) = d /\ Len(r) = Len(d) + 1 /\ Len(d) \in Nat
    BY <2>6, <2>7, InFront, DecimalsHanded
  <2>9. Unsigned(r) = d
    BY <2>6, <2>8 DEF Unsigned
  <2> HIDE DEF r
  <2>10. k \in Texts /\ k # <<>> /\ k[1] = "E" /\ Tail(k) = r /\ k[2] = s
    <3>1. /\ k \in Texts /\ k # <<>> /\ k[1] = "E" /\ Tail(k) = r
          /\ \A i \in 1 .. Len(r) : k[i + 1] = r[i]
      BY <2>8, InFront, DecimalsHanded
    <3>2. 1 \in 1 .. Len(r) /\ 1 + 1 = 2 BY <2>8
    <3>3. k[2] = r[1] BY <3>1, <3>2
    <3> QED BY <2>8, <3>1, <3>3
  <2> HIDE DEF k
  <2>11. IsPower(k)
    BY <2>7, <2>9, <2>10 DEF IsPower
  <2>12. Power(k) = <<s>> \o d
    BY <2>6, <2>7, <2>9, <2>10 DEF Power
  <2> QED BY <1>1, <1>3, <2>3, <2>4, <2>5, <2>6, <2>11, <2>12 DEF r, k
<1> QED BY <1>2, <1>3

-----------------------------------------------------------------------------
(* Signs.                                                                  *)

\* What is pushed for the sign of what was read.
Sign(t) == IF t # <<>> /\ t[1] = "-" THEN <<"-">> ELSE <<>>

LEMMA FirstOf ==
  ASSUME NEW r \in Texts, NEW x \in Texts, r # <<>>
  PROVE  r \o x \in Texts /\ r \o x # <<>> /\ (r \o x)[1] = r[1]
<1>1. Len(r) \in Nat \ {0} /\ Len(x) \in Nat
  BY EmptySeq, LenProperties DEF Texts
<1> DEFINE t == r \o x
<1>2. /\ t \in Texts /\ Len(t) = Len(r) + Len(x)
      /\ \A k \in 1 .. Len(r) + Len(x) : t[k] = IF k <= Len(r) THEN r[k] ELSE x[k - Len(r)]
  BY ConcatProperties DEF Texts
<1>3. t # <<>>
  BY <1>1, ConcatEqualIffEmpty DEF Texts
<1> HIDE DEF t
<1>4. 1 \in 1 .. Len(r) + Len(x) /\ 1 <= Len(r)
  BY <1>1
<1>5. t[1] = r[1]
  BY <1>2, <1>4
<1> QED BY <1>2, <1>3, <1>5 DEF t

LEMMA SignIs ==
  ASSUME NEW t \in Texts, NEW x \in Texts, x # <<>>, x[1] \notin Signs,
         NEW s, s = Sign(t) \o x
  PROVE  /\ s \in Texts /\ s # <<>> /\ Unsigned(s) = x
         /\ s[1] = "-" <=> t # <<>> /\ t[1] = "-"
         /\ s[1] = "-" => Tail(s) = x
         /\ s[1] # "-" => s = x
<1>1. CASE t # <<>> /\ t[1] = "-"
  <2>1. s = <<"-">> \o x BY <1>1 DEF Sign
  <2>2. "-" \in Handed /\ "-" \in Signs BY DecimalsHanded DEF Signs
  <2>3. s \in Texts /\ s # <<>> /\ s[1] = "-" /\ Tail(s) = x BY <2>1, <2>2, InFront
  <2> QED BY <1>1, <2>2, <2>3 DEF Unsigned
<1>2. CASE ~(t # <<>> /\ t[1] = "-")
  <2>1. s = <<>> \o x BY <1>2 DEF Sign
  <2>2. s = x BY <2>1, Joined
  <2>3. "-" \in Signs BY DEF Signs
  <2> QED BY <1>2, <2>2, <2>3 DEF Unsigned
<1> QED BY <1>1, <1>2

\* The sign is told from the text.
LEMMA BodyIs ==
  ASSUME NEW x \in Texts, read \in Texts, x # <<>>, x[1] \notin Signs, text = Sign(read) \o x
  PROVE  /\ Negative <=> read # <<>> /\ read[1] = "-"
         /\ Body = x
         /\ Display = (Sign(read) \o Prefix(tag)) \o x
<1>1. /\ text # <<>>
      /\ text[1] = "-" <=> read # <<>> /\ read[1] = "-"
      /\ text[1] = "-" => Tail(text) = x
      /\ text[1] # "-" => text = x
  BY SignIs
<1>2. (Negative <=> text[1] = "-") /\ Body = x
  BY <1>1 DEF Negative, Body
<1>3. (IF Negative THEN <<"-">> ELSE <<>>) = Sign(read)
  BY <1>1, <1>2 DEF Sign
<1> QED BY <1>1, <1>2, <1>3 DEF Display

-----------------------------------------------------------------------------
(* A number that is finished.                                              *)

BasedKept(b, u, x) == \E l \in Letters : \E w \in Texts :
  b = BaseOf(l) /\ u = <<"0", l>> \o w /\ Whole(w, b) /\ x = Plain(w)

\* y is kept of the whole part w, behind it the fraction f and the power p.
Parts(u, x, w, f, p, y) ==
  /\ u = (w \o f) \o p /\ Whole(w, "Decimal") /\ IsFraction(f) /\ IsPower(p)
  /\ Lead(y, Plain(w)) /\ x = (y \o Plain(f)) \o KeptPower(p)

DecimalKept(float, u, x) == \E w, f, p, y \in Texts :
  Parts(u, x, w, f, p, y) /\ (float <=> f # <<>> \/ p # <<>>)

NumberKept(float, b, u, x) ==
  \/ ~float /\ BasedKept(b, u, x)
  \/ b = "Decimal" /\ DecimalKept(float, u, x)

LEMMA ZeroDone == NumberKept(FALSE, "Decimal", <<"0">>, <<"0">>)
<1> DEFINE z == <<"0">>
           e == <<>>
<1>1. z \in Texts /\ Whole(z, "Decimal") /\ Lead(z, Plain(z)) /\ e \in Texts
  BY ZeroKept, DecimalsHanded, KeptType
<1>2. Plain(e) = e /\ KeptPower(e) = e /\ IsFraction(e) /\ IsPower(e)
  BY PlainEmpty DEF KeptPower, IsFraction, IsPower
<1>3. e = <<>>
  OBVIOUS
<1> HIDE DEF z, e
<1>4. z \o e = z
  BY <1>1, <1>3, Joined
<1>5. Parts(z, z, z, e, e, z)
  BY <1>1, <1>2, <1>4 DEF Parts
<1>6. DecimalKept(FALSE, z, z)
  BY <1>1, <1>3, <1>5 DEF DecimalKept
<1> QED BY <1>6 DEF NumberKept, z

LEMMA KeptDone ==
  ASSUME NEW u \in Texts, NEW x \in Texts, NEW q \in {"Value", "Fraction", "Exponent"}, NEW b,
         Kept(q, b, u, x)
  PROVE  NumberKept(q \in {"Fraction", "Exponent"}, b, u, x)
<1> DEFINE e == <<>>
<1>0. e \in Texts /\ Plain(e) = e /\ KeptPower(e) = e /\ IsFraction(e) /\ IsPower(e)
      /\ \A r \in Texts : r \o e = r
  BY KeptType, Joined, PlainEmpty DEF KeptPower, IsFraction, IsPower
<1>1. e = <<>>
  OBVIOUS
<1> HIDE DEF e
<1>2. CASE q = "Value"
  <2>1. KeptWhole(b, u, x) BY <1>2 DEF Kept
  <2>2. CASE BasedKept(b, u, x) BY <1>2, <2>2 DEF NumberKept
  <2>3. CASE b = "Decimal" /\ Whole(u, b) /\ Lead(x, Plain(u))
    <3>1. Parts(u, x, u, e, e, x) BY <1>0, <2>3 DEF Parts
    <3>2. DecimalKept(q \in {"Fraction", "Exponent"}, u, x) BY <1>0, <1>1, <1>2, <3>1 DEF DecimalKept
    <3> QED BY <2>3, <3>2 DEF NumberKept
  <2> QED BY <2>1, <2>2, <2>3 DEF KeptWhole, BasedKept
<1>3. CASE q = "Fraction"
  <2>1. b = "Decimal" /\ Fractional(u, x) BY <1>3 DEF Kept
  <2>2. PICK w, f, y \in Texts : f # <<>> /\ Keeps(u, x, w, f, y)
    BY <2>1 DEF Fractional
  <2>3. u \o e = u /\ x \o e = x BY <1>0
  <2>4. Parts(u, x, w, f, e, y) BY <1>0, <2>2, <2>3 DEF Parts, Keeps
  <2>5. DecimalKept(TRUE, u, x) BY <1>0, <2>2, <2>4 DEF DecimalKept
  <2> QED BY <1>3, <2>1, <2>5 DEF NumberKept
<1>4. CASE q = "Exponent"
  <2>1. b = "Decimal" /\ Powered(u, x) BY <1>4 DEF Kept
  <2>2. PICK m, z, p \in Texts :
          u = m \o p /\ KeptMantissa(m, z) /\ p # <<>> /\ IsPower(p) /\ x = z \o KeptPower(p)
    BY <2>1 DEF Powered
  <2>3. PICK w, f, y \in Texts : Keeps(m, z, w, f, y)
    BY <2>2 DEF KeptMantissa
  <2>4. Parts(u, x, w, f, p, y) BY <2>2, <2>3 DEF Parts, Keeps
  <2>5. DecimalKept(TRUE, u, x) BY <2>2, <2>4 DEF DecimalKept
  <2> QED BY <1>4, <2>1, <2>5 DEF NumberKept
<1> QED BY <1>2, <1>3, <1>4

\* The text of a decimal number means what was read.
LEMMA PartsFacts ==
  ASSUME NEW u, NEW x, NEW w \in Texts, NEW f \in Texts, NEW p \in Texts, NEW y \in Texts,
         Parts(u, x, w, f, p, y)
  PROVE  /\ x \in Texts /\ x # <<>> /\ x[1] \notin Signs /\ u \in Texts /\ u # <<>>
         /\ y \o Plain(f) \in Texts /\ Plain(f) \in Texts /\ KeptPower(p) \in Texts
<1>1. y # <<>> /\ y[1] \in Decimals /\ Plain(f) \in Texts /\ KeptPower(p) \in Texts
  BY LeadAgain, FractionAgain, PowerAgain DEF Parts
<1>2. /\ y \o Plain(f) \in Texts /\ y \o Plain(f) # <<>> /\ (y \o Plain(f))[1] = y[1]
  BY <1>1, FirstOf
<1>3. x \in Texts /\ x # <<>> /\ x[1] = y[1]
  BY <1>1, <1>2, FirstOf DEF Parts
<1>4. Decimals \cap Signs = {}
  BY DEF Decimals, Signs
<1>5. w # <<>>
  BY DEF Parts, Whole
<1>6. w \o f \in Texts /\ w \o f # <<>>
  BY <1>5, FirstOf
<1>7. u \in Texts /\ u # <<>>
  BY <1>6, FirstOf DEF Parts
<1> QED BY <1>1, <1>2, <1>3, <1>4, <1>7

LEMMA DecimalMeans ==
  ASSUME NEW t \in Texts, NEW u, u = Unsigned(t), NEW x, NEW float, DecimalKept(float, u, x),
         NEW s, s = Sign(t) \o x
  PROVE  Meanings(s) = Meanings(t)
<1>1. PICK w, f, p, y \in Texts : Parts(u, x, w, f, p, y)
  BY DEF DecimalKept
<1> DEFINE g == Plain(f)
           k == KeptPower(p)
<1>2. x \in Texts /\ x # <<>> /\ x[1] \notin Signs /\ u # <<>> /\ g \in Texts /\ k \in Texts
  BY <1>1, PartsFacts
<1>3. s \in Texts /\ s # <<>> /\ Unsigned(s) = x /\ (s[1] = "-" <=> t # <<>> /\ t[1] = "-")
  BY <1>2, SignIs
<1>4. Whole(w, "Decimal") /\ IsFraction(f) /\ IsPower(p) /\ u = (w \o f) \o p /\ x = (y \o g) \o k
      /\ Lead(y, Plain(w))
  BY <1>1 DEF Parts
<1>5. Meanings(t) = {Meaning(t, "Decimal", w, f, p)}
  <2>1. Unsigned(t) = (w \o f) \o p BY <1>4
  <2>2. t \in Seq(Handed) /\ w \in Seq(Handed) /\ f \in Seq(Handed) /\ p \in Seq(Handed) BY DEF Texts
  <2> QED BY <1>4, <2>1, <2>2, PartsMeaning
<1>6. Whole(y, "Decimal") /\ Plain(y) = y /\ NoZeros(Plain(w)) = NoZeros(y)
  BY <1>4, LeadAgain
<1>7. IsFraction(g) /\ Plain(g) = g
  BY <1>4, FractionAgain
<1>8. IsPower(k) /\ Power(k) = Power(p)
  BY <1>4, PowerAgain
<1> HIDE DEF g, k
<1>9. Meanings(s) = {Meaning(s, "Decimal", y, g, k)}
  <2>1. Unsigned(s) = (y \o g) \o k BY <1>3, <1>4
  <2>2. s \in Seq(Handed) /\ y \in Seq(Handed) /\ g \in Seq(Handed) /\ k \in Seq(Handed)
    BY <1>2, <1>3 DEF Texts
  <2> QED BY <1>6, <1>7, <1>8, <2>1, <2>2, PartsMeaning
<1>10. t # <<>>
  BY <1>2 DEF Unsigned
<1>11. s[1] = "-" <=> t[1] = "-"
  BY <1>3, <1>10
<1>12. Meaning(s, "Decimal", y, g, k) = Meaning(t, "Decimal", w, f, p)
  BY <1>6, <1>7, <1>8, <1>11 DEF Meaning, g
<1> QED BY <1>5, <1>9, <1>12

\* The text of another number, with the base in front, as well.
LEMMA BasedFacts ==
  ASSUME NEW l \in Letters, NEW w \in Texts, Whole(w, BaseOf(l))
  PROVE  LET b == BaseOf(l)
             d == Plain(w)
             z == <<"0", l>>
         IN  /\ b \in Bases /\ d \in Seq(DigitsLeft(b)) /\ d \in Texts /\ d # <<>>
             /\ Whole(d, b) /\ Plain(d) = d /\ d[1] \notin Signs
             /\ z \in Texts /\ z \o d \in Texts /\ z \o d # <<>> /\ (z \o d)[1] \notin Signs
<1> DEFINE b == BaseOf(l)
           d == Plain(w)
           z == <<"0", l>>
<1>1. b \in Bases /\ DigitsLeft(b) \cap Signs = {}
  <2>1. b \in Bases BY BaseFacts
  <2>2. Figures \cap Signs = {"+", "-"} BY DEF Figures, Handed, Signs
  <2>3. \A c \in Bases : Digits(c) \cap Signs = {}
    BY DEF Bases, Digits, Signs, Hexes, Decimals
  <2> QED BY <2>1, <2>3 DEF DigitsLeft
<1>2. d \in Seq(DigitsLeft(b)) /\ d # <<>>
  BY <1>1, WholeLeft DEF Texts
<1> HIDE DEF b, d
<1>3. d \in Texts /\ Whole(d, b) /\ Plain(d) = d /\ d[1] \in DigitsLeft(b)
  BY <1>1, <1>2, DigitsWhole DEF Texts
<1>4. z \in Texts /\ z # <<>> /\ z[1] = "0"
  BY DecimalsHanded DEF Texts
<1> HIDE DEF z
<1>5. z \o d \in Texts /\ z \o d # <<>> /\ (z \o d)[1] = "0"
  BY <1>3, <1>4, FirstOf
<1>6. "0" \notin Signs
  BY DEF Signs
<1> QED BY <1>1, <1>2, <1>3, <1>4, <1>5, <1>6 DEF z, d, b

\* x is kept of w, which was read behind a zero and the letter l.
BasedParts(b, u, x, l, w) == b = BaseOf(l) /\ u = <<"0", l>> \o w /\ Whole(w, b) /\ x = Plain(w)

BasedText(s, t, l, x) == s = (Sign(t) \o <<"0", l>>) \o x

LEMMA BasedMeans ==
  ASSUME NEW t \in Texts, NEW l \in Letters, NEW w \in Texts, NEW c, NEW x,
         BasedParts(c, Unsigned(t), x, l, w),
         NEW s, BasedText(s, t, l, x)
  PROVE  Meanings(s) = Meanings(t)
<1> DEFINE b == BaseOf(l)
           z == <<"0", l>>
           r == z \o x
           u == Unsigned(t)
<1>0. /\ u = <<"0", l>> \o w /\ Whole(w, b) /\ x = Plain(w) /\ c = b
      /\ s = (Sign(t) \o <<"0", l>>) \o x
  BY DEF BasedParts, BasedText
<1>1. /\ x \in Texts /\ Whole(x, b) /\ Plain(x) = x /\ z \in Texts
      /\ r \in Texts /\ r # <<>> /\ r[1] \notin Signs
  BY <1>0, BasedFacts
<1>2. Sign(t) \in Texts
  BY DecimalsHanded, KeptType DEF Sign, Texts, Signs
<1>3. s = Sign(t) \o r
  <2> HIDE DEF z
  <2>1. s = (Sign(t) \o z) \o x BY <1>0 DEF z
  <2> QED BY <1>1, <1>2, <2>1, Rejoined
<1>4. s \in Texts /\ s # <<>> /\ Unsigned(s) = r /\ (s[1] = "-" <=> t # <<>> /\ t[1] = "-")
  <2>1. r \in Texts /\ r # <<>> /\ r[1] \notin Signs BY <1>1
  <2>2. s = Sign(t) \o r BY <1>3
  <2> HIDE DEF r
  <2> QED BY <2>1, <2>2, SignIs
<1>5. Meanings(t) = {Meaning(t, b, w, <<>>, <<>>)}
  BY <1>0, BasedMeaning DEF Texts
<1>6. Meanings(s) = {Meaning(s, b, x, <<>>, <<>>)}
  BY <1>1, <1>4, BasedMeaning DEF Texts
<1>7. t # <<>>
  <2>1. z # <<>> /\ w \in Texts OBVIOUS
  <2>2. u # <<>>
    <3> HIDE DEF z
    <3>1. z \o w # <<>> BY <1>1, <2>1, FirstOf
    <3> QED BY <3>1, <1>0 DEF z
  <2> QED BY <2>2 DEF Unsigned
<1>8. s[1] = "-" <=> t[1] = "-"
  BY <1>4, <1>7
<1>9. Meaning(s, b, x, <<>>, <<>>) = Meaning(t, b, w, <<>>, <<>>)
  BY <1>0, <1>1, <1>8 DEF Meaning
<1> QED BY <1>5, <1>6, <1>9

-----------------------------------------------------------------------------
(* What Description promises.                                              *)

\* t is r and s put together.
Is(t, r, s) == t = r \o s

LEMMA IsParts ==
  ASSUME NEW r \in Texts, NEW s \in Texts, NEW t, Is(t, r, s)
  PROVE  /\ t \in Texts /\ Len(r) \in Nat /\ Len(s) \in Nat /\ Len(t) = Len(r) + Len(s)
         /\ \A k \in 1 .. Len(r) + Len(s) : t[k] = IF k <= Len(r) THEN r[k] ELSE s[k - Len(r)]
         /\ SubSeq(t, 1, Len(r)) = r /\ SubSeq(t, Len(r) + 1, Len(t)) = s
<1>1. Len(r) \in Nat /\ Len(s) \in Nat
  BY LenProperties DEF Texts
<1>2. r \o s \in Seq(Handed) /\ Len(r \o s) = Len(r) + Len(s)
  BY ConcatProperties DEF Texts
<1>3. \A k \in 1 .. Len(r) + Len(s) :
        (r \o s)[k] = IF k <= Len(r) THEN r[k] ELSE s[k - Len(r)]
  BY ConcatProperties DEF Texts
<1>4. SubSeq(r \o s, 1, Len(r)) = r
  BY FirstPart DEF Texts
<1>5. SubSeq(r \o s, Len(r) + 1, Len(r \o s)) = s
  BY LastPart DEF Texts
<1> DEFINE v == r \o s
<1>6. t = v
  BY DEF Is
<1>7. /\ v \in Seq(Handed) /\ Len(v) = Len(r) + Len(s)
      /\ \A k \in 1 .. Len(r) + Len(s) : v[k] = IF k <= Len(r) THEN r[k] ELSE s[k - Len(r)]
      /\ SubSeq(v, 1, Len(r)) = r /\ SubSeq(v, Len(r) + 1, Len(v)) = s
  BY <1>2, <1>3, <1>4, <1>5
<1> HIDE DEF v
<1> QED BY <1>1, <1>6, <1>7 DEF Texts

LEMMA IsElement ==
  ASSUME NEW r \in Texts, NEW s \in Texts, NEW t, Is(t, r, s), NEW k \in 1 .. Len(t)
  PROVE  t[k] = IF k <= Len(r) THEN r[k] ELSE s[k - Len(r)]
BY IsParts

LEMMA IsMiddle ==
  ASSUME NEW r \in Texts, NEW s \in Texts, NEW q \in Texts, NEW m, Is(m, r, s), NEW t, Is(t, m, q)
  PROVE  SubSeq(t, 1, Len(r)) = r /\ SubSeq(t, Len(r) + 1, Len(m)) = s
<1> DEFINE v == r \o s
           w == v \o q
<1>1. m = v /\ t = w
  BY DEF Is
<1>2. SubSeq(w, 1, Len(r)) = r /\ SubSeq(w, Len(r) + 1, Len(v)) = s
  BY MiddlePart DEF Texts
<1> HIDE DEF v, w
<1> QED BY <1>1, <1>2

LEMMA IsAgain ==
  ASSUME NEW r \in Texts, NEW s \in Texts, NEW q \in Texts,
         NEW sq, Is(sq, s, q), NEW t, Is(t, r, sq), NEW v, Is(v, r, s)
  PROVE  Is(t, v, q)
BY Rejoined DEF Is

\* A text between two others: t is r, z and d, and v ends with z.
LEMMA Behind ==
  ASSUME NEW r \in Texts, NEW z \in Texts, z # <<>>, NEW d \in Texts,
         NEW zd, Is(zd, z, d), NEW t, Is(t, r, zd), NEW v, Is(v, r, z)
  PROVE  /\ t \in Texts /\ Is(t, v, d) /\ v \in Texts
         /\ Len(r) \in Nat /\ Len(d) \in Nat /\ Len(v) = Len(r) + Len(z)
         /\ Len(t) = Len(r) + Len(z) + Len(d) /\ t[Len(r) + 1] = z[1]
<1>0. Len(z) \in Nat \ {0}
  BY EmptySeq DEF Texts
<1>1. v \in Texts /\ Len(r) \in Nat /\ Len(v) = Len(r) + Len(z)
  BY IsParts
<1>2. Is(t, v, d)
  BY IsAgain
<1>3. t \in Texts /\ Len(d) \in Nat /\ Len(t) = Len(v) + Len(d)
  BY <1>1, <1>2, IsParts
<1>4. /\ Len(r) + 1 \in 1 .. Len(t) /\ Len(r) + 1 <= Len(v) /\ Len(r) + 1 \in 1 .. Len(v)
      /\ ~(Len(r) + 1 <= Len(r)) /\ (Len(r) + 1) - Len(r) = 1
  BY <1>0, <1>1, <1>3
<1>5. t[Len(r) + 1] = v[Len(r) + 1]
  BY <1>1, <1>2, <1>4, IsElement
<1>6. v[Len(r) + 1] = z[1]
  BY <1>4, IsElement
<1>7. Len(t) = Len(r) + Len(z) + Len(d)
  BY <1>1, <1>3
<1> QED BY <1>1, <1>2, <1>3, <1>5, <1>6, <1>7

LEMMA DigitsIntegral ==
  ASSUME NEW d \in Seq(Decimals), d # <<>>
  PROVE  Integral(d) /\ d \in Texts
<1>1. d \in Seq(Handed)
  BY DecimalsHanded, SeqMonotonic
<1>2. \A k \in 1 .. Len(d) : d[k] \in Decimals
  BY ElementOfSeq
<1>3. Range(d) \subseteq Decimals
  BY <1>1, <1>2, RangeOf
<1> QED BY <1>1, <1>3 DEF Integral, Texts

\* -?\d+(.\d+)?(E[+-]\d+)?, without the sign.
FloatAt(t, i, j) ==
  /\ i <= j
  /\ Integral(SubSeq(t, 1, i))
  /\ i = j \/ (t[i + 1] = "." /\ Integral(SubSeq(t, i + 2, j)))
  /\ \/ j = Len(t)
     \/ /\ j + 1 < Len(t) /\ t[j + 1] = "E" /\ t[j + 2] \in Signs
        /\ Integral(SubSeq(t, j + 3, Len(t)))

FloatText(t) == \E i, j \in 1 .. Len(t) : FloatAt(t, i, j)

\* A fraction behind digits.
LEMMA FractionAt ==
  ASSUME NEW y \in Texts, NEW d \in Seq(Decimals), d # <<>>, NEW k \in Texts,
         NEW g, Is(g, <<".">>, d), NEW m, Is(m, y, g), NEW t, Is(t, m, k)
  PROVE  /\ Len(y) < Len(m) /\ t[Len(y) + 1] = "." /\ Integral(SubSeq(t, Len(y) + 2, Len(m)))
<1>1. d \in Texts /\ Integral(d) /\ Len(d) \in Nat \ {0}
  BY DigitsIntegral, EmptySeq
<1> DEFINE dot == <<".">>
           v == y \o dot
<1>2. dot \in Texts /\ dot # <<>> /\ Is(v, y, dot) /\ Is(g, dot, d)
  BY DecimalsHanded DEF Texts, Is
<1>0. Len(dot) = 1 /\ dot[1] = "."
  OBVIOUS
<1> HIDE DEF dot, v
<1>3. /\ m \in Texts /\ Is(m, v, d) /\ v \in Texts /\ Len(y) \in Nat /\ Len(v) = Len(y) + 1
      /\ Len(m) = Len(y) + 1 + Len(d) /\ m[Len(y) + 1] = "."
  <2>1. /\ m \in Texts /\ Is(m, v, d) /\ v \in Texts /\ Len(y) \in Nat /\ Len(v) = Len(y) + Len(dot)
        /\ Len(m) = Len(y) + Len(dot) + Len(d) /\ m[Len(y) + 1] = dot[1]
    BY <1>1, <1>2, Behind
  <2> QED BY <1>0, <2>1
<1>4. SubSeq(t, Len(v) + 1, Len(m)) = d
  BY <1>1, <1>3, IsMiddle
<1>5. /\ Len(k) \in Nat
      /\ \A i \in 1 .. Len(m) + Len(k) : t[i] = IF i <= Len(m) THEN m[i] ELSE k[i - Len(m)]
  BY <1>3, IsParts
<1>6. Len(y) + 1 \in 1 .. Len(m) + Len(k) /\ Len(y) + 1 <= Len(m) /\ Len(v) + 1 = Len(y) + 2
  BY <1>1, <1>3, <1>5
<1>7. t[Len(y) + 1] = "."
  BY <1>3, <1>5, <1>6
<1>8. Integral(SubSeq(t, Len(y) + 2, Len(m)))
  BY <1>1, <1>4, <1>6
<1> QED BY <1>1, <1>3, <1>7, <1>8

\* A power behind a number.
LEMMA PowerAt ==
  ASSUME NEW m \in Texts, NEW s \in Signs, NEW d \in Seq(Decimals), d # <<>>,
         NEW r, Is(r, <<s>>, d), NEW k, Is(k, <<"E">>, r), NEW t, Is(t, m, k)
  PROVE  /\ Len(m) + 1 < Len(t) /\ t[Len(m) + 1] = "E" /\ t[Len(m) + 2] = s
         /\ Integral(SubSeq(t, Len(m) + 3, Len(t)))
<1>1. d \in Texts /\ Integral(d) /\ Len(d) \in Nat \ {0}
  BY DigitsIntegral, EmptySeq
<1> DEFINE e == <<"E">>
           z == <<s>>
           v == m \o e
           w == v \o z
<1>0. Len(e) = 1 /\ e[1] = "E" /\ Len(z) = 1 /\ z[1] = s
  OBVIOUS
<1>2. /\ e \in Texts /\ e # <<>> /\ z \in Texts /\ z # <<>>
      /\ Is(v, m, e) /\ Is(w, v, z) /\ Is(r, z, d) /\ Is(k, e, r)
  BY DecimalsHanded DEF Texts, Is
<1> HIDE DEF e, z, v, w
<1>3. r \in Texts
  BY <1>1, <1>2, IsParts
<1>4. /\ t \in Texts /\ Is(t, v, r) /\ v \in Texts /\ Len(m) \in Nat /\ Len(v) = Len(m) + 1
      /\ t[Len(m) + 1] = "E"
  <2>1. /\ t \in Texts /\ Is(t, v, r) /\ v \in Texts /\ Len(m) \in Nat /\ Len(v) = Len(m) + Len(e)
        /\ t[Len(m) + 1] = e[1]
    BY <1>2, <1>3, Behind
  <2> QED BY <1>0, <2>1
<1>5. /\ Is(t, w, d) /\ w \in Texts /\ Len(w) = Len(v) + 1
      /\ Len(t) = Len(v) + 1 + Len(d) /\ t[Len(v) + 1] = s
  <2>1. /\ Is(t, w, d) /\ w \in Texts /\ Len(w) = Len(v) + Len(z)
        /\ Len(t) = Len(v) + Len(z) + Len(d) /\ t[Len(v) + 1] = z[1]
    BY <1>1, <1>2, <1>4, Behind
  <2> QED BY <1>0, <2>1
<1>6. SubSeq(t, Len(w) + 1, Len(t)) = d
  BY <1>1, <1>5, IsParts
<1>7. Len(w) + 1 = Len(m) + 3 /\ Len(v) + 1 = Len(m) + 2 /\ Len(m) + 1 < Len(t)
  BY <1>1, <1>4, <1>5
<1>8. Integral(SubSeq(t, Len(m) + 3, Len(t)))
  BY <1>1, <1>6, <1>7
<1>9. t[Len(m) + 2] = s
  BY <1>5, <1>7
<1> QED BY <1>4, <1>7, <1>8, <1>9

LEMMA FloatDescribed ==
  ASSUME NEW u, NEW x, NEW float, DecimalKept(float, u, x)
  PROVE  FloatText(x)
<1>1. PICK w, f, p, y \in Texts : Parts(u, x, w, f, p, y)
  BY DEF DecimalKept
<1> DEFINE g == Plain(f)
           k == KeptPower(p)
           m == y \o g
<1>2. g \in Texts /\ k \in Texts /\ m \in Texts
  BY <1>1, PartsFacts
<1>3. /\ Whole(w, "Decimal") /\ IsFraction(f) /\ IsPower(p) /\ Lead(y, Plain(w))
      /\ Is(x, m, k) /\ Is(m, y, g)
  BY <1>1 DEF Parts, Is
<1>4. y \in Seq(Decimals) /\ y # <<>>
  BY <1>3, LeadAgain
<1>5. g = <<>> \/ \E d \in Seq(Decimals) : d # <<>> /\ Is(g, <<".">>, d)
  BY <1>3, FractionAgain DEF Is
<1>6. k = <<>> \/ \E s \in Signs : \E d \in Seq(Decimals) : \E r :
                    d # <<>> /\ Is(r, <<s>>, d) /\ Is(k, <<"E">>, r)
  <2>1. CASE p = <<>> BY <1>3, <2>1, PowerAgain
  <2>2. CASE p # <<>>
    <3>1. PICK s \in Signs, d \in Seq(Decimals) : d # <<>> /\ k = <<"E">> \o (<<s>> \o d)
      BY <1>3, <2>2, PowerAgain
    <3>2. Is(<<s>> \o d, <<s>>, d) /\ Is(k, <<"E">>, <<s>> \o d)
      BY <3>1 DEF Is
    <3> QED BY <3>1, <3>2
  <2> QED BY <2>1, <2>2
<1>0. (g = <<>> => m = y) /\ (k = <<>> => x = m)
  <2>1. y \o <<>> = y /\ m \o <<>> = m BY <1>2, Joined
  <2> QED BY <1>3, <2>1 DEF Is
<1> HIDE DEF g, k, m
<1> DEFINE i == Len(y)
           j == Len(m)
<1>7. Integral(SubSeq(x, 1, i))
  <2>1. SubSeq(x, 1, i) = y BY <1>2, <1>3, IsMiddle
  <2> QED BY <1>4, <2>1, DigitsIntegral
<1>8. i = j \/ (i < j /\ x[i + 1] = "." /\ Integral(SubSeq(x, i + 2, j)))
  <2>1. ASSUME NEW d \in Seq(Decimals), d # <<>>, Is(g, <<".">>, d)
        PROVE  i < j /\ x[i + 1] = "." /\ Integral(SubSeq(x, i + 2, j))
    BY <1>2, <1>3, <2>1, FractionAt
  <2> QED BY <1>0, <1>5, <2>1
<1>9. \/ j = Len(x)
      \/ /\ j + 1 < Len(x) /\ x[j + 1] = "E" /\ x[j + 2] \in Signs
         /\ Integral(SubSeq(x, j + 3, Len(x)))
  <2>1. ASSUME NEW s \in Signs, NEW d \in Seq(Decimals), NEW r,
               d # <<>>, Is(r, <<s>>, d), Is(k, <<"E">>, r)
        PROVE  /\ j + 1 < Len(x) /\ x[j + 1] = "E" /\ x[j + 2] \in Signs
               /\ Integral(SubSeq(x, j + 3, Len(x)))
    BY <1>2, <1>3, <2>1, PowerAt
  <2> QED BY <1>0, <1>6, <2>1
<1>10. i \in Nat \ {0} /\ j \in Nat /\ Len(x) = j + Len(k) /\ Len(k) \in Nat
  <2>1. i \in Nat \ {0} BY <1>4, EmptySeq
  <2> QED BY <1>2, <1>3, <2>1, IsParts
<1> HIDE DEF i, j
<1>11. i \in 1 .. Len(x) /\ j \in 1 .. Len(x) /\ i <= j
  BY <1>8, <1>10
<1>12. FloatAt(x, i, j)
  BY <1>7, <1>8, <1>9, <1>11 DEF FloatAt
<1> QED BY <1>11, <1>12 DEF FloatText

-----------------------------------------------------------------------------
(* The inductive invariant.                                                *)

Reads == \E x \in Texts : text = Sign(read) \o x /\ Kept(state, base, Unsigned(read), x)

KeptInv ==
  /\ read \in Texts /\ result \in {"none", "Number", "Err"}
  /\ result = "none" => stop = "none" /\ (state = "Start" => read = <<>>) /\ Reads
  /\ result = "Number" /\ stop # "none" =>
       /\ tag = Tag(base, Float)
       /\ \E x \in Texts : /\ text = Sign(read) \o x
                           /\ NumberKept(Float, base, Unsigned(read), x)
  /\ result = "Number" /\ stop = "none" =>
       /\ tag \in {"#", "f"}
       /\ ~OddFloats => \/ tag = "#" /\ text \in Infinite \union {<<"nan">>}
                        \/ tag = "f" /\ text \in PlainFloats

LEMMA KeptInvStarts == NumberInit => KeptInv
<1> SUFFICES ASSUME NumberInit PROVE KeptInv
  OBVIOUS
<1>1. <<>> \in Texts /\ <<>> \o <<>> = <<>> /\ Sign(<<>>) = <<>> /\ Unsigned(<<>>) = <<>>
  BY KeptType, Joined DEF Sign, Unsigned
<1>2. read = <<>> /\ text = <<>> /\ state = "Start" /\ base = "Decimal" /\ result = "none" /\ stop = "none"
  BY DEF NumberInit
<1>3. Kept(state, base, Unsigned(read), <<>>)
  BY <1>1, <1>2 DEF Kept
<1>4. Reads
  BY <1>1, <1>2, <1>3 DEF Reads
<1> QED BY <1>1, <1>2, <1>4 DEF KeptInv

\* The sign is the first character; another one after it is none.
LEMMA SignComesFirst ==
  ASSUME NEW t \in Texts, NEW c \in Handed
  PROVE  /\ t = <<>> /\ c \in Signs => /\ Unsigned(Append(t, c)) = <<>>
                                       /\ Sign(Append(t, c)) = IF c = "-" THEN <<"-">> ELSE <<>>
         /\ ~(t = <<>> /\ c \in Signs) => Sign(Append(t, c)) = Sign(t)
<1>1. ASSUME t = <<>>, c \in Signs
      PROVE  /\ Unsigned(Append(t, c)) = <<>>
             /\ Sign(Append(t, c)) = IF c = "-" THEN <<"-">> ELSE <<>>
  <2> DEFINE z == <<c>>
  <2>1. Append(t, c) = z BY <1>1
  <2>2. z # <<>> /\ z[1] = c /\ Tail(z) = <<>> OBVIOUS
  <2> HIDE DEF z
  <2> QED BY <1>1, <2>1, <2>2 DEF Unsigned, Sign
<1>2. ASSUME ~(t = <<>> /\ c \in Signs) PROVE Sign(Append(t, c)) = Sign(t)
  <2> DEFINE z == Append(t, c)
  <2>1. z # <<>> /\ Len(t) \in Nat /\ z[Len(t) + 1] = c /\ \A k \in 1 .. Len(t) : z[k] = t[k]
    BY AppendProperties, LenProperties DEF Texts
  <2>2. t # <<>> => Len(t) \in Nat \ {0} BY EmptySeq DEF Texts
  <2>3. t = <<>> => Len(t) = 0 OBVIOUS
  <2> HIDE DEF z
  <2>4. CASE t # <<>>
    <3>1. z[1] = t[1] BY <2>1, <2>2, <2>4
    <3> QED BY <2>1, <2>4, <3>1 DEF Sign, z
  <2>5. CASE t = <<>>
    <3>1. z[1] = c BY <2>1, <2>3, <2>5
    <3>2. c # "-" BY <1>2, <2>5 DEF Signs
    <3> QED BY <2>5, <3>1, <3>2 DEF Sign, z
  <2> QED BY <2>4, <2>5
<1> QED BY <1>1, <1>2

LEMMA ReadsOn ==
  ASSUME read \in Texts, Reads, state = "Start" => read = <<>>,
         NEW c \in Handed, NEW rule \in Rules, Accept(c, rule)
  PROVE  read' \in Texts /\ state' # "Start" /\ Reads'
<1> DEFINE q == state
           b == base
           q2 == rule.to
           b2 == IF rule.to = "ValueStart" THEN BaseOf(c) ELSE base
           push == rule.push
           u == Unsigned(read)
<1>1. /\ read' = Append(read, c) /\ state' = q2 /\ base' = b2 /\ text' = text \o Pushed(push, c)
      /\ Pushes(q, b, c, q2, b2, push)
  BY PushIs DEF Accept
<1>2. PICK x \in Texts : text = Sign(read) \o x /\ Kept(q, b, u, x)
  BY DEF Reads
<1>3. read' \in Texts /\ u \in Texts
  BY <1>1, AppendProperties, UnsignedIs DEF Texts
<1>4. Sign(read) \in Texts
  BY DecimalsHanded, KeptType DEF Sign, Texts, Signs
<1> HIDE DEF q, b, q2, b2, push, u
<1>5. q2 # "Start"
  BY <1>1 DEF Pushes
<1>6. CASE q2 = "Signed"
  <2>1. q = "Start" /\ b2 = b /\ c \in Signs /\ push = IF c = "-" THEN Char ELSE Nothing
    BY <1>1, <1>6 DEF Pushes, Signs
  <2>2. read = <<>> BY <2>1 DEF q
  <2>3. x = <<>> /\ b = "Decimal" BY <1>2, <2>1 DEF Kept
  <2>4. text = <<>>
    <3>1. Sign(read) = <<>> BY <2>2 DEF Sign
    <3> QED BY <1>2, <2>3, <3>1, KeptType, Joined
  <2>5. Unsigned(read') = <<>> /\ Sign(read') = IF c = "-" THEN <<"-">> ELSE <<>>
    BY <1>1, <2>1, <2>2, SignComesFirst
  <2>6. Pushed(push, c) = IF c = "-" THEN <<"-">> ELSE <<>>
    BY <2>1, PushedIs, UpperIs
  <2>7. Sign(read') \in Texts /\ <<>> \in Texts
    BY <2>5, DecimalsHanded, KeptType DEF Texts, Signs
  <2>8. text' = Sign(read') \o <<>>
    <3>1. text' = <<>> \o Sign(read') BY <1>1, <2>4, <2>5, <2>6
    <3>2. <<>> \o Sign(read') = Sign(read') /\ Sign(read') \o <<>> = Sign(read') BY <2>7, Joined
    <3> QED BY <3>1, <3>2
  <2>9. Kept(q2, b2, Unsigned(read'), <<>>)
    BY <1>6, <2>1, <2>3, <2>5 DEF Kept
  <2>10. Kept(state', base', Unsigned(read'), <<>>) /\ <<>> \in Texts
    BY <1>1, <2>7, <2>9
  <2>11. Reads'
    BY <2>8, <2>10 DEF Reads
  <2> QED BY <1>1, <1>3, <1>5, <2>11
<1>7. CASE q2 # "Signed"
  <2>1. ~(read = <<>> /\ c \in Signs)
    <3> SUFFICES ASSUME read = <<>>, c \in Signs PROVE FALSE
      OBVIOUS
    <3>1. c \notin Decimals /\ c \notin Letters /\ c # "underscore" /\ c # "." /\ c \notin Marks
          /\ c # "0" /\ c \notin NonZero
      BY DEF Signs, Decimals, Letters, Marks, NonZero
    <3>2. u = <<>> BY DEF u, Unsigned
    <3>3. b \in Bases
      BY <1>2, BaseFacts DEF Kept, KeptWhole, Bases
    <3>4. c \notin Digits(b)
      BY <3>3 DEF Bases, Digits, Signs, Hexes, Decimals
    <3>5. q = "ExponentStart"
      BY <1>1, <1>7, <3>1, <3>4 DEF Pushes
    <3>6. Marked(u, x) BY <1>2, <3>5 DEF Kept
    <3>7. PICK m \in Texts, a \in Marks : u = m \o <<a>> BY <3>6 DEF Marked
    <3>8. u # <<>> BY <3>7, LongerIs, DecimalsHanded
    <3> QED BY <3>2, <3>8
  <2>2. Unsigned(read') = u \o <<c>> /\ Sign(read') = Sign(read)
    <3>1. Unsigned(read') = Append(u, c) BY <1>1, <2>1, UnsignedLonger DEF u
    <3>2. Sign(read') = Sign(read) BY <1>1, <2>1, SignComesFirst
    <3>3. Append(u, c) = u \o <<c>> BY <1>3, LongerIs
    <3> QED BY <3>1, <3>2, <3>3
  <2> DEFINE more == Pushed(push, c)
             z == x \o more
  <2>3. Kept(q2, b2, u \o <<c>>, z)
    BY <1>1, <1>2, <1>3, <1>7, KeptGrows
  <2>4. more \in Texts
    <3>1. push \in {Nothing, Char, Zero, ZeroChar, PlusChar}
      BY <1>1, Z3T(30) DEF Pushes
    <3>2. "0" \in Handed /\ "E" \in Handed /\ "+" \in Handed /\ Upper(c) \in Handed
      BY DecimalsHanded DEF Upper, Signs
    <3>3. <<>> \in Texts /\ <<Upper(c)>> \in Texts /\ <<"0">> \in Texts /\ <<"0", Upper(c)>> \in Texts
          /\ <<"+">> \in Texts
      BY <3>2 DEF Texts
    <3>4. <<"+">> \o <<Upper(c)>> \in Texts
      BY <3>3, Joined
    <3> QED BY <3>1, <3>3, <3>4, PushedIs
  <2>5. z \in Texts /\ text' = Sign(read') \o z
    <3> HIDE DEF more
    <3>1. z \in Texts BY <2>4, Joined
    <3>2. text' = (Sign(read) \o x) \o more BY <1>1, <1>2 DEF more
    <3>3. (Sign(read) \o x) \o more = Sign(read) \o (x \o more) BY <1>4, <2>4, Rejoined
    <3> QED BY <2>2, <3>1, <3>2, <3>3
  <2> HIDE DEF z
  <2>6. Kept(state', base', Unsigned(read'), z)
    BY <1>1, <2>2, <2>3
  <2>7. Reads'
    BY <2>5, <2>6 DEF Reads
  <2> QED BY <1>1, <1>3, <1>5, <2>7
<1> QED BY <1>6, <1>7

LEMMA Finishes ==
  ASSUME read \in Texts, Reads, state \in FinalStates
  PROVE  \E x \in Texts :
           /\ (IF state = "MaybeBased" THEN Append(text, "0") ELSE text) = Sign(read) \o x
           /\ NumberKept(Float, base, Unsigned(read), x)
<1> DEFINE u == Unsigned(read)
<1>1. PICK x \in Texts : text = Sign(read) \o x /\ Kept(state, base, u, x)
  BY DEF Reads
<1>2. u \in Texts /\ Sign(read) \in Texts
  BY UnsignedIs, DecimalsHanded, KeptType DEF Sign, Texts, Signs
<1> HIDE DEF u
<1>3. CASE state = "MaybeBased"
  <2> DEFINE z == <<"0">>
  <2>1. base = "Decimal" /\ u = z /\ x = <<>> BY <1>1, <1>3 DEF Kept
  <2>2. z \in Texts /\ "0" \in Handed BY ZeroKept, DecimalsHanded
  <2>3. text = Sign(read) BY <1>1, <1>2, <2>1, Joined
  <2>4. Append(text, "0") = Sign(read) \o z BY <1>2, <2>2, <2>3, LongerIs
  <2>5. ~Float BY <1>3 DEF Float
  <2>6. NumberKept(Float, base, u, z)
    <3>1. \/ BasedKept(base, u, z) \/ (base = "Decimal" /\ DecimalKept(FALSE, u, z))
      BY <2>1, ZeroDone DEF NumberKept
    <3>2. Float = FALSE BY <2>5 DEF Float
    <3> QED BY <3>1, <3>2 DEF NumberKept
  <2> HIDE DEF z
  <2> QED BY <1>3, <2>2, <2>4, <2>6 DEF u
<1>4. CASE state \in {"Value", "Fraction", "Exponent"}
  <2>1. NumberKept(state \in {"Fraction", "Exponent"}, base, u, x)
    BY <1>1, <1>2, <1>4, KeptDone
  <2>2. NumberKept(Float, base, u, x) BY <2>1 DEF Float
  <2> QED BY <1>1, <1>4, <2>2 DEF u
<1> QED BY <1>3, <1>4 DEF FinalStates

LEMMA KeptInvStep ==
  ASSUME KeptInv, [NumberNext]_numberVars
  PROVE  KeptInv'
<1>1. ASSUME NEW char \in Handed, Read(char) PROVE KeptInv'
  <2>1. PICK rule \in Rules : Accept(char, rule)
    BY <1>1 DEF Read
  <2>2. result = "none" /\ result' = result /\ stop' = stop
    BY <1>1 DEF Read, ReadingNumber
  <2>3. read \in Texts /\ Reads /\ (state = "Start" => read = <<>>) /\ stop = "none"
    BY <2>2 DEF KeptInv
  <2>4. read' \in Texts /\ state' # "Start" /\ Reads'
    BY <2>1, <2>3, ReadsOn
  <2> QED BY <2>2, <2>3, <2>4 DEF KeptInv
<1>2. ASSUME NEW char \in Handed, Refuse(char) PROVE KeptInv'
  BY <1>2 DEF Refuse, KeptInv
<1>3. CASE Finish
  <2>1. read' = read /\ stop' = "end" /\ state' = state /\ base' = base /\ result = "none"
    BY <1>3 DEF Finish, ReadingNumber
  <2>2. read \in Texts /\ Reads
    BY <2>1 DEF KeptInv
  <2>3. CASE state \in FinalStates
    <3>1. /\ result' = "Number" /\ tag' = Tag(base, Float)
          /\ text' = IF state = "MaybeBased" THEN Append(text, "0") ELSE text
      BY <1>3, <2>3 DEF Finish
    <3>2. PICK x \in Texts : /\ text' = Sign(read) \o x
                             /\ NumberKept(Float, base, Unsigned(read), x)
      BY <2>2, <2>3, <3>1, Finishes
    <3>3. Float' = Float /\ tag' = Tag(base', Float')
      BY <2>1, <3>1 DEF Float
    <3>4. text' = Sign(read') \o x /\ NumberKept(Float', base', Unsigned(read'), x)
      BY <2>1, <3>2, <3>3
    <3> QED BY <2>1, <2>2, <3>1, <3>3, <3>4 DEF KeptInv
  <2>4. CASE state \notin FinalStates
    <3>1. result' = "Err" BY <1>3, <2>4 DEF Finish
    <3> QED BY <2>1, <2>2, <3>1 DEF KeptInv
  <2> QED BY <2>3, <2>4
<1>4. CASE RefuseTail
  BY <1>4 DEF RefuseTail, KeptInv
<1>5. CASE FromFloat
  <2>1. result' = "Number" /\ result = "none" /\ stop' = stop /\ read' = read
    BY <1>5 DEF FromFloat
  <2>2. stop' = "none" /\ read' \in Texts
    BY <2>1 DEF KeptInv
  <2>3. /\ tag' \in {"#", "f"}
        /\ ~OddFloats => \/ tag' = "#" /\ text' \in Infinite \union {<<"nan">>}
                         \/ tag' = "f" /\ text' \in PlainFloats
    BY <1>5 DEF FromFloat
  <2> QED BY <2>1, <2>2, <2>3 DEF KeptInv
<1>6. CASE FromSpecial
  <2>1. result' = "Number" /\ result = "none" /\ stop' = stop /\ read' = read
        /\ tag' = "#" /\ text' \in Infinite \union {<<"nan">>}
    BY <1>6 DEF FromSpecial, ReadingNumber
  <2>2. stop' = "none" /\ read' \in Texts
    BY <2>1 DEF KeptInv
  <2> QED BY <2>1, <2>2 DEF KeptInv
<1>7. CASE UNCHANGED numberVars
  <2>1. read' = read /\ result' = result /\ stop' = stop /\ state' = state /\ base' = base
        /\ text' = text /\ tag' = tag
    BY <1>7 DEF numberVars
  <2>2. (Reads' <=> Reads) /\ Float' = Float
    BY <2>1 DEF Reads, Float
  <2> QED BY <2>1, <2>2 DEF KeptInv
<1> QED BY <1>1, <1>2, <1>3, <1>4, <1>5, <1>6, <1>7 DEF NumberNext

-----------------------------------------------------------------------------
(* A finished number is kept as promised.                                  *)

LEMMA FloatIsDescribed ==
  ASSUME tag = "f", FloatText(Body)
  PROVE  Described
BY DEF Described, FloatText, FloatAt

LEMMA DigitsAreDescribed ==
  ASSUME tag \notin {"#", "f"}, Body \in Texts, Body # <<>>,
         NEW D, D \subseteq Digits(BaseTagged(tag)), Body \in Seq(D)
  PROVE  Described
<1> DEFINE t == Body
<1>1. \A k \in 1 .. Len(t) : t[k] \in D
  <2> HIDE DEF t
  <2>1. t \in Seq(D) BY DEF t
  <2> QED BY <2>1, ElementOfSeq
<1>2. Range(t) \subseteq D
  <2>1. t \in Seq(Handed) BY DEF Texts
  <2> HIDE DEF t
  <2> QED BY <1>1, <2>1, RangeOf
<1> QED BY <1>2 DEF Described

\* A printed float is digits, a point and digits.
LEMMA PrintedFloat ==
  ASSUME NEW a \in Decimals, NEW c \in Decimals
  PROVE  FloatText(<<a, ".", c>>) /\ <<a, ".", c>> \in Texts
<1> DEFINE w == <<a>>
           d == <<c>>
           dot == <<".">>
           f == <<".", c>>
           x == <<a, ".", c>>
           e == <<>>
<1>0. a \in Handed /\ c \in Handed /\ One(a) = w /\ One(c) = d
  BY DecimalsHanded, UpperIs DEF One, Decimals
<1>1. /\ w \in Texts /\ Whole(w, "Decimal") /\ Plain(w) = w /\ w # <<>>
      /\ d \in Texts /\ dot \in Texts /\ e \in Texts
  BY <1>0, PlainOfOne, WholeOfOne, DigitsAre, DecimalsHanded, KeptType
<1>2. f \in Texts /\ IsFraction(f) /\ f # <<>> /\ f = dot \o d /\ Plain(f) = dot \o d
  BY <1>0, FractionStarts
<1>3. x = (w \o dot) \o d
  <2>1. <<a, ".">> \o <<c>> = <<a, ".", c>> BY Triple
  <2>2. <<a>> \o <<".">> = <<a, ".">> BY Pair
  <2> QED BY <2>1, <2>2
<1>4. IsPower(e) /\ KeptPower(e) = e
  BY DEF IsPower, KeptPower
<1>5. e = <<>>
  OBVIOUS
<1> HIDE DEF w, d, dot, f, x, e
<1>6. x = w \o f
  BY <1>1, <1>2, <1>3, Rejoined
<1>7. x \in Texts /\ x = x \o e
  BY <1>1, <1>2, <1>5, <1>6, Joined
<1>8. Lead(w, Plain(w))
  BY <1>1 DEF Lead
<1>9. Parts(x, x, w, f, e, w)
  BY <1>1, <1>2, <1>4, <1>6, <1>7, <1>8 DEF Parts
<1>10. DecimalKept(TRUE, x, x)
  BY <1>1, <1>2, <1>9 DEF DecimalKept
<1> QED BY <1>7, <1>10, FloatDescribed DEF x

LEMMA PrintedFloats ==
  ASSUME tag = "f", text \in PlainFloats
  PROVE  Described
<1>1. \E a, c \in Decimals : Body = <<a, ".", c>>
  <2>1. CASE text = <<"0", ".", "0">>
    <3>1. Body = <<"0", ".", "0">> BY <2>1 DEF Body, Negative
    <3> QED BY <3>1 DEF Decimals
  <2>2. CASE text = <<"1", ".", "7">>
    <3>1. Body = <<"1", ".", "7">> BY <2>2 DEF Body, Negative
    <3> QED BY <3>1 DEF Decimals
  <2>3. CASE text = <<"-", "0", ".", "0">>
    <3>1. Negative BY <2>3 DEF Negative
    <3>2. Tail(text) = <<"0", ".", "0">> BY <2>3
    <3>3. Body = <<"0", ".", "0">> BY <3>1, <3>2 DEF Body
    <3> QED BY <3>3 DEF Decimals
  <2> QED BY <2>1, <2>2, <2>3 DEF PlainFloats
<1>2. PICK a, c \in Decimals : Body = <<a, ".", c>>
  BY <1>1
<1>3. FloatText(Body)
  BY <1>2, PrintedFloat
<1> QED BY <1>3, FloatIsDescribed

\* The letter that is a base's tag.
LEMMA TagIs ==
  /\ Tag("Decimal", TRUE) = "f"
  /\ Tag("Decimal", FALSE) = "d" /\ BaseTagged("d") = "Decimal" /\ Prefix("d") = <<>>
  /\ Prefix("f") = <<>>
  /\ \A l \in Letters : /\ Tag(BaseOf(l), FALSE) = l /\ BaseTagged(l) = BaseOf(l)
                        /\ Prefix(l) = <<"0", l>> /\ l \notin {"#", "f", "d"}
<1>1. Tag("Decimal", TRUE) = "f"
  BY DEF Tag
<1>2. Tag("Decimal", FALSE) = "d" /\ BaseTagged("d") = "Decimal"
  BY DEF Tag, BaseTagged
<1>3. Prefix("d") = <<>> /\ Prefix("f") = <<>>
  BY DEF Prefix
<1>4. \A l \in Letters : BaseTagged(l) = BaseOf(l)
  BY DEF Letters, BaseTagged, BaseOf
<1>5. \A l \in Letters : Tag(BaseOf(l), FALSE) = l
  BY DEF Letters, Tag, BaseOf
<1>6. \A l \in Letters : Prefix(l) = <<"0", l>>
  BY DEF Letters, Prefix
<1>7. \A l \in Letters : l \notin {"#", "f", "d"}
  BY DEF Letters
<1> QED BY <1>1, <1>2, <1>3, <1>4, <1>5, <1>6, <1>7

LEMMA DecimalKeepsValue ==
  ASSUME read \in Texts, NEW x, text = Sign(read) \o x, NEW float \in BOOLEAN,
         tag = Tag("Decimal", float), DecimalKept(float, Unsigned(read), x)
  PROVE  Described /\ Meanings(Display) = Meanings(read)
<1>1. PICK w, f, p, y \in Texts : /\ Parts(Unsigned(read), x, w, f, p, y)
                                  /\ float <=> f # <<>> \/ p # <<>>
  BY DEF DecimalKept
<1>2. x \in Texts /\ x # <<>> /\ x[1] \notin Signs
  BY <1>1, PartsFacts
<1>3. Body = x /\ Display = (Sign(read) \o Prefix(tag)) \o x
  BY <1>2, BodyIs
<1>4. Prefix(tag) = <<>>
  BY TagIs
<1>5. Sign(read) \o <<>> = Sign(read)
  BY DecimalsHanded, KeptType, Joined DEF Sign, Texts, Signs
<1>6. Display = Sign(read) \o x
  BY <1>3, <1>4, <1>5
<1>7. Meanings(Display) = Meanings(read)
  BY <1>6, DecimalMeans
<1>8. CASE float
  <2>1. tag = "f" BY <1>8, TagIs
  <2>2. FloatText(Body) BY <1>3, FloatDescribed
  <2> QED BY <1>7, <2>1, <2>2, FloatIsDescribed
<1>9. CASE ~float
  <2>1. tag = "d" /\ BaseTagged(tag) = "Decimal"
    <3>1. float = FALSE BY <1>9
    <3> QED BY <3>1, TagIs
  <2>2. f = <<>> /\ p = <<>> BY <1>1, <1>9
  <2>3. y \o <<>> = y BY Joined
  <2>4. x = y
    BY <1>1, <2>2, <2>3, PlainEmpty DEF Parts, KeptPower
  <2>5. y \in Seq(Decimals) BY <1>1, LeadAgain DEF Parts
  <2>6. Body \in Seq(Decimals) /\ Body \in Texts /\ Body # <<>> BY <1>2, <1>3, <2>4, <2>5
  <2>7. Decimals \subseteq Digits(BaseTagged(tag)) /\ tag \notin {"#", "f"}
    BY <2>1, DigitsAre
  <2>8. Described BY <2>6, <2>7, DigitsAreDescribed
  <2> QED BY <1>7, <2>8
<1> QED BY <1>8, <1>9

LEMMA BasedKeepsValue ==
  ASSUME read \in Texts, NEW x, text = Sign(read) \o x, NEW b,
         tag = Tag(b, FALSE), BasedKept(b, Unsigned(read), x)
  PROVE  Described /\ Meanings(Display) = Meanings(read)
<1>1. PICK l \in Letters, w \in Texts :
        b = BaseOf(l) /\ Unsigned(read) = <<"0", l>> \o w /\ Whole(w, b) /\ x = Plain(w)
  BY DEF BasedKept
<1>2. /\ b \in Bases /\ x \in Seq(DigitsLeft(b)) /\ x \in Texts /\ x # <<>> /\ x[1] \notin Signs
  BY <1>1, BasedFacts
<1>3. tag = l /\ BaseTagged(tag) = b /\ Prefix(tag) = <<"0", l>> /\ tag \notin {"#", "f"}
  BY <1>1, TagIs
<1>4. Body = x /\ Display = (Sign(read) \o Prefix(tag)) \o x
  BY <1>2, BodyIs
<1>5. DigitsLeft(b) \subseteq Digits(BaseTagged(tag))
  BY <1>3 DEF DigitsLeft
<1>6. Described
  BY <1>2, <1>3, <1>4, <1>5, DigitsAreDescribed
<1>7. Display = (Sign(read) \o <<"0", l>>) \o x
  BY <1>3, <1>4
<1>8. Meanings(Display) = Meanings(read)
  <2>1. BasedParts(b, Unsigned(read), x, l, w)
    BY <1>1 DEF BasedParts
  <2>2. BasedText(Display, read, l, x)
    BY <1>7 DEF BasedText
  <2> QED BY <2>1, <2>2, BasedMeans
<1> QED BY <1>6, <1>8

LEMMA KeptInvKeeps ==
  ASSUME ~OddFloats, KeptInv
  PROVE  KeepsValue
<1> SUFFICES ASSUME result = "Number"
             PROVE  Described /\ (stop # "none" => Meanings(Display) = Meanings(read))
  BY DEF KeepsValue
<1>1. CASE stop # "none"
  <2>1. PICK x \in Texts : text = Sign(read) \o x /\ NumberKept(Float, base, Unsigned(read), x)
    BY <1>1 DEF KeptInv
  <2>2. tag = Tag(base, Float) /\ read \in Texts /\ Float \in BOOLEAN
    BY <1>1 DEF KeptInv, Float
  <2>3. CASE ~Float /\ BasedKept(base, Unsigned(read), x)
    <3>1. Float = FALSE BY <2>2, <2>3
    <3> QED BY <2>1, <2>2, <2>3, <3>1, BasedKeepsValue
  <2>4. CASE base = "Decimal" /\ DecimalKept(Float, Unsigned(read), x)
    <3>1. tag = Tag("Decimal", Float) BY <2>2, <2>4
    <3> HIDE DEF Float
    <3> QED BY <2>1, <2>2, <2>4, <3>1, DecimalKeepsValue
  <2> QED BY <2>1, <2>3, <2>4 DEF NumberKept
<1>2. CASE stop = "none"
  <2>1. \/ tag = "#" /\ text \in Infinite \union {<<"nan">>}
        \/ tag = "f" /\ text \in PlainFloats
    BY <1>2 DEF KeptInv
  <2>2. CASE tag = "#" /\ text \in Infinite \union {<<"nan">>}
    BY <1>2, <2>2 DEF Described, Infinite
  <2>3. CASE tag = "f" /\ text \in PlainFloats
    BY <1>2, <2>3, PrintedFloats
  <2> QED BY <2>1, <2>2, <2>3
<1> QED BY <1>1, <1>2

-----------------------------------------------------------------------------
(* An integer becomes the float it says.                                   *)

CoercedRight(m) ==
  LET V == ValueOf(m.whole, m.base)
      value == IF m.negative THEN -V ELSE V
  IN  Coerced = IF m.base = "Decimal" \/ Fits(value) THEN <<value>>
                ELSE IF value > 0 THEN <<"inf">> ELSE <<"-inf">>

LEMMA CoercedIs ==
  ASSUME NEW m, NEW b \in Bases, NEW x \in Seq(DigitsLeft(b)), x # <<>>,
         Body = x, BaseTagged(tag) = b, tag = "d" <=> b = "Decimal",
         m.whole = NoZeros(x), m.base = b, m.negative <=> Negative
  PROVE  CoercedRight(m)
<1> DEFINE V == ValueOf(x, b)
           value == IF Negative THEN -V ELSE V
<1>1. V \in Nat /\ ValueOf(m.whole, m.base) = V /\ ValueOf(Body, BaseTagged(tag)) = V
  BY ValueType, NoZerosValue
<1> HIDE DEF V
<1>2. (IF Negative THEN -1 ELSE 1) * ValueOf(Body, BaseTagged(tag)) = value
  <2>1. -1 * V = -V /\ 1 * V = V BY <1>1
  <2> QED BY <1>1, <2>1
<1>3. (IF m.negative THEN -ValueOf(m.whole, m.base) ELSE ValueOf(m.whole, m.base)) = value
  BY <1>1
<1>4. value \in Int /\ (Negative => ~(value > 0))
  BY <1>1
<1>5. ~Negative /\ ~Fits(value) => value > 0
  BY <1>1, NumberAssumption DEF Fits
<1> HIDE DEF value
<1>6. Coerced = IF tag = "d" \/ Fits(value) THEN <<value>>
                ELSE IF Negative THEN <<"-inf">> ELSE <<"inf">>
  BY <1>2 DEF Coerced
<1>7. CASE b = "Decimal" \/ Fits(value)
  BY <1>3, <1>6, <1>7 DEF CoercedRight
<1>8. CASE ~(b = "Decimal" \/ Fits(value))
  <2>1. Coerced = IF value > 0 THEN <<"inf">> ELSE <<"-inf">>
    BY <1>4, <1>5, <1>6, <1>8
  <2> QED BY <1>3, <1>8, <2>1 DEF CoercedRight
<1> QED BY <1>7, <1>8

LEMMA DecimalCoerces ==
  ASSUME read \in Texts, NEW x, text = Sign(read) \o x, tag = "d",
         DecimalKept(FALSE, Unsigned(read), x), NEW m \in Meanings(read)
  PROVE  CoercedRight(m)
<1>1. PICK w, f, p, y \in Texts : Parts(Unsigned(read), x, w, f, p, y) /\ f = <<>> /\ p = <<>>
  BY DEF DecimalKept
<1>2. x \in Texts /\ x # <<>> /\ x[1] \notin Signs /\ Unsigned(read) # <<>>
  BY <1>1, PartsFacts
<1>3. Body = x /\ (Negative <=> read # <<>> /\ read[1] = "-")
  BY <1>2, BodyIs
<1>4. read # <<>>
  BY <1>2 DEF Unsigned
<1>5. x = y
  <2>1. y \o <<>> = y BY Joined
  <2> QED BY <1>1, <2>1, PlainEmpty DEF Parts, KeptPower
<1>6. x \in Seq(Decimals) /\ NoZeros(Plain(w)) = NoZeros(x)
  BY <1>1, <1>5, LeadAgain DEF Parts
<1>7. m = Meaning(read, "Decimal", w, f, p)
  <2>1. Unsigned(read) = (w \o f) \o p /\ Whole(w, "Decimal") /\ IsFraction(f) /\ IsPower(p)
    BY <1>1 DEF Parts
  <2>2. read \in Seq(Handed) /\ w \in Seq(Handed) /\ f \in Seq(Handed) /\ p \in Seq(Handed) BY DEF Texts
  <2>3. Meanings(read) = {Meaning(read, "Decimal", w, f, p)} BY <2>1, <2>2, PartsMeaning
  <2> QED BY <2>3
<1>8. /\ m.whole = NoZeros(x) /\ m.base = "Decimal" /\ (m.negative <=> Negative)
  BY <1>3, <1>4, <1>6, <1>7 DEF Meaning
<1>9. "Decimal" \in Bases /\ DigitsLeft("Decimal") = Decimals /\ BaseTagged("d") = "Decimal"
  BY BaseFacts, TagIs DEF Bases
<1>10. x \in Seq(DigitsLeft("Decimal")) /\ BaseTagged(tag) = "Decimal"
  BY <1>6, <1>9
<1> QED BY <1>2, <1>3, <1>8, <1>9, <1>10, CoercedIs

LEMMA BasedCoerces ==
  ASSUME read \in Texts, NEW x, text = Sign(read) \o x, NEW b,
         tag = Tag(b, FALSE), BasedKept(b, Unsigned(read), x), NEW m \in Meanings(read)
  PROVE  CoercedRight(m)
<1>1. PICK l \in Letters, w \in Texts :
        b = BaseOf(l) /\ Unsigned(read) = <<"0", l>> \o w /\ Whole(w, b) /\ x = Plain(w)
  BY DEF BasedKept
<1>2. /\ b \in Bases /\ x \in Seq(DigitsLeft(b)) /\ x \in Texts /\ x # <<>> /\ x[1] \notin Signs
  BY <1>1, BasedFacts
<1>3. tag = l /\ BaseTagged(tag) = b /\ tag # "d" /\ b # "Decimal"
  BY <1>1, TagIs, DigitsAre
<1>4. Body = x /\ (Negative <=> read # <<>> /\ read[1] = "-")
  BY <1>2, BodyIs
<1>5. read # <<>>
  <2> DEFINE z == <<"0", l>>
  <2>1. z \in Texts /\ z # <<>> BY DecimalsHanded DEF Texts
  <2>2. Unsigned(read) = z \o w BY <1>1
  <2> HIDE DEF z
  <2>3. Unsigned(read) # <<>> BY <2>1, <2>2, FirstOf
  <2> QED BY <2>3 DEF Unsigned
<1>6. m = Meaning(read, b, w, <<>>, <<>>)
  <2>1. read \in Seq(Handed) /\ w \in Seq(Handed) BY DEF Texts
  <2>2. Unsigned(read) = <<"0", l>> \o w /\ Whole(w, BaseOf(l)) BY <1>1
  <2>3. Meanings(read) = {Meaning(read, BaseOf(l), w, <<>>, <<>>)}
    BY <2>1, <2>2, BasedMeaning
  <2> QED BY <1>1, <2>3
<1>7. m.whole = NoZeros(x) /\ m.base = b /\ (m.negative <=> Negative)
  BY <1>1, <1>4, <1>5, <1>6 DEF Meaning
<1> QED BY <1>2, <1>3, <1>4, <1>7, CoercedIs

LEMMA KeptInvCoerces ==
  ASSUME KeptInv
  PROVE  CoercesToValue
<1> SUFFICES ASSUME result = "Number", tag \in {"d", "x", "o", "b"}, NEW m \in Meanings(read)
             PROVE  CoercedRight(m)
  BY DEF CoercesToValue, CoercedRight
<1>1. stop # "none"
  BY DEF KeptInv
<1>2. PICK x \in Texts : text = Sign(read) \o x /\ NumberKept(Float, base, Unsigned(read), x)
  BY <1>1 DEF KeptInv
<1>3. tag = Tag(base, Float) /\ read \in Texts /\ Float \in BOOLEAN
  BY <1>1 DEF KeptInv, Float
<1> HIDE DEF Float
<1>4. Float = FALSE
  <2> SUFFICES ASSUME Float = TRUE PROVE FALSE
    BY <1>3
  <2> QED BY <1>3 DEF Tag
<1>5. CASE BasedKept(base, Unsigned(read), x)
  BY <1>2, <1>3, <1>4, <1>5, BasedCoerces
<1>6. CASE base = "Decimal" /\ DecimalKept(FALSE, Unsigned(read), x)
  <2>1. tag = "d" BY <1>3, <1>4, <1>6, TagIs
  <2> QED BY <1>2, <1>3, <1>6, <2>1, DecimalCoerces
<1> QED BY <1>2, <1>4, <1>5, <1>6 DEF NumberKept

-----------------------------------------------------------------------------

\* For texts of any length and floats that are finite and printed without an
\* exponent: a finished number is kept as Description promises its users, and
\* writing it gives a text that is the number that was read (NumberBuilder,
\* Number::fmt).
THEOREM NumbersKeepValue ==
  ASSUME ~OddFloats
  PROVE  NumberSpec => []KeepsValue
<1>1. KeptInv /\ [NumberNext]_numberVars => KeptInv'
  BY KeptInvStep
<1>2. KeptInv => KeepsValue
  BY KeptInvKeeps
<1> QED BY <1>1, <1>2, KeptInvStarts, PTL DEF NumberSpec

\* For texts of any length and integers of any width: an integer in any base
\* becomes the float it says, or the infinity of its sign where it does not fit
\* (coerce_to_float).
THEOREM NumbersCoerce == NumberSpec => []CoercesToValue
<1>1. KeptInv /\ [NumberNext]_numberVars => KeptInv'
  BY KeptInvStep
<1> QED BY <1>1, KeptInvStarts, KeptInvCoerces, PTL DEF NumberSpec

=============================================================================

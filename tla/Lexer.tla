------------------------------- MODULE Lexer -------------------------------
(***************************************************************************)
(* lexer::Lexer of just-kdl: turns a text into tokens, one per call of     *)
(* next_token.  Blank text is given out as one token at its first          *)
(* character; what is left of it is skipped by the next call.  After an    *)
(* error the next call first looks for the end of what was refused.        *)
(*                                                                         *)
(* The text is unbounded.  Its characters are classes, a "word" being a    *)
(* run of characters of identifiers; "ahead" holds those that peek() has   *)
(* shown and advance() has not passed, ending in "eof" once the end was    *)
(* seen.  The control points, named by "at", are the loops of the code; a  *)
(* step is one turn of a loop.                                             *)
(*                                                                         *)
(* A multi-line string is read by multiline_string_regular, or skipped by  *)
(* multiline_string_skip, which matches the indentation of each line in a  *)
(* loop of its own.  Whether the indentation is right is an outcome here   *)
(* and computed in Multiline; a character of which that loop passed some   *)
(* bytes only is a "broken" one behind it.  Which numbers are right is     *)
(* computed in Number.                                                     *)
(***************************************************************************)
EXTENDS Naturals, Sequences

CONSTANTS
  MaxNest,       \* bound on comments inside a comment
  MaxHashes,     \* bound on the hashes of a raw string
  SplitNewline,  \* a continuation, or a refused comment, may end in CR LF
  Overlap,       \* a refused comment may hold "/*/" or "*/*"
  Unclosed       \* the text may end in an indentation that is being matched

ASSUME LexerAssumption ==
  /\ MaxNest \in Nat /\ MaxHashes \in Nat
  /\ SplitNewline \in BOOLEAN /\ Overlap \in BOOLEAN /\ Unclosed \in BOOLEAN

VARIABLES
  ahead,      \* the characters seen but not passed
  nextSkip,   \* Lexer::next_skip, its payload in depth, or hashes and multi
  at,         \* the running call's control point, "idle" between calls
  skip,       \* its argument
  out,        \* what the last call returned, "Start" before there was one
  outer,      \* the loop that a continuation or comment is skipped in
  joined,     \* the block comment is in a continuation
  depth,      \* of comments in the comment
  hashes, multi,  \* of the string; it is a multi-line one
  left,       \* its hashes_left; "distance" while it is recovered from
  keyword,    \* the identifier so far may be a keyword's beginning
  \* History: the text as it was passed
  begun,      \* cursor > 0
  moved,      \* the last call (or this one) passed some text
  stalls,     \* calls in a row that passed none, but did not give the end
  last,       \* the last character passed: "cr", "lf" or "other"; "alone" is
              \* a CR that ended a continuation among Spaces, or a recovery
  nest, half  \* open comments by the text; a "/" or "*" that may begin a pair

textVars   == <<ahead, begun, moved, last>>
scanVars   == <<nest, half>>
callVars   == <<at, out, stalls>>
blankVars  == <<outer, joined, depth>>
stringVars == <<hashes, left, multi>>
vars == <<textVars, scanVars, callVars, blankVars, stringVars, keyword, nextSkip, skip>>

Newlines  == {"cr", "lf"}
Invalid   == {"invalid", "bom"}
Signs     == {"+", "-"}
Operators == {"op"}                     \* ; = ( ) { }
NotIdent  == Invalid \union Newlines \union Operators
             \union {"space", "/", "\\", "[", "quote", "#"}
Chars     == NotIdent \union Signs \union {"*", ".", "digit", "word", "broken"}

TextTokens == {"String", "Number", "SkippedString", "SkippedNumber"}
Tokens == TextTokens \union
          {"Bom", "Eof", "Lines", "Spaces", "SlashDash", "Operator", "Keyword"}

Skips == {"None", "Spaces", "Lines", "RecoverLineComment", "RecoverBlockComment",
          "RecoverString", "IrrecoverableError"}

Points == {"idle", "spaces", "lines", "escline", "block", "line", "token",
           "preview", "ident", "number", "hashes", "opening", "string", "indent", "closing",
           "escape", "escapeBlank", "unicode", "hex",
           "recoverLine", "recoverBlock", "recoverString"}

-----------------------------------------------------------------------------
(* peek() and advance()                                                    *)

Ends(text) == text # <<>> /\ text[Len(text)] = "eof"

\* How many characters a step depends on.  Where the code asks for more of them,
\* it does so again at the next point of the same call.
InLines == at = "string" /\ multi

NeedsSecond(text) ==
  \/ at \in {"spaces", "lines", "escline", "token"} /\ text[1] = "/"
  \/ at = "block" /\ text[1] \in {"/", "*"}
  \/ at = "recoverBlock"
  \/ at = "token" /\ text[1] = "#"
  \/ at = "preview" /\ text[1] \in Signs \union {"."}
  \/ (at = "hashes" \/ InLines) /\ text[1] = "quote"
  \/ (at = "opening" \/ InLines) /\ text[1] = "cr"

NeedsThird(text) ==
  /\ Len(text) > 1
  /\ \/ at = "token" /\ text[1] = "#" /\ text[2] = "-"
     \/ at = "preview" /\ text[1] \in Signs /\ text[2] = "."
     \/ (at = "hashes" \/ InLines) /\ text[1] = "quote" /\ text[2] = "quote"

Need(text) == IF NeedsThird(text) THEN 3 ELSE IF NeedsSecond(text) THEN 2 ELSE 1

Enough(text) == Ends(text) \/ (text # <<>> /\ Len(text) >= Need(text))

\* The texts that the constants leave out go on with an LF here, or end here.
LeftOut(text) ==
  {c \in {"lf", "eof"} :
    /\ text = <<>>
    /\ c = "lf"  => last = "alone" /\ ~SplitNewline
    /\ c = "eof" => at = "indent" /\ ~Unclosed}

Following(text) == (Chars \union {"eof"}) \ LeftOut(text)

More(text) ==
  IF Enough(text) THEN {text} ELSE {Append(text, c) : c \in Following(text)}

\* What peek() may show: one more character, up to three times.
View == UNION {UNION {More(b) : b \in More(a)} : a \in More(ahead)}

Starts(text, chars) ==
  Len(chars) <= Len(text) /\ \A i \in 1..Len(chars) : text[i] = chars[i]

Kind(char) == IF char \in Newlines THEN char ELSE "other"

\* advance(n) over n > 0 characters that were shown.
Pass(text, n) ==
  /\ ahead' = SubSeq(text, n + 1, Len(text))
  /\ begun' = TRUE /\ moved' = TRUE
  /\ last' = Kind(text[n])

PassAlone(text) ==
  /\ ahead' = SubSeq(text, 2, Len(text))
  /\ begun' = TRUE /\ moved' = TRUE
  /\ last' = IF text[1] = "cr" THEN "alone" ELSE Kind(text[1])

Stay(text) == ahead' = text /\ UNCHANGED <<begun, moved, last>>

-----------------------------------------------------------------------------
(* Calls                                                                   *)

Goto(point) == at' = point /\ UNCHANGED <<out, stalls>>

Return(result) ==
  /\ at' = "idle" /\ out' = result
  /\ stalls' = IF moved' \/ result = "Eof" THEN 0 ELSE stalls + 1

ReturnText(token, skipped) == Return(IF skip THEN skipped ELSE token)

\* Nothing of a call but next_skip and its payload outlives it.
Drop == outer' = "spaces" /\ joined' = FALSE /\ keyword' = FALSE

NoString  == hashes' = 0 /\ left' = 0 /\ multi' = FALSE
NoComment == depth' = 0 /\ nest' = 0 /\ half' = "no"

Call ==
  /\ at = "idle" /\ nextSkip # "IrrecoverableError"
  /\ Goto(CASE nextSkip = "None" -> "token"
            [] nextSkip = "Spaces" -> "spaces"
            [] nextSkip = "Lines" -> "lines"
            [] nextSkip = "RecoverLineComment" -> "recoverLine"
            [] nextSkip = "RecoverBlockComment" -> "recoverBlock"
            [] nextSkip = "RecoverString" -> "recoverString")
  /\ skip' \in BOOLEAN
  /\ moved' = FALSE
  /\ outer' = IF nextSkip = "Lines" THEN "lines" ELSE "spaces"
  /\ UNCHANGED <<ahead, begun, last, scanVars, joined, depth, stringVars, keyword, nextSkip>>

CallFailed ==
  /\ at = "idle" /\ nextSkip = "IrrecoverableError"
  /\ skip' \in BOOLEAN
  /\ moved' = FALSE
  /\ Return("Eof")
  /\ UNCHANGED <<ahead, begun, last, scanVars, blankVars, stringVars, keyword, nextSkip>>

\* peek() fails where there is more to be read.
IoError ==
  /\ at # "idle" /\ View # {ahead}
  /\ Stay(ahead) /\ Return("Err") /\ nextSkip' = "IrrecoverableError"
  /\ Drop /\ NoString /\ NoComment
  /\ UNCHANGED skip

-----------------------------------------------------------------------------
(* Blank text: spaces(), lines(), escline(), comments                      *)

KeepCall  == UNCHANGED <<skip, stringVars, keyword>>
KeepBlank == UNCHANGED <<outer, joined, depth, scanVars>>

\* The loop is left: next_token_value goes on with the token behind it.
ToToken == Goto("token") /\ nextSkip' = "None"

OpenBlock(text) ==
  /\ Pass(text, 2) /\ Goto("block") /\ nextSkip' = "RecoverBlockComment"
  /\ depth' = 0 /\ joined' = (at = "escline")
  /\ nest' = 1 /\ half' = "no"
  /\ UNCHANGED outer

OpenLine(text) ==
  /\ Pass(text, 2) /\ Goto("line") /\ nextSkip' = "RecoverLineComment"
  /\ KeepBlank

Spaces ==
  /\ at = "spaces" /\ KeepCall
  /\ \E a \in View :
       \/ a[1] = "space" /\ Pass(a, 1) /\ Goto("spaces") /\ KeepBlank /\ UNCHANGED nextSkip
       \/ a[1] = "\\" /\ Pass(a, 1) /\ Goto("escline") /\ KeepBlank /\ UNCHANGED nextSkip
       \/ Starts(a, <<"/", "*">>) /\ OpenBlock(a)
       \/ /\ a[1] \notin {"space", "\\"} /\ ~Starts(a, <<"/", "*">>)
          /\ Stay(a) /\ ToToken /\ KeepBlank

\* Mutant: the gap is one newline long.
LinesOne ==
  /\ at = "lines" /\ KeepCall
  /\ \E a \in View :
       \/ a[1] = "space" /\ Pass(a, 1) /\ Goto("lines") /\ KeepBlank /\ UNCHANGED nextSkip
       \/ a[1] = "\\" /\ Pass(a, 1) /\ Goto("escline") /\ KeepBlank /\ UNCHANGED nextSkip
       \/ Starts(a, <<"/", "*">>) /\ OpenBlock(a)
       \/ Starts(a, <<"/", "/">>) /\ OpenLine(a)
       \/ /\ a[1] \notin {"space", "\\"}
          /\ ~Starts(a, <<"/", "*">>) /\ ~Starts(a, <<"/", "/">>)
          /\ Stay(a) /\ ToToken /\ KeepBlank

Lines ==
  /\ at = "lines" /\ KeepCall
  /\ \E a \in View :
       \/ /\ a[1] \in Newlines \union {"space"}
          /\ Pass(a, 1) /\ Goto("lines") /\ KeepBlank /\ UNCHANGED nextSkip
       \/ a[1] = "\\" /\ Pass(a, 1) /\ Goto("escline") /\ KeepBlank /\ UNCHANGED nextSkip
       \/ Starts(a, <<"/", "*">>) /\ OpenBlock(a)
       \/ Starts(a, <<"/", "/">>) /\ OpenLine(a)
       \/ /\ a[1] \notin Newlines \union {"space", "\\"}
          /\ ~Starts(a, <<"/", "*">>) /\ ~Starts(a, <<"/", "/">>)
          /\ Stay(a) /\ ToToken /\ KeepBlank

\* A newline ends the continuation, and is passed by one character.
ContinuationNewline(text) ==
  /\ text[1] \in Newlines
  /\ IF outer = "spaces" THEN PassAlone(text) ELSE Pass(text, 1)
  /\ Goto(outer) /\ KeepBlank /\ UNCHANGED nextSkip

\* BadEscline: what next_skip is then depends on whether a comment was passed.
BadEscline(text) ==
  /\ text[1] \notin Newlines \union {"space", "eof"}
  /\ ~Starts(text, <<"/", "*">>) /\ ~Starts(text, <<"/", "/">>)
  /\ Stay(text) /\ Return("Err")
  /\ Drop /\ UNCHANGED <<depth, scanVars, nextSkip>>

Escline ==
  /\ at = "escline"
  /\ UNCHANGED <<skip, stringVars>>
  /\ \E a \in View :
       \/ BadEscline(a)
       \/ /\ UNCHANGED keyword
          /\ \/ ContinuationNewline(a)
             \/ /\ a[1] = "space" /\ Pass(a, 1) /\ Goto("escline")
                /\ KeepBlank /\ UNCHANGED nextSkip
             \/ a[1] = "eof" /\ Stay(a) /\ Goto(outer) /\ KeepBlank /\ UNCHANGED nextSkip
             \/ Starts(a, <<"/", "*">>) /\ OpenBlock(a)
             \/ Starts(a, <<"/", "/">>) /\ OpenLine(a)

\* What a reader of the text makes of one more character in a comment.
Scan(state, char) ==
  LET opens  == state.half = "/" /\ char = "*"
      closes == state.half = "*" /\ char = "/"
  IN  [nest |-> IF opens THEN state.nest + 1 ELSE IF closes THEN state.nest - 1
                ELSE state.nest,
       half |-> IF char \in {"/", "*"} /\ ~opens /\ ~closes THEN char ELSE "no"]

Scanned == [nest |-> nest, half |-> half]

PassScanned(text, n) ==
  LET one == Scan(Scanned, text[1])
      all == IF n = 1 THEN one ELSE Scan(one, text[2])
  IN  Pass(text, n) /\ nest' = all.nest /\ half' = all.half

BlockOpen(text) ==
  /\ Starts(text, <<"/", "*">>) /\ depth < MaxNest
  /\ PassScanned(text, 2) /\ depth' = depth + 1
  /\ Goto("block") /\ UNCHANGED <<outer, joined, nextSkip>>

\* Mutant: the subtraction is not checked.
BlockCloseUnchecked(text) ==
  /\ Starts(text, <<"*", "/">>)
  /\ PassScanned(text, 2)
  /\ depth' = depth - 1 /\ Goto("block") /\ UNCHANGED <<outer, joined, nextSkip>>

BlockClose(text) ==
  /\ Starts(text, <<"*", "/">>)
  /\ PassScanned(text, 2)
  /\ IF depth = 0
     THEN /\ nextSkip' = "None" /\ depth' = 0 /\ joined' = FALSE
          /\ Goto(IF joined THEN "escline" ELSE outer)
     ELSE depth' = depth - 1 /\ Goto("block") /\ UNCHANGED <<joined, nextSkip>>
  /\ UNCHANGED outer

\* The end of the text, a character that is not allowed, bytes that are none.
BlockRefused(text) ==
  /\ text[1] \in Invalid \union {"eof", "broken"}
  /\ Stay(text) /\ Return("Err")
  /\ Drop /\ UNCHANGED <<depth, scanVars, nextSkip>>

BlockComment ==
  /\ at = "block" /\ UNCHANGED <<skip, stringVars>>
  /\ \E a \in View :
       \/ BlockRefused(a)
       \/ /\ UNCHANGED keyword
          /\ \/ BlockOpen(a)
             \/ BlockClose(a)
             \/ /\ a[1] \notin Invalid \union {"eof", "broken"}
                /\ ~Starts(a, <<"/", "*">>) /\ ~Starts(a, <<"*", "/">>)
                /\ PassScanned(a, 1) /\ Goto("block")
                /\ UNCHANGED <<blankVars, nextSkip>>

LineRefused(text) ==
  /\ text[1] \in Invalid \union {"broken"}
  /\ Stay(text) /\ Return("Err")
  /\ Drop /\ UNCHANGED <<depth, nextSkip>>

LineEnd(text) ==
  /\ \/ text[1] = "eof" /\ Stay(text)
     \/ /\ text[1] \in Newlines
        /\ IF outer = "spaces" THEN PassAlone(text) ELSE Pass(text, 1)
  /\ Goto(outer) /\ nextSkip' = "None"
  /\ UNCHANGED <<blankVars, keyword>>

LineComment ==
  /\ at = "line" /\ UNCHANGED <<skip, stringVars, scanVars>>
  /\ \E a \in View :
       \/ LineRefused(a)
       \/ LineEnd(a)
       \/ /\ a[1] \notin Invalid \union Newlines \union {"eof", "broken"}
          /\ Pass(a, 1) /\ Goto("line")
          /\ UNCHANGED <<blankVars, keyword, nextSkip>>

-----------------------------------------------------------------------------
(* Recovery, and the token behind the blank or refused text                *)

KeepLocals == UNCHANGED <<skip, outer, joined, keyword>>

RecoverLineComment ==
  /\ at = "recoverLine" /\ KeepLocals /\ UNCHANGED <<depth, stringVars, scanVars>>
  /\ \E a \in View :
       \/ a[1] = "eof" /\ Stay(a) /\ ToToken
       \/ a[1] \in Newlines /\ PassAlone(a) /\ ToToken
       \/ /\ a[1] \notin Newlines \union {"eof"}
          /\ Pass(a, 1) /\ Goto("recoverLine") /\ UNCHANGED nextSkip

\* An opener or closer of which the first character was the second of another.
Overlaps(text) ==
  \/ Starts(text, <<"*", "/">>) /\ half = "/"
  \/ Starts(text, <<"/", "*">>) /\ half = "*"

\* Mutant: recovery ends at the first closer.
RecoverBlockFirst ==
  /\ at = "recoverBlock" /\ KeepLocals /\ UNCHANGED stringVars
  /\ \E a \in View :
       /\ Overlaps(a) => Overlap
       /\ \/ a[1] = "eof" /\ Stay(a) /\ ToToken /\ NoComment
          \/ /\ Starts(a, <<"*", "/">>)
             /\ PassScanned(a, 2) /\ ToToken /\ depth' = 0
          \/ /\ a[1] # "eof" /\ ~Starts(a, <<"*", "/">>)
             /\ Starts(a, <<"/", "*">>) => depth < MaxNest
             /\ PassScanned(a, 1) /\ Goto("recoverBlock") /\ UNCHANGED <<depth, nextSkip>>

\* A pair of characters counts at its first one; both are passed at the end.
RecoverBlockComment ==
  /\ at = "recoverBlock" /\ KeepLocals /\ UNCHANGED stringVars
  /\ \E a \in View :
       /\ Overlaps(a) => Overlap
       /\ \/ a[1] = "eof" /\ Stay(a) /\ ToToken /\ NoComment
          \/ /\ Starts(a, <<"*", "/">>) /\ depth = 0
             /\ PassScanned(a, 2) /\ ToToken /\ UNCHANGED depth
          \/ /\ Starts(a, <<"*", "/">>) /\ depth > 0
             /\ PassScanned(a, 1) /\ Goto("recoverBlock")
             /\ depth' = depth - 1 /\ UNCHANGED nextSkip
          \/ /\ Starts(a, <<"/", "*">>) /\ depth < MaxNest
             /\ PassScanned(a, 1) /\ Goto("recoverBlock")
             /\ depth' = depth + 1 /\ UNCHANGED nextSkip
          \/ /\ a[1] # "eof" /\ ~Starts(a, <<"*", "/">>) /\ ~Starts(a, <<"/", "*">>)
             /\ PassScanned(a, 1) /\ Goto("recoverBlock") /\ UNCHANGED <<depth, nextSkip>>

Quotes == IF multi THEN 3 ELSE 1

\* Looks for as many quotes and hashes in a row as end the string; "left" is
\* the distance.
RecoverString ==
  /\ at = "recoverString" /\ KeepLocals /\ UNCHANGED <<depth, scanVars>>
  /\ \E a \in View :
       LET counts == \/ a[1] = "quote" /\ left < Quotes
                     \/ a[1] = "#" /\ left < Quotes + hashes
           distance == IF counts THEN left + 1 ELSE 0
       IN  \/ a[1] = "eof" /\ Stay(a) /\ ToToken /\ NoString
           \/ /\ a[1] # "eof" /\ distance = Quotes + hashes
              /\ Pass(a, 1) /\ ToToken /\ NoString
           \/ /\ a[1] # "eof" /\ distance # Quotes + hashes
              /\ Pass(a, 1) /\ Goto("recoverString")
              /\ left' = distance /\ UNCHANGED <<hashes, multi, nextSkip>>

\* begin_skip: the rest of the blank text is left to the next call.
BeginSkip(token) == nextSkip' = token /\ Return(token)

Whole(text, n, result) == Pass(text, n) /\ Return(result) /\ UNCHANGED nextSkip

BlankToken(text) ==
  \/ text[1] \in Newlines /\ Pass(text, 1) /\ BeginSkip("Lines")
  \/ text[1] = "space" /\ Pass(text, 1) /\ BeginSkip("Spaces")
  \/ text[1] = "\\" /\ Stay(text) /\ BeginSkip("Spaces")
  \/ Starts(text, <<"/", "*">>) /\ Stay(text) /\ BeginSkip("Spaces")
  \/ Starts(text, <<"/", "/">>) /\ Stay(text) /\ BeginSkip("Lines")

\* Mutant: what is refused is not passed.
ShortTokenStay(text) ==
  \/ text[1] = "eof" /\ Stay(text) /\ Return("Eof") /\ UNCHANGED nextSkip
  \/ text[1] = "bom" /\ ~begun /\ Whole(text, 1, "Bom")
  \/ text[1] \in {"bom", "invalid", "["} /\ Stay(text) /\ Return("Err") /\ UNCHANGED nextSkip
  \/ text[1] \in Operators /\ Whole(text, 1, "Operator")
  \/ Starts(text, <<"/", "-">>) /\ Whole(text, 2, "SlashDash")
  \/ text[1] = "/" /\ text[2] \notin {"-", "*", "/"} /\ Whole(text, 1, "Err")

ShortToken(text) ==
  \/ text[1] = "eof" /\ Stay(text) /\ Return("Eof") /\ UNCHANGED nextSkip
  \/ text[1] = "bom" /\ ~begun /\ Whole(text, 1, "Bom")
  \/ text[1] = "bom" /\ begun /\ Whole(text, 1, "Err")
  \/ text[1] \in {"invalid", "["} /\ Whole(text, 1, "Err")
  \/ text[1] \in Operators /\ Whole(text, 1, "Operator")
  \/ Starts(text, <<"/", "-">>) /\ Whole(text, 2, "SlashDash")
  \/ text[1] = "/" /\ text[2] \notin {"-", "*", "/"} /\ Whole(text, 1, "Err")

\* How much of the text may spell a keyword: a hash and a word, which may be
\* signed if it is #-inf.
KeywordLen(text) ==
  IF Starts(text, <<"#", "word">>) THEN 2
  ELSE IF Starts(text, <<"#", "-", "word">>) THEN 3 ELSE 0

\* A head without its tail is an error behind the head.
KeywordToken(text) ==
  /\ KeywordLen(text) > 0
  /\ Pass(text, KeywordLen(text))
  /\ \/ KeywordLen(text) = 2 /\ Return("Keyword")
     \/ ReturnText("Number", "SkippedNumber")
     \/ Return("Err")
  /\ UNCHANGED nextSkip

Token ==
  /\ at = "token" /\ UNCHANGED <<skip, depth, stringVars, scanVars, joined, keyword>>
  /\ \E a \in View :
       \/ outer' = "spaces" /\ (BlankToken(a) \/ ShortToken(a) \/ KeywordToken(a))
       \/ /\ a[1] \in {"#", "quote"}
          /\ Stay(a) /\ Goto("hashes") /\ outer' = "spaces" /\ UNCHANGED nextSkip
       \/ /\ a[1] \notin NotIdent \union {"eof"}
          /\ Stay(a) /\ Goto("preview") /\ outer' = "spaces" /\ UNCHANGED nextSkip

-----------------------------------------------------------------------------
(* Identifiers and numbers: ident(), ident_inner()                         *)

KeepIdent == UNCHANGED <<skip, blankVars, stringVars, scanVars, nextSkip>>

NumberStart(text) ==
  \/ text[1] = "digit" /\ Pass(text, 1)
  \/ text[1] \in Signs /\ text[2] = "digit" /\ Pass(text, 2)

\* A number whose integer part is missing.
PointFirst(text) ==
  \/ Starts(text, <<".", "digit">>) /\ Pass(text, 1)
  \/ text[1] \in Signs /\ text[2] = "." /\ text[3] = "digit" /\ Pass(text, 2)

IdentStart(text) ==
  /\ text[1] # "digit" /\ ~Starts(text, <<".", "digit">>)
  /\ text[1] \in Signs =>
       text[2] # "digit" /\ (text[2] = "." => text[3] # "digit")

Preview ==
  /\ at = "preview" /\ KeepIdent
  /\ \E a \in View :
       \/ NumberStart(a) /\ Goto("number") /\ UNCHANGED keyword
       \/ PointFirst(a) /\ Return("Err") /\ UNCHANGED keyword
       \/ IdentStart(a) /\ Stay(a) /\ Goto("ident")
          /\ keyword' \in IF a[1] = "word" \/ Starts(a, <<"-", "word">>)
                          THEN BOOLEAN ELSE {FALSE}

IdentEnd(text) ==
  /\ text[1] \in NotIdent \union {"eof"}
  /\ Stay(text) /\ keyword' = FALSE
  /\ ReturnText("String", "SkippedString") \/ (keyword /\ Return("Err"))

Ident ==
  /\ at = "ident" /\ KeepIdent
  /\ \E a \in View :
       \/ IdentEnd(a)
       \/ a[1] = "broken" /\ Pass(a, 1) /\ Return("Err") /\ keyword' = FALSE
       \/ /\ a[1] \notin NotIdent \union {"eof", "broken"}
          /\ Pass(a, 1) /\ Goto("ident")
          /\ keyword' = (keyword /\ a[1] \in {"word", "-"})

\* The builder may refuse any character; a slash is handed to it as well.
NumberLoop ==
  /\ at = "number" /\ KeepIdent /\ UNCHANGED keyword
  /\ \E a \in View :
       \/ a[1] \in Signs \union {"digit", "word", "."} /\ Pass(a, 1) /\ Goto("number")
       \/ a[1] \in Signs \union {"digit", "word", ".", "/", "*", "broken"}
          /\ Stay(a) /\ Return("Err")
       \/ /\ a[1] \in (NotIdent \ {"/"}) \union {"eof"}
          /\ Stay(a)
          /\ ReturnText("Number", "SkippedNumber") \/ Return("Err")

-----------------------------------------------------------------------------
(* Strings: string(), singleline_string(), multiline_string_regular(),     *)
(* string_escape()                                                         *)

KeepString == UNCHANGED <<skip, blankVars, scanVars, keyword>>

OpenString(text, n, point, lines) ==
  /\ Pass(text, n) /\ Goto(point)
  /\ nextSkip' = "RecoverString" /\ multi' = lines
  /\ UNCHANGED <<hashes, left>>

\* Mutant: the end of the text is not noticed among the hashes.
HashesNoEnd ==
  /\ at = "hashes" /\ KeepString
  /\ \E a \in View :
       \/ /\ a[1] = "#" /\ hashes < MaxHashes
          /\ Pass(a, 1) /\ Goto("hashes")
          /\ hashes' = hashes + 1 /\ UNCHANGED <<left, multi, nextSkip>>
       \/ /\ a[1] = "eof" /\ Stay(a) /\ Goto("hashes")
          /\ UNCHANGED <<stringVars, nextSkip>>
       \/ Starts(a, <<"quote", "quote", "quote">>) /\ OpenString(a, 3, "opening", TRUE)
       \/ /\ a[1] = "quote" /\ ~Starts(a, <<"quote", "quote", "quote">>)
          /\ OpenString(a, 1, "string", FALSE)
       \/ /\ a[1] \notin {"#", "quote", "eof"}
          /\ Stay(a) /\ Return("Err") /\ NoString /\ UNCHANGED nextSkip

Hashes ==
  /\ at = "hashes" /\ KeepString
  /\ \E a \in View :
       \/ /\ a[1] = "#" /\ hashes < MaxHashes
          /\ Pass(a, 1) /\ Goto("hashes")
          /\ hashes' = hashes + 1 /\ UNCHANGED <<left, multi, nextSkip>>
       \/ Starts(a, <<"quote", "quote", "quote">>) /\ OpenString(a, 3, "opening", TRUE)
       \/ /\ a[1] = "quote" /\ ~Starts(a, <<"quote", "quote", "quote">>)
          /\ OpenString(a, 1, "string", FALSE)
       \/ /\ a[1] \notin {"#", "quote"}
          /\ Stay(a) /\ Return("Err") /\ NoString /\ UNCHANGED nextSkip

\* newline_crlf: the length of the newline that the text starts with, or 0.
NewlineLen(text) ==
  IF Starts(text, <<"cr", "lf">>) THEN 2 ELSE IF text[1] \in Newlines THEN 1 ELSE 0

MultilineOpening ==
  /\ at = "opening" /\ KeepString /\ UNCHANGED <<stringVars, nextSkip>>
  /\ \E a \in View :
       \/ NewlineLen(a) > 0 /\ Pass(a, NewlineLen(a)) /\ Goto("string")
       \/ NewlineLen(a) = 0 /\ Stay(a) /\ Return("Err")

\* The quotes that may end the string.
ClosingQuotes(text) ==
  IF ~multi /\ text[1] = "quote" THEN 1
  ELSE IF multi /\ Starts(text, <<"quote", "quote", "quote">>) THEN 3 ELSE 0

StringRefused(text) ==
  \/ text[1] \in Invalid \union {"eof", "broken"}
  \/ ~multi /\ text[1] \in Newlines

\* Behind a newline in a skipped string, and behind each space there, some of
\* the indentation may still be to be matched.
GoOnLine ==
  \/ Goto("string")
  \/ skip /\ multi /\ (Unclosed \/ ahead' # <<"eof">>) /\ Goto("indent")

String ==
  /\ at = "string" /\ KeepString /\ UNCHANGED <<hashes, multi, nextSkip>>
  /\ \E a \in View :
       \/ StringRefused(a) /\ Stay(a) /\ Return("Err") /\ UNCHANGED left
       \/ /\ ClosingQuotes(a) > 0
          /\ Pass(a, ClosingQuotes(a)) /\ Goto("closing") /\ left' = hashes
       \/ /\ a[1] = "\\" /\ hashes = 0
          /\ Pass(a, 1) /\ Goto("escape") /\ UNCHANGED left
       \/ /\ multi /\ a[1] \in Newlines
          /\ Pass(a, NewlineLen(a)) /\ GoOnLine /\ UNCHANGED left
       \/ /\ ~StringRefused(a) /\ ClosingQuotes(a) = 0
          /\ a[1] \notin Newlines /\ (a[1] = "\\" => hashes > 0)
          /\ Pass(a, 1) /\ Goto("string") /\ UNCHANGED left

\* The loop that matches ends where the text differs from the indentation.  At
\* the end of the text nothing matches and nothing differs.
Indent ==
  /\ at = "indent" /\ KeepString /\ UNCHANGED <<stringVars, nextSkip>>
  /\ \E a \in View :
       \/ a[1] = "space" /\ Pass(a, 1) /\ GoOnLine
       \/ Stay(a) /\ Goto(IF a[1] = "eof" THEN "indent" ELSE "string")

\* The string has ended; a multi-line one may turn out to be indented badly.
StringEnd ==
  /\ at = "closing" /\ left = 0 /\ KeepString
  /\ Stay(ahead)
  /\ ReturnText("String", "SkippedString") \/ (multi /\ Return("Err"))
  /\ nextSkip' = "None" /\ NoString

\* With too few hashes the quotes were text.
Closing ==
  /\ at = "closing" /\ left > 0 /\ KeepString
  /\ \E a \in View :
       \/ /\ a[1] = "#" /\ Pass(a, 1) /\ Goto("closing")
          /\ left' = left - 1 /\ UNCHANGED <<hashes, multi, nextSkip>>
       \/ /\ a[1] = "eof" /\ Stay(a) /\ Return("Err")
          /\ nextSkip' = "None" /\ NoString
       \/ /\ a[1] \notin {"#", "eof"} /\ Stay(a) /\ Goto("string")
          /\ left' = 0 /\ UNCHANGED <<hashes, multi, nextSkip>>

Blank(text) == text[1] \in Newlines \union {"space"}

\* One letter stands for a character (a word may go on), or is the u of \u{...}.
Escape ==
  /\ at = "escape" /\ KeepString /\ UNCHANGED <<stringVars, nextSkip>>
  /\ \E a \in View :
       \/ Blank(a) /\ Pass(a, 1) /\ Goto("escapeBlank")
       \/ a[1] \in {"quote", "\\"} /\ Pass(a, 1) /\ Goto("string")
       \/ a[1] = "word" /\ Pass(a, 1) /\ Goto("string")
       \/ a[1] = "word" /\ Pass(a, 1) /\ Goto("unicode")
       \/ ~Blank(a) /\ a[1] \notin {"quote", "\\"} /\ Stay(a) /\ Return("Err")

EscapeBlank ==
  /\ at = "escapeBlank" /\ KeepString /\ UNCHANGED <<stringVars, nextSkip>>
  /\ \E a \in View :
       IF Blank(a) THEN Pass(a, 1) /\ Goto("escapeBlank") ELSE Stay(a) /\ Goto("string")

UnicodeOpen ==
  /\ at = "unicode" /\ KeepString /\ UNCHANGED <<stringVars, nextSkip>>
  /\ \E a \in View :
       \/ a[1] \in Operators /\ Pass(a, 1) /\ Goto("hex")
       \/ Stay(a) /\ Return("Err")

\* Digits, a brace, and a code point that is a character; or it is refused.
UnicodeDigits ==
  /\ at = "hex" /\ KeepString /\ UNCHANGED <<stringVars, nextSkip>>
  /\ \E a \in View :
       \/ a[1] \in {"digit", "word"} /\ Pass(a, 1) /\ Goto("hex")
       \/ a[1] \in Operators /\ Pass(a, 1) /\ Goto("string")
       \/ a[1] \in Operators /\ Pass(a, 1) /\ Return("Err")
       \/ Stay(a) /\ Return("Err")

-----------------------------------------------------------------------------

Init ==
  /\ ahead = <<>> /\ begun = FALSE /\ moved = FALSE /\ last = "other"
  /\ nest = 0 /\ half = "no"
  /\ at = "idle" /\ out = "Start" /\ stalls = 0
  /\ outer = "spaces" /\ joined = FALSE /\ depth = 0
  /\ hashes = 0 /\ left = 0 /\ multi = FALSE
  /\ keyword = FALSE /\ nextSkip = "None" /\ skip = FALSE

Next ==
  \/ Call \/ CallFailed \/ IoError
  \/ Spaces \/ Lines \/ Escline \/ BlockComment \/ LineComment
  \/ RecoverLineComment \/ RecoverBlockComment \/ RecoverString
  \/ Token \/ Preview \/ Ident \/ NumberLoop
  \/ Hashes \/ MultilineOpening \/ String \/ Indent \/ StringEnd \/ Closing
  \/ Escape \/ EscapeBlank \/ UnicodeOpen \/ UnicodeDigits

\* A caller that goes on until the end, past errors, as the tests' does.
Fairness == WF_vars(Next)

Spec == Init /\ [][Next]_vars /\ Fairness

-----------------------------------------------------------------------------

\* The locals have their types, and what next_skip promises is there: a comment
\* or string to be recovered from, with its depth or its hashes.
TypeOK ==
  /\ ahead \in Seq(Chars \union {"eof"}) /\ Len(ahead) <= 3
  /\ begun \in BOOLEAN /\ moved \in BOOLEAN
  /\ last \in {"cr", "lf", "alone", "other"}
  /\ nest \in Nat /\ half \in {"/", "*", "no"}
  /\ at \in Points /\ out \in Tokens \union {"Start", "Err"} /\ stalls \in Nat
  /\ outer \in {"spaces", "lines"} /\ joined \in BOOLEAN /\ depth \in 0..MaxNest
  /\ hashes \in 0..MaxHashes /\ left \in 0..(MaxHashes + 2) /\ multi \in BOOLEAN
  /\ keyword \in BOOLEAN /\ nextSkip \in Skips /\ skip \in BOOLEAN
  /\ multi \/ hashes > 0 => nextSkip = "RecoverString" \/ at = "hashes"

\* What the reader is told never to expect: blank text comes as one token (or
\* Spaces and then Lines), a BOM only in front of everything, the end only
\* once, and text exactly when it was asked for.
Promise(before, token) ==
  /\ before = "Eof"     => token = "Eof"
  /\ token = "Spaces"   => before \notin {"Spaces", "Lines"}
  /\ token = "Lines"    => before # "Lines"
  /\ token = "Bom"      => before = "Start"
  /\ token \in {"SkippedString", "SkippedNumber"} => skip'
  /\ token \in {"String", "Number"}               => ~skip'

\* What the lexer returns is always what Reader!Lexable allows behind what it
\* returned before, whatever the text and whichever calls skip.
Promised == [][at' = "idle" => Promise(out, out')]_vars

\* Of two calls in a row one passes some of the text or gives its end: a
\* program that reads on past errors gets through every text.
Progresses == stalls <= 1

\* The lexer is in a comment, or about to recover from one, exactly when the
\* text is: a recovery ends behind the closer of the comment it began in.
CommentsMatch ==
  nest > 0 <=> \/ at \in {"block", "recoverBlock"}
               \/ nextSkip = "RecoverBlockComment"

\* No newline is counted twice: Lines never start between a CR and its LF.
WholeNewlines ==
  [][out' = "Lines" /\ at = "token" /\ last \in {"cr", "alone"} => last' # "lf"]_vars

\* Once the input has ended, a program that keeps calling is given Eof,
\* whatever was open at the end and whether it is read or skipped.
EofComes == Ends(ahead) ~> (at = "idle" /\ out = "Eof")

=============================================================================

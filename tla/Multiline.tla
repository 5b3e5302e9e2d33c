----------------------------- MODULE Multiline -----------------------------
(***************************************************************************)
(* Multi-line strings in lexer.rs: multiline_string_regular reads one and  *)
(* keeps all of it, multiline_string_skip reads one that is commented out  *)
(* and keeps no more than one indentation.  Both read the same text, so    *)
(* both take each of its items in the same step.                           *)
(*                                                                         *)
(* An item is a space, a newline, the closing quotes with their hashes,    *)
(* the end of the input, or text: any other character, a lone quote,       *)
(* quotes with too few hashes, an escape.  An escape that stands for       *)
(* nothing (backslash and white space) is taken with the item behind it,   *)
(* which is no space and no newline.  A character or an escape that either *)
(* refuses, both refuse; it is left out.                                   *)
(*                                                                         *)
(* A character is the sequence of its UTF-8 bytes: the skipping function   *)
(* compares bytes, and the reading one cuts lines by a number of bytes.    *)
(***************************************************************************)
EXTENDS Naturals, Sequences

CONSTANTS
  Spaces,      \* characters of utf8_class!(space)
  Breaks,      \* characters that newlines begin with, utf8_class!(line)
  Visible,     \* characters that text begins with
  MaxIndent,   \* bound on the spaces in front of a line
  BlankStart,  \* the first line may be blank
  Unclosed     \* the input may end while an indentation is being matched

Alphabet == Spaces \union Breaks \union Visible

\* In UTF-8 the first byte of a character tells how many it has.
ASSUME MultilineAssumption ==
  /\ \A char \in Alphabet : char \in Seq(0..255) /\ char # <<>>
  /\ \A a, b \in Alphabet : a[1] = b[1] => Len(a) = Len(b)
  /\ MaxIndent \in Nat /\ BlankStart \in BOOLEAN /\ Unclosed \in BOOLEAN

\* No space begins with the byte that another character begins with.
DistinctLeads ==
  \A space \in Spaces, char \in Alphabet : char[1] = space[1] => char = space

VARIABLES
  \* multiline_string_regular
  line,     \* the indentation of this line, full_text[line_start..text_start]
  body,     \* the line has more, full_text.len() > text_start
  lines,    \* the indentations of the lines that are not blank
  regular,  \* its result, "none" while it reads
  \* multiline_string_skip
  indent, truncate, matched,  \* indent, next_truncate_length, matched_bytes
  leading, hasBody,           \* has_leading_space, has_body
  at,       \* in the "first" indentation, in a later one ("match"), behind it
            \* with the next item not seen ("start"), or in the line ("text")
  skip      \* its result, "none" while it reads

regularVars == <<line, body, lines, regular>>
skipVars    == <<indent, truncate, matched, leading, hasBody, at, skip>>
vars        == <<regularVars, skipVars>>

Results == {"none", "Ok", "BadIndent", "BadEndString", "UnexpectedEof",
            "InvalidUtf8", "Panic"}

StartsWith(s, prefix) ==
  Len(prefix) <= Len(s) /\ \A i \in 1..Len(prefix) : s[i] = prefix[i]

-----------------------------------------------------------------------------
(* multiline_string_regular                                                *)

RegularSpace(space) ==
  /\ line' = IF body THEN line ELSE Append(line, space)
  /\ UNCHANGED <<body, lines, regular>>

RegularText ==
  /\ body' = TRUE
  /\ UNCHANGED <<line, lines, regular>>

\* A blank line is pushed as None and may have any indentation.
RegularNewline ==
  /\ lines' = IF body THEN lines \union {line} ELSE lines
  /\ line' = <<>> /\ body' = FALSE
  /\ UNCHANGED regular

\* The number of bytes of the first n characters.
ByteLen(s, n) ==
  LET sum[i \in 0..n] == IF i = 0 THEN 0 ELSE sum[i - 1] + Len(s[i]) IN sum[n]

\* Some character of this line goes across the place where it is to be cut.
CutsThrough(other, cut) ==
  \E i \in 1..Len(other) : ByteLen(other, i - 1) < cut /\ cut < ByteLen(other, i)

\* The line that does not start with the tail's indentation may be any of those:
\* the one that comes first ends the call.
RegularClose ==
  /\ \/ body /\ regular' = "BadEndString"
     \/ /\ ~body /\ \A other \in lines : StartsWith(other, line)
        /\ regular' = "Ok"
     \/ /\ ~body
        /\ \E other \in lines :
             /\ ~StartsWith(other, line)
             /\ regular' = IF CutsThrough(other, ByteLen(line, Len(line)))
                           THEN "Panic" ELSE "BadIndent"
  /\ UNCHANGED <<line, body, lines>>

RegularEof == regular' = "UnexpectedEof" /\ UNCHANGED <<line, body, lines>>

-----------------------------------------------------------------------------
(* multiline_string_skip                                                   *)

\* The loop that matches the indentation breaks at the first byte that differs.
\* If that is not the first one of a character, the line loop goes on inside it
\* and finds that it is no UTF-8.
BreaksInside(char) ==
  /\ at = "match" /\ char # indent[matched + 1] /\ char[1] = indent[matched + 1][1]

SkipInside ==
  /\ skip' = "InvalidUtf8"
  /\ UNCHANGED <<indent, truncate, matched, leading, hasBody, at>>

\* A call that has returned takes no more characters.
SkipChar(char, step) ==
  IF skip # "none" THEN UNCHANGED skipVars
  ELSE IF BreaksInside(char) THEN SkipInside ELSE step

Unmatched == truncate' = IF at = "match" THEN matched ELSE truncate

SkipSpace(space) ==
  /\ \/ /\ at = "first"
        /\ indent' = Append(indent, space) /\ truncate' = Len(indent')
        /\ UNCHANGED <<matched, leading, at>>
     \/ /\ at = "match" /\ indent[matched + 1] = space
        /\ matched' = matched + 1
        /\ at' = IF matched' = Len(indent) THEN "start" ELSE "match"
        /\ UNCHANGED <<indent, truncate, leading>>
     \/ /\ at = "start" \/ (at = "match" /\ indent[matched + 1] # space)
        /\ leading' = TRUE /\ at' = "text"
        /\ Unmatched
        /\ UNCHANGED <<indent, matched>>
     \/ at = "text" /\ UNCHANGED <<indent, truncate, matched, leading, at>>
  /\ UNCHANGED <<hasBody, skip>>

SkipText ==
  /\ hasBody' = TRUE /\ at' = "text"
  /\ Unmatched
  /\ UNCHANGED <<indent, matched, leading, skip>>

\* Mutant: a line without text shortens the indentation as well.
SkipNewlineBlank ==
  /\ indent' = SubSeq(indent, 1, IF at = "match" THEN matched ELSE truncate)
  /\ truncate' = Len(indent')
  /\ matched' = 0
  /\ at' = IF indent' = <<>> THEN "start" ELSE "match"
  /\ leading' = FALSE /\ hasBody' = FALSE
  /\ UNCHANGED skip

\* Mutant: an empty indentation is to be matched as well.
SkipNewlineMatch ==
  /\ indent' = IF hasBody THEN SubSeq(indent, 1, truncate) ELSE indent
  /\ truncate' = Len(indent')
  /\ matched' = 0
  /\ at' = "match"
  /\ leading' = FALSE /\ hasBody' = FALSE
  /\ UNCHANGED skip

\* Mutant: the indentation is that of the first line, whatever follows.
SkipNewlineKeep ==
  /\ UNCHANGED indent
  /\ truncate' = Len(indent')
  /\ matched' = 0
  /\ at' = IF indent' = <<>> THEN "start" ELSE "match"
  /\ leading' = FALSE /\ hasBody' = FALSE
  /\ UNCHANGED skip

SkipNewline ==
  /\ indent' = IF hasBody THEN SubSeq(indent, 1, truncate) ELSE indent
  /\ truncate' = Len(indent')
  /\ matched' = 0
  /\ at' = IF indent' = <<>> THEN "start" ELSE "match"
  /\ leading' = FALSE /\ hasBody' = FALSE
  /\ UNCHANGED skip

SkipClose ==
  /\ skip' = IF hasBody THEN "BadEndString" ELSE IF leading THEN "BadIndent" ELSE "Ok"
  /\ UNCHANGED <<indent, truncate, matched, leading, hasBody, at>>

\* At the end of the input peek() returns nothing: while an indentation is being
\* matched, neither are more bytes matched nor do any differ.
SkipEof ==
  /\ skip' = IF at = "match" THEN "none" ELSE "UnexpectedEof"
  /\ UNCHANGED <<indent, truncate, matched, leading, hasBody, at>>

-----------------------------------------------------------------------------

Reading == regular = "none"

Space ==
  /\ Reading
  /\ ~body => Len(line) < MaxIndent
  /\ \E space \in Spaces : RegularSpace(space) /\ SkipChar(space, SkipSpace(space))

Text ==
  /\ Reading /\ RegularText
  /\ \E char \in Visible : SkipChar(char, SkipText)

Newline ==
  /\ Reading
  /\ at = "first" /\ ~body => BlankStart
  /\ RegularNewline
  /\ \E char \in Breaks : SkipChar(char, SkipNewline)

Close == Reading /\ RegularClose /\ IF skip = "none" THEN SkipClose ELSE UNCHANGED skipVars

Eof ==
  /\ Reading
  /\ at = "match" => Unclosed
  /\ RegularEof /\ IF skip = "none" THEN SkipEof ELSE UNCHANGED skipVars

Init ==
  /\ line = <<>> /\ body = FALSE /\ lines = {} /\ regular = "none"
  /\ indent = <<>> /\ truncate = 0 /\ matched = 0
  /\ leading = FALSE /\ hasBody = FALSE
  /\ at = "first" /\ skip = "none"

Next == Space \/ Text \/ Newline \/ Close \/ Eof

Spec == Init /\ [][Next]_vars

-----------------------------------------------------------------------------

\* The locals have their types, and what was matched, or is to be kept, is a
\* part of the indentation.
TypeOK ==
  /\ line \in Seq(Spaces) /\ body \in BOOLEAN /\ lines \subseteq Seq(Spaces)
  /\ regular \in Results /\ skip \in Results
  /\ indent \in Seq(Spaces)
  /\ truncate \in 0..Len(indent) /\ matched \in 0..Len(indent)
  /\ at = "match" => matched < Len(indent)
  /\ leading \in BOOLEAN /\ hasBody \in BOOLEAN
  /\ at \in {"first", "match", "start", "text"}

\* A string that is read is accepted when it is skipped if and only if it is
\* when it is read, and refused for the same reason.
SkipAgrees == ~Reading /\ regular # "Panic" => skip = regular

\* Reading a string ends in a result, whatever its indentations are: no line is
\* cut within a character.
NoPanic == regular # "Panic"

-----------------------------------------------------------------------------
(* The inductive invariant, for strings whose first line is not blank.     *)

\* Once a line has ended, indent is the longest common beginning of the
\* indentations of the lines so far.
Common ==
  /\ \A other \in lines : StartsWith(other, indent)
  /\ lines # {} =>
       ~\E space \in Spaces : \A other \in lines :
           Len(indent) < Len(other) /\ other[Len(indent) + 1] = space

\* In a line, truncate is the length of what its indentation and indent have
\* in common, and leading tells whether there is more of it.
Match ==
  /\ leading <=> truncate < Len(line)
  /\ truncate <= Len(line)
  /\ \A i \in 1..truncate : line[i] = indent[i]
  /\ truncate < Len(indent) /\ truncate < Len(line) =>
       line[truncate + 1] # indent[truncate + 1]

\* Where the skipping loop stands, and what it knows there.
Place ==
  /\ hasBody = body
  /\ at # "text" => ~body /\ ~leading /\ truncate = Len(indent)
  /\ at = "first" => lines = {} /\ line = indent
  /\ at = "match" => Len(line) = matched /\ \A i \in 1..matched : line[i] = indent[i]
  /\ at = "start" => line = indent
  /\ at = "text" => Match /\ (leading \/ body)
  /\ at # "first" /\ lines = {} => at = "text" /\ body /\ line = indent

IInv ==
  /\ TypeOK
  /\ Reading => skip = "none" /\ Common /\ Place
  /\ SkipAgrees

=============================================================================

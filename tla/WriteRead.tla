----------------------------- MODULE WriteRead -----------------------------
(***************************************************************************)
(* Events -> text -> events: a program hands a structurally valid stream   *)
(* of events to writer::Writer, and a Reader reads the text back.  The     *)
(* text is kept as the tokens it lexes to, and it is read while it is      *)
(* being written, as through a pipe: the writer writes on when the reader  *)
(* has used up what there is.                                              *)
(***************************************************************************)
EXTENDS Reader, Validator

CONSTANTS
  Texts,   \* the names, keys, type hints and string values that are written:
           \* "Plain", or "Keyword" for true, false, null, inf, -inf and nan, or
           \* "Nul" for those with a NUL in them
  Numbers  \* the numbers that are written: "Plain", or "NaN" for one that was
           \* made of a float that is not a number

ASSUME TextsAssumption ==
  Texts \subseteq {"Plain", "Keyword", "Nul"} /\ Numbers \subseteq {"Plain", "NaN"}

VARIABLES
  wstate, indent,  \* Writer::state, Writer::indent
  written,         \* the tokens in the pipe
  sealed,          \* the text is complete
  due              \* the events that are written and not yet read

writerVars == <<wstate, indent>>
pipeVars   == <<written, sealed, due>>
vars == <<readerVars, writerVars, validatorVars, pipeVars>>

-----------------------------------------------------------------------------
(* Writer::push, one operator per event.                                   *)

\* IdentDisplay quotes and escapes what an identifier cannot hold, but writes
\* keywords bare, and a NUL as \0, which is no escape of KDL.
Ident(word) == IF word \in {"Keyword", "Nul"} THEN "Unlexable" ELSE "String"

\* A Number is written as the text it holds, which is #NaN for a NaN; of
\* keywords the lexer knows #nan.
Numeral(number) == IF number = "NaN" THEN "Unlexable" ELSE "Number"

TypeHints == {<<>>} \union {<<"OpenParen", Ident(word), "CloseParen">> : word \in Texts}
Keys      == {<<>>} \union {<<Ident(word), "Equals">> : word \in Texts}
Values    == {<<"Keyword">>} \union {<<Numeral(number)>> : number \in Numbers}
                             \union {<<Ident(word)>> : word \in Texts}

\* line(): a line break and the indentation lex to one token.
Line == <<"Lines">>

Write(tokens) == written' = written \o tokens

\* Mutant: every node goes on the line where the last one ended.
WriteNodeInline ==
  /\ \E hint \in TypeHints, word \in Texts : Write(hint \o <<Ident(word)>>)
  /\ wstate' = "Node"
  /\ UNCHANGED indent

WriteNode ==
  /\ \E hint \in TypeHints, word \in Texts :
       Write((IF wstate = "First" THEN <<>> ELSE Line) \o hint \o <<Ident(word)>>)
  /\ wstate' = "Node"
  /\ UNCHANGED indent

WriteEntry ==
  /\ \E key \in Keys, hint \in TypeHints, value \in Values :
       Write(<<"Spaces">> \o key \o hint \o value)
  /\ UNCHANGED writerVars

WriteChildren ==
  /\ Write(<<"Spaces", "OpenCurly">>)
  /\ indent' = indent + 1
  /\ wstate' = "BlockStart"

\* Mutant: only a block with nodes in it gets its closing brace.
WriteEndNoEmpty ==
  /\ \/ wstate = "Block" /\ Write(Line \o <<"CloseCurly">>) /\ indent' = indent - 1
     \/ wstate # "Block" /\ Write(<<>>) /\ UNCHANGED indent
  /\ wstate' = "Block"

\* Mutant: the state is left as it was.
WriteEndSame ==
  /\ \/ wstate = "BlockStart" /\ Write(<<"CloseCurly">>) /\ indent' = indent - 1
     \/ wstate = "Block" /\ Write(Line \o <<"CloseCurly">>) /\ indent' = indent - 1
     \/ wstate \notin {"BlockStart", "Block"} /\ Write(<<>>) /\ UNCHANGED indent
  /\ UNCHANGED wstate

\* Mutant: a node without a block closes one all the same.
WriteEndAlways ==
  /\ Write((IF wstate = "BlockStart" THEN <<>> ELSE Line) \o <<"CloseCurly">>)
  /\ indent' = indent - 1
  /\ wstate' = "Block"

WriteEnd ==
  /\ \/ wstate = "BlockStart" /\ Write(<<"CloseCurly">>) /\ indent' = indent - 1
     \/ wstate = "Block" /\ Write(Line \o <<"CloseCurly">>) /\ indent' = indent - 1
     \/ wstate \notin {"BlockStart", "Block"} /\ Write(<<>>) /\ UNCHANGED indent
  /\ wstate' = "Block"

PushEvent(event) ==
  \/ event = "Node" /\ WriteNode
  \/ event = "Entry" /\ WriteEntry
  \/ event = "Children" /\ WriteChildren
  \/ event = "End" /\ WriteEnd

-----------------------------------------------------------------------------
(* The two programs.                                                       *)

Produce ==
  /\ written = <<>> /\ ~sealed
  /\ \E event \in Events :
       /\ event = "Node" => nest < MaxNest
       /\ Push(event) /\ result' = "Ok"
       /\ PushEvent(event)
       /\ due' = Append(due, event)
  /\ UNCHANGED <<readerVars, sealed>>

Seal ==
  /\ written = <<>> /\ ~sealed
  /\ Done /\ result' = "Ok"
  /\ sealed' = TRUE
  /\ UNCHANGED <<readerVars, writerVars, written, due>>

\* Lexer::next_token on what is in the pipe.
ReadToken ==
  /\ \/ /\ written # <<>>
        /\ IF Head(written) = "Unlexable" THEN LexError ELSE Lexed(Head(written))
        /\ written' = Tail(written)
     \/ /\ written = <<>> /\ sealed
        /\ Lexed("Eof")
        /\ UNCHANGED written
  /\ UNCHANGED <<writerVars, validatorVars, sealed, due>>

ReadStep == Parse /\ UNCHANGED <<writerVars, validatorVars, pipeVars>>

\* The consumer takes the event it got and asks for the next one.
Consume ==
  /\ out \notin {"Done", "Err", "Panic"}
  /\ CallNext
  /\ due' = IF out = "None" THEN due ELSE Tail(due)
  /\ UNCHANGED <<writerVars, validatorVars, written, sealed>>

WriteReadInit ==
  /\ ReaderInit
  /\ wstate = "First" /\ indent = 0
  /\ Init
  /\ written = <<>> /\ sealed = FALSE /\ due = <<>>

WriteReadNext == Produce \/ Seal \/ ReadToken \/ ReadStep \/ Consume

WriteReadSpec == WriteReadInit /\ [][WriteReadNext]_vars

\* The producer may stop at any time; the consumer is a loop that does not.
FairSpec == WriteReadSpec /\ WF_vars(ReadToken) /\ WF_vars(ReadStep) /\ WF_vars(Consume)

-----------------------------------------------------------------------------

\* The writer's fields and the pipe have their types; the indentation, which is
\* counted down at every closing brace, never goes below zero.
WriteReadTypeOK ==
  /\ wstate \in {"First", "BlockStart", "Block", "Node"}
  /\ indent \in Nat
  /\ written \in Seq(Tokens \union {"Unlexable"})
  /\ sealed \in BOOLEAN
  /\ due \in Seq(Events)
  /\ TypeOK

\* What the reader returns is what was written, event by event and in order,
\* whatever the layout; it returns no error, and it is done only when
\* everything has been read.
RoundTrip ==
  call = "idle" /\ out # "None" =>
    \/ due # <<>> /\ out = Head(due)
    \/ out = "Done" /\ sealed /\ written = <<>> /\ due = <<>>

\* The writer's indentation is the number of open blocks, a node's own block
\* included: the text ends where it began.
IndentIsDepth == indent = IF vstate = "Node" THEN nest - 1 ELSE nest

\* The reader never needs more than the next piece of text to tell what an
\* event is: at most four events are written and not yet read.
Prompt == Len(due) <= 4

\* A text that is complete is read to its end.
Delivered == sealed ~> (call = "idle" /\ out = "Done")

=============================================================================

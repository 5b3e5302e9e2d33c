------------------------------- MODULE Reader -------------------------------
(***************************************************************************)
(* reader::Reader of just-kdl: the pull parser that turns the tokens of    *)
(* lexer::Lexer into events, one token at a time.                          *)
(*                                                                         *)
(* A call of next() or skip_to_end() runs through control points, named by *)
(* the variable "at".  Every control point but "inner" looks at the token  *)
(* that peek_token holds; when it holds none, the action Peek asks the     *)
(* lexer, which may answer with any token it could produce there or with   *)
(* an error.  Text, numbers and spans are left out: a token is its kind,   *)
(* an event is its kind and whether it carries text (Some) or was skipped. *)
(***************************************************************************)
EXTENDS Naturals, Sequences

CONSTANTS
  MaxDepth,                \* the input nests no more open brackets than this
  SlashDashAfterChildren,  \* the input may hold "node { } /-{ }"
  ResumeAfterError         \* the caller goes on after skip_to_end() failed

ASSUME ReaderAssumption ==
  /\ MaxDepth \in Nat
  /\ SlashDashAfterChildren \in BOOLEAN
  /\ ResumeAfterError \in BOOLEAN

VARIABLES
  state,      \* Reader::state, its payload written into the name
  brackets,   \* Reader::brackets, one per open block, TRUE = slashdashed
  peekToken,  \* Reader::peek_token, "none" when empty
  lexed,      \* what the lexer returned last, as far as the next token cares
  call,       \* the running call, or "idle"
  skipping,   \* the innermost skip_bracketed: over a "node", "children" or "no"
  counter,    \* its local counter
  at,         \* where next_inner_event stands
  sd,         \* local: a slashdash was read in front of the node or entry
  spaces,     \* local: spaces / next_spaces
  text,       \* local: the key (if there is one) has text
  out         \* what the last call returned

lexVars    == <<peekToken, lexed>>
callVars   == <<call, skipping, counter, out>>
localVars  == <<sd, spaces, text>>
readerVars == <<state, brackets, lexVars, callVars, at, localVars>>

States == {"Begin", "NextNode", "NodeEntries", "NodeEntriesSpaced",
           "NodeChildrenReal", "NodeChildrenPast", "Done"}

InnerEvents == {"Node", "NodeSkipped", "Entry", "EntrySkipped", "Children",
                "ChildrenSd", "End", "EndSd", "Done"}

SkippedTokens == {"SkippedString", "SkippedNumber"}
TextTokens    == {"String", "Number"}
ValueTokens   == SkippedTokens \union TextTokens \union {"Keyword"}
StringTokens  == {"String", "SkippedString"}
Tokens == ValueTokens \union
          {"Bom", "Spaces", "Lines", "Eof", "SemiColon", "Equals", "OpenParen",
           "CloseParen", "OpenCurly", "CloseCurly", "SlashDash"}

SpacePoints == {"entrySpaces", "keySpaces", "propSpaces",
                "typeLead", "typeGap", "typeTail"}
LinePoints  == {"lines", "lines2", "sdLines", "sdLines2"}
Points == SpacePoints \union LinePoints \union
          {"inner", "bom", "node", "name", "entryCase", "entry", "key", "value",
           "typeOpen", "typeName", "typeClose"}

InBlock  == state \in {"Begin", "NextNode"}
Entries  == state = "NodeEntries"
RealBody == state # "NodeChildrenPast"
Skip     == skipping # "no"

-----------------------------------------------------------------------------
(* The lexer, as the reader sees it.                                       *)

\* Mutant: a commented-out entry skips the token behind its key as well.
LexSkipTooFar == Skip \/ sd \/ at \in {"sdLines", "sdLines2"}

\* The "skip" argument of peek at each control point.
LexSkip ==
  CASE at \in {"sdLines", "sdLines2"} -> TRUE
    [] at \in {"typeOpen", "typeLead", "typeName", "typeGap", "typeClose",
               "typeTail", "name", "entry", "propSpaces", "value"} -> Skip \/ sd
    [] OTHER -> Skip

\* Spaces and Lines swallow all the blank input that follows them (Spaces stop
\* before a line), a BOM is only one at offset 0, and the end of input stays.
Lexable(token) ==
  /\ lexed = "Eof"      => token = "Eof"
  /\ token = "Spaces"   => lexed \notin {"Spaces", "Lines"}
  /\ token = "Lines"    => lexed # "Lines"
  /\ token = "Bom"      => lexed = "Start"
  /\ token \in SkippedTokens => LexSkip
  /\ token \in TextTokens    => ~LexSkip

\* The bounds on the input.
Offered(token) ==
  token = "OpenCurly" =>
    /\ Len(brackets) < MaxDepth
    /\ ~RealBody /\ at \in {"sdLines", "sdLines2", "entry"}
         => SlashDashAfterChildren

Lexed(token) ==
  /\ at # "inner" /\ peekToken = "none" /\ Lexable(token)
  /\ peekToken' = token
  /\ lexed' = IF token \in {"Spaces", "Lines", "Eof"} THEN token ELSE "Other"
  /\ UNCHANGED <<state, brackets, callVars, at, localVars>>

Peek == \E token \in Tokens : Offered(token) /\ Lexed(token)

Advance == peekToken' = "none" /\ UNCHANGED lexed
Keep    == UNCHANGED lexVars

-----------------------------------------------------------------------------
(* The callers of next_inner_event.                                        *)

Return(result) ==
  /\ out' = result
  /\ call' = "idle"
  /\ skipping' = "no"
  /\ counter' = 0

Continue(skip, n) ==
  /\ skipping' = skip
  /\ counter' = n
  /\ UNCHANGED <<call, out>>

\* next_event: what it does with an inner event outside any skip.
NextEvent(event) ==
  \/ event \in {"Node", "Entry", "Children", "End", "Done"} /\ Return(event)
  \/ event = "EntrySkipped" /\ Continue("no", 0)
  \/ event = "NodeSkipped"  /\ Continue("node", 0)
  \/ event = "ChildrenSd"   /\ Continue("children", 0)
  \/ event = "EndSd"        /\ Return("Panic")

\* Mutant: only the outermost node of a skip counts.
OpenerNoNodes == IF skipping = "node" THEN "none" ELSE "ChildrenSd"

Opener == IF skipping = "node" THEN "NodeSkipped" ELSE "ChildrenSd"

\* Mutant: a skipped block ends like a node.
CloserOfNodes == "End"

Closer == IF skipping = "node" THEN "End" ELSE "EndSd"

EndSkip == IF call = "next" THEN Continue("no", 0) ELSE Return("Skipped")

\* Mutant: the end of the input does not end a skip.
SkipBracketedNoDone(event) ==
  \/ event = Opener /\ Continue(skipping, counter + 1)
  \/ event = Closer /\ counter > 0 /\ Continue(skipping, counter - 1)
  \/ event = Closer /\ counter = 0 /\ EndSkip
  \/ event \notin {Opener, Closer} /\ Continue(skipping, counter)

\* Mutant: the skip ends when its counter wraps, not when it would.
SkipBracketedLate(event) ==
  \/ event = "Done" /\ EndSkip
  \/ event = Opener /\ Continue(skipping, counter + 1)
  \/ event = Closer /\ Continue(skipping, counter - 1)
  \/ event \notin {"Done", Opener, Closer} /\ Continue(skipping, counter)

SkipBracketed(event) ==
  \/ event = "Done" /\ EndSkip
  \/ event = Opener /\ Continue(skipping, counter + 1)
  \/ event = Closer /\ counter > 0 /\ Continue(skipping, counter - 1)
  \/ event = Closer /\ counter = 0 /\ EndSkip
  \/ event \notin {"Done", Opener, Closer} /\ Continue(skipping, counter)

\* next_inner_event returns: its locals are dropped, its caller goes on.
LeaveInner == at' = "inner" /\ sd' = FALSE /\ spaces' = FALSE /\ text' = FALSE

Deliver(event) ==
  /\ LeaveInner
  /\ IF Skip THEN SkipBracketed(event) ELSE NextEvent(event)

\* An error leaves every loop; only next() stops the reader for good.
Fail ==
  /\ LeaveInner
  /\ Return("Err")
  /\ state' = IF call = "next" THEN "Done" ELSE state
  /\ UNCHANGED brackets

\* An error of the lexer stays in peek_token as an Eof.
LexError ==
  /\ at # "inner" /\ peekToken = "none" /\ lexed # "Eof"
  /\ peekToken' = "Eof" /\ lexed' = "Other"
  /\ Fail

-----------------------------------------------------------------------------
(* next_inner_event, the parts that nodes and entries share.               *)

At(point) == at = point /\ peekToken # "none"

Goto(point) == at' = point /\ UNCHANGED <<state, brackets, callVars>>

\* The point that follows a call of skip_spaces.
AfterSpaces ==
  CASE at = "entrySpaces" -> "entryCase"
    [] at = "keySpaces"   -> "key"
    [] at = "propSpaces"  -> "typeOpen"
    [] at = "typeLead"    -> "typeName"
    [] at = "typeGap"     -> "typeClose"
    [] at = "typeTail"    -> IF InBlock THEN "name" ELSE "value"

SkipSpaces ==
  /\ at \in SpacePoints /\ peekToken # "none"
  /\ IF peekToken = "Spaces" THEN Advance ELSE Keep
  /\ spaces' = (peekToken = "Spaces")
  /\ Goto(AfterSpaces)
  /\ UNCHANGED <<sd, text>>

AfterLines ==
  IF at \in {"lines", "lines2"} THEN "node"
  ELSE IF InBlock THEN "typeOpen" ELSE "entry"

SkipLines ==
  /\ at \in LinePoints
  /\ \/ /\ peekToken = "Spaces" /\ at \in {"lines", "sdLines"}
        /\ Advance
        /\ Goto(IF at = "lines" THEN "lines2" ELSE "sdLines2")
     \/ /\ peekToken = "Lines"
        /\ Advance
        /\ Goto(AfterLines)
     \/ /\ peekToken \notin {"none", "Lines"}
        /\ peekToken = "Spaces" => at \in {"lines2", "sdLines2"}
        /\ Keep
        /\ Goto(AfterLines)
  /\ UNCHANGED localVars

\* maybe_slash_dash, at the case token of a node or of an entry.
SlashDash ==
  /\ At("node") \/ At("entryCase")
  /\ peekToken = "SlashDash"
  /\ Advance
  /\ sd' = TRUE
  /\ Goto("sdLines")
  /\ UNCHANGED <<spaces, text>>

MaybeType ==
  /\ At("typeOpen")
  /\ IF peekToken = "OpenParen"
       THEN Advance /\ Goto("typeLead")
       ELSE Keep /\ Goto(IF InBlock THEN "name" ELSE "value")
  /\ UNCHANGED localVars

TypeName ==
  /\ At("typeName")
  /\ Advance
  /\ IF peekToken \in StringTokens
       THEN Goto("typeGap") /\ UNCHANGED localVars
       ELSE Fail

TypeClose ==
  /\ At("typeClose")
  /\ Advance
  /\ IF peekToken = "CloseParen"
       THEN Goto("typeTail") /\ UNCHANGED localVars
       ELSE Fail

-----------------------------------------------------------------------------
(* next_inner_event in a block: states Begin and NextNode.                 *)

EnterInner ==
  /\ at = "inner" /\ call # "idle"
  /\ \/ /\ InBlock
        /\ Goto("bom")
        /\ UNCHANGED spaces
     \/ /\ state \in {"NodeEntries", "NodeChildrenReal", "NodeChildrenPast"}
        /\ Goto("entrySpaces")
        /\ UNCHANGED spaces
     \/ /\ state = "NodeEntriesSpaced"
        /\ state' = "NodeEntries"
        /\ at' = "entryCase"
        /\ spaces' = TRUE
        /\ UNCHANGED <<brackets, callVars>>
  /\ UNCHANGED <<lexVars, sd, text>>

InnerDone ==
  /\ at = "inner" /\ call # "idle"
  /\ state = "Done"
  /\ Deliver("Done")
  /\ UNCHANGED <<state, brackets, lexVars>>

SkipBom ==
  /\ At("bom")
  /\ IF peekToken = "Bom" THEN Advance ELSE Keep
  /\ Goto("lines")
  /\ UNCHANGED localVars

EndOfInput ==
  /\ At("node") /\ peekToken = "Eof"
  /\ Keep
  /\ IF brackets = <<>>
       THEN state' = "Done" /\ Deliver("Done") /\ UNCHANGED brackets
       ELSE Fail

CloseBlock ==
  /\ At("node") /\ peekToken = "CloseCurly"
  /\ IF brackets = <<>>
       THEN Keep /\ Fail
       ELSE LET pop == brackets[Len(brackets)] IN
            /\ Advance
            /\ brackets' = SubSeq(brackets, 1, Len(brackets) - 1)
            /\ state' = IF pop THEN "NodeChildrenReal" ELSE "NodeChildrenPast"
            /\ Deliver(IF pop THEN "EndSd" ELSE "End")

StartNode ==
  /\ At("node") /\ peekToken \notin {"Eof", "CloseCurly", "SlashDash"}
  /\ Keep
  /\ Goto("typeOpen")
  /\ UNCHANGED localVars

NodeName ==
  /\ At("name")
  /\ Advance
  /\ IF peekToken \in StringTokens
       THEN /\ state' = "NodeEntries"
            /\ Deliver(IF peekToken = "String" THEN "Node" ELSE "NodeSkipped")
            /\ UNCHANGED brackets
       ELSE Fail

-----------------------------------------------------------------------------
(* next_inner_event in a node: states NodeEntries and NodeChildren.        *)

Terminators == {"Eof", "CloseCurly", "SemiColon", "Lines"}

Terminator ==
  /\ At("entryCase") /\ peekToken \in Terminators
  /\ IF peekToken \in {"SemiColon", "Lines"} THEN Advance ELSE Keep
  /\ state' = "NextNode"
  /\ Deliver(IF RealBody THEN "End" ELSE "EntrySkipped")
  /\ UNCHANGED brackets

StartEntry ==
  /\ At("entryCase") /\ peekToken \notin Terminators \union {"SlashDash"}
  /\ Keep
  /\ Goto("entry")
  /\ UNCHANGED localVars

IsBlock == peekToken = "OpenCurly" /\ (RealBody \/ sd)

\* Mutant: the bracket of a slashdashed block looks like any other.
PushedBracketPlain == FALSE

\* brackets.push(sd && real_body)
PushedBracket == sd /\ RealBody

OpenBlock ==
  /\ At("entry") /\ IsBlock
  /\ Advance
  /\ brackets' = Append(brackets, PushedBracket)
  /\ state' = "NextNode"
  /\ Deliver(IF sd THEN "ChildrenSd" ELSE "Children")

MayBeEntry == ~IsBlock /\ Entries /\ (sd \/ spaces)

BadEntry ==
  /\ At("entry")
  /\ ~IsBlock
  /\ MayBeEntry => peekToken \notin ValueTokens \union {"OpenParen"}
  /\ Keep
  /\ Fail

\* A string: an argument, or the key of a property.
ArgumentOrKey ==
  /\ At("entry") /\ MayBeEntry /\ peekToken \in StringTokens
  /\ Advance
  /\ text' = (peekToken = "String")
  /\ Goto("keySpaces")
  /\ UNCHANGED <<sd, spaces>>

\* value(): Some, or None for a skipped token and for a skipped keyword.
HasValue(token) == token \in TextTokens \/ (token = "Keyword" /\ ~(Skip \/ sd))

EntryEvent(some) == IF some THEN "Entry" ELSE "EntrySkipped"

Argument ==
  /\ At("entry") /\ MayBeEntry /\ peekToken \in ValueTokens \ StringTokens
  /\ Advance
  /\ Deliver(EntryEvent(HasValue(peekToken)))
  /\ UNCHANGED <<state, brackets>>

TypedArgument ==
  /\ At("entry") /\ MayBeEntry /\ peekToken = "OpenParen"
  /\ Advance
  /\ text' = TRUE
  /\ Goto("typeLead")
  /\ UNCHANGED <<sd, spaces>>

StringArgument ==
  /\ At("key") /\ peekToken # "Equals"
  /\ Keep
  /\ state' = IF spaces THEN "NodeEntriesSpaced" ELSE "NodeEntries"
  /\ Deliver(EntryEvent(text))
  /\ UNCHANGED brackets

Property ==
  /\ At("key") /\ peekToken = "Equals"
  /\ Advance
  /\ Goto("propSpaces")
  /\ UNCHANGED localVars

\* name.zip(value) of a property, or the value after a type.
EntryValue ==
  /\ At("value")
  /\ Advance
  /\ IF peekToken \in ValueTokens
       THEN /\ Deliver(EntryEvent(text /\ HasValue(peekToken)))
            /\ UNCHANGED <<state, brackets>>
       ELSE Fail

-----------------------------------------------------------------------------

\* The program calls again: never after a panic, and after an error only when
\* the reader has stopped itself, unless ResumeAfterError.
MayCall ==
  /\ call = "idle"
  /\ out # "Panic"
  /\ out = "Err" => state = "Done" \/ ResumeAfterError

CallNext ==
  /\ MayCall
  /\ call' = "next"
  /\ UNCHANGED <<state, brackets, lexVars, skipping, counter, at, localVars, out>>

CallSkipToEnd ==
  /\ MayCall
  /\ call' = "skip_to_end"
  /\ skipping' = "node"
  /\ counter' = 0
  /\ UNCHANGED <<state, brackets, lexVars, at, localVars, out>>

\* What a call does with its tokens.
Parse ==
  \/ SkipSpaces \/ SkipLines \/ SlashDash
  \/ MaybeType \/ TypeName \/ TypeClose
  \/ EnterInner \/ InnerDone \/ SkipBom \/ EndOfInput \/ CloseBlock
  \/ StartNode \/ NodeName
  \/ Terminator \/ StartEntry \/ OpenBlock \/ BadEntry \/ ArgumentOrKey
  \/ Argument \/ TypedArgument \/ StringArgument \/ Property \/ EntryValue

Step == Peek \/ LexError \/ Parse

ReaderInit ==
  /\ state = "Begin" /\ brackets = <<>>
  /\ peekToken = "none" /\ lexed = "Start"
  /\ call = "idle" /\ skipping = "no" /\ counter = 0 /\ out = "None"
  /\ at = "inner" /\ sd = FALSE /\ spaces = FALSE /\ text = FALSE

=============================================================================

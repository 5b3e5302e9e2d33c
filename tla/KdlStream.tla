----------------------------- MODULE KdlStream -----------------------------
(***************************************************************************)
(* A program that reads a document event by event: it calls the Reader's   *)
(* next() and skip_to_end() in any order and hands every event it gets to  *)
(* a Validator.  skip_to_end() ends the current node, or goes to the       *)
(* parent block: the program accounts for it with one End of its own.      *)
(***************************************************************************)
EXTENDS Reader, FiniteSets

VARIABLES nest, vstate, result  \* the Validator

validatorVars == <<nest, vstate, result>>
vars == <<readerVars, validatorVars>>

V == INSTANCE Validator WITH MaxNest <- 0

Drop == vstate' = "Consumed" /\ UNCHANGED <<nest, result>>

\* What the program does with the result of the call that returns.
Consume ==
  \/ out' \in V!Events /\ V!Push(out')
  \/ out' = "Skipped" /\ nest > 0 /\ V!Push("End")
  \/ out' = "Skipped" /\ nest = 0 /\ UNCHANGED validatorVars
  \/ out' = "Done" /\ V!Done
  \/ out' = "Err" /\ ResumeAfterError /\ state' # "Done" /\ UNCHANGED validatorVars
  \/ out' = "Err" /\ ~(ResumeAfterError /\ state' # "Done") /\ Drop
  \/ out' = "Panic" /\ Drop

Observe ==
  IF call' = "idle" /\ vstate # "Consumed" THEN Consume ELSE UNCHANGED validatorVars

Call == (CallNext \/ CallSkipToEnd) /\ UNCHANGED validatorVars

ReadStep == Step /\ Observe

StreamInit == ReaderInit /\ V!Init

StreamNext == Call \/ ReadStep

\* Nothing obliges the program to call, but a call that runs is a loop of one
\* thread: it takes its next step.
Spec == StreamInit /\ [][StreamNext]_vars
FairSpec == Spec /\ WF_vars(ReadStep)

-----------------------------------------------------------------------------

\* The reader's and the validator's fields, and the locals of a running call,
\* keep their types; the counter of skip_bracketed never goes below zero.
TypeOK ==
  /\ state \in States
  /\ brackets \in Seq(BOOLEAN)
  /\ peekToken \in Tokens \union {"none"}
  /\ lexed \in {"Start", "Spaces", "Lines", "Eof", "Other"}
  /\ call \in {"idle", "next", "skip_to_end"}
  /\ skipping \in {"no", "node", "children"}
  /\ counter \in Nat
  /\ at \in Points
  /\ sd \in BOOLEAN /\ spaces \in BOOLEAN /\ text \in BOOLEAN
  /\ out \in {"None", "Node", "Entry", "Children", "End", "Done", "Err",
              "Skipped", "Panic"}
  /\ V!TypeOK

\* The events of a document that parses form a structurally valid stream: no
\* event is refused by Validator::push, and at the end every node is closed.
ValidStream == result = "Ok"

\* next_event never meets the end of a slashdashed block outside a skip, its
\* unreachable!("bad stream").
NoPanic == out # "Panic"

\* A node is open whose entries or slashdashed blocks may still follow.
InNode == state \in {"NodeEntries", "NodeEntriesSpaced", "NodeChildrenReal"}

\* The number of nodes the reader is inside of, skipped ones included: one for
\* every bracket, and one more while a node's entries or first blocks are read.
Depth == Len(brackets) + (IF InNode THEN 1 ELSE 0)

\* Between calls the reader stands exactly where the events it gave out say:
\* a skip, however it nests, neither ends early nor swallows an End too many.
DepthAgrees ==
  call = "idle" /\ vstate # "Consumed" =>
    /\ nest = Depth
    /\ vstate = "Node" <=> InNode

\* A token peeked under one skip mode is only used under a mode it fits: text
\* that the program will see was never skipped by the lexer, and a name or a
\* value that is commented out was (peek_token survives a change of the mode).
LookaheadFits ==
  peekToken # "none" =>
    /\ at \in {"name", "typeName", "entry", "value"} /\ ~Skip /\ ~sd
         => peekToken \notin SkippedTokens
    /\ at = "name" /\ (Skip \/ sd) => peekToken # "String"
    /\ at \in {"entry", "value"} /\ ~Skip /\ sd => peekToken \notin TextTokens

\* Once the input has ended, every call returns: neither the loop of next_event
\* nor skip_bracketed can go round forever.
CallReturns == (lexed = "Eof" /\ call # "idle") ~> (call = "idle")

-----------------------------------------------------------------------------
(* The parts of the inductive invariant.                                   *)

BlockPoints == {"bom", "lines", "lines2", "node", "name"}
NodePoints  == {"entrySpaces", "entryCase", "entry"}
ValuePoints == {"keySpaces", "key", "propSpaces", "value"}
TypePoints  == {"typeOpen", "typeLead", "typeName", "typeGap", "typeClose", "typeTail"}
BlankPoints == {"sdLines", "sdLines2"}
NodeStates  == {"NodeEntries", "NodeChildrenReal", "NodeChildrenPast"}

\* Where the control of a call stands, and what it knows there.
Control ==
  /\ call = "idle" => at = "inner" /\ skipping = "no"
  /\ call = "skip_to_end" => skipping = "node"
  /\ at \in BlockPoints => InBlock
  /\ at \in NodePoints  => state \in NodeStates
  /\ at \in ValuePoints => state = "NodeEntries"
  /\ at \in TypePoints  => InBlock \/ state = "NodeEntries"
  /\ at \in BlankPoints => InBlock \/ state \in NodeStates
  /\ at \in {"inner", "bom", "lines", "lines2", "node", "entrySpaces", "entryCase"} => ~sd
  /\ state = "NodeChildrenPast" /\ peekToken = "OpenCurly"
       /\ at \in BlankPoints \union {"entry"} => at = "entry" /\ ~sd
  /\ InBlock /\ peekToken = "String" =>
       (at # "inner" /\ ~Skip) \/ (call = "idle" /\ out = "Err")
  /\ call # "idle" /\ out = "Err" => state = "Done"

\* What a token left in peek_token says of the skip mode it was read under, as
\* far as the point that will use it can tell.
Peeked ==
  /\ at \in BlankPoints => sd
  /\ peekToken \in SkippedTokens =>
       \/ Skip \/ (sd /\ at \notin {"keySpaces", "key"})
       \/ state = "Done" \/ (call = "idle" /\ out = "Err")
  /\ sd /\ ~Skip /\ peekToken \in TextTokens => at \in {"keySpaces", "key"}

Slashdashed(s) == {i \in 1..Len(s) : s[i]}

PlainBelow(s, n) == \A i \in 1..Len(s) : i < n => ~s[i]

\* Outside a skip, reader and validator agree; inside one, the local counter
\* measures how far the reader is ahead of the validator.
Linked ==
  vstate # "Consumed" =>
    /\ state = "Done" => brackets = <<>>
    /\ skipping = "no" =>
         /\ nest = Depth
         /\ vstate = "Node" <=> InNode
         /\ PlainBelow(brackets, Len(brackets) + 1)
    /\ skipping = "node" /\ call = "next" =>
         /\ Depth = nest + 1 + counter
         /\ vstate = "Block"
         /\ PlainBelow(brackets, nest + 1)
    /\ skipping = "node" /\ call = "skip_to_end" =>
         /\ Depth = nest + counter
         /\ PlainBelow(brackets, nest)
    /\ skipping = "children" =>
         /\ vstate = "Node"
         /\ nest \in 1..Len(brackets) /\ brackets[nest]
         /\ PlainBelow(brackets, nest)
         /\ Cardinality(Slashdashed(brackets)) = counter + 1

\* Once the validator is dropped or done, no event can follow.
Stopped ==
  vstate = "Consumed" => state = "Done" \/ (call = "idle" /\ out = "Err")

IInv == TypeOK /\ Control /\ Linked /\ Stopped /\ ValidStream /\ NoPanic

=============================================================================

----------------------------- MODULE EventProofs -----------------------------
(***************************************************************************)
(* What is proved of the modules that know a stream of events but no       *)
(* document: the Validator, and a Writer whose text a Reader reads back.   *)
(***************************************************************************)
EXTENDS WriteRead, TLAPS, SequenceTheorems

-----------------------------------------------------------------------------
(* A Validator, which keeps a number and a word, implements the grammar of *)
(* EventStream, which keeps the stack of open nodes.                       *)

\* The fields of Validator keep their types, and a node that takes entries is
\* counted in nest, however long and deep the stream.
THEOREM TypeCorrect == Spec => []TypeOK
<1>1. Init => TypeOK
  BY DEF Init, TypeOK, Results
<1>2. TypeOK /\ [Next]_validatorVars => TypeOK'
  <2> SUFFICES ASSUME TypeOK, [Next]_validatorVars PROVE TypeOK'
    OBVIOUS
  <2>1. CASE UNCHANGED validatorVars
    BY <2>1 DEF TypeOK, validatorVars
  <2>2. CASE Done
    BY <2>2 DEF TypeOK, Done, Results
  <2>3. ASSUME NEW event \in Events, Push(event) PROVE TypeOK'
    BY <2>3 DEF TypeOK, Push, PushEnd, PushEntry, PushChildren, PushNode, Move, Err,
         Results
  <2> QED
    BY <2>1, <2>2, <2>3 DEF Next
<1> QED
  BY <1>1, <1>2, PTL DEF Spec

-----------------------------------------------------------------------------

\* The innermost node takes entries exactly when the state says Node, and no
\* node is open exactly when nothing is counted.
LEMMA OpenNodesShape ==
  ASSUME TypeOK, ~Over
  PROVE  /\ OpenNodes \in Seq({"entries", "block"})
         /\ Len(OpenNodes) = nest
         /\ OpenNodes = <<>> <=> nest = 0
         /\ Stream!InEntries <=> vstate = "Node"
<1>1. OpenNodes \in Seq({"entries", "block"}) /\ Len(OpenNodes) = nest
  BY DEF OpenNodes, TypeOK
<1>2. OpenNodes = <<>> <=> nest = 0
  BY <1>1
<1>3. nest > 0 => OpenNodes[nest] = IF vstate = "Node" THEN "entries" ELSE "block"
  BY DEF OpenNodes, TypeOK
<1> QED
  BY <1>1, <1>2, <1>3 DEF Stream!InEntries, TypeOK, Over

\* An accepted event changes the stack of open nodes as the grammar says.
LEMMA PushSimulates ==
  ASSUME TypeOK, NEW event \in Events, Push(event)
  PROVE  Stream!Next
<1> DEFINE Before == OpenNodes
           After  == OpenNodes'
<1>0. ~Over /\ ~Over'
  BY DEF Push, PushEnd, PushEntry, PushChildren, PushNode, Move, Err, Over, TypeOK
<1>1. /\ Before \in Seq({"entries", "block"}) /\ Len(Before) = nest
      /\ Before = <<>> <=> nest = 0
      /\ Stream!InEntries <=> vstate = "Node"
  BY <1>0, OpenNodesShape
<1>2. SUFFICES Stream!Accept(event) \/ Stream!Refuse(event)
  BY <1>0 DEF Stream!Next, Stream!Events, Events
<1>3. CASE UNCHANGED <<nest, vstate>>  /\ result' # "Ok"
  <2>1. ~Stream!Legal(event)
    BY <1>0, <1>1, <1>3 DEF Push, PushEnd, PushEntry, PushChildren, PushNode, Move, Err,
         Stream!Legal, TypeOK, Events, Over
  <2>2. After = Before
    BY <1>3 DEF OpenNodes
  <2> QED
    BY <1>0, <1>3, <2>1, <2>2 DEF Stream!Refuse, Over
<1>4. ASSUME event = "Node", vstate = "Block", Move(nest + 1, "Node")
      PROVE  Stream!Accept(event)
  <2>1. After = Append(Before, "entries")
    BY <1>4 DEF OpenNodes, Move, TypeOK
  <2> QED
    BY <1>0, <1>1, <1>4, <2>1 DEF Stream!Accept, Stream!Legal, Move, Over
<1>5. ASSUME event = "Entry", vstate = "Node", Move(nest, "Node")
      PROVE  Stream!Accept(event)
  <2>1. After = Before
    BY <1>5 DEF OpenNodes, Move
  <2> QED
    BY <1>0, <1>1, <1>5, <2>1 DEF Stream!Accept, Stream!Legal, Move, Over
<1>6. ASSUME event = "Children", vstate = "Node", Move(nest, "Block")
      PROVE  Stream!Accept(event)
  <2>1. After = [Before EXCEPT ![Len(Before)] = "block"]
    BY <1>1, <1>6 DEF OpenNodes, Move, TypeOK
  <2> QED
    BY <1>0, <1>1, <1>6, <2>1 DEF Stream!Accept, Stream!Legal, Move, Over
<1>7. ASSUME event = "End", nest > 0, Move(nest - 1, "Block")
      PROVE  Stream!Accept(event)
  <2>1. After = [i \in 1..(nest - 1) |-> "block"]
    BY <1>7 DEF OpenNodes, Move
  <2>2. SubSeq(Before, 1, nest - 1) = [i \in 1..(nest - 1) |-> "block"]
    BY <1>7 DEF OpenNodes, TypeOK
  <2> QED
    BY <1>0, <1>1, <1>7, <2>1, <2>2 DEF Stream!Accept, Stream!Legal, Move, Over
<1> QED
  BY <1>3, <1>4, <1>5, <1>6, <1>7
     DEF Push, PushEnd, PushEntry, PushChildren, PushNode, Err, Events

\* The validator accepts exactly the streams of the grammar, with nodes nested
\* to any depth.
THEOREM ImplementsStream == Spec => IsStreamGrammar
<1>1. Init => Stream!Init
  BY DEF Init, Stream!Init, OpenNodes, Over
<1>2. TypeOK /\ [Next]_validatorVars => [Stream!Next]_(Stream!streamVars)
  <2> SUFFICES ASSUME TypeOK, [Next]_validatorVars
               PROVE  [Stream!Next]_(Stream!streamVars)
    OBVIOUS
  <2>1. CASE UNCHANGED validatorVars
    BY <2>1 DEF validatorVars, Stream!streamVars, OpenNodes, Over
  <2>2. CASE Done
    <3>1. Over' /\ ~Over
      BY <2>2 DEF Done, Over
    <3>2. OpenNodes = <<>> <=> nest = 0
      BY <3>1, OpenNodesShape
    <3> QED
      BY <2>2, <3>1, <3>2 DEF Done, Stream!Next, Stream!Finish, TypeOK
  <2>3. ASSUME NEW event \in Events, Push(event)
        PROVE  Stream!Next
    BY <2>3, PushSimulates
  <2> QED
    BY <2>1, <2>2, <2>3 DEF Next
<1> QED
  BY <1>1, <1>2, TypeCorrect, PTL DEF Spec, Stream!Spec, IsStreamGrammar

-----------------------------------------------------------------------------
(* The reader's place in the text.  The text that it has before it is the  *)
(* peeked token and what is in the pipe: a piece that the writer wrote for *)
(* one event, or what is left of it, and where that is one peeked token,   *)
(* perhaps the next piece.  In what follows "events" are due for the text  *)
(* that was passed, and "level" is the number of nodes that were open.     *)

\* The writer stands behind "word" and all that is due is "events".
Stands(word, events, level) == wstate = word /\ due = events /\ nest = level

Plain == {"String", "Number", "Keyword"}

Ones(values)     == {<<v>> : v \in values}
HintEnd(values)  == {<<"CloseParen", v>> : v \in values}
HintName(values) == {<<"String", "CloseParen", v>> : v \in values}
Typed(values) ==
  Ones(values) \union {<<"OpenParen", "String", "CloseParen", v>> : v \in values}
KeyEnd ==
  {<<"Equals", v>> : v \in Plain}
    \union {<<"Equals", "OpenParen", "String", "CloseParen", v>> : v \in Plain}
Named ==
  {<<"String", "Equals", v>> : v \in Plain}
    \union {<<"String", "Equals", "OpenParen", "String", "CloseParen", v>> : v \in Plain}

Begins(t, token) == t # <<>> /\ Head(t) = token

\* What may stand behind a line break: a node, or the brace that ends a block.
LineText(t, events, level) ==
  \/ t \in Typed({"String"}) /\ Stands("Node", Append(events, "Node"), level + 1)
  \/ t = <<"CloseCurly">> /\ Stands("Block", Append(events, "End"), level - 1)

\* Behind the space in a node: an entry, or the brace of its block.
SpaceText(t, events, level) ==
  \/ t \in Typed(Plain) \union Named /\ Stands("Node", Append(events, "Entry"), level)
  \/ t = <<"OpenCurly">> /\ Stands("BlockStart", Append(events, "Children"), level)

\* Behind an opening brace.
BlockText(t, events, level) ==
  \/ t = <<>> /\ Stands("BlockStart", events, level)
  \/ t = <<"CloseCurly">> /\ Stands("Block", Append(events, "End"), level - 1)
  \/ /\ Begins(t, "Lines") /\ Tail(t) \in Typed({"String"})
     /\ Stands("Node", Append(events, "Node"), level + 1)

\* Behind a closing brace.
PastText(t, events, level) ==
  \/ t = <<>> /\ Stands("Block", events, level)
  \/ Begins(t, "Lines") /\ LineText(Tail(t), events, level)

\* Behind a node's name or an entry; the node may have ended without a trace.
NodeText(t, events, level) ==
  \/ t = <<>> /\ Stands("Node", events, level)
  \/ t = <<>> /\ Stands("Block", Append(events, "End"), level - 1)
  \/ Begins(t, "Spaces") /\ SpaceText(Tail(t), events, level)
  \/ Begins(t, "Lines") /\ LineText(Tail(t), Append(events, "End"), level - 1)

-----------------------------------------------------------------------------
(* The text, where its first token may be peeked.                          *)

\* A token and more of the same piece.
Within(token, texts, event, events, level) ==
  /\ \/ peekToken = "none" /\ Begins(written, token) /\ Tail(written) \in texts
     \/ peekToken = token /\ written \in texts
  /\ Stands("Node", Append(events, event), level)

\* The last token of a node's or an entry's text.
AtValue(values, event, events, level) ==
  \/ /\ peekToken = "none" /\ written \in Ones(values)
     /\ Stands("Node", Append(events, event), level)
  \/ peekToken \in values /\ NodeText(written, Append(events, event), level)

AtOpen(events, level) ==
  \/ /\ peekToken = "none" /\ written = <<"OpenCurly">>
     /\ Stands("BlockStart", Append(events, "Children"), level)
  \/ peekToken = "OpenCurly" /\ BlockText(written, Append(events, "Children"), level)

AtClose(events, level) ==
  \/ /\ peekToken = "none" /\ written = <<"CloseCurly">>
     /\ Stands("Block", Append(events, "End"), level - 1)
  \/ peekToken = "CloseCurly" /\ PastText(written, Append(events, "End"), level - 1)

AtEof(events, level) ==
  peekToken = "Eof" /\ written = <<>> /\ sealed /\ due = events /\ nest = level

AtTyped(values, event, events, level) ==
  \/ AtValue(values, event, events, level)
  \/ Within("OpenParen", HintName(values), event, events, level)

\* In front of a node, or of what ends a block.
AtNode(events, level) ==
  AtTyped({"String"}, "Node", events, level + 1) \/ AtClose(events, level)

\* The same in front of the line break, if there is one.
AtBlock(events, level) ==
  \/ AtNode(events, level)
  \/ peekToken = "none" /\ BlockText(written, events, level)
  \/ peekToken = "none" /\ written = <<>> /\ Stands("First", events, level)
  \/ /\ peekToken = "Lines" /\ written \in Typed({"String"})
     /\ Stands("Node", Append(events, "Node"), level + 1)
  \/ AtEof(events, level)

\* Behind a space in a node.
AtEntry(events, level) ==
  \/ AtTyped(Plain, "Entry", events, level)
  \/ Within("String", KeyEnd, "Entry", events, level)
  \/ AtOpen(events, level)

\* At the end of a node's line.
AtLines(events, level) ==
  (peekToken = "Lines" /\ LineText(written, events, level)) \/ AtEof(events, level)

\* Between the entries of a node.
AtEntries(events, level) ==
  \/ peekToken = "none" /\ NodeText(written, events, level)
  \/ peekToken = "Spaces" /\ SpaceText(written, events, level)
  \/ AtLines(Append(events, "End"), level - 1)

\* Behind a node's block.
AtPast(events, level) ==
  (peekToken = "none" /\ PastText(written, events, level)) \/ AtLines(events, level)

-----------------------------------------------------------------------------
(* The inductive invariant.                                                *)

\* An event that the program holds is still counted as due.
Held == IF call = "idle" /\ out \notin {"None", "Done"} THEN <<out>> ELSE <<>>

Outer == Len(brackets)
Inner == Len(brackets) + 1

BlockPlace ==
  /\ at \in {"inner", "bom", "lines"} => AtBlock(Held, Outer)
  /\ at = "node" => AtNode(Held, Outer) \/ AtEof(Held, Outer)
  /\ at = "typeOpen" => AtTyped({"String"}, "Node", Held, Inner)
  /\ at \in {"typeLead", "typeName"} =>
       Within("String", HintEnd({"String"}), "Node", Held, Inner)
  /\ at \in {"typeGap", "typeClose"} =>
       Within("CloseParen", Ones({"String"}), "Node", Held, Inner)
  /\ at \in {"typeTail", "name"} => AtValue({"String"}, "Node", Held, Inner)

EntryPoints == {"keySpaces", "key", "propSpaces", "typeOpen", "typeLead", "typeName",
                "typeGap", "typeClose", "typeTail", "value"}

NodePlace ==
  /\ at \in {"inner", "entrySpaces"} => AtEntries(Held, Inner)
  /\ at = "entryCase" /\ ~spaces => AtLines(Append(Held, "End"), Outer)
  /\ (at = "entryCase" /\ spaces) \/ at = "entry" => spaces /\ AtEntry(Held, Inner)
  /\ at = "keySpaces" =>
       \/ Within("Equals", Typed(Plain), "Entry", Held, Inner)
       \/ AtEntries(Append(Held, "Entry"), Inner)
  /\ at = "key" /\ ~spaces =>
       \/ Within("Equals", Typed(Plain), "Entry", Held, Inner)
       \/ AtLines(Append(Append(Held, "Entry"), "End"), Outer)
  /\ at = "key" /\ spaces => AtEntry(Append(Held, "Entry"), Inner)
  /\ at \in {"propSpaces", "typeOpen"} => AtTyped(Plain, "Entry", Held, Inner)
  /\ at \in {"typeLead", "typeName"} =>
       Within("String", HintEnd(Plain), "Entry", Held, Inner)
  /\ at \in {"typeGap", "typeClose"} =>
       Within("CloseParen", Ones(Plain), "Entry", Held, Inner)
  /\ at \in {"typeTail", "value"} => AtValue(Plain, "Entry", Held, Inner)
  /\ at \in EntryPoints => text

PastPlace ==
  /\ at \in {"inner", "entrySpaces"} => AtPast(Held, Outer)
  /\ at = "entryCase" => AtLines(Held, Outer)

BlockPoints == {"inner", "bom", "lines", "node", "name", "typeOpen", "typeLead",
                "typeName", "typeGap", "typeClose", "typeTail"}

\* Wherever the reader stands, the text is such that it will return the events
\* that are due and no others.
Place ==
  \/ InBlock /\ at \in BlockPoints /\ BlockPlace
  \/ /\ state = "NodeEntries" /\ NodePlace
     /\ at \in {"inner", "entrySpaces", "entryCase", "entry"} \union EntryPoints
  \/ state = "NodeEntriesSpaced" /\ at = "inner" /\ AtEntry(Held, Inner)
  \/ /\ state = "NodeChildrenPast" /\ PastPlace
     /\ at \in {"inner", "entrySpaces", "entryCase"}
  \/ /\ state = "Done" /\ call = "idle" /\ out = "Done" /\ at = "inner"
     /\ sealed /\ written = <<>> /\ due = <<>>

\* A text without slashdashes and errors is read by next() alone.
Calm ==
  /\ call \in {"idle", "next"} /\ skipping = "no" /\ ~sd
  /\ spaces \in BOOLEAN /\ text \in BOOLEAN
  /\ call = "idle" => at = "inner" /\ out \in {"None", "Done"} \union Events
  /\ out = "Done" => state = "Done"
  /\ brackets \in Seq({FALSE})

\* The writer and the validator agree.
Writer ==
  /\ wstate \in {"First", "BlockStart", "Block", "Node"}
  /\ indent \in Nat /\ sealed \in BOOLEAN /\ TypeOK
  /\ wstate = "Node" <=> vstate = "Node"
  /\ vstate = "Consumed" <=> sealed
  /\ wstate = "First" => nest = 0
  /\ wstate = "BlockStart" => nest > 0
  /\ sealed => nest = 0
  /\ IndentIsDepth

Pipe == written \in Seq(Tokens) /\ due \in Seq(Events)

IInv == Calm /\ Writer /\ Pipe /\ Place

-----------------------------------------------------------------------------
(* The writer and the validator, whatever is written.                      *)

\* Validator::push and done where they succeed.
LEMMA Accepted ==
  ASSUME TypeOK, result' = "Ok"
  PROVE  /\ Push("Node")     => vstate = "Block" /\ nest' = nest + 1 /\ vstate' = "Node"
         /\ Push("Entry")    => vstate = "Node" /\ nest' = nest /\ vstate' = "Node"
         /\ Push("Children") => vstate = "Node" /\ nest' = nest /\ vstate' = "Block"
         /\ Push("End")      => vstate # "Consumed" /\ nest > 0 /\ nest' = nest - 1
                                /\ vstate' = "Block"
         /\ Done => vstate # "Consumed" /\ nest = 0 /\ nest' = 0 /\ vstate' = "Consumed"
  BY DEF Push, PushEnd, PushEntry, PushChildren, PushNode, Move, Err, Done, TypeOK

LEMMA WriterInit ==
  ASSUME WriteReadInit
  PROVE  Writer
  BY DEF WriteReadInit, Init, Writer, TypeOK, Results, IndentIsDepth

LEMMA WriterStep ==
  ASSUME Writer, [WriteReadNext]_vars
  PROVE  Writer'
<1>1. CASE UNCHANGED <<writerVars, validatorVars, sealed>>
  BY <1>1 DEF Writer, writerVars, validatorVars, TypeOK, IndentIsDepth
<1>2. CASE UNCHANGED vars \/ ReadToken \/ ReadStep \/ Consume
  BY <1>1, <1>2 DEF vars, pipeVars, ReadToken, ReadStep, Consume
<1>3. CASE Seal
  <2>1. TypeOK'
    BY <1>3, Accepted DEF Seal, Writer, TypeOK, Results
  <2>2. /\ nest = 0 /\ nest' = 0 /\ vstate # "Consumed" /\ vstate' = "Consumed"
        /\ sealed' = TRUE /\ UNCHANGED <<wstate, indent>> /\ vstate # "Node"
    BY <1>3, Accepted DEF Seal, Writer, TypeOK, writerVars
  <2> QED
    BY <2>1, <2>2 DEF Writer, IndentIsDepth
<1>4. ASSUME NEW event \in Events, Push(event), result' = "Ok", PushEvent(event), ~sealed,
             UNCHANGED sealed
      PROVE  Writer'
  <2>0. nest \in Nat /\ indent \in Nat /\ TypeOK /\ result' \in Results
    BY <1>4 DEF Writer, TypeOK, Results
  <2>1. CASE event = "Node"
    BY <1>4, <2>0, <2>1, Accepted
       DEF Writer, PushEvent, WriteNode, IndentIsDepth, TypeOK
  <2>2. CASE event = "Entry"
    BY <1>4, <2>0, <2>2, Accepted
       DEF Writer, PushEvent, WriteEntry, writerVars, IndentIsDepth, TypeOK
  <2>3. CASE event = "Children"
    BY <1>4, <2>0, <2>3, Accepted
       DEF Writer, PushEvent, WriteChildren, IndentIsDepth, TypeOK
  <2>4. CASE event = "End"
    BY <1>4, <2>0, <2>4, Accepted
       DEF Writer, PushEvent, WriteEnd, IndentIsDepth, TypeOK
  <2> QED
    BY <2>1, <2>2, <2>3, <2>4 DEF Events
<1>5. CASE Produce
  BY <1>4, <1>5 DEF Produce
<1> QED
  BY <1>2, <1>3, <1>5 DEF WriteReadNext

\* The indentation is the number of open blocks, for streams nested to any
\* depth and any texts.
THEOREM IndentsByDepth == WriteReadSpec => []IndentIsDepth
<1>1. WriteReadInit => Writer
  BY WriterInit
<1>2. Writer /\ [WriteReadNext]_vars => Writer'
  BY WriterStep
<1>3. Writer => IndentIsDepth
  BY DEF Writer
<1> QED
  BY <1>1, <1>2, <1>3, PTL DEF WriteReadSpec

-----------------------------------------------------------------------------
(* Texts, token by token.                                                  *)

LEMMA Tuples ==
  /\ \A a : <<a>> # <<>> /\ Head(<<a>>) = a /\ Tail(<<a>>) = <<>>
  /\ \A a, b : <<a, b>> # <<>> /\ Head(<<a, b>>) = a /\ Tail(<<a, b>>) = <<b>>
  /\ \A a, b, c :
       <<a, b, c>> # <<>> /\ Head(<<a, b, c>>) = a /\ Tail(<<a, b, c>>) = <<b, c>>
  /\ \A a, b, c, d : /\ <<a, b, c, d>> # <<>> /\ Head(<<a, b, c, d>>) = a
                     /\ Tail(<<a, b, c, d>>) = <<b, c, d>>
  /\ \A a, b, c, d, e : /\ <<a, b, c, d, e>> # <<>> /\ Head(<<a, b, c, d, e>>) = a
                        /\ Tail(<<a, b, c, d, e>>) = <<b, c, d, e>>
  /\ \A a, b, c, d, e, f : /\ <<a, b, c, d, e, f>> # <<>> /\ Head(<<a, b, c, d, e, f>>) = a
                           /\ Tail(<<a, b, c, d, e, f>>) = <<b, c, d, e, f>>
  OBVIOUS

LEMMA OnesFacts ==
  ASSUME NEW values, NEW t \in Ones(values)
  PROVE  t # <<>> /\ Head(t) \in values /\ Tail(t) = <<>>
<1>1. PICK v \in values : t = <<v>>
  BY DEF Ones
<1> QED
  BY <1>1, Tuples

LEMMA HintFacts ==
  ASSUME NEW values
  PROVE  /\ \A t \in HintEnd(values) : Begins(t, "CloseParen") /\ Tail(t) \in Ones(values)
         /\ \A t \in HintName(values) : Begins(t, "String") /\ Tail(t) \in HintEnd(values)
<1>1. ASSUME NEW t \in HintEnd(values)
      PROVE  Begins(t, "CloseParen") /\ Tail(t) \in Ones(values)
  <2>1. PICK v \in values : t = <<"CloseParen", v>>
    BY DEF HintEnd
  <2> QED
    BY <2>1, Tuples DEF Begins, Ones
<1>2. ASSUME NEW t \in HintName(values)
      PROVE  Begins(t, "String") /\ Tail(t) \in HintEnd(values)
  <2>1. PICK v \in values : t = <<"String", "CloseParen", v>>
    BY DEF HintName
  <2> QED
    BY <2>1, Tuples DEF Begins, HintEnd
<1> QED
  BY <1>1, <1>2

LEMMA TypedFacts ==
  ASSUME NEW values, NEW t \in Typed(values)
  PROVE  \/ t \in Ones(values)
         \/ Begins(t, "OpenParen") /\ Tail(t) \in HintName(values)
<1>1. ASSUME NEW v \in values, t = <<"OpenParen", "String", "CloseParen", v>>
      PROVE  Begins(t, "OpenParen") /\ Tail(t) \in HintName(values)
  BY <1>1, Tuples DEF HintName, Begins
<1> QED
  BY <1>1 DEF Typed

LEMMA KeyFacts ==
  /\ \A t \in KeyEnd : Begins(t, "Equals") /\ Tail(t) \in Typed(Plain)
  /\ \A t \in Named  : Begins(t, "String") /\ Tail(t) \in KeyEnd
<1>1. ASSUME NEW t \in KeyEnd
      PROVE  Begins(t, "Equals") /\ Tail(t) \in Typed(Plain)
  <2>1. PICK v \in Plain : \/ t = <<"Equals", v>>
                           \/ t = <<"Equals", "OpenParen", "String", "CloseParen", v>>
    BY DEF KeyEnd
  <2>2. CASE t = <<"Equals", v>>
    <3>1. Begins(t, "Equals") /\ Tail(t) = <<v>>
      BY <2>2, Tuples DEF Begins
    <3> QED
      BY <3>1 DEF Typed, Ones
  <2>3. CASE t = <<"Equals", "OpenParen", "String", "CloseParen", v>>
    <3>1. Begins(t, "Equals") /\ Tail(t) = <<"OpenParen", "String", "CloseParen", v>>
      BY <2>3, Tuples DEF Begins
    <3> QED
      BY <3>1 DEF Typed
  <2> QED
    BY <2>1, <2>2, <2>3
<1>2. ASSUME NEW t \in Named
      PROVE  Begins(t, "String") /\ Tail(t) \in KeyEnd
  <2>1. PICK v \in Plain :
          \/ t = <<"String", "Equals", v>>
          \/ t = <<"String", "Equals", "OpenParen", "String", "CloseParen", v>>
    BY DEF Named
  <2>2. CASE t = <<"String", "Equals", v>>
    <3>1. Begins(t, "String") /\ Tail(t) = <<"Equals", v>>
      BY <2>2, Tuples DEF Begins
    <3> QED
      BY <3>1 DEF KeyEnd
  <2>3. CASE t = <<"String", "Equals", "OpenParen", "String", "CloseParen", v>>
    <3>1. /\ Begins(t, "String")
          /\ Tail(t) = <<"Equals", "OpenParen", "String", "CloseParen", v>>
      BY <2>3, Tuples DEF Begins
    <3> QED
      BY <3>1 DEF KeyEnd
  <2> QED
    BY <2>1, <2>2, <2>3
<1> QED
  BY <1>1, <1>2

-----------------------------------------------------------------------------
(* The reader gets a token.                                                *)

Text == <<written, wstate, due, nest, sealed>>

\* A token moves from the pipe to peek_token.
Fetched ==
  /\ peekToken = "none" /\ written # <<>>
  /\ peekToken' = Head(written) /\ written' = Tail(written)
  /\ UNCHANGED <<wstate, due, nest, sealed>>

\* The end of the text, where all has been read.
Ended ==
  /\ peekToken = "none" /\ written = <<>> /\ sealed
  /\ peekToken' = "Eof"
  /\ UNCHANGED Text

LEMMA StandsStays ==
  ASSUME UNCHANGED <<wstate, due, nest>>
  PROVE  \A word, events, level :
           Stands(word, events, level)' <=> Stands(word, events, level)
  BY DEF Stands

LEMMA ValueFetched ==
  ASSUME Fetched, NEW values, "none" \notin values, NEW event, NEW events, NEW level
  PROVE  /\ AtValue(values, event, events, level) => AtValue(values, event, events, level)'
         /\ \A token, texts : token # "none" /\ Within(token, texts, event, events, level)
              => Within(token, texts, event, events, level)'
<1>1. ASSUME written \in Ones(values), Stands("Node", Append(events, event), level)
      PROVE  AtValue(values, event, events, level)'
  <2>1. peekToken' \in values /\ written' = <<>>
    BY <1>1, OnesFacts DEF Fetched
  <2>2. Stands("Node", Append(events, event), level)'
    BY <1>1, StandsStays DEF Fetched
  <2> QED
    BY <2>1, <2>2 DEF AtValue, NodeText
<1>2. ASSUME NEW token, NEW texts, token # "none",
             Within(token, texts, event, events, level)
      PROVE  Within(token, texts, event, events, level)'
  <2>1. CASE peekToken = "none" /\ Begins(written, token) /\ Tail(written) \in texts
    BY <1>2, <2>1, StandsStays DEF Within, Fetched, Begins
  <2>2. CASE peekToken = token /\ written \in texts
    BY <1>2, <2>2 DEF Fetched
  <2> QED
    BY <1>2, <2>1, <2>2 DEF Within
<1> QED
  BY <1>1, <1>2 DEF AtValue, Fetched

LEMMA NodeFetched ==
  ASSUME Fetched, NEW events, NEW level
  PROVE  /\ AtNode(events, level) => AtNode(events, level)'
         /\ AtBlock(events, level) => AtBlock(events, level)'
<1>1. AtTyped({"String"}, "Node", events, level + 1)
        => AtTyped({"String"}, "Node", events, level + 1)'
  BY ValueFetched DEF AtTyped
<1>2. ASSUME written = <<"CloseCurly">>, Stands("Block", Append(events, "End"), level - 1)
      PROVE  AtClose(events, level)'
  BY <1>2, Tuples, StandsStays DEF AtClose, PastText, Fetched
<1>3. AtNode(events, level) => AtNode(events, level)'
  BY <1>1, <1>2 DEF AtNode, AtClose, Fetched
<1>4. ASSUME BlockText(written, events, level)
      PROVE  AtBlock(events, level)'
  BY <1>2, <1>4, StandsStays DEF AtBlock, AtNode, BlockText, Begins, Fetched
<1> QED
  BY <1>3, <1>4 DEF AtBlock, AtEof, Fetched

LEMMA LineFetched ==
  ASSUME Fetched, Begins(written, "Lines"), NEW events, NEW level,
         LineText(Tail(written), events, level)
  PROVE  AtLines(events, level)'
<1>1. peekToken' = "Lines" /\ LineText(written, events, level)'
  BY StandsStays DEF Fetched, Begins, LineText
<1> QED
  BY <1>1 DEF AtLines

LEMMA EntryFetched ==
  ASSUME Fetched, NEW events, NEW level
  PROVE  /\ AtEntry(events, level) => AtEntry(events, level)'
         /\ AtEntries(events, level) => AtEntries(events, level)'
         /\ AtPast(events, level) => AtPast(events, level)'
         /\ ~AtLines(events, level)
<1>0. "none" \notin Plain /\ ~AtLines(events, level)
  BY DEF Plain, AtLines, AtEof, Fetched
<1>1. AtTyped(Plain, "Entry", events, level) => AtTyped(Plain, "Entry", events, level)'
  BY <1>0, ValueFetched DEF AtTyped
<1>2. ASSUME written = <<"OpenCurly">>,
             Stands("BlockStart", Append(events, "Children"), level)
      PROVE  AtOpen(events, level)'
  BY <1>2, Tuples, StandsStays DEF AtOpen, BlockText, Fetched
<1>3. AtEntry(events, level) => AtEntry(events, level)'
  BY <1>0, <1>1, <1>2, ValueFetched DEF AtEntry, AtOpen, Fetched
<1>4. ASSUME NodeText(written, events, level)
      PROVE  AtEntries(events, level)'
  <2>1. CASE Begins(written, "Spaces") /\ SpaceText(Tail(written), events, level)
    BY <2>1, StandsStays DEF AtEntries, SpaceText, Begins, Fetched
  <2>2. CASE /\ Begins(written, "Lines")
             /\ LineText(Tail(written), Append(events, "End"), level - 1)
    BY <2>2, LineFetched DEF AtEntries
  <2> QED
    BY <1>4, <2>1, <2>2 DEF NodeText, Fetched
<1>5. AtEntries(events, level) => AtEntries(events, level)'
  BY <1>4 DEF AtEntries, AtLines, AtEof, Fetched
<1>6. AtPast(events, level) => AtPast(events, level)'
  BY LineFetched DEF AtPast, PastText, AtLines, AtEof, Fetched
<1> QED
  BY <1>0, <1>3, <1>5, <1>6

LEMMA AllEnded ==
  ASSUME Ended, Writer, NEW events, NEW level
  PROVE  /\ AtBlock(events, level) => AtBlock(events, level)'
         /\ AtEntries(events, level) => AtEntries(events, level)'
         /\ AtPast(events, level) => AtPast(events, level)'
         /\ ~AtNode(events, level) /\ ~AtEntry(events, level)
         /\ ~AtEof(events, level) /\ ~AtLines(events, level)
         /\ \A values, event : "none" \notin values =>
              /\ ~AtTyped(values, event, events, level)
              /\ ~AtValue(values, event, events, level)
         /\ \A token, texts, event : token # "none" =>
              ~Within(token, texts, event, events, level)
<1>1. \A values : <<>> \notin Ones(values)
  BY OnesFacts
<1>2. \A token : ~Begins(written, token)
  BY DEF Ended, Begins
<1>3. \A values, event, n : "none" \notin values => ~AtValue(values, event, events, n)
  BY <1>1 DEF Ended, AtValue
<1>4. \A token, texts, event, n :
        token # "none" => ~Within(token, texts, event, events, n)
  BY <1>2 DEF Ended, Within
<1>5. \A values, event, n : "none" \notin values => ~AtTyped(values, event, events, n)
  BY <1>3, <1>4 DEF AtTyped
<1>6. ~AtNode(events, level) /\ ~AtEntry(events, level)
  <2>1. written # <<"OpenCurly">> /\ written # <<"CloseCurly">>
    BY Tuples DEF Ended
  <2>2. "none" \notin {"String"} /\ "none" \notin Plain
    BY DEF Plain
  <2> QED
    BY <1>4, <1>5, <2>1, <2>2 DEF AtNode, AtEntry, AtOpen, AtClose, Ended
<1>7. ~AtEof(events, level) /\ ~AtLines(events, level)
  BY DEF Ended, AtEof, AtLines
<1>8. /\ wstate \notin {"Node", "BlockStart"} /\ sealed /\ written = <<>>
      /\ <<"CloseCurly">> # <<>>
  BY Tuples DEF Ended, Writer, TypeOK
<1>9. AtBlock(events, level) => AtBlock(events, level)'
  BY <1>2, <1>6, <1>8 DEF AtBlock, AtEof, BlockText, Stands, Ended, Text
<1>10. AtEntries(events, level) => AtEntries(events, level)'
  BY <1>2, <1>8 DEF AtEntries, AtLines, AtEof, NodeText, Stands, Ended, Text
<1>11. AtPast(events, level) => AtPast(events, level)'
  BY <1>2, <1>8 DEF AtPast, AtLines, AtEof, PastText, Stands, Ended, Text
<1> QED
  BY <1>3, <1>4, <1>5, <1>6, <1>7, <1>9, <1>10, <1>11

\* No matter when the reader gets a token, its place stays right.
LEMMA PlaceRead ==
  ASSUME Place, Writer, Fetched \/ Ended,
         UNCHANGED <<state, brackets, at, spaces, text, call, out>>
  PROVE  Place'
<1>0. Held' = Held /\ Inner' = Inner /\ Outer' = Outer /\ InBlock' = InBlock
  BY DEF Held, Inner, Outer, InBlock
<1>1. "none" \notin {"String"} /\ "none" \notin Plain
  BY DEF Plain
<1>2. CASE Fetched
  <2>1. /\ BlockPlace => BlockPlace'
        /\ NodePlace => NodePlace'
    BY <1>0, <1>1, <1>2, ValueFetched, NodeFetched, EntryFetched
       DEF BlockPlace, NodePlace, AtTyped, AtEof, Fetched, EntryPoints
  <2>2. PastPlace => PastPlace'
    BY <1>0, <1>2, EntryFetched DEF PastPlace
  <2>3. written # <<>>
    BY <1>2 DEF Fetched
  <2> QED
    BY <1>0, <1>2, <2>1, <2>2, <2>3, EntryFetched DEF Place
<1>3. CASE Ended
  <2>1. /\ BlockPlace => BlockPlace'
        /\ NodePlace => NodePlace'
        /\ PastPlace => PastPlace'
    BY <1>0, <1>1, <1>3, AllEnded DEF BlockPlace, NodePlace, PastPlace, EntryPoints
  <2>2. ~AtEntry(Held, Inner)
    BY <1>3, AllEnded
  <2>3. written' = written /\ due' = due /\ sealed' = sealed
    BY <1>3 DEF Ended, Text
  <2> QED
    BY <1>0, <2>1, <2>2, <2>3 DEF Place
<1> QED
  BY <1>2, <1>3
-----------------------------------------------------------------------------
(* The writer goes on.                                                     *)

\* Short sequences, put together.
LEMMA Cons ==
  ASSUME NEW S, NEW a \in S, NEW s \in Seq(S)
  PROVE  Begins(<<a>> \o s, a) /\ Tail(<<a>> \o s) = s
  BY DEF Begins

LEMMA Split ==
  ASSUME NEW S, NEW s \in Seq(S), s # <<>>
  PROVE  <<Head(s)>> \o Tail(s) = s
  OBVIOUS

LEMMA Prepend2 ==
  ASSUME NEW S, NEW a \in S, NEW b \in S
  PROVE  <<a>> \o <<b>> = <<a, b>>
<1>1. <<a, b>> \in Seq(S)
  OBVIOUS
<1>2. <<a, b>> # <<>> /\ Head(<<a, b>>) = a /\ Tail(<<a, b>>) = <<b>>
  BY Tuples
<1> QED
  BY <1>1, <1>2, Split

LEMMA Prepend3 ==
  ASSUME NEW S, NEW a \in S, NEW b \in S, NEW c \in S
  PROVE  <<a>> \o <<b, c>> = <<a, b, c>>
<1>1. <<a, b, c>> \in Seq(S)
  OBVIOUS
<1>2. <<a, b, c>> # <<>> /\ Head(<<a, b, c>>) = a /\ Tail(<<a, b, c>>) = <<b, c>>
  BY Tuples
<1> QED
  BY <1>1, <1>2, Split

LEMMA Prepend4 ==
  ASSUME NEW S, NEW a \in S, NEW b \in S, NEW c \in S, NEW d \in S
  PROVE  <<a>> \o <<b, c, d>> = <<a, b, c, d>>
<1>1. <<a, b, c, d>> \in Seq(S)
  OBVIOUS
<1>2. /\ <<a, b, c, d>> # <<>> /\ Head(<<a, b, c, d>>) = a
      /\ Tail(<<a, b, c, d>>) = <<b, c, d>>
  BY Tuples
<1> QED
  BY <1>1, <1>2, Split

LEMMA Prepend5 ==
  ASSUME NEW S, NEW a \in S, NEW b \in S, NEW c \in S, NEW d \in S, NEW e \in S
  PROVE  <<a>> \o <<b, c, d, e>> = <<a, b, c, d, e>>
<1>1. <<a, b, c, d, e>> \in Seq(S)
  OBVIOUS
<1>2. /\ <<a, b, c, d, e>> # <<>> /\ Head(<<a, b, c, d, e>>) = a
      /\ Tail(<<a, b, c, d, e>>) = <<b, c, d, e>>
  BY Tuples
<1> QED
  BY <1>1, <1>2, Split

LEMMA Prepend6 ==
  ASSUME NEW S, NEW a \in S, NEW b \in S, NEW c \in S, NEW d \in S, NEW e \in S, NEW f \in S
  PROVE  <<a>> \o <<b, c, d, e, f>> = <<a, b, c, d, e, f>>
<1>1. <<a, b, c, d, e, f>> \in Seq(S)
  OBVIOUS
<1>2. /\ <<a, b, c, d, e, f>> # <<>> /\ Head(<<a, b, c, d, e, f>>) = a
      /\ Tail(<<a, b, c, d, e, f>>) = <<b, c, d, e, f>>
  BY Tuples
<1> QED
  BY <1>1, <1>2, Split

LEMMA Regroup ==
  ASSUME NEW S, NEW a \in S, NEW s \in Seq(S), NEW t \in Seq(S)
  PROVE  (<<a>> \o s) \o t = <<a>> \o (s \o t)
  OBVIOUS

\* A text behind its type hint, and behind its key.
LEMMA HintJoined ==
  ASSUME NEW v \in Tokens
  PROVE  <<"OpenParen", "String", "CloseParen">> \o <<v>>
           = <<"OpenParen", "String", "CloseParen", v>>
<1>1. "OpenParen" \in Tokens /\ "String" \in Tokens /\ "CloseParen" \in Tokens
  BY DEF Tokens, ValueTokens, TextTokens
<1>2. /\ <<"CloseParen">> \in Seq(Tokens) /\ <<v>> \in Seq(Tokens)
      /\ <<"String", "CloseParen">> \in Seq(Tokens)
  BY <1>1
<1>3. <<"CloseParen">> \o <<v>> = <<"CloseParen", v>>
  BY <1>1, Prepend2
<1>4. <<"String", "CloseParen">> \o <<v>> = <<"String">> \o <<"CloseParen", v>>
  <2>1. <<"String">> \o <<"CloseParen">> = <<"String", "CloseParen">>
    BY <1>1, Prepend2
  <2>2. (<<"String">> \o <<"CloseParen">>) \o <<v>>
          = <<"String">> \o (<<"CloseParen">> \o <<v>>)
    BY <1>1, <1>2, Regroup
  <2> QED
    BY <1>3, <2>1, <2>2
<1>5. <<"String">> \o <<"CloseParen", v>> = <<"String", "CloseParen", v>>
  BY <1>1, Prepend3
<1>6. <<"OpenParen">> \o <<"String", "CloseParen">>
        = <<"OpenParen", "String", "CloseParen">>
  BY <1>1, Prepend3
<1>7. (<<"OpenParen">> \o <<"String", "CloseParen">>) \o <<v>>
        = <<"OpenParen">> \o (<<"String", "CloseParen">> \o <<v>>)
  BY <1>1, <1>2, Regroup
<1>8. <<"OpenParen">> \o <<"String", "CloseParen", v>>
        = <<"OpenParen", "String", "CloseParen", v>>
  BY <1>1, Prepend4
<1> QED
  BY <1>4, <1>5, <1>6, <1>7, <1>8

LEMMA KeyJoined ==
  ASSUME NEW v \in Plain
  PROVE  /\ <<"String", "Equals">> \o <<v>> \in Named
         /\ <<"String", "Equals">> \o <<"OpenParen", "String", "CloseParen", v>> \in Named
<1>1. /\ "OpenParen" \in Tokens /\ "String" \in Tokens /\ "CloseParen" \in Tokens
      /\ "Equals" \in Tokens /\ v \in Tokens
  BY DEF Tokens, ValueTokens, TextTokens, Plain
<1>2. /\ <<v>> \in Seq(Tokens) /\ <<"Equals">> \in Seq(Tokens)
      /\ <<"OpenParen", "String", "CloseParen", v>> \in Seq(Tokens)
  BY <1>1
<1>3. ASSUME NEW s \in Seq(Tokens)
      PROVE  <<"String", "Equals">> \o s = <<"String">> \o (<<"Equals">> \o s)
  <2>1. <<"String">> \o <<"Equals">> = <<"String", "Equals">>
    BY <1>1, Prepend2
  <2>2. (<<"String">> \o <<"Equals">>) \o s = <<"String">> \o (<<"Equals">> \o s)
    BY <1>1, <1>2, Regroup
  <2> QED
    BY <2>1, <2>2
<1>4. <<"String", "Equals">> \o <<v>> = <<"String", "Equals", v>>
  <2>1. <<"String", "Equals">> \o <<v>> = <<"String">> \o (<<"Equals">> \o <<v>>)
    BY <1>2, <1>3
  <2>2. <<"Equals">> \o <<v>> = <<"Equals", v>>
    BY <1>1, Prepend2
  <2>3. <<"String">> \o <<"Equals", v>> = <<"String", "Equals", v>>
    BY <1>1, Prepend3
  <2> QED
    BY <2>1, <2>2, <2>3
<1>5. <<"String", "Equals">> \o <<"OpenParen", "String", "CloseParen", v>>
        = <<"String", "Equals", "OpenParen", "String", "CloseParen", v>>
  <2>1. <<"String", "Equals">> \o <<"OpenParen", "String", "CloseParen", v>>
          = <<"String">> \o (<<"Equals">> \o <<"OpenParen", "String", "CloseParen", v>>)
    BY <1>2, <1>3
  <2>2. <<"Equals">> \o <<"OpenParen", "String", "CloseParen", v>>
          = <<"Equals", "OpenParen", "String", "CloseParen", v>>
    BY <1>1, Prepend5
  <2>3. <<"String">> \o <<"Equals", "OpenParen", "String", "CloseParen", v>>
          = <<"String", "Equals", "OpenParen", "String", "CloseParen", v>>
    BY <1>1, Prepend6
  <2> QED
    BY <2>1, <2>2, <2>3
<1> QED
  BY <1>4, <1>5 DEF Named

\* All names, keys, type hints, strings and numbers are such that the lexer takes
\* what is written of them: no string is a word that is left bare although the
\* lexer refuses it bare, none has a NUL in it, and no number is a NaN.
TextsLex == Texts \subseteq {"Plain"} /\ Numbers \subseteq {"Plain"}

LEMMA Parts ==
  ASSUME TextsLex
  PROVE  /\ \A hint \in TypeHints :
              hint = <<>> \/ hint = <<"OpenParen", "String", "CloseParen">>
         /\ \A key \in Keys : key = <<>> \/ key = <<"String", "Equals">>
         /\ \A value \in Values : \E v \in Plain : value = <<v>>
         /\ \A word \in Texts : Ident(word) = "String"
<1>1. /\ \A word \in Texts : Ident(word) = "String"
      /\ \A number \in Numbers : Numeral(number) = "Number"
  BY DEF TextsLex, Ident, Numeral
<1> QED
  BY <1>1 DEF TypeHints, Keys, Values, Plain

\* The name of a node or the value of an entry with its type hint.
LEMMA Hints ==
  ASSUME TextsLex, NEW values \in SUBSET Plain, NEW v \in values, NEW hint \in TypeHints
  PROVE  /\ hint \in Seq(Tokens) /\ <<v>> \in Seq(Tokens)
         /\ \/ hint \o <<v>> = <<v>>
            \/ hint \o <<v>> = <<"OpenParen", "String", "CloseParen", v>>
         /\ hint \o <<v>> \in Typed(values) /\ hint \o <<v>> \in Seq(Tokens)
<1>1. {"OpenParen", "String", "CloseParen"} \subseteq Tokens /\ v \in Tokens
  BY DEF Tokens, ValueTokens, TextTokens, Plain
<1>2. /\ <<v>> \in Seq(Tokens) /\ <<"OpenParen", "String", "CloseParen">> \in Seq(Tokens)
      /\ <<"OpenParen", "String", "CloseParen", v>> \in Seq(Tokens)
      /\ <<>> \o <<v>> = <<v>> /\ <<>> \in Seq(Tokens)
  BY <1>1
<1>3. /\ <<v>> \in Typed(values)
      /\ <<"OpenParen", "String", "CloseParen", v>> \in Typed(values)
  BY DEF Typed, Ones
<1> QED
  BY <1>1, <1>2, <1>3, Parts, HintJoined
LEMMA Assoc ==
  ASSUME NEW S, NEW r \in Seq(S), NEW s \in Seq(S), NEW t \in Seq(S)
  PROVE  (r \o s) \o t = r \o (s \o t)
  OBVIOUS

\* An entry, without the space in front of it.
LEMMA EntryText ==
  ASSUME TextsLex, NEW key \in Keys, NEW hint \in TypeHints, NEW value \in Values
  PROVE  /\ key \in Seq(Tokens) /\ hint \in Seq(Tokens) /\ value \in Seq(Tokens)
         /\ key \o (hint \o value) \in Typed(Plain) \union Named
         /\ key \o (hint \o value) \in Seq(Tokens)
<1>1. PICK v \in Plain : value = <<v>>
  BY Parts
<1>2. /\ hint \in Seq(Tokens) /\ <<v>> \in Seq(Tokens)
      /\ hint \o <<v>> = <<v>> \/ hint \o <<v>> = <<"OpenParen", "String", "CloseParen", v>>
      /\ hint \o <<v>> \in Typed(Plain) /\ hint \o <<v>> \in Seq(Tokens)
  BY Hints
<1>3. key = <<>> \/ key = <<"String", "Equals">>
  BY Parts
<1>4. "String" \in Tokens /\ "Equals" \in Tokens
  BY DEF Tokens, ValueTokens, TextTokens
<1>5. key \in Seq(Tokens)
  <2>1. <<>> \in Seq(Tokens) /\ <<"String", "Equals">> \in Seq(Tokens)
    BY <1>4
  <2> QED
    BY <1>3, <2>1
<1>6. CASE key = <<>>
  <2>1. key \o (hint \o <<v>>) = hint \o <<v>>
    BY <1>2, <1>6
  <2> QED
    BY <1>1, <1>2, <1>5, <2>1
<1>7. CASE key = <<"String", "Equals">>
  <2>1. key \o (hint \o <<v>>) \in Named
    BY <1>2, <1>7, KeyJoined
  <2>2. key \o (hint \o <<v>>) \in Seq(Tokens)
    BY <1>2, <1>5
  <2> QED
    BY <1>1, <1>2, <1>5, <2>1, <2>2
<1> QED
  BY <1>3, <1>6, <1>7

\* What the writer writes for each event, where the pipe is empty.
LEMMA NodePiece ==
  ASSUME TextsLex, written = <<>>, WriteNode
  PROVE  /\ written' \in Seq(Tokens) /\ wstate' = "Node"
         /\ IF wstate = "First" THEN written' \in Typed({"String"})
            ELSE Begins(written', "Lines") /\ Tail(written') \in Typed({"String"})
<1>1. PICK hint \in TypeHints, word \in Texts :
        Write((IF wstate = "First" THEN <<>> ELSE Line) \o hint \o <<Ident(word)>>)
  BY DEF WriteNode
<1> DEFINE name == hint \o <<"String">>
<1>2. /\ hint \in Seq(Tokens) /\ <<"String">> \in Seq(Tokens)
      /\ name \in Typed({"String"}) /\ name \in Seq(Tokens)
  <2>1. "String" \in {"String"} /\ {"String"} \in SUBSET Plain
    BY DEF Plain
  <2> QED
    BY <2>1, Hints
<1>3. Ident(word) = "String" /\ "Lines" \in Tokens
  BY Parts DEF Tokens
<1>4. CASE wstate = "First"
  <2>1. (<<>> \o hint) \o <<"String">> = name
    BY <1>2
  <2>2. written' = <<>> \o name
    BY <1>1, <1>3, <1>4, <2>1 DEF Write
  <2>3. written' = name
    BY <1>2, <2>2
  <2> QED
    BY <1>2, <1>4, <2>3 DEF WriteNode
<1>5. CASE wstate # "First"
  <2>1. (<<"Lines">> \o hint) \o <<"String">> = <<"Lines">> \o name
    BY <1>2, <1>3, Regroup
  <2>2. written' = <<>> \o (<<"Lines">> \o name)
    BY <1>1, <1>3, <1>5, <2>1 DEF Write, Line
  <2>3. written' = <<"Lines">> \o name /\ written' \in Seq(Tokens)
    BY <1>2, <1>3, <2>2
  <2>4. Begins(written', "Lines") /\ Tail(written') = name
    BY <1>2, <1>3, <2>3, Cons
  <2> QED
    BY <1>2, <1>5, <2>3, <2>4 DEF WriteNode
<1> QED
  BY <1>4, <1>5

LEMMA EntryPiece ==
  ASSUME TextsLex, written = <<>>, WriteEntry
  PROVE  /\ written' \in Seq(Tokens) /\ wstate' = wstate
         /\ Begins(written', "Spaces") /\ Tail(written') \in Typed(Plain) \union Named
<1>1. PICK key \in Keys, hint \in TypeHints, value \in Values :
        Write(<<"Spaces">> \o key \o hint \o value)
  BY DEF WriteEntry
<1> DEFINE entry == key \o (hint \o value)
<1>2. /\ key \in Seq(Tokens) /\ hint \in Seq(Tokens) /\ value \in Seq(Tokens)
      /\ entry \in Typed(Plain) \union Named /\ entry \in Seq(Tokens)
  BY EntryText
<1>3. "Spaces" \in Tokens
  BY DEF Tokens
<1>4. ((<<"Spaces">> \o key) \o hint) \o value = <<"Spaces">> \o entry
  <2>1. (<<"Spaces">> \o key) \o hint = <<"Spaces">> \o (key \o hint)
    BY <1>2, <1>3, Regroup
  <2>2. key \o hint \in Seq(Tokens)
    BY <1>2
  <2>3. (<<"Spaces">> \o (key \o hint)) \o value = <<"Spaces">> \o ((key \o hint) \o value)
    BY <1>2, <1>3, <2>2, Regroup
  <2>4. (key \o hint) \o value = entry
    BY <1>2, Assoc
  <2> QED
    BY <2>1, <2>3, <2>4
<1>5. written' = <<>> \o (<<"Spaces">> \o entry)
  BY <1>1, <1>4 DEF Write
<1>6. written' = <<"Spaces">> \o entry /\ written' \in Seq(Tokens)
  BY <1>2, <1>3, <1>5
<1>7. Begins(written', "Spaces") /\ Tail(written') = entry
  BY <1>2, <1>3, <1>6, Cons
<1> QED
  BY <1>2, <1>6, <1>7 DEF WriteEntry, writerVars

LEMMA BracePieces ==
  ASSUME written = <<>>
  PROVE  /\ WriteChildren =>
              /\ written' \in Seq(Tokens) /\ wstate' = "BlockStart"
              /\ Begins(written', "Spaces") /\ Tail(written') = <<"OpenCurly">>
         /\ WriteEnd =>
              /\ written' \in Seq(Tokens) /\ wstate' = "Block"
              /\ wstate = "BlockStart" => written' = <<"CloseCurly">>
              /\ wstate = "Block" =>
                   Begins(written', "Lines") /\ Tail(written') = <<"CloseCurly">>
              /\ wstate \notin {"BlockStart", "Block"} => written' = <<>>
<1>1. "OpenCurly" \in Tokens /\ "CloseCurly" \in Tokens /\ "Lines" \in Tokens
      /\ "Spaces" \in Tokens
  BY DEF Tokens
<1>2. \A t \in Seq(Tokens) : <<>> \o t = t
  OBVIOUS
<1>3. /\ <<"Spaces", "OpenCurly">> \in Seq(Tokens) /\ <<"CloseCurly">> \in Seq(Tokens)
      /\ <<"Lines", "CloseCurly">> \in Seq(Tokens) /\ <<>> \in Seq(Tokens)
  BY <1>1
<1>4. <<"Lines">> \o <<"CloseCurly">> = <<"Lines", "CloseCurly">>
  BY <1>1, Prepend2
<1>5. ASSUME WriteChildren
      PROVE  /\ written' \in Seq(Tokens) /\ wstate' = "BlockStart"
             /\ Begins(written', "Spaces") /\ Tail(written') = <<"OpenCurly">>
  BY <1>2, <1>3, <1>5, Tuples DEF WriteChildren, Write, Begins
<1>6. ASSUME WriteEnd
      PROVE  /\ written' \in Seq(Tokens) /\ wstate' = "Block"
             /\ wstate = "BlockStart" => written' = <<"CloseCurly">>
             /\ wstate = "Block" =>
                  Begins(written', "Lines") /\ Tail(written') = <<"CloseCurly">>
             /\ wstate \notin {"BlockStart", "Block"} => written' = <<>>
  <2>1. CASE wstate = "BlockStart"
    BY <1>2, <1>3, <1>6, <2>1 DEF WriteEnd, Write
  <2>2. CASE wstate = "Block"
    <3>1. written' = <<"Lines", "CloseCurly">>
      BY <1>2, <1>3, <1>4, <1>6, <2>2 DEF WriteEnd, Write, Line
    <3> QED
      BY <1>3, <1>6, <2>2, <3>1, Tuples DEF WriteEnd, Begins
  <2>3. CASE wstate \notin {"BlockStart", "Block"}
    BY <1>2, <1>3, <1>6, <2>3 DEF WriteEnd, Write
  <2> QED
    BY <2>1, <2>2, <2>3
<1> QED
  BY <1>5, <1>6

-----------------------------------------------------------------------------

\* The program hands the writer an event that the validator accepts.
Wrote(event) ==
  /\ written = <<>> /\ ~sealed
  /\ Push(event) /\ result' = "Ok" /\ PushEvent(event)
  /\ due' = Append(due, event)

LEMMA PieceStands ==
  ASSUME TextsLex, Writer, NEW event \in Events, Wrote(event)
  PROVE  /\ written' \in Seq(Tokens)
         /\ \A events, level :
              /\ Stands("Node", events, level) => NodeText(written, events, level)'
              /\ Stands("Block", events, level) => PastText(written, events, level)'
              /\ Stands("BlockStart", events, level) => BlockText(written, events, level)'
              /\ Stands("First", events, level) =>
                   /\ written' \in Typed({"String"})
                   /\ Stands("Node", Append(events, "Node"), level + 1)'
<1>0. /\ TypeOK /\ result' = "Ok" /\ due' = Append(due, event) /\ written = <<>>
      /\ wstate \in {"First", "BlockStart", "Block", "Node"}
      /\ wstate = "Node" <=> vstate = "Node"
      /\ wstate = "First" => nest = 0
  BY DEF Wrote, Writer
<1>1. CASE event = "Node"
  <2>1. WriteNode /\ wstate # "Node" /\ nest' = nest + 1
    BY <1>0, <1>1, Accepted DEF Wrote, PushEvent
  <2>2. /\ written' \in Seq(Tokens) /\ wstate' = "Node"
        /\ IF wstate = "First" THEN written' \in Typed({"String"})
           ELSE Begins(written', "Lines") /\ Tail(written') \in Typed({"String"})
    BY <1>0, <2>1, NodePiece
  <2>3. \A events, level, word :
          Stands(word, events, level) =>
            word = wstate /\ Stands("Node", Append(events, "Node"), level + 1)'
    BY <1>0, <1>1, <2>1, <2>2 DEF Stands
  <2> QED
    BY <2>1, <2>2, <2>3 DEF PastText, LineText, BlockText
<1>2. CASE event = "Entry"
  <2>1. WriteEntry /\ wstate = "Node" /\ nest' = nest
    BY <1>0, <1>2, Accepted DEF Wrote, PushEvent
  <2>2. /\ written' \in Seq(Tokens) /\ wstate' = wstate
        /\ Begins(written', "Spaces") /\ Tail(written') \in Typed(Plain) \union Named
    BY <1>0, <2>1, EntryPiece
  <2>3. \A events, level, word :
          Stands(word, events, level) =>
            word = "Node" /\ Stands("Node", Append(events, "Entry"), level)'
    BY <1>0, <1>2, <2>1, <2>2 DEF Stands
  <2> QED
    BY <2>2, <2>3 DEF NodeText, SpaceText
<1>3. CASE event = "Children"
  <2>1. WriteChildren /\ wstate = "Node" /\ nest' = nest
    BY <1>0, <1>3, Accepted DEF Wrote, PushEvent
  <2>2. /\ written' \in Seq(Tokens) /\ wstate' = "BlockStart"
        /\ Begins(written', "Spaces") /\ Tail(written') = <<"OpenCurly">>
    BY <1>0, <2>1, BracePieces
  <2>3. \A events, level, word :
          Stands(word, events, level) =>
            word = "Node" /\ Stands("BlockStart", Append(events, "Children"), level)'
    BY <1>0, <1>3, <2>1, <2>2 DEF Stands
  <2> QED
    BY <2>2, <2>3 DEF NodeText, SpaceText
<1>4. CASE event = "End"
  <2>1. WriteEnd /\ wstate # "First" /\ nest' = nest - 1
    BY <1>0, <1>4, Accepted DEF Wrote, PushEvent, TypeOK
  <2>2. /\ written' \in Seq(Tokens) /\ wstate' = "Block"
        /\ wstate = "BlockStart" => written' = <<"CloseCurly">>
        /\ wstate = "Block" =>
             Begins(written', "Lines") /\ Tail(written') = <<"CloseCurly">>
        /\ wstate = "Node" => written' = <<>>
    BY <1>0, <2>1, BracePieces
  <2>3. \A events, level, word :
          Stands(word, events, level) =>
            word = wstate /\ Stands("Block", Append(events, "End"), level - 1)'
    BY <1>0, <1>4, <2>1, <2>2 DEF Stands
  <2>4. \A events, level :
          Stands("Node", events, level) => NodeText(written, events, level)'
    BY <2>2, <2>3 DEF NodeText
  <2>5. \A events, level :
          Stands("Block", events, level) => PastText(written, events, level)'
    BY <2>2, <2>3 DEF PastText, LineText
  <2>6. \A events, level :
          Stands("BlockStart", events, level) => BlockText(written, events, level)'
    BY <2>2, <2>3 DEF BlockText
  <2> QED
    BY <2>1, <2>2, <2>3, <2>4, <2>5, <2>6
<1> QED
  BY <1>1, <1>2, <1>3, <1>4 DEF Events

LEMMA NonEmpty ==
  ASSUME NEW values
  PROVE  /\ <<>> \notin Ones(values) /\ <<>> \notin HintEnd(values)
         /\ <<>> \notin HintName(values) /\ <<>> \notin Typed(values)
         /\ <<>> \notin KeyEnd /\ <<>> \notin Named
         /\ <<>> # <<"OpenCurly">> /\ <<>> # <<"CloseCurly">>
<1>1. \A token : ~Begins(<<>>, token)
  BY DEF Begins
<1> QED
  BY <1>1, OnesFacts, HintFacts, TypedFacts, KeyFacts, Tuples

\* Where there is no text a reader stands at the end of a piece, or of it all.
LEMMA NoText ==
  ASSUME written = <<>>, NEW token, NEW texts, <<>> \notin texts, NEW event, NEW events,
         NEW level
  PROVE  ~Within(token, texts, event, events, level)
  BY DEF Within, Begins

LEMMA GoesOn ==
  ASSUME TextsLex, Writer, NEW event \in Events, Wrote(event),
         UNCHANGED <<peekToken, sealed>>, NEW events, NEW level
  PROVE  /\ AtBlock(events, level) => AtBlock(events, level)'
         /\ AtNode(events, level) => AtNode(events, level)'
         /\ AtEntry(events, level) => AtEntry(events, level)'
         /\ AtEntries(events, level) => AtEntries(events, level)'
         /\ AtPast(events, level) => AtPast(events, level)'
         /\ ~AtEof(events, level) /\ ~AtLines(events, level)
         /\ \A values, which :
              /\ AtValue(values, which, events, level)
                   => AtValue(values, which, events, level)'
              /\ AtTyped(values, which, events, level)
                   => AtTyped(values, which, events, level)'
         /\ \A token, texts, which :
              <<>> \notin texts => ~Within(token, texts, which, events, level)
<1>0. written = <<>> /\ ~sealed /\ UNCHANGED peekToken
  BY DEF Wrote
<1>1. /\ \A values : /\ <<>> \notin Ones(values) /\ <<>> \notin HintName(values)
                     /\ <<>> \notin Typed(values)
      /\ <<>> \notin KeyEnd /\ <<>> \notin Named
      /\ <<>> # <<"OpenCurly">> /\ <<>> # <<"CloseCurly">>
  BY NonEmpty
<1>2. \A token : ~Begins(written, token)
  BY <1>0 DEF Begins
<1>3. \A es, n :
        /\ Stands("Node", es, n) => NodeText(written, es, n)'
        /\ Stands("Block", es, n) => PastText(written, es, n)'
        /\ Stands("BlockStart", es, n) => BlockText(written, es, n)'
        /\ Stands("First", es, n) =>
             /\ written' \in Typed({"String"})
             /\ Stands("Node", Append(es, "Node"), n + 1)'
  BY PieceStands
<1>4. \A token, texts, which, n :
        <<>> \notin texts => ~Within(token, texts, which, events, n)
  BY <1>0, NoText
<1>5. \A es, n : NodeText(written, es, n) => NodeText(written, es, n)'
  <2>1. ASSUME NEW es, NEW n, Stands("Block", Append(es, "End"), n - 1)
        PROVE  NodeText(written, es, n)'
    BY <1>3, <2>1 DEF NodeText, PastText
  <2> QED
    BY <1>2, <1>3, <2>1 DEF NodeText
<1>6. \A es, n : /\ BlockText(written, es, n) => BlockText(written, es, n)'
                 /\ PastText(written, es, n) => PastText(written, es, n)'
  BY <1>0, <1>1, <1>2, <1>3 DEF BlockText, PastText
<1>7. \A values, which, n :
        AtValue(values, which, events, n) => AtValue(values, which, events, n)'
  BY <1>0, <1>1, <1>5 DEF AtValue
<1>8. \A values, which, n :
        AtTyped(values, which, events, n) => AtTyped(values, which, events, n)'
  BY <1>1, <1>4, <1>7 DEF AtTyped
<1>9. \A n : ~AtEof(events, n) /\ ~AtEof(Append(events, "End"), n)
  BY <1>0 DEF AtEof
<1>10. \A es, n : ~LineText(written, es, n) /\ ~SpaceText(written, es, n)
  BY <1>0, <1>1 DEF LineText, SpaceText
<1>11. \A n : ~AtLines(events, n) /\ ~AtLines(Append(events, "End"), n)
  BY <1>9, <1>10 DEF AtLines
<1>12. /\ AtOpen(events, level) => AtOpen(events, level)'
       /\ AtClose(events, level) => AtClose(events, level)'
  BY <1>0, <1>1, <1>6 DEF AtOpen, AtClose
<1>13. AtNode(events, level) => AtNode(events, level)'
  BY <1>8, <1>12 DEF AtNode
<1>14. ASSUME peekToken = "none", Stands("First", events, level)
       PROVE  AtNode(events, level)'
  <2>1. /\ written' \in Typed({"String"}) /\ peekToken' = "none"
        /\ Stands("Node", Append(events, "Node"), level + 1)'
    BY <1>0, <1>3, <1>14
  <2>2. \/ written' \in Ones({"String"})
        \/ Begins(written', "OpenParen") /\ Tail(written') \in HintName({"String"})
    BY <2>1, TypedFacts
  <2> QED
    BY <2>1, <2>2 DEF AtNode, AtTyped, AtValue, Within
<1>15. AtBlock(events, level) => AtBlock(events, level)'
  BY <1>0, <1>1, <1>6, <1>9, <1>13, <1>14 DEF AtBlock
<1>16. AtEntry(events, level) => AtEntry(events, level)'
  BY <1>1, <1>4, <1>8, <1>12 DEF AtEntry
<1>17. AtEntries(events, level) => AtEntries(events, level)'
  BY <1>0, <1>5, <1>10, <1>11 DEF AtEntries
<1>18. AtPast(events, level) => AtPast(events, level)'
  BY <1>0, <1>6, <1>11 DEF AtPast
<1> QED
  BY <1>4, <1>7, <1>8, <1>9, <1>11, <1>13, <1>15, <1>16, <1>17, <1>18

\* The reader's place stays right when there is more text.
LEMMA PlaceProduce ==
  ASSUME TextsLex, Writer, Place, NEW event \in Events, Wrote(event),
         UNCHANGED <<readerVars, sealed>>
  PROVE  Place'
<1>0. /\ UNCHANGED <<state, peekToken, brackets, at, spaces, text, call, out, sealed>>
      /\ ~sealed
  BY DEF readerVars, callVars, lexVars, localVars, Wrote
<1>1. Held' = Held /\ Inner' = Inner /\ Outer' = Outer /\ InBlock' = InBlock
  BY <1>0 DEF Held, Inner, Outer, InBlock
<1>2. /\ \A values : /\ <<>> \notin Ones(values) /\ <<>> \notin HintEnd(values)
                     /\ <<>> \notin Typed(values)
      /\ <<>> \notin KeyEnd
  BY NonEmpty
<1>3. /\ BlockPlace => BlockPlace'
      /\ NodePlace => NodePlace'
      /\ PastPlace => PastPlace'
  BY <1>0, <1>1, <1>2, GoesOn DEF BlockPlace, NodePlace, PastPlace, EntryPoints
<1>4. AtEntry(Held, Inner) => AtEntry(Held, Inner)'
  BY <1>0, <1>1, GoesOn
<1> QED
  BY <1>0, <1>1, <1>3, <1>4 DEF Place

\* The text that is complete is read like any other.
LEMMA PlaceSeal ==
  ASSUME Place, Seal
  PROVE  Place'
<1>0. /\ UNCHANGED <<state, peekToken, brackets, at, spaces, text, call, out>>
      /\ UNCHANGED <<written, wstate, due>> /\ ~sealed /\ nest' = nest
  BY DEF readerVars, callVars, lexVars, localVars, Seal, Done, writerVars
<1>1. Held' = Held /\ Inner' = Inner /\ Outer' = Outer /\ InBlock' = InBlock
  BY <1>0 DEF Held, Inner, Outer, InBlock
<1>2. \A word, es, n : Stands(word, es, n)' <=> Stands(word, es, n)
  BY <1>0, StandsStays
<1>3. \A es, n : ~AtEof(es, n)
  BY <1>0 DEF AtEof
<1>4. \A t, es, n : /\ LineText(t, es, n)' <=> LineText(t, es, n)
                    /\ SpaceText(t, es, n)' <=> SpaceText(t, es, n)
                    /\ BlockText(t, es, n)' <=> BlockText(t, es, n)
  BY <1>2 DEF LineText, SpaceText, BlockText
<1>5. \A t, es, n : /\ PastText(t, es, n)' <=> PastText(t, es, n)
                    /\ NodeText(t, es, n)' <=> NodeText(t, es, n)
  BY <1>2, <1>4 DEF PastText, NodeText
<1>6. \A token, texts, which, es, n :
        Within(token, texts, which, es, n)' <=> Within(token, texts, which, es, n)
  BY <1>0, <1>2 DEF Within
<1>7. \A values, which, es, n :
        AtValue(values, which, es, n)' <=> AtValue(values, which, es, n)
  BY <1>0, <1>2, <1>5 DEF AtValue
<1>8. \A es, n : /\ AtOpen(es, n)' <=> AtOpen(es, n)
                 /\ AtClose(es, n)' <=> AtClose(es, n)
  BY <1>0, <1>2, <1>4, <1>5 DEF AtOpen, AtClose
<1>9. \A values, which, es, n :
        AtTyped(values, which, es, n)' <=> AtTyped(values, which, es, n)
  BY <1>6, <1>7 DEF AtTyped
<1>10. \A es, n : AtNode(es, n)' <=> AtNode(es, n)
  BY <1>8, <1>9 DEF AtNode
<1>11. \A es, n : AtBlock(es, n) => AtBlock(es, n)'
  BY <1>0, <1>2, <1>3, <1>4, <1>10 DEF AtBlock
<1>12. \A es, n : AtEntry(es, n) => AtEntry(es, n)'
  BY <1>6, <1>8, <1>9 DEF AtEntry
<1>13. \A es, n : AtLines(es, n) => AtLines(es, n)'
  BY <1>0, <1>3, <1>4 DEF AtLines
<1>14. \A es, n : /\ AtEntries(es, n) => AtEntries(es, n)'
                  /\ AtPast(es, n) => AtPast(es, n)'
  BY <1>0, <1>4, <1>5, <1>13 DEF AtEntries, AtPast
<1>15. /\ BlockPlace => BlockPlace'
       /\ NodePlace => NodePlace'
       /\ PastPlace => PastPlace'
  BY <1>0, <1>1, <1>3, <1>6, <1>7, <1>9, <1>10, <1>11, <1>12, <1>13, <1>14
     DEF BlockPlace, NodePlace, PastPlace, EntryPoints
<1> QED
  BY <1>0, <1>1, <1>12, <1>15 DEF Place

-----------------------------------------------------------------------------
(* The reader reads.                                                       *)

\* The text as it was.
LEMMA Unmoved ==
  ASSUME UNCHANGED <<peekToken, Text>>, NEW es, NEW n
  PROVE  /\ AtBlock(es, n)' <=> AtBlock(es, n)
         /\ AtNode(es, n)' <=> AtNode(es, n)
         /\ AtEof(es, n)' <=> AtEof(es, n)
         /\ AtEntry(es, n)' <=> AtEntry(es, n)
         /\ AtEntries(es, n)' <=> AtEntries(es, n)
         /\ AtLines(es, n)' <=> AtLines(es, n)
         /\ AtPast(es, n)' <=> AtPast(es, n)
         /\ \A values, which :
              /\ AtValue(values, which, es, n)' <=> AtValue(values, which, es, n)
              /\ AtTyped(values, which, es, n)' <=> AtTyped(values, which, es, n)
         /\ \A token, texts, which :
              Within(token, texts, which, es, n)' <=> Within(token, texts, which, es, n)
<1>0. UNCHANGED <<peekToken, written, wstate, due, nest, sealed>>
  BY DEF Text
<1>1. \A word, fs, m : Stands(word, fs, m)' <=> Stands(word, fs, m)
  BY <1>0, StandsStays
<1>2. \A fs, m : /\ LineText(written, fs, m)' <=> LineText(written, fs, m)
                 /\ SpaceText(written, fs, m)' <=> SpaceText(written, fs, m)
                 /\ BlockText(written, fs, m)' <=> BlockText(written, fs, m)
                 /\ LineText(Tail(written), fs, m)' <=> LineText(Tail(written), fs, m)
                 /\ SpaceText(Tail(written), fs, m)' <=> SpaceText(Tail(written), fs, m)
  BY <1>0, <1>1 DEF LineText, SpaceText, BlockText
<1>3. \A fs, m : /\ PastText(written, fs, m)' <=> PastText(written, fs, m)
                 /\ NodeText(written, fs, m)' <=> NodeText(written, fs, m)
  BY <1>0, <1>1, <1>2 DEF PastText, NodeText
<1>4. \A token, texts, which, m :
        Within(token, texts, which, es, m)' <=> Within(token, texts, which, es, m)
  BY <1>0, <1>1 DEF Within
<1>5. \A values, which, m :
        AtValue(values, which, es, m)' <=> AtValue(values, which, es, m)
  BY <1>0, <1>1, <1>3 DEF AtValue
<1>6. /\ AtOpen(es, n)' <=> AtOpen(es, n)
      /\ AtClose(es, n)' <=> AtClose(es, n)
  BY <1>0, <1>1, <1>2, <1>3 DEF AtOpen, AtClose
<1>7. \A values, which, m :
        AtTyped(values, which, es, m)' <=> AtTyped(values, which, es, m)
  BY <1>4, <1>5 DEF AtTyped
<1>8. AtNode(es, n)' <=> AtNode(es, n)
  BY <1>6, <1>7 DEF AtNode
<1>9. \A fs, m : AtEof(fs, m)' <=> AtEof(fs, m)
  BY <1>0 DEF AtEof
<1>10. AtBlock(es, n)' <=> AtBlock(es, n)
  BY <1>0, <1>1, <1>2, <1>8, <1>9 DEF AtBlock
<1>11. AtEntry(es, n)' <=> AtEntry(es, n)
  BY <1>4, <1>6, <1>7 DEF AtEntry
<1>12. \A fs, m : AtLines(fs, m)' <=> AtLines(fs, m)
  BY <1>0, <1>2, <1>9 DEF AtLines
<1>13. /\ AtEntries(es, n)' <=> AtEntries(es, n)
       /\ AtPast(es, n)' <=> AtPast(es, n)
  BY <1>0, <1>2, <1>3, <1>12 DEF AtEntries, AtPast
<1> QED
  BY <1>4, <1>5, <1>7, <1>8, <1>9, <1>10, <1>11, <1>12, <1>13

\* The program takes the event that it holds.
LEMMA Taken ==
  ASSUME due' = Tail(due), UNCHANGED <<peekToken, written, wstate, nest, sealed>>,
         NEW es \in Seq(Events), es # <<>>, NEW n
  PROVE  /\ AtBlock(es, n) => AtBlock(Tail(es), n)'
         /\ AtEntry(es, n) => AtEntry(Tail(es), n)'
         /\ AtEntries(es, n) => AtEntries(Tail(es), n)'
         /\ AtPast(es, n) => AtPast(Tail(es), n)'
<1> DEFINE Full == {s \in Seq(Events) : s # <<>>}
           After(event) == Append(es, event)
<1>1. {"Node", "Entry", "Children", "End"} = Events /\ es \in Full
  BY DEF Events
<1>2. ASSUME NEW s \in Full, NEW event \in Events
      PROVE  /\ Append(s, event) \in Full
             /\ Tail(Append(s, event)) = Append(Tail(s), event)
  BY <1>2, HeadTailAppend
<1>3. \A word, s, m : s \in Full /\ Stands(word, s, m) => Stands(word, Tail(s), m)'
  BY DEF Stands
<1> HIDE DEF Full
<1>4. ASSUME NEW s \in Full, NEW m, NEW word, NEW event \in Events,
             Stands(word, Append(s, event), m)
      PROVE  Stands(word, Append(Tail(s), event), m)'
  <2>1. Append(s, event) \in Full /\ Tail(Append(s, event)) = Append(Tail(s), event)
    BY <1>2
  <2>2. Stands(word, Tail(Append(s, event)), m)'
    BY <1>3, <1>4, <2>1
  <2> QED
    BY <2>1, <2>2
<1>5. ASSUME NEW s \in Full, NEW m, NEW t
      PROVE  /\ LineText(t, s, m) => LineText(t, Tail(s), m)'
             /\ SpaceText(t, s, m) => SpaceText(t, Tail(s), m)'
             /\ BlockText(t, s, m) => BlockText(t, Tail(s), m)'
  BY <1>1, <1>3, <1>4 DEF LineText, SpaceText, BlockText
<1>6. ASSUME NEW s \in Full, NEW m, NEW t
      PROVE  PastText(t, s, m) => PastText(t, Tail(s), m)'
  BY <1>3, <1>5 DEF PastText
<1>7. ASSUME NEW s \in Full, NEW m, NEW t
      PROVE  NodeText(t, s, m) => NodeText(t, Tail(s), m)'
  <2>1. Append(s, "End") \in Full /\ Tail(Append(s, "End")) = Append(Tail(s), "End")
    BY <1>1, <1>2
  <2>2. LineText(Tail(t), Append(s, "End"), m - 1)
          => LineText(Tail(t), Append(Tail(s), "End"), m - 1)'
    BY <1>5, <2>1
  <2>3. SpaceText(Tail(t), s, m) => SpaceText(Tail(t), Tail(s), m)'
    BY <1>5
  <2>4. Stands("Block", Append(s, "End"), m - 1)
          => Stands("Block", Append(Tail(s), "End"), m - 1)'
    BY <1>1, <1>4
  <2> QED
    BY <1>3, <2>2, <2>3, <2>4 DEF NodeText
<1>8. ASSUME NEW event \in Events
      PROVE  /\ Append(es, event) \in Full
             /\ Tail(Append(es, event)) = Append(Tail(es), event)
  BY <1>1, <1>2
<1>9. ASSUME NEW token, NEW texts, NEW event \in Events, NEW m,
             Within(token, texts, event, es, m)
      PROVE  Within(token, texts, event, Tail(es), m)'
  BY <1>1, <1>4, <1>9 DEF Within
<1>10. ASSUME NEW values, NEW event \in Events, NEW m, AtValue(values, event, es, m)
       PROVE  AtValue(values, event, Tail(es), m)'
  <2>1. NodeText(written, Append(es, event), m)
          => NodeText(written, Append(Tail(es), event), m)'
    BY <1>7, <1>8
  <2>2. Stands("Node", Append(es, event), m) => Stands("Node", Append(Tail(es), event), m)'
    BY <1>1, <1>4
  <2> QED
    BY <1>10, <2>1, <2>2 DEF AtValue
<1>11. ASSUME NEW values, NEW event \in Events, NEW m, AtTyped(values, event, es, m)
       PROVE  AtTyped(values, event, Tail(es), m)'
  BY <1>9, <1>10, <1>11 DEF AtTyped
<1>12. AtOpen(es, n) => AtOpen(Tail(es), n)'
  <2>1. BlockText(written, Append(es, "Children"), n)
          => BlockText(written, Append(Tail(es), "Children"), n)'
    BY <1>1, <1>5, <1>8
  <2>2. Stands("BlockStart", Append(es, "Children"), n)
          => Stands("BlockStart", Append(Tail(es), "Children"), n)'
    BY <1>1, <1>4
  <2> QED
    BY <2>1, <2>2 DEF AtOpen
<1>13. AtClose(es, n) => AtClose(Tail(es), n)'
  <2>1. PastText(written, Append(es, "End"), n - 1)
          => PastText(written, Append(Tail(es), "End"), n - 1)'
    BY <1>1, <1>6, <1>8
  <2>2. Stands("Block", Append(es, "End"), n - 1)
          => Stands("Block", Append(Tail(es), "End"), n - 1)'
    BY <1>1, <1>4
  <2> QED
    BY <2>1, <2>2 DEF AtClose
<1>14. ASSUME NEW s \in Full, NEW m, AtEof(s, m)
       PROVE  AtEof(Tail(s), m)'
  BY <1>14 DEF AtEof
<1>15. AtNode(es, n) => AtNode(Tail(es), n)'
  BY <1>1, <1>11, <1>13 DEF AtNode
<1>16. AtBlock(es, n) => AtBlock(Tail(es), n)'
  <2>1. BlockText(written, es, n) => BlockText(written, Tail(es), n)'
    BY <1>1, <1>5
  <2>2. Stands("Node", Append(es, "Node"), n + 1)
          => Stands("Node", Append(Tail(es), "Node"), n + 1)'
    BY <1>1, <1>4
  <2>3. /\ Stands("First", es, n) => Stands("First", Tail(es), n)'
        /\ AtEof(es, n) => AtEof(Tail(es), n)'
    BY <1>1, <1>3, <1>14
  <2> QED
    BY <1>15, <2>1, <2>2, <2>3 DEF AtBlock
<1>17. AtEntry(es, n) => AtEntry(Tail(es), n)'
  BY <1>1, <1>9, <1>11, <1>12 DEF AtEntry
<1>18. ASSUME NEW s \in Full, NEW m
       PROVE  AtLines(s, m) => AtLines(Tail(s), m)'
  BY <1>5, <1>14 DEF AtLines
<1>19. AtEntries(es, n) => AtEntries(Tail(es), n)'
  <2>1. NodeText(written, es, n) => NodeText(written, Tail(es), n)'
    BY <1>1, <1>7
  <2>2. SpaceText(written, es, n) => SpaceText(written, Tail(es), n)'
    BY <1>1, <1>5
  <2>3. AtLines(Append(es, "End"), n - 1) => AtLines(Append(Tail(es), "End"), n - 1)'
    BY <1>1, <1>8, <1>18
  <2> QED
    BY <2>1, <2>2, <2>3 DEF AtEntries
<1>20. AtPast(es, n) => AtPast(Tail(es), n)'
  <2>1. PastText(written, es, n) => PastText(written, Tail(es), n)'
    BY <1>1, <1>6
  <2>2. AtLines(es, n) => AtLines(Tail(es), n)'
    BY <1>1, <1>18
  <2> QED
    BY <2>1, <2>2 DEF AtPast
<1> QED
  BY <1>16, <1>17, <1>19, <1>20

\* What is due is not far from what has been read, and begins with what is held.
Follows(es, k) ==
  /\ due \in Seq(Events) /\ Len(due) <= Len(es) + k
  /\ es # <<>> => due # <<>> /\ Head(due) = Head(es)

LEMMA FollowsFacts ==
  ASSUME NEW es \in Seq(Events)
  PROVE  /\ \A word, n : Stands(word, es, n) => Follows(es, 0)
         /\ \A k \in 0..2, event \in Events :
              /\ Append(es, event) \in Seq(Events)
              /\ Follows(Append(es, event), k) => Follows(es, k + 1)
         /\ \A k \in 0..3 : Follows(es, k) => Follows(es, 3)
<1>1. \A word, n : Stands(word, es, n) => Follows(es, 0)
  BY DEF Stands, Follows
<1>2. ASSUME NEW k \in 0..2, NEW event \in Events, Follows(Append(es, event), k)
      PROVE  Follows(es, k + 1)
  <2>1. /\ Append(es, event) # <<>> /\ Len(Append(es, event)) = Len(es) + 1
        /\ es # <<>> => Head(Append(es, event)) = Head(es)
    OBVIOUS
  <2> QED
    BY <1>2, <2>1 DEF Follows
<1>3. \A k \in 0..2, event \in Events : Append(es, event) \in Seq(Events)
  OBVIOUS
<1>4. \A k \in 0..3 : Follows(es, k) => Follows(es, 3)
  BY DEF Follows
<1> QED
  BY <1>1, <1>2, <1>3, <1>4

LEMMA Front ==
  ASSUME NEW es \in Seq(Events), NEW n
  PROVE  /\ AtBlock(es, n) => Follows(es, 3)
         /\ AtEof(es, n) => Follows(es, 3)
         /\ AtNode(es, n) => Follows(es, 3)
         /\ AtEntry(es, n) => Follows(es, 3)
         /\ AtEntries(es, n) => Follows(es, 3)
         /\ AtPast(es, n) => Follows(es, 3)
         /\ AtLines(es, n) => Follows(es, 2)
         /\ \A event \in Events : \A values :
              /\ AtValue(values, event, es, n) => Follows(es, 3)
              /\ AtTyped(values, event, es, n) => Follows(es, 3)
         /\ \A event \in Events : \A token, texts :
              Within(token, texts, event, es, n) => Follows(es, 3)
<1>0. "Node" \in Events /\ "Entry" \in Events /\ "Children" \in Events /\ "End" \in Events
  BY DEF Events
<1>1. ASSUME NEW s \in Seq(Events), NEW event \in Events, NEW word, NEW m,
             Stands(word, Append(s, event), m)
      PROVE  Follows(s, 1)
  <2>1. /\ Append(s, event) \in Seq(Events)
        /\ \A k \in 0..2 : Follows(Append(s, event), k) => Follows(s, k + 1)
    BY FollowsFacts
  <2>2. Follows(Append(s, event), 0)
    BY <1>1, <2>1, FollowsFacts
  <2> QED
    BY <2>1, <2>2
<1>2. ASSUME NEW s \in Seq(Events), NEW m, NEW t
      PROVE  /\ LineText(t, s, m) => Follows(s, 1)
             /\ SpaceText(t, s, m) => Follows(s, 1)
  BY <1>0, <1>1 DEF LineText, SpaceText
<1>3. ASSUME NEW s \in Seq(Events)
      PROVE  Follows(s, 0) \/ Follows(s, 1) => Follows(s, 2)
  BY DEF Follows
<1>4. ASSUME NEW s \in Seq(Events), NEW m, NEW t
      PROVE  /\ BlockText(t, s, m) => Follows(s, 2)
             /\ PastText(t, s, m) => Follows(s, 2)
  <2>1. \A word : Stands(word, s, m) => Follows(s, 2)
    BY <1>3, FollowsFacts
  <2> QED
    BY <1>0, <1>1, <1>2, <1>3, <2>1 DEF BlockText, PastText
<1>5. ASSUME NEW s \in Seq(Events), NEW m, NEW t, NodeText(t, s, m)
      PROVE  Follows(s, 2)
  <2>1. CASE Stands("Node", s, m) \/ Stands("Block", Append(s, "End"), m - 1)
    <3>1. Follows(s, 0) \/ Follows(s, 1)
      BY <1>0, <1>1, <2>1, FollowsFacts
    <3> QED
      BY <1>3, <3>1
  <2>2. CASE SpaceText(Tail(t), s, m)
    BY <1>2, <1>3, <2>2
  <2>3. CASE LineText(Tail(t), Append(s, "End"), m - 1)
    <3>1. Append(s, "End") \in Seq(Events)
      BY <1>0, FollowsFacts
    <3>2. Follows(Append(s, "End"), 1)
      BY <1>2, <2>3, <3>1
    <3>3. \A k \in 0..2 : Follows(Append(s, "End"), k) => Follows(s, k + 1)
      BY <1>0, FollowsFacts
    <3> QED
      BY <3>2, <3>3
  <2> QED
    BY <1>5, <2>1, <2>2, <2>3 DEF NodeText
<1>6. ASSUME NEW event \in Events
      PROVE  /\ Append(es, event) \in Seq(Events)
             /\ Follows(Append(es, event), 2) => Follows(es, 3)
             /\ Follows(Append(es, event), 1) => Follows(es, 3)
  <2>1. /\ Append(es, event) \in Seq(Events)
        /\ \A k \in 0..2 : Follows(Append(es, event), k) => Follows(es, k + 1)
    BY FollowsFacts
  <2>2. \A k \in 0..3 : Follows(es, k) => Follows(es, 3)
    BY FollowsFacts
  <2> QED
    BY <2>1, <2>2
<1>7. \A k \in 0..3 : Follows(es, k) => Follows(es, 3)
  BY FollowsFacts
<1>8. ASSUME NEW event \in Events, NEW m
      PROVE  /\ \A values : AtValue(values, event, es, m) => Follows(es, 3)
             /\ \A token, texts : Within(token, texts, event, es, m) => Follows(es, 3)
             /\ \A values : AtTyped(values, event, es, m) => Follows(es, 3)
  <2>1. Stands("Node", Append(es, event), m) => Follows(es, 3)
    BY <1>1, <1>7
  <2>2. NodeText(written, Append(es, event), m) => Follows(es, 3)
    BY <1>5, <1>6
  <2> QED
    BY <2>1, <2>2 DEF AtValue, Within, AtTyped
<1>9. AtOpen(es, n) \/ AtClose(es, n) => Follows(es, 3)
  <2>1. \A word, m : /\ Stands(word, Append(es, "Children"), m) => Follows(es, 3)
                     /\ Stands(word, Append(es, "End"), m) => Follows(es, 3)
    BY <1>0, <1>1, <1>7
  <2>2. \A m : /\ BlockText(written, Append(es, "Children"), m) => Follows(es, 3)
               /\ PastText(written, Append(es, "End"), m) => Follows(es, 3)
    BY <1>0, <1>4, <1>6
  <2> QED
    BY <2>1, <2>2 DEF AtOpen, AtClose
<1>10. AtNode(es, n) => Follows(es, 3)
  BY <1>0, <1>8, <1>9 DEF AtNode
<1>11. ASSUME NEW s \in Seq(Events), NEW m
       PROVE  /\ AtEof(s, m) => Follows(s, 2)
              /\ AtLines(s, m) => Follows(s, 2)
  <2>1. AtEof(s, m) => Follows(s, 2)
    BY DEF AtEof, Follows
  <2> QED
    BY <1>2, <1>3, <2>1 DEF AtLines
<1>12. AtBlock(es, n) => Follows(es, 3)
  <2>1. /\ BlockText(written, es, n) => Follows(es, 3)
        /\ AtEof(es, n) => Follows(es, 3)
    BY <1>4, <1>7, <1>11
  <2>2. /\ Stands("First", es, n) => Follows(es, 3)
        /\ Stands("Node", Append(es, "Node"), n + 1) => Follows(es, 3)
    BY <1>0, <1>1, <1>7, FollowsFacts
  <2> QED
    BY <1>10, <2>1, <2>2 DEF AtBlock
<1>13. AtEntry(es, n) => Follows(es, 3)
  BY <1>0, <1>8, <1>9 DEF AtEntry
<1>14. AtEntries(es, n) => Follows(es, 3)
  <2>1. NodeText(written, es, n) \/ SpaceText(written, es, n) => Follows(es, 3)
    BY <1>2, <1>5, <1>7
  <2>2. AtLines(Append(es, "End"), n - 1) => Follows(es, 3)
    BY <1>0, <1>6, <1>11
  <2> QED
    BY <2>1, <2>2 DEF AtEntries
<1>15. AtPast(es, n) => Follows(es, 3)
  BY <1>4, <1>7, <1>11 DEF AtPast
<1>16. /\ AtEof(es, n) => Follows(es, 3)
       /\ AtLines(es, n) => Follows(es, 2)
  BY <1>7, <1>11
<1>17. /\ \A event \in Events : \A values :
            /\ AtValue(values, event, es, n) => Follows(es, 3)
            /\ AtTyped(values, event, es, n) => Follows(es, 3)
       /\ \A event \in Events : \A token, texts :
            Within(token, texts, event, es, n) => Follows(es, 3)
  BY <1>8
<1> QED
  BY <1>10, <1>12, <1>13, <1>14, <1>15, <1>16, <1>17

LEMMA PlaceConsume ==
  ASSUME Calm, Pipe, Place, Consume
  PROVE  Place' /\ Calm' /\ due' \in Seq(Events)
<1>0. /\ call = "idle" /\ call' = "next" /\ at = "inner" /\ out \in {"None"} \union Events
      /\ UNCHANGED <<state, brackets, peekToken, skipping, sd, spaces, text, at, out>>
      /\ UNCHANGED <<written, wstate, nest, sealed>>
      /\ due' = IF out = "None" THEN due ELSE Tail(due)
  BY DEF Calm, Consume, CallNext, MayCall, lexVars, localVars, writerVars, validatorVars
<1>1. Held' = <<>> /\ Inner' = Inner /\ Outer' = Outer /\ InBlock' = InBlock
  BY <1>0 DEF Held, Inner, Outer, InBlock
<1>2. Calm'
  BY <1>0 DEF Calm
<1>3. CASE out = "None"
  <2>1. Held = <<>> /\ UNCHANGED <<peekToken, Text>>
    BY <1>0, <1>3 DEF Held, Text
  <2>2. /\ InBlock => AtBlock(Held, Outer)'
        /\ state = "NodeEntries" => AtEntries(Held, Inner)'
        /\ state = "NodeEntriesSpaced" => AtEntry(Held, Inner)'
        /\ state = "NodeChildrenPast" => AtPast(Held, Outer)'
        /\ InBlock \/ state \in {"NodeEntries", "NodeEntriesSpaced", "NodeChildrenPast"}
    BY <1>0, <1>1, <1>3, <2>1, Unmoved
       DEF Place, BlockPlace, NodePlace, PastPlace, InBlock
  <2>3. Place'
    BY <1>0, <1>1, <2>2
       DEF Place, BlockPlace, NodePlace, PastPlace, BlockPoints, EntryPoints
  <2> QED
    BY <1>0, <1>2, <1>3, <2>3 DEF Pipe
<1>4. CASE out # "None"
  <2>1. /\ out \in Events /\ Held = <<out>> /\ <<out>> \in Seq(Events) /\ <<out>> # <<>>
        /\ Tail(<<out>>) = <<>>
    BY <1>0, <1>4 DEF Held, Events
  <2>2. due' = Tail(due)
    BY <1>0, <1>4
  <2>3. /\ InBlock => AtBlock(<<out>>, Outer)
        /\ state = "NodeEntries" => AtEntries(<<out>>, Inner)
        /\ state = "NodeEntriesSpaced" => AtEntry(<<out>>, Inner)
        /\ state = "NodeChildrenPast" => AtPast(<<out>>, Outer)
        /\ InBlock \/ state \in {"NodeEntries", "NodeEntriesSpaced", "NodeChildrenPast"}
    BY <1>0, <1>4, <2>1 DEF Place, BlockPlace, NodePlace, PastPlace, InBlock, Events
  <2>4. \A n : /\ AtBlock(<<out>>, n) => AtBlock(<<>>, n)'
               /\ AtEntry(<<out>>, n) => AtEntry(<<>>, n)'
               /\ AtEntries(<<out>>, n) => AtEntries(<<>>, n)'
               /\ AtPast(<<out>>, n) => AtPast(<<>>, n)'
    <3> DEFINE held == <<out>>
    <3>1. held \in Seq(Events) /\ held # <<>> /\ Tail(held) = <<>> /\ held' = held
      BY <1>0, <2>1
    <3> HIDE DEF held
    <3>2. \A n : /\ AtBlock(held, n) => AtBlock(Tail(held), n)'
                 /\ AtEntry(held, n) => AtEntry(Tail(held), n)'
                 /\ AtEntries(held, n) => AtEntries(Tail(held), n)'
                 /\ AtPast(held, n) => AtPast(Tail(held), n)'
      BY <1>0, <2>2, <3>1, Taken
    <3>3. Tail(held)' = <<>>
      BY <3>1
    <3> QED
      BY <3>1, <3>2, <3>3 DEF held
  <2>5. /\ InBlock => AtBlock(Held, Outer)'
        /\ state = "NodeEntries" => AtEntries(Held, Inner)'
        /\ state = "NodeEntriesSpaced" => AtEntry(Held, Inner)'
        /\ state = "NodeChildrenPast" => AtPast(Held, Outer)'
    BY <1>1, <2>3, <2>4
  <2>6. Place'
    BY <1>0, <1>1, <2>3, <2>5
       DEF Place, BlockPlace, NodePlace, PastPlace, BlockPoints, EntryPoints
  <2>7. due # <<>> /\ due \in Seq(Events)
    BY <2>1, <2>3, Front DEF Follows
  <2>8. due' \in Seq(Events)
    BY <2>2, <2>7
  <2> QED
    BY <1>2, <2>6, <2>8
<1> QED
  BY <1>3, <1>4

\* What the peeked token says of the reader's place.
LEMMA Peeked ==
  ASSUME peekToken # "none", NEW es, NEW n
  PROVE  /\ \A values, which : AtValue(values, which, es, n) =>
              peekToken \in values /\ NodeText(written, Append(es, which), n)
         /\ \A token, texts, which : Within(token, texts, which, es, n) =>
              peekToken = token /\ written \in texts /\ Stands("Node", Append(es, which), n)
         /\ \A values, which : AtTyped(values, which, es, n) =>
              \/ peekToken \in values /\ AtValue(values, which, es, n)
              \/ /\ peekToken = "OpenParen"
                 /\ Within("OpenParen", HintName(values), which, es, n)
         /\ AtNode(es, n) =>
              \/ /\ peekToken \in {"String", "OpenParen"}
                 /\ AtTyped({"String"}, "Node", es, n + 1)
              \/ peekToken = "CloseCurly" /\ PastText(written, Append(es, "End"), n - 1)
         /\ AtBlock(es, n) =>
              \/ AtNode(es, n) \/ AtEof(es, n)
              \/ /\ peekToken = "Lines" /\ written \in Typed({"String"})
                 /\ Stands("Node", Append(es, "Node"), n + 1)
         /\ AtEntry(es, n) =>
              \/ AtTyped(Plain, "Entry", es, n)
              \/ peekToken = "String" /\ Within("String", KeyEnd, "Entry", es, n)
              \/ peekToken = "OpenCurly" /\ BlockText(written, Append(es, "Children"), n)
         /\ AtLines(es, n) =>
              \/ peekToken = "Lines" /\ LineText(written, es, n)
              \/ peekToken = "Eof" /\ AtEof(es, n)
         /\ AtEntries(es, n) =>
              \/ peekToken = "Spaces" /\ SpaceText(written, es, n)
              \/ AtLines(Append(es, "End"), n - 1)
         /\ AtPast(es, n) => AtLines(es, n)
         /\ AtEof(es, n) =>
              peekToken = "Eof" /\ written = <<>> /\ sealed /\ due = es /\ nest = n
<1>1. \A values, which, m : AtValue(values, which, es, m) =>
        peekToken \in values /\ NodeText(written, Append(es, which), m)
  BY DEF AtValue
<1>2. \A token, texts, which, m : Within(token, texts, which, es, m) =>
        peekToken = token /\ written \in texts /\ Stands("Node", Append(es, which), m)
  BY DEF Within
<1>3. \A values, which, m : AtTyped(values, which, es, m) =>
        \/ peekToken \in values /\ AtValue(values, which, es, m)
        \/ peekToken = "OpenParen" /\ Within("OpenParen", HintName(values), which, es, m)
  BY <1>1, <1>2 DEF AtTyped
<1>4. AtNode(es, n) =>
        \/ AtTyped({"String"}, "Node", es, n + 1) /\ peekToken \in {"String", "OpenParen"}
        \/ peekToken = "CloseCurly" /\ PastText(written, Append(es, "End"), n - 1)
  BY <1>3 DEF AtNode, AtClose
<1>5. AtBlock(es, n) =>
        \/ AtNode(es, n) \/ AtEof(es, n)
        \/ /\ peekToken = "Lines" /\ written \in Typed({"String"})
           /\ Stands("Node", Append(es, "Node"), n + 1)
  BY DEF AtBlock
<1>6. AtEntry(es, n) =>
        \/ AtTyped(Plain, "Entry", es, n)
        \/ peekToken = "String" /\ Within("String", KeyEnd, "Entry", es, n)
        \/ peekToken = "OpenCurly" /\ BlockText(written, Append(es, "Children"), n)
  BY <1>2 DEF AtEntry, AtOpen
<1>7. \A fs, m : AtEof(fs, m) =>
        peekToken = "Eof" /\ written = <<>> /\ sealed /\ due = fs /\ nest = m
  BY DEF AtEof
<1>8. \A fs, m : AtLines(fs, m) =>
        \/ peekToken = "Lines" /\ LineText(written, fs, m)
        \/ peekToken = "Eof" /\ AtEof(fs, m)
  BY <1>7 DEF AtLines
<1>9. /\ AtEntries(es, n) =>
           \/ peekToken = "Spaces" /\ SpaceText(written, es, n)
           \/ AtLines(Append(es, "End"), n - 1)
      /\ AtPast(es, n) => AtLines(es, n)
  BY DEF AtEntries, AtPast
<1> QED
  BY <1>1, <1>2, <1>3, <1>4, <1>5, <1>6, <1>7, <1>8, <1>9

\* What follows where it takes the peeked token.
LEMMA Advanced ==
  ASSUME peekToken' = "none", UNCHANGED Text, NEW es, NEW n
  PROVE  /\ NodeText(written, es, n) => AtEntries(es, n)'
         /\ SpaceText(written, es, n) => AtEntry(es, n)'
         /\ LineText(written, es, n) => AtNode(es, n)'
         /\ BlockText(written, es, n) => AtBlock(es, n)'
         /\ PastText(written, es, n) => AtPast(es, n)'
         /\ written \in Named /\ Stands("Node", Append(es, "Entry"), n) => AtEntry(es, n)'
         /\ \A which : Stands("Node", Append(es, which), n) =>
              /\ \A values : written \in Typed(values) => AtTyped(values, which, es, n)'
              /\ \A values : written \in HintName(values) =>
                   Within("String", HintEnd(values), which, es, n)'
              /\ \A values : written \in HintEnd(values) =>
                   Within("CloseParen", Ones(values), which, es, n)'
              /\ \A values : written \in Ones(values) => AtValue(values, which, es, n)'
              /\ written \in KeyEnd => Within("Equals", Typed(Plain), which, es, n)'
<1>0. /\ peekToken' = "none" /\ UNCHANGED <<written, wstate, due, nest, sealed>>
      /\ \A word, fs, m : Stands(word, fs, m)' <=> Stands(word, fs, m)
  BY StandsStays DEF Text
<1>1. ASSUME NEW token, NEW texts, NEW which, NEW m, Begins(written, token),
             Tail(written) \in texts, Stands("Node", Append(es, which), m)
      PROVE  Within(token, texts, which, es, m)'
  BY <1>0, <1>1 DEF Within, Begins
<1>2. \A values, which, m :
        Stands("Node", Append(es, which), m) /\ written \in Ones(values)
          => AtValue(values, which, es, m)'
  BY <1>0 DEF AtValue
<1>3. ASSUME NEW values, NEW which, NEW m, Stands("Node", Append(es, which), m),
             written \in Typed(values)
      PROVE  AtTyped(values, which, es, m)'
  BY <1>1, <1>2, <1>3, TypedFacts DEF AtTyped
<1>4. ASSUME NEW which, Stands("Node", Append(es, which), n)
      PROVE  /\ \A values : written \in HintName(values) =>
                  Within("String", HintEnd(values), which, es, n)'
             /\ \A values : written \in HintEnd(values) =>
                  Within("CloseParen", Ones(values), which, es, n)'
             /\ written \in KeyEnd => Within("Equals", Typed(Plain), which, es, n)'
  BY <1>1, <1>4, HintFacts, KeyFacts
<1>5. written \in Named /\ Stands("Node", Append(es, "Entry"), n) => AtEntry(es, n)'
  BY <1>1, KeyFacts DEF AtEntry
<1>6. /\ \A fs, m : LineText(written, fs, m)' <=> LineText(written, fs, m)
      /\ \A fs, m : LineText(Tail(written), fs, m)' <=> LineText(Tail(written), fs, m)
      /\ SpaceText(Tail(written), es, n)' <=> SpaceText(Tail(written), es, n)
  BY <1>0 DEF LineText, SpaceText
<1>7. NodeText(written, es, n) => AtEntries(es, n)'
  BY <1>0, <1>6 DEF AtEntries, NodeText
<1>8. SpaceText(written, es, n) => AtEntry(es, n)'
  BY <1>0, <1>3, <1>5 DEF SpaceText, AtEntry, AtOpen
<1>9. LineText(written, es, n) => AtNode(es, n)'
  BY <1>0, <1>3 DEF LineText, AtNode, AtClose
<1>10. BlockText(written, es, n) => AtBlock(es, n)'
  BY <1>0 DEF BlockText, AtBlock
<1>11. PastText(written, es, n) => AtPast(es, n)'
  BY <1>0, <1>6 DEF PastText, AtPast
<1> QED
  BY <1>2, <1>3, <1>4, <1>5, <1>7, <1>8, <1>9, <1>10, <1>11

\* An inner event that next() returns.
LEMMA Delivers ==
  ASSUME Calm, call = "next", NEW event \in {"Node", "Entry", "Children", "End", "Done"},
         Deliver(event)
  PROVE  /\ call' = "idle" /\ out' = event /\ at' = "inner" /\ skipping' = "no"
         /\ sd' = FALSE /\ spaces' = FALSE /\ text' = FALSE
         /\ event # "Done" => Held' = <<event>>
<1>1. /\ call' = "idle" /\ out' = event /\ at' = "inner" /\ skipping' = "no"
      /\ sd' = FALSE /\ spaces' = FALSE /\ text' = FALSE
  BY DEF Calm, Deliver, LeaveInner, Skip, NextEvent, Return, Continue
<1> QED
  BY <1>1 DEF Held

-----------------------------------------------------------------------------
(* The steps of the reader.                                                *)

\* Inside a call of next().
LEMMA Where ==
  ASSUME Calm, Place, at # "inner"
  PROVE  /\ call = "next" /\ Held = <<>> /\ ~Skip /\ skipping = "no" /\ sd = FALSE
         /\ Len(brackets) \in Nat /\ Inner - 1 = Outer /\ Inner = Outer + 1
         /\ \/ InBlock /\ BlockPlace /\ at \in BlockPoints \ {"inner"}
            \/ /\ state = "NodeEntries" /\ NodePlace
               /\ at \in {"entrySpaces", "entryCase", "entry"} \union EntryPoints
            \/ /\ state = "NodeChildrenPast" /\ PastPlace
               /\ at \in {"entrySpaces", "entryCase"}
  BY DEF Calm, Place, Held, Skip, Inner, Outer

\* The reader goes on to a point of the same call.
Moves ==
  /\ UNCHANGED <<state, brackets, call, skipping, out, sd>> /\ UNCHANGED Text
  /\ at' # "inner" /\ spaces' \in BOOLEAN /\ text' \in BOOLEAN

LEMMA StaysCalm ==
  ASSUME Calm, Place, at # "inner", Moves
  PROVE  /\ Calm' /\ Held' = Held /\ Inner' = Inner /\ Outer' = Outer
         /\ InBlock' = InBlock
  BY Where DEF Calm, Moves, Held, Inner, Outer, InBlock

Reads == UNCHANGED <<writerVars, validatorVars, pipeVars>>

LEMMA ReadsNoText ==
  ASSUME Reads
  PROVE  UNCHANGED Text
  BY DEF Reads, writerVars, validatorVars, pipeVars, Text

LEMMA SpacesRead ==
  ASSUME IInv, SkipSpaces, Reads
  PROVE  Calm' /\ Place'
<1>0. /\ at \in SpacePoints /\ at # "inner" /\ peekToken # "none" /\ at' = AfterSpaces
      /\ spaces' = (peekToken = "Spaces") /\ text' = text /\ Moves
      /\ peekToken = "Spaces" => peekToken' = "none"
      /\ peekToken # "Spaces" => UNCHANGED peekToken
      /\ Calm /\ Place
  BY ReadsNoText
     DEF IInv, Calm, SkipSpaces, SpacePoints, AfterSpaces, Goto, callVars, Advance, Keep,
         lexVars, Moves
<1>1. /\ Calm' /\ Held' = Held /\ Inner' = Inner /\ Outer' = Outer /\ InBlock' = InBlock
      /\ state' = state /\ UNCHANGED Text
  BY <1>0, StaysCalm DEF Moves
<1>2. Inner - 1 = Outer
  BY <1>0, Where
<1>3. ASSUME InBlock, BlockPlace, at \in BlockPoints \ {"inner"}
      PROVE  Place'
  <2>1. peekToken # "Spaces"
    <3>1. \/ Within("String", HintEnd({"String"}), "Node", Held, Inner)
          \/ Within("CloseParen", Ones({"String"}), "Node", Held, Inner)
          \/ AtValue({"String"}, "Node", Held, Inner)
      BY <1>0, <1>3 DEF BlockPlace, SpacePoints, BlockPoints
    <3>2. /\ Within("String", HintEnd({"String"}), "Node", Held, Inner)
               => peekToken = "String"
          /\ Within("CloseParen", Ones({"String"}), "Node", Held, Inner)
               => peekToken = "CloseParen"
          /\ AtValue({"String"}, "Node", Held, Inner) => peekToken \in {"String"}
      BY <1>0, Peeked
    <3> QED
      BY <3>1, <3>2
  <2>2. UNCHANGED peekToken
    BY <1>0, <2>1
  <2>3. at \in {"typeLead", "typeGap", "typeTail"}
    BY <1>0, <1>3 DEF SpacePoints, BlockPoints
  <2>4. at' \in {"typeName", "typeClose", "name"} /\ BlockPlace'
    BY <1>0, <1>1, <1>3, <2>2, <2>3, Unmoved DEF BlockPlace, AfterSpaces
  <2> QED
    BY <1>1, <1>3, <2>4 DEF Place, BlockPoints
<1>4. ASSUME state = "NodeEntries", NodePlace
      PROVE  Place'
  <2>1. CASE at = "entrySpaces"
    <3>1. \/ peekToken = "Spaces" /\ SpaceText(written, Held, Inner)
          \/ peekToken # "Spaces" /\ AtLines(Append(Held, "End"), Outer)
      BY <1>0, <1>2, <1>4, <2>1, Peeked DEF NodePlace
    <3>2. \/ spaces' = TRUE /\ AtEntry(Held, Inner)'
          \/ spaces' = FALSE /\ AtLines(Append(Held, "End"), Outer)'
      BY <1>0, <1>1, <3>1, Advanced, Unmoved
    <3>3. at' = "entryCase" /\ NodePlace'
      BY <1>0, <2>1, <3>2 DEF NodePlace, AfterSpaces, EntryPoints
    <3> QED
      BY <1>1, <1>4, <3>3 DEF Place
  <2>2. CASE at = "keySpaces"
    <3>1. \/ peekToken = "Spaces" /\ SpaceText(written, Append(Held, "Entry"), Inner)
          \/ /\ peekToken # "Spaces"
             /\ AtLines(Append(Append(Held, "Entry"), "End"), Outer)
          \/ /\ peekToken # "Spaces"
             /\ Within("Equals", Typed(Plain), "Entry", Held, Inner)
      <4>1. \/ Within("Equals", Typed(Plain), "Entry", Held, Inner)
            \/ AtEntries(Append(Held, "Entry"), Inner)
        BY <1>4, <2>2 DEF NodePlace
      <4>2. ASSUME AtEntries(Append(Held, "Entry"), Inner)
            PROVE  \/ /\ peekToken = "Spaces"
                      /\ SpaceText(written, Append(Held, "Entry"), Inner)
                   \/ /\ peekToken # "Spaces"
                      /\ AtLines(Append(Append(Held, "Entry"), "End"), Outer)
        <5>1. \A es, n : AtLines(es, n) => peekToken # "Spaces"
          BY <1>0, Peeked
        <5> QED
          BY <1>0, <1>2, <4>2, <5>1, Peeked
      <4>3. Within("Equals", Typed(Plain), "Entry", Held, Inner) => peekToken = "Equals"
        BY <1>0, Peeked
      <4> QED
        BY <4>1, <4>2, <4>3
    <3>2. \/ spaces' = TRUE /\ AtEntry(Append(Held, "Entry"), Inner)'
          \/ spaces' = FALSE /\ AtLines(Append(Append(Held, "Entry"), "End"), Outer)'
          \/ spaces' = FALSE /\ Within("Equals", Typed(Plain), "Entry", Held, Inner)'
      BY <1>0, <1>1, <3>1, Advanced, Unmoved
    <3>3. at' = "key" /\ text' = TRUE
      BY <1>0, <1>4, <2>2 DEF NodePlace, AfterSpaces, EntryPoints, Calm
    <3>4. NodePlace'
      BY <3>2, <3>3 DEF NodePlace
    <3> QED
      BY <1>1, <1>4, <3>3, <3>4 DEF Place, EntryPoints
  <2>3. CASE at \in {"propSpaces", "typeLead", "typeGap", "typeTail"}
    <3>1. peekToken # "Spaces"
      <4>1. "Spaces" \notin Plain
        BY DEF Plain
      <4> QED
        BY <1>0, <1>4, <2>3, <4>1, Peeked DEF NodePlace
    <3>2. UNCHANGED peekToken
      BY <1>0, <3>1
    <3>3. text' = TRUE
      BY <1>0, <1>4, <2>3 DEF NodePlace, EntryPoints, Calm
    <3>4. at' \in {"typeOpen", "typeName", "typeClose", "value"}
      BY <1>0, <1>4, <2>3 DEF AfterSpaces, InBlock
    <3>5. NodePlace'
      BY <1>0, <1>1, <1>4, <2>3, <3>2, <3>3, <3>4, Unmoved
         DEF NodePlace, AfterSpaces, InBlock
    <3> QED
      BY <1>1, <1>4, <3>4, <3>5 DEF Place, EntryPoints
  <2> QED
    BY <1>0, <2>1, <2>2, <2>3 DEF SpacePoints
<1>5. ASSUME state = "NodeChildrenPast", PastPlace, at \in {"entrySpaces", "entryCase"}
      PROVE  Place'
  <2>1. at = "entrySpaces" /\ AtLines(Held, Outer) /\ peekToken # "Spaces"
    BY <1>0, <1>5, Peeked DEF PastPlace, SpacePoints
  <2>2. at' = "entryCase" /\ AtLines(Held, Outer)'
    BY <1>0, <1>1, <2>1, Unmoved DEF AfterSpaces
  <2> QED
    BY <1>1, <1>5, <2>2 DEF Place, PastPlace
<1> QED
  BY <1>0, <1>1, <1>3, <1>4, <1>5, Where

LEMMA LinesRead ==
  ASSUME IInv, SkipLines, Reads
  PROVE  Calm' /\ Place'
<1>0. /\ at = "lines" /\ at # "inner" /\ peekToken # "none" /\ Calm /\ Place
      /\ InBlock /\ AtBlock(Held, Outer) /\ Inner = Outer + 1
  BY Where
     DEF IInv, SkipLines, LinePoints, BlockPoints, BlockPlace, EntryPoints
<1>1. \/ AtNode(Held, Outer) /\ peekToken \notin {"Spaces", "Lines"}
      \/ AtEof(Held, Outer) /\ peekToken \notin {"Spaces", "Lines"}
      \/ /\ peekToken = "Lines" /\ written \in Typed({"String"})
         /\ Stands("Node", Append(Held, "Node"), Inner)
  BY <1>0, Peeked
<1>2. /\ at' = "node" /\ UNCHANGED localVars /\ UNCHANGED <<state, brackets, callVars>>
      /\ peekToken = "Lines" => peekToken' = "none"
      /\ peekToken # "Lines" => UNCHANGED peekToken
  BY <1>0, <1>1 DEF SkipLines, Goto, AfterLines, Advance, Keep, lexVars
<1>3. Moves
  BY <1>2, ReadsNoText DEF Moves, callVars, localVars, IInv, Calm
<1>4. /\ Calm' /\ Held' = Held /\ Inner' = Inner /\ Outer' = Outer /\ InBlock' = InBlock
      /\ UNCHANGED Text
  BY <1>0, <1>3, StaysCalm DEF Moves
<1>5. AtNode(Held, Outer)' \/ AtEof(Held, Outer)'
  <2>1. CASE peekToken # "Lines"
    BY <1>1, <1>2, <1>4, <2>1, Unmoved
  <2>2. CASE peekToken = "Lines"
    <3>1. AtTyped({"String"}, "Node", Held, Inner)'
      BY <1>1, <1>2, <1>4, <2>2, Advanced
    <3> QED
      BY <1>0, <1>4, <3>1 DEF AtNode
  <2> QED
    BY <2>1, <2>2
<1> QED
  BY <1>0, <1>2, <1>4, <1>5 DEF Place, BlockPlace, BlockPoints

LEMMA TypeRead ==
  ASSUME IInv, MaybeType \/ TypeName \/ TypeClose, Reads
  PROVE  Calm' /\ Place'
<1>0. /\ at \in {"typeOpen", "typeName", "typeClose"} /\ at # "inner" /\ peekToken # "none"
      /\ Calm /\ Place /\ "OpenParen" \notin Plain /\ UNCHANGED Text
  BY ReadsNoText DEF IInv, MaybeType, TypeName, TypeClose, At, Plain
<1> DEFINE values == IF InBlock THEN {"String"} ELSE Plain
           which  == IF InBlock THEN "Node" ELSE "Entry"
<1>1. /\ at = "typeOpen" => AtTyped(values, which, Held, Inner)
      /\ at = "typeName" => Within("String", HintEnd(values), which, Held, Inner)
      /\ at = "typeClose" => Within("CloseParen", Ones(values), which, Held, Inner)
      /\ ~InBlock => state = "NodeEntries" /\ text = TRUE
  BY <1>0, Where DEF BlockPlace, NodePlace, EntryPoints, InBlock, Calm
<1>2. "OpenParen" \notin values
  BY <1>0
<1> HIDE DEF values, which
<1>3. /\ at = "typeOpen" =>
           \/ /\ peekToken = "OpenParen" /\ written \in HintName(values)
              /\ Stands("Node", Append(Held, which), Inner)
           \/ peekToken # "OpenParen" /\ AtValue(values, which, Held, Inner)
      /\ at = "typeName" =>
           /\ peekToken = "String" /\ written \in HintEnd(values)
           /\ Stands("Node", Append(Held, which), Inner)
      /\ at = "typeClose" =>
           /\ peekToken = "CloseParen" /\ written \in Ones(values)
           /\ Stands("Node", Append(Held, which), Inner)
  BY <1>0, <1>1, <1>2, Peeked
<1>4. /\ UNCHANGED localVars /\ UNCHANGED <<state, brackets, callVars>>
      /\ \/ at = "typeOpen" /\ peekToken = "OpenParen" /\ at' = "typeLead"
            /\ peekToken' = "none"
         \/ /\ at = "typeOpen" /\ peekToken # "OpenParen" /\ UNCHANGED peekToken
            /\ at' = IF InBlock THEN "name" ELSE "value"
         \/ at = "typeName" /\ at' = "typeGap" /\ peekToken' = "none"
         \/ at = "typeClose" /\ at' = "typeTail" /\ peekToken' = "none"
  BY <1>0, <1>3
     DEF MaybeType, TypeName, TypeClose, At, Goto, Advance, Keep, lexVars, StringTokens
<1>5. Moves
  BY <1>0, <1>4 DEF Moves, callVars, localVars, Calm
<1>6. /\ Calm' /\ Held' = Held /\ Inner' = Inner /\ Outer' = Outer /\ InBlock' = InBlock
      /\ state' = state /\ text' = text
  BY <1>0, <1>4, <1>5, StaysCalm DEF Moves, localVars
<1>7. values' = values /\ which' = which
  BY <1>6 DEF values, which
<1>8. /\ at' = "typeLead" => Within("String", HintEnd(values), which, Held, Inner)'
      /\ at' = "typeGap" => Within("CloseParen", Ones(values), which, Held, Inner)'
      /\ at' \in {"typeTail", "name", "value"} => AtValue(values, which, Held, Inner)'
  BY <1>0, <1>3, <1>4, <1>6, <1>7, Advanced, Unmoved
<1>9. CASE InBlock
  <2>1. /\ values = {"String"} /\ which = "Node"
        /\ at' \in {"typeLead", "typeGap", "typeTail", "name"}
    BY <1>4, <1>9 DEF values, which
  <2>2. BlockPlace'
    BY <1>7, <1>8, <2>1 DEF BlockPlace
  <2> QED
    BY <1>6, <1>9, <2>1, <2>2 DEF Place, BlockPoints
<1>10. CASE ~InBlock
  <2>1. /\ values = Plain /\ which = "Entry"
        /\ at' \in {"typeLead", "typeGap", "typeTail", "value"}
    BY <1>4, <1>10 DEF values, which
  <2>2. NodePlace'
    BY <1>1, <1>6, <1>7, <1>8, <1>10, <2>1 DEF NodePlace
  <2> QED
    BY <1>1, <1>6, <1>10, <2>1, <2>2 DEF Place, EntryPoints
<1> QED
  BY <1>9, <1>10

LEMMA EnterRead ==
  ASSUME IInv, EnterInner \/ InnerDone, Reads
  PROVE  Calm' /\ Place'
<1>0. /\ at = "inner" /\ call = "next" /\ Held = <<>> /\ Calm /\ Place
  BY DEF IInv, EnterInner, InnerDone, Calm, Held
<1>1. EnterInner /\ UNCHANGED Text
  BY <1>0, ReadsNoText DEF InnerDone, Place, InBlock
<1>2. /\ UNCHANGED <<brackets, call, skipping, out, peekToken, sd, text>>
      /\ spaces' \in BOOLEAN /\ at' # "inner" /\ state # "Done"
  BY <1>0, <1>1 DEF EnterInner, Goto, callVars, lexVars, Calm, InBlock
<1>3. Held' = Held /\ Inner' = Inner /\ Outer' = Outer /\ Calm'
  <2>1. Held' = Held /\ Inner' = Inner /\ Outer' = Outer
    BY <1>0, <1>2 DEF Held, Inner, Outer
  <2>2. Calm'
    BY <1>0, <1>2 DEF Calm
  <2> QED
    BY <2>1, <2>2
<1>4. CASE InBlock
  <2>1. at' = "bom" /\ state' = state /\ InBlock'
    BY <1>1, <1>4 DEF EnterInner, Goto, InBlock
  <2>2. AtBlock(Held, Outer)
    BY <1>0, <1>4 DEF Place, BlockPlace, InBlock
  <2>3. AtBlock(Held, Outer)'
    BY <1>1, <1>2, <1>3, <2>2, Unmoved
  <2> QED
    BY <1>3, <2>1, <2>3 DEF Place, BlockPlace, BlockPoints
<1>5. CASE state = "NodeEntries"
  <2>1. at' = "entrySpaces" /\ state' = state
    BY <1>1, <1>5 DEF EnterInner, Goto, InBlock
  <2>2. AtEntries(Held, Inner)
    BY <1>0, <1>5 DEF Place, NodePlace, InBlock
  <2>3. AtEntries(Held, Inner)'
    BY <1>1, <1>2, <1>3, <2>2, Unmoved
  <2> QED
    BY <1>3, <1>5, <2>1, <2>3 DEF Place, NodePlace, EntryPoints
<1>6. CASE state = "NodeEntriesSpaced"
  <2>1. at' = "entryCase" /\ state' = "NodeEntries" /\ spaces' = TRUE
    BY <1>1, <1>6 DEF EnterInner, InBlock
  <2>2. AtEntry(Held, Inner)
    BY <1>0, <1>6 DEF Place, InBlock
  <2>3. AtEntry(Held, Inner)'
    BY <1>1, <1>2, <1>3, <2>2, Unmoved
  <2> QED
    BY <1>3, <2>1, <2>3 DEF Place, NodePlace, EntryPoints
<1>7. CASE state = "NodeChildrenPast"
  <2>1. at' = "entrySpaces" /\ state' = state
    BY <1>1, <1>7 DEF EnterInner, Goto, InBlock
  <2>2. AtPast(Held, Outer)
    BY <1>0, <1>7 DEF Place, PastPlace, InBlock
  <2>3. AtPast(Held, Outer)'
    BY <1>1, <1>2, <1>3, <2>2, Unmoved
  <2> QED
    BY <1>3, <1>7, <2>1, <2>3 DEF Place, PastPlace
<1> QED
  BY <1>0, <1>4, <1>5, <1>6, <1>7 DEF Place

\* Between nodes.
LEMMA BlockRead ==
  ASSUME IInv, SkipBom \/ StartNode, Reads
  PROVE  Calm' /\ Place'
<1>0. /\ at \in {"bom", "node"} /\ at # "inner" /\ peekToken # "none" /\ Calm /\ Place
      /\ UNCHANGED Text
  BY ReadsNoText DEF IInv, SkipBom, StartNode, At
<1>1. /\ InBlock /\ Inner = Outer + 1
      /\ at = "bom" => AtBlock(Held, Outer)
      /\ at = "node" => AtNode(Held, Outer) \/ AtEof(Held, Outer)
  BY <1>0, Where DEF BlockPlace, EntryPoints
<1>2. at = "bom" => peekToken # "Bom"
  <2>1. AtNode(Held, Outer) \/ AtEof(Held, Outer) => peekToken # "Bom"
    BY <1>0, Peeked
  <2> QED
    BY <1>0, <1>1, <2>1, Peeked
<1>3. /\ UNCHANGED localVars /\ UNCHANGED <<state, brackets, callVars, peekToken>>
      /\ \/ at = "bom" /\ at' = "lines"
         \/ at = "node" /\ at' = "typeOpen" /\ peekToken \notin {"Eof", "CloseCurly"}
  BY <1>0, <1>2 DEF SkipBom, StartNode, At, Goto, Keep, lexVars
<1>4. Moves
  BY <1>0, <1>3 DEF Moves, callVars, localVars, Calm
<1>5. /\ Calm' /\ Held' = Held /\ Inner' = Inner /\ Outer' = Outer /\ InBlock' = InBlock
  BY <1>0, <1>4, StaysCalm
<1>6. /\ at' = "lines" => AtBlock(Held, Outer)'
      /\ at' = "typeOpen" => AtTyped({"String"}, "Node", Held, Inner)'
  <2>1. at' = "typeOpen" => AtTyped({"String"}, "Node", Held, Inner)
    BY <1>0, <1>1, <1>3, Peeked
  <2> QED
    BY <1>0, <1>1, <1>3, <1>5, <2>1, Unmoved
<1> QED
  BY <1>1, <1>3, <1>5, <1>6 DEF Place, BlockPlace, BlockPoints

\* An event is returned.
LEMMA Returned ==
  ASSUME Calm, Place, at # "inner", NEW event \in {"Node", "Entry", "Children", "End"},
         Deliver(event), brackets' \in Seq({FALSE})
  PROVE  Calm' /\ at' = "inner" /\ Held' = Append(Held, event)
<1>1. call = "next" /\ Held = <<>>
  BY Where
<1>2. Append(Held, event) = <<event>>
  BY <1>1
<1>3. /\ call' = "idle" /\ out' = event /\ at' = "inner" /\ skipping' = "no"
      /\ sd' = FALSE /\ spaces' = FALSE /\ text' = FALSE /\ Held' = <<event>>
  BY <1>1, Delivers
<1> QED
  BY <1>2, <1>3 DEF Calm, Events

LEMMA NodeNameRead ==
  ASSUME IInv, NodeName, Reads
  PROVE  Calm' /\ Place'
<1>0. /\ at = "name" /\ at # "inner" /\ peekToken # "none" /\ Calm /\ Place
      /\ UNCHANGED Text
  BY ReadsNoText DEF IInv, NodeName, At
<1>1. AtValue({"String"}, "Node", Held, Inner)
  BY <1>0, Where DEF BlockPlace, EntryPoints
<1>2. peekToken = "String" /\ NodeText(written, Append(Held, "Node"), Inner)
  <2>1. peekToken \in {"String"} /\ NodeText(written, Append(Held, "Node"), Inner)
    BY <1>0, <1>1, Peeked
  <2> QED
    BY <2>1
<1>3. /\ peekToken' = "none" /\ state' = "NodeEntries" /\ Deliver("Node")
      /\ brackets' = brackets
  BY <1>2 DEF NodeName, Advance, StringTokens
<1>4. Calm' /\ at' = "inner" /\ Held' = Append(Held, "Node") /\ Inner' = Inner
  BY <1>0, <1>3, Returned DEF Calm, Inner
<1>5. AtEntries(Held, Inner)'
  BY <1>0, <1>2, <1>3, <1>4, Advanced
<1> QED
  BY <1>3, <1>4, <1>5 DEF Place, NodePlace, EntryPoints

LEMMA Popped ==
  ASSUME NEW S, NEW s \in Seq(S), s # <<>>
  PROVE  /\ s[Len(s)] \in S
         /\ SubSeq(s, 1, Len(s) - 1) \in Seq(S)
         /\ Len(SubSeq(s, 1, Len(s) - 1)) = Len(s) - 1
<1>1. PICK n \in Nat : n > 0 /\ Len(s) = n
  BY EmptySeq
<1>2. \A i \in 1..n : s[i] \in S
  BY <1>1, ElementOfSeq
<1>3. 1 \in Int /\ n - 1 \in Int /\ \A i \in 1..(n - 1) : s[i] \in S
  BY <1>1, <1>2
<1>4. /\ SubSeq(s, 1, n - 1) \in Seq(S)
      /\ Len(SubSeq(s, 1, n - 1)) = IF 1 <= n - 1 THEN n - 1 - 1 + 1 ELSE 0
  BY <1>3, SubSeqProperties
<1>5. s[n] \in S
  BY <1>1, <1>2
<1> QED
  BY <1>1, <1>4, <1>5

LEMMA CloseRead ==
  ASSUME IInv, CloseBlock, Reads
  PROVE  Calm' /\ Place'
<1>0. /\ at = "node" /\ at # "inner" /\ peekToken = "CloseCurly" /\ peekToken # "none"
      /\ Calm /\ Place /\ Writer /\ UNCHANGED Text /\ brackets \in Seq({FALSE})
  BY ReadsNoText DEF IInv, CloseBlock, At, Calm
<1>1. AtNode(Held, Outer) \/ AtEof(Held, Outer)
  BY <1>0, Where DEF BlockPlace, EntryPoints
<1>2. PastText(written, Append(Held, "End"), Outer - 1)
  <2>1. ~AtEof(Held, Outer)
    BY <1>0, Peeked
  <2> QED
    BY <1>0, <1>1, <2>1, Peeked
<1>3. Outer > 0
  <2>1. nest \in Nat /\ (vstate = "Node" => nest > 0)
    BY <1>0 DEF Writer, TypeOK
  <2>2. wstate = "Node" <=> vstate = "Node"
    BY <1>0 DEF Writer
  <2>3. Outer \in Nat
    BY <1>0 DEF Outer
  <2>4. \/ nest = Outer - 1
        \/ wstate = "Node" /\ nest = Outer - 1 + 1
        \/ nest = Outer - 1 - 1
    BY <1>2 DEF PastText, LineText, Stands
  <2> QED
    BY <2>1, <2>2, <2>3, <2>4
<1>4. /\ brackets # <<>> /\ brackets[Len(brackets)] = FALSE
      /\ SubSeq(brackets, 1, Len(brackets) - 1) \in Seq({FALSE})
      /\ Len(SubSeq(brackets, 1, Len(brackets) - 1)) = Outer - 1
  <2>1. Len(brackets) \in Nat /\ Len(brackets) > 0
    BY <1>0, <1>3 DEF Outer
  <2>2. brackets # <<>> /\ brackets \in Seq({FALSE})
    BY <1>0, <2>1
  <2>3. /\ brackets[Len(brackets)] \in {FALSE}
        /\ SubSeq(brackets, 1, Len(brackets) - 1) \in Seq({FALSE})
        /\ Len(SubSeq(brackets, 1, Len(brackets) - 1)) = Len(brackets) - 1
    BY <2>2, Popped
  <2>4. brackets[Len(brackets)] = FALSE
    BY <2>3
  <2> QED
    BY <2>2, <2>3, <2>4 DEF Outer
<1>5. /\ peekToken' = "none" /\ state' = "NodeChildrenPast" /\ Deliver("End")
      /\ brackets' = SubSeq(brackets, 1, Len(brackets) - 1)
  BY <1>0, <1>4 DEF CloseBlock, Advance
<1>6. Calm' /\ at' = "inner" /\ Held' = Append(Held, "End") /\ Outer' = Outer - 1
  <2>1. Calm' /\ at' = "inner" /\ Held' = Append(Held, "End")
    BY <1>0, <1>4, <1>5, Returned
  <2>2. Outer' = Outer - 1
    BY <1>4, <1>5 DEF Outer
  <2> QED
    BY <2>1, <2>2
<1>7. AtPast(Held, Outer)'
  BY <1>0, <1>2, <1>5, <1>6, Advanced
<1> QED
  BY <1>5, <1>6, <1>7 DEF Place, PastPlace

LEMMA EndRead ==
  ASSUME IInv, EndOfInput, Reads
  PROVE  Calm' /\ Place'
<1>0. /\ at = "node" /\ at # "inner" /\ peekToken = "Eof" /\ peekToken # "none"
      /\ Calm /\ Place /\ Writer /\ UNCHANGED Text /\ brackets \in Seq({FALSE})
  BY ReadsNoText DEF IInv, EndOfInput, At, Calm
<1>1. (AtNode(Held, Outer) \/ AtEof(Held, Outer)) /\ call = "next" /\ Held = <<>>
  BY <1>0, Where DEF BlockPlace, EntryPoints
<1>2. written = <<>> /\ sealed /\ due = <<>> /\ nest = Outer
  <2>1. ~AtNode(Held, Outer)
    BY <1>0, Peeked
  <2> QED
    BY <1>0, <1>1, <2>1, Peeked
<1>3. brackets = <<>>
  <2>1. Outer = 0
    BY <1>0, <1>2 DEF Writer
  <2> QED
    BY <1>0, <2>1 DEF Outer
<1>4. state' = "Done" /\ Deliver("Done") /\ brackets' = brackets
  BY <1>3 DEF EndOfInput
<1>5. /\ call' = "idle" /\ out' = "Done" /\ at' = "inner" /\ skipping' = "no"
      /\ sd' = FALSE /\ spaces' = FALSE /\ text' = FALSE
  BY <1>0, <1>1, <1>4, Delivers
<1>6. Calm'
  BY <1>0, <1>4, <1>5 DEF Calm
<1> QED
  BY <1>0, <1>2, <1>4, <1>5, <1>6 DEF Place, Text

\* What ends a node.
LEMMA TerminatorRead ==
  ASSUME IInv, Terminator, Reads
  PROVE  Calm' /\ Place'
<1>0. /\ at = "entryCase" /\ at # "inner" /\ peekToken \in Terminators
      /\ peekToken # "none" /\ Calm /\ Place /\ UNCHANGED Text
      /\ brackets \in Seq({FALSE}) /\ call = "next" /\ Held = <<>> /\ Inner - 1 = Outer
  BY Where, ReadsNoText DEF IInv, Terminator, At, Calm, Terminators
<1>1. /\ state' = "NextNode" /\ brackets' = brackets
      /\ peekToken \in {"SemiColon", "Lines"} => peekToken' = "none"
      /\ peekToken \notin {"SemiColon", "Lines"} => UNCHANGED peekToken
      /\ Deliver(IF RealBody THEN "End" ELSE "EntrySkipped")
  BY DEF Terminator, Advance, Keep, lexVars
<1>2. Outer' = Outer
  BY <1>1 DEF Outer
<1>3. ~AtEntry(Held, Inner)
  <2>1. \A t \in Terminators :
          t \notin Plain /\ t \notin {"OpenParen", "String", "OpenCurly"}
    BY DEF Terminators, Plain
  <2>2. ASSUME AtTyped(Plain, "Entry", Held, Inner)
        PROVE  peekToken \in Plain \/ peekToken = "OpenParen"
    BY <1>0, <2>2, Peeked
  <2>3. ASSUME AtEntry(Held, Inner)
        PROVE  peekToken \in Plain \/ peekToken \in {"OpenParen", "String", "OpenCurly"}
    BY <1>0, <2>2, <2>3, Peeked
  <2> QED
    BY <1>0, <2>1, <2>3
<1>4. ASSUME NEW es, AtLines(es, Outer)
      PROVE  AtBlock(es, Outer)'
  <2>1. CASE peekToken = "Lines" /\ LineText(written, es, Outer)
    <3>1. AtNode(es, Outer)'
      BY <1>0, <1>1, <1>2, <2>1, Advanced
    <3> QED
      BY <3>1 DEF AtBlock
  <2>2. CASE peekToken = "Eof" /\ AtEof(es, Outer)
    <3>1. AtEof(es, Outer)'
      BY <1>0, <1>1, <1>2, <2>2, Unmoved
    <3> QED
      BY <3>1 DEF AtBlock
  <2> QED
    BY <1>0, <1>4, <2>1, <2>2, Peeked
<1>5. CASE state = "NodeEntries"
  <2>1. AtLines(Append(Held, "End"), Outer)
    BY <1>0, <1>3, <1>5, Where DEF NodePlace, InBlock, BlockPoints, Calm
  <2>2. Deliver("End")
    BY <1>1, <1>5 DEF RealBody
  <2>3. Calm' /\ at' = "inner" /\ Held' = Append(Held, "End")
    BY <1>0, <1>1, <2>2, Returned
  <2>4. AtBlock(Held, Outer)'
    BY <1>4, <1>2, <2>1, <2>3
  <2> QED
    BY <1>1, <2>3, <2>4 DEF Place, BlockPlace, BlockPoints, InBlock
<1>6. CASE state = "NodeChildrenPast"
  <2>1. AtLines(Held, Outer)
    BY <1>0, <1>6, Where DEF PastPlace, InBlock
  <2>2. /\ UNCHANGED <<call, out>> /\ skipping' = "no" /\ at' = "inner"
        /\ sd' = FALSE /\ spaces' = FALSE /\ text' = FALSE
    BY <1>0, <1>1, <1>6
       DEF RealBody, Deliver, LeaveInner, Skip, Calm, NextEvent, Continue
  <2>3. Held' = Held
    BY <2>2 DEF Held
  <2>4. Calm'
    BY <1>0, <1>1, <1>6, <2>2 DEF Calm
  <2>5. AtBlock(Held, Outer)'
    BY <1>4, <1>2, <2>1, <2>3
  <2> QED
    BY <1>1, <2>2, <2>4, <2>5 DEF Place, BlockPlace, BlockPoints, InBlock
<1> QED
  BY <1>0, <1>5, <1>6, Where DEF BlockPoints

LEMMA StartEntryRead ==
  ASSUME IInv, StartEntry, Reads
  PROVE  Calm' /\ Place'
<1>0. /\ at = "entryCase" /\ at # "inner" /\ peekToken \notin {"Eof", "Lines"}
      /\ peekToken # "none" /\ Calm /\ Place /\ UNCHANGED Text /\ at' = "entry"
      /\ UNCHANGED localVars /\ UNCHANGED <<state, brackets, callVars, peekToken>>
  BY ReadsNoText DEF IInv, StartEntry, At, Terminators, Goto, Keep, lexVars
<1>1. \A es, n : ~AtLines(es, n)
  BY <1>0, Peeked
<1>2. state = "NodeEntries" /\ spaces = TRUE /\ AtEntry(Held, Inner)
  BY <1>0, <1>1, Where DEF NodePlace, PastPlace, BlockPoints, Calm
<1>3. Moves
  BY <1>0 DEF Moves, callVars, localVars, Calm
<1>4. Calm' /\ Held' = Held /\ Inner' = Inner
  BY <1>0, <1>3, StaysCalm
<1>5. AtEntry(Held, Inner)'
  BY <1>0, <1>2, <1>4, Unmoved
<1>6. NodePlace'
  BY <1>0, <1>2, <1>5 DEF NodePlace, localVars, EntryPoints
<1> QED
  BY <1>0, <1>2, <1>4, <1>6 DEF Place

\* In front of an entry or a block.
LEMMA AtEntryPoint ==
  ASSUME IInv, At("entry"), Reads
  PROVE  /\ at # "inner" /\ peekToken # "none" /\ Calm /\ Place /\ UNCHANGED Text
         /\ state = "NodeEntries" /\ spaces = TRUE /\ sd = FALSE /\ ~Skip /\ MayBeEntry
              = ~IsBlock
         /\ brackets \in Seq({FALSE}) /\ Inner - 1 = Outer
         /\ \/ /\ peekToken \in Plain
               /\ NodeText(written, Append(Held, "Entry"), Inner)
            \/ /\ peekToken = "OpenParen" /\ written \in HintName(Plain)
               /\ Stands("Node", Append(Held, "Entry"), Inner)
            \/ /\ peekToken = "String" /\ written \in KeyEnd
               /\ Stands("Node", Append(Held, "Entry"), Inner)
            \/ /\ peekToken = "OpenCurly" /\ IsBlock
               /\ BlockText(written, Append(Held, "Children"), Inner)
<1>0. /\ at = "entry" /\ at # "inner" /\ peekToken # "none" /\ Calm /\ Place
      /\ UNCHANGED Text /\ brackets \in Seq({FALSE})
  BY ReadsNoText DEF IInv, At, Calm
<1>1. /\ state = "NodeEntries" /\ sd = FALSE /\ ~Skip /\ Inner - 1 = Outer
      /\ spaces /\ AtEntry(Held, Inner)
  BY <1>0, Where DEF NodePlace, BlockPoints
<1>2. spaces = TRUE
  BY <1>0, <1>1 DEF Calm
<1>3. MayBeEntry = ~IsBlock /\ (peekToken = "OpenCurly" => IsBlock)
  BY <1>1 DEF MayBeEntry, IsBlock, Entries, RealBody
<1>4. AtTyped(Plain, "Entry", Held, Inner) =>
        \/ /\ peekToken \in Plain
           /\ NodeText(written, Append(Held, "Entry"), Inner)
        \/ /\ peekToken = "OpenParen" /\ written \in HintName(Plain)
           /\ Stands("Node", Append(Held, "Entry"), Inner)
  BY <1>0, Peeked
<1>5. Within("String", KeyEnd, "Entry", Held, Inner) =>
        written \in KeyEnd /\ Stands("Node", Append(Held, "Entry"), Inner)
  BY <1>0, Peeked
<1>6. \/ AtTyped(Plain, "Entry", Held, Inner)
      \/ peekToken = "String" /\ Within("String", KeyEnd, "Entry", Held, Inner)
      \/ peekToken = "OpenCurly" /\ BlockText(written, Append(Held, "Children"), Inner)
  BY <1>0, <1>1, Peeked
<1> QED
  BY <1>0, <1>1, <1>2, <1>3, <1>4, <1>5, <1>6

\* There is nothing in the text to comment out, and every entry can be read.
LEMMA NotRead ==
  ASSUME IInv, SlashDash \/ BadEntry, Reads
  PROVE  FALSE
<1>1. CASE BadEntry
  <2>1. At("entry") /\ ~IsBlock /\ peekToken \notin ValueTokens \union {"OpenParen"}
    BY <1>1, AtEntryPoint DEF BadEntry
  <2>2. peekToken \in Plain \union {"OpenParen", "String"}
    BY <2>1, AtEntryPoint
  <2> QED
    BY <2>1, <2>2 DEF Plain, ValueTokens, TextTokens
<1>2. CASE SlashDash
  <2>1. /\ at \in {"node", "entryCase"} /\ at # "inner" /\ peekToken = "SlashDash"
        /\ peekToken # "none" /\ Calm /\ Place
    BY <1>2 DEF IInv, SlashDash, At
  <2>2. \/ AtNode(Held, Outer) \/ AtEof(Held, Outer) \/ AtEntry(Held, Inner)
        \/ AtLines(Append(Held, "End"), Outer) \/ AtLines(Held, Outer)
    <3>1. \/ InBlock /\ BlockPlace /\ at \in BlockPoints
          \/ state = "NodeEntries" /\ NodePlace /\ at = "entryCase"
          \/ state = "NodeChildrenPast" /\ PastPlace /\ at = "entryCase"
      BY <2>1, Where DEF EntryPoints
    <3>2. spaces \in BOOLEAN
      BY <2>1 DEF Calm
    <3> QED
      BY <2>1, <3>1, <3>2 DEF BlockPlace, NodePlace, PastPlace, BlockPoints
  <2>3. \A es, n : ~AtLines(es, n) /\ ~AtNode(es, n) /\ ~AtEof(es, n)
    BY <2>1, Peeked
  <2>4. AtTyped(Plain, "Entry", Held, Inner) => peekToken \in Plain \union {"OpenParen"}
    BY <2>1, Peeked
  <2>5. ~AtEntry(Held, Inner)
    BY <2>1, <2>4, Peeked DEF Plain
  <2> QED
    BY <2>2, <2>3, <2>5
<1> QED
  BY <1>1, <1>2

LEMMA OpenRead ==
  ASSUME IInv, OpenBlock, Reads
  PROVE  Calm' /\ Place'
<1>1. /\ at # "inner" /\ Calm /\ Place /\ UNCHANGED Text /\ peekToken = "OpenCurly"
      /\ sd = FALSE /\ brackets \in Seq({FALSE}) /\ Inner - 1 = Outer
  BY AtEntryPoint DEF OpenBlock, IsBlock
<1>2. BlockText(written, Append(Held, "Children"), Inner)
  BY <1>1, AtEntryPoint DEF OpenBlock, Plain
<1>3. /\ peekToken' = "none" /\ brackets' = Append(brackets, FALSE) /\ state' = "NextNode"
      /\ Deliver("Children")
  BY <1>1 DEF OpenBlock, Advance, PushedBracket
<1>4. Append(brackets, FALSE) \in Seq({FALSE}) /\ Outer' = Inner
  BY <1>1, <1>3 DEF Outer, Inner
<1>5. Calm' /\ at' = "inner" /\ Held' = Append(Held, "Children")
  BY <1>1, <1>3, <1>4, Returned
<1>6. AtBlock(Held, Outer)'
  BY <1>1, <1>2, <1>3, <1>4, <1>5, Advanced
<1> QED
  BY <1>3, <1>5, <1>6 DEF Place, BlockPlace, BlockPoints, InBlock

LEMMA KeyRead ==
  ASSUME IInv, ArgumentOrKey \/ TypedArgument, Reads
  PROVE  Calm' /\ Place'
<1>1. /\ at # "inner" /\ Calm /\ Place /\ UNCHANGED Text /\ state = "NodeEntries"
      /\ At("entry") /\ peekToken # "none" /\ ~IsBlock /\ spaces = TRUE
  BY AtEntryPoint DEF ArgumentOrKey, TypedArgument, MayBeEntry
<1>2. /\ peekToken' = "none" /\ text' = TRUE /\ UNCHANGED <<sd, spaces>>
      /\ UNCHANGED <<state, brackets, callVars>>
      /\ \/ ArgumentOrKey /\ peekToken = "String" /\ at' = "keySpaces"
         \/ TypedArgument /\ peekToken = "OpenParen" /\ at' = "typeLead"
  <2>1. peekToken \in Plain \union {"OpenParen", "String"}
    BY <1>1, AtEntryPoint
  <2>2. peekToken \in StringTokens => peekToken = "String"
    BY <2>1 DEF StringTokens, Plain
  <2> QED
    BY <2>2 DEF ArgumentOrKey, TypedArgument, Advance, Goto
<1>3. Moves
  BY <1>1, <1>2 DEF Moves, callVars, Calm
<1>4. Calm' /\ Held' = Held /\ Inner' = Inner /\ state' = "NodeEntries"
  BY <1>1, <1>2, <1>3, StaysCalm
<1>5. CASE ArgumentOrKey
  <2>1. peekToken = "String" /\ at' = "keySpaces"
    BY <1>2, <1>5 DEF ArgumentOrKey, StringTokens
  <2>2. \/ NodeText(written, Append(Held, "Entry"), Inner)
        \/ written \in KeyEnd /\ Stands("Node", Append(Held, "Entry"), Inner)
    BY <1>1, <2>1, AtEntryPoint
  <2>3. \/ AtEntries(Append(Held, "Entry"), Inner)'
        \/ Within("Equals", Typed(Plain), "Entry", Held, Inner)'
    BY <1>1, <1>2, <1>4, <2>2, Advanced
  <2>4. NodePlace'
    BY <1>2, <2>1, <2>3 DEF NodePlace
  <2> QED
    BY <1>4, <2>1, <2>4 DEF Place, EntryPoints
<1>6. CASE TypedArgument
  <2>1. peekToken = "OpenParen" /\ at' = "typeLead"
    BY <1>2, <1>6 DEF TypedArgument, StringTokens
  <2>2. written \in HintName(Plain) /\ Stands("Node", Append(Held, "Entry"), Inner)
    BY <1>1, <2>1, AtEntryPoint DEF Plain
  <2>3. Within("String", HintEnd(Plain), "Entry", Held, Inner)'
    BY <1>1, <1>2, <1>4, <2>2, Advanced
  <2>4. NodePlace'
    BY <1>2, <2>1, <2>3 DEF NodePlace
  <2> QED
    BY <1>4, <2>1, <2>4 DEF Place, EntryPoints
<1> QED
  BY <1>2, <1>5, <1>6

\* A value, with or without a type hint in front of it.
LEMMA EntryRead ==
  ASSUME IInv, Argument \/ EntryValue, Reads
  PROVE  Calm' /\ Place'
<1>1. /\ at # "inner" /\ Calm /\ Place /\ UNCHANGED Text /\ state = "NodeEntries"
      /\ peekToken \in Plain /\ NodeText(written, Append(Held, "Entry"), Inner)
      /\ brackets \in Seq({FALSE}) /\ ~Skip /\ sd = FALSE
      /\ at = "value" => text = TRUE
  <2>1. CASE Argument
    <3>1. peekToken \notin StringTokens \union {"OpenParen", "OpenCurly"}
      BY <2>1 DEF Argument, ValueTokens, TextTokens, SkippedTokens, StringTokens
    <3>2. At("entry") /\ at = "entry"
      BY <2>1 DEF Argument, At
    <3> QED
      BY <3>1, <3>2, AtEntryPoint DEF StringTokens
  <2>2. CASE EntryValue
    <3>1. /\ at = "value" /\ at # "inner" /\ peekToken # "none" /\ Calm /\ Place
          /\ UNCHANGED Text /\ brackets \in Seq({FALSE})
      BY <2>2, ReadsNoText DEF IInv, EntryValue, At, Calm
    <3>2. /\ AtValue(Plain, "Entry", Held, Inner) /\ text /\ state = "NodeEntries"
          /\ ~Skip /\ sd = FALSE
      BY <3>1, Where DEF NodePlace, EntryPoints, BlockPoints
    <3> QED
      BY <3>1, <3>2, Peeked DEF Calm
  <2> QED
    BY <2>1, <2>2
<1>2. /\ peekToken' = "none" /\ Deliver("Entry") /\ UNCHANGED <<state, brackets>>
  <2>1. HasValue(peekToken) /\ peekToken \in ValueTokens
    BY <1>1 DEF HasValue, Plain, ValueTokens, TextTokens
  <2> QED
    BY <1>1, <2>1 DEF Argument, EntryValue, Advance, EntryEvent, At
<1>3. Calm' /\ at' = "inner" /\ Held' = Append(Held, "Entry") /\ Inner' = Inner
  <2>1. Calm' /\ at' = "inner" /\ Held' = Append(Held, "Entry")
    BY <1>1, <1>2, Returned
  <2> QED
    BY <1>2, <2>1 DEF Inner
<1>4. AtEntries(Held, Inner)'
  BY <1>1, <1>2, <1>3, Advanced
<1> QED
  BY <1>1, <1>2, <1>3, <1>4 DEF Place, NodePlace, EntryPoints

LEMMA StringRead ==
  ASSUME IInv, StringArgument, Reads
  PROVE  Calm' /\ Place'
<1>1. /\ at = "key" /\ at # "inner" /\ peekToken # "none" /\ peekToken # "Equals"
      /\ Calm /\ Place /\ UNCHANGED Text /\ brackets \in Seq({FALSE})
      /\ spaces \in BOOLEAN /\ text \in BOOLEAN
  BY ReadsNoText DEF IInv, StringArgument, At, Calm
<1>2. /\ state = "NodeEntries" /\ text = TRUE /\ NodePlace /\ Inner - 1 = Outer
  <2>1. state = "NodeEntries" /\ NodePlace /\ Inner - 1 = Outer
    BY <1>1, Where DEF BlockPoints
  <2> QED
    BY <1>1, <2>1 DEF NodePlace, EntryPoints
<1>3. /\ UNCHANGED <<peekToken, brackets>> /\ Deliver("Entry")
      /\ state' = IF spaces THEN "NodeEntriesSpaced" ELSE "NodeEntries"
  BY <1>2 DEF StringArgument, Keep, lexVars, EntryEvent
<1>4. Calm' /\ at' = "inner" /\ Held' = Append(Held, "Entry") /\ Inner' = Inner
  <2>1. Calm' /\ at' = "inner" /\ Held' = Append(Held, "Entry")
    BY <1>1, <1>3, Returned
  <2> QED
    BY <1>3, <2>1 DEF Inner
<1>5. CASE spaces
  <2>1. AtEntry(Append(Held, "Entry"), Inner)
    BY <1>1, <1>2, <1>5 DEF NodePlace
  <2>2. AtEntry(Held, Inner)'
    BY <1>1, <1>3, <1>4, <2>1, Unmoved
  <2> QED
    BY <1>3, <1>4, <1>5, <2>2 DEF Place
<1>6. CASE ~spaces
  <2>1. \/ Within("Equals", Typed(Plain), "Entry", Held, Inner)
        \/ AtLines(Append(Append(Held, "Entry"), "End"), Outer)
    BY <1>1, <1>2, <1>6 DEF NodePlace
  <2>2. AtLines(Append(Append(Held, "Entry"), "End"), Outer)
    BY <1>1, <2>1, Peeked
  <2>3. AtEntries(Append(Held, "Entry"), Inner)
    BY <1>2, <2>2 DEF AtEntries
  <2>4. AtEntries(Held, Inner)'
    BY <1>1, <1>3, <1>4, <2>3, Unmoved
  <2> QED
    BY <1>3, <1>4, <1>6, <2>4 DEF Place, NodePlace, EntryPoints
<1> QED
  BY <1>5, <1>6

LEMMA PropertyRead ==
  ASSUME IInv, Property, Reads
  PROVE  Calm' /\ Place'
<1>1. /\ at = "key" /\ at # "inner" /\ peekToken # "none" /\ peekToken = "Equals"
      /\ Calm /\ Place /\ UNCHANGED Text /\ spaces \in BOOLEAN
      /\ peekToken' = "none" /\ at' = "propSpaces"
      /\ UNCHANGED localVars /\ UNCHANGED <<state, brackets, callVars>>
  BY ReadsNoText DEF IInv, Property, At, Calm, Goto, Advance
<1>2. state = "NodeEntries" /\ text /\ NodePlace
  <2>1. state = "NodeEntries" /\ NodePlace
    BY <1>1, Where DEF BlockPoints
  <2> QED
    BY <1>1, <2>1 DEF NodePlace, EntryPoints
<1>3. written \in Typed(Plain) /\ Stands("Node", Append(Held, "Entry"), Inner)
  <2>1. \A es, n : ~AtLines(es, n)
    BY <1>1, Peeked
  <2>2. AtTyped(Plain, "Entry", Append(Held, "Entry"), Inner)
          => peekToken \in Plain \union {"OpenParen"}
    BY <1>1, Peeked
  <2>3. ~AtEntry(Append(Held, "Entry"), Inner)
    BY <1>1, <2>2, Peeked DEF Plain
  <2>4. Within("Equals", Typed(Plain), "Entry", Held, Inner)
    BY <1>1, <1>2, <2>1, <2>3 DEF NodePlace
  <2> QED
    BY <1>1, <2>4, Peeked
<1>4. Moves
  BY <1>1 DEF Moves, callVars, localVars, Calm
<1>5. Calm' /\ Held' = Held /\ Inner' = Inner
  BY <1>1, <1>4, StaysCalm
<1>6. AtTyped(Plain, "Entry", Held, Inner)'
  BY <1>1, <1>3, <1>5, Advanced
<1>7. NodePlace'
  BY <1>1, <1>2, <1>6 DEF NodePlace, localVars
<1> QED
  BY <1>1, <1>2, <1>5, <1>7 DEF Place, EntryPoints

-----------------------------------------------------------------------------
(* All steps.                                                              *)

LEMMA ParseKeeps ==
  ASSUME IInv, Parse, Reads
  PROVE  Calm' /\ Place'
<1>1. CASE SkipSpaces
  BY <1>1, SpacesRead
<1>2. CASE SkipLines
  BY <1>2, LinesRead
<1>3. CASE SlashDash \/ BadEntry
  BY <1>3, NotRead
<1>4. CASE MaybeType \/ TypeName \/ TypeClose
  BY <1>4, TypeRead
<1>5. CASE EnterInner \/ InnerDone
  BY <1>5, EnterRead
<1>6. CASE SkipBom \/ StartNode
  BY <1>6, BlockRead
<1>7. CASE EndOfInput
  BY <1>7, EndRead
<1>8. CASE CloseBlock
  BY <1>8, CloseRead
<1>9. CASE NodeName
  BY <1>9, NodeNameRead
<1>10. CASE Terminator
  BY <1>10, TerminatorRead
<1>11. CASE StartEntry
  BY <1>11, StartEntryRead
<1>12. CASE OpenBlock
  BY <1>12, OpenRead
<1>13. CASE ArgumentOrKey \/ TypedArgument
  BY <1>13, KeyRead
<1>14. CASE Argument \/ EntryValue
  BY <1>14, EntryRead
<1>15. CASE StringArgument
  BY <1>15, StringRead
<1>16. CASE Property
  BY <1>16, PropertyRead
<1> QED
  BY <1>1, <1>2, <1>3, <1>4, <1>5, <1>6, <1>7, <1>8, <1>9, <1>10, <1>11, <1>12, <1>13,
     <1>14, <1>15, <1>16 DEF Parse

\* Every token of the text can be lexed.
LEMMA TokenKeeps ==
  ASSUME IInv, ReadToken
  PROVE  Calm' /\ Pipe' /\ Place'
<1>0. Calm /\ Writer /\ Place /\ written \in Seq(Tokens) /\ due \in Seq(Events)
  BY DEF IInv, Pipe
<1>1. /\ \/ Fetched /\ Lexed(Head(written))
         \/ Ended /\ Lexed("Eof")
      /\ written' \in Seq(Tokens)
  <2>1. CASE written # <<>>
    <3>1. Head(written) \in Tokens /\ Tail(written) \in Seq(Tokens)
      BY <1>0, <2>1
    <3>2. "Unlexable" \notin Tokens
      BY DEF Tokens, ValueTokens, TextTokens, SkippedTokens
    <3>3. Lexed(Head(written)) /\ written' = Tail(written)
      BY <2>1, <3>1, <3>2 DEF ReadToken
    <3>4. UNCHANGED <<wstate, due, nest, sealed>>
      BY DEF ReadToken, writerVars, validatorVars
    <3>5. peekToken = "none" /\ peekToken' = Head(written)
      BY <3>3 DEF Lexed
    <3> QED
      BY <2>1, <3>1, <3>3, <3>4, <3>5 DEF Fetched
  <2>2. CASE written = <<>>
    <3>1. Lexed("Eof") /\ sealed /\ UNCHANGED written
      BY <2>2 DEF ReadToken
    <3>2. UNCHANGED <<wstate, due, nest, sealed>>
      BY DEF ReadToken, writerVars, validatorVars
    <3>3. peekToken = "none" /\ peekToken' = "Eof"
      BY <3>1 DEF Lexed
    <3> QED
      BY <1>0, <2>2, <3>1, <3>2, <3>3 DEF Ended, Text
  <2> QED
    BY <2>1, <2>2
<1>2. UNCHANGED <<state, brackets, call, skipping, out, at, sd, spaces, text>>
  BY <1>1 DEF Lexed, callVars, localVars
<1>3. Calm'
  BY <1>0, <1>2 DEF Calm
<1>4. due' = due
  BY DEF ReadToken
<1>5. Place'
  BY <1>0, <1>1, <1>2, PlaceRead
<1> QED
  BY <1>0, <1>1, <1>3, <1>4, <1>5 DEF Pipe

LEMMA InitHolds ==
  ASSUME WriteReadInit
  PROVE  IInv
<1>1. Writer
  BY WriterInit
<1>2. Calm
  <2>1. /\ call = "idle" /\ skipping = "no" /\ sd = FALSE /\ spaces = FALSE /\ text = FALSE
        /\ at = "inner" /\ out = "None" /\ brackets = <<>>
    BY DEF WriteReadInit, ReaderInit
  <2>2. brackets \in Seq({FALSE})
    BY <2>1
  <2> QED
    BY <2>1, <2>2 DEF Calm
<1>3. Pipe
  BY DEF WriteReadInit, Pipe
<1>4. Stands("First", Held, Outer) /\ peekToken = "none" /\ written = <<>>
  BY DEF WriteReadInit, ReaderInit, Init, Stands, Held, Outer
<1>5. InBlock /\ at = "inner"
  BY DEF WriteReadInit, ReaderInit, InBlock
<1>6. BlockPlace
  BY <1>4, <1>5 DEF BlockPlace, AtBlock
<1> QED
  BY <1>1, <1>2, <1>3, <1>5, <1>6 DEF IInv, Place, BlockPoints

LEMMA StepKeeps ==
  ASSUME TextsLex, IInv, [WriteReadNext]_vars
  PROVE  IInv'
<1>0. Calm /\ Writer /\ Pipe /\ Place /\ Writer'
  BY WriterStep DEF IInv
<1>1. CASE UNCHANGED vars
  <2>1. /\ UNCHANGED <<state, brackets, peekToken, call, skipping, out, at>>
        /\ UNCHANGED <<sd, spaces, text>>
        /\ UNCHANGED Text
    BY <1>1 DEF vars, readerVars, lexVars, callVars, localVars, writerVars, validatorVars,
         pipeVars, Text
  <2>2. Held' = Held /\ Inner' = Inner /\ Outer' = Outer /\ InBlock' = InBlock
    BY <2>1 DEF Held, Inner, Outer, InBlock
  <2>3. Calm' /\ Pipe'
    BY <1>0, <2>1 DEF Calm, Pipe, Text
  <2>4. BlockPlace' = BlockPlace /\ NodePlace' = NodePlace /\ PastPlace' = PastPlace
    BY <2>1, <2>2, Unmoved DEF BlockPlace, NodePlace, PastPlace
  <2>5. AtEntry(Held, Inner)' <=> AtEntry(Held, Inner)
    BY <2>1, <2>2, Unmoved
  <2>6. Place'
    BY <1>0, <2>1, <2>2, <2>4, <2>5 DEF Place, Text
  <2> QED
    BY <1>0, <2>3, <2>6 DEF IInv
<1>2. CASE Produce
  <2>1. PICK event \in Events : Wrote(event)
    BY <1>2 DEF Produce, Wrote
  <2>2. UNCHANGED <<readerVars, sealed>>
    BY <1>2 DEF Produce
  <2>3. Place'
    BY <1>0, <2>1, <2>2, PlaceProduce
  <2>4. Pipe'
    <3>1. written' \in Seq(Tokens) /\ due' = Append(due, event)
      BY <1>0, <2>1, PieceStands DEF Wrote
    <3> QED
      BY <1>0, <3>1 DEF Pipe
  <2>5. Calm'
    BY <1>0, <2>2 DEF Calm, readerVars, callVars, localVars
  <2> QED
    BY <1>0, <2>3, <2>4, <2>5 DEF IInv
<1>3. CASE Seal
  <2>1. Place'
    BY <1>0, <1>3, PlaceSeal
  <2>2. Pipe'
    BY <1>0, <1>3 DEF Pipe, Seal
  <2>3. Calm'
    BY <1>0, <1>3 DEF Calm, Seal, readerVars, callVars, localVars
  <2> QED
    BY <1>0, <2>1, <2>2, <2>3 DEF IInv
<1>4. CASE ReadToken
  BY <1>0, <1>4, TokenKeeps DEF IInv
<1>5. CASE ReadStep
  <2>1. Calm' /\ Place'
    BY <1>5, ParseKeeps DEF ReadStep, Reads
  <2>2. Pipe'
    BY <1>0, <1>5 DEF Pipe, ReadStep, pipeVars
  <2> QED
    BY <1>0, <2>1, <2>2 DEF IInv
<1>6. CASE Consume
  <2>1. Place' /\ Calm' /\ due' \in Seq(Events)
    BY <1>0, <1>6, PlaceConsume
  <2>2. Pipe'
    BY <1>0, <1>6, <2>1 DEF Pipe, Consume
  <2> QED
    BY <1>0, <2>1, <2>2 DEF IInv
<1> QED
  BY <1>1, <1>2, <1>3, <1>4, <1>5, <1>6 DEF WriteReadNext

\* For streams of any length, nested to any depth, in which no string is a bare
\* keyword or has a NUL in it and no number is a NaN: the writer's fields, the
\* validator's and the pipe have their types, no token that is written is one
\* that the lexer refuses, and neither the indentation nor the validator's
\* nesting is counted below zero.
THEOREM WriteReadTypes ==
  ASSUME TextsLex
  PROVE  WriteReadSpec => [](WriteReadTypeOK /\ written \in Seq(Tokens))
<1>1. WriteReadInit => IInv
  BY InitHolds
<1>2. IInv /\ [WriteReadNext]_vars => IInv'
  BY StepKeeps
<1>3. IInv => WriteReadTypeOK /\ written \in Seq(Tokens)
  <2> SUFFICES ASSUME IInv PROVE WriteReadTypeOK /\ written \in Seq(Tokens)
    OBVIOUS
  <2>1. written \in Seq(Tokens) /\ due \in Seq(Events)
    BY DEF IInv, Pipe
  <2>2. written \in Seq(Tokens \union {"Unlexable"})
    BY <2>1
  <2> QED
    BY <2>1, <2>2 DEF IInv, Writer, WriteReadTypeOK
<1> QED
  BY <1>1, <1>2, <1>3, PTL DEF WriteReadSpec

\* What the reader returns is what was written, event by event and in order, and
\* it returns no error: for streams of any length, nested to any depth, however
\* writing and reading interleave, as long as no name, key, type hint or string
\* is one of the words that the writer leaves bare and the lexer refuses, or has
\* a NUL in it, and no number is a NaN.
THEOREM EventsComeBack ==
  ASSUME TextsLex
  PROVE  WriteReadSpec => []RoundTrip
<1>1. WriteReadInit => IInv
  BY InitHolds
<1>2. IInv /\ [WriteReadNext]_vars => IInv'
  BY StepKeeps
<1>3. IInv => RoundTrip
  <2> SUFFICES ASSUME IInv, call = "idle", out # "None"
               PROVE  \/ due # <<>> /\ out = Head(due)
                      \/ out = "Done" /\ sealed /\ written = <<>> /\ due = <<>>
    BY DEF RoundTrip
  <2>1. Calm /\ Place /\ at = "inner" /\ out \in {"Done"} \union Events
    BY DEF IInv, Calm
  <2>2. CASE out = "Done"
    <3>1. state = "Done"
      BY <2>1, <2>2 DEF Calm
    <3> QED
      BY <2>1, <2>2, <3>1 DEF Place, InBlock
  <2>3. CASE out \in Events
    <3>1. /\ Held = <<out>> /\ <<out>> \in Seq(Events)
          /\ Head(<<out>>) = out /\ <<out>> # <<>>
      BY <2>3 DEF Held, Events
    <3>2. \/ AtBlock(Held, Outer) \/ AtEntries(Held, Inner) \/ AtEntry(Held, Inner)
          \/ AtPast(Held, Outer)
      BY <2>1, <2>3 DEF Place, BlockPlace, NodePlace, PastPlace, Events, EntryPoints
    <3>3. Follows(<<out>>, 3)
      BY <3>1, <3>2, Front
    <3> QED
      BY <3>1, <3>3 DEF Follows
  <2> QED
    BY <2>1, <2>2, <2>3
<1> QED
  BY <1>1, <1>2, <1>3, PTL DEF WriteReadSpec

\* The reader never needs more of a text than the next piece, however long and
\* deep the stream: at most four events are written and not yet read.
THEOREM ReadsPromptly ==
  ASSUME TextsLex
  PROVE  WriteReadSpec => []Prompt
<1>1. WriteReadInit => IInv
  BY InitHolds
<1>2. IInv /\ [WriteReadNext]_vars => IInv'
  BY StepKeeps
<1>3. IInv => Prompt
  <2> SUFFICES ASSUME IInv PROVE Len(due) <= 4
    BY DEF Prompt
  <2>1. Calm /\ Place /\ due \in Seq(Events)
    BY DEF IInv, Pipe
  <2>2. Held \in Seq(Events) /\ Len(Held) <= 1
    BY <2>1 DEF Held, Calm
  <2>3. ASSUME NEW es \in Seq(Events), Len(es) <= 1, Follows(es, 3)
        PROVE  Len(due) <= 4
    BY <2>1, <2>3 DEF Follows
  <2>4. CASE at = "inner" /\ due # <<>>
    <3>1. \/ AtBlock(Held, Outer) \/ AtEntries(Held, Inner) \/ AtEntry(Held, Inner)
          \/ AtPast(Held, Outer)
      BY <2>1, <2>4 DEF Place, BlockPlace, NodePlace, PastPlace, EntryPoints
    <3> QED
      BY <2>2, <2>3, <3>1, Front
  <2>5. CASE at # "inner"
    <3>1. Held = <<>> /\ <<>> \in Seq(Events) /\ Len(<<>>) = 0
      BY <2>1, <2>5, Where
    <3>2. "Node" \in Events /\ "Entry" \in Events /\ "End" \in Events
      BY DEF Events
    <3>3. \A event \in Events : /\ Append(Held, event) \in Seq(Events)
                                /\ Len(Append(Held, event)) = 1
      BY <3>1
    <3>4. /\ Append(Append(Held, "Entry"), "End") \in Seq(Events)
          /\ Len(Append(Append(Held, "Entry"), "End")) = 2
      BY <3>1, <3>2
    <3>5. ASSUME Follows(Append(Append(Held, "Entry"), "End"), 2)
          PROVE  Len(due) <= 4
      BY <2>1, <3>4, <3>5 DEF Follows
    <3>6. ASSUME NEW es \in Seq(Events), Len(es) <= 1, Follows(es, 2)
          PROVE  Len(due) <= 4
      BY <2>1, <3>6 DEF Follows
    <3>7. CASE InBlock /\ BlockPlace /\ at \in BlockPoints \ {"inner"}
      <4>1. \/ AtBlock(Held, Outer) \/ AtNode(Held, Outer) \/ AtEof(Held, Outer)
            \/ AtTyped({"String"}, "Node", Held, Inner)
            \/ Within("String", HintEnd({"String"}), "Node", Held, Inner)
            \/ Within("CloseParen", Ones({"String"}), "Node", Held, Inner)
            \/ AtValue({"String"}, "Node", Held, Inner)
        BY <3>7 DEF BlockPlace, BlockPoints
      <4>2. Follows(Held, 3)
        BY <2>2, <3>2, <4>1, Front
      <4> QED
        BY <2>2, <2>3, <4>2
    <3>8. CASE /\ state = "NodeEntries" /\ NodePlace
               /\ at \in {"entrySpaces", "entryCase", "entry"} \union EntryPoints
      <4>0. spaces \in BOOLEAN
        BY <2>1 DEF Calm
      <4>1. \/ AtEntries(Held, Inner) \/ AtEntry(Held, Inner)
            \/ Within("Equals", Typed(Plain), "Entry", Held, Inner)
            \/ AtTyped(Plain, "Entry", Held, Inner)
            \/ Within("String", HintEnd(Plain), "Entry", Held, Inner)
            \/ Within("CloseParen", Ones(Plain), "Entry", Held, Inner)
            \/ AtValue(Plain, "Entry", Held, Inner)
            \/ AtEntries(Append(Held, "Entry"), Inner)
            \/ AtEntry(Append(Held, "Entry"), Inner)
            \/ AtLines(Append(Held, "End"), Outer)
            \/ AtLines(Append(Append(Held, "Entry"), "End"), Outer)
        BY <3>8, <4>0 DEF NodePlace, EntryPoints
      <4>2. \/ Follows(Held, 3) \/ Follows(Append(Held, "Entry"), 3)
            \/ Follows(Append(Held, "End"), 2)
            \/ Follows(Append(Append(Held, "Entry"), "End"), 2)
        BY <2>2, <3>2, <3>3, <3>4, <4>1, Front
      <4> QED
        <5>1. /\ Append(Held, "Entry") \in Seq(Events) /\ Len(Append(Held, "Entry")) <= 1
              /\ Append(Held, "End") \in Seq(Events) /\ Len(Append(Held, "End")) <= 1
          BY <3>2, <3>3
        <5>2. Follows(Append(Held, "Entry"), 3) => Len(due) <= 4
          BY <2>3, <5>1
        <5>3. Follows(Append(Held, "End"), 2) => Len(due) <= 4
          BY <3>6, <5>1
        <5>4. Follows(Held, 3) => Len(due) <= 4
          BY <2>2, <2>3
        <5> QED
          BY <3>5, <4>2, <5>2, <5>3, <5>4
    <3>9. CASE /\ state = "NodeChildrenPast" /\ PastPlace
               /\ at \in {"entrySpaces", "entryCase"}
      <4>1. Follows(Held, 3) \/ Follows(Held, 2)
        BY <2>2, <3>9, Front DEF PastPlace
      <4> QED
        BY <2>2, <2>3, <3>6, <4>1
    <3> QED
      BY <2>1, <2>5, <3>7, <3>8, <3>9, Where
  <2> QED
    <3>1. Len(<<>>) <= 4
      OBVIOUS
    <3> QED
      BY <2>4, <2>5, <3>1
<1> QED
  BY <1>1, <1>2, <1>3, PTL DEF WriteReadSpec
=============================================================================

--------------------------- MODULE KdlStreamProofs ---------------------------
(***************************************************************************)
(* What holds of KdlStream for every MaxDepth: the events of a document    *)
(* that parses are structurally valid and the reader never panics, unless  *)
(* the input holds a slashdashed block behind a node's block or the        *)
(* program goes on after skip_to_end() failed.                             *)
(***************************************************************************)
EXTENDS KdlStream, TLAPS, SequenceTheorems, FiniteSetTheorems

-----------------------------------------------------------------------------
(* The reader, seen one inner event at a time.                             *)

\* What an inner event means for the state and the brackets.
Emits(event) ==
  \/ /\ event \in {"Node", "NodeSkipped"} /\ InBlock
     /\ event = "Node" => ~Skip
     /\ state' = "NodeEntries" /\ brackets' = brackets
  \/ /\ event \in {"Entry", "EntrySkipped"} /\ state = "NodeEntries"
     /\ state' \in {"NodeEntries", "NodeEntriesSpaced"} /\ brackets' = brackets
  \/ /\ event = "EntrySkipped" /\ state = "NodeChildrenPast"
     /\ state' = "NextNode" /\ brackets' = brackets
  \/ /\ event = "End" /\ state \in {"NodeEntries", "NodeChildrenReal"}
     /\ state' = "NextNode" /\ brackets' = brackets
  \/ /\ event = "Children" /\ state \in {"NodeEntries", "NodeChildrenReal"}
     /\ state' = "NextNode" /\ brackets' = Append(brackets, FALSE)
  \/ /\ event = "ChildrenSd" /\ state \in {"NodeEntries", "NodeChildrenReal"}
     /\ state' = "NextNode" /\ brackets' = Append(brackets, TRUE)
  \/ /\ event = "End" /\ InBlock /\ brackets # <<>> /\ ~brackets[Len(brackets)]
     /\ state' = "NodeChildrenPast"
     /\ brackets' = SubSeq(brackets, 1, Len(brackets) - 1)
  \/ /\ event = "EndSd" /\ InBlock /\ brackets # <<>> /\ brackets[Len(brackets)]
     /\ state' = "NodeChildrenReal"
     /\ brackets' = SubSeq(brackets, 1, Len(brackets) - 1)
  \/ /\ event = "Done" /\ (state = "Done" \/ (InBlock /\ brackets = <<>>))
     /\ state' = "Done" /\ brackets' = brackets

\* A step inside next_inner_event.
Quiet ==
  /\ call # "idle" /\ state # "Done"
  /\ UNCHANGED <<brackets, callVars>>
  /\ \/ state' = state
     \/ state = "NodeEntriesSpaced" /\ state' = "NodeEntries"

\* A step of a call does nothing else than go on, fail, or emit an event.
LEMMA StepShape ==
  ASSUME TypeOK, Control, Step, ~SlashDashAfterChildren
  PROVE  /\ call # "idle"
         /\ Quiet \/ Fail \/ \E event \in InnerEvents : Deliver(event) /\ Emits(event)
<1> USE DEF Quiet, At, Goto, callVars, Points, SpacePoints, LinePoints
<1>a. call # "idle"
  BY DEF Step, Parse, Control, Peek, Lexed, LexError, SkipSpaces, SkipLines, SlashDash, MaybeType,
         TypeName, TypeClose, EnterInner, InnerDone, SkipBom, EndOfInput, CloseBlock,
         StartNode, NodeName, Terminator, StartEntry, OpenBlock, BadEntry,
         ArgumentOrKey, Argument, TypedArgument, StringArgument, Property, EntryValue
<1>b. at # "inner" => state # "Done"
  BY DEF Control, TypeOK, BlockPoints, NodePoints, ValuePoints, TypePoints, BlankPoints,
         NodeStates, InBlock
<1> USE <1>a, <1>b
<1>1. CASE Peek
  BY <1>1 DEF Peek, Lexed
<1>2. CASE LexError
  BY <1>2 DEF LexError
<1>3. CASE SkipSpaces
  BY <1>3 DEF SkipSpaces
<1>4. CASE SkipLines
  BY <1>4 DEF SkipLines
<1>5. CASE SlashDash
  BY <1>5 DEF SlashDash
<1>6. CASE MaybeType
  BY <1>6 DEF MaybeType
<1>7. CASE TypeName
  BY <1>7 DEF TypeName
<1>8. CASE TypeClose
  BY <1>8 DEF TypeClose
<1>9. CASE EnterInner
  BY <1>9 DEF EnterInner, InBlock
<1>10. CASE InnerDone
  <2>1. Deliver("Done") /\ Emits("Done")
    BY <1>10 DEF InnerDone, Emits
  <2> QED
    BY <2>1 DEF InnerEvents
<1>11. CASE SkipBom
  BY <1>11 DEF SkipBom
<1>12. CASE EndOfInput
  <2>1. CASE brackets = <<>>
    <3>1. Deliver("Done") /\ Emits("Done")
      BY <1>12, <2>1 DEF EndOfInput, Emits, Control, BlockPoints
    <3> QED
      BY <3>1 DEF InnerEvents
  <2>2. CASE brackets # <<>>
    BY <1>12, <2>2 DEF EndOfInput
  <2> QED
    BY <2>1, <2>2
<1>13. CASE CloseBlock
  <2>1. CASE brackets = <<>>
    BY <1>13, <2>1 DEF CloseBlock
  <2>2. CASE brackets # <<>> /\ brackets[Len(brackets)]
    <3>1. Deliver("EndSd") /\ Emits("EndSd")
      BY <1>13, <2>2 DEF CloseBlock, Emits, Control, BlockPoints
    <3> QED
      BY <3>1 DEF InnerEvents
  <2>3. CASE brackets # <<>> /\ ~brackets[Len(brackets)]
    <3>1. Deliver("End") /\ Emits("End")
      BY <1>13, <2>3 DEF CloseBlock, Emits, Control, BlockPoints
    <3> QED
      BY <3>1 DEF InnerEvents
  <2> QED
    BY <2>1, <2>2, <2>3
<1>14. CASE StartNode
  BY <1>14 DEF StartNode
<1>15. CASE NodeName
  <2>1. CASE peekToken \in StringTokens
    <3>1. PICK event \in {"Node", "NodeSkipped"} :
            Deliver(event) /\ (event = "Node" => peekToken = "String")
      BY <1>15, <2>1 DEF NodeName
    <3>2. Emits(event)
      BY <1>15, <2>1, <3>1 DEF NodeName, Emits, Control, BlockPoints
    <3> QED
      BY <3>1, <3>2 DEF InnerEvents
  <2>2. CASE peekToken \notin StringTokens
    BY <1>15, <2>2 DEF NodeName
  <2> QED
    BY <2>1, <2>2
<1>16. CASE Terminator
  <2>1. state \in NodeStates
    BY <1>16 DEF Terminator, Control, NodePoints
  <2>2. CASE RealBody
    <3>1. Deliver("End") /\ Emits("End")
      BY <1>16, <2>1, <2>2 DEF Terminator, Emits, RealBody, NodeStates
    <3> QED
      BY <3>1 DEF InnerEvents
  <2>3. CASE ~RealBody
    <3>1. Deliver("EntrySkipped") /\ Emits("EntrySkipped")
      BY <1>16, <2>1, <2>3 DEF Terminator, Emits, RealBody, NodeStates
    <3> QED
      BY <3>1 DEF InnerEvents
  <2> QED
    BY <2>2, <2>3
<1>17. CASE StartEntry
  BY <1>17 DEF StartEntry
<1>18. CASE OpenBlock
  <2>1. state \in {"NodeEntries", "NodeChildrenReal"}
    BY <1>18 DEF OpenBlock, IsBlock, RealBody, Control, NodePoints, NodeStates
  <2>2. CASE sd
    <3>1. Deliver("ChildrenSd") /\ Emits("ChildrenSd")
      BY <1>18, <2>1, <2>2 DEF OpenBlock, PushedBracket, RealBody, Emits
    <3> QED
      BY <3>1 DEF InnerEvents
  <2>3. CASE ~sd
    <3>1. Deliver("Children") /\ Emits("Children")
      BY <1>18, <2>1, <2>3 DEF OpenBlock, PushedBracket, RealBody, Emits
    <3> QED
      BY <3>1 DEF InnerEvents
  <2> QED
    BY <2>2, <2>3
<1>19. CASE BadEntry
  BY <1>19 DEF BadEntry
<1>20. CASE ArgumentOrKey
  BY <1>20 DEF ArgumentOrKey
<1>21. CASE Argument
  <2>1. PICK event \in {"Entry", "EntrySkipped"} : Deliver(event)
    BY <1>21 DEF Argument, EntryEvent
  <2>2. Emits(event)
    BY <1>21, <2>1 DEF Argument, Emits, MayBeEntry, Entries
  <2> QED
    BY <2>1, <2>2 DEF InnerEvents
<1>22. CASE TypedArgument
  BY <1>22 DEF TypedArgument
<1>23. CASE StringArgument
  <2>1. PICK event \in {"Entry", "EntrySkipped"} : Deliver(event)
    BY <1>23 DEF StringArgument, EntryEvent
  <2>2. Emits(event)
    BY <1>23, <2>1 DEF StringArgument, Emits, Control, ValuePoints
  <2> QED
    BY <2>1, <2>2 DEF InnerEvents
<1>24. CASE Property
  BY <1>24 DEF Property
<1>25. CASE EntryValue
  <2>1. CASE peekToken \in ValueTokens
    <3>1. PICK event \in {"Entry", "EntrySkipped"} : Deliver(event)
      BY <1>25, <2>1 DEF EntryValue, EntryEvent
    <3>2. Emits(event)
      BY <1>25, <2>1, <3>1 DEF EntryValue, Emits, Control, ValuePoints
    <3> QED
      BY <3>1, <3>2 DEF InnerEvents
  <2>2. CASE peekToken \notin ValueTokens
    BY <1>25, <2>2 DEF EntryValue
  <2> QED
    BY <2>1, <2>2
<1> QED
  BY <1>1, <1>2, <1>3, <1>4, <1>5, <1>6, <1>7, <1>8, <1>9, <1>10, <1>11, <1>12,
     <1>13, <1>14, <1>15, <1>16, <1>17, <1>18, <1>19, <1>20, <1>21, <1>22, <1>23,
     <1>24, <1>25 DEF Step, Parse

-----------------------------------------------------------------------------
(* Pushing and popping a bracket, and how many of them are slashdashed.    *)

\* Slashdashed is a set of positions, so that it can be counted.
LEMMA SlashdashedFinite ==
  ASSUME NEW s \in Seq(BOOLEAN)
  PROVE  IsFiniteSet(Slashdashed(s)) /\ Cardinality(Slashdashed(s)) \in Nat
<1>1. IsFiniteSet(1..Len(s))
  BY FS_Interval
<1> QED
  BY <1>1, FS_Subset, FS_CardinalityType DEF Slashdashed

\* The elements of brackets.push(b).
LEMMA PushElements ==
  ASSUME NEW s \in Seq(BOOLEAN), NEW b \in BOOLEAN
  PROVE  /\ Append(s, b) \in Seq(BOOLEAN) /\ Len(Append(s, b)) = Len(s) + 1
         /\ Append(s, b)[Len(s) + 1] = b
         /\ \A i \in 1..Len(s) : Append(s, b)[i] = s[i]
  OBVIOUS

\* brackets.push(b) counts one slashdashed block more if b.
LEMMA PushCount ==
  ASSUME NEW s \in Seq(BOOLEAN)
  PROVE  /\ Cardinality(Slashdashed(Append(s, TRUE))) = Cardinality(Slashdashed(s)) + 1
         /\ Cardinality(Slashdashed(Append(s, FALSE))) = Cardinality(Slashdashed(s))
<1>1. Slashdashed(Append(s, TRUE)) = Slashdashed(s) \union {Len(s) + 1}
  BY PushElements DEF Slashdashed
<1>2. Slashdashed(Append(s, FALSE)) = Slashdashed(s)
  BY PushElements DEF Slashdashed
<1>3. Len(s) + 1 \notin Slashdashed(s)
  BY DEF Slashdashed
<1> QED
  BY <1>1, <1>2, <1>3, SlashdashedFinite, FS_AddElement

\* The elements of brackets.pop().
LEMMA PopElements ==
  ASSUME NEW s \in Seq(BOOLEAN), s # <<>>, NEW t, t = SubSeq(s, 1, Len(s) - 1)
  PROVE  /\ t \in Seq(BOOLEAN) /\ Len(t) = Len(s) - 1
         /\ \A i \in 1..Len(t) : t[i] = s[i]
         /\ Len(s) \in Nat \ {0}
<1>1. PICK n \in Nat : n > 0 /\ Len(s) = n
  BY EmptySeq
<1>2. \A i \in 1..(n - 1) : s[i] \in BOOLEAN
  BY <1>1, ElementOfSeq
<1>3. \A i \in 1..(n - 1) : t[i] = s[i]
  BY <1>1
<1>4. t = SubSeq(s, 1, n - 1) /\ 1 \in Int /\ n - 1 \in Int
  BY <1>1
<1>5. t \in Seq(BOOLEAN) /\ Len(t) = IF 1 <= n - 1 THEN n - 1 - 1 + 1 ELSE 0
  BY <1>2, <1>4, SubSeqProperties
<1>6. Len(t) = n - 1
  BY <1>1, <1>5
<1> QED
  BY <1>1, <1>3, <1>5, <1>6

\* brackets.pop() counts one slashdashed block less if the top was one.
LEMMA PopCount ==
  ASSUME NEW s \in Seq(BOOLEAN), s # <<>>, NEW t, t = SubSeq(s, 1, Len(s) - 1)
  PROVE  /\ s[Len(s)]  => Cardinality(Slashdashed(s)) = Cardinality(Slashdashed(t)) + 1
         /\ ~s[Len(s)] => Cardinality(Slashdashed(s)) = Cardinality(Slashdashed(t))
<1>1. t \in Seq(BOOLEAN) /\ Len(t) = Len(s) - 1 /\ Len(s) \in Nat
  BY PopElements
<1>2. ASSUME NEW b \in BOOLEAN, s[Len(s)] = b
      PROVE  s = Append(t, b)
  <2>1. Append(t, b) \in Seq(BOOLEAN) /\ Len(Append(t, b)) = Len(s)
    BY <1>1, PushElements
  <2>2. ASSUME NEW i \in 1..Len(s)
        PROVE  s[i] = Append(t, b)[i]
    <3>1. CASE i = Len(s)
      BY <1>1, <1>2, <3>1, PopElements, PushElements
    <3>2. CASE i # Len(s)
      BY <1>1, <3>2, PopElements, PushElements
    <3> QED
      BY <3>1, <3>2
  <2> QED
    BY <2>1, <2>2, SeqEqual
<1>3. s[Len(s)] \in BOOLEAN
  BY PopElements, ElementOfSeq
<1>4. CASE s[Len(s)] = TRUE
  BY <1>1, <1>2, <1>4, PushCount
<1>5. CASE s[Len(s)] = FALSE
  BY <1>1, <1>2, <1>5, PushCount
<1> QED
  BY <1>3, <1>4, <1>5

-----------------------------------------------------------------------------
(* How reader and validator stay together.                                 *)

\* Validator::push and done, spelled out for the events the reader can give.
LEMMA ValidatorSteps ==
  ASSUME nest \in Nat, vstate \in {"Block", "Node"}
  PROVE  /\ V!Push("Node") /\ vstate = "Block"
              => nest' = nest + 1 /\ vstate' = "Node" /\ result' = "Ok"
         /\ V!Push("Entry") /\ vstate = "Node"
              => nest' = nest /\ vstate' = "Node" /\ result' = "Ok"
         /\ V!Push("Children") /\ vstate = "Node"
              => nest' = nest /\ vstate' = "Block" /\ result' = "Ok"
         /\ V!Push("End") /\ nest > 0
              => nest' = nest - 1 /\ vstate' = "Block" /\ result' = "Ok"
         /\ V!Done /\ nest = 0
              => nest' = nest /\ vstate' = "Consumed" /\ result' = "Ok"
  BY DEF V!Push, V!PushNode, V!PushEntry, V!PushChildren, V!PushEnd, V!Move, V!Err, V!Done

\* A pushed bracket lies above the plain ones.
LEMMA PlainPush ==
  ASSUME NEW s \in Seq(BOOLEAN), NEW b \in BOOLEAN, NEW n \in Nat, PlainBelow(s, n)
  PROVE  /\ n <= Len(s) + 1 => PlainBelow(Append(s, b), n)
         /\ ~b => PlainBelow(Append(s, b), n)
  BY PushElements DEF PlainBelow

\* A popped bracket leaves the plain ones below it.
LEMMA PlainPop ==
  ASSUME NEW s \in Seq(BOOLEAN), s # <<>>, NEW n \in Nat, PlainBelow(s, n)
  PROVE  PlainBelow(SubSeq(s, 1, Len(s) - 1), n)
  BY PopElements DEF PlainBelow

(* What each inner event does to the depth and to the brackets.            *)

\* A node, skipped or not, opens one level.
LEMMA EmitNode ==
  ASSUME TypeOK, NEW event \in {"Node", "NodeSkipped"}, Emits(event)
  PROVE  /\ ~InNode /\ InNode' /\ Depth' = Depth + 1
         /\ brackets' = brackets /\ state' # "Done"
<1>1. ~InNode /\ state' = "NodeEntries" /\ brackets' = brackets
  BY DEF Emits, InBlock, InNode
<1>2. brackets \in Seq(BOOLEAN) /\ Len(brackets) \in Nat
  BY DEF TypeOK
<1> QED
  BY <1>1, <1>2 DEF InNode, Depth

\* An entry, skipped or not, stays on its level.
LEMMA EmitEntry ==
  ASSUME NEW event \in {"Entry", "EntrySkipped"}, Emits(event)
  PROVE  /\ InNode' <=> InNode
         /\ Depth' = Depth /\ brackets' = brackets /\ state' # "Done"
         /\ event = "Entry" => InNode
<1>1. /\ brackets' = brackets /\ state' # "Done"
      /\ InNode' <=> InNode
      /\ event = "Entry" => InNode
  BY DEF Emits, InNode
<1> QED
  BY <1>1 DEF Depth

\* A block takes over the level of its node.
LEMMA EmitChildren ==
  ASSUME TypeOK, NEW event \in {"Children", "ChildrenSd"}, Emits(event)
  PROVE  /\ InNode /\ ~InNode' /\ Depth' = Depth /\ state' # "Done"
         /\ Depth = Len(brackets) + 1 /\ Len(brackets') = Len(brackets) + 1
         /\ event = "Children" => brackets' = Append(brackets, FALSE)
         /\ event = "ChildrenSd" => brackets' = Append(brackets, TRUE)
<1>1. /\ InNode /\ state' = "NextNode" /\ brackets \in Seq(BOOLEAN)
      /\ event = "Children" => brackets' = Append(brackets, FALSE)
      /\ event = "ChildrenSd" => brackets' = Append(brackets, TRUE)
  BY DEF Emits, InNode, TypeOK
<1>2. Len(brackets') = Len(brackets) + 1 /\ Len(brackets) \in Nat
  <2>1. PICK b \in BOOLEAN : brackets' = Append(brackets, b)
    BY <1>1
  <2> QED
    BY <1>1, <2>1, PushElements
<1>3. ~InNode' /\ Depth = Len(brackets) + 1 /\ Depth' = Len(brackets) + 1
  BY <1>1, <1>2 DEF InNode, Depth
<1> QED
  BY <1>1, <1>2, <1>3

\* The end of a slashdashed block gives the level back to its node.
LEMMA EmitEndSd ==
  ASSUME TypeOK, Emits("EndSd")
  PROVE  /\ ~InNode /\ InNode' /\ Depth' = Depth /\ state' # "Done"
         /\ brackets # <<>> /\ brackets[Len(brackets)]
         /\ brackets' = SubSeq(brackets, 1, Len(brackets) - 1)
<1>1. /\ brackets # <<>> /\ brackets[Len(brackets)]
      /\ brackets' = SubSeq(brackets, 1, Len(brackets) - 1)
      /\ ~InNode /\ state' = "NodeChildrenReal" /\ brackets \in Seq(BOOLEAN)
  BY DEF Emits, InBlock, InNode, TypeOK
<1>2. Len(brackets') = Len(brackets) - 1 /\ Len(brackets) \in Nat
  BY <1>1, PopElements
<1> QED
  BY <1>1, <1>2 DEF InNode, Depth

\* The end of a node, or of its block, closes one level.
LEMMA EmitEnd ==
  ASSUME TypeOK, Emits("End")
  PROVE  /\ ~InNode' /\ Depth' = Depth - 1 /\ Depth > 0 /\ state' # "Done"
         /\ \/ brackets' = brackets
            \/ /\ brackets # <<>> /\ ~brackets[Len(brackets)]
               /\ brackets' = SubSeq(brackets, 1, Len(brackets) - 1)
<1>a. brackets \in Seq(BOOLEAN) /\ Len(brackets) \in Nat
  BY DEF TypeOK
<1>1. CASE state \in {"NodeEntries", "NodeChildrenReal"}
  <2>1. InNode /\ state' = "NextNode" /\ brackets' = brackets
    BY <1>1 DEF Emits, InBlock, InNode
  <2> QED
    BY <1>a, <2>1 DEF InNode, Depth
<1>2. CASE state \notin {"NodeEntries", "NodeChildrenReal"}
  <2>1. /\ brackets # <<>> /\ ~brackets[Len(brackets)]
        /\ brackets' = SubSeq(brackets, 1, Len(brackets) - 1)
        /\ ~InNode /\ state' = "NodeChildrenPast"
    BY <1>2 DEF Emits, InBlock, InNode
  <2>2. Len(brackets') = Len(brackets) - 1 /\ Len(brackets) \in Nat \ {0}
    BY <1>a, <2>1, PopElements
  <2> QED
    BY <2>1, <2>2 DEF InNode, Depth
<1> QED
  BY <1>1, <1>2

\* At the end of the input nothing is open.
LEMMA EmitDone ==
  ASSUME Emits("Done")
  PROVE  /\ state = "Done" \/ (InBlock /\ brackets = <<>>)
         /\ state' = "Done" /\ brackets' = brackets /\ ~InNode
  BY DEF Emits, InBlock, InNode

\* What the program does with the validator, by what the call returned.
LEMMA ObserveCases ==
  ASSUME vstate # "Consumed", Observe
  PROVE  /\ call' # "idle" => nest' = nest /\ vstate' = vstate /\ result' = result
         /\ call' = "idle" /\ out' \in {"Node", "Entry", "Children", "End"}
              => V!Push(out')
         /\ call' = "idle" /\ out' = "Done" => V!Done
         /\ call' = "idle" /\ out' = "Skipped" /\ nest > 0 => V!Push("End")
         /\ call' = "idle" /\ out' = "Skipped" /\ nest = 0
              => nest' = nest /\ vstate' = vstate /\ result' = result
  BY DEF Observe, Consume, Drop, validatorVars, V!Events

\* With no slashdashed bracket at all, every bracket is plain.
LEMMA NoneSlashdashed ==
  ASSUME brackets \in Seq(BOOLEAN), PlainBelow(brackets, Len(brackets) + 1)
  PROVE  Cardinality(Slashdashed(brackets)) = 0
<1>1. Slashdashed(brackets) = {}
  BY DEF Slashdashed, PlainBelow
<1> QED
  BY <1>1, FS_EmptySet

\* An event outside any skip goes to the program, or starts a skip.
LEMMA OutsideSkip ==
  ASSUME TypeOK, Control, Linked, ValidStream, NoPanic, vstate # "Consumed",
         call # "idle", skipping = "no", Observe,
         NEW event \in InnerEvents, Deliver(event), Emits(event)
  PROVE  Linked' /\ Stopped' /\ ValidStream' /\ NoPanic'
<1>1. /\ call = "next" /\ NextEvent(event) /\ result = "Ok" /\ out # "Panic"
      /\ nest \in Nat /\ vstate \in {"Block", "Node"}
      /\ brackets \in Seq(BOOLEAN) /\ Len(brackets) \in Nat
  BY DEF TypeOK, V!TypeOK, Control, Deliver, Skip, ValidStream, NoPanic
<1>2. /\ nest = Depth /\ PlainBelow(brackets, Len(brackets) + 1)
      /\ vstate = "Node" <=> InNode
  BY DEF Linked
<1>3. CASE event = "Node"
  <2>1. call' = "idle" /\ out' = "Node" /\ skipping' = "no"
    BY <1>1, <1>3 DEF NextEvent, Return, Continue
  <2>2. nest' = nest + 1 /\ vstate' = "Node" /\ result' = "Ok"
    BY <1>1, <1>2, <1>3, <2>1, ObserveCases, ValidatorSteps, EmitNode
  <2>3. nest' = Depth' /\ InNode' /\ brackets' = brackets /\ state' # "Done"
    BY <1>2, <1>3, <2>2, EmitNode
  <2> QED
    BY <1>2, <2>1, <2>2, <2>3 DEF Linked, PlainBelow, Stopped, ValidStream, NoPanic
<1>4. CASE event = "NodeSkipped"
  <2>1. /\ call' = "next" /\ out' = out /\ skipping' = "node" /\ counter' = 0
    BY <1>1, <1>4 DEF NextEvent, Return, Continue
  <2>2. nest' = nest /\ vstate' = vstate /\ result' = "Ok"
    BY <1>1, <2>1, ObserveCases
  <2>3. /\ Depth' = Depth + 1 /\ ~InNode /\ brackets' = brackets /\ state' # "Done"
    BY <1>4, EmitNode
  <2>4. Len(brackets) <= nest
    BY <1>1, <1>2, <2>3 DEF Depth
  <2> QED
    BY <1>1, <1>2, <2>1, <2>2, <2>3, <2>4
    DEF Linked, PlainBelow, Stopped, ValidStream, NoPanic
<1>5. CASE event \in {"Entry", "EntrySkipped"}
  <2>1. /\ InNode' <=> InNode
        /\ brackets' = brackets /\ Depth' = Depth /\ state' # "Done"
        /\ event = "Entry" => InNode
    BY <1>5, EmitEntry
  <2>2. skipping' = "no" /\ out' # "Panic"
    BY <1>1, <1>5 DEF NextEvent, Return, Continue
  <2>3. nest' = nest /\ vstate' = vstate /\ result' = "Ok"
    <3>1. CASE event = "Entry"
      BY <1>1, <1>2, <2>1, <3>1, ObserveCases, ValidatorSteps
      DEF NextEvent, Return, Continue
    <3>2. CASE event = "EntrySkipped"
      BY <1>1, <3>2, ObserveCases DEF NextEvent, Return, Continue
    <3> QED
      BY <1>5, <3>1, <3>2
  <2> QED
    BY <1>2, <2>1, <2>2, <2>3 DEF Linked, PlainBelow, Stopped, ValidStream, NoPanic
<1>6. CASE event = "Children"
  <2>1. call' = "idle" /\ out' = "Children" /\ skipping' = "no"
    BY <1>1, <1>6 DEF NextEvent, Return, Continue
  <2>2. /\ InNode /\ ~InNode' /\ Depth' = Depth /\ brackets' = Append(brackets, FALSE)
        /\ state' # "Done"
    BY <1>6, EmitChildren
  <2>3. nest' = nest /\ vstate' = "Block" /\ result' = "Ok"
    BY <1>1, <1>2, <2>1, <2>2, ObserveCases, ValidatorSteps
  <2>4. PlainBelow(brackets', Len(brackets') + 1)
    BY <1>1, <1>2, <2>2, PushElements DEF PlainBelow
  <2> QED
    BY <1>2, <2>1, <2>2, <2>3, <2>4 DEF Linked, Stopped, ValidStream, NoPanic
<1>7. CASE event = "ChildrenSd"
  <2>1. call' = "next" /\ out' = out /\ skipping' = "children" /\ counter' = 0
    BY <1>1, <1>7 DEF NextEvent, Return, Continue
  <2>2. nest' = nest /\ vstate' = vstate /\ result' = "Ok"
    BY <1>1, <2>1, ObserveCases
  <2>3. /\ InNode /\ brackets' = Append(brackets, TRUE) /\ state' # "Done"
        /\ Len(brackets') = Len(brackets) + 1 /\ Depth = Len(brackets) + 1
    BY <1>7, EmitChildren
  <2>4. nest = Len(brackets) + 1
    BY <1>2, <2>3
  <2>5. nest' \in 1..Len(brackets') /\ brackets'[nest'] /\ PlainBelow(brackets', nest')
    BY <1>1, <1>2, <2>2, <2>3, <2>4, PushElements DEF PlainBelow
  <2>6. Cardinality(Slashdashed(brackets')) = counter' + 1
    BY <1>1, <1>2, <2>1, <2>3, NoneSlashdashed, PushCount
  <2> QED
    BY <1>1, <1>2, <2>1, <2>2, <2>3, <2>5, <2>6
    DEF Linked, Stopped, ValidStream, NoPanic
<1>8. CASE event = "End"
  <2>1. call' = "idle" /\ out' = "End" /\ skipping' = "no"
    BY <1>1, <1>8 DEF NextEvent, Return, Continue
  <2>2. ~InNode' /\ Depth' = Depth - 1 /\ Depth > 0 /\ state' # "Done"
    BY <1>8, EmitEnd
  <2>3. nest' = nest - 1 /\ vstate' = "Block" /\ result' = "Ok"
    BY <1>1, <1>2, <2>1, <2>2, ObserveCases, ValidatorSteps
  <2>4. PlainBelow(brackets', Len(brackets') + 1)
    <3>1. CASE brackets' = brackets
      BY <1>2, <3>1 DEF PlainBelow
    <3>2. CASE /\ brackets # <<>>
               /\ brackets' = SubSeq(brackets, 1, Len(brackets) - 1)
      BY <1>1, <1>2, <3>2, PopElements DEF PlainBelow
    <3> QED
      BY <1>8, <3>1, <3>2, EmitEnd
  <2> QED
    BY <1>2, <2>1, <2>2, <2>3, <2>4 DEF Linked, Stopped, ValidStream, NoPanic
<1>9. CASE event = "EndSd"
  BY <1>1, <1>2, <1>9, EmitEndSd, PopElements DEF PlainBelow
<1>10. CASE event = "Done"
  <2>1. call' = "idle" /\ out' = "Done" /\ state' = "Done"
    BY <1>1, <1>10, EmitDone DEF NextEvent, Return, Continue
  <2>2. brackets = <<>> /\ ~InNode
    BY <1>10, EmitDone DEF Linked, InNode, InBlock
  <2>3. nest = 0
    BY <1>2, <2>2 DEF Depth
  <2>4. vstate' = "Consumed" /\ result' = "Ok"
    BY <1>1, <2>1, <2>3, ObserveCases, ValidatorSteps
  <2> QED
    BY <2>1, <2>4 DEF Linked, Stopped, ValidStream, NoPanic
<1> QED
  BY <1>3, <1>4, <1>5, <1>6, <1>7, <1>8, <1>9, <1>10 DEF InnerEvents

\* In a node that next() skips, the counter is the depth below it.
LEMMA SkippingNode ==
  ASSUME TypeOK, Control, Linked, ValidStream, NoPanic, vstate # "Consumed",
         call = "next", skipping = "node", Observe,
         NEW event \in InnerEvents, Deliver(event), Emits(event)
  PROVE  Linked' /\ Stopped' /\ ValidStream' /\ NoPanic'
<1>1. /\ SkipBracketed(event) /\ result = "Ok" /\ out # "Panic"
      /\ nest \in Nat /\ counter \in Nat
      /\ brackets \in Seq(BOOLEAN) /\ Len(brackets) \in Nat
  BY DEF TypeOK, V!TypeOK, Deliver, Skip, ValidStream, NoPanic
<1>2. Depth = nest + 1 + counter /\ vstate = "Block" /\ PlainBelow(brackets, nest + 1)
  BY DEF Linked
<1>3. call' = "next" /\ out' = out
  BY <1>1 DEF SkipBracketed, EndSkip, Continue
<1>4. nest' = nest /\ vstate' = "Block" /\ result' = "Ok"
  BY <1>1, <1>2, <1>3, ObserveCases
<1>5. Opener = "NodeSkipped" /\ Closer = "End"
  BY DEF Opener, Closer
<1>6. Stopped' /\ ValidStream' /\ NoPanic'
  BY <1>1, <1>3, <1>4 DEF Stopped, ValidStream, NoPanic
<1>7. SUFFICES Linked'
  BY <1>6
<1>8. CASE event = "NodeSkipped"
  <2>1. skipping' = "node" /\ counter' = counter + 1
    BY <1>1, <1>5, <1>8 DEF SkipBracketed, Continue
  <2>2. Depth' = Depth + 1 /\ brackets' = brackets /\ state' # "Done"
    BY <1>8, EmitNode
  <2> QED
    BY <1>1, <1>2, <1>3, <1>4, <2>1, <2>2 DEF Linked, PlainBelow
<1>9. CASE event = "End"
  <2>1. Depth' = Depth - 1 /\ ~InNode' /\ state' # "Done"
    BY <1>9, EmitEnd
  <2>2. PlainBelow(brackets', nest' + 1) /\ brackets' \in Seq(BOOLEAN)
    <3>1. CASE brackets' = brackets
      BY <1>1, <1>2, <1>4, <3>1 DEF PlainBelow
    <3>2. CASE /\ brackets # <<>>
               /\ brackets' = SubSeq(brackets, 1, Len(brackets) - 1)
      BY <1>1, <1>2, <1>4, <3>2, PopElements DEF PlainBelow
    <3> QED
      BY <1>9, <3>1, <3>2, EmitEnd
  <2>3. CASE counter > 0
    <3>1. skipping' = "node" /\ counter' = counter - 1
      BY <1>1, <1>5, <1>9, <2>3 DEF SkipBracketed, Continue
    <3> QED
      BY <1>1, <1>2, <1>3, <1>4, <2>1, <2>2, <2>3, <3>1 DEF Linked
  <2>4. CASE counter = 0
    <3>1. skipping' = "no"
      BY <1>1, <1>5, <1>9, <2>4 DEF SkipBracketed, EndSkip, Continue
    <3>2. Depth' = nest' /\ Depth' = Len(brackets')
      BY <1>1, <1>2, <1>4, <2>1, <2>2, <2>4 DEF Depth
    <3>3. PlainBelow(brackets', Len(brackets') + 1)
      BY <1>1, <1>4, <2>2, <3>2 DEF PlainBelow
    <3> QED
      BY <1>3, <1>4, <2>1, <3>1, <3>2, <3>3 DEF Linked
  <2> QED
    BY <1>1, <2>3, <2>4
<1>10. CASE event = "Done"
  <2>1. Depth = 0
    BY <1>10, EmitDone DEF Linked, Depth
  <2> QED
    BY <1>1, <1>2, <2>1
<1>11. CASE event \in {"Entry", "EntrySkipped", "Children", "ChildrenSd", "EndSd"}
  <2>1. skipping' = "node" /\ counter' = counter
    BY <1>1, <1>5, <1>11 DEF SkipBracketed, Continue
  <2>2. Depth' = Depth /\ state' # "Done" /\ PlainBelow(brackets', nest' + 1)
    <3>1. CASE event \in {"Entry", "EntrySkipped"}
      BY <1>2, <1>4, <3>1, EmitEntry DEF PlainBelow
    <3>2. CASE event \in {"Children", "ChildrenSd"}
      <4>1. /\ Depth' = Depth /\ state' # "Done" /\ Depth = Len(brackets) + 1
            /\ \/ brackets' = Append(brackets, FALSE)
               \/ brackets' = Append(brackets, TRUE)
        BY <3>2, EmitChildren
      <4>2. nest <= Len(brackets)
        BY <1>1, <1>2, <4>1
      <4>3. PICK b \in BOOLEAN : brackets' = Append(brackets, b)
        BY <4>1
      <4>4. PlainBelow(Append(brackets, b), nest + 1)
        BY <1>1, <1>2, <4>2, PlainPush
      <4> QED
        BY <1>4, <4>1, <4>3, <4>4
    <3>3. CASE event = "EndSd"
      <4>1. /\ Depth' = Depth /\ state' # "Done" /\ brackets # <<>>
            /\ brackets' = SubSeq(brackets, 1, Len(brackets) - 1)
        BY <3>3, EmitEndSd
      <4> QED
        BY <1>1, <1>2, <1>4, <4>1, PlainPop
    <3> QED
      BY <1>11, <3>1, <3>2, <3>3
  <2> QED
    BY <1>2, <1>3, <1>4, <2>1, <2>2 DEF Linked
<1>12. event # "Node"
  BY DEF Emits, Skip
<1> QED
  BY <1>8, <1>9, <1>10, <1>11, <1>12 DEF InnerEvents

\* skip_to_end() called by the program: the counter is how far the reader is
\* below the validator's depth, until the End that the program stands in for.
LEMMA SkippingForProgram ==
  ASSUME TypeOK, Control, Linked, ValidStream, NoPanic, vstate # "Consumed",
         call = "skip_to_end", skipping = "node", Observe,
         NEW event \in InnerEvents, Deliver(event), Emits(event)
  PROVE  Linked' /\ Stopped' /\ ValidStream' /\ NoPanic'
<1>1. /\ SkipBracketed(event) /\ result = "Ok" /\ out # "Panic"
      /\ nest \in Nat /\ counter \in Nat /\ vstate \in {"Block", "Node"}
      /\ brackets \in Seq(BOOLEAN) /\ Len(brackets) \in Nat
      /\ vstate = "Node" => nest > 0
  BY DEF TypeOK, V!TypeOK, Deliver, Skip, ValidStream, NoPanic
<1>2. Depth = nest + counter /\ PlainBelow(brackets, nest)
  BY DEF Linked
<1>3. Opener = "NodeSkipped" /\ Closer = "End"
  BY DEF Opener, Closer
<1>4. event # "Node"
  BY DEF Emits, Skip
<1>5. ASSUME call' = call, out' = out, skipping' = "node",
             Depth' = nest + counter', PlainBelow(brackets', nest), state' # "Done"
      PROVE  Linked' /\ Stopped' /\ ValidStream' /\ NoPanic'
  <2>1. nest' = nest /\ vstate' = vstate /\ result' = "Ok"
    BY <1>1, <1>5, ObserveCases
  <2> QED
    BY <1>1, <1>5, <2>1 DEF Linked, Stopped, ValidStream, NoPanic
<1>6. CASE event = "NodeSkipped"
  <2>1. call' = call /\ out' = out /\ skipping' = "node" /\ counter' = counter + 1
    BY <1>1, <1>3, <1>6 DEF SkipBracketed, Continue
  <2>2. Depth' = Depth + 1 /\ brackets' = brackets /\ state' # "Done"
    BY <1>6, EmitNode
  <2> QED
    BY <1>1, <1>2, <1>5, <2>1, <2>2
<1>7. CASE event = "End"
  <2>1. Depth' = Depth - 1 /\ Depth > 0 /\ ~InNode' /\ state' # "Done"
    BY <1>7, EmitEnd
  <2>2. PlainBelow(brackets', nest) /\ brackets' \in Seq(BOOLEAN)
    <3>1. CASE brackets' = brackets
      BY <1>1, <1>2, <3>1
    <3>2. CASE /\ brackets # <<>>
               /\ brackets' = SubSeq(brackets, 1, Len(brackets) - 1)
      BY <1>1, <1>2, <3>2, PlainPop, PopElements
    <3> QED
      BY <1>7, <3>1, <3>2, EmitEnd
  <2>3. CASE counter > 0
    <3>1. call' = call /\ out' = out /\ skipping' = "node" /\ counter' = counter - 1
      BY <1>1, <1>3, <1>7, <2>3 DEF SkipBracketed, Continue
    <3> QED
      BY <1>1, <1>2, <1>5, <2>1, <2>2, <3>1
  <2>4. CASE counter = 0
    <3>1. call' = "idle" /\ out' = "Skipped" /\ skipping' = "no"
      BY <1>1, <1>3, <1>7, <2>4 DEF SkipBracketed, EndSkip, Continue, Return
    <3>2. nest > 0
      BY <1>1, <1>2, <2>1, <2>4
    <3>3. nest' = nest - 1 /\ vstate' = "Block" /\ result' = "Ok"
      BY <1>1, <3>1, <3>2, ObserveCases, ValidatorSteps
    <3>4. Depth' = nest' /\ Depth' = Len(brackets')
      BY <1>1, <1>2, <2>1, <2>2, <2>4, <3>3 DEF Depth
    <3>5. PlainBelow(brackets', Len(brackets') + 1)
      BY <1>1, <2>2, <3>2, <3>3, <3>4 DEF PlainBelow
    <3> QED
      BY <2>1, <3>1, <3>3, <3>4, <3>5 DEF Linked, Stopped, ValidStream, NoPanic
  <2> QED
    BY <1>1, <2>3, <2>4
<1>8. CASE event = "Done"
  <2>1. Depth = 0 /\ brackets' = <<>> /\ state' = "Done"
    BY <1>8, EmitDone DEF Linked, Depth
  <2>2. nest = 0 /\ vstate = "Block"
    BY <1>1, <1>2, <2>1
  <2>3. call' = "idle" /\ out' = "Skipped" /\ skipping' = "no"
    BY <1>1, <1>3, <1>8 DEF SkipBracketed, EndSkip, Continue, Return
  <2>4. nest' = nest /\ vstate' = vstate /\ result' = "Ok"
    BY <1>1, <2>2, <2>3, ObserveCases
  <2>5. ~InNode' /\ Depth' = 0
    BY <2>1 DEF InNode, Depth
  <2>6. PlainBelow(brackets', Len(brackets') + 1)
    BY <2>1 DEF PlainBelow
  <2> QED
    BY <2>1, <2>2, <2>3, <2>4, <2>5, <2>6 DEF Linked, Stopped, ValidStream, NoPanic
<1>9. CASE event \in {"Entry", "EntrySkipped", "Children", "ChildrenSd", "EndSd"}
  <2>1. call' = call /\ out' = out /\ skipping' = "node" /\ counter' = counter
    BY <1>1, <1>3, <1>9 DEF SkipBracketed, Continue
  <2>2. Depth' = Depth /\ state' # "Done" /\ PlainBelow(brackets', nest)
    <3>1. CASE event \in {"Entry", "EntrySkipped"}
      BY <1>2, <3>1, EmitEntry
    <3>2. CASE event \in {"Children", "ChildrenSd"}
      <4>1. /\ Depth' = Depth /\ state' # "Done" /\ Depth = Len(brackets) + 1
            /\ \E b \in BOOLEAN : brackets' = Append(brackets, b)
        BY <3>2, EmitChildren
      <4>2. nest <= Len(brackets) + 1
        BY <1>1, <1>2, <4>1
      <4>3. PICK b \in BOOLEAN : brackets' = Append(brackets, b)
        BY <4>1
      <4>4. PlainBelow(Append(brackets, b), nest)
        BY <1>1, <1>2, <4>2, PlainPush
      <4> QED
        BY <4>1, <4>3, <4>4
    <3>3. CASE event = "EndSd"
      <4>1. /\ Depth' = Depth /\ state' # "Done" /\ brackets # <<>>
            /\ brackets' = SubSeq(brackets, 1, Len(brackets) - 1)
        BY <3>3, EmitEndSd
      <4> QED
        BY <1>1, <1>2, <4>1, PlainPop
    <3> QED
      BY <1>9, <3>1, <3>2, <3>3
  <2> QED
    BY <1>2, <1>5, <2>1, <2>2
<1> QED
  BY <1>4, <1>6, <1>7, <1>8, <1>9 DEF InnerEvents

\* In a slashdashed block the counter counts the slashdashed brackets, of which
\* the outermost stands where the node of the block has its own.
LEMMA SkippingChildren ==
  ASSUME TypeOK, Control, Linked, ValidStream, NoPanic, vstate # "Consumed",
         call = "next", skipping = "children", Observe,
         NEW event \in InnerEvents, Deliver(event), Emits(event)
  PROVE  Linked' /\ Stopped' /\ ValidStream' /\ NoPanic'
<1>1. /\ SkipBracketed(event) /\ result = "Ok" /\ out # "Panic"
      /\ nest \in Nat /\ counter \in Nat
      /\ brackets \in Seq(BOOLEAN) /\ Len(brackets) \in Nat
  BY DEF TypeOK, V!TypeOK, Deliver, Skip, ValidStream, NoPanic
<1>2. /\ vstate = "Node" /\ nest \in 1..Len(brackets) /\ brackets[nest]
      /\ PlainBelow(brackets, nest)
      /\ Cardinality(Slashdashed(brackets)) = counter + 1
  BY DEF Linked
<1>3. call' = "next" /\ out' = out
  BY <1>1 DEF SkipBracketed, EndSkip, Continue
<1>4. nest' = nest /\ vstate' = "Node" /\ result' = "Ok"
  BY <1>1, <1>2, <1>3, ObserveCases
<1>5. Opener = "ChildrenSd" /\ Closer = "EndSd"
  BY DEF Opener, Closer
<1>6. Stopped' /\ ValidStream' /\ NoPanic'
  BY <1>1, <1>3, <1>4 DEF Stopped, ValidStream, NoPanic
<1>7. SUFFICES Linked'
  BY <1>6
<1>8. CASE event \in {"Node", "NodeSkipped", "Entry", "EntrySkipped"}
  <2>1. skipping' = "children" /\ counter' = counter
    BY <1>1, <1>5, <1>8 DEF SkipBracketed, Continue
  <2>2. brackets' = brackets /\ state' # "Done"
    BY <1>8, EmitNode, EmitEntry
  <2> QED
    BY <1>2, <1>4, <2>1, <2>2 DEF Linked
<1>9. CASE event \in {"Children", "ChildrenSd"}
  <2>1. /\ state' # "Done" /\ Len(brackets') = Len(brackets) + 1
        /\ event = "Children" => brackets' = Append(brackets, FALSE)
        /\ event = "ChildrenSd" => brackets' = Append(brackets, TRUE)
    BY <1>9, EmitChildren
  <2>2. PICK b \in BOOLEAN : brackets' = Append(brackets, b)
    BY <1>9, <2>1
  <2>3. PlainBelow(brackets', nest)
    BY <1>1, <1>2, <2>2, PlainPush
  <2>4. nest \in 1..Len(brackets') /\ brackets'[nest]
    BY <1>1, <1>2, <2>1, <2>2, PushElements
  <2>5. skipping' = "children" /\ Cardinality(Slashdashed(brackets')) = counter' + 1
    <3>1. CASE event = "Children"
      BY <1>1, <1>2, <1>5, <2>1, <3>1, PushCount DEF SkipBracketed, Continue
    <3>2. CASE event = "ChildrenSd"
      BY <1>1, <1>2, <1>5, <2>1, <3>2, PushCount DEF SkipBracketed, Continue
    <3> QED
      BY <1>9, <3>1, <3>2
  <2> QED
    BY <1>4, <2>1, <2>3, <2>4, <2>5 DEF Linked
<1>10. CASE event = "End"
  <2>1. skipping' = "children" /\ counter' = counter
    BY <1>1, <1>5, <1>10 DEF SkipBracketed, Continue
  <2>2. CASE brackets' = brackets
    BY <1>2, <1>4, <1>10, <2>1, <2>2, EmitEnd DEF Linked
  <2>3. CASE /\ brackets # <<>> /\ ~brackets[Len(brackets)]
             /\ brackets' = SubSeq(brackets, 1, Len(brackets) - 1)
    <3>1. nest # Len(brackets)
      BY <1>2, <2>3
    <3>2. nest \in 1..Len(brackets') /\ brackets'[nest]
      BY <1>1, <1>2, <2>3, <3>1, PopElements
    <3>3. PlainBelow(brackets', nest)
      BY <1>1, <1>2, <2>3, PlainPop
    <3>4. Cardinality(Slashdashed(brackets')) = counter' + 1
      BY <1>1, <1>2, <2>1, <2>3, PopCount
    <3> QED
      BY <1>4, <1>10, <2>1, <3>2, <3>3, <3>4, EmitEnd DEF Linked
  <2> QED
    BY <1>10, <2>2, <2>3, EmitEnd
<1>11. CASE event = "EndSd"
  <2>1. /\ ~InNode /\ InNode' /\ Depth' = Depth /\ state' # "Done"
        /\ brackets # <<>> /\ brackets[Len(brackets)]
        /\ brackets' = SubSeq(brackets, 1, Len(brackets) - 1)
    BY <1>11, EmitEndSd
  <2>2. /\ brackets' \in Seq(BOOLEAN) /\ Len(brackets') = Len(brackets) - 1
        /\ Cardinality(Slashdashed(brackets)) = Cardinality(Slashdashed(brackets')) + 1
        /\ \A i \in 1..Len(brackets') : brackets'[i] = brackets[i]
    BY <1>1, <2>1, PopElements, PopCount
  <2>3. Cardinality(Slashdashed(brackets')) = counter
    BY <1>1, <1>2, <2>2, SlashdashedFinite
  <2>4. PlainBelow(brackets', nest)
    BY <1>1, <1>2, <2>1, PlainPop
  <2>5. CASE counter > 0
    <3>1. skipping' = "children" /\ counter' = counter - 1
      BY <1>1, <1>5, <1>11, <2>5 DEF SkipBracketed, Continue
    <3>2. nest # Len(brackets)
      <4>1. SUFFICES ASSUME nest = Len(brackets) PROVE FALSE
        OBVIOUS
      <4>2. PlainBelow(brackets', Len(brackets') + 1)
        BY <1>1, <2>2, <2>4, <4>1 DEF PlainBelow
      <4>3. Slashdashed(brackets') = {}
        BY <2>2, <4>2 DEF PlainBelow, Slashdashed
      <4> QED
        BY <2>3, <2>5, <4>3, FS_EmptySet
    <3>3. nest \in 1..Len(brackets') /\ brackets'[nest]
      BY <1>1, <1>2, <2>2, <3>2
    <3> QED
      BY <1>1, <1>4, <2>1, <2>3, <2>4, <3>1, <3>3 DEF Linked
  <2>6. CASE counter = 0
    <3>1. skipping' = "no"
      BY <1>1, <1>3, <1>5, <1>11, <2>6 DEF SkipBracketed, EndSkip, Continue
    <3>2. Slashdashed(brackets') = {}
      BY <2>2, <2>3, <2>6, SlashdashedFinite, FS_EmptySet
    <3>3. PlainBelow(brackets', Len(brackets') + 1)
      BY <2>2, <3>2 DEF PlainBelow, Slashdashed
    <3>4. nest = Len(brackets)
      <4>1. CASE nest # Len(brackets)
        <5>1. nest \in 1..Len(brackets') /\ brackets'[nest]
          BY <1>1, <1>2, <2>2, <4>1
        <5> QED
          BY <2>2, <3>3, <5>1 DEF PlainBelow
      <4> QED
        BY <4>1
    <3>5. Depth' = nest
      BY <1>1, <2>1, <3>4 DEF Depth
    <3> QED
      BY <1>4, <2>1, <3>1, <3>3, <3>5 DEF Linked
  <2> QED
    BY <1>1, <2>5, <2>6
<1>12. CASE event = "Done"
  <2>1. brackets = <<>>
    BY <1>12, EmitDone DEF Linked
  <2> QED
    BY <1>2, <2>1
<1> QED
  BY <1>8, <1>9, <1>10, <1>11, <1>12 DEF InnerEvents

\* Every step of a call keeps reader and validator together.
LEMMA ReadStepLinked ==
  ASSUME IInv, ReadStep, ~SlashDashAfterChildren, ~ResumeAfterError
  PROVE  Linked' /\ Stopped' /\ ValidStream' /\ NoPanic'
<1>1. TypeOK /\ Control /\ Linked /\ Stopped /\ ValidStream /\ NoPanic /\ Step /\ Observe
  BY DEF IInv, ReadStep
<1>2. /\ call # "idle"
      /\ Quiet \/ Fail \/ \E event \in InnerEvents : Deliver(event) /\ Emits(event)
  BY <1>1, StepShape
<1>3. CASE Quiet
  <2>1. /\ call' = call /\ out' = out /\ skipping' = skipping /\ counter' = counter
        /\ brackets' = brackets /\ state # "Done" /\ state' # "Done"
        /\ InNode' <=> InNode
    BY <1>3 DEF Quiet, callVars, InNode
  <2>2. Depth' = Depth
    BY <2>1 DEF Depth
  <2>3. nest' = nest /\ vstate' = vstate /\ result' = result
    BY <1>1, <1>2, <2>1 DEF Observe, validatorVars
  <2>4. vstate # "Consumed"
    BY <1>1, <1>2, <2>1 DEF Stopped
  <2> QED
    BY <1>1, <2>1, <2>2, <2>3, <2>4 DEF Linked, Stopped, ValidStream, NoPanic
<1>4. CASE Fail
  <2>1. call' = "idle" /\ out' = "Err"
    BY <1>4 DEF Fail, Return
  <2>2. CASE vstate = "Consumed"
    BY <1>1, <2>1, <2>2
    DEF Observe, validatorVars, Linked, Stopped, ValidStream, NoPanic
  <2>3. CASE vstate # "Consumed"
    <3>1. \/ vstate' = vstate /\ nest' = nest /\ result' = result /\ ResumeAfterError
          \/ vstate' = "Consumed" /\ result' = result
      BY <1>1, <2>1, <2>3
      DEF Observe, Consume, Drop, validatorVars, V!Events
    <3> QED
      BY <1>1, <2>1, <3>1 DEF Linked, Stopped, ValidStream, NoPanic
  <2> QED
    BY <2>2, <2>3
<1>5. ASSUME NEW event \in InnerEvents, Deliver(event), Emits(event)
      PROVE  Linked' /\ Stopped' /\ ValidStream' /\ NoPanic'
  <2>1. CASE vstate = "Consumed"
    <3>1. state = "Done"
      BY <1>1, <1>2, <2>1 DEF Stopped
    <3>2. event = "Done" /\ state' = "Done"
      BY <1>5, <3>1 DEF Emits, InBlock
    <3>3. vstate' = "Consumed" /\ result' = result
      BY <1>1, <2>1 DEF Observe, validatorVars
    <3>4. out' # "Panic"
      BY <1>1, <1>5, <3>2
      DEF Deliver, NextEvent, SkipBracketed, EndSkip, Continue, Return, NoPanic,
          Opener, Closer
    <3> QED
      BY <1>1, <3>2, <3>3, <3>4 DEF Linked, Stopped, ValidStream, NoPanic
  <2>2. CASE vstate # "Consumed"
    <3>1. CASE skipping = "no"
      BY <1>1, <1>2, <1>5, <2>2, <3>1, OutsideSkip
    <3>2. CASE skipping = "node" /\ call = "next"
      BY <1>1, <1>2, <1>5, <2>2, <3>2, SkippingNode
    <3>3. CASE skipping = "node" /\ call = "skip_to_end"
      BY <1>1, <1>2, <1>5, <2>2, <3>3, SkippingForProgram
    <3>4. CASE skipping = "children" /\ call = "next"
      BY <1>1, <1>2, <1>5, <2>2, <3>4, SkippingChildren
    <3> QED
      BY <1>1, <1>2, <3>1, <3>2, <3>3, <3>4 DEF TypeOK, Control
  <2> QED
    BY <2>1, <2>2
<1> QED
  BY <1>2, <1>3, <1>4, <1>5

\* So does the start of a call.
LEMMA CallLinked ==
  ASSUME IInv, Call, ~ResumeAfterError
  PROVE  Linked' /\ Stopped' /\ ValidStream' /\ NoPanic'
<1>1. /\ Linked /\ Stopped /\ ValidStream /\ NoPanic /\ TypeOK
      /\ call = "idle" /\ skipping = "no" /\ MayCall
      /\ state' = state /\ brackets' = brackets /\ out' = out
      /\ nest' = nest /\ vstate' = vstate /\ result' = result
  BY DEF IInv, Control, Call, CallNext, CallSkipToEnd, MayCall, validatorVars
<1>2. \/ call' = "next" /\ skipping' = "no"
      \/ call' = "skip_to_end" /\ skipping' = "node" /\ counter' = 0
  BY <1>1 DEF Call, CallNext, CallSkipToEnd
<1>3. (InNode' <=> InNode) /\ Depth' = Depth
  BY <1>1 DEF InNode, Depth
<1>4. vstate = "Consumed" => state = "Done"
  BY <1>1 DEF Stopped, MayCall
<1>5. vstate # "Consumed" => nest \in Nat /\ PlainBelow(brackets, nest)
  <2>1. vstate # "Consumed" => nest \in Nat /\ PlainBelow(brackets, Len(brackets) + 1)
    BY <1>1 DEF Linked, TypeOK, V!TypeOK
  <2>2. Len(brackets) \in Nat
    BY <1>1 DEF TypeOK
  <2> QED
    BY <2>1, <2>2 DEF PlainBelow
<1> QED
  BY <1>1, <1>2, <1>3, <1>4, <1>5 DEF Linked, Stopped, ValidStream, NoPanic

-----------------------------------------------------------------------------
(* Types and control.                                                      *)

\* Each part of the program's step leaves the validator well typed.
LEMMA ValidatorTypes ==
  ASSUME TypeOK, Call \/ ReadStep
  PROVE  V!TypeOK'
<1>1. V!TypeOK
  BY DEF TypeOK
<1>2. CASE UNCHANGED validatorVars
  BY <1>1, <1>2 DEF validatorVars, V!TypeOK, V!Results
<1>3. CASE Drop
  BY <1>1, <1>3 DEF Drop, V!TypeOK, V!Results
<1>4. CASE V!Done
  BY <1>1, <1>4 DEF V!Done, V!TypeOK, V!Results
<1>5. ASSUME NEW event, V!Push(event)
      PROVE  V!TypeOK'
  BY <1>1, <1>5
  DEF V!Push, V!PushNode, V!PushEntry, V!PushChildren, V!PushEnd, V!Move, V!Err,
      V!TypeOK, V!Results
<1> QED
  BY <1>2, <1>3, <1>4, <1>5 DEF Call, ReadStep, Observe, Consume

\* The variables that inner events leave to the callers.
LEMMA CallerTypes ==
  ASSUME IInv, ReadStep, ~SlashDashAfterChildren
  PROVE  /\ state' \in States /\ brackets' \in Seq(BOOLEAN)
         /\ call' \in {"idle", "next", "skip_to_end"}
         /\ skipping' \in {"no", "node", "children"}
         /\ counter' \in Nat
         /\ out' \in {"None", "Node", "Entry", "Children", "End", "Done", "Err",
                      "Skipped", "Panic"}
<1>1. TypeOK /\ Control /\ Step
  BY DEF IInv, ReadStep
<1>2. Quiet \/ Fail \/ \E event \in InnerEvents : Deliver(event) /\ Emits(event)
  BY <1>1, StepShape
<1>3. CASE Quiet
  BY <1>1, <1>3 DEF Quiet, callVars, TypeOK, States
<1>4. CASE Fail
  BY <1>1, <1>4 DEF Fail, Return, TypeOK, States
<1>5. ASSUME NEW event \in InnerEvents, Deliver(event), Emits(event)
      PROVE  /\ state' \in States /\ brackets' \in Seq(BOOLEAN)
             /\ call' \in {"idle", "next", "skip_to_end"}
             /\ skipping' \in {"no", "node", "children"}
             /\ counter' \in Nat
             /\ out' \in {"None", "Node", "Entry", "Children", "End", "Done", "Err",
                          "Skipped", "Panic"}
  <2>1. state' \in States
    BY <1>5 DEF Emits, States
  <2>2. brackets' \in Seq(BOOLEAN)
    <3>1. brackets \in Seq(BOOLEAN)
      BY <1>1 DEF TypeOK
    <3>2. \/ brackets' = brackets
          \/ \E b \in BOOLEAN : brackets' = Append(brackets, b)
          \/ /\ brackets # <<>>
             /\ brackets' = SubSeq(brackets, 1, Len(brackets) - 1)
      BY <1>5 DEF Emits
    <3> QED
      BY <3>1, <3>2, PushElements, PopElements
  <2>3. /\ call' \in {"idle", "next", "skip_to_end"}
        /\ skipping' \in {"no", "node", "children"}
        /\ counter' \in Nat
        /\ out' \in {"None", "Node", "Entry", "Children", "End", "Done", "Err",
                     "Skipped", "Panic"}
    BY <1>1, <1>5
    DEF Deliver, NextEvent, SkipBracketed, EndSkip, Continue, Return, TypeOK
  <2> QED
    BY <2>1, <2>2, <2>3
<1> QED
  BY <1>2, <1>3, <1>4, <1>5

\* The actions that stay inside next_inner_event, and those that leave it.
Inside ==
  \/ Peek \/ SkipSpaces \/ SkipLines \/ SlashDash \/ MaybeType \/ EnterInner \/ SkipBom
  \/ StartNode \/ StartEntry \/ ArgumentOrKey \/ TypedArgument \/ Property
  \/ (TypeName /\ peekToken \in StringTokens) \/ (TypeClose /\ peekToken = "CloseParen")

Leaving ==
  \/ LexError \/ InnerDone \/ EndOfInput \/ CloseBlock \/ NodeName \/ Terminator
  \/ OpenBlock \/ BadEntry \/ Argument \/ StringArgument \/ EntryValue
  \/ (TypeName /\ peekToken \notin StringTokens) \/ (TypeClose /\ peekToken # "CloseParen")

\* Every step stays inside next_inner_event or leaves it.
LEMMA StepSides == Step => Inside \/ Leaving
  BY DEF Step, Parse, Inside, Leaving

\* peek_token holds a token or nothing.
LEMMA TokenTypes ==
  ASSUME TypeOK, Step
  PROVE  /\ peekToken' \in Tokens \union {"none"}
         /\ lexed' \in {"Start", "Spaces", "Lines", "Eof", "Other"}
<1>1. /\ peekToken \in Tokens \union {"none"}
      /\ lexed \in {"Start", "Spaces", "Lines", "Eof", "Other"}
  BY DEF TypeOK
<1>2. CASE Peek
  BY <1>2 DEF Peek, Lexed
<1>3. CASE LexError
  BY <1>3 DEF LexError, Tokens
<1>4. CASE Advance \/ Keep
  BY <1>1, <1>4 DEF Advance, Keep, lexVars
<1>5. EnterInner \/ InnerDone => Keep
  BY DEF EnterInner, InnerDone, Keep
<1> QED
  BY <1>2, <1>3, <1>4, <1>5
  DEF Step, Parse, SkipSpaces, SkipLines, SlashDash, MaybeType, TypeName, TypeClose, SkipBom,
      EndOfInput, CloseBlock, StartNode, NodeName, Terminator, StartEntry, OpenBlock,
      BadEntry, ArgumentOrKey, Argument, TypedArgument, StringArgument, Property,
      EntryValue

\* Inside next_inner_event, control goes from a point to a point.
LEMMA InsidePoints ==
  ASSUME TypeOK, Inside
  PROVE  at' \in Points /\ sd' \in BOOLEAN /\ spaces' \in BOOLEAN /\ text' \in BOOLEAN
<1> USE DEF TypeOK, Points, SpacePoints, LinePoints, Goto, localVars
<1>1. CASE Peek
  BY <1>1 DEF Peek, Lexed
<1>2. CASE SkipSpaces
  BY <1>2 DEF SkipSpaces, AfterSpaces
<1>3. CASE SkipLines
  BY <1>3 DEF SkipLines, AfterLines
<1>4. CASE SlashDash
  BY <1>4 DEF SlashDash
<1>5. CASE MaybeType
  BY <1>5 DEF MaybeType
<1>6. CASE EnterInner
  BY <1>6 DEF EnterInner
<1>7. CASE SkipBom
  BY <1>7 DEF SkipBom
<1>8. CASE StartNode
  BY <1>8 DEF StartNode
<1>9. CASE StartEntry
  BY <1>9 DEF StartEntry
<1>10. CASE ArgumentOrKey
  BY <1>10 DEF ArgumentOrKey
<1>11. CASE TypedArgument
  BY <1>11 DEF TypedArgument
<1>12. CASE Property
  BY <1>12 DEF Property
<1>13. CASE TypeName /\ peekToken \in StringTokens
  BY <1>13 DEF TypeName
<1>14. CASE TypeClose /\ peekToken = "CloseParen"
  BY <1>14 DEF TypeClose
<1> QED
  BY <1>1, <1>2, <1>3, <1>4, <1>5, <1>6, <1>7, <1>8, <1>9, <1>10, <1>11, <1>12, <1>13, <1>14 DEF Inside

\* Inside next_inner_event, every point keeps what is known there.
LEMMA InsideControl ==
  ASSUME TypeOK, Control, Inside, ~SlashDashAfterChildren
  PROVE  Control'
<1> USE DEF TypeOK, States, Points, SpacePoints, LinePoints, Goto, localVars, callVars,
            At, Keep, Advance, lexVars, InBlock, Skip, Control, BlockPoints, NodePoints,
            ValuePoints, TypePoints, BlankPoints, NodeStates
<1>1. CASE Peek
  BY <1>1 DEF Peek, Lexed, Lexable, Offered, LexSkip, RealBody, TextTokens
<1>2. CASE SkipSpaces
  BY <1>2 DEF SkipSpaces, AfterSpaces
<1>3. CASE SkipLines
  BY <1>3 DEF SkipLines, AfterLines
<1>4. CASE SlashDash
  BY <1>4 DEF SlashDash
<1>5. CASE MaybeType
  BY <1>5 DEF MaybeType
<1>6. CASE EnterInner
  BY <1>6 DEF EnterInner
<1>7. CASE SkipBom
  BY <1>7 DEF SkipBom
<1>8. CASE StartNode
  BY <1>8 DEF StartNode
<1>9. CASE StartEntry
  BY <1>9 DEF StartEntry
<1>10. CASE ArgumentOrKey
  BY <1>10 DEF ArgumentOrKey, MayBeEntry, Entries
<1>11. CASE TypedArgument
  BY <1>11 DEF TypedArgument, MayBeEntry, Entries
<1>12. CASE Property
  BY <1>12 DEF Property
<1>13. CASE TypeName /\ peekToken \in StringTokens
  BY <1>13 DEF TypeName
<1>14. CASE TypeClose /\ peekToken = "CloseParen"
  BY <1>14 DEF TypeClose
<1> QED
  BY <1>1, <1>2, <1>3, <1>4, <1>5, <1>6, <1>7, <1>8, <1>9, <1>10, <1>11, <1>12, <1>13, <1>14 DEF Inside

\* What a step that leaves next_inner_event does to the call and the lookahead.
LEMMA LeavingShape ==
  ASSUME Leaving
  PROVE  /\ LeaveInner
         /\ Fail \/ \E event \in InnerEvents : Deliver(event)
<1>1. Fail => LeaveInner
  BY DEF Fail
<1>2. \A event : Deliver(event) => LeaveInner
  BY DEF Deliver
<1>3. Fail \/ \E event \in InnerEvents : Deliver(event)
  BY DEF Leaving, LexError, InnerDone, EndOfInput, CloseBlock, NodeName, Terminator,
         OpenBlock, BadEntry, Argument, StringArgument, EntryValue, EntryEvent, InnerEvents,
         TypeName, TypeClose
<1> QED
  BY <1>1, <1>2, <1>3

\* A name is never left in peek_token when a block goes on.
LEMMA NoNameLeft ==
  ASSUME TypeOK, Control, Leaving, InBlock', ~Fail
  PROVE  peekToken' # "String"
<1> USE DEF InBlock, Advance, Keep, lexVars
<1>1. CASE LexError
  BY <1>1 DEF LexError
<1>2. CASE InnerDone
  BY <1>2 DEF InnerDone
<1>3. CASE EndOfInput
  BY <1>3 DEF EndOfInput
<1>4. CASE CloseBlock
  BY <1>4 DEF CloseBlock
<1>5. CASE NodeName
  BY <1>5 DEF NodeName
<1>6. CASE Terminator
  BY <1>6 DEF Terminator, Terminators
<1>7. CASE OpenBlock
  BY <1>7 DEF OpenBlock
<1>8. CASE BadEntry
  BY <1>8 DEF BadEntry
<1>9. CASE Argument
  BY <1>9 DEF Argument
<1>10. CASE StringArgument
  BY <1>10 DEF StringArgument
<1>11. CASE EntryValue
  BY <1>11 DEF EntryValue
<1>12. CASE TypeName \/ TypeClose
  BY <1>12 DEF TypeName, TypeClose
<1> QED
  BY <1>1, <1>2, <1>3, <1>4, <1>5, <1>6, <1>7, <1>8, <1>9, <1>10, <1>11, <1>12 DEF Leaving

\* A step that leaves next_inner_event keeps what its caller relies on.
LEMMA LeavingControl ==
  ASSUME TypeOK, Control, Leaving, Step, ~SlashDashAfterChildren
  PROVE  Control'
<1>1. at' = "inner" /\ ~sd'
  BY LeavingShape DEF LeaveInner
<1>2. call # "idle"
  BY StepShape
<1>3. CASE Fail
  BY <1>1, <1>3
  DEF Fail, Return, Control, BlockPoints, NodePoints, ValuePoints, TypePoints, BlankPoints
<1>4. CASE ~Fail
  <2>1. /\ call' = "idle" => skipping' = "no"
        /\ call' = "skip_to_end" => skipping' = "node"
        /\ call' # "idle" => out' = out
    <3>1. PICK event \in InnerEvents : Deliver(event)
      BY <1>4, LeavingShape
    <3> QED
      BY <1>2, <3>1
      DEF Deliver, NextEvent, SkipBracketed, EndSkip, Continue, Return, Control, Skip, TypeOK
  <2>2. InBlock' => peekToken' # "String"
    BY <1>4, NoNameLeft
  <2>3. state = "Done" => state' = "Done"
    <3>1. state = "Done" => \E event \in InnerEvents : Emits(event)
      BY <1>4, StepShape DEF Quiet
    <3> QED
      BY <3>1 DEF Emits, InBlock
  <2> QED
    BY <1>1, <1>2, <2>1, <2>2, <2>3
    DEF Control, BlockPoints, NodePoints, ValuePoints, TypePoints, BlankPoints
<1> QED
  BY <1>3, <1>4

-----------------------------------------------------------------------------
(* The token that peek_token holds.                                        *)

\* Inside next_inner_event, a token is read under the skip mode of its point,
\* and passed on to points that know that mode.
LEMMA InsidePeeked ==
  ASSUME TypeOK, Control, Peeked, Inside
  PROVE  Peeked'
<1> USE DEF Peeked, Goto, localVars, callVars, At, Keep, Advance, lexVars, Skip, Control,
            InBlock, BlankPoints, BlockPoints, NodePoints, ValuePoints, TypePoints,
            SkippedTokens, TextTokens
<1>1. CASE Peek
  <2>1. PICK token \in Tokens : Lexed(token)
    BY <1>1 DEF Peek
  <2>2. /\ token \in SkippedTokens => LexSkip
        /\ token \in TextTokens => ~LexSkip
    BY <2>1 DEF Lexed, Lexable
  <2>3. LexSkip => Skip \/ (sd /\ at \notin {"keySpaces", "key"})
    BY DEF LexSkip
  <2>4. ~LexSkip => ~sd \/ at \in {"keySpaces", "key"}
    BY DEF LexSkip, TypeOK, Points, SpacePoints, LinePoints
  <2> QED
    BY <2>1, <2>2, <2>3, <2>4 DEF Lexed
<1>2. CASE SkipSpaces
  BY <1>2 DEF SkipSpaces, AfterSpaces, SpacePoints
<1>3. CASE SkipLines
  BY <1>3 DEF SkipLines, AfterLines, LinePoints
<1>4. CASE SlashDash
  BY <1>4 DEF SlashDash
<1>5. CASE MaybeType
  BY <1>5 DEF MaybeType
<1>6. CASE EnterInner
  BY <1>6 DEF EnterInner
<1>7. CASE SkipBom
  BY <1>7 DEF SkipBom
<1>8. CASE StartNode
  BY <1>8 DEF StartNode
<1>9. CASE StartEntry
  BY <1>9 DEF StartEntry
<1>10. CASE ArgumentOrKey
  BY <1>10 DEF ArgumentOrKey
<1>11. CASE TypedArgument
  BY <1>11 DEF TypedArgument
<1>12. CASE Property
  BY <1>12 DEF Property
<1>13. CASE TypeName /\ peekToken \in StringTokens
  BY <1>13 DEF TypeName
<1>14. CASE TypeClose /\ peekToken = "CloseParen"
  BY <1>14 DEF TypeClose
<1> QED
  BY <1>1, <1>2, <1>3, <1>4, <1>5, <1>6, <1>7, <1>8, <1>9, <1>10, <1>11, <1>12, <1>13, <1>14 DEF Inside

\* The token a step leaves behind for the next inner event is no skipped one,
\* unless the skip goes on or the reader stops.
LEMMA LeavingPeeked ==
  ASSUME TypeOK, Control, Peeked, Leaving
  PROVE  Peeked'
<1> USE DEF Advance, Keep, lexVars, SkippedTokens
<1>1. at' = "inner" /\ ~sd'
  BY LeavingShape DEF LeaveInner
<1>2. Fail => call' = "idle" /\ out' = "Err"
  BY DEF Fail, Return
<1>3. SUFFICES ASSUME peekToken' \in SkippedTokens, ~Fail
               PROVE  Skip' \/ state' = "Done"
  BY <1>1, <1>2 DEF Peeked, BlankPoints
<1>4. CASE LexError
  BY <1>3, <1>4 DEF LexError
<1>5. CASE InnerDone
  BY <1>5 DEF InnerDone
<1>6. CASE EndOfInput
  BY <1>3, <1>6 DEF EndOfInput
<1>7. CASE Terminator
  BY <1>3, <1>7 DEF Terminator, Terminators
<1>8. CASE StringArgument
  <2>1. at = "key" /\ peekToken' = peekToken /\ Deliver(EntryEvent(text))
    BY <1>8 DEF StringArgument, At
  <2>2. state = "NodeEntries" /\ call # "idle"
    BY <2>1 DEF Control, ValuePoints
  <2>3. Skip
    BY <1>3, <2>1, <2>2 DEF Peeked
  <2>4. EntryEvent(text) \notin {"Done", Opener, Closer}
    BY DEF EntryEvent, Opener, Closer
  <2>5. skipping' = skipping
    BY <2>1, <2>3, <2>4 DEF Deliver, SkipBracketed, Continue
  <2> QED
    BY <2>3, <2>5 DEF Skip
<1>9. CASE CloseBlock \/ NodeName \/ OpenBlock \/ Argument \/ EntryValue
  BY <1>3, <1>9 DEF CloseBlock, NodeName, OpenBlock, Argument, EntryValue
<1>10. CASE BadEntry
  BY <1>3, <1>10 DEF BadEntry
<1>11. CASE TypeName \/ TypeClose
  BY <1>3, <1>11 DEF TypeName, TypeClose
<1> QED
  BY <1>4, <1>5, <1>6, <1>7, <1>8, <1>9, <1>10, <1>11 DEF Leaving

\* Every step of the program keeps what peek_token says of its skip mode.
LEMMA NextPeeked ==
  ASSUME IInv, Peeked, [StreamNext]_vars, ~ResumeAfterError
  PROVE  Peeked'
<1>1. CASE Call
  <2>1. /\ MayCall /\ UNCHANGED <<state, peekToken, at, sd, out>>
        /\ skipping' = skipping \/ skipping' = "node"
    BY <1>1 DEF Call, CallNext, CallSkipToEnd, lexVars, localVars
  <2>2. at = "inner" /\ ~sd /\ skipping = "no"
    BY <2>1 DEF IInv, Control, MayCall
  <2>3. out = "Err" => state = "Done"
    BY <2>1 DEF MayCall
  <2> QED
    BY <2>1, <2>2, <2>3 DEF Peeked, BlankPoints, Skip
<1>2. CASE ReadStep
  BY <1>2, StepSides, InsidePeeked, LeavingPeeked DEF ReadStep, IInv
<1>3. CASE UNCHANGED vars
  BY <1>3 DEF vars, readerVars, lexVars, callVars, localVars, Peeked, Skip
<1> QED
  BY <1>1, <1>2, <1>3 DEF StreamNext

\* At the point that uses it, the token is of the mode the point wants.
LEMMA PeekedFits ==
  ASSUME TypeOK, Control, Peeked
  PROVE  LookaheadFits
<1>1. at \in {"name", "typeName", "entry", "value"} => call # "idle" /\ state # "Done"
  BY DEF Control, BlockPoints, TypePoints, NodePoints, ValuePoints, NodeStates, InBlock
<1>2. at \in {"name", "typeName", "entry", "value"} /\ ~Skip /\ ~sd
        => peekToken \notin SkippedTokens
  BY <1>1 DEF Peeked
<1>3. at = "name" /\ (Skip \/ sd) => peekToken # "String"
  BY <1>1 DEF Peeked, Control, BlockPoints, TextTokens
<1>4. at \in {"entry", "value"} /\ ~Skip /\ sd => peekToken \notin TextTokens
  BY DEF Peeked
<1> QED
  BY <1>2, <1>3, <1>4 DEF LookaheadFits

-----------------------------------------------------------------------------
(* The theorems.                                                           *)

\* The inductive invariant holds of a new reader and a new validator.
LEMMA InitInvariant == StreamInit => IInv
<1> SUFFICES ASSUME StreamInit PROVE IInv
  OBVIOUS
<1> USE DEF StreamInit, ReaderInit, V!Init
<1>1. TypeOK
  <2>1. /\ state \in States /\ brackets \in Seq(BOOLEAN)
        /\ peekToken \in Tokens \union {"none"}
    BY DEF States
  <2>2. at \in Points /\ V!TypeOK
    BY DEF Points, V!TypeOK, V!Results
  <2> QED
    BY <2>1, <2>2 DEF TypeOK
<1>2. Control
  BY DEF Control, InBlock, NodeStates, NodePoints, BlockPoints, ValuePoints, TypePoints,
         BlankPoints
<1>3. Linked
  BY DEF Linked, Depth, InNode, PlainBelow
<1>4. Stopped /\ ValidStream /\ NoPanic
  BY DEF Stopped, ValidStream, NoPanic
<1> QED
  BY <1>1, <1>2, <1>3, <1>4 DEF IInv

\* Every step keeps the inductive invariant.
LEMMA NextInvariant ==
  ASSUME IInv, [StreamNext]_vars, ~SlashDashAfterChildren, ~ResumeAfterError
  PROVE  IInv'
<1>1. CASE Call
  <2>1. TypeOK'
    BY <1>1, ValidatorTypes
    DEF Call, CallNext, CallSkipToEnd, IInv, TypeOK, lexVars, localVars
  <2>2. Control'
    <3>1. Control /\ MayCall /\ call' \in {"next", "skip_to_end"}
      BY <1>1 DEF Call, CallNext, CallSkipToEnd, IInv
    <3>2. /\ state' = state /\ brackets' = brackets /\ peekToken' = peekToken
          /\ at' = at /\ sd' = sd /\ out' = out
      BY <1>1 DEF Call, CallNext, CallSkipToEnd, lexVars, localVars
    <3>3. call' = "skip_to_end" => skipping' = "node"
      BY <1>1 DEF Call, CallNext, CallSkipToEnd
    <3>4. at = "inner" /\ call = "idle" /\ ~sd
      BY <3>1 DEF Control, MayCall
    <3> QED
      BY <3>1, <3>2, <3>3, <3>4
      DEF Control, MayCall, InBlock, BlockPoints, NodePoints, ValuePoints, TypePoints,
          BlankPoints
  <2> QED
    BY <1>1, <2>1, <2>2, CallLinked DEF IInv
<1>2. CASE ReadStep
  <2>1. TypeOK /\ Control /\ Step /\ (Inside \/ Leaving)
    BY <1>2, StepSides DEF IInv, ReadStep
  <2>2. at' \in Points /\ sd' \in BOOLEAN /\ spaces' \in BOOLEAN /\ text' \in BOOLEAN
    <3>1. Leaving => at' = "inner" /\ sd' = FALSE /\ spaces' = FALSE /\ text' = FALSE
      BY LeavingShape DEF LeaveInner
    <3> QED
      BY <2>1, <3>1, InsidePoints DEF Points
  <2>3. TypeOK'
    BY <1>2, <2>1, <2>2, CallerTypes, TokenTypes, ValidatorTypes DEF TypeOK
  <2>4. Control'
    BY <2>1, InsideControl, LeavingControl
  <2> QED
    BY <1>2, <2>3, <2>4, ReadStepLinked DEF IInv
<1>3. CASE UNCHANGED vars
  BY <1>3
  DEF IInv, vars, readerVars, lexVars, callVars, localVars, validatorVars,
      TypeOK, V!TypeOK, Control, InBlock, Skip, Linked, Depth, InNode, Stopped,
      ValidStream, NoPanic
<1> QED
  BY <1>1, <1>2, <1>3 DEF StreamNext

\* For every depth of the document, the inductive invariant always holds.
THEOREM Invariance ==
  ASSUME ~SlashDashAfterChildren, ~ResumeAfterError
  PROVE  Spec => []IInv
<1>1. IInv /\ [StreamNext]_vars => IInv'
  BY NextInvariant
<1> QED
  BY <1>1, InitInvariant, PTL DEF Spec

\* For every depth of the document: the program only ever sees well-typed states.
THEOREM TypeCorrect ==
  ASSUME ~SlashDashAfterChildren, ~ResumeAfterError
  PROVE  Spec => []TypeOK
<1>1. IInv => TypeOK
  BY DEF IInv
<1> QED
  BY <1>1, Invariance, PTL

\* For every depth: Validator::push accepts every event that next() returns,
\* skip_to_end() counted as one End, and Validator::done() the end of them.
THEOREM StreamIsValid ==
  ASSUME ~SlashDashAfterChildren, ~ResumeAfterError
  PROVE  Spec => []ValidStream
<1>1. IInv => ValidStream
  BY DEF IInv
<1> QED
  BY <1>1, Invariance, PTL

\* For every depth: unreachable!("bad stream") is unreachable.
THEOREM NeverPanics ==
  ASSUME ~SlashDashAfterChildren, ~ResumeAfterError
  PROVE  Spec => []NoPanic
<1>1. IInv => NoPanic
  BY DEF IInv
<1> QED
  BY <1>1, Invariance, PTL

\* For every depth: a skip ends exactly at the node or block it began in, so
\* that between calls reader and validator agree on the depth.
THEOREM SkipsAreExact ==
  ASSUME ~SlashDashAfterChildren, ~ResumeAfterError
  PROVE  Spec => []DepthAgrees
<1>1. IInv => DepthAgrees
  BY DEF IInv, Control, Linked, DepthAgrees
<1> QED
  BY <1>1, Invariance, PTL

\* For every depth of the document: text that the program will see was never
\* skipped by the lexer, and what is commented out was.
THEOREM LookaheadIsRight ==
  ASSUME ~SlashDashAfterChildren, ~ResumeAfterError
  PROVE  Spec => []LookaheadFits
<1>1. StreamInit => Peeked
  BY DEF StreamInit, ReaderInit, Peeked, BlankPoints, SkippedTokens
<1>2. IInv /\ Peeked /\ [StreamNext]_vars => Peeked'
  BY NextPeeked
<1>3. IInv /\ Peeked => LookaheadFits
  BY PeekedFits DEF IInv
<1> QED
  BY <1>1, <1>2, <1>3, Invariance, PTL DEF Spec

=============================================================================

-------------------------------- MODULE Dom --------------------------------
(***************************************************************************)
(* Document -> events -> Document: dom::iter::GenericIter takes a document *)
(* apart into events, one per call of next(), and DocumentBuilder puts     *)
(* them together again (Document::from_iter).  A Validator looks at every  *)
(* event on its way.                                                       *)
(*                                                                         *)
(* A node is a record of its name (with its type hint), its entries, and   *)
(* its children: <<>> for None, <<nodes>> for Some(Document { nodes }).    *)
(***************************************************************************)
EXTENDS Naturals, Sequences

CONSTANTS
  Names, Entries,  \* names with type hints; whole entries
  Nodes,           \* nodes that documents are built of, nested ones included
  Documents        \* the documents that are tried

Partial == [name : Names, entries : Seq(Entries), children : Seq(Seq(Nodes))]

ASSUME DomAssumption ==
  /\ \A node \in Nodes : node \in Partial /\ Len(node.children) <= 1
  /\ \A document \in Documents : document \in Seq(Nodes)

VARIABLES
  doc,        \* the document that is taken apart
  iterStack,  \* GenericIter::stack, the nodes left in every open block
  top,        \* GenericIter::top, <<>> for None
  stack,      \* DocumentBuilder::stack, the nodes not yet ended
  nodes,      \* the finished top-level nodes
  outcome,    \* "Building", "Built", or "Panic" from an unwrap
  path,       \* history: the nodes of doc that stack is being rebuilt from
  nest, vstate, result  \* the Validator

iterVars      == <<iterStack, top>>
builderVars   == <<stack, nodes, outcome>>
validatorVars == <<nest, vstate, result>>
vars == <<doc, iterVars, builderVars, path, validatorVars>>

V == INSTANCE Validator WITH MaxNest <- 0

Last(s)  == s[Len(s)]
Front(s) == SubSeq(s, 1, Len(s) - 1)

-----------------------------------------------------------------------------
(* DocumentBuilder::push, one operator for every kind of event.            *)

\* The builder is dropped with the panic; what it held then is of no account.
Unwrap(none) == none /\ outcome' = "Panic" /\ UNCHANGED <<stack, nodes>>

NewNode(name, entries, children) ==
  [name |-> name, entries |-> entries, children |-> children]

BuildNode(name) ==
  /\ stack' = Append(stack, NewNode(name, <<>>, <<>>))
  /\ UNCHANGED <<nodes, outcome>>

\* Mutant: the entry goes in front of the others.
BuildEntryFront(entry) ==
  \/ Unwrap(stack = <<>>)
  \/ /\ stack # <<>>
     /\ stack' = [stack EXCEPT ![Len(stack)] =
                    NewNode(@.name, <<entry>> \o @.entries, @.children)]
     /\ UNCHANGED <<nodes, outcome>>

BuildEntry(entry) ==
  \/ Unwrap(stack = <<>>)
  \/ /\ stack # <<>>
     /\ stack' = [stack EXCEPT ![Len(stack)] =
                    NewNode(@.name, Append(@.entries, entry), @.children)]
     /\ UNCHANGED <<nodes, outcome>>

\* Mutant: the block is left to be made by its first node.
BuildChildrenLazily ==
  \/ Unwrap(stack = <<>>)
  \/ stack # <<>> /\ UNCHANGED builderVars

BuildChildren ==
  \/ Unwrap(stack = <<>>)
  \/ /\ stack # <<>>
     /\ stack' = [stack EXCEPT ![Len(stack)] = NewNode(@.name, @.entries, << <<>> >>)]
     /\ UNCHANGED <<nodes, outcome>>

\* Mutant: a node that ends always goes to the top level.
BuildEndTop ==
  \/ Unwrap(stack = <<>>)
  \/ /\ stack # <<>>
     /\ stack' = Front(stack)
     /\ nodes' = Append(nodes, Last(stack))
     /\ UNCHANGED outcome

BuildEnd ==
  \/ Unwrap(stack = <<>> \/ (Len(stack) > 1 /\ Last(Front(stack)).children = <<>>))
  \/ /\ Len(stack) = 1
     /\ stack' = <<>>
     /\ nodes' = Append(nodes, Last(stack))
     /\ UNCHANGED outcome
  \/ /\ Len(stack) > 1
     /\ Last(Front(stack)).children # <<>>
     /\ stack' = [Front(stack) EXCEPT ![Len(stack) - 1] =
                    NewNode(@.name, @.entries, <<Append(@.children[1], Last(stack))>>)]
     /\ UNCHANGED <<nodes, outcome>>

-----------------------------------------------------------------------------
(* GenericIter::next, one action for every way it returns.                 *)

NextEntry ==
  /\ top # <<>> /\ top[1].entries # <<>>
  /\ top' = <<[entries |-> Tail(top[1].entries), children |-> top[1].children]>>
  /\ BuildEntry(Head(top[1].entries))
  /\ V!Push("Entry")
  /\ UNCHANGED <<iterStack, path>>

NextChildren ==
  /\ top # <<>> /\ top[1].entries = <<>> /\ top[1].children # <<>>
  /\ iterStack' = Append(iterStack, top[1].children[1])
  /\ top' = <<>>
  /\ BuildChildren
  /\ V!Push("Children")
  /\ UNCHANGED path

EndNode ==
  /\ top # <<>> /\ top[1].entries = <<>> /\ top[1].children = <<>>
  /\ top' = <<>>
  /\ BuildEnd
  /\ V!Push("End")
  /\ path' = Front(path)
  /\ UNCHANGED iterStack

NextNode ==
  /\ top = <<>> /\ iterStack # <<>> /\ Last(iterStack) # <<>>
  /\ LET node == Head(Last(iterStack)) IN
       /\ iterStack' = [iterStack EXCEPT ![Len(iterStack)] = Tail(@)]
       /\ top' = <<[entries |-> node.entries, children |-> node.children]>>
       /\ BuildNode(node.name)
       /\ V!Push("Node")
       /\ path' = Append(path, node)

\* Mutant: the outermost block gets an End as well.
EndBlockOuter ==
  /\ top = <<>> /\ iterStack # <<>> /\ Last(iterStack) = <<>>
  /\ iterStack' = Front(iterStack)
  /\ BuildEnd
  /\ V!Push("End")
  /\ path' = Front(path)
  /\ UNCHANGED top

EndBlock ==
  /\ top = <<>> /\ Len(iterStack) > 1 /\ Last(iterStack) = <<>>
  /\ iterStack' = Front(iterStack)
  /\ BuildEnd
  /\ V!Push("End")
  /\ path' = Front(path)
  /\ UNCHANGED top

\* The outermost block needs no End: the iterator, and from_iter, are done.
EndDocument ==
  /\ top = <<>> /\ Len(iterStack) = 1 /\ Last(iterStack) = <<>>
  /\ iterStack' = <<>>
  /\ outcome' = "Built"
  /\ V!Done
  /\ UNCHANGED <<top, stack, nodes, path>>

Init ==
  /\ doc \in Documents
  /\ iterStack = <<doc>> /\ top = <<>>
  /\ stack = <<>> /\ nodes = <<>> /\ outcome = "Building"
  /\ path = <<>>
  /\ V!Init

Step ==
  NextEntry \/ NextChildren \/ EndNode \/ NextNode \/ EndBlock \/ EndDocument

Next ==
  /\ outcome = "Building"
  /\ Step
  /\ UNCHANGED doc

Spec == Init /\ [][Next]_vars
FairSpec == Spec /\ WF_vars(Next)  \* from_iter loops until the iterator is done

-----------------------------------------------------------------------------

\* Iterator and builder hold nodes, entries and blocks of the right kinds.
TypeOK ==
  /\ doc \in Documents
  /\ iterStack \in Seq(Seq(Nodes))
  /\ top \in Seq([entries : Seq(Entries), children : Seq(Seq(Nodes))]) /\ Len(top) <= 1
  /\ stack \in Seq(Partial)
  /\ nodes \in Seq(Nodes)
  /\ outcome \in {"Building", "Built", "Panic"}
  /\ path \in Seq(Nodes)
  /\ V!TypeOK

\* What the iterator says is a structurally valid stream, and it is one the
\* builder can take: none of its unwraps panics.
ValidEvents == result = "Ok" /\ outcome # "Panic"

\* Document -> events -> Document gives the document back, empty blocks, the
\* order of the entries and the nesting included.
RoundTrip == outcome = "Built" => nodes = doc /\ stack = <<>>

\* Block i of the document: the top level, or the block of the i-1st open node;
\* what the builder has of it; and what is neither built nor to come, if any.
Original(i) == IF i = 1 THEN doc ELSE path[i - 1].children[1]
Built(i)    == IF i = 1 THEN nodes ELSE stack[i - 1].children[1]
Open(i)     == IF i <= Len(path) THEN <<path[i]>> ELSE <<>>

\* In every open block, the nodes that are built, the one that is open and the
\* ones to come make up the original block: no event is lost or repeated, and
\* none lands in the wrong node.
Conserved ==
  /\ Len(stack) = Len(path)
  /\ \A i \in 1..Len(iterStack) : Original(i) = Built(i) \o Open(i) \o iterStack[i]

\* The open nodes, seen from both sides: the iterator is inside the entries of
\* the innermost one (top) or inside its block, all others are inside theirs.
Linked ==
  /\ Len(iterStack) = (IF outcome # "Building" THEN 0
                       ELSE IF top = <<>> THEN Len(path) + 1 ELSE Len(path))
  /\ outcome # "Building" => top = <<>> /\ path = <<>>
  /\ \A i \in 1..Len(path) :
       /\ stack[i].name = path[i].name
       /\ i < Len(iterStack) =>
            /\ stack[i].entries = path[i].entries
            /\ Len(stack[i].children) = 1 /\ Len(path[i].children) = 1
  /\ top # <<>> =>
       /\ path # <<>>
       /\ Last(stack).entries \o top[1].entries = Last(path).entries
       /\ Last(stack).children = <<>>
       /\ top[1].children = Last(path).children

\* The validator counts the open nodes.
Counted ==
  outcome = "Building" =>
    nest = Len(path) /\ vstate = IF top = <<>> THEN "Block" ELSE "Node"

IInv == TypeOK /\ ValidEvents /\ RoundTrip /\ Conserved /\ Linked /\ Counted

\* Every document is taken apart completely.
Finishes == <>(outcome = "Built")

=============================================================================

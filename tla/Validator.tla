----------------------------- MODULE Validator -----------------------------
(***************************************************************************)
(* validator::Validator of just-kdl: it follows an event stream with a     *)
(* nesting counter and a two-valued state, without a stack.                *)
(***************************************************************************)
EXTENDS Naturals, Sequences

CONSTANT MaxNest  \* bound on the nesting of the streams that are offered
ASSUME MaxNestAssumption == MaxNest \in Nat

VARIABLES
  nest,    \* Validator::nest
  vstate,  \* Validator::state, "Consumed" after done() took the value
  result   \* what the last call returned

validatorVars == <<nest, vstate, result>>

Events  == {"Node", "Entry", "Children", "End"}
Results == {"Ok", "TooManyEnd", "Unclosed", "Expected"}

Init ==
  /\ nest = 0
  /\ vstate = "Block"
  /\ result = "Ok"

Move(nestNext, stateNext) ==
  /\ nest' = nestNext
  /\ vstate' = stateNext
  /\ result' = "Ok"

\* An error leaves push before self.state is assigned.
Err(error) ==
  /\ result' = error
  /\ UNCHANGED <<nest, vstate>>

\* Mutants: End subtracts without a check; End of a node stays in the node.
PushEndUnchecked == Move(nest - 1, "Block")
PushEndInNode ==
  \/ nest > 0 /\ Move(nest - 1, vstate)
  \/ nest = 0 /\ Err("TooManyEnd")

PushEnd ==
  \/ nest > 0 /\ Move(nest - 1, "Block")
  \/ nest = 0 /\ Err("TooManyEnd")

PushEntry ==
  \/ vstate = "Node"  /\ Move(nest, "Node")
  \/ vstate = "Block" /\ Err("Expected")

PushChildren ==
  \/ vstate = "Node"  /\ Move(nest, "Block")
  \/ vstate = "Block" /\ Err("Expected")

PushNode ==
  \/ vstate = "Block" /\ Move(nest + 1, "Node")
  \/ vstate = "Node"  /\ Err("Expected")

Push(event) ==
  /\ vstate # "Consumed"
  /\ \/ event = "End"      /\ PushEnd
     \/ event = "Entry"    /\ PushEntry
     \/ event = "Children" /\ PushChildren
     \/ event = "Node"     /\ PushNode

Done ==
  /\ vstate # "Consumed"
  /\ result' = IF nest > 0 THEN "Unclosed" ELSE "Ok"
  /\ vstate' = "Consumed"
  /\ UNCHANGED nest

\* Any event may be offered: the validator exists for untrusted streams.
Next ==
  \/ \E event \in Events : (event = "Node" => nest < MaxNest) /\ Push(event)
  \/ Done

Spec == Init /\ [][Next]_validatorVars

-----------------------------------------------------------------------------

\* The fields of Validator have their types, and a node that takes entries is
\* counted: the subtraction in push(End) never goes below zero.
TypeOK ==
  /\ nest \in Nat
  /\ vstate \in {"Block", "Node", "Consumed"}
  /\ result \in Results
  /\ vstate = "Node" => nest > 0

\* Only the innermost open node can still take entries, so that two words of
\* state stand for the whole stack of open nodes.
OpenNodes ==
  [i \in 1..nest |-> IF i = nest /\ vstate = "Node" THEN "entries" ELSE "block"]

Over == vstate = "Consumed"

Stream == INSTANCE EventStream WITH
  open <- IF Over THEN <<>> ELSE OpenNodes, accepted <- result = "Ok", over <- Over

\* push() accepts exactly the events that are legal in an event stream and
\* refuses the others without moving; done() accepts exactly the closed streams.
IsStreamGrammar == Stream!Spec

=============================================================================

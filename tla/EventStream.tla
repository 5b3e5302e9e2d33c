---------------------------- MODULE EventStream ----------------------------
(***************************************************************************)
(* What just-kdl promises about a stream of dom::Event values: the shape   *)
(* that dom.rs documents for Event (a Node is terminated by a matching     *)
(* End, an Entry belongs to the Node, Children opens the Node's block) and *)
(* that validator.rs calls "structurally valid".                           *)
(*                                                                         *)
(* The specification keeps one item for every open node: "entries" while   *)
(* the node may still receive entries, "block" once its children block is  *)
(* open.  A consumer offers events one at a time; a legal event changes    *)
(* the open nodes, an illegal one is refused and changes nothing.          *)
(***************************************************************************)
EXTENDS Naturals, Sequences

VARIABLES
  open,      \* the open nodes, outermost first
  accepted,  \* TRUE iff the last event (or the end of the stream) was legal
  over       \* the stream has ended

streamVars == <<open, accepted, over>>

Events == {"Node", "Entry", "Children", "End"}

InEntries == open # <<>> /\ open[Len(open)] = "entries"

Legal(event) ==
  CASE event = "Node"                  -> ~InEntries
    [] event \in {"Entry", "Children"} -> InEntries
    [] event = "End"                   -> open # <<>>

Init ==
  /\ open = <<>>
  /\ accepted = TRUE
  /\ over = FALSE

Accept(event) ==
  /\ Legal(event)
  /\ accepted' = TRUE
  /\ UNCHANGED over
  /\ open' = CASE event = "Node"     -> Append(open, "entries")
               [] event = "Entry"    -> open
               [] event = "Children" -> [open EXCEPT ![Len(open)] = "block"]
               [] event = "End"      -> SubSeq(open, 1, Len(open) - 1)

Refuse(event) ==
  /\ ~Legal(event)
  /\ accepted' = FALSE
  /\ UNCHANGED <<open, over>>

\* The end of the stream is legal exactly when every node is closed.
Finish ==
  /\ accepted' = (open = <<>>)
  /\ over' = TRUE
  /\ open' = <<>>

Next ==
  /\ ~over
  /\ (\E event \in Events : Accept(event) \/ Refuse(event)) \/ Finish

Spec == Init /\ [][Next]_streamVars

=============================================================================

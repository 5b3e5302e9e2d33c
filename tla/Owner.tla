------------------------------- MODULE Owner -------------------------------
(***************************************************************************)
(* What a box promises of the values it is given: each has one owner at a  *)
(* time, a handle or the program, and is dropped once, by its owner.       *)
(***************************************************************************)
CONSTANTS Handles, Values, Nothing

VARIABLES
  held,     \* the value of each handle, or Nothing
  outside,  \* the values the program has itself
  dropped

vars == <<held, outside, dropped>>

Put(h, v) ==
  /\ held[h] = Nothing /\ v \in outside
  /\ held' = [held EXCEPT ![h] = v]
  /\ outside' = outside \ {v}
  /\ UNCHANGED dropped

Take(h) ==
  /\ held[h] # Nothing
  /\ held' = [held EXCEPT ![h] = Nothing]
  /\ outside' = outside \union {held[h]}
  /\ UNCHANGED dropped

Exchange(h, v) ==
  /\ held[h] # Nothing /\ v \in outside
  /\ held' = [held EXCEPT ![h] = v]
  /\ outside' = (outside \ {v}) \union {held[h]}
  /\ UNCHANGED dropped

Drop(h) ==
  /\ held[h] # Nothing
  /\ held' = [held EXCEPT ![h] = Nothing]
  /\ dropped' = dropped \union {held[h]}
  /\ UNCHANGED outside

Init == held = [h \in Handles |-> Nothing] /\ outside = Values /\ dropped = {}

Next ==
  \E h \in Handles :
    \/ Take(h) \/ Drop(h)
    \/ \E v \in Values : Put(h, v) \/ Exchange(h, v)

Spec == Init /\ [][Next]_vars

-----------------------------------------------------------------------------

\* No two handles hold a value, and no handle one that the program has or that
\* is gone.
OneOwner ==
  /\ \A h, g \in Handles : held[h] = held[g] /\ held[h] # Nothing => h = g
  /\ \A h \in Handles : held[h] \notin outside \union dropped
  /\ outside \intersect dropped = {}
=============================================================================

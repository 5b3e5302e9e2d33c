-------------------------------- MODULE Miny --------------------------------
(***************************************************************************)
(* The miny crate: Miny<T> is a Box<T> that keeps a small value in place   *)
(* of the pointer.  Which of the two it is is not stored but computed from *)
(* the layout of the value, again at every use, and the unsafe code that   *)
(* turns a Miny or a Box into another moves ownership by hand (ptr::read,  *)
(* mem::forget, Box::from_raw, dealloc).                                   *)
(*                                                                         *)
(* A handle is a Miny or a Box of the program.  A block of the allocator   *)
(* has the layout that it was allocated with.  A pointer to a value of no  *)
(* size points to no block; Rust still asks that it is aligned.            *)
(***************************************************************************)
EXTENDS Naturals

CONSTANTS
  Handles, Values, Nothing, Addresses,
  LayoutOf,       \* size and alignment of a value's type
  Word,           \* size and alignment of a pointer
  MisalignedBox   \* into_box() may be given a value of no size aligned to more
                  \* than a byte

Layouts == [size : Nat, align : Nat \ {0}]

ASSUME MinyAssumption ==
  /\ Nothing \notin Values
  /\ LayoutOf \in [Values -> Layouts]
  /\ Word \in Nat \ {0}
  /\ MisalignedBox \in BOOLEAN

VARIABLES
  kind,     \* of each handle: "None", "Miny" or "Box"
  sized,    \* its type is that of the value, not a slice or a trait object
  layout,   \* what Layout::new, for_value or for_value_raw say of its type
  data,     \* Miny's data, or Box's pointer
  heap,     \* what is at each address
  outside,  \* the values the program has itself
  dropped   \* those whose destructor has run

vars == <<kind, sized, layout, data, heap, outside, dropped>>

NoData == [at |-> "None"]
Inline(v) == [at |-> "Inline", value |-> v]
Pointer(a) == [at |-> "Heap", addr |-> a]
Dangling(align, v) == [at |-> "Dangling", align |-> align, value |-> v]

Free == [used |-> FALSE]
Block(l, v) == [used |-> TRUE, layout |-> l, value |-> v]

NoLayout == [size |-> 0, align |-> 1]

GoesOnStack(l) == l.size <= Word /\ l.align <= Word

OnStack(h) == kind[h] = "Miny" /\ GoesOnStack(layout[h])

\* What a handle dereferences to.
Deref(h) ==
  IF kind[h] = "None" THEN Nothing
  ELSE IF OnStack(h) THEN IF data[h].at = "Inline" THEN data[h].value ELSE Nothing
  ELSE IF data[h].at = "Dangling" THEN data[h].value
  ELSE IF data[h].at = "Heap" /\ heap[data[h].addr].used
       THEN heap[data[h].addr].value
  ELSE Nothing

-----------------------------------------------------------------------------

\* Box::new() of a value: one of no size is not allocated.
Boxed(h, l, v) ==
  IF l.size = 0
  THEN data' = [data EXCEPT ![h] = Dangling(l.align, v)] /\ UNCHANGED heap
  ELSE \E a \in Addresses :
         /\ heap[a] = Free
         /\ heap' = [heap EXCEPT ![a] = Block(l, v)]
         /\ data' = [data EXCEPT ![h] = Pointer(a)]

\* A Box that goes gives its block back.
Freed(h) ==
  heap' = IF data[h].at = "Heap" THEN [heap EXCEPT ![data[h].addr] = Free] ELSE heap

Gone(h) ==
  /\ kind' = [kind EXCEPT ![h] = "None"]
  /\ sized' = [sized EXCEPT ![h] = FALSE]
  /\ layout' = [layout EXCEPT ![h] = NoLayout]
  /\ data' = [data EXCEPT ![h] = NoData]

Made(h, k, v) ==
  /\ kind[h] = "None" /\ v \in outside
  /\ kind' = [kind EXCEPT ![h] = k]
  /\ layout' = [layout EXCEPT ![h] = LayoutOf[v]]
  /\ outside' = outside \ {v}
  /\ UNCHANGED dropped

\* Also clone() and default(), which make the value first.
New(h, v) ==
  /\ Made(h, "Miny", v)
  /\ sized' = [sized EXCEPT ![h] = TRUE]
  /\ IF GoesOnStack(LayoutOf[v])
     THEN data' = [data EXCEPT ![h] = Inline(v)] /\ UNCHANGED heap
     ELSE Boxed(h, LayoutOf[v], v)

\* The program makes a Box, and may turn it into one of a slice or trait object.
BoxNew(h, v) ==
  /\ Made(h, "Box", v)
  /\ \E s \in BOOLEAN : sized' = [sized EXCEPT ![h] = s]
  /\ Boxed(h, LayoutOf[v], v)

\* Mutant: the Miny that was sized is not forgotten.
UnsizeDrops(h) ==
  /\ kind[h] = "Miny" /\ sized[h]
  /\ sized' = [sized EXCEPT ![h] = FALSE]
  /\ dropped' = dropped \union {Deref(h)}
  /\ Freed(h)
  /\ UNCHANGED <<kind, layout, data, outside>>

\* The metadata of the new type gives the same layout.
Unsize(h) ==
  /\ kind[h] = "Miny" /\ sized[h]
  /\ sized' = [sized EXCEPT ![h] = FALSE]
  /\ UNCHANGED <<kind, layout, data, heap, outside, dropped>>

\* The value is read out and its Miny forgotten, or moved out of a Box.
TakeOut(h) ==
  /\ outside' = outside \union {Deref(h)}
  /\ Freed(h)
  /\ Gone(h)
  /\ UNCHANGED dropped

IntoInner(h) == kind[h] = "Miny" /\ sized[h] /\ TakeOut(h)

\* downcast() to the type of the value, after which it is as if it was sized; to
\* any other type it gives the Miny back.
Downcast(h) == kind[h] = "Miny" /\ ~sized[h] /\ TakeOut(h)

\* A value from the stack is copied to a block of its layout, or to a dangling
\* pointer that is aligned for a byte.
IntoBox(h) ==
  /\ kind[h] = "Miny"
  /\ layout[h].size = 0 /\ GoesOnStack(layout[h]) /\ layout[h].align > 1 => MisalignedBox
  /\ kind' = [kind EXCEPT ![h] = "Box"]
  /\ IF GoesOnStack(layout[h])
     THEN IF layout[h].size = 0
          THEN data' = [data EXCEPT ![h] = Dangling(1, Deref(h))] /\ UNCHANGED heap
          ELSE Boxed(h, layout[h], Deref(h))
     ELSE UNCHANGED <<data, heap>>
  /\ UNCHANGED <<sized, layout, outside, dropped>>

\* Mutant: the block of a value that is now on the stack is not given back.
FromBoxLeaks(h) ==
  /\ kind[h] = "Box"
  /\ kind' = [kind EXCEPT ![h] = "Miny"]
  /\ data' = IF GoesOnStack(layout[h]) THEN [data EXCEPT ![h] = Inline(Deref(h))] ELSE data
  /\ UNCHANGED <<heap, sized, layout, outside, dropped>>

\* From<Box>: a small value is copied and its block, if it has one, given back.
FromBox(h) ==
  /\ kind[h] = "Box"
  /\ kind' = [kind EXCEPT ![h] = "Miny"]
  /\ IF GoesOnStack(layout[h])
     THEN data' = [data EXCEPT ![h] = Inline(Deref(h))] /\ Freed(h)
     ELSE UNCHANGED <<data, heap>>
  /\ UNCHANGED <<sized, layout, outside, dropped>>

\* The program exchanges the value through DerefMut.
Replace(h, v) ==
  /\ kind[h] = "Miny" /\ sized[h] /\ v \in outside /\ LayoutOf[v] = layout[h]
  /\ IF data[h].at = "Heap"
     THEN /\ heap' = [heap EXCEPT ![data[h].addr] = Block(@.layout, v)]
          /\ UNCHANGED data
     ELSE /\ data' = [data EXCEPT ![h] =
                       IF OnStack(h) THEN Inline(v) ELSE Dangling(@.align, v)]
          /\ UNCHANGED heap
  /\ outside' = (outside \ {v}) \union {Deref(h)}
  /\ UNCHANGED <<kind, sized, layout, dropped>>

\* drop() of a Miny or of a Box.
Drop(h) ==
  /\ kind[h] # "None"
  /\ dropped' = dropped \union {Deref(h)}
  /\ Freed(h)
  /\ Gone(h)
  /\ UNCHANGED outside

Init ==
  /\ kind = [h \in Handles |-> "None"] /\ sized = [h \in Handles |-> FALSE]
  /\ layout = [h \in Handles |-> NoLayout] /\ data = [h \in Handles |-> NoData]
  /\ heap = [a \in Addresses |-> Free]
  /\ outside = Values /\ dropped = {}

Next ==
  \E h \in Handles :
    \/ Unsize(h) \/ IntoInner(h) \/ Downcast(h)
    \/ IntoBox(h) \/ FromBox(h) \/ Drop(h)
    \/ \E v \in Values : New(h, v) \/ BoxNew(h, v) \/ Replace(h, v)

Spec == Init /\ [][Next]_vars

-----------------------------------------------------------------------------

Owned == INSTANCE Owner WITH held <- [h \in Handles |-> Deref(h)]

\* However it is stored and converted, a Miny is a box: it gives the value that
\* it was given, to one taker, and drops it once.
Owns == Owned!Spec

\* A pointer is one that Box may own: to a block of the very layout that it will
\* be given back with, or dangling, for a value of no size, and aligned.
Points(h) ==
  \/ /\ data[h].at = "Heap" /\ layout[h].size > 0
     /\ heap[data[h].addr].used /\ heap[data[h].addr].layout = layout[h]
  \/ /\ data[h].at = "Dangling" /\ layout[h].size = 0
     /\ data[h].align = layout[h].align

\* Every handle has its value where the layout says it is, and every block has
\* one handle, which will give it back.
Placed(h) ==
  IF kind[h] = "None" THEN data[h] = NoData
  ELSE IF OnStack(h) THEN data[h].at = "Inline"
  ELSE Points(h)

Uses(h, a) == data[h].at = "Heap" /\ data[h].addr = a

HeapExact ==
  /\ \A h \in Handles : Placed(h)
  /\ \A h, g \in Handles, a \in Addresses : Uses(h, a) /\ Uses(g, a) => h = g
  /\ \A a \in Addresses : heap[a].used => \E h \in Handles : Uses(h, a)
=============================================================================

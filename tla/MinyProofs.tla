----------------------------- MODULE MinyProofs -----------------------------
(***************************************************************************)
(* Miny implements Owner, and points at the blocks of the allocator and    *)
(* at nothing else, for any values, layouts and number of handles.  Every  *)
(* operation changes one handle, and the memory in one of four ways        *)
(* (Kept, Allocated, Released, Overwritten); each of these leaves the      *)
(* other handles as they are.                                              *)
(***************************************************************************)
EXTENDS Miny, TLAPS

Data == {NoData} \union {Inline(v) : v \in Values} \union {Pointer(a) : a \in Addresses}
        \union {Dangling(n, v) : n \in Nat, v \in Values}

Cells == {Free} \union {Block(l, v) : l \in Layouts, v \in Values}

\* Handles, blocks and values are of their kinds.
TypeOK ==
  /\ kind \in [Handles -> {"None", "Miny", "Box"}]
  /\ sized \in [Handles -> BOOLEAN]
  /\ layout \in [Handles -> Layouts]
  /\ data \in [Handles -> Data]
  /\ heap \in [Addresses -> Cells]
  /\ outside \subseteq Values /\ dropped \subseteq Values

IInv == TypeOK /\ HeapExact

\* What HeapExact says of the memory, whatever the handles are.
Exact ==
  /\ \A h \in Handles, a \in Addresses : Uses(h, a) => heap[a].used
  /\ \A h, g \in Handles, a \in Addresses : Uses(h, a) /\ Uses(g, a) => h = g
  /\ \A a \in Addresses : heap[a].used => \E h \in Handles : Uses(h, a)

\* What the other handles have is as it was.
Same(g) ==
  /\ kind'[g] = kind[g] /\ layout'[g] = layout[g] /\ data'[g] = data[g]
  /\ data[g].at = "Heap" => heap'[data[g].addr] = heap[data[g].addr]

-----------------------------------------------------------------------------
(* Data, cells and dereferencing.                                          *)

LEMMA DataShape ==
  ASSUME NEW d \in Data
  PROVE  \/ d = NoData
         \/ d.at = "Inline" /\ d.value \in Values /\ d = Inline(d.value)
         \/ d.at = "Heap" /\ d.addr \in Addresses /\ d = Pointer(d.addr)
         \/ d.at = "Dangling" /\ d.value \in Values /\ d.align \in Nat
            /\ d = Dangling(d.align, d.value)
BY DEF Data, NoData, Inline, Pointer, Dangling

LEMMA CellShape ==
  ASSUME NEW c \in Cells
  PROVE  \/ c = Free /\ ~c.used
         \/ c.used /\ c.layout \in Layouts /\ c.value \in Values
            /\ c = Block(c.layout, c.value)
BY DEF Cells, Free, Block

\* A handle that is not free holds a value.
LEMMA Holds ==
  ASSUME TypeOK, NEW h \in Handles, Placed(h), kind[h] # "None"
  PROVE  Deref(h) \in Values /\ Deref(h) # Nothing
<1>1. data[h] \in Data /\ kind[h] \in {"None", "Miny", "Box"}
  BY DEF TypeOK
<1>2. CASE OnStack(h)
  BY <1>1, <1>2, DataShape, MinyAssumption DEF Placed, Deref, NoData
<1>3. CASE ~OnStack(h)
  <2>1. CASE data[h].at = "Heap"
    <3>1. data[h].addr \in Addresses
      BY <1>1, <2>1, DataShape DEF NoData
    <3>2. heap[data[h].addr] \in Cells
      BY <3>1 DEF TypeOK
    <3>3. heap[data[h].addr].used
      BY <1>3, <2>1 DEF Placed, Points
    <3> QED  BY <1>3, <2>1, <3>2, <3>3, CellShape, MinyAssumption DEF Deref
  <2>2. CASE data[h].at = "Dangling"
    BY <1>1, <1>3, <2>2, DataShape, MinyAssumption DEF Deref, NoData
  <2> QED  BY <1>3, <2>1, <2>2 DEF Placed, Points
<1> QED  BY <1>2, <1>3

LEMMA FreeHolds ==
  ASSUME NEW h \in Handles
  PROVE  kind[h] = "None" => Deref(h) = Nothing
BY DEF Deref

LEMMA SameDeref ==
  ASSUME TypeOK, NEW g \in Handles, Placed(g), Same(g)
  PROVE  Placed(g)' /\ Deref(g)' = Deref(g)
<1>1. data[g] \in Data
  BY DEF TypeOK
<1>2. OnStack(g)' <=> OnStack(g)
  BY DEF Same, OnStack, GoesOnStack
<1>3. Placed(g)'
  BY <1>2 DEF Same, Placed, Points
<1>4. Deref(g)' = Deref(g)
  BY <1>2 DEF Same, Deref
<1> QED  BY <1>3, <1>4

-----------------------------------------------------------------------------
(* What an operation on one handle does to the memory.                     *)

\* The memory of the other handles is as it was, and all of it is typed.
Frame(h) ==
  /\ data' \in [Handles -> Data] /\ heap' \in [Addresses -> Cells]
  /\ \A g \in Handles \ {h} :
       /\ data'[g] = data[g]
       /\ data[g].at = "Heap" => heap'[data[g].addr] = heap[data[g].addr]

\* No block is involved.
LEMMA Kept ==
  ASSUME TypeOK, Exact, NEW h \in Handles, data[h].at # "Heap",
         NEW d \in Data, d.at # "Heap",
         data' = [data EXCEPT ![h] = d], heap' = heap
  PROVE  Exact' /\ Frame(h) /\ data'[h] = d
<1>1. data \in [Handles -> Data] /\ heap \in [Addresses -> Cells]
  BY DEF TypeOK
<1>2. Frame(h) /\ data'[h] = d
  BY <1>1 DEF Frame
<1>3. \A g \in Handles, a \in Addresses : Uses(g, a)' <=> Uses(g, a)
  BY <1>1, <1>2 DEF Frame, Uses
<1>4. Exact'
  BY <1>3 DEF Exact
<1> QED  BY <1>2, <1>4

\* A value is boxed for a handle that had no block.
LEMMA Allocated ==
  ASSUME TypeOK, Exact, NEW h \in Handles, data[h].at # "Heap",
         NEW l \in Layouts, NEW v \in Values, Boxed(h, l, v)
  PROVE  /\ Exact' /\ Frame(h)
         /\ \/ l.size = 0 /\ data'[h] = Dangling(l.align, v)
            \/ /\ l.size > 0
               /\ \E a \in Addresses : data'[h] = Pointer(a) /\ heap'[a] = Block(l, v)
<1>1. data \in [Handles -> Data] /\ heap \in [Addresses -> Cells]
      /\ l.size \in Nat /\ l.align \in Nat
  BY DEF TypeOK, Layouts
<1>2. CASE l.size = 0
  <2>1. data' = [data EXCEPT ![h] = Dangling(l.align, v)] /\ heap' = heap
    BY <1>2 DEF Boxed
  <2>2. Dangling(l.align, v) \in Data /\ Dangling(l.align, v).at # "Heap"
    BY <1>1 DEF Data, Dangling
  <2> QED  BY <1>2, <2>1, <2>2, Kept
<1>3. CASE l.size # 0
  <2>1. PICK a \in Addresses :
          /\ heap[a] = Free
          /\ heap' = [heap EXCEPT ![a] = Block(l, v)]
          /\ data' = [data EXCEPT ![h] = Pointer(a)]
    BY <1>3 DEF Boxed
  <2>2. Pointer(a) \in Data /\ Block(l, v) \in Cells
    BY DEF Data, Cells
  <2>3. data'[h] = Pointer(a) /\ heap'[a] = Block(l, v)
    BY <1>1, <2>1
  <2>4. \A g \in Handles : ~Uses(g, a)
    BY <2>1 DEF Exact, Free
  <2>5. Frame(h)
    <3> SUFFICES ASSUME NEW g \in Handles \ {h}
                 PROVE  /\ data'[g] = data[g]
                        /\ data[g].at = "Heap" => heap'[data[g].addr] = heap[data[g].addr]
      BY <1>1, <2>1, <2>2 DEF Frame
    <3>1. data'[g] = data[g]
      BY <1>1, <2>1
    <3>2. ASSUME data[g].at = "Heap"
          PROVE  heap'[data[g].addr] = heap[data[g].addr]
      <4>1. data[g].addr # a
        BY <2>4, <3>2 DEF Uses
      <4> QED  BY <1>1, <2>1, <4>1
    <3> QED  BY <3>1, <3>2
  <2>6. \A b \in Addresses : Uses(h, b)' <=> b = a
    BY <2>3 DEF Uses, Pointer
  <2>7. \A g \in Handles \ {h}, b \in Addresses : Uses(g, b)' <=> Uses(g, b)
    BY <2>5 DEF Frame, Uses
  <2>8. \A b \in Addresses : b # a => heap'[b] = heap[b]
    BY <1>1, <2>1
  <2>9. \A b \in Addresses : ~Uses(h, b)
    BY DEF Uses
  <2>10. Exact'
    <3>1. \A g \in Handles, b \in Addresses : Uses(g, b)' => heap'[b].used
      BY <2>3, <2>4, <2>6, <2>7, <2>8 DEF Exact, Block
    <3>2. \A f, g \in Handles, b \in Addresses : Uses(f, b)' /\ Uses(g, b)' => f = g
      BY <2>4, <2>6, <2>7 DEF Exact
    <3>3. \A b \in Addresses : heap'[b].used => \E g \in Handles : Uses(g, b)'
      BY <2>6, <2>7, <2>8, <2>9 DEF Exact
    <3> QED  BY <3>1, <3>2, <3>3 DEF Exact
  <2> QED  BY <1>1, <1>3, <2>3, <2>5, <2>10
<1> QED  BY <1>2, <1>3

\* The block of a handle is given back, if it has one.
LEMMA Released ==
  ASSUME TypeOK, Exact, NEW h \in Handles, Freed(h),
         NEW d \in Data, d.at # "Heap", data' = [data EXCEPT ![h] = d]
  PROVE  Exact' /\ Frame(h) /\ data'[h] = d
<1>1. data \in [Handles -> Data] /\ heap \in [Addresses -> Cells]
  BY DEF TypeOK
<1>2. CASE data[h].at # "Heap"
  <2>1. heap' = heap
    BY <1>2 DEF Freed
  <2> QED  BY <1>2, <2>1, Kept
<1>3. CASE data[h].at = "Heap"
  <2> DEFINE a == data[h].addr
  <2>1. a \in Addresses /\ Uses(h, a)
    BY <1>1, <1>3, DataShape DEF Uses, NoData
  <2>2. heap' = [heap EXCEPT ![a] = Free]
    BY <1>3 DEF Freed
  <2>3. Free \in Cells
    BY DEF Cells
  <2>4. \A g \in Handles \ {h} : ~Uses(g, a)
    BY <2>1 DEF Exact
  <2>5. Frame(h) /\ data'[h] = d
    <3>1. \A g \in Handles \ {h} : data'[g] = data[g]
      BY <1>1
    <3>2. \A g \in Handles \ {h} : data[g].at = "Heap" => data[g].addr # a
      BY <2>4 DEF Uses
    <3>3. \A g \in Handles \ {h} :
            data[g].at = "Heap" => heap'[data[g].addr] = heap[data[g].addr]
      <4> SUFFICES ASSUME NEW g \in Handles \ {h}, data[g].at = "Heap"
                   PROVE  heap'[data[g].addr] = heap[data[g].addr]
        OBVIOUS
      <4> QED  BY <1>1, <2>2, <3>2
    <3> QED  BY <1>1, <2>1, <2>2, <2>3, <3>1, <3>3 DEF Frame
  <2>6. \A b \in Addresses : ~Uses(h, b)'
    BY <2>5 DEF Uses
  <2>7. \A g \in Handles \ {h}, b \in Addresses : Uses(g, b)' <=> Uses(g, b)
    BY <2>5 DEF Frame, Uses
  <2>8. /\ \A b \in Addresses : b # a => heap'[b] = heap[b]
        /\ ~heap'[a].used
    BY <1>1, <2>1, <2>2 DEF Free
  <2>9. \A b \in Addresses : Uses(h, b) => b = a
    BY DEF Uses
  <2>10. Exact'
    <3>1. \A g \in Handles, b \in Addresses : Uses(g, b)' => heap'[b].used
      BY <2>4, <2>6, <2>7, <2>8 DEF Exact
    <3>2. \A f, g \in Handles, b \in Addresses : Uses(f, b)' /\ Uses(g, b)' => f = g
      BY <2>6, <2>7 DEF Exact
    <3>3. \A b \in Addresses : heap'[b].used => \E g \in Handles : Uses(g, b)'
      BY <2>7, <2>8, <2>9 DEF Exact
    <3> QED  BY <3>1, <3>2, <3>3 DEF Exact
  <2> QED  BY <2>5, <2>10
<1> QED  BY <1>2, <1>3

\* The value in the block of a handle is exchanged.
LEMMA Overwritten ==
  ASSUME TypeOK, Exact, NEW h \in Handles, data[h].at = "Heap", NEW v \in Values,
         heap' = [heap EXCEPT ![data[h].addr] = Block(@.layout, v)], data' = data
  PROVE  /\ Exact' /\ Frame(h)
         /\ heap'[data[h].addr] = Block(heap[data[h].addr].layout, v)
<1>1. data \in [Handles -> Data] /\ heap \in [Addresses -> Cells]
  BY DEF TypeOK
<1> DEFINE a == data[h].addr
<1>2. a \in Addresses /\ Uses(h, a)
  BY <1>1, DataShape DEF Uses, NoData
<1>3. heap[a].used
  BY <1>2 DEF Exact
<1>4. heap[a].layout \in Layouts
  BY <1>1, <1>2, <1>3, CellShape
<1>5. Block(heap[a].layout, v) \in Cells
  BY <1>4 DEF Cells
<1>6. heap'[a] = Block(heap[a].layout, v)
  BY <1>1, <1>2
<1>7. \A b \in Addresses : b # a => heap'[b] = heap[b]
  BY <1>1
<1>8. \A g \in Handles \ {h} : ~Uses(g, a)
  BY <1>2 DEF Exact
<1>9. Frame(h)
  <2>1. \A g \in Handles \ {h} : data[g].at = "Heap" => data[g].addr # a
    BY <1>8 DEF Uses
  <2>2. \A g \in Handles \ {h} : data[g].at = "Heap" => data[g].addr \in Addresses
    BY <1>1, DataShape DEF NoData
  <2> QED  BY <1>1, <1>2, <1>5, <1>7, <2>1, <2>2 DEF Frame
<1>10. \A g \in Handles, b \in Addresses : Uses(g, b)' <=> Uses(g, b)
  BY DEF Uses
<1>11. \A b \in Addresses : heap'[b].used <=> heap[b].used
  BY <1>3, <1>6, <1>7 DEF Block
<1>12. Exact'
  BY <1>10, <1>11 DEF Exact
<1> QED  BY <1>6, <1>9, <1>12

-----------------------------------------------------------------------------
(* What an operation on one handle has to show of it.                      *)

LEMMA HeapIsExact ==
  ASSUME IInv
  PROVE  Exact
<1>1. ASSUME NEW h \in Handles, NEW a \in Addresses, Uses(h, a)
      PROVE  heap[a].used
  BY <1>1 DEF IInv, HeapExact, Placed, Points, Uses, NoData
<1> QED  BY <1>1 DEF IInv, HeapExact, Exact

\* Only h has changed, and it is in order.
LEMMA OneHandle ==
  ASSUME IInv, NEW h \in Handles, Exact', Frame(h), Placed(h)',
         kind' \in [Handles -> {"None", "Miny", "Box"}], sized' \in [Handles -> BOOLEAN],
         layout' \in [Handles -> Layouts],
         outside' \subseteq Values, dropped' \subseteq Values,
         \A g \in Handles \ {h} : kind'[g] = kind[g] /\ layout'[g] = layout[g]
  PROVE  IInv' /\ \A g \in Handles \ {h} : Deref(g)' = Deref(g)
<1>1. TypeOK'
  BY DEF TypeOK, Frame
<1>2. ASSUME NEW g \in Handles \ {h}
      PROVE  Placed(g)' /\ Deref(g)' = Deref(g)
  <2>1. Same(g) /\ Placed(g) /\ TypeOK
    BY DEF Same, Frame, IInv, HeapExact
  <2> QED  BY <2>1, SameDeref
<1>3. HeapExact'
  BY <1>2 DEF HeapExact, Exact
<1> QED  BY <1>1, <1>2, <1>3 DEF IInv

held == [g \in Handles |-> Deref(g)]

\* Then what the handles hold is as it was, but for h.
LEMMA HeldExcept ==
  ASSUME NEW h \in Handles, \A g \in Handles \ {h} : Deref(g)' = Deref(g)
  PROVE  held' = [held EXCEPT ![h] = Deref(h)']
BY DEF held

\* A value that was boxed is where it should be.
LEMMA BoxedPlaced ==
  ASSUME NEW h \in Handles, NEW l \in Layouts, NEW v \in Values,
         ~OnStack(h)', kind'[h] # "None", layout'[h] = l,
         \/ l.size = 0 /\ data'[h] = Dangling(l.align, v)
         \/ /\ l.size > 0
            /\ \E a \in Addresses : data'[h] = Pointer(a) /\ heap'[a] = Block(l, v)
  PROVE  Placed(h)' /\ Deref(h)' = v
<1>1. CASE l.size = 0 /\ data'[h] = Dangling(l.align, v)
  <2>1. data'[h].at = "Dangling" /\ data'[h].align = l.align /\ data'[h].value = v
    BY <1>1 DEF Dangling
  <2>2. Points(h)'
    BY <1>1, <2>1 DEF Points
  <2>3. Deref(h)' = v
    BY <2>1 DEF Deref
  <2> QED  BY <2>2, <2>3 DEF Placed
<1>2. ASSUME l.size > 0, NEW a \in Addresses, data'[h] = Pointer(a), heap'[a] = Block(l, v)
      PROVE  Placed(h)' /\ Deref(h)' = v
  <2>1. data'[h].at = "Heap" /\ data'[h].addr = a
    BY <1>2 DEF Pointer
  <2>2. heap'[a].used /\ heap'[a].layout = l /\ heap'[a].value = v
    BY <1>2 DEF Block
  <2>3. Points(h)'
    BY <1>2, <2>1, <2>2 DEF Points
  <2>4. Deref(h)' = v
    BY <2>1, <2>2 DEF Deref
  <2> QED  BY <2>3, <2>4 DEF Placed
<1> QED  BY <1>1, <1>2

LEMMA MadeInv ==
  ASSUME IInv, NEW h \in Handles, NEW v \in Values, NEW k \in {"Miny", "Box"},
         Made(h, k, v), sized' \in [Handles -> BOOLEAN],
         IF k = "Miny" /\ GoesOnStack(LayoutOf[v])
         THEN data' = [data EXCEPT ![h] = Inline(v)] /\ heap' = heap
         ELSE Boxed(h, LayoutOf[v], v)
  PROVE  IInv' /\ Owned!Put(h, v)
<1> DEFINE l == LayoutOf[v]
<1>1. TypeOK /\ Exact /\ l \in Layouts
  BY HeapIsExact, MinyAssumption DEF IInv
<1>2. kind[h] = "None" /\ data[h].at # "Heap" /\ v \in outside /\ v # Nothing
  BY MinyAssumption DEF Made, IInv, HeapExact, Placed, NoData
<1>3. /\ kind' = [kind EXCEPT ![h] = k] /\ layout' = [layout EXCEPT ![h] = l]
      /\ outside' = outside \ {v} /\ dropped' = dropped
  BY DEF Made
<1>4. /\ kind' \in [Handles -> {"None", "Miny", "Box"}] /\ kind'[h] = k
      /\ layout' \in [Handles -> Layouts] /\ layout'[h] = l
      /\ outside' \subseteq Values /\ dropped' \subseteq Values
      /\ \A g \in Handles \ {h} : kind'[g] = kind[g] /\ layout'[g] = layout[g]
  BY <1>1, <1>3 DEF TypeOK
<1>5. Exact' /\ Frame(h) /\ Placed(h)' /\ Deref(h)' = v
  <2>1. CASE k = "Miny" /\ GoesOnStack(l)
    <3>1. Inline(v) \in Data /\ Inline(v).at # "Heap"
      BY DEF Data, Inline
    <3>2. Exact' /\ Frame(h) /\ data'[h] = Inline(v)
      BY <1>1, <1>2, <2>1, <3>1, Kept
    <3>3. OnStack(h)'
      BY <1>4, <2>1 DEF OnStack
    <3> QED  BY <1>4, <3>2, <3>3 DEF Placed, Deref, Inline
  <2>2. CASE ~(k = "Miny" /\ GoesOnStack(l))
    <3>1. Boxed(h, l, v)
      BY <2>2
    <3>2. /\ Exact' /\ Frame(h)
          /\ \/ l.size = 0 /\ data'[h] = Dangling(l.align, v)
             \/ /\ l.size > 0
                /\ \E a \in Addresses : data'[h] = Pointer(a) /\ heap'[a] = Block(l, v)
      BY <1>1, <1>2, <3>1, Allocated
    <3>3. ~OnStack(h)'
      BY <1>4, <2>2 DEF OnStack
    <3>4. kind'[h] # "None"
      BY <1>4
    <3> QED  BY <1>1, <1>4, <3>2, <3>3, <3>4, BoxedPlaced
  <2> QED  BY <2>1, <2>2
<1>6. IInv' /\ \A g \in Handles \ {h} : Deref(g)' = Deref(g)
  BY <1>4, <1>5, OneHandle
<1>7. held' = [held EXCEPT ![h] = v] /\ held[h] = Nothing
  BY <1>2, <1>5, <1>6, HeldExcept, FreeHolds DEF held
<1> QED  BY <1>2, <1>3, <1>6, <1>7 DEF Owned!Put, held

LEMMA NewInv ==
  ASSUME IInv, NEW h \in Handles, NEW v \in Values, New(h, v)
  PROVE  IInv' /\ Owned!Put(h, v)
<1>1. /\ Made(h, "Miny", v) /\ sized' \in [Handles -> BOOLEAN]
      /\ IF GoesOnStack(LayoutOf[v])
         THEN data' = [data EXCEPT ![h] = Inline(v)] /\ heap' = heap
         ELSE Boxed(h, LayoutOf[v], v)
  BY DEF New, IInv, TypeOK
<1> QED  BY <1>1, MadeInv

LEMMA BoxNewInv ==
  ASSUME IInv, NEW h \in Handles, NEW v \in Values, BoxNew(h, v)
  PROVE  IInv' /\ Owned!Put(h, v)
<1>1. /\ Made(h, "Box", v) /\ sized' \in [Handles -> BOOLEAN]
      /\ Boxed(h, LayoutOf[v], v)
  BY DEF BoxNew, IInv, TypeOK
<1> QED  BY <1>1, MadeInv

LEMMA UnsizeInv ==
  ASSUME IInv, NEW h \in Handles, Unsize(h)
  PROVE  IInv' /\ UNCHANGED <<held, outside, dropped>>
<1>1. TypeOK /\ Exact
  BY HeapIsExact DEF IInv
<1>2. UNCHANGED <<kind, layout, data, heap, outside, dropped>>
  BY DEF Unsize
<1>3. TypeOK'
  BY <1>1, <1>2 DEF Unsize, TypeOK
<1>4. \A g \in Handles : Placed(g) /\ Same(g)
  BY <1>2 DEF Same, IInv, HeapExact
<1>5. \A g \in Handles : Placed(g)' /\ Deref(g)' = Deref(g)
  BY <1>1, <1>4, SameDeref
<1>6. \A g \in Handles, a \in Addresses : Uses(g, a)' <=> Uses(g, a)
  BY <1>2 DEF Uses
<1>7. HeapExact'
  BY <1>2, <1>5, <1>6 DEF IInv, HeapExact
<1> QED  BY <1>2, <1>3, <1>5, <1>7 DEF IInv, held

\* A handle that gives its block back, and goes.
LEMMA GoneInv ==
  ASSUME IInv, NEW h \in Handles, kind[h] # "None", Freed(h), Gone(h),
         outside' \subseteq Values, dropped' \subseteq Values
  PROVE  IInv' /\ held' = [held EXCEPT ![h] = Nothing]
<1>1. TypeOK /\ Exact
  BY HeapIsExact DEF IInv
<1>2. NoData \in Data /\ NoData.at # "Heap" /\ NoLayout \in Layouts
  BY DEF Data, NoData, NoLayout, Layouts
<1>3. data' = [data EXCEPT ![h] = NoData]
  BY DEF Gone
<1>4. Exact' /\ Frame(h) /\ data'[h] = NoData
  BY <1>1, <1>2, <1>3, Released
<1>5. /\ kind' \in [Handles -> {"None", "Miny", "Box"}] /\ kind'[h] = "None"
      /\ sized' \in [Handles -> BOOLEAN] /\ layout' \in [Handles -> Layouts]
      /\ \A g \in Handles \ {h} : kind'[g] = kind[g] /\ layout'[g] = layout[g]
  BY <1>1, <1>2 DEF Gone, TypeOK
<1>6. Placed(h)' /\ Deref(h)' = Nothing
  BY <1>4, <1>5 DEF Placed, Deref
<1>7. IInv' /\ \A g \in Handles \ {h} : Deref(g)' = Deref(g)
  BY <1>4, <1>5, <1>6, OneHandle
<1> QED  BY <1>6, <1>7, HeldExcept

\* What a handle holds, as the abstract specification sees it.
LEMMA HeldIs ==
  ASSUME IInv, NEW h \in Handles, kind[h] # "None"
  PROVE  held[h] = Deref(h) /\ held[h] # Nothing /\ Deref(h) \in Values
BY Holds DEF IInv, HeapExact, held

LEMMA TakeOutInv ==
  ASSUME IInv, NEW h \in Handles, kind[h] # "None", TakeOut(h)
  PROVE  IInv' /\ Owned!Take(h)
<1>1. held[h] = Deref(h) /\ held[h] # Nothing /\ Deref(h) \in Values
  BY HeldIs
<1>2. outside' \subseteq Values /\ dropped' \subseteq Values
  BY <1>1 DEF TakeOut, IInv, TypeOK
<1>3. IInv' /\ held' = [held EXCEPT ![h] = Nothing]
  BY <1>2, GoneInv DEF TakeOut
<1> QED  BY <1>1, <1>3 DEF TakeOut, Owned!Take, held

LEMMA DropInv ==
  ASSUME IInv, NEW h \in Handles, Drop(h)
  PROVE  IInv' /\ Owned!Drop(h)
<1>1. held[h] = Deref(h) /\ held[h] # Nothing /\ Deref(h) \in Values
  BY HeldIs DEF Drop
<1>2. outside' \subseteq Values /\ dropped' \subseteq Values
  BY <1>1 DEF Drop, IInv, TypeOK
<1>3. IInv' /\ held' = [held EXCEPT ![h] = Nothing]
  BY <1>2, GoneInv DEF Drop
<1> QED  BY <1>1, <1>3 DEF Drop, Owned!Drop, held

\* A handle that becomes a Miny or a Box, and keeps its value.
LEMMA Converted ==
  ASSUME IInv, NEW h \in Handles, kind[h] # "None", NEW k \in {"Miny", "Box"},
         kind' = [kind EXCEPT ![h] = k], UNCHANGED <<sized, layout, outside, dropped>>,
         Exact', Frame(h), Placed(h)', Deref(h)' = Deref(h)
  PROVE  IInv' /\ UNCHANGED <<held, outside, dropped>>
<1>1. TypeOK
  BY DEF IInv
<1>2. /\ kind' \in [Handles -> {"None", "Miny", "Box"}]
      /\ sized' \in [Handles -> BOOLEAN] /\ layout' \in [Handles -> Layouts]
      /\ outside' \subseteq Values /\ dropped' \subseteq Values
      /\ \A g \in Handles \ {h} : kind'[g] = kind[g] /\ layout'[g] = layout[g]
  BY <1>1 DEF TypeOK
<1>3. IInv' /\ \A g \in Handles \ {h} : Deref(g)' = Deref(g)
  BY <1>2, OneHandle
<1>4. held' = held
  BY <1>3 DEF held
<1> QED  BY <1>3, <1>4

LEMMA IntoBoxInv ==
  ASSUME MisalignedBox = FALSE, IInv, NEW h \in Handles, IntoBox(h)
  PROVE  IInv' /\ UNCHANGED <<held, outside, dropped>>
<1> DEFINE l == layout[h]
           v == Deref(h)
<1>1. TypeOK /\ Exact /\ Placed(h) /\ kind[h] = "Miny"
  BY HeapIsExact DEF IInv, HeapExact, IntoBox
<1>2. l \in Layouts /\ l.size \in Nat /\ l.align \in Nat \ {0} /\ data[h] \in Data
  BY <1>1 DEF TypeOK, Layouts
<1>3. v \in Values
  BY <1>1, HeldIs
<1>4. /\ kind' = [kind EXCEPT ![h] = "Box"] /\ kind'[h] = "Box" /\ layout' = layout
      /\ UNCHANGED <<sized, layout, outside, dropped>>
  BY <1>1 DEF IntoBox, TypeOK
<1>5. ~OnStack(h)'
  BY <1>4 DEF OnStack
<1>6. CASE GoesOnStack(l)
  <2>1. data[h].at = "Inline"
    BY <1>1, <1>6 DEF Placed, OnStack
  <2>2. CASE l.size = 0
    <3>1. l.align = 1
      BY <1>2, <1>6, <2>2 DEF IntoBox
    <3>2. data' = [data EXCEPT ![h] = Dangling(1, v)] /\ heap' = heap
      BY <1>6, <2>2 DEF IntoBox
    <3>3. Dangling(1, v) \in Data /\ Dangling(1, v).at # "Heap"
      BY <1>3 DEF Data, Dangling
    <3>4. Exact' /\ Frame(h) /\ data'[h] = Dangling(1, v)
      BY <1>1, <2>1, <3>2, <3>3, Kept
    <3>5. Placed(h)' /\ Deref(h)' = v
      BY <1>2, <1>3, <1>4, <1>5, <2>2, <3>1, <3>4, BoxedPlaced
    <3> QED  BY <1>1, <1>4, <3>4, <3>5, Converted
  <2>3. CASE l.size # 0
    <3>1. Boxed(h, l, v)
      BY <1>6, <2>3 DEF IntoBox
    <3>2. /\ Exact' /\ Frame(h)
          /\ \/ l.size = 0 /\ data'[h] = Dangling(l.align, v)
             \/ /\ l.size > 0
                /\ \E a \in Addresses : data'[h] = Pointer(a) /\ heap'[a] = Block(l, v)
      BY <1>1, <1>2, <1>3, <2>1, <3>1, Allocated
    <3>3. Placed(h)' /\ Deref(h)' = v
      BY <1>2, <1>3, <1>4, <1>5, <3>2, BoxedPlaced
    <3> QED  BY <1>1, <1>4, <3>2, <3>3, Converted
  <2> QED  BY <2>2, <2>3
<1>7. CASE ~GoesOnStack(l)
  <2>1. UNCHANGED <<data, heap>>
    BY <1>7 DEF IntoBox
  <2>2. ~OnStack(h)
    BY <1>7 DEF OnStack
  <2>3. Placed(h)' /\ Deref(h)' = Deref(h)
    BY <1>1, <1>4, <1>5, <2>1, <2>2 DEF Placed, Points, Deref
  <2>4. Exact'
    BY <1>1, <2>1 DEF Exact, Uses
  <2>5. Frame(h)
    BY <1>1, <2>1 DEF Frame, TypeOK
  <2> QED  BY <1>1, <1>4, <2>3, <2>4, <2>5, Converted
<1> QED  BY <1>6, <1>7

LEMMA FromBoxInv ==
  ASSUME IInv, NEW h \in Handles, FromBox(h)
  PROVE  IInv' /\ UNCHANGED <<held, outside, dropped>>
<1> DEFINE l == layout[h]
           v == Deref(h)
<1>1. TypeOK /\ Exact /\ Placed(h) /\ kind[h] = "Box"
  BY HeapIsExact DEF IInv, HeapExact, FromBox
<1>2. v \in Values
  BY <1>1, HeldIs
<1>3. /\ kind' = [kind EXCEPT ![h] = "Miny"] /\ kind'[h] = "Miny"
      /\ UNCHANGED <<sized, layout, outside, dropped>>
  BY <1>1 DEF FromBox, TypeOK
<1>4. OnStack(h)' <=> GoesOnStack(l)
  BY <1>3 DEF OnStack, GoesOnStack
<1>5. CASE GoesOnStack(l)
  <2>1. data' = [data EXCEPT ![h] = Inline(v)] /\ Freed(h)
    BY <1>5 DEF FromBox
  <2>2. Inline(v) \in Data /\ Inline(v).at # "Heap"
    BY <1>2 DEF Data, Inline
  <2>3. Exact' /\ Frame(h) /\ data'[h] = Inline(v)
    BY <1>1, <2>1, <2>2, Released
  <2>4. Placed(h)' /\ Deref(h)' = v
    BY <1>3, <1>4, <1>5, <2>3 DEF Placed, Deref, Inline
  <2> QED  BY <1>1, <1>3, <2>3, <2>4, Converted
<1>6. CASE ~GoesOnStack(l)
  <2>1. UNCHANGED <<data, heap>>
    BY <1>6 DEF FromBox
  <2>2. ~OnStack(h) /\ ~OnStack(h)'
    BY <1>4, <1>6 DEF OnStack
  <2>3. Placed(h)' /\ Deref(h)' = Deref(h)
    BY <1>1, <1>3, <2>1, <2>2 DEF Placed, Points, Deref
  <2>4. Exact'
    BY <1>1, <2>1 DEF Exact, Uses
  <2>5. Frame(h)
    BY <1>1, <2>1 DEF Frame, TypeOK
  <2> QED  BY <1>1, <1>3, <2>3, <2>4, <2>5, Converted
<1> QED  BY <1>5, <1>6

LEMMA ReplaceInv ==
  ASSUME IInv, NEW h \in Handles, NEW v \in Values, Replace(h, v)
  PROVE  IInv' /\ Owned!Exchange(h, v)
<1>1. /\ TypeOK /\ Exact /\ Placed(h) /\ kind[h] = "Miny" /\ data[h] \in Data
      /\ v # Nothing
  BY HeapIsExact, MinyAssumption DEF IInv, HeapExact, Replace, TypeOK
<1>2. held[h] = Deref(h) /\ held[h] # Nothing /\ Deref(h) \in Values
  BY <1>1, HeldIs
<1>3. /\ UNCHANGED <<kind, sized, layout, dropped>> /\ v \in outside
      /\ outside' = (outside \ {v}) \union {Deref(h)}
      /\ outside' \subseteq Values
  BY <1>1, <1>2 DEF Replace, TypeOK
<1>4. OnStack(h)' <=> OnStack(h)
  BY <1>3 DEF OnStack, GoesOnStack
<1>5. Exact' /\ Frame(h) /\ Placed(h)' /\ Deref(h)' = v
  <2>1. CASE data[h].at = "Heap"
    <3>1. heap' = [heap EXCEPT ![data[h].addr] = Block(@.layout, v)] /\ data' = data
      BY <2>1 DEF Replace
    <3>2. Exact' /\ Frame(h) /\ heap'[data[h].addr] = Block(heap[data[h].addr].layout, v)
      BY <1>1, <2>1, <3>1, Overwritten
    <3>3. /\ heap'[data[h].addr].used /\ heap'[data[h].addr].value = v
          /\ heap'[data[h].addr].layout = heap[data[h].addr].layout
      BY <3>2 DEF Block
    <3>4. ~OnStack(h)
      BY <1>1, <2>1 DEF Placed
    <3>5. Placed(h)'
      BY <1>1, <1>3, <1>4, <2>1, <3>1, <3>3, <3>4 DEF Placed, Points
    <3>6. Deref(h)' = v
      BY <1>1, <1>3, <1>4, <2>1, <3>1, <3>3, <3>4 DEF Deref
    <3> QED  BY <3>2, <3>5, <3>6
  <2>2. CASE data[h].at # "Heap"
    <3> DEFINE d == IF OnStack(h) THEN Inline(v) ELSE Dangling(data[h].align, v)
    <3>1. data' = [data EXCEPT ![h] = d] /\ heap' = heap
      BY <2>2 DEF Replace
    <3>2. ~OnStack(h) => data[h].at = "Dangling" /\ Points(h)
      BY <1>1, <2>2 DEF Placed, Points
    <3>3. d \in Data /\ d.at # "Heap"
      BY <1>1, <3>2, DataShape DEF Data, Inline, Dangling, NoData
    <3>4. Exact' /\ Frame(h) /\ data'[h] = d
      BY <1>1, <2>2, <3>1, <3>3, Kept
    <3>5. CASE OnStack(h)
      BY <1>1, <1>3, <1>4, <3>4, <3>5 DEF Placed, Deref, Inline
    <3>6. CASE ~OnStack(h)
      <4>1. /\ data'[h].at = "Dangling" /\ data'[h].align = data[h].align
            /\ data'[h].value = v
        BY <3>4, <3>6 DEF Dangling
      <4>2. Placed(h)'
        BY <1>1, <1>3, <1>4, <3>2, <3>6, <4>1 DEF Placed, Points
      <4>3. Deref(h)' = v
        BY <1>1, <1>3, <1>4, <3>6, <4>1 DEF Deref
      <4> QED  BY <3>4, <4>2, <4>3
    <3> QED  BY <3>4, <3>5, <3>6
  <2> QED  BY <2>1, <2>2
<1>6. /\ kind' \in [Handles -> {"None", "Miny", "Box"}]
      /\ sized' \in [Handles -> BOOLEAN] /\ layout' \in [Handles -> Layouts]
      /\ dropped' \subseteq Values
      /\ \A g \in Handles \ {h} : kind'[g] = kind[g] /\ layout'[g] = layout[g]
  BY <1>1, <1>3 DEF TypeOK
<1>7. IInv' /\ \A g \in Handles \ {h} : Deref(g)' = Deref(g)
  BY <1>3, <1>5, <1>6, OneHandle
<1>8. held' = [held EXCEPT ![h] = v]
  BY <1>5, <1>7, HeldExcept
<1> QED  BY <1>2, <1>3, <1>7, <1>8 DEF Owned!Exchange, held

-----------------------------------------------------------------------------

LEMMA InitInv ==
  ASSUME Init
  PROVE  IInv /\ Owned!Init
<1>1. NoData \in Data /\ Free \in Cells /\ NoLayout \in Layouts
  BY DEF Data, Cells, NoLayout, Layouts
<1>2. TypeOK
  BY <1>1 DEF Init, TypeOK
<1>3. HeapExact
  BY DEF Init, HeapExact, Placed, Uses, NoData, Free
<1>4. Owned!Init
  BY DEF Init, Owned!Init, Deref
<1> QED  BY <1>2, <1>3, <1>4 DEF IInv

LEMMA NextInv ==
  ASSUME MisalignedBox = FALSE, IInv, [Next]_vars
  PROVE  IInv' /\ [Owned!Next]_(Owned!vars)
<1>1. ASSUME NEW h \in Handles, NEW v \in Values, New(h, v) \/ BoxNew(h, v) \/ Replace(h, v)
      PROVE  IInv' /\ Owned!Next
  BY <1>1, NewInv, BoxNewInv, ReplaceInv DEF Owned!Next
<1>2. ASSUME NEW h \in Handles, IntoInner(h) \/ Downcast(h)
      PROVE  IInv' /\ Owned!Next
  <2>1. kind[h] # "None" /\ TakeOut(h)
    BY <1>2 DEF IntoInner, Downcast
  <2> QED  BY <2>1, TakeOutInv DEF Owned!Next
<1>3. ASSUME NEW h \in Handles, Drop(h)
      PROVE  IInv' /\ Owned!Next
  BY <1>3, DropInv DEF Owned!Next
<1>4. ASSUME NEW h \in Handles, Unsize(h) \/ IntoBox(h) \/ FromBox(h)
      PROVE  IInv' /\ UNCHANGED Owned!vars
  BY <1>4, UnsizeInv, IntoBoxInv, FromBoxInv DEF Owned!vars, held
<1>5. CASE UNCHANGED vars
  <2>1. UNCHANGED Owned!vars
    BY <1>5 DEF vars, Owned!vars, Deref, OnStack
  <2>2. IInv'
    BY <1>5 DEF vars, IInv, TypeOK, HeapExact, Placed, OnStack, Points, Uses
  <2> QED  BY <2>1, <2>2
<1> QED  BY <1>1, <1>2, <1>3, <1>4, <1>5 DEF Next

\* IInv is an invariant, but for values of no size that are moved to a Box
\* aligned for a byte.
THEOREM Invariance == MisalignedBox = FALSE => (Spec => []IInv)
<1> SUFFICES ASSUME MisalignedBox = FALSE PROVE Spec => []IInv
  OBVIOUS
<1>1. Init => IInv
  BY InitInv
<1>2. IInv /\ [Next]_vars => IInv'
  BY NextInv
<1> QED  BY <1>1, <1>2, PTL DEF Spec

\* No block leaks, is shared, or is given back with another layout than its own,
\* and a handle finds its value where the layout says, however conversions
\* (new, unsize, into_box, From<Box>, into_inner, downcast, drop) are mixed.
THEOREM NothingLeaks == MisalignedBox = FALSE => (Spec => []HeapExact)
<1> SUFFICES ASSUME MisalignedBox = FALSE PROVE Spec => []HeapExact
  OBVIOUS
<1>1. IInv => HeapExact
  BY DEF IInv
<1> QED  BY <1>1, Invariance, PTL

\* Miny implements Owner: each value has one owner and is dropped once.
THEOREM ImplementsOwner == MisalignedBox = FALSE => (Spec => Owns)
<1> SUFFICES ASSUME MisalignedBox = FALSE PROVE Spec => Owns
  OBVIOUS
<1>1. Init => Owned!Init
  BY InitInv
<1>2. IInv /\ [Next]_vars => [Owned!Next]_(Owned!vars)
  BY NextInv
<1> QED  BY <1>1, <1>2, Invariance, PTL DEF Spec, Owns, Owned!Spec

LEMMA OneOwnerStep ==
  ASSUME IInv, Owned!OneOwner, [Owned!Next]_(Owned!vars)
  PROVE  Owned!OneOwner'
<1> DEFINE H == [h \in Handles |-> Deref(h)]
<1>1. /\ \A h, g \in Handles : H[h] = H[g] /\ H[h] # Nothing => h = g
      /\ \A h \in Handles : H[h] \notin outside \union dropped
      /\ outside \intersect dropped = {}
      /\ Nothing \notin outside /\ Nothing \notin dropped
      /\ outside \subseteq Values
  BY MinyAssumption DEF Owned!OneOwner, IInv, TypeOK
<1>2. SUFFICES /\ \A h, g \in Handles : H'[h] = H'[g] /\ H'[h] # Nothing => h = g
               /\ \A h \in Handles : H'[h] \notin outside' \union dropped'
               /\ outside' \intersect dropped' = {}
  BY DEF Owned!OneOwner
<1> HIDE DEF H
<1>3. ASSUME NEW h \in Handles, NEW v \in Values, Owned!Put(h, v)
      PROVE  <1>2!1
  <2>1. /\ H'[h] = v /\ \A g \in Handles \ {h} : H'[g] = H[g]
        /\ v \in outside
        /\ outside' = outside \ {v} /\ dropped' = dropped
    BY <1>3 DEF Owned!Put, H
  <2> QED  BY <1>1, <2>1
<1>4. ASSUME NEW h \in Handles, Owned!Take(h)
      PROVE  <1>2!1
  <2>1. /\ H'[h] = Nothing /\ \A g \in Handles \ {h} : H'[g] = H[g]
        /\ H[h] # Nothing
        /\ outside' = outside \union {H[h]} /\ dropped' = dropped
    BY <1>4 DEF Owned!Take, H
  <2> QED  BY <1>1, <2>1
<1>5. ASSUME NEW h \in Handles, NEW v \in Values, Owned!Exchange(h, v)
      PROVE  <1>2!1
  <2>1. /\ H'[h] = v /\ \A g \in Handles \ {h} : H'[g] = H[g]
        /\ v \in outside /\ H[h] # Nothing
        /\ outside' = (outside \ {v}) \union {H[h]} /\ dropped' = dropped
    BY <1>5 DEF Owned!Exchange, H
  <2> QED  BY <1>1, <2>1
<1>6. ASSUME NEW h \in Handles, Owned!Drop(h)
      PROVE  <1>2!1
  <2>1. /\ H'[h] = Nothing /\ \A g \in Handles \ {h} : H'[g] = H[g]
        /\ H[h] # Nothing
        /\ dropped' = dropped \union {H[h]} /\ outside' = outside
    BY <1>6 DEF Owned!Drop, H
  <2> QED  BY <1>1, <2>1
<1>7. CASE UNCHANGED Owned!vars
  <2>1. H' = H /\ outside' = outside /\ dropped' = dropped
    BY <1>7 DEF Owned!vars, H
  <2> QED  BY <1>1, <2>1
<1> QED  BY <1>3, <1>4, <1>5, <1>6, <1>7 DEF Owned!Next, H

\* No two handles hold a value, and none holds a value that the program has or
\* that is dropped: no use after a drop, and no second drop.
THEOREM OneOwner == MisalignedBox = FALSE => (Spec => []Owned!OneOwner)
<1> SUFFICES ASSUME MisalignedBox = FALSE PROVE Spec => []Owned!OneOwner
  OBVIOUS
<1>1. Init => Owned!OneOwner
  BY MinyAssumption DEF Init, Owned!OneOwner, Deref
<1>2. IInv /\ Owned!OneOwner /\ [Next]_vars => Owned!OneOwner'
  BY NextInv, OneOwnerStep
<1> QED  BY <1>1, <1>2, Invariance, PTL DEF Spec
=============================================================================

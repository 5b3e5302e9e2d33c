----------------------------- MODULE DomProofs -----------------------------
(***************************************************************************)
(* Document -> events -> Document is the identity, for documents of any    *)
(* size nested to any depth.  The argument needs no induction over trees:  *)
(* the path of open nodes is enough to relate the two stacks level by      *)
(* level.                                                                  *)
(*                                                                         *)
(* Then: Document::normalize keeps every lookup.  Here the argument is an  *)
(* induction over the height of trees, and in every node one over its      *)
(* entries, from the last for Marked and from the first for Retained.      *)
(***************************************************************************)
EXTENDS Normalize, TLAPS, SequenceTheorems, FiniteSetTheorems, FunctionTheorems,
        WellFoundedInduction

-----------------------------------------------------------------------------
(* Sequences.                                                              *)

\* All but the last element of a non-empty sequence.
LEMMA FrontElements ==
  ASSUME NEW S, NEW s \in Seq(S), s # <<>>
  PROVE  /\ Front(s) \in Seq(S) /\ Len(Front(s)) = Len(s) - 1
         /\ \A i \in 1..(Len(s) - 1) : Front(s)[i] = s[i]
         /\ Last(s) \in S /\ Len(s) \in Nat \ {0}
<1>1. PICK n \in Nat : n > 0 /\ Len(s) = n
  BY EmptySeq
<1>2. \A i \in 1..n : s[i] \in S
  BY <1>1, ElementOfSeq
<1>3. Front(s) = SubSeq(s, 1, n - 1) /\ 1 \in Int /\ n - 1 \in Int
  BY <1>1 DEF Front
<1>4. \A i \in 1..(n - 1) : Front(s)[i] = s[i]
  BY <1>1, <1>3
<1>5. Front(s) \in Seq(S) /\ Len(Front(s)) = IF 1 <= n - 1 THEN n - 1 - 1 + 1 ELSE 0
  <2>1. \A i \in 1..(n - 1) : s[i] \in S
    BY <1>2
  <2> QED
    BY <1>3, <2>1, SubSeqProperties
<1>6. Last(s) \in S
  BY <1>1, <1>2 DEF Last
<1> QED
  BY <1>1, <1>4, <1>5, <1>6

\* A sequence with at most one element that has one.
LEMMA OneElement ==
  ASSUME NEW S, NEW s \in Seq(S), s # <<>>, Len(s) <= 1
  PROVE  Len(s) = 1 /\ s[1] \in S
<1>1. Len(s) \in Nat /\ Len(s) # 0
  BY EmptySeq, LenProperties
<1>2. Len(s) = 1
  BY <1>1
<1> QED
  BY <1>2, ElementOfSeq

\* A node that is opened is no longer to come.
LEMMA ConcatOpen ==
  ASSUME NEW S, NEW b \in Seq(S), NEW s \in Seq(S), s # <<>>
  PROVE  b \o <<>> \o s = b \o <<Head(s)>> \o Tail(s)
<1>1. /\ Len(b \o <<>> \o s) = Len(b) + Len(s)
      /\ \A i \in 1..(Len(b) + Len(s)) :
           (b \o <<>> \o s)[i] = IF i <= Len(b) THEN b[i] ELSE s[i - Len(b)]
  OBVIOUS
<1>2. /\ Head(s) \in S /\ Tail(s) \in Seq(S) /\ Len(Tail(s)) = Len(s) - 1
      /\ \A i \in 1..(Len(s) - 1) : Tail(s)[i] = s[i + 1]
      /\ Head(s) = s[1]
  BY HeadTailProperties
<1>3. /\ Len(b \o <<Head(s)>> \o Tail(s)) = Len(b) + Len(s)
      /\ \A i \in 1..(Len(b) + Len(s)) :
           (b \o <<Head(s)>> \o Tail(s))[i] = IF i <= Len(b) THEN b[i] ELSE s[i - Len(b)]
  BY <1>2
<1>4. b \o <<>> \o s \in Seq(S) /\ b \o <<Head(s)>> \o Tail(s) \in Seq(S)
  BY <1>2
<1> QED
  BY <1>1, <1>3, <1>4, SeqEqual

\* A node that is closed is built.
LEMMA ConcatClose ==
  ASSUME NEW b \in Seq(Nodes), NEW x \in Nodes, NEW r \in Seq(Nodes)
  PROVE  Append(b, x) \o <<>> \o r = b \o <<x>> \o r
<1>1. Append(b, x) \o <<>> \o r \in Seq(Nodes) /\ b \o <<x>> \o r \in Seq(Nodes)
  OBVIOUS
<1>2. /\ Len(Append(b, x) \o <<>> \o r) = Len(b) + 1 + Len(r)
      /\ Len(b \o <<x>> \o r) = Len(b) + 1 + Len(r)
  OBVIOUS
<1>3. \A i \in 1..(Len(b) + 1 + Len(r)) :
        (Append(b, x) \o <<>> \o r)[i] = (b \o <<x>> \o r)[i]
  OBVIOUS
<1> QED
  BY <1>1, <1>2, <1>3, SeqEqual

\* An entry moves from the iterator to the builder.
LEMMA ConcatMove ==
  ASSUME NEW S, NEW a \in Seq(S), NEW t \in Seq(S), t # <<>>
  PROVE  Append(a, Head(t)) \o Tail(t) = a \o t
<1>1. /\ Head(t) \in S /\ Tail(t) \in Seq(S) /\ Len(Tail(t)) = Len(t) - 1
      /\ \A i \in 1..(Len(t) - 1) : Tail(t)[i] = t[i + 1]
      /\ Head(t) = t[1]
  BY HeadTailProperties
<1>2. Append(a, Head(t)) \o Tail(t) \in Seq(S) /\ a \o t \in Seq(S)
  BY <1>1
<1>3. /\ Len(Append(a, Head(t)) \o Tail(t)) = Len(a) + Len(t)
      /\ Len(a \o t) = Len(a) + Len(t)
      /\ \A i \in 1..(Len(a) + Len(t)) : (Append(a, Head(t)) \o Tail(t))[i] = (a \o t)[i]
  BY <1>1
<1> QED
  BY <1>2, <1>3, SeqEqual

-----------------------------------------------------------------------------
(* The steps.                                                              *)

\* What is in the iterator's and the builder's stacks.
LEMMA Elements ==
  ASSUME TypeOK
  PROVE  /\ Len(stack) \in Nat /\ Len(path) \in Nat /\ Len(iterStack) \in Nat
         /\ stack # <<>> => Len(stack) > 0
         /\ path # <<>> => Len(path) > 0
         /\ iterStack # <<>> => Len(iterStack) > 0
         /\ \A i \in 1..Len(iterStack) : iterStack[i] \in Seq(Nodes)
         /\ \A i \in 1..Len(path) : path[i] \in Nodes
         /\ \A i \in 1..Len(stack) : stack[i] \in Partial
         /\ top # <<>> =>
              /\ Len(top) = 1
              /\ top[1] \in [entries : Seq(Entries), children : Seq(Seq(Nodes))]
<1>1. /\ stack \in Seq(Partial) /\ path \in Seq(Nodes) /\ iterStack \in Seq(Seq(Nodes))
      /\ top \in Seq([entries : Seq(Entries), children : Seq(Seq(Nodes))]) /\ Len(top) <= 1
  BY DEF TypeOK
<1>2. /\ Len(stack) \in Nat /\ Len(path) \in Nat /\ Len(iterStack) \in Nat /\ Len(top) \in Nat
      /\ stack # <<>> => Len(stack) > 0
      /\ path # <<>> => Len(path) > 0
      /\ iterStack # <<>> => Len(iterStack) > 0
      /\ top # <<>> => Len(top) > 0
  BY <1>1, EmptySeq, LenProperties
<1>3. /\ \A i \in 1..Len(iterStack) : iterStack[i] \in Seq(Nodes)
      /\ \A i \in 1..Len(path) : path[i] \in Nodes
      /\ \A i \in 1..Len(stack) : stack[i] \in Partial
      /\ \A i \in 1..Len(top) : top[i] \in [entries : Seq(Entries), children : Seq(Seq(Nodes))]
  BY <1>1, ElementOfSeq
<1>4. top # <<>> => Len(top) = 1
  <2>1. Len(top) <= 1
    BY <1>1
  <2> QED
    BY <1>2, <2>1
<1>5. ASSUME top # <<>>
      PROVE  top[1] \in [entries : Seq(Entries), children : Seq(Seq(Nodes))]
  <2>1. 1 \in 1..Len(top)
    BY <1>4, <1>5
  <2> QED
    BY <1>3, <2>1
<1> QED
  BY <1>2, <1>3, <1>4, <1>5

\* A new node has the fields it is given.
LEMMA NewNodeFields ==
  ASSUME NEW name \in Names, NEW entries \in Seq(Entries), NEW children \in Seq(Seq(Nodes))
  PROVE  /\ NewNode(name, entries, children) \in Partial
         /\ NewNode(name, entries, children).name = name
         /\ NewNode(name, entries, children).entries = entries
         /\ NewNode(name, entries, children).children = children
  BY DEF NewNode, Partial

\* Fields have their types.
LEMMA PartialFields ==
  ASSUME NEW node \in Partial
  PROVE  /\ node.name \in Names /\ node.entries \in Seq(Entries)
         /\ node.children \in Seq(Seq(Nodes))
         /\ node = NewNode(node.name, node.entries, node.children)
  BY DEF NewNode, Partial

\* One node of the builder's stack is replaced.
LEMMA Replaced ==
  ASSUME NEW s \in Seq(Partial), NEW k \in 1..Len(s), NEW node \in Partial,
         NEW t, t = [s EXCEPT ![k] = node]
  PROVE  /\ t \in Seq(Partial) /\ Len(t) = Len(s) /\ t[k] = node
         /\ \A i \in 1..Len(s) : i # k => t[i] = s[i]
  BY ExceptSeq

\* The validator accepts the event that the state of the iterator calls for.
LEMMA ValidatorAgrees ==
  ASSUME TypeOK, ValidEvents, Counted, outcome = "Building", path # <<>> \/ top = <<>>
  PROVE  /\ top # <<>> /\ V!Push("Entry")
              => nest' = Len(path) /\ vstate' = "Node" /\ result' = "Ok"
         /\ top # <<>> /\ V!Push("Children")
              => nest' = Len(path) /\ vstate' = "Block" /\ result' = "Ok"
         /\ path # <<>> /\ V!Push("End")
              => nest' = Len(path) - 1 /\ vstate' = "Block" /\ result' = "Ok"
         /\ top = <<>> /\ V!Push("Node")
              => nest' = Len(path) + 1 /\ vstate' = "Node" /\ result' = "Ok"
<1>1. Len(path) \in Nat /\ (path # <<>> => Len(path) > 0)
  BY EmptySeq DEF TypeOK
<1> QED
  BY <1>1 DEF Counted, V!Push, V!PushEntry, V!PushChildren, V!PushEnd, V!PushNode, V!Move,
       V!Err

\* Whatever is accepted keeps the validator's types.
LEMMA ValidatorTypes ==
  ASSUME V!TypeOK, nest' \in Nat, vstate' \in {"Block", "Node", "Consumed"}, result' = "Ok",
         vstate' = "Node" => nest' > 0
  PROVE  V!TypeOK'
  BY DEF V!TypeOK, V!Results

\* An entry goes from the innermost open node of the iterator to the builder's.
LEMMA EntryKeeps ==
  ASSUME IInv, outcome = "Building", NextEntry, UNCHANGED doc
  PROVE  IInv'
<1> DEFINE n == Len(path)
           e == Head(top[1].entries)
           grown == NewNode(stack[n].name, Append(stack[n].entries, e), stack[n].children)
<1>1. /\ top # <<>> /\ top[1].entries # <<>> /\ path # <<>> /\ stack # <<>>
      /\ n \in Nat \ {0} /\ Len(stack) = n /\ Len(iterStack) = n
  BY Elements DEF IInv, NextEntry, Linked, Conserved
<1>2. /\ Len(top) = 1 /\ top[1].entries \in Seq(Entries) /\ top[1].children \in Seq(Seq(Nodes))
  BY <1>1, Elements DEF IInv
<1>3. e \in Entries /\ Tail(top[1].entries) \in Seq(Entries)
  BY <1>1, <1>2, HeadTailProperties
<1>4. /\ top' = <<[entries |-> Tail(top[1].entries), children |-> top[1].children]>>
      /\ UNCHANGED <<iterStack, path, doc, nodes, outcome>>
      /\ stack' = [stack EXCEPT ![n] = grown]
  <2>1. NextEntry /\ stack # <<>> /\ Len(stack) = n
    BY <1>1
  <2>2. BuildEntry(e) /\ top' = <<[entries |-> Tail(top[1].entries), children |-> top[1].children]>>
        /\ iterStack' = iterStack /\ path' = path
    BY <2>1 DEF NextEntry
  <2>3. /\ stack' = [stack EXCEPT ![Len(stack)] = NewNode(@.name, Append(@.entries, e), @.children)]
        /\ nodes' = nodes /\ outcome' = outcome
    BY <2>1, <2>2 DEF BuildEntry, Unwrap
  <2>4. stack' = [stack EXCEPT ![n] = grown]
    BY <2>1, <2>3
  <2> QED
    BY <2>2, <2>3, <2>4
<1>5. /\ stack[n] \in Partial /\ stack[n].entries \in Seq(Entries) /\ stack[n].name \in Names
      /\ stack[n].children \in Seq(Seq(Nodes))
  BY <1>1, Elements, PartialFields DEF IInv
<1>6. /\ grown \in Partial /\ grown.name = stack[n].name
      /\ grown.entries = Append(stack[n].entries, e) /\ grown.children = stack[n].children
  <2>1. Append(stack[n].entries, e) \in Seq(Entries)
    BY <1>3, <1>5
  <2> QED
    BY <1>5, <2>1 DEF NewNode, Partial
<1> HIDE DEF grown
<1>7. /\ stack' \in Seq(Partial) /\ Len(stack') = n /\ stack'[n] = grown
      /\ \A i \in 1..(n - 1) : stack'[i] = stack[i]
  <2>1. stack \in Seq(Partial) /\ n \in 1..Len(stack)
    BY <1>1 DEF IInv, TypeOK
  <2>2. /\ stack' \in Seq(Partial) /\ Len(stack') = Len(stack) /\ stack'[n] = grown
        /\ \A i \in 1..Len(stack) : i # n => stack'[i] = stack[i]
    BY <1>4, <1>6, <2>1, Replaced
  <2> QED
    BY <1>1, <2>2
<1>8. nest' = n /\ vstate' = "Node" /\ result' = "Ok"
  BY <1>1, ValidatorAgrees DEF IInv, NextEntry
<1>9. TypeOK'
  <2>1. V!TypeOK'
    BY <1>1, <1>8, ValidatorTypes DEF IInv, TypeOK
  <2>2. /\ top' \in Seq([entries : Seq(Entries), children : Seq(Seq(Nodes))])
        /\ Len(top') <= 1
    BY <1>2, <1>3, <1>4
  <2> QED
    BY <1>4, <1>7, <2>1, <2>2 DEF IInv, TypeOK
<1>10. Linked'
  <2>1. Append(stack[n].entries, e) \o Tail(top[1].entries) = stack[n].entries \o top[1].entries
    BY <1>1, <1>2, <1>5, ConcatMove
  <2>2. /\ top'[1].entries = Tail(top[1].entries) /\ top'[1].children = top[1].children
        /\ top' # <<>>
    BY <1>4
  <2>3. /\ \A i \in 1..n :
             /\ stack'[i].name = stack[i].name
             /\ stack'[i].children = stack[i].children
             /\ i < n => stack'[i].entries = stack[i].entries
    BY <1>1, <1>6, <1>7
  <2> QED
    BY <1>1, <1>4, <1>6, <1>7, <2>1, <2>2, <2>3 DEF IInv, Linked, Last
<1>11. Conserved'
  <2>1. \A i \in 1..n : stack'[i].children = stack[i].children
    BY <1>1, <1>6, <1>7
  <2>2. \A i \in 1..n : Built(i)' = Built(i) /\ Original(i)' = Original(i) /\ Open(i)' = Open(i)
    BY <1>1, <1>4, <2>1 DEF Built, Original, Open
  <2> QED
    BY <1>1, <1>4, <1>7, <2>2 DEF IInv, Conserved
<1> QED
  BY <1>1, <1>4, <1>8, <1>9, <1>10, <1>11 DEF IInv, ValidEvents, RoundTrip, Counted

\* The iterator enters the innermost node's block, the builder begins one.
LEMMA ChildrenKeeps ==
  ASSUME IInv, outcome = "Building", NextChildren, UNCHANGED doc
  PROVE  IInv'
<1>0. PICK n \in Nat : n = Len(path)
  BY Elements DEF IInv
<1> DEFINE c == top[1].children[1]
           begun == NewNode(stack[n].name, stack[n].entries, << <<>> >>)
<1>1. /\ top # <<>> /\ top[1].entries = <<>> /\ top[1].children # <<>>
      /\ path # <<>> /\ stack # <<>>
      /\ n \in Nat \ {0} /\ n = Len(path) /\ Len(stack) = n /\ Len(iterStack) = n
  BY <1>0, Elements DEF IInv, NextChildren, Linked, Conserved
<1>2. /\ stack[n] \in Partial /\ stack[n].entries \in Seq(Entries) /\ stack[n].name \in Names
      /\ path[n] \in Nodes
  BY <1>1, Elements, PartialFields DEF IInv
<1>3. /\ Len(path[n].children) = 1 /\ c = path[n].children[1] /\ c \in Seq(Nodes)
      /\ stack[n].entries = path[n].entries
  <2>1. path[n].children \in Seq(Seq(Nodes)) /\ Len(path[n].children) <= 1
    BY <1>2, DomAssumption, PartialFields
  <2>2. path[n].children = top[1].children /\ path[n].children # <<>>
    BY <1>1 DEF IInv, Linked, Last
  <2>3. Len(path[n].children) = 1
    BY <2>1, <2>2, OneElement
  <2>4. path[n].children[1] \in Seq(Nodes)
    BY <2>1, <2>2, OneElement
  <2>5. stack[n].entries \o <<>> = path[n].entries
    BY <1>1 DEF IInv, Linked, Last
  <2> QED
    BY <1>2, <2>2, <2>3, <2>4, <2>5, ConcatEmptySeq
<1>4. /\ top' = <<>> /\ iterStack' = Append(iterStack, c)
      /\ UNCHANGED <<path, doc, nodes, outcome>>
      /\ stack' = [stack EXCEPT ![n] = begun]
  <2>1. BuildChildren /\ top' = <<>> /\ iterStack' = Append(iterStack, c) /\ path' = path
    BY DEF NextChildren
  <2>2. /\ stack' = [stack EXCEPT ![Len(stack)] = NewNode(@.name, @.entries, << <<>> >>)]
        /\ nodes' = nodes /\ outcome' = outcome
    BY <1>1, <2>1 DEF BuildChildren, Unwrap
  <2>3. stack' = [stack EXCEPT ![n] = begun]
    BY <1>1, <2>2
  <2> QED
    BY <2>1, <2>2, <2>3
<1>5. /\ begun \in Partial /\ begun.name = stack[n].name
      /\ begun.entries = stack[n].entries /\ begun.children = << <<>> >>
  BY <1>2 DEF NewNode, Partial
<1> HIDE DEF begun
<1>6. /\ stack' \in Seq(Partial) /\ Len(stack') = n /\ stack'[n] = begun
      /\ \A i \in 1..(n - 1) : stack'[i] = stack[i]
  <2>1. stack \in Seq(Partial) /\ n \in 1..Len(stack)
    BY <1>1 DEF IInv, TypeOK
  <2>2. /\ stack' \in Seq(Partial) /\ Len(stack') = Len(stack) /\ stack'[n] = begun
        /\ \A i \in 1..Len(stack) : i # n => stack'[i] = stack[i]
    BY <1>4, <1>5, <2>1, Replaced
  <2> QED
    BY <1>1, <2>2
<1>7. /\ iterStack' \in Seq(Seq(Nodes)) /\ Len(iterStack') = n + 1
      /\ \A i \in 1..n : iterStack'[i] = iterStack[i]
      /\ iterStack'[n + 1] = c
  <2>1. iterStack \in Seq(Seq(Nodes)) /\ Len(iterStack) = n
    BY <1>1 DEF IInv, TypeOK
  <2> HIDE DEF c
  <2> QED
    BY <1>3, <1>4, <2>1, AppendProperties
<1>8. nest' = n /\ vstate' = "Block" /\ result' = "Ok"
  BY <1>1, ValidatorAgrees DEF IInv, NextChildren
<1>9. TypeOK'
  <2>1. V!TypeOK'
    BY <1>1, <1>8, ValidatorTypes DEF IInv, TypeOK
  <2>2. /\ top' \in Seq([entries : Seq(Entries), children : Seq(Seq(Nodes))])
        /\ Len(top') <= 1
    BY <1>4
  <2> QED
    BY <1>4, <1>6, <1>7, <2>1, <2>2 DEF IInv, TypeOK
<1>10. \A i \in 1..n : /\ stack'[i].name = stack[i].name
                       /\ stack'[i].entries = stack[i].entries
                       /\ i < n => stack'[i].children = stack[i].children
  BY <1>1, <1>5, <1>6
<1>11. Linked'
  <2>1. \A i \in 1..n : stack'[i].name = path[i].name /\ stack'[i].entries = path[i].entries
    BY <1>1, <1>3, <1>10 DEF IInv, Linked
  <2>2. \A i \in 1..n : Len(stack'[i].children) = 1 /\ Len(path[i].children) = 1
    <3>1. stack'[n].children = << <<>> >>
      BY <1>5, <1>6
    <3>2. Len(<< <<>> >>) = 1
      OBVIOUS
    <3>3. \A i \in 1..(n - 1) : Len(stack'[i].children) = 1 /\ Len(path[i].children) = 1
      BY <1>1, <1>10 DEF IInv, Linked
    <3>4. \A i \in 1..n : i \in 1..(n - 1) \/ i = n
      BY <1>1
    <3> QED
      BY <1>3, <3>1, <3>2, <3>3, <3>4
  <2> QED
    BY <1>1, <1>4, <1>7, <2>1, <2>2 DEF IInv, Linked
<1>12. Conserved'
  <2>1. \A i \in 1..n : Built(i)' = Built(i) /\ Original(i)' = Original(i) /\ Open(i)' = Open(i)
    BY <1>1, <1>4, <1>10 DEF Built, Original, Open
  <2>2. \A i \in 1..n : (Original(i) = Built(i) \o Open(i) \o iterStack[i])'
    BY <1>1, <1>7, <2>1 DEF IInv, Conserved
  <2>3. Original(n + 1)' = c /\ Built(n + 1)' = <<>> /\ Open(n + 1)' = <<>>
    <3>1. Original(n + 1)' = c
      BY <1>1, <1>3, <1>4 DEF Original
    <3>2. Built(n + 1)' = <<>>
      <4>1. stack'[n].children = << <<>> >>
        BY <1>5, <1>6
      <4>2. Built(n + 1)' = stack'[n].children[1]
        BY <1>1 DEF Built
      <4> QED
        BY <4>1, <4>2
    <3>3. Open(n + 1)' = <<>>
      BY <1>1, <1>4 DEF Open
    <3> QED
      BY <3>1, <3>2, <3>3
  <2>4. <<>> \o <<>> \o c = c
    <3> HIDE DEF c
    <3> QED
      BY <1>3, ConcatEmptySeq
  <2>5. Len(stack') = Len(path')
    BY <1>1, <1>4, <1>6
  <2>6. (Original(n + 1) = Built(n + 1) \o Open(n + 1) \o iterStack[n + 1])'
    BY <1>7, <2>3, <2>4
  <2>7. \A i \in 1..(n + 1) : i \in 1..n \/ i = n + 1
    BY <1>1
  <2>8. \A i \in 1..(n + 1) : (Original(i) = Built(i) \o Open(i) \o iterStack[i])'
    BY <2>2, <2>6, <2>7
  <2> QED
    BY <1>7, <2>5, <2>8 DEF Conserved
<1> QED
  BY <1>1, <1>4, <1>8, <1>9, <1>11, <1>12 DEF IInv, ValidEvents, RoundTrip, Counted

\* Wherever a node ends, its last event builds it in the block it came from.
LEMMA EndKeeps ==
  ASSUME IInv, outcome = "Building", UNCHANGED doc,
         path # <<>>, Last(stack) = Last(path),
         BuildEnd, V!Push("End"), path' = Front(path), top' = <<>>,
         iterStack' \in Seq(Seq(Nodes)), Len(iterStack') = Len(path),
         \A i \in 1..Len(path) : iterStack'[i] = iterStack[i],
         Len(iterStack) >= Len(path)
  PROVE  IInv'
<1>0. PICK n \in Nat : n = Len(path)
  BY Elements DEF IInv
<1>1. /\ n > 0 /\ Len(stack) = n /\ stack # <<>>
      /\ Len(iterStack') = n /\ \A i \in 1..n : iterStack'[i] = iterStack[i]
      /\ stack \in Seq(Partial) /\ path \in Seq(Nodes) /\ nodes \in Seq(Nodes)
  BY <1>0, Elements DEF IInv, Conserved, TypeOK
<1>2. /\ path' \in Seq(Nodes) /\ Len(path') = n - 1
      /\ \A i \in 1..(n - 1) : path'[i] = path[i]
      /\ path[n] \in Nodes /\ stack[n] = path[n] /\ Last(stack) = path[n]
  BY <1>0, <1>1, FrontElements DEF Last
<1>3. /\ Front(stack) \in Seq(Partial) /\ Len(Front(stack)) = n - 1
      /\ \A i \in 1..(n - 1) : Front(stack)[i] = stack[i]
  BY <1>1, FrontElements
<1>4. \A i \in 1..(n - 1) :
        /\ stack[i] \in Partial
        /\ stack[i].name \in Names /\ stack[i].entries \in Seq(Entries)
        /\ stack[i].children \in Seq(Seq(Nodes)) /\ stack[i].children[1] \in Seq(Nodes)
        /\ stack[i].name = path[i].name /\ stack[i].entries = path[i].entries
        /\ Len(stack[i].children) = 1 /\ Len(path[i].children) = 1
  <2> TAKE i \in 1..(n - 1)
  <2>1. i \in 1..Len(path) /\ i < Len(iterStack) /\ i \in 1..Len(stack)
    BY <1>0, <1>1, Elements DEF IInv
  <2>2. /\ stack[i].name = path[i].name /\ stack[i].entries = path[i].entries
        /\ Len(stack[i].children) = 1 /\ Len(path[i].children) = 1
    BY <2>1 DEF IInv, Linked
  <2>3. stack[i] \in Partial
    BY <1>1, <2>1, ElementOfSeq
  <2>4. /\ stack[i].name \in Names /\ stack[i].entries \in Seq(Entries)
        /\ stack[i].children \in Seq(Seq(Nodes))
    BY <2>3, PartialFields
  <2>5. stack[i].children[1] \in Seq(Nodes)
    BY <2>2, <2>4, ElementOfSeq
  <2> QED
    BY <2>2, <2>3, <2>4, <2>5
<1>5. nest' = n - 1 /\ vstate' = "Block" /\ result' = "Ok"
  <2>1. path # <<>> /\ ValidEvents /\ Counted /\ TypeOK
    BY DEF IInv
  <2> QED
    BY <1>0, <2>1, ValidatorAgrees
<1>6. V!TypeOK'
  BY <1>1, <1>5, ValidatorTypes DEF IInv, TypeOK
\* Afterwards, block n has one more node, and everything else is as before.
<1> DEFINE Kept ==
             /\ outcome' = outcome /\ nodes' \in Seq(Nodes)
             /\ stack' \in Seq(Partial) /\ Len(stack') = n - 1
             /\ \A i \in 1..(n - 1) :
                  /\ stack'[i].name = stack[i].name /\ stack'[i].entries = stack[i].entries
                  /\ Len(stack'[i].children) = 1
             /\ \A i \in 1..n : Built(i)' = IF i = n THEN Append(Built(i), path[n])
                                            ELSE Built(i)
<1>7. ASSUME n = 1 PROVE Kept
  <2>1. stack' = <<>> /\ nodes' = Append(nodes, path[n]) /\ outcome' = outcome
    BY <1>1, <1>2, <1>7 DEF BuildEnd, Unwrap
  <2>2. Append(nodes, path[n]) \in Seq(Nodes)
    BY <1>1, <1>2, AppendProperties
  <2>3. Built(1)' = nodes' /\ Built(1) = nodes
    BY DEF Built
  <2>4. Len(stack') = 0 /\ stack' \in Seq(Partial)
    BY <2>1
  <2>5. \A i \in 1..n : Built(i)' = IF i = n THEN Append(Built(i), path[n]) ELSE Built(i)
    BY <1>7, <2>1, <2>3
  <2>6. \A i \in 1..(n - 1) : FALSE
    BY <1>7
  <2>7. stack' \in Seq(Partial) /\ Len(stack') = n - 1 /\ nodes' \in Seq(Nodes)
    BY <1>7, <2>1, <2>2, <2>4
  <2> QED
    BY <2>1, <2>5, <2>6, <2>7
<1>8. ASSUME n > 1 PROVE Kept
  <2> DEFINE block == stack[n - 1].children[1]
             parent == NewNode(stack[n - 1].name, stack[n - 1].entries,
                               <<Append(block, path[n])>>)
  <2>1. Last(Front(stack)) = stack[n - 1] /\ stack[n - 1].children # <<>>
    <3>1. n - 1 \in 1..(n - 1)
      BY <1>8
    <3>2. Len(stack[n - 1].children) = 1
      BY <1>4, <3>1
    <3>3. stack[n - 1].children # <<>>
      BY <1>4, <3>1, <3>2, EmptySeq
    <3> QED
      BY <1>3, <3>1, <3>3 DEF Last
  <2>2. /\ stack' = [Front(stack) EXCEPT ![Len(stack) - 1] =
                       NewNode(@.name, @.entries, <<Append(@.children[1], Last(stack))>>)]
        /\ nodes' = nodes /\ outcome' = outcome
    BY <1>1, <1>8, <2>1 DEF BuildEnd, Unwrap
  <2>3. stack' = [Front(stack) EXCEPT ![n - 1] = parent]
    <3>1. Front(stack)[n - 1] = stack[n - 1]
      BY <1>3, <1>8
    <3> QED
      BY <1>1, <1>2, <2>2, <3>1
  <2>4. /\ parent \in Partial /\ parent.name = stack[n - 1].name
        /\ parent.entries = stack[n - 1].entries
        /\ parent.children = <<Append(block, path[n])>>
    <3>1. <<Append(block, path[n])>> \in Seq(Seq(Nodes))
      <4>1. n - 1 \in 1..(n - 1)
        BY <1>8
      <4>2. block \in Seq(Nodes)
        BY <1>4, <4>1
      <4> HIDE DEF block
      <4>3. Append(block, path[n]) \in Seq(Nodes)
        BY <1>2, <4>2, AppendProperties
      <4> QED
        BY <4>3
    <3>2. stack[n - 1].name \in Names /\ stack[n - 1].entries \in Seq(Entries)
      BY <1>4, <1>8
    <3> HIDE DEF block
    <3> QED
      BY <3>1, <3>2 DEF NewNode, Partial
  <2> HIDE DEF parent
  <2>5. /\ stack' \in Seq(Partial) /\ Len(stack') = n - 1 /\ stack'[n - 1] = parent
        /\ \A i \in 1..(n - 1) : i # n - 1 => stack'[i] = Front(stack)[i]
    <3>1. n - 1 \in 1..Len(Front(stack))
      BY <1>3, <1>8
    <3> QED
      BY <1>3, <2>3, <2>4, <3>1, Replaced
  <2>6. \A i \in 1..(n - 1) :
          /\ stack'[i].name = stack[i].name /\ stack'[i].entries = stack[i].entries
          /\ i # n - 1 => stack'[i].children = stack[i].children
    BY <1>3, <2>4, <2>5
  <2>7. stack'[n - 1].children = <<Append(block, path[n])>>
    BY <2>4, <2>5
  <2>8. \A i \in 1..(n - 1) : Len(stack'[i].children) = 1
    <3>1. Len(stack'[n - 1].children) = 1
      BY <2>7
    <3>2. \A i \in 1..(n - 1) : i # n - 1 => Len(stack'[i].children) = 1
      BY <1>4, <2>6
    <3> QED
      BY <3>1, <3>2
  <2>9. Built(n)' = Append(Built(n), path[n])
    <3>1. Built(n)' = stack'[n - 1].children[1]
      BY <1>8 DEF Built
    <3>2. Built(n) = block
      BY <1>8 DEF Built
    <3>3. stack'[n - 1].children[1] = Append(block, path[n])
      BY <2>7
    <3> QED
      BY <3>1, <3>2, <3>3
  <2>10. \A i \in 1..n : i # n => Built(i)' = Built(i)
    <3> SUFFICES ASSUME NEW i \in 1..n, i # n
                 PROVE  Built(i)' = Built(i)
      OBVIOUS
    <3>1. CASE i = 1
      BY <2>2, <3>1 DEF Built
    <3>2. CASE i > 1
      <4>1. i - 1 \in 1..(n - 1) /\ i - 1 # n - 1
        BY <3>2
      <4>2. stack'[i - 1].children = stack[i - 1].children
        BY <2>6, <4>1
      <4> QED
        BY <3>2, <4>2 DEF Built
    <3> QED
      BY <3>1, <3>2
  <2>11. \A i \in 1..n : Built(i)' = IF i = n THEN Append(Built(i), path[n]) ELSE Built(i)
    BY <2>9, <2>10
  <2>12. nodes' \in Seq(Nodes) /\ outcome' = outcome
    BY <1>1, <2>2
  <2> QED
    BY <2>5, <2>6, <2>8, <2>11, <2>12
<1>9. Kept
  <2>1. n = 1 \/ n > 1
    BY <1>1
  <2> HIDE DEF Kept
  <2> QED
    BY <1>7, <1>8, <2>1
<1>10. TypeOK'
  <2>1. top' \in Seq([entries : Seq(Entries), children : Seq(Seq(Nodes))]) /\ Len(top') <= 1
    OBVIOUS
  <2> QED
    BY <1>2, <1>6, <1>9, <2>1 DEF IInv, TypeOK
<1>11. Linked'
  <2>1. outcome' = "Building" /\ top' = <<>> /\ Len(iterStack') = Len(path') + 1
    BY <1>1, <1>2, <1>9
  <2>2. \A i \in 1..(n - 1) :
          /\ stack'[i].name = path'[i].name /\ stack'[i].entries = path'[i].entries
          /\ Len(stack'[i].children) = 1 /\ Len(path'[i].children) = 1
    BY <1>2, <1>4, <1>9
  <2> HIDE DEF Kept
  <2> QED
    BY <1>2, <2>1, <2>2 DEF Linked
<1>12. \A i \in 1..n : (Original(i) = Built(i) \o Open(i) \o iterStack[i])'
  <2> SUFFICES ASSUME NEW i \in 1..n
               PROVE  (Original(i) = Built(i) \o Open(i) \o iterStack[i])'
    OBVIOUS
  <2>1. Original(i)' = Original(i)
    <3>1. CASE i = 1
      BY <3>1 DEF Original
    <3>2. CASE i > 1
      <4>1. i - 1 \in 1..(n - 1)
        BY <3>2
      <4>2. path'[i - 1] = path[i - 1]
        BY <1>2, <4>1
      <4> QED
        BY <3>2, <4>2 DEF Original
    <3> QED
      BY <3>1, <3>2
  <2>2. Original(i) = Built(i) \o Open(i) \o iterStack[i]
    <3>1. i \in 1..Len(iterStack)
      BY <1>0, Elements DEF IInv
    <3> QED
      BY <3>1 DEF IInv, Conserved
  <2>3. Open(i) = <<path[i]>>
    BY <1>0 DEF Open
  <2>4. iterStack'[i] = iterStack[i] /\ iterStack[i] \in Seq(Nodes)
    <3>1. i \in 1..Len(iterStack)
      BY <1>0, Elements DEF IInv
    <3> QED
      BY <1>1, <3>1, Elements DEF IInv
  <2>5. CASE i < n
    <3>1. Open(i)' = <<path[i]>>
      BY <1>2, <2>5 DEF Open
    <3>2. Built(i)' = Built(i)
      BY <1>9, <2>5
    <3> QED
      BY <2>1, <2>2, <2>3, <2>4, <3>1, <3>2
  <2>6. CASE i = n
    <3>1. Open(i)' = <<>>
      BY <1>2, <2>6 DEF Open
    <3>2. Built(i)' = Append(Built(i), path[n])
      BY <1>9, <2>6
    <3>3. Built(i) \in Seq(Nodes)
      <4>1. CASE i = 1
        BY <1>1, <4>1 DEF Built
      <4>2. CASE i > 1
        <5>1. i - 1 \in 1..(n - 1)
          BY <4>2
        <5> QED
          BY <1>4, <4>2, <5>1 DEF Built
      <4> QED
        BY <4>1, <4>2
    <3>4. Append(Built(i), path[n]) \o <<>> \o iterStack[i]
            = Built(i) \o <<path[n]>> \o iterStack[i]
      <4>1. PICK b \in Seq(Nodes) : b = Built(i)
        BY <3>3
      <4>2. PICK r \in Seq(Nodes) : r = iterStack[i]
        BY <2>4
      <4>3. PICK x \in Nodes : x = path[n]
        BY <1>2
      <4>4. Append(b, x) \o <<>> \o r = b \o <<x>> \o r
        BY ConcatClose, Zenon
      <4> QED
        BY <4>1, <4>2, <4>3, <4>4
    <3> QED
      BY <2>1, <2>2, <2>3, <2>4, <2>6, <3>1, <3>2, <3>4
  <2>7. i < n \/ i = n
    OBVIOUS
  <2> QED
    BY <2>5, <2>6, <2>7
<1>13. Conserved'
  BY <1>1, <1>2, <1>9, <1>12 DEF Conserved
<1> QED
  BY <1>2, <1>5, <1>9, <1>10, <1>11, <1>13 DEF IInv, ValidEvents, RoundTrip, Counted

\* Two nodes with the same fields are the same.
LEMMA SameNode ==
  ASSUME NEW a \in Partial, NEW b \in Partial,
         a.name = b.name, a.entries = b.entries, a.children = b.children
  PROVE  a = b
  BY DEF Partial

\* A node without a block ends when its entries do.
LEMMA EndNodeKeeps ==
  ASSUME IInv, outcome = "Building", EndNode, UNCHANGED doc
  PROVE  IInv'
<1>0. PICK n \in Nat : n = Len(path)
  BY Elements DEF IInv
<1>1. /\ top # <<>> /\ path # <<>> /\ n \in 1..n /\ Len(stack) = n /\ Len(iterStack) = n
      /\ top[1].entries = <<>> /\ top[1].children = <<>>
  BY <1>0, Elements DEF IInv, EndNode, Linked, Conserved
<1>2. stack[n] \in Partial /\ path[n] \in Nodes /\ path[n] \in Partial
  BY <1>0, <1>1, Elements, DomAssumption DEF IInv
<1>3. stack[n].entries \in Seq(Entries)
  BY <1>2, PartialFields
<1>4. stack[n] = path[n]
  <2>1. /\ stack[n].name = path[n].name /\ stack[n].children = path[n].children
        /\ stack[n].entries \o <<>> = path[n].entries
    BY <1>0, <1>1 DEF IInv, Linked, Last
  <2> QED
    BY <1>2, <1>3, <2>1, SameNode, ConcatEmptySeq
<1>5. Last(stack) = Last(path)
  BY <1>0, <1>1, <1>4 DEF Last
<1>6. /\ BuildEnd /\ V!Push("End") /\ path' = Front(path) /\ top' = <<>>
      /\ iterStack' = iterStack
  BY DEF EndNode
<1>7. iterStack' \in Seq(Seq(Nodes))
  BY <1>6 DEF IInv, TypeOK
<1> QED
  BY <1>0, <1>1, <1>5, <1>6, <1>7, EndKeeps

\* A node with a block ends when its block does.
LEMMA EndBlockKeeps ==
  ASSUME IInv, outcome = "Building", EndBlock, UNCHANGED doc
  PROVE  IInv'
<1>0. PICK n \in Nat : n = Len(path)
  BY Elements DEF IInv
<1>1. /\ top = <<>> /\ path # <<>> /\ n \in 1..n /\ Len(stack) = n /\ Len(iterStack) = n + 1
      /\ iterStack # <<>> /\ iterStack[n + 1] = <<>>
  <2>1. top = <<>> /\ Len(iterStack) > 1 /\ Last(iterStack) = <<>>
    BY DEF EndBlock
  <2>2. Len(iterStack) = n + 1 /\ Len(stack) = n
    BY <1>0, <2>1 DEF IInv, Linked, Conserved
  <2>3. iterStack # <<>> /\ path # <<>>
    BY <1>0, <2>1, <2>2, EmptySeq DEF IInv, TypeOK
  <2> QED
    BY <1>0, <2>1, <2>2, <2>3 DEF Last
<1>2. stack[n] \in Partial /\ path[n] \in Nodes /\ path[n] \in Partial
  BY <1>0, <1>1, Elements, DomAssumption DEF IInv
<1>3. /\ stack[n].name = path[n].name /\ stack[n].entries = path[n].entries
      /\ Len(stack[n].children) = 1 /\ Len(path[n].children) = 1
  BY <1>0, <1>1 DEF IInv, Linked
<1>4. /\ stack[n].children \in Seq(Seq(Nodes)) /\ stack[n].children[1] \in Seq(Nodes)
      /\ path[n].children \in Seq(Seq(Nodes))
  BY <1>2, <1>3, PartialFields, ElementOfSeq
<1>5. path[n].children[1] = stack[n].children[1] \o <<>> \o <<>>
  <2>1. n + 1 \in 1..Len(iterStack) /\ n + 1 # 1 /\ ~(n + 1 <= Len(path)) /\ n + 1 - 1 = n
    BY <1>0, <1>1
  <2>2. Original(n + 1) = Built(n + 1) \o Open(n + 1) \o iterStack[n + 1]
    BY <2>1 DEF IInv, Conserved
  <2>3. Original(n + 1) = path[n].children[1]
    BY <2>1 DEF Original
  <2>4. Built(n + 1) = stack[n].children[1]
    BY <2>1 DEF Built
  <2>5. Open(n + 1) = <<>>
    BY <2>1 DEF Open
  <2> QED
    BY <1>1, <2>2, <2>3, <2>4, <2>5
<1>6. stack[n] = path[n]
  <2>1. stack[n].children[1] \o <<>> \o <<>> = stack[n].children[1]
    BY <1>4, ConcatEmptySeq
  <2>2. stack[n].children = path[n].children
    BY <1>3, <1>4, <1>5, <2>1, SeqEqual
  <2> QED
    BY <1>2, <1>3, <2>2, SameNode
<1>7. Last(stack) = Last(path)
  BY <1>0, <1>1, <1>6 DEF Last
<1>8. /\ BuildEnd /\ V!Push("End") /\ path' = Front(path) /\ top' = <<>>
      /\ iterStack' = Front(iterStack)
  BY <1>1 DEF EndBlock
<1>9. /\ iterStack' \in Seq(Seq(Nodes)) /\ Len(iterStack') = n
      /\ \A i \in 1..n : iterStack'[i] = iterStack[i]
  <2>1. iterStack \in Seq(Seq(Nodes)) /\ n + 1 - 1 = n
    BY <1>0 DEF IInv, TypeOK
  <2>2. /\ Front(iterStack) \in Seq(Seq(Nodes))
        /\ Len(Front(iterStack)) = Len(iterStack) - 1
        /\ \A i \in 1..(Len(iterStack) - 1) : Front(iterStack)[i] = iterStack[i]
    BY <1>1, <2>1, FrontElements
  <2> QED
    BY <1>1, <1>8, <2>1, <2>2
<1> QED
  BY <1>0, <1>1, <1>7, <1>8, <1>9, EndKeeps

\* A node is opened on both sides.
LEMMA NodeKeeps ==
  ASSUME IInv, outcome = "Building", NextNode, UNCHANGED doc
  PROVE  IInv'
<1>0. PICK n \in Nat : n = Len(path)
  BY Elements DEF IInv
<1> DEFINE rest == iterStack[n + 1]
           node == Head(rest)
           fresh == NewNode(node.name, <<>>, <<>>)
<1>1. top = <<>> /\ Len(stack) = n /\ Len(iterStack) = n + 1 /\ Last(iterStack) = rest
  BY <1>0 DEF IInv, NextNode, Linked, Conserved, Last
<1>2. rest \in Seq(Nodes) /\ rest # <<>>
  <2>1. n + 1 \in 1..Len(iterStack)
    BY <1>1
  <2>2. rest \in Seq(Nodes)
    BY <2>1, Elements DEF IInv
  <2>3. Last(iterStack) # <<>>
    BY DEF NextNode
  <2> QED
    BY <1>1, <2>2, <2>3
<1>3. node \in Nodes /\ node \in Partial /\ Tail(rest) \in Seq(Nodes)
  <2> HIDE DEF rest
  <2> QED
    BY <1>2, HeadTailProperties, DomAssumption
<1>4. node.name \in Names /\ node.entries \in Seq(Entries) /\ node.children \in Seq(Seq(Nodes))
  <2> HIDE DEF node
  <2> QED
    BY <1>3, PartialFields
<1>5. /\ fresh \in Partial /\ fresh.name = node.name /\ fresh.entries = <<>>
      /\ fresh.children = <<>>
  <2> HIDE DEF node
  <2> QED
    BY <1>4 DEF NewNode, Partial
<1>6. /\ iterStack' = [iterStack EXCEPT ![n + 1] = Tail(rest)]
      /\ top' = <<[entries |-> node.entries, children |-> node.children]>>
      /\ stack' = Append(stack, fresh) /\ path' = Append(path, node)
      /\ UNCHANGED <<doc, nodes, outcome>>
  <2>1. /\ iterStack' = [iterStack EXCEPT ![Len(iterStack)] = Tail(@)]
        /\ top' = <<[entries |-> Head(Last(iterStack)).entries,
                     children |-> Head(Last(iterStack)).children]>>
        /\ BuildNode(Head(Last(iterStack)).name)
        /\ path' = Append(path, Head(Last(iterStack)))
    BY DEF NextNode
  <2>2. iterStack' = [iterStack EXCEPT ![n + 1] = Tail(rest)]
    BY <1>1, <2>1
  <2> QED
    BY <1>1, <2>1, <2>2 DEF BuildNode
<1>7. V!Push("Node")
  BY DEF NextNode
<1> HIDE DEF fresh, node
<1>8. /\ stack' \in Seq(Partial) /\ Len(stack') = n + 1 /\ stack'[n + 1] = fresh
      /\ \A i \in 1..n : stack'[i] = stack[i]
  <2>1. stack \in Seq(Partial)
    BY DEF IInv, TypeOK
  <2> QED
    BY <1>1, <1>5, <1>6, <2>1, AppendProperties
<1>9. /\ path' \in Seq(Nodes) /\ Len(path') = n + 1 /\ path'[n + 1] = node
      /\ \A i \in 1..n : path'[i] = path[i]
  <2>1. path \in Seq(Nodes)
    BY DEF IInv, TypeOK
  <2> QED
    BY <1>0, <1>3, <1>6, <2>1, AppendProperties
<1>10. /\ iterStack' \in Seq(Seq(Nodes)) /\ Len(iterStack') = n + 1
       /\ iterStack'[n + 1] = Tail(rest)
       /\ \A i \in 1..n : iterStack'[i] = iterStack[i]
  <2>1. iterStack \in Seq(Seq(Nodes)) /\ n + 1 \in 1..Len(iterStack)
    BY <1>1 DEF IInv, TypeOK
  <2> DEFINE tail == Tail(rest)
  <2>2. tail \in Seq(Nodes) /\ iterStack' = [iterStack EXCEPT ![n + 1] = tail]
    BY <1>3, <1>6
  <2> HIDE DEF tail
  <2>3. /\ iterStack' \in Seq(Seq(Nodes)) /\ Len(iterStack') = n + 1
        /\ iterStack'[n + 1] = tail
        /\ \A i \in 1..(n + 1) : i # n + 1 => iterStack'[i] = iterStack[i]
    BY <1>1, <2>1, <2>2, ExceptSeq
  <2> QED
    BY <2>3 DEF tail
<1> HIDE DEF rest
<1>11. nest' = n + 1 /\ vstate' = "Node" /\ result' = "Ok"
  <2>1. ValidEvents /\ Counted /\ TypeOK
    BY DEF IInv
  <2> QED
    BY <1>0, <1>1, <1>7, <2>1, ValidatorAgrees
<1>12. TypeOK'
  <2>1. V!TypeOK'
    BY <1>11, ValidatorTypes DEF IInv, TypeOK
  <2>2. /\ top' \in Seq([entries : Seq(Entries), children : Seq(Seq(Nodes))])
        /\ Len(top') <= 1
    BY <1>4, <1>6
  <2> QED
    BY <1>6, <1>8, <1>9, <1>10, <2>1, <2>2 DEF IInv, TypeOK
<1>13. Linked'
  <2>1. \A i \in 1..n : /\ stack'[i].name = path'[i].name
                        /\ stack'[i].entries = path'[i].entries
                        /\ Len(stack'[i].children) = 1 /\ Len(path'[i].children) = 1
    BY <1>0, <1>1, <1>8, <1>9 DEF IInv, Linked
  <2>2. stack'[n + 1].name = path'[n + 1].name
    BY <1>5, <1>8, <1>9
  <2>3. /\ outcome' = "Building" /\ top' # <<>> /\ path' # <<>>
        /\ Len(iterStack') = n + 1 /\ Len(path') = n + 1
    BY <1>6, <1>9, <1>10, EmptySeq
  <2>4. /\ stack'[n + 1].entries \o top'[1].entries = path'[n + 1].entries
        /\ stack'[n + 1].children = <<>> /\ top'[1].children = path'[n + 1].children
    BY <1>4, <1>5, <1>6, <1>8, <1>9, ConcatEmptySeq
  <2>5. Last(stack)' = stack'[n + 1] /\ Last(path)' = path'[n + 1]
    BY <1>8, <1>9 DEF Last
  <2>6. \A i \in 1..(n + 1) : i \in 1..n \/ (i = n + 1 /\ ~(i < n + 1))
    OBVIOUS
  <2>7. \A i \in 1..(n + 1) :
          /\ stack'[i].name = path'[i].name
          /\ i < n + 1 =>
               /\ stack'[i].entries = path'[i].entries
               /\ Len(stack'[i].children) = 1 /\ Len(path'[i].children) = 1
    BY <2>1, <2>2, <2>6
  <2> QED
    BY <2>3, <2>4, <2>5, <2>7 DEF Linked
<1>14. Conserved'
  <2>1. \A i \in 1..(n + 1) : Built(i)' = Built(i) /\ Original(i)' = Original(i)
    <3> SUFFICES ASSUME NEW i \in 1..(n + 1)
                 PROVE  Built(i)' = Built(i) /\ Original(i)' = Original(i)
      OBVIOUS
    <3>1. CASE i = 1
      BY <1>6, <3>1 DEF Built, Original
    <3>2. CASE i > 1
      <4>1. i - 1 \in 1..n
        BY <3>2
      <4>2. stack'[i - 1] = stack[i - 1] /\ path'[i - 1] = path[i - 1]
        BY <1>8, <1>9, <4>1
      <4> QED
        BY <3>2, <4>2 DEF Built, Original
    <3> QED
      BY <3>1, <3>2
  <2>2. \A i \in 1..n : (Original(i) = Built(i) \o Open(i) \o iterStack[i])'
    <3> SUFFICES ASSUME NEW i \in 1..n
                 PROVE  (Original(i) = Built(i) \o Open(i) \o iterStack[i])'
      OBVIOUS
    <3>1. i \in 1..(n + 1) /\ i \in 1..Len(iterStack)
      BY <1>1
    <3>2. Original(i) = Built(i) \o Open(i) \o iterStack[i]
      BY <3>1 DEF IInv, Conserved
    <3>3. Open(i)' = Open(i)
      BY <1>0, <1>9 DEF Open
    <3>4. iterStack'[i] = iterStack[i]
      BY <1>10
    <3> QED
      BY <2>1, <3>1, <3>2, <3>3, <3>4
  <2>3. Original(n + 1)' = Built(n + 1)' \o Open(n + 1)' \o iterStack'[n + 1]
    <3>1. Original(n + 1) = Built(n + 1) \o <<>> \o rest
      <4>1. n + 1 \in 1..Len(iterStack) /\ ~(n + 1 <= Len(path))
        BY <1>0, <1>1
      <4>2. Original(n + 1) = Built(n + 1) \o Open(n + 1) \o iterStack[n + 1]
        BY <4>1 DEF IInv, Conserved
      <4> QED
        BY <4>1, <4>2 DEF Open, rest
    <3>2. Built(n + 1) \in Seq(Nodes)
      <4>1. CASE n = 0
        BY <4>1 DEF Built, IInv, TypeOK
      <4>2. CASE n > 0
        <5>1. n \in 1..Len(stack) /\ n \in 1..Len(path) /\ n < Len(iterStack)
          BY <1>0, <1>1, <4>2
        <5>2. stack[n] \in Partial /\ Len(stack[n].children) = 1
          BY <5>1, Elements DEF IInv, Linked
        <5>3. stack[n].children \in Seq(Seq(Nodes))
          BY <5>2, PartialFields
        <5>4. stack[n].children[1] \in Seq(Nodes)
          BY <5>2, <5>3, ElementOfSeq
        <5> QED
          BY <4>2, <5>4 DEF Built
      <4> QED
        BY <4>1, <4>2
    <3>3. PICK b \in Seq(Nodes) : b = Built(n + 1)
      BY <3>2
    <3>4. b \o <<>> \o rest = b \o <<Head(rest)>> \o Tail(rest)
      BY <1>2, ConcatOpen
    <3>5. Open(n + 1)' = <<Head(rest)>>
      BY <1>9 DEF Open, node
    <3>6. Built(n + 1)' = b /\ Original(n + 1)' = b \o <<>> \o rest
      BY <2>1, <3>1, <3>3
    <3> QED
      BY <1>10, <3>4, <3>5, <3>6
  <2>4. \A i \in 1..(n + 1) : i \in 1..n \/ i = n + 1
    OBVIOUS
  <2>5. \A i \in 1..(n + 1) : (Original(i) = Built(i) \o Open(i) \o iterStack[i])'
    BY <2>2, <2>3, <2>4
  <2>6. Len(stack') = Len(path')
    BY <1>8, <1>9
  <2> QED
    BY <1>10, <2>5, <2>6 DEF Conserved
<1> QED
  BY <1>6, <1>9, <1>11, <1>12, <1>13, <1>14 DEF IInv, ValidEvents, RoundTrip, Counted

\* When the iterator is done, everything is built.
LEMMA DocumentKeeps ==
  ASSUME IInv, outcome = "Building", EndDocument, UNCHANGED doc
  PROVE  IInv'
<1>1. /\ top = <<>> /\ Len(iterStack) = 1 /\ iterStack[1] = <<>>
      /\ iterStack' = <<>> /\ outcome' = "Built" /\ V!Done
      /\ UNCHANGED <<top, stack, nodes, path, doc>>
  BY DEF EndDocument, Last
<1>2. path = <<>> /\ stack = <<>>
  <2>1. Len(iterStack) = Len(path) + 1 /\ Len(stack) = Len(path)
    BY <1>1 DEF IInv, Linked, Conserved
  <2>2. Len(path) = 0 /\ Len(stack) = 0
    BY <1>1, <2>1, Elements DEF IInv
  <2> QED
    BY <2>2, EmptySeq DEF IInv, TypeOK
<1>3. nodes = doc
  <2>1. Original(1) = Built(1) \o Open(1) \o iterStack[1]
    BY <1>1 DEF IInv, Conserved
  <2>2. Len(path) = 0
    BY <1>2
  <2>3. Original(1) = doc /\ Built(1) = nodes /\ Open(1) = <<>>
    BY <2>2 DEF Original, Built, Open
  <2>4. doc = nodes \o <<>> \o <<>>
    BY <1>1, <2>1, <2>3
  <2>5. nodes \in Seq(Nodes)
    BY DEF IInv, TypeOK
  <2> QED
    BY <2>4, <2>5, ConcatEmptySeq
<1>4. nest' = 0 /\ vstate' = "Consumed" /\ result' = "Ok"
  <2>1. nest = 0
    BY <1>2 DEF IInv, Counted
  <2> QED
    BY <1>1, <2>1 DEF V!Done
<1>5. TypeOK'
  <2>1. V!TypeOK'
    BY <1>4, ValidatorTypes DEF IInv, TypeOK
  <2>2. iterStack' \in Seq(Seq(Nodes))
    BY <1>1
  <2> QED
    BY <1>1, <2>1, <2>2 DEF IInv, TypeOK
<1>6. Len(iterStack') = 0 /\ Len(path') = 0
  BY <1>1, <1>2
<1> QED
  BY <1>1, <1>2, <1>3, <1>4, <1>5, <1>6
     DEF IInv, ValidEvents, RoundTrip, Counted, Linked, Conserved

-----------------------------------------------------------------------------

\* At the start the whole document is still to come.
LEMMA InitHolds ==
  ASSUME Init
  PROVE  IInv
<1>1. /\ doc \in Seq(Nodes) /\ doc \in Documents /\ iterStack = <<doc>> /\ top = <<>>
      /\ stack = <<>> /\ nodes = <<>> /\ outcome = "Building" /\ path = <<>>
      /\ nest = 0 /\ vstate = "Block" /\ result = "Ok"
  BY DomAssumption DEF Init, V!Init
<1>2. TypeOK
  BY <1>1 DEF TypeOK, V!TypeOK, V!Results
<1>3. Conserved
  <2>1. doc = <<>> \o <<>> \o doc
    BY <1>1, ConcatEmptySeq
  <2>2. Original(1) = doc /\ Built(1) = <<>> /\ Open(1) = <<>> /\ iterStack[1] = doc
    BY <1>1 DEF Original, Built, Open
  <2>3. Len(iterStack) = 1 /\ Len(stack) = Len(path)
    BY <1>1
  <2>4. \A i \in 1..Len(iterStack) : i = 1
    BY <2>3
  <2> QED
    BY <2>1, <2>2, <2>3, <2>4 DEF Conserved
<1>4. Linked
  BY <1>1 DEF Linked
<1> QED
  BY <1>1, <1>2, <1>3, <1>4 DEF IInv, ValidEvents, RoundTrip, Counted

\* Nothing is read from the state but the variables.
LEMMA StutterKeeps ==
  ASSUME IInv, UNCHANGED vars
  PROVE  IInv'
  BY DEF IInv, vars, iterVars, builderVars, validatorVars, TypeOK, ValidEvents, RoundTrip,
         Conserved, Linked, Counted, Original, Built, Open, Last, V!TypeOK

\* IInv is inductive.
THEOREM Invariance == Spec => []IInv
<1>1. Init => IInv
  BY InitHolds
<1>2. IInv /\ [Next]_vars => IInv'
  <2> SUFFICES ASSUME IInv, [Next]_vars
               PROVE  IInv'
    OBVIOUS
  <2>1. CASE UNCHANGED vars
    BY <2>1, StutterKeeps
  <2>2. CASE Next
    <3>1. outcome = "Building" /\ UNCHANGED doc /\ Step
      BY <2>2 DEF Next
    <3>2. CASE NextEntry
      BY <3>1, <3>2, EntryKeeps
    <3>3. CASE NextChildren
      BY <3>1, <3>3, ChildrenKeeps
    <3>4. CASE EndNode
      BY <3>1, <3>4, EndNodeKeeps
    <3>5. CASE NextNode
      BY <3>1, <3>5, NodeKeeps
    <3>6. CASE EndBlock
      BY <3>1, <3>6, EndBlockKeeps
    <3>7. CASE EndDocument
      BY <3>1, <3>7, DocumentKeeps
    <3> QED
      BY <3>1, <3>2, <3>3, <3>4, <3>5, <3>6, <3>7 DEF Step
  <2> QED
    BY <2>1, <2>2
<1> QED
  BY <1>1, <1>2, PTL DEF Spec

\* The iterator and the builder only ever hold well-typed nodes.
THEOREM TypeCorrect == Spec => []TypeOK
<1>1. IInv => TypeOK
  BY DEF IInv
<1> QED
  BY <1>1, Invariance, PTL

\* from_iter gives back the document that into_iter took apart, whatever it is:
\* the nodes in order, their entries in order, empty blocks and none told apart.
THEOREM RoundTripCorrect == Spec => []RoundTrip
<1>1. IInv => RoundTrip
  BY DEF IInv
<1> QED
  BY <1>1, Invariance, PTL

\* Every document's events are a structurally valid stream, and the builder,
\* whose unwraps panic on others, takes them all.
THEOREM EventsAreValid == Spec => []ValidEvents
<1>1. IInv => ValidEvents
  BY DEF IInv
<1> QED
  BY <1>1, Invariance, PTL

\* At every event, in every block that is open, no node is lost, repeated or
\* out of place.
THEOREM NothingLost == Spec => []Conserved
<1>1. IInv => Conserved
  BY DEF IInv
<1> QED
  BY <1>1, Invariance, PTL

-----------------------------------------------------------------------------
(* Normalizing: induction over sets of numbers, and the last of a set.     *)

\* A set that has 0 and with every number the next has them all.
LEMMA NatInductionSet ==
  ASSUME NEW S, 0 \in S, \A n \in Nat : n \in S => n + 1 \in S
  PROVE  Nat \subseteq S
<1> SUFFICES ASSUME NEW k \in Nat, k \notin S PROVE FALSE
  OBVIOUS
<1> DEFINE T == {U \in FiniteSubsetsOf(Nat) : \E x \in Nat : x \notin S /\ U = 0 .. x}
<1>1. 0 .. k \in T
  BY FS_Interval DEF FiniteSubsetsOf
<1>2. T \subseteq FiniteSubsetsOf(Nat) /\ T # {}
  BY <1>1
<1>3. PICK U \in T : \A W \in T : <<W, U>> \notin StrictSubsetOrdering(Nat)
  <2> HIDE DEF T
  <2> QED BY <1>2, FS_StrictSubsetOrderingWellFounded, WFMin
<1>4. PICK x \in Nat : x \notin S /\ U = 0 .. x
  BY <1>3
<1>5. x - 1 \in Nat /\ x - 1 \notin S
  BY <1>4
<1>6. 0 .. (x - 1) \in T
  BY <1>5, FS_Interval DEF FiniteSubsetsOf
<1>7. <<0 .. (x - 1), U>> \in StrictSubsetOrdering(Nat)
  BY <1>4, <1>5 DEF StrictSubsetOrdering
<1> QED
  BY <1>3, <1>6, <1>7

\* Some numbers up to n have a greatest one.
LEMMA Greatest ==
  ASSUME NEW n \in Nat, NEW T \in SUBSET (1 .. n), T # {}
  PROVE  \E m \in T : \A j \in T : j <= m
<1> DEFINE S == {k \in Nat : \A U \in SUBSET (1 .. k) : U # {} =>
                               \E m \in U : \A j \in U : j <= m}
<1>1. 0 \in S
  <2>1. 1 .. 0 = {} OBVIOUS
  <2>2. \A U \in SUBSET (1 .. 0) : U = {} BY <2>1
  <2> QED BY <2>2
<1>2. ASSUME NEW k \in Nat, k \in S PROVE k + 1 \in S
  <2> SUFFICES ASSUME NEW U \in SUBSET (1 .. k + 1), U # {}
               PROVE  \E m \in U : \A j \in U : j <= m
    OBVIOUS
  <2>1. CASE k + 1 \in U
    BY <2>1
  <2>2. CASE k + 1 \notin U
    <3>1. U \in SUBSET (1 .. k) BY <2>2
    <3> QED BY <3>1, <1>2
  <2> QED BY <2>1, <2>2
<1>3. Nat \subseteq S
  <2> HIDE DEF S
  <2> QED BY <1>1, <1>2, NatInductionSet
<1> QED BY <1>3

-----------------------------------------------------------------------------
(* Marked walks the entries from the last to the first.                    *)

\* An entry is kept if it is a value, or the last property of its key.
Kept(entries, i) ==
  \/ entries[i].name = None
  \/ \A j \in i + 1 .. Len(entries) : entries[j].name # entries[i].name

MarkedAs(entries, i) ==
  IF Kept(entries, i) THEN entries[i] ELSE [entries[i] EXCEPT !.name = Marker]

AllMarked(entries) == {MarkedAs(entries, i) : i \in 1 .. Len(entries)}

\* The keys of the entries from i on.
KeysFrom(entries, i) == {entries[j].name : j \in i .. Len(entries)} \ {None}

\* What one turn of the walk adds.
LEMMA MarkOne ==
  ASSUME NEW entry, NEW U, NEW s
  PROVE  MarkEntry(entry, [seen |-> U, entries |-> s]) =
           [seen    |-> U \union ({entry.name} \ {None}),
            entries |-> <<IF entry.name # None /\ entry.name \in U
                          THEN [entry EXCEPT !.name = Marker] ELSE entry>> \o s]
<1>1. CASE entry.name = None
  BY <1>1 DEF MarkEntry
<1>2. CASE entry.name # None /\ entry.name \in U
  <2>1. U \union ({entry.name} \ {None}) = U BY <1>2
  <2> QED BY <1>2, <2>1 DEF MarkEntry
<1>3. CASE entry.name # None /\ entry.name \notin U
  <2>1. {entry.name} \ {None} = {entry.name} BY <1>3
  <2> QED BY <1>3, <2>1 DEF MarkEntry
<1> QED BY <1>1, <1>2, <1>3

\* The recursive function of Marked.
Walk(entries) ==
  CHOOSE walk : walk = [i \in 1 .. Len(entries) + 1 |->
                          IF i > Len(entries) THEN [seen |-> {}, entries |-> <<>>]
                          ELSE MarkEntry(entries[i], walk[i + 1])]

\* There is one: a walk from i + 1 on can be made one from i on.
LEMMA WalkIs ==
  ASSUME NEW entries, Len(entries) \in Nat
  PROVE  /\ Walk(entries)[Len(entries) + 1] = [seen |-> {}, entries |-> <<>>]
         /\ \A i \in 1 .. Len(entries) :
              Walk(entries)[i] = MarkEntry(entries[i], Walk(entries)[i + 1])
         /\ Marked(entries) = Walk(entries)[1].entries
<1> DEFINE L == Len(entries)
           Turn(f, i) == IF i > L THEN [seen |-> {}, entries |-> <<>>]
                         ELSE MarkEntry(entries[i], f[i + 1])
           From(n) == \E f : f = [i \in (L + 1 - n) .. (L + 1) |-> Turn(f, i)]
           S == {n \in Nat : n <= L => From(n)}
<1> HIDE DEF From
<1>1. 0 \in S
  <2> DEFINE f == [i \in (L + 1) .. (L + 1) |-> [seen |-> {}, entries |-> <<>>]]
  <2>1. f = [i \in (L + 1 - 0) .. (L + 1) |-> Turn(f, i)]
    <3> HIDE DEF L
    <3>1. L + 1 - 0 = L + 1 BY DEF L
    <3>2. ASSUME NEW i \in (L + 1) .. (L + 1)
          PROVE  Turn(f, i) = [seen |-> {}, entries |-> <<>>]
      BY DEF L
    <3> HIDE DEF Turn
    <3> QED BY <3>1, <3>2
  <2> HIDE DEF f, Turn
  <2>2. From(0) BY <2>1 DEF From
  <2> QED BY <2>2
<1>2. ASSUME NEW n \in Nat, n \in S PROVE n + 1 \in S
  <2> SUFFICES ASSUME n + 1 <= L PROVE From(n + 1)
    OBVIOUS
  <2>0. From(n)
    BY <1>2
  <2>1. PICK f : f = [i \in (L + 1 - n) .. (L + 1) |-> Turn(f, i)]
    BY <2>0 DEF From
  <2> DEFINE g == [i \in (L + 1 - (n + 1)) .. (L + 1) |-> Turn(f, i)]
  <2>2. ASSUME NEW i \in (L + 1 - n) .. (L + 1) PROVE g[i] = f[i]
    <3>1. i \in (L + 1 - (n + 1)) .. (L + 1) BY DEF L
    <3>2. f[i] = Turn(f, i) BY <2>1
    <3> HIDE DEF Turn
    <3> QED BY <3>1, <3>2
  <2>3. ASSUME NEW i \in (L + 1 - (n + 1)) .. (L + 1) PROVE Turn(f, i) = Turn(g, i)
    <3>1. CASE i > L BY <3>1
    <3>2. CASE i <= L
      <4>1. i + 1 \in (L + 1 - n) .. (L + 1) BY <3>2 DEF L
      <4>2. g[i + 1] = f[i + 1] BY <4>1, <2>2
      <4> HIDE DEF g
      <4> QED BY <4>2
    <3> QED BY <3>1, <3>2 DEF L
  <2>4. g = [i \in (L + 1 - (n + 1)) .. (L + 1) |-> Turn(g, i)]
    <3>1. g = [i \in (L + 1 - (n + 1)) .. (L + 1) |-> Turn(f, i)] OBVIOUS
    <3> HIDE DEF g, Turn
    <3> QED BY <2>3, <3>1
  <2> HIDE DEF g, Turn
  <2> QED BY <2>4 DEF From
<1>3. Nat \subseteq S
  <2> HIDE DEF S
  <2> QED BY <1>1, <1>2, NatInductionSet
<1>4. \E f : f = [i \in 1 .. L + 1 |-> Turn(f, i)]
  <2>1. From(L) BY <1>3
  <2>2. L + 1 - L = 1 BY DEF L
  <2> HIDE DEF Turn
  <2> QED BY <2>1, <2>2 DEF From
<1> DEFINE w == Walk(entries)
<1>5. w = [i \in 1 .. L + 1 |-> Turn(w, i)]
  BY <1>4 DEF Walk
<1>6. \A i \in 1 .. L + 1 : w[i] = Turn(w, i)
  <2> HIDE DEF w, Turn
  <2> QED BY <1>5
<1>7. Marked(entries) = w[1].entries
  BY DEF Marked, Walk
<1>8. L + 1 \in 1 .. L + 1 /\ L + 1 > L /\ \A i \in 1 .. L : i \in 1 .. L + 1 /\ ~(i > L)
  BY DEF L
<1> HIDE DEF w
<1> QED BY <1>6, <1>7, <1>8 DEF w

\* What is marked are the entries that are not kept, in their places.
LEMMA MarkedIs ==
  ASSUME NEW entries \in Seq(Entries)
  PROVE  /\ Marked(entries) \in Seq(AllMarked(entries))
         /\ Len(Marked(entries)) = Len(entries)
         /\ \A i \in 1 .. Len(entries) : Marked(entries)[i] = MarkedAs(entries, i)
<1> DEFINE L == Len(entries)
           X == AllMarked(entries)
           w == Walk(entries)
           Upto(i, s) == /\ w[i] = [seen |-> KeysFrom(entries, i), entries |-> s]
                         /\ Len(s) = L + 1 - i
                         /\ \A k \in 1 .. L + 1 - i : s[k] = MarkedAs(entries, i + k - 1)
           From(n) == \E s \in Seq(X) : Upto(L + 1 - n, s)
           S == {n \in Nat : n <= L => From(n)}
<1> HIDE DEF From
<1>0. /\ L \in Nat /\ w[L + 1] = [seen |-> {}, entries |-> <<>>]
      /\ \A i \in 1 .. L : w[i] = MarkEntry(entries[i], w[i + 1])
      /\ Marked(entries) = w[1].entries
  BY WalkIs, LenProperties
<1> HIDE DEF L, w
<1>1. 0 \in S
  <2>1. KeysFrom(entries, L + 1) = {}
    BY <1>0 DEF KeysFrom, L
  <2>2. <<>> \in Seq(X) /\ Len(<<>>) = 0
    BY EmptySeq
  <2>3. Upto(L + 1 - 0, <<>>)
    <3>1. L + 1 - 0 = L + 1 /\ L + 1 - (L + 1) = 0 BY <1>0
    <3>2. w[L + 1] = [seen |-> KeysFrom(entries, L + 1), entries |-> <<>>] BY <1>0, <2>1
    <3> QED BY <2>2, <3>1, <3>2
  <2> HIDE DEF Upto, X
  <2>4. From(0) BY <2>2, <2>3 DEF From
  <2> QED BY <2>4
<1>2. ASSUME NEW n \in Nat, n \in S PROVE n + 1 \in S
  <2> SUFFICES ASSUME n + 1 <= L PROVE From(n + 1)
    OBVIOUS
  <2>0. From(n)
    <3>1. L \in Nat BY <1>0
    <3> QED BY <3>1, <1>2
  <2> DEFINE i == L + 1 - (n + 1)
  <2>1. i \in 1 .. L /\ L + 1 - n = i + 1 /\ L + 1 - i = n + 1 /\ L + 1 - (i + 1) = n
    <3>1. L \in Nat BY <1>0
    <3> QED BY <3>1
  <2>2. PICK s \in Seq(X) : Upto(i + 1, s)
    <3> HIDE DEF Upto, X, i
    <3> QED BY <2>0, <2>1 DEF From
  <2> HIDE DEF i
  <2> DEFINE e == entries[i]
             first == IF e.name # None /\ e.name \in KeysFrom(entries, i + 1)
                      THEN [e EXCEPT !.name = Marker] ELSE e
             t == <<first>> \o s
  <2>3. w[i] = [seen |-> KeysFrom(entries, i + 1) \union ({e.name} \ {None}), entries |-> t]
    <3>1. w[i] = MarkEntry(e, w[i + 1]) BY <1>0, <2>1
    <3>2. w[i + 1] = [seen |-> KeysFrom(entries, i + 1), entries |-> s] BY <2>2
    <3> DEFINE U == KeysFrom(entries, i + 1)
    <3>3. w[i] = MarkEntry(e, [seen |-> U, entries |-> s]) BY <3>1, <3>2
    <3> HIDE DEF U, e
    <3>4. MarkEntry(e, [seen |-> U, entries |-> s]) =
            [seen |-> U \union ({e.name} \ {None}),
             entries |-> <<IF e.name # None /\ e.name \in U
                           THEN [e EXCEPT !.name = Marker] ELSE e>> \o s]
      BY MarkOne
    <3> QED BY <3>3, <3>4 DEF U
  <2>4. KeysFrom(entries, i) = KeysFrom(entries, i + 1) \union ({e.name} \ {None})
    <3>1. i .. Len(entries) = {i} \union (i + 1 .. Len(entries))
      BY <1>0, <2>1 DEF L
    <3> QED BY <3>1 DEF KeysFrom
  <2>5. first = MarkedAs(entries, i)
    <3>1. (e.name # None /\ e.name \in KeysFrom(entries, i + 1)) <=> ~Kept(entries, i)
      BY DEF KeysFrom, Kept
    <3> QED BY <3>1 DEF MarkedAs
  <2>6. first \in X
    BY <2>1, <2>5 DEF AllMarked, L
  <2> HIDE DEF first, X
  <2>7. t \in Seq(X) /\ Len(t) = n + 1 /\ t[1] = first /\ \A k \in 2 .. n + 1 : t[k] = s[k - 1]
    <3>1. Len(s) = n BY <2>1, <2>2
    <3>2. <<first>> \in Seq(X) /\ Len(<<first>>) = 1 /\ <<first>>[1] = first BY <2>6
    <3> QED BY <3>1, <3>2, ConcatProperties
  <2>8. ASSUME NEW k \in 1 .. n + 1 PROVE t[k] = MarkedAs(entries, i + k - 1)
    <3>1. CASE k = 1
      <4>1. i + k - 1 = i BY <3>1, <2>1
      <4> QED BY <3>1, <4>1, <2>5, <2>7
    <3>2. CASE k # 1
      <4>1. k - 1 \in 1 .. n /\ (i + 1) + (k - 1) - 1 = i + k - 1 /\ k \in 2 .. n + 1
        BY <3>2, <2>1
      <4>2. t[k] = s[k - 1] BY <2>7, <4>1
      <4>3. s[k - 1] = MarkedAs(entries, (i + 1) + (k - 1) - 1) BY <2>1, <2>2, <4>1
      <4> QED BY <4>1, <4>2, <4>3
    <3> QED BY <3>1, <3>2
  <2> HIDE DEF t, e
  <2>9. Upto(i, t)
    BY <2>1, <2>3, <2>4, <2>7, <2>8
  <2> HIDE DEF Upto
  <2> QED BY <2>7, <2>9 DEF i, From
<1>3. Nat \subseteq S
  <2> HIDE DEF S
  <2> QED BY <1>1, <1>2, NatInductionSet
<1>4. PICK s \in Seq(X) : Upto(1, s)
  <2>1. L \in Nat BY <1>0
  <2>2. From(L) /\ L + 1 - L = 1 BY <2>1, <1>3
  <2> HIDE DEF Upto, X
  <2> QED BY <2>2 DEF From
<1>5. Marked(entries) = s
  BY <1>0, <1>4
<1>6. Len(s) = L /\ \A k \in 1 .. L : s[k] = MarkedAs(entries, k)
  <2>1. L + 1 - 1 = L /\ \A k \in 1 .. L : 1 + k - 1 = k BY <1>0
  <2> QED BY <1>4, <2>1
<1>7. Marked(entries) \in Seq(X) /\ Len(Marked(entries)) = L
      /\ \A i \in 1 .. L : Marked(entries)[i] = MarkedAs(entries, i)
  <2> HIDE DEF X
  <2> QED BY <1>4, <1>5, <1>6
<1> QED BY <1>7 DEF L

-----------------------------------------------------------------------------
(* Retained picks the entries that are not marked, in their order.         *)

\* The recursive function of Retained.
Keeping(s) ==
  CHOOSE kept : kept = [i \in 0 .. Len(s) |->
                          IF i = 0 THEN <<>>
                          ELSE IF s[i].name = Marker THEN kept[i - 1]
                          ELSE Append(kept[i - 1], s[i])]

LEMMA KeepingIs ==
  ASSUME NEW s, Len(s) \in Nat
  PROVE  /\ Keeping(s)[0] = <<>>
         /\ \A i \in 1 .. Len(s) :
              Keeping(s)[i] = IF s[i].name = Marker THEN Keeping(s)[i - 1]
                              ELSE Append(Keeping(s)[i - 1], s[i])
         /\ Retained(s) = Keeping(s)[Len(s)]
<1> DEFINE L == Len(s)
           Turn(f, i) == IF i = 0 THEN <<>>
                         ELSE IF s[i].name = Marker THEN f[i - 1] ELSE Append(f[i - 1], s[i])
           Upto(n) == \E f : f = [i \in 0 .. n |-> Turn(f, i)]
           S == {n \in Nat : Upto(n)}
<1> HIDE DEF Upto
<1>1. 0 \in S
  <2> DEFINE f == [i \in 0 .. 0 |-> <<>>]
  <2>1. f = [i \in 0 .. 0 |-> Turn(f, i)]
    <3>1. ASSUME NEW i \in 0 .. 0 PROVE Turn(f, i) = <<>>
      OBVIOUS
    <3> HIDE DEF Turn
    <3> QED BY <3>1
  <2> HIDE DEF f, Turn
  <2>2. Upto(0) BY <2>1 DEF Upto
  <2> QED BY <2>2
<1>2. ASSUME NEW n \in Nat, n \in S PROVE n + 1 \in S
  <2>0. Upto(n)
    BY <1>2
  <2>1. PICK f : f = [i \in 0 .. n |-> Turn(f, i)]
    BY <2>0 DEF Upto
  <2> DEFINE g == [i \in 0 .. n + 1 |-> Turn(f, i)]
  <2>2. ASSUME NEW i \in 0 .. n PROVE g[i] = f[i]
    <3>1. i \in 0 .. n + 1 OBVIOUS
    <3>2. f[i] = Turn(f, i) BY <2>1
    <3> HIDE DEF Turn
    <3> QED BY <3>1, <3>2
  <2>3. ASSUME NEW i \in 0 .. n + 1 PROVE Turn(f, i) = Turn(g, i)
    <3>1. CASE i = 0 BY <3>1
    <3>2. CASE i # 0
      <4>1. i - 1 \in 0 .. n BY <3>2
      <4>2. g[i - 1] = f[i - 1] BY <4>1, <2>2
      <4> HIDE DEF g
      <4> QED BY <4>2
    <3> QED BY <3>1, <3>2
  <2>4. g = [i \in 0 .. n + 1 |-> Turn(g, i)]
    <3>1. g = [i \in 0 .. n + 1 |-> Turn(f, i)] OBVIOUS
    <3> HIDE DEF g, Turn
    <3> QED BY <2>3, <3>1
  <2> HIDE DEF g, Turn
  <2>5. Upto(n + 1) BY <2>4 DEF Upto
  <2> QED BY <2>5
<1>3. Nat \subseteq S
  <2> HIDE DEF S
  <2> QED BY <1>1, <1>2, NatInductionSet
<1>4. \E f : f = [i \in 0 .. L |-> Turn(f, i)]
  <2>1. Upto(L) BY <1>3
  <2> HIDE DEF Turn
  <2> QED BY <2>1 DEF Upto
<1> DEFINE k == Keeping(s)
<1>5. k = [i \in 0 .. L |-> Turn(k, i)]
  BY <1>4 DEF Keeping
<1>6. \A i \in 0 .. L : k[i] = Turn(k, i)
  <2> HIDE DEF k, Turn
  <2> QED BY <1>5
<1>7. Retained(s) = k[L]
  BY DEF Retained, Keeping
<1>8. 0 \in 0 .. L /\ \A i \in 1 .. L : i \in 0 .. L /\ i # 0
  BY DEF L
<1> HIDE DEF k
<1> QED BY <1>6, <1>7, <1>8 DEF k

\* r has those of the first n elements of s that are not marked, and was says
\* where each of them stood.
Picks(was, r, s, n) ==
  /\ was \in [1 .. Len(r) -> 1 .. n]
  /\ \A i, j \in 1 .. Len(r) : i < j => was[i] < was[j]
  /\ \A i \in 1 .. Len(r) : r[i] = s[was[i]] /\ s[was[i]].name # Marker
  /\ \A j \in 1 .. n : s[j].name # Marker => \E i \in 1 .. Len(r) : was[i] = j

LEMMA RetainedPicks ==
  ASSUME NEW X, NEW s \in Seq(X)
  PROVE  Retained(s) \in Seq(X) /\ \E was : Picks(was, Retained(s), s, Len(s))
<1> DEFINE L == Len(s)
           k == Keeping(s)
           Picked(n) == k[n] \in Seq(X) /\ \E was : Picks(was, k[n], s, n)
           S == {n \in Nat : n <= L => Picked(n)}
<1> HIDE DEF Picked, k, L
<1>0. /\ L \in Nat /\ L = Len(s)
      /\ k[0] = <<>>
      /\ Retained(s) = k[L]
      /\ \A i \in 1 .. L : s[i] \in X
      /\ \A i \in 1 .. L : k[i] = IF s[i].name = Marker THEN k[i - 1] ELSE Append(k[i - 1], s[i])
  BY KeepingIs, LenProperties, ElementOfSeq DEF k, L
<1>1. 0 \in S
  <2>1. Picks([i \in 1 .. 0 |-> 0], <<>>, s, 0)
    <3>1. Len(<<>>) = 0 /\ 1 .. 0 = {} BY EmptySeq
    <3>2. [i \in 1 .. 0 |-> 0] \in [1 .. 0 -> 1 .. 0] BY <3>1
    <3> QED BY <3>1, <3>2 DEF Picks
  <2>2. Picked(0) BY <1>0, <2>1, EmptySeq DEF Picked
  <2> QED BY <2>2
<1>2. ASSUME NEW n \in Nat, n \in S PROVE n + 1 \in S
  <2> SUFFICES ASSUME n + 1 <= L PROVE Picked(n + 1)
    OBVIOUS
  <2>0. Picked(n) /\ n + 1 \in 1 .. L /\ (n + 1) - 1 = n
    <3>1. L \in Nat BY <1>0
    <3> QED BY <3>1, <1>2
  <2> DEFINE r == k[n]
  <2>1. r \in Seq(X)
    BY <2>0 DEF Picked
  <2>2. PICK was : Picks(was, r, s, n)
    BY <2>0 DEF Picked
  <2>3. k[n + 1] = IF s[n + 1].name = Marker THEN r ELSE Append(r, s[n + 1])
    BY <1>0, <2>0
  <2>4. s[n + 1] \in X
    BY <1>0, <2>0
  <2> HIDE DEF r
  <2>5. Len(r) \in Nat
    BY <2>1, LenProperties
  <2>6. CASE s[n + 1].name = Marker
    <3>1. Picks(was, r, s, n + 1)
      <4>1. was \in [1 .. Len(r) -> 1 .. n + 1]
        <5>1. 1 .. n \subseteq 1 .. n + 1 OBVIOUS
        <5> QED BY <2>2, <5>1 DEF Picks
      <4>2. ASSUME NEW j \in 1 .. n + 1, s[j].name # Marker
            PROVE  \E i \in 1 .. Len(r) : was[i] = j
        <5>1. j \in 1 .. n BY <4>2, <2>6
        <5> QED BY <5>1, <4>2, <2>2 DEF Picks
      <4> QED BY <4>1, <4>2, <2>2 DEF Picks
    <3> QED BY <3>1, <2>1, <2>3, <2>6 DEF Picked
  <2>7. CASE s[n + 1].name # Marker
    <3> DEFINE t == Append(r, s[n + 1])
               now == [i \in 1 .. Len(r) + 1 |-> IF i = Len(r) + 1 THEN n + 1 ELSE was[i]]
    <3>1. /\ t \in Seq(X) /\ Len(t) = Len(r) + 1 /\ t[Len(r) + 1] = s[n + 1]
          /\ \A i \in 1 .. Len(r) : t[i] = r[i]
      BY <2>1, <2>4, AppendProperties
    <3> HIDE DEF t
    <3>2. /\ was \in [1 .. Len(r) -> 1 .. n]
          /\ \A i \in 1 .. Len(r) : now[i] = was[i] /\ was[i] \in 1 .. n
          /\ now[Len(r) + 1] = n + 1
      BY <2>2, <2>5 DEF Picks
    <3>3. now \in [1 .. Len(r) + 1 -> 1 .. n + 1]
      <4>1. ASSUME NEW i \in 1 .. Len(r) + 1
            PROVE  (IF i = Len(r) + 1 THEN n + 1 ELSE was[i]) \in 1 .. n + 1
        BY <3>2, <2>5
      <4> QED BY <4>1
    <3> HIDE DEF now
    <3>4. ASSUME NEW i \in 1 .. Len(r) + 1, NEW j \in 1 .. Len(r) + 1, i < j
          PROVE  now[i] < now[j]
      <4>1. i \in 1 .. Len(r) BY <3>4, <2>5
      <4>2. CASE j = Len(r) + 1
        <5>1. now[i] \in 1 .. n BY <3>2, <4>1
        <5> QED BY <4>2, <3>2, <5>1
      <4>3. CASE j # Len(r) + 1
        <5>1. j \in 1 .. Len(r) BY <4>3, <2>5
        <5>2. was[i] < was[j] BY <5>1, <4>1, <3>4, <2>2 DEF Picks
        <5> QED BY <5>1, <5>2, <4>1, <3>2
      <4> QED BY <4>2, <4>3
    <3>5. ASSUME NEW i \in 1 .. Len(r) + 1
          PROVE  t[i] = s[now[i]] /\ s[now[i]].name # Marker
      <4>1. CASE i = Len(r) + 1
        BY <4>1, <3>1, <3>2, <2>7
      <4>2. CASE i # Len(r) + 1
        <5>1. i \in 1 .. Len(r) BY <4>2, <2>5
        <5> QED BY <5>1, <3>1, <3>2, <2>2 DEF Picks
      <4> QED BY <4>1, <4>2
    <3>6. ASSUME NEW j \in 1 .. n + 1, s[j].name # Marker
          PROVE  \E i \in 1 .. Len(r) + 1 : now[i] = j
      <4>1. CASE j = n + 1
        <5>1. Len(r) + 1 \in 1 .. Len(r) + 1 BY <2>5
        <5> QED BY <5>1, <4>1, <3>2
      <4>2. CASE j # n + 1
        <5>1. j \in 1 .. n BY <4>2
        <5>2. PICK i \in 1 .. Len(r) : was[i] = j
          BY <5>1, <3>6, <2>2 DEF Picks
        <5>3. i \in 1 .. Len(r) + 1 /\ now[i] = j BY <5>2, <3>2, <2>5
        <5> QED BY <5>3
      <4> QED BY <4>1, <4>2
    <3>7. Picks(now, t, s, n + 1)
      BY <3>1, <3>3, <3>4, <3>5, <3>6 DEF Picks
    <3>8. k[n + 1] = t
      BY <2>3, <2>7 DEF t
    <3> QED BY <3>1, <3>7, <3>8 DEF Picked
  <2> QED BY <2>6, <2>7
<1>3. Nat \subseteq S
  <2> HIDE DEF S
  <2> QED BY <1>1, <1>2, NatInductionSet
<1>4. Picked(L)
  <2>1. L \in Nat BY <1>0
  <2> QED BY <1>3, <2>1
<1> QED BY <1>0, <1>4 DEF Picked

-----------------------------------------------------------------------------
(* What is retained has the same lookups.                                  *)

\* An entry is marked unless it is kept.
LEMMA MarkedName ==
  ASSUME NEW entries \in Seq(Entries), NEW i \in 1 .. Len(entries)
  PROVE  /\ MarkedAs(entries, i).name = Marker <=> ~Kept(entries, i)
         /\ Kept(entries, i) => MarkedAs(entries, i) = entries[i]
<1>1. entries[i] \in Entries
  BY ElementOfSeq
<1>2. "name" \in DOMAIN entries[i] /\ entries[i].name # Marker
  BY <1>1, NormalizeAssumption
<1>3. [entries[i] EXCEPT !.name = Marker].name = Marker
  BY <1>2
<1>4. CASE Kept(entries, i)
  BY <1>2, <1>4 DEF MarkedAs
<1>5. CASE ~Kept(entries, i)
  BY <1>3, <1>5 DEF MarkedAs
<1> QED BY <1>4, <1>5

\* After normalizing: was is where the entries stood, all of them are kept, and
\* all that are kept are there.
Normalizes(was, after, before) ==
  /\ was \in [1 .. Len(after) -> 1 .. Len(before)]
  /\ \A i, j \in 1 .. Len(after) : i < j => was[i] < was[j]
  /\ \A i \in 1 .. Len(after) : after[i] = before[was[i]] /\ Kept(before, was[i])
  /\ \A j \in 1 .. Len(before) : Kept(before, j) => \E i \in 1 .. Len(after) : was[i] = j

LEMMA RetainedNormalizes ==
  ASSUME NEW before \in Seq(Entries)
  PROVE  LET after == Retained(Marked(before))
         IN  after \in Seq(Entries) /\ \E was : Normalizes(was, after, before)
<1> DEFINE M == Marked(before)
           after == Retained(M)
<1>1. /\ M \in Seq(AllMarked(before)) /\ Len(M) = Len(before)
      /\ \A i \in 1 .. Len(before) : M[i] = MarkedAs(before, i)
  BY MarkedIs
<1> HIDE DEF M
<1>2. after \in Seq(AllMarked(before)) /\ \E was : Picks(was, after, M, Len(M))
  BY <1>1, RetainedPicks
<1> HIDE DEF after
<1>3. PICK was : Picks(was, after, M, Len(M))
  BY <1>2
<1>4. ASSUME NEW i \in 1 .. Len(before)
      PROVE  /\ M[i].name # Marker => Kept(before, i)
             /\ Kept(before, i) => M[i] = before[i] /\ M[i].name # Marker
  <2>1. M[i] = MarkedAs(before, i)
    BY <1>1
  <2> HIDE DEF Kept
  <2> QED BY <2>1, MarkedName
<1>5. Normalizes(was, after, before)
  <2>1. was \in [1 .. Len(after) -> 1 .. Len(before)]
    BY <1>1, <1>3 DEF Picks
  <2>2. ASSUME NEW i \in 1 .. Len(after)
        PROVE  after[i] = before[was[i]] /\ Kept(before, was[i])
    <3>1. was[i] \in 1 .. Len(before) BY <2>1
    <3>2. after[i] = M[was[i]] /\ M[was[i]].name # Marker BY <1>3 DEF Picks
    <3> QED BY <3>1, <3>2, <1>4
  <2>3. ASSUME NEW j \in 1 .. Len(before), Kept(before, j)
        PROVE  \E i \in 1 .. Len(after) : was[i] = j
    <3>1. M[j].name # Marker BY <1>4, <2>3
    <3> QED BY <3>1, <1>1, <1>3 DEF Picks
  <2>4. \A i, j \in 1 .. Len(after) : i < j => was[i] < was[j]
    BY <1>3 DEF Picks
  <2> QED BY <2>1, <2>2, <2>3, <2>4 DEF Normalizes
<1>6. after \in Seq(Entries)
  <2>1. Len(after) \in Nat /\ after = [i \in 1 .. Len(after) |-> after[i]]
    BY <1>2, LenProperties
  <2>2. \A i \in 1 .. Len(after) : after[i] \in Entries
    <3> SUFFICES ASSUME NEW i \in 1 .. Len(after) PROVE after[i] \in Entries
      OBVIOUS
    <3>1. was[i] \in 1 .. Len(before) /\ after[i] = before[was[i]]
      BY <1>5 DEF Normalizes
    <3> QED BY <3>1, ElementOfSeq
  <2>3. after \in [1 .. Len(after) -> Entries]
    BY <2>1, <2>2
  <2> QED BY <2>1, <2>3, SeqDef
<1> QED BY <1>5, <1>6 DEF after, M

\* What Normalizes says of an entry that is there and one that was.
LEMMA NormalizesFacts ==
  ASSUME NEW before \in Seq(Entries), NEW after \in Seq(Entries), NEW was,
         Normalizes(was, after, before)
  PROVE  /\ Len(before) \in Nat /\ Len(after) \in Nat
         /\ DOMAIN before = 1 .. Len(before) /\ DOMAIN after = 1 .. Len(after)
         /\ \A i \in 1 .. Len(after) :
              /\ was[i] \in 1 .. Len(before)
              /\ after[i] = before[was[i]] /\ Kept(before, was[i])
         /\ \A i, j \in 1 .. Len(after) : (i < j => was[i] < was[j]) /\ (was[i] = was[j] => i = j)
         /\ \A j \in 1 .. Len(before) : Kept(before, j) => \E i \in 1 .. Len(after) : was[i] = j
<1>1. Len(before) \in Nat /\ Len(after) \in Nat
      /\ DOMAIN before = 1 .. Len(before) /\ DOMAIN after = 1 .. Len(after)
  BY LenProperties
<1>2. \A i \in 1 .. Len(after) : was[i] \in 1 .. Len(before)
  BY DEF Normalizes
<1>3. ASSUME NEW i \in 1 .. Len(after), NEW j \in 1 .. Len(after)
      PROVE  (i < j => was[i] < was[j]) /\ (was[i] = was[j] => i = j)
  <2>1. (i < j => was[i] < was[j]) /\ (j < i => was[j] < was[i])
    BY DEF Normalizes
  <2>2. i \in Nat /\ j \in Nat /\ was[i] \in Nat /\ was[j] \in Nat
    BY <1>2
  <2> QED BY <2>1, <2>2
<1> QED BY <1>1, <1>2, <1>3 DEF Normalizes

\* The last property of a key is one that is kept.
LEMMA LastOfKey ==
  ASSUME NEW before \in Seq(Entries), NEW key \in Keys(before)
  PROVE  \E j \in 1 .. Len(before) :
           /\ before[j].name = key /\ Kept(before, j)
           /\ \A m \in 1 .. Len(before) : before[m].name = key => m <= j
<1>0. Len(before) \in Nat /\ DOMAIN before = 1 .. Len(before)
  BY LenProperties
<1> DEFINE T == {m \in 1 .. Len(before) : before[m].name = key}
<1>1. T # {}
  BY <1>0 DEF Keys
<1>2. T \in SUBSET (1 .. Len(before))
  OBVIOUS
<1>3. PICK j \in T : \A m \in T : m <= j
  <2> HIDE DEF T
  <2> QED BY <1>0, <1>1, <1>2, Greatest
<1>4. Kept(before, j)
  <2>1. ASSUME NEW m \in j + 1 .. Len(before), before[m].name = before[j].name PROVE FALSE
    <3>1. m \in T BY <1>0, <1>3, <2>1
    <3> QED BY <3>1, <1>0, <1>3
  <2> QED BY <2>1 DEF Kept
<1> QED BY <1>3, <1>4

\* A key is kept only once.
LEMMA KeptOnce ==
  ASSUME NEW before \in Seq(Entries),
         NEW i \in 1 .. Len(before), NEW j \in 1 .. Len(before),
         Kept(before, i), Kept(before, j),
         before[i].name = before[j].name, before[i].name # None
  PROVE  i = j
<1>1. Len(before) \in Nat
  BY LenProperties
<1>2. ~(i < j)
  <2>1. i < j => j \in i + 1 .. Len(before) BY <1>1
  <2> QED BY <2>1 DEF Kept
<1>3. ~(j < i)
  <2>1. j < i => i \in j + 1 .. Len(before) BY <1>1
  <2> QED BY <2>1 DEF Kept
<1> QED BY <1>1, <1>2, <1>3

\* An element of a set of numbers that no other of its elements exceeds.
LEMMA GreatestIs ==
  ASSUME NEW T \in SUBSET Nat, NEW i \in T, \A j \in T : j <= i
  PROVE  (CHOOSE m \in T : \A j \in T : j <= m) = i
<1>1. \A m \in T : (\A j \in T : j <= m) => m = i
  OBVIOUS
<1> QED BY <1>1

\* Values are kept: as many come before one as did.
LEMMA ValuesCounted ==
  ASSUME NEW before \in Seq(Entries), NEW after \in Seq(Entries), NEW was,
         Normalizes(was, after, before), NEW i \in 1 .. Len(after)
  PROVE  /\ IsFiniteSet(Values(before, was[i]))
         /\ Cardinality(Values(after, i)) = Cardinality(Values(before, was[i]))
<1> DEFINE A == Values(after, i)
           B == Values(before, was[i])
           f == [m \in A |-> was[m]]
<1>0. /\ Len(before) \in Nat /\ Len(after) \in Nat
      /\ \A m \in 1 .. Len(after) :
           /\ was[m] \in 1 .. Len(before)
           /\ after[m] = before[was[m]] /\ Kept(before, was[m])
      /\ \A m, j \in 1 .. Len(after) : (m < j => was[m] < was[j]) /\ (was[m] = was[j] => m = j)
      /\ \A j \in 1 .. Len(before) : Kept(before, j) => \E m \in 1 .. Len(after) : was[m] = j
  BY NormalizesFacts
<1>1. A \subseteq 1 .. i /\ IsFiniteSet(A)
  <2>1. A \in SUBSET (1 .. i) BY DEF Values
  <2>2. IsFiniteSet(1 .. i) BY FS_Interval
  <2> HIDE DEF A
  <2> QED BY <2>1, <2>2, FS_Subset
<1>2. ASSUME NEW m \in A PROVE was[m] \in B /\ m \in 1 .. Len(after)
  <2>1. m \in 1 .. i /\ m \in 1 .. Len(after) /\ after[m].name = None
    BY <1>0 DEF Values
  <2>2. m = i \/ m < i
    BY <2>1
  <2>3. was[m] \in 1 .. Len(before) /\ was[i] \in 1 .. Len(before) /\ was[m] <= was[i]
    BY <1>0, <2>1, <2>2
  <2>4. was[m] \in 1 .. was[i] /\ before[was[m]].name = None
    BY <1>0, <2>1, <2>3
  <2> QED BY <2>1, <2>4 DEF Values
<1>3. \A m, j \in A : f[m] = f[j] => m = j
  BY <1>0, <1>2
<1>4. ASSUME NEW b \in B PROVE \E m \in A : f[m] = b
  <2>1. was[i] \in 1 .. Len(before) /\ b \in 1 .. was[i] /\ before[b].name = None
    BY <1>0 DEF Values
  <2>2. b \in 1 .. Len(before) /\ Kept(before, b)
    BY <1>0, <2>1 DEF Kept
  <2>3. PICK m \in 1 .. Len(after) : was[m] = b
    BY <1>0, <2>2
  <2>4. ~(i < m)
    <3>1. i < m => was[i] < was[m] BY <1>0
    <3>2. ~(was[i] < was[m]) BY <2>1, <2>3
    <3> QED BY <3>1, <3>2
  <2>5. m \in 1 .. i /\ after[m].name = None
    BY <1>0, <2>1, <2>3, <2>4
  <2>6. m \in A
    BY <2>5 DEF Values
  <2> QED BY <2>3, <2>6
<1>5. f \in [A -> B]
  BY <1>2
<1> HIDE DEF A, B, f
<1>6. f \in Bijection(A, B)
  BY <1>3, <1>4, <1>5, Fun_IsBij
<1>7. ExistsBijection(A, B)
  BY <1>6 DEF ExistsBijection
<1>8. IsFiniteSet(B) /\ Cardinality(B) = Cardinality(A)
  BY <1>1, <1>7, FS_Bijection
<1> QED BY <1>8 DEF A, B

\* No two values are the nth.
LEMMA NthOnce ==
  ASSUME NEW s \in Seq(Entries), NEW i \in 1 .. Len(s), NEW j \in 1 .. Len(s),
         s[i].name = None, s[j].name = None,
         Cardinality(Values(s, i)) = Cardinality(Values(s, j))
  PROVE  i = j
<1>1. \A n \in Nat : IsFiniteSet(Values(s, n))
  <2> SUFFICES ASSUME NEW n \in Nat PROVE IsFiniteSet(Values(s, n))
    OBVIOUS
  <2>1. Values(s, n) \in SUBSET (1 .. n) BY DEF Values
  <2>2. IsFiniteSet(1 .. n) BY FS_Interval
  <2> QED BY <2>1, <2>2, FS_Subset
<1>2. ASSUME NEW m \in 1 .. Len(s), NEW n \in 1 .. Len(s), m < n, s[n].name = None,
             Cardinality(Values(s, m)) = Cardinality(Values(s, n))
      PROVE  FALSE
  <2>1. Values(s, m) \in SUBSET Values(s, n) /\ n \in Values(s, n) /\ n \notin Values(s, m)
    BY <1>2 DEF Values
  <2>2. IsFiniteSet(Values(s, n))
    BY <1>1
  <2>3. Values(s, n) = Values(s, m)
    BY <2>1, <2>2, <1>2, FS_Subset
  <2> QED BY <2>1, <2>3
<1>3. i \in Nat /\ j \in Nat
  OBVIOUS
<1>4. ~(i < j) /\ ~(j < i)
  BY <1>2
<1> QED BY <1>3, <1>4

\* What is kept is found under the same keys and numbers, in the same order.
LEMMA SameLookups ==
  ASSUME NEW before \in Seq(Entries), NEW after \in Seq(Entries), NEW was,
         Normalizes(was, after, before)
  PROVE  SameEntries(before, after)
<1>0. /\ Len(before) \in Nat /\ Len(after) \in Nat
      /\ DOMAIN before = 1 .. Len(before) /\ DOMAIN after = 1 .. Len(after)
      /\ \A i \in 1 .. Len(after) :
           /\ was[i] \in 1 .. Len(before)
           /\ after[i] = before[was[i]] /\ Kept(before, was[i])
      /\ \A i, j \in 1 .. Len(after) : (i < j => was[i] < was[j]) /\ (was[i] = was[j] => i = j)
      /\ \A j \in 1 .. Len(before) : Kept(before, j) => \E i \in 1 .. Len(after) : was[i] = j
  BY NormalizesFacts
<1>1. Keys(after) = Keys(before)
  <2>1. Keys(after) \subseteq Keys(before)
    BY <1>0 DEF Keys
  <2>2. ASSUME NEW key \in Keys(before) PROVE key \in Keys(after)
    <3>1. PICK j \in 1 .. Len(before) : before[j].name = key /\ Kept(before, j)
      BY LastOfKey
    <3>2. PICK i \in 1 .. Len(after) : was[i] = j
      BY <1>0, <3>1
    <3>3. after[i].name = key /\ i \in DOMAIN after
      BY <1>0, <3>1, <3>2
    <3>4. key # None
      BY DEF Keys
    <3> QED BY <3>3, <3>4 DEF Keys
  <2> QED BY <2>1, <2>2
<1>2. ASSUME NEW key \in Keys(before)
      PROVE  SeekProperty(after, key) = SeekProperty(before, key)
  <2>1. PICK j \in 1 .. Len(before) :
          /\ before[j].name = key /\ Kept(before, j)
          /\ \A m \in 1 .. Len(before) : before[m].name = key => m <= j
    BY LastOfKey
  <2>2. PICK i \in 1 .. Len(after) : was[i] = j
    BY <1>0, <2>1
  <2>3. after[i] = before[j] /\ key # None
    BY <1>0, <2>2 DEF Keys
  <2> DEFINE A == {m \in DOMAIN after : after[m].name = key}
             B == {m \in DOMAIN before : before[m].name = key}
  <2>4. A \in SUBSET Nat /\ i \in A /\ B \in SUBSET Nat /\ j \in B /\ \A m \in B : m <= j
    BY <1>0, <2>1, <2>3
  <2>5. ASSUME NEW m \in A PROVE m <= i
    <3>1. m \in 1 .. Len(after) /\ after[m].name = key
      BY <1>0
    <3>2. before[was[m]].name = key /\ Kept(before, was[m]) /\ was[m] \in 1 .. Len(before)
      BY <1>0, <3>1
    <3>3. was[m] = j
      BY <3>2, <2>1, <2>3, KeptOnce
    <3>4. m = i
      BY <1>0, <2>2, <3>1, <3>3
    <3> QED BY <3>1, <3>4
  <2> HIDE DEF A, B
  <2>6. (CHOOSE m \in A : \A n \in A : n <= m) = i
    BY <2>4, <2>5, GreatestIs
  <2>7. (CHOOSE m \in B : \A n \in B : n <= m) = j
    BY <2>4, GreatestIs
  <2>8. SeekProperty(after, key) = <<after[i]>>
    <3>1. SeekProperty(after, key) =
            IF A = {} THEN <<>> ELSE <<after[CHOOSE m \in A : \A n \in A : n <= m]>>
      BY DEF SeekProperty, A
    <3>2. A # {} BY <2>4
    <3> QED BY <3>1, <3>2, <2>6
  <2>9. SeekProperty(before, key) = <<before[j]>>
    <3>1. SeekProperty(before, key) =
            IF B = {} THEN <<>> ELSE <<before[CHOOSE m \in B : \A n \in B : n <= m]>>
      BY DEF SeekProperty, B
    <3>2. B # {} BY <2>4
    <3> QED BY <3>1, <3>2, <2>7
  <2> QED BY <2>3, <2>8, <2>9
<1>3. ASSUME NEW n \in 1 .. Len(before) + 1
      PROVE  SeekValue(after, n) = SeekValue(before, n)
  <2> DEFINE A == {i \in DOMAIN after :
                     after[i].name = None /\ Cardinality(Values(after, i)) = n}
             B == {i \in DOMAIN before :
                     before[i].name = None /\ Cardinality(Values(before, i)) = n}
  <2>1. ASSUME NEW i \in 1 .. Len(after) PROVE i \in A <=> was[i] \in B
    <3>1. Cardinality(Values(after, i)) = Cardinality(Values(before, was[i]))
      BY ValuesCounted
    <3>2. after[i].name = before[was[i]].name /\ was[i] \in DOMAIN before /\ i \in DOMAIN after
      BY <1>0
    <3> QED BY <3>1, <3>2
  <2>2. A = {} <=> B = {}
    <3>1. ASSUME NEW j \in B PROVE \E i \in 1 .. Len(after) : i \in A
      <4>1. j \in 1 .. Len(before) /\ Kept(before, j)
        BY <1>0 DEF Kept
      <4>2. PICK i \in 1 .. Len(after) : was[i] = j
        BY <1>0, <4>1
      <4> HIDE DEF A, B
      <4> QED BY <2>1, <4>2
    <3>2. ASSUME NEW i \in A PROVE was[i] \in B
      <4>1. i \in 1 .. Len(after) BY <1>0
      <4> HIDE DEF A, B
      <4> QED BY <2>1, <4>1
    <3> HIDE DEF A, B
    <3> QED BY <3>1, <3>2
  <2>3. CASE A = {}
    <3>1. SeekValue(after, n) = <<>> /\ SeekValue(before, n) = <<>>
      BY <2>2, <2>3 DEF SeekValue
    <3> QED BY <3>1
  <2>4. CASE A # {}
    <3> DEFINE i == CHOOSE m \in A : TRUE
               j == CHOOSE m \in B : TRUE
    <3>1. i \in A /\ j \in B
      <4> HIDE DEF A, B
      <4> QED BY <2>2, <2>4
    <3>2. SeekValue(after, n) = <<after[i]>> /\ SeekValue(before, n) = <<before[j]>>
      BY <2>2, <2>4 DEF SeekValue
    <3> HIDE DEF i, j
    <3>3. i \in 1 .. Len(after) /\ was[i] \in B
      <4>1. i \in 1 .. Len(after) BY <1>0, <3>1
      <4> HIDE DEF A, B
      <4> QED BY <2>1, <3>1, <4>1
    <3>4. was[i] \in 1 .. Len(before) /\ j \in 1 .. Len(before)
          /\ before[was[i]].name = None /\ before[j].name = None
          /\ Cardinality(Values(before, was[i])) = Cardinality(Values(before, j))
      BY <1>0, <3>1, <3>3
    <3>5. was[i] = j
      BY <3>4, NthOnce
    <3> QED BY <1>0, <3>2, <3>3, <3>5
  <2> QED BY <2>3, <2>4
<1>4. ASSUME NEW i \in DOMAIN after, NEW j \in DOMAIN after,
             after[i].name = after[j].name
      PROVE  i = j \/ after[i].name = None
  <2> SUFFICES ASSUME after[i].name # None PROVE i = j
    OBVIOUS
  <2>1. i \in 1 .. Len(after) /\ j \in 1 .. Len(after)
    BY <1>0
  <2>2. /\ was[i] \in 1 .. Len(before) /\ was[j] \in 1 .. Len(before)
        /\ Kept(before, was[i]) /\ Kept(before, was[j])
        /\ before[was[i]].name = before[was[j]].name /\ before[was[i]].name # None
    BY <1>0, <1>4, <2>1
  <2>3. was[i] = was[j]
    BY <2>2, KeptOnce
  <2> QED BY <1>0, <2>1, <2>3
<1>5. /\ was \in [DOMAIN after -> DOMAIN before]
      /\ \A i, j \in DOMAIN after : i < j => was[i] < was[j]
      /\ \A i \in DOMAIN after : after[i] = before[was[i]]
  BY <1>0 DEF Normalizes
<1> QED
  <2>1. \A key \in Keys(before) : SeekProperty(after, key) = SeekProperty(before, key)
    BY <1>2
  <2>2. \A n \in 1 .. Len(before) + 1 : SeekValue(after, n) = SeekValue(before, n)
    BY <1>3
  <2>3. \A i, j \in DOMAIN after :
          after[i].name = after[j].name => i = j \/ after[i].name = None
    BY <1>4
  <2>4. \E old \in [DOMAIN after -> DOMAIN before] :
          /\ \A i, j \in DOMAIN after : i < j => old[i] < old[j]
          /\ \A i \in DOMAIN after : after[i] = before[old[i]]
    BY <1>5
  <2> QED BY <1>1, <2>1, <2>2, <2>3, <2>4 DEF SameEntries

\* For any entries of a node.
LEMMA EntriesNormalized ==
  ASSUME NEW before \in Seq(Entries)
  PROVE  SameEntries(before, Retained(Marked(before)))
BY RetainedNormalizes, SameLookups

-----------------------------------------------------------------------------
(* Recursion over trees: NormalNode and Alike are recursive functions, and *)
(* there are such functions because children are less high than their      *)
(* node.  Low(n) has the nodes less than n high.                           *)

Low(n) == {node \in Nodes : Height[node] < n}

Childless(node) == node.children \in {<<>>, << <<>> >>}

ChildrenOf(node) ==
  IF Childless(node) THEN {} ELSE {node.children[1][i] : i \in DOMAIN node.children[1]}

LEMMA ChildrenLower ==
  ASSUME NEW node \in Nodes
  PROVE  /\ Height[node] \in Nat
         /\ ChildrenOf(node) \subseteq Low(Height[node])
         /\ node.name \in Names /\ node.entries \in Seq(Entries)
         /\ ~Childless(node) => /\ node.children[1] \in Seq(Nodes)
                                /\ DOMAIN node.children[1] = 1 .. Len(node.children[1])
                                /\ Len(node.children[1]) \in Nat
<1>1. node \in Partial /\ Len(node.children) <= 1
  BY DomAssumption
<1>2. node.name \in Names /\ node.entries \in Seq(Entries) /\ node.children \in Seq(Seq(Nodes))
  BY <1>1, PartialFields
<1>3. Height[node] \in Nat
  BY NormalizeAssumption
<1>4. ASSUME ~Childless(node)
      PROVE  1 \in DOMAIN node.children /\ node.children[1] \in Seq(Nodes)
  <2>1. node.children # <<>> BY <1>4 DEF Childless
  <2>2. Len(node.children) = 1 /\ node.children[1] \in Seq(Nodes)
    BY <1>1, <1>2, <2>1, OneElement
  <2>3. DOMAIN node.children = 1 .. Len(node.children)
    BY <1>2, LenProperties
  <2> QED BY <2>2, <2>3
<1>5. ASSUME ~Childless(node)
      PROVE  DOMAIN node.children[1] = 1 .. Len(node.children[1]) /\ Len(node.children[1]) \in Nat
  BY <1>4, <1>5, LenProperties
<1>6. ASSUME NEW child \in ChildrenOf(node) PROVE child \in Low(Height[node])
  <2>1. ~Childless(node)
    BY DEF ChildrenOf
  <2>2. PICK i \in DOMAIN node.children[1] : child = node.children[1][i]
    BY <2>1 DEF ChildrenOf
  <2>3. child \in Nodes
    BY <1>4, <1>5, <2>1, <2>2, ElementOfSeq
  <2>4. Height[child] < Height[node]
    BY <1>4, <2>1, <2>2, NormalizeAssumption
  <2> QED BY <2>3, <2>4 DEF Low
<1> QED BY <1>2, <1>3, <1>4, <1>5, <1>6

\* A set of nodes that has one whenever it has its children has them all.
LEMMA TreeInduction ==
  ASSUME NEW T, \A node \in Nodes : ChildrenOf(node) \subseteq T => node \in T
  PROVE  Nodes \subseteq T
<1> DEFINE S == {n \in Nat : Low(n) \subseteq T}
<1>1. 0 \in S
  <2>1. ASSUME NEW node \in Low(0) PROVE FALSE
    <3>1. node \in Nodes /\ Height[node] < 0 BY DEF Low
    <3> QED BY <3>1, ChildrenLower
  <2> QED BY <2>1
<1>2. ASSUME NEW n \in Nat, n \in S PROVE n + 1 \in S
  <2>1. ASSUME NEW node \in Low(n + 1) PROVE node \in T
    <3>1. node \in Nodes /\ Height[node] < n + 1 /\ Height[node] \in Nat
      BY ChildrenLower DEF Low
    <3>2. Low(Height[node]) \subseteq Low(n)
      <4>1. ASSUME NEW child \in Low(Height[node]) PROVE child \in Low(n)
        <5>1. child \in Nodes /\ Height[child] < Height[node] BY DEF Low
        <5>2. Height[child] \in Nat BY <5>1, ChildrenLower
        <5>3. Height[child] < n BY <3>1, <5>1, <5>2
        <5> QED BY <5>1, <5>3 DEF Low
      <4> QED BY <4>1
    <3>3. ChildrenOf(node) \subseteq T
      BY <1>2, <3>1, <3>2, ChildrenLower
    <3> QED BY <3>1, <3>3
  <2> QED BY <2>1
<1>3. Nat \subseteq S
  <2> HIDE DEF S
  <2> QED BY <1>1, <1>2, NatInductionSet
<1>4. ASSUME NEW node \in Nodes PROVE node \in T
  <2>1. Height[node] \in Nat BY ChildrenLower
  <2>2. Height[node] + 1 \in S BY <2>1, <1>3
  <2>3. node \in Low(Height[node] + 1) BY <2>1 DEF Low
  <2> QED BY <2>2, <2>3
<1> QED BY <1>4

\* What NormalNode makes of a node when f says what its children become.
NormalWith(f, node) ==
  NewNode(node.name,
          Retained(Marked(node.entries)),
          IF Childless(node) THEN <<>>
          ELSE <<[i \in DOMAIN node.children[1] |-> f[node.children[1][i]]]>>)

LEMMA NormalWithSame ==
  ASSUME NEW node, NEW f, NEW g, \A child \in ChildrenOf(node) : f[child] = g[child]
  PROVE  NormalWith(f, node) = NormalWith(g, node)
<1>1. CASE Childless(node)
  BY <1>1 DEF NormalWith
<1>2. CASE ~Childless(node)
  <2>1. \A i \in DOMAIN node.children[1] : f[node.children[1][i]] = g[node.children[1][i]]
    BY <1>2 DEF ChildrenOf
  <2>2. [i \in DOMAIN node.children[1] |-> f[node.children[1][i]]] =
          [i \in DOMAIN node.children[1] |-> g[node.children[1][i]]]
    BY <2>1
  <2> QED BY <2>2 DEF NormalWith
<1> QED BY <1>1, <1>2

\* NormalNode as far as the nodes less than n high.
NormalBelow(n) == CHOOSE f : f = [node \in Low(n) |-> NormalWith(f, node)]

LEMMA LowGrows ==
  ASSUME NEW n \in Nat, NEW m \in Nat, n <= m
  PROVE  Low(n) \subseteq Low(m)
<1>1. ASSUME NEW node \in Low(n) PROVE node \in Low(m)
  <2>1. node \in Nodes /\ Height[node] < n BY DEF Low
  <2>2. Height[node] \in Nat BY <2>1, ChildrenLower
  <2> QED BY <2>1, <2>2 DEF Low
<1> QED BY <1>1

LEMMA LowChildren ==
  ASSUME NEW n \in Nat, NEW node \in Low(n + 1)
  PROVE  node \in Nodes /\ ChildrenOf(node) \subseteq Low(n)
<1>1. node \in Nodes /\ Height[node] < n + 1 BY DEF Low
<1>2. Height[node] \in Nat /\ ChildrenOf(node) \subseteq Low(Height[node])
  BY <1>1, ChildrenLower
<1>3. Height[node] <= n BY <1>1, <1>2
<1> QED BY <1>1, <1>2, <1>3, LowGrows

LEMMA NormalBelowIs ==
  ASSUME NEW n \in Nat, NEW node \in Low(n)
  PROVE  NormalBelow(n)[node] = NormalWith(NormalBelow(n), node)
<1> DEFINE Exists(k) == \E f : f = [tree \in Low(k) |-> NormalWith(f, tree)]
           S == {k \in Nat : Exists(k)}
<1> HIDE DEF Exists
<1>1. 0 \in S
  <2>1. Low(0) = {}
    <3>1. ASSUME NEW tree \in Low(0) PROVE FALSE
      <4>1. tree \in Nodes /\ Height[tree] < 0 BY DEF Low
      <4> QED BY <4>1, ChildrenLower
    <3> QED BY <3>1
  <2> DEFINE f == [tree \in Low(0) |-> tree]
  <2>2. f = [tree \in Low(0) |-> NormalWith(f, tree)]
    BY <2>1
  <2> HIDE DEF f
  <2>3. Exists(0) BY <2>2 DEF Exists
  <2> QED BY <2>3
<1>2. ASSUME NEW k \in Nat, k \in S PROVE k + 1 \in S
  <2>0. Exists(k)
    BY <1>2
  <2>1. PICK f : f = [tree \in Low(k) |-> NormalWith(f, tree)]
    BY <2>0 DEF Exists
  <2> DEFINE g == [tree \in Low(k + 1) |-> NormalWith(f, tree)]
  <2>2. ASSUME NEW tree \in Low(k) PROVE g[tree] = f[tree]
    <3>1. tree \in Low(k + 1) BY LowGrows
    <3>2. f[tree] = NormalWith(f, tree) BY <2>1
    <3> QED BY <3>1, <3>2
  <2>3. ASSUME NEW tree \in Low(k + 1) PROVE NormalWith(f, tree) = NormalWith(g, tree)
    <3>1. \A child \in ChildrenOf(tree) : f[child] = g[child]
      <4> HIDE DEF g
      <4> QED BY <2>2, LowChildren
    <3> HIDE DEF g
    <3> QED BY <3>1, NormalWithSame
  <2>4. g = [tree \in Low(k + 1) |-> NormalWith(g, tree)]
    <3>1. g = [tree \in Low(k + 1) |-> NormalWith(f, tree)] OBVIOUS
    <3> HIDE DEF g
    <3> QED BY <2>3, <3>1
  <2> HIDE DEF g
  <2>5. Exists(k + 1) BY <2>4 DEF Exists
  <2> QED BY <2>5
<1>3. Nat \subseteq S
  <2> HIDE DEF S
  <2> QED BY <1>1, <1>2, NatInductionSet
<1>4. Exists(n)
  BY <1>3
<1> DEFINE h == NormalBelow(n)
<1>5. h = [tree \in Low(n) |-> NormalWith(h, tree)]
  BY <1>4 DEF NormalBelow, Exists
<1> HIDE DEF h
<1>6. h[node] = NormalWith(h, node)
  BY <1>5
<1> QED BY <1>6 DEF h

\* They agree with each other.
LEMMA NormalBelowAgree ==
  ASSUME NEW n \in Nat, NEW m \in Nat, NEW node \in Nodes, Height[node] < n, Height[node] < m
  PROVE  NormalBelow(n)[node] = NormalBelow(m)[node]
<1> DEFINE T == {tree \in Nodes : Height[tree] < n /\ Height[tree] < m =>
                                    NormalBelow(n)[tree] = NormalBelow(m)[tree]}
<1>1. ASSUME NEW tree \in Nodes, ChildrenOf(tree) \subseteq T PROVE tree \in T
  <2> SUFFICES ASSUME Height[tree] < n, Height[tree] < m
               PROVE  NormalBelow(n)[tree] = NormalBelow(m)[tree]
    OBVIOUS
  <2>1. tree \in Low(n) /\ tree \in Low(m)
    BY DEF Low
  <2>2. ASSUME NEW child \in ChildrenOf(tree)
        PROVE  NormalBelow(n)[child] = NormalBelow(m)[child]
    <3>1. child \in Nodes /\ Height[child] < Height[tree] /\ Height[tree] \in Nat
      BY ChildrenLower DEF Low
    <3>2. Height[child] \in Nat
      BY <3>1, ChildrenLower
    <3>3. Height[child] < n /\ Height[child] < m
      BY <3>1, <3>2
    <3> QED BY <3>3, <1>1
  <2> QED BY <2>1, <2>2, NormalBelowIs, NormalWithSame
<1>2. Nodes \subseteq T
  <2> HIDE DEF T
  <2> QED BY <1>1, TreeInduction
<1> QED BY <1>2

\* The equation of NormalNode.
LEMMA NormalNodeIs ==
  \A node \in Nodes : NormalNode[node] = NormalWith(NormalNode, node)
<1> DEFINE f == [node \in Nodes |-> NormalBelow(Height[node] + 1)[node]]
<1>1. ASSUME NEW node \in Nodes PROVE f[node] = NormalWith(f, node)
  <2> DEFINE h == Height[node] + 1
  <2>1. h \in Nat /\ Height[node] \in Nat /\ node \in Low(h)
    BY ChildrenLower DEF Low
  <2>2. NormalBelow(h)[node] = NormalWith(NormalBelow(h), node)
    BY <2>1, NormalBelowIs
  <2>3. ASSUME NEW child \in ChildrenOf(node) PROVE NormalBelow(h)[child] = f[child]
    <3>1. child \in Nodes /\ Height[child] < Height[node]
      BY ChildrenLower DEF Low
    <3>2. Height[child] \in Nat
      BY <3>1, ChildrenLower
    <3>3. Height[child] < h /\ Height[child] < Height[child] + 1 /\ Height[child] + 1 \in Nat
      BY <2>1, <3>1, <3>2
    <3>4. NormalBelow(h)[child] = NormalBelow(Height[child] + 1)[child]
      BY <2>1, <3>1, <3>3, NormalBelowAgree
    <3> QED BY <3>1, <3>4
  <2>4. f[node] = NormalBelow(h)[node]
    OBVIOUS
  <2> HIDE DEF f, h
  <2> QED BY <2>2, <2>3, <2>4, NormalWithSame
<1>2. f = [node \in Nodes |-> NormalWith(f, node)]
  <2>1. f = [node \in Nodes |-> f[node]] OBVIOUS
  <2> HIDE DEF f
  <2> QED BY <1>1, <2>1
<1> HIDE DEF f
<1>3. NormalNode = CHOOSE g : g = [node \in Nodes |-> NormalWith(g, node)]
  BY DEF NormalNode, NormalWith, Childless
<1> DEFINE g == NormalNode
<1>4. g = [node \in Nodes |-> NormalWith(g, node)]
  BY <1>2, <1>3
<1> HIDE DEF g
<1>5. \A node \in Nodes : g[node] = NormalWith(g, node)
  BY <1>4
<1> QED BY <1>5 DEF g

-----------------------------------------------------------------------------
(* The same for Alike.                                                     *)

\* The node after is like before when f says what its children may become.
Fits(f, before, after) ==
  /\ after.name = before.name
  /\ SameEntries(before.entries, after.entries)
  /\ IF Childless(before) THEN after.children = <<>>
     ELSE /\ Len(after.children) = 1
          /\ Len(after.children[1]) = Len(before.children[1])
          /\ \A i \in DOMAIN before.children[1] :
               after.children[1][i] \in f[before.children[1][i]]

AlikeWith(f, before) == {after \in Trees : Fits(f, before, after)}

LEMMA AlikeWithSame ==
  ASSUME NEW node, NEW f, NEW g, \A child \in ChildrenOf(node) : f[child] = g[child]
  PROVE  AlikeWith(f, node) = AlikeWith(g, node)
<1>1. ASSUME NEW after PROVE Fits(f, node, after) <=> Fits(g, node, after)
  <2>1. CASE Childless(node)
    BY <2>1 DEF Fits
  <2>2. CASE ~Childless(node)
    <3>1. \A i \in DOMAIN node.children[1] : f[node.children[1][i]] = g[node.children[1][i]]
      BY <2>2 DEF ChildrenOf
    <3> QED BY <2>2, <3>1 DEF Fits
  <2> QED BY <2>1, <2>2
<1> QED BY <1>1 DEF AlikeWith

\* Alike as far as the nodes less than n high.
AlikeBelow(n) == CHOOSE f : f = [node \in Low(n) |-> AlikeWith(f, node)]

LEMMA AlikeBelowIs ==
  ASSUME NEW n \in Nat, NEW node \in Low(n)
  PROVE  AlikeBelow(n)[node] = AlikeWith(AlikeBelow(n), node)
<1> DEFINE Exists(k) == \E f : f = [tree \in Low(k) |-> AlikeWith(f, tree)]
           S == {k \in Nat : Exists(k)}
<1> HIDE DEF Exists
<1>1. 0 \in S
  <2>1. Low(0) = {}
    <3>1. ASSUME NEW tree \in Low(0) PROVE FALSE
      <4>1. tree \in Nodes /\ Height[tree] < 0 BY DEF Low
      <4> QED BY <4>1, ChildrenLower
    <3> QED BY <3>1
  <2> DEFINE f == [tree \in Low(0) |-> tree]
  <2>2. f = [tree \in Low(0) |-> AlikeWith(f, tree)]
    BY <2>1
  <2> HIDE DEF f
  <2>3. Exists(0) BY <2>2 DEF Exists
  <2> QED BY <2>3
<1>2. ASSUME NEW k \in Nat, k \in S PROVE k + 1 \in S
  <2>0. Exists(k)
    BY <1>2
  <2>1. PICK f : f = [tree \in Low(k) |-> AlikeWith(f, tree)]
    BY <2>0 DEF Exists
  <2> DEFINE g == [tree \in Low(k + 1) |-> AlikeWith(f, tree)]
  <2>2. ASSUME NEW tree \in Low(k) PROVE g[tree] = f[tree]
    <3>1. tree \in Low(k + 1) BY LowGrows
    <3>2. f[tree] = AlikeWith(f, tree) BY <2>1
    <3> QED BY <3>1, <3>2
  <2>3. ASSUME NEW tree \in Low(k + 1) PROVE AlikeWith(f, tree) = AlikeWith(g, tree)
    <3>1. \A child \in ChildrenOf(tree) : f[child] = g[child]
      <4> HIDE DEF g
      <4> QED BY <2>2, LowChildren
    <3> HIDE DEF g
    <3> QED BY <3>1, AlikeWithSame
  <2>4. g = [tree \in Low(k + 1) |-> AlikeWith(g, tree)]
    <3>1. g = [tree \in Low(k + 1) |-> AlikeWith(f, tree)] OBVIOUS
    <3> HIDE DEF g
    <3> QED BY <2>3, <3>1
  <2> HIDE DEF g
  <2>5. Exists(k + 1) BY <2>4 DEF Exists
  <2> QED BY <2>5
<1>3. Nat \subseteq S
  <2> HIDE DEF S
  <2> QED BY <1>1, <1>2, NatInductionSet
<1>4. Exists(n)
  BY <1>3
<1> DEFINE h == AlikeBelow(n)
<1>5. h = [tree \in Low(n) |-> AlikeWith(h, tree)]
  BY <1>4 DEF AlikeBelow, Exists
<1> HIDE DEF h
<1>6. h[node] = AlikeWith(h, node)
  BY <1>5
<1> QED BY <1>6 DEF h

\* They agree with each other.
LEMMA AlikeBelowAgree ==
  ASSUME NEW n \in Nat, NEW m \in Nat, NEW node \in Nodes, Height[node] < n, Height[node] < m
  PROVE  AlikeBelow(n)[node] = AlikeBelow(m)[node]
<1> DEFINE T == {tree \in Nodes : Height[tree] < n /\ Height[tree] < m =>
                                    AlikeBelow(n)[tree] = AlikeBelow(m)[tree]}
<1>1. ASSUME NEW tree \in Nodes, ChildrenOf(tree) \subseteq T PROVE tree \in T
  <2> SUFFICES ASSUME Height[tree] < n, Height[tree] < m
               PROVE  AlikeBelow(n)[tree] = AlikeBelow(m)[tree]
    OBVIOUS
  <2>1. tree \in Low(n) /\ tree \in Low(m)
    BY DEF Low
  <2>2. ASSUME NEW child \in ChildrenOf(tree)
        PROVE  AlikeBelow(n)[child] = AlikeBelow(m)[child]
    <3>1. child \in Nodes /\ Height[child] < Height[tree] /\ Height[tree] \in Nat
      BY ChildrenLower DEF Low
    <3>2. Height[child] \in Nat
      BY <3>1, ChildrenLower
    <3>3. Height[child] < n /\ Height[child] < m
      BY <3>1, <3>2
    <3> QED BY <3>3, <1>1
  <2> QED BY <2>1, <2>2, AlikeBelowIs, AlikeWithSame
<1>2. Nodes \subseteq T
  <2> HIDE DEF T
  <2> QED BY <1>1, TreeInduction
<1> QED BY <1>2

\* The equation of Alike.
LEMMA AlikeIs ==
  \A node \in Nodes : Alike[node] = AlikeWith(Alike, node)
<1> DEFINE f == [node \in Nodes |-> AlikeBelow(Height[node] + 1)[node]]
<1>1. ASSUME NEW node \in Nodes PROVE f[node] = AlikeWith(f, node)
  <2> DEFINE h == Height[node] + 1
  <2>1. h \in Nat /\ Height[node] \in Nat /\ node \in Low(h)
    BY ChildrenLower DEF Low
  <2>2. AlikeBelow(h)[node] = AlikeWith(AlikeBelow(h), node)
    BY <2>1, AlikeBelowIs
  <2>3. ASSUME NEW child \in ChildrenOf(node) PROVE AlikeBelow(h)[child] = f[child]
    <3>1. child \in Nodes /\ Height[child] < Height[node]
      BY ChildrenLower DEF Low
    <3>2. Height[child] \in Nat
      BY <3>1, ChildrenLower
    <3>3. Height[child] < h /\ Height[child] < Height[child] + 1 /\ Height[child] + 1 \in Nat
      BY <2>1, <3>1, <3>2
    <3>4. AlikeBelow(h)[child] = AlikeBelow(Height[child] + 1)[child]
      BY <2>1, <3>1, <3>3, AlikeBelowAgree
    <3> QED BY <3>1, <3>4
  <2>4. f[node] = AlikeBelow(h)[node]
    OBVIOUS
  <2> HIDE DEF f, h
  <2> QED BY <2>2, <2>3, <2>4, AlikeWithSame
<1>2. f = [node \in Nodes |-> AlikeWith(f, node)]
  <2>1. f = [node \in Nodes |-> f[node]] OBVIOUS
  <2> HIDE DEF f
  <2> QED BY <1>1, <2>1
<1> HIDE DEF f
<1>3. Alike = CHOOSE g : g = [node \in Nodes |-> AlikeWith(g, node)]
  BY DEF Alike, AlikeWith, Fits, Childless
<1> DEFINE g == Alike
<1>4. g = [node \in Nodes |-> AlikeWith(g, node)]
  BY <1>2, <1>3
<1> HIDE DEF g
<1>5. \A node \in Nodes : g[node] = AlikeWith(g, node)
  BY <1>4
<1> QED BY <1>5 DEF g

\* What a node is made into is like it.
LEMMA NormalIsAlike ==
  \A node \in Nodes : NormalNode[node] \in Alike[node]
<1> DEFINE T == {node \in Nodes : NormalNode[node] \in Alike[node]}
<1>1. ASSUME NEW node \in Nodes, ChildrenOf(node) \subseteq T PROVE node \in T
  <2> DEFINE after == NormalNode[node]
             block == [i \in DOMAIN node.children[1] |-> NormalNode[node.children[1][i]]]
  <2>1. after = NewNode(node.name, Retained(Marked(node.entries)),
                        IF Childless(node) THEN <<>> ELSE <<block>>)
    BY NormalNodeIs DEF NormalWith
  <2>2. /\ after.name = node.name
        /\ after.entries = Retained(Marked(node.entries))
        /\ after.children = IF Childless(node) THEN <<>> ELSE <<block>>
    <3> DEFINE kept == Retained(Marked(node.entries))
               below == IF Childless(node) THEN <<>> ELSE <<block>>
    <3>1. after = NewNode(node.name, kept, below)
      BY <2>1
    <3> HIDE DEF block, after, kept, below
    <3>2. after.name = node.name /\ after.entries = kept /\ after.children = below
      BY <3>1 DEF NewNode
    <3> QED BY <3>2 DEF kept, below
  <2>3. SameEntries(node.entries, after.entries)
    <3>1. node.entries \in Seq(Entries) BY ChildrenLower
    <3> HIDE DEF after
    <3> QED BY <3>1, <2>2, EntriesNormalized
  <2>4. CASE Childless(node)
    <3>1. Fits(Alike, node, after)
      <4> HIDE DEF after
      <4> QED BY <2>2, <2>3, <2>4 DEF Fits
    <3> QED BY <3>1, AlikeIs DEF AlikeWith, Trees
  <2>5. CASE ~Childless(node)
    <3>1. /\ DOMAIN node.children[1] = 1 .. Len(node.children[1])
          /\ Len(node.children[1]) \in Nat
      BY <2>5, ChildrenLower
    <3>2. Len(block) = Len(node.children[1])
      BY <3>1
    <3>3. ASSUME NEW i \in DOMAIN node.children[1]
          PROVE  block[i] \in Alike[node.children[1][i]]
      <4>1. node.children[1][i] \in ChildrenOf(node)
        BY <2>5 DEF ChildrenOf
      <4> QED BY <4>1, <1>1
    <3> HIDE DEF block
    <3>4. after.children = <<block>> /\ Len(after.children) = 1 /\ after.children[1] = block
      <4> HIDE DEF after
      <4>1. after.children = <<block>> BY <2>2, <2>5
      <4> QED BY <4>1
    <3>5. Fits(Alike, node, after)
      <4> HIDE DEF after
      <4> QED BY <2>2, <2>3, <2>5, <3>2, <3>3, <3>4 DEF Fits
    <3> QED BY <3>5, AlikeIs DEF AlikeWith, Trees
  <2> QED BY <2>4, <2>5
<1>2. Nodes \subseteq T
  <2> HIDE DEF T
  <2> QED BY <1>1, TreeInduction
<1> QED BY <1>2

-----------------------------------------------------------------------------

\* With normalize as a further step the document is still taken apart and put
\* together as before.
LEMMA NormalizingSpec == NSpec => Spec
<1>1. NInit => Init
  BY DEF NInit
<1>2. [NNext]_<<vars, normal>> => [Next]_vars
  BY DEF NNext, NormalizeBuilt
<1> QED BY <1>1, <1>2, PTL DEF NSpec, Spec

\* Document::normalize changes no lookup: for any document, of any depth and
\* with any entries, every node that it leaves has its name, finds the same
\* property under every key and the same nth value, has no key twice, and its
\* entries stand in the order they were in.
THEOREM NormalizingKeepsLookups == NSpec => []LookupsKept
<1>1. NInit => LookupsKept
  BY DEF NInit, LookupsKept
<1>2. LookupsKept /\ IInv /\ [NNext]_<<vars, normal>> => LookupsKept'
  <2> SUFFICES ASSUME LookupsKept, IInv, [NNext]_<<vars, normal>> PROVE LookupsKept'
    OBVIOUS
  <2>1. CASE Next /\ UNCHANGED normal
    BY <2>1 DEF Next, LookupsKept
  <2>2. CASE NormalizeBuilt
    <3>1. normal' = <<[i \in DOMAIN nodes |-> NormalNode[nodes[i]]]>> /\ doc' = doc
          /\ outcome = "Built"
      BY <2>2 DEF NormalizeBuilt, vars
    <3>2. nodes = doc /\ doc \in Seq(Nodes)
      BY <3>1, DomAssumption DEF IInv, RoundTrip, TypeOK
    <3> DEFINE all == [i \in DOMAIN doc |-> NormalNode[doc[i]]]
    <3>3. DOMAIN doc = 1 .. Len(doc) /\ Len(doc) \in Nat /\ \A i \in DOMAIN doc : doc[i] \in Nodes
      BY <3>2, LenProperties, ElementOfSeq
    <3>4. Len(all) = Len(doc) /\ \A i \in DOMAIN doc : all[i] \in Alike[doc[i]]
      BY <3>3, NormalIsAlike
    <3>5. normal' = <<all>>
      BY <3>1, <3>2
    <3> HIDE DEF all
    <3>6. normal'[1] = all
      BY <3>5
    <3> QED BY <3>1, <3>4, <3>6 DEF LookupsKept
  <2>3. CASE UNCHANGED <<vars, normal>>
    BY <2>3 DEF LookupsKept, vars
  <2> QED BY <2>1, <2>2, <2>3 DEF NNext
<1> QED BY <1>1, <1>2, NormalizingSpec, Invariance, PTL DEF NSpec

=============================================================================

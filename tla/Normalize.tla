----------------------------- MODULE Normalize -----------------------------
(***************************************************************************)
(* Document::normalize on a document that DocumentBuilder has built, and   *)
(* the lookups that it is to leave as they are.                            *)
(*                                                                         *)
(* An entry is a record with a name: None for a value, or the key of a     *)
(* property.                                                               *)
(***************************************************************************)
EXTENDS Dom, FiniteSets

Seqs == INSTANCE SequencesExt

CONSTANT Height  \* of each node's tree

VARIABLE normal  \* the normalized document, <<>> until there is one

None == "None"

\* An empty string at an address of its own, told from an empty key by that.
Marker == "marker"

\* Nodes are finite trees, and no program has the marker.
ASSUME NormalizeAssumption ==
  /\ \A entry \in Entries : "name" \in DOMAIN entry /\ entry.name # Marker
  /\ Height \in [Nodes -> Nat]
  /\ \A node \in Nodes : \A block \in DOMAIN node.children :
       \A i \in DOMAIN node.children[block] : Height[node.children[block][i]] < Height[node]

\* The right-most property of a key, the nth value, or nothing.
SeekProperty(entries, key) ==
  LET found == {i \in DOMAIN entries : entries[i].name = key}
  IN  IF found = {} THEN <<>> ELSE <<entries[CHOOSE i \in found : \A j \in found : j <= i]>>

Values(entries, i) == {j \in 1 .. i : entries[j].name = None}

SeekValue(entries, n) ==
  LET found == {i \in DOMAIN entries :
                  entries[i].name = None /\ Cardinality(Values(entries, i)) = n}
  IN  IF found = {} THEN <<>> ELSE <<entries[CHOOSE i \in found : TRUE]>>

MarkEntry(entry, walk) ==
  IF entry.name = None
  THEN [walk EXCEPT !.entries = <<entry>> \o @]
  ELSE IF entry.name \in walk.seen
  THEN [walk EXCEPT !.entries = <<[entry EXCEPT !.name = Marker]>> \o @]
  ELSE [seen |-> walk.seen \union {entry.name}, entries |-> <<entry>> \o walk.entries]

\* Mutant: the properties are walked from the front.
MarkedFront(entries) ==
  Seqs!Reverse(Seqs!FoldLeft(LAMBDA walk, entry : MarkEntry(entry, walk),
                   [seen |-> {}, entries |-> <<>>], entries).entries)

Marked(entries) ==
  LET walk[i \in 1 .. Len(entries) + 1] ==
        IF i > Len(entries) THEN [seen |-> {}, entries |-> <<>>]
        ELSE MarkEntry(entries[i], walk[i + 1])
  IN  walk[1].entries

\* Vec::retain, of what is not marked.
Retained(entries) ==
  LET kept[i \in 0 .. Len(entries)] ==
        IF i = 0 THEN <<>>
        ELSE IF entries[i].name = Marker THEN kept[i - 1]
        ELSE Append(kept[i - 1], entries[i])
  IN  kept[Len(entries)]

NormalNode[node \in Nodes] ==
  NewNode(node.name,
          Retained(Marked(node.entries)),
          IF node.children \in {<<>>, << <<>> >>} THEN <<>>
          ELSE <<[i \in DOMAIN node.children[1] |-> NormalNode[node.children[1][i]]]>>)

NormalizeBuilt ==
  /\ outcome = "Built" /\ normal = <<>>
  /\ normal' = <<[i \in DOMAIN nodes |-> NormalNode[nodes[i]]]>>
  /\ UNCHANGED vars

NInit == Init /\ normal = <<>>

NNext == (Next /\ UNCHANGED normal) \/ NormalizeBuilt

NSpec == NInit /\ [][NNext]_<<vars, normal>> /\ WF_<<vars, normal>>(NNext)

-----------------------------------------------------------------------------

Keys(entries) == {entries[i].name : i \in DOMAIN entries} \ {None}

\* The same lookups give the same entries, and no property is there twice.
SameEntries(before, after) ==
  /\ Keys(after) = Keys(before)
  /\ \A key \in Keys(before) : SeekProperty(after, key) = SeekProperty(before, key)
  /\ \A n \in 1 .. Len(before) + 1 : SeekValue(after, n) = SeekValue(before, n)
  /\ \A i, j \in DOMAIN after : after[i].name = after[j].name => i = j \/ after[i].name = None
  \* what is kept is in the order it was in
  /\ \E was \in [DOMAIN after -> DOMAIN before] :
       /\ \A i, j \in DOMAIN after : i < j => was[i] < was[j]
       /\ \A i \in DOMAIN after : after[i] = before[was[i]]

Trees == Nodes \union {NormalNode[node] : node \in Nodes}

\* The nodes with the same lookups as this one, at every depth.
Alike[before \in Nodes] ==
  {after \in Trees :
     /\ after.name = before.name
     /\ SameEntries(before.entries, after.entries)
     /\ IF before.children \in {<<>>, << <<>> >>} THEN after.children = <<>>
        ELSE /\ Len(after.children) = 1
             /\ Len(after.children[1]) = Len(before.children[1])
             /\ \A i \in DOMAIN before.children[1] :
                  after.children[1][i] \in Alike[before.children[1][i]]}

\* Normalizing removes what no lookup finds and nothing else: at every depth
\* the properties that are overridden, wherever the one that counts stands, and
\* the blocks that are empty.
LookupsKept ==
  normal # <<>> =>
    /\ Len(normal[1]) = Len(doc)
    /\ \A i \in DOMAIN doc : normal[1][i] \in Alike[doc[i]]
=============================================================================

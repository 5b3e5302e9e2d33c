------------------------------- MODULE MCDom -------------------------------
(***************************************************************************)
(* Small documents for Dom: blocks of at most two nodes, nested three deep *)
(* below the top level.  Entries are values and properties, of which two   *)
(* have the same key and one an empty one.                                 *)
(***************************************************************************)
EXTENDS Normalize

Upto2(S) == {<<>>} \union {<<x>> : x \in S} \union (S \X S)

MCNames == {"a", "b"}

Prop == [name |-> "key", value |-> 1]
Over == [name |-> "key", value |-> 2]
Arg == [name |-> None, value |-> 1]
Unnamed == [name |-> "", value |-> 1]
MCEntries == {Prop, Over, Arg, Unnamed}

NodesOver(blocks) ==
  [name : {"a"}, entries : {<<>>, <<Prop, Over>>}, children : {<<block>> : block \in blocks}]

Leaves == [name : {"a"}, entries : Upto2(MCEntries), children : {<<>>}]
          \union [name : {"b"}, entries : Upto2({Prop, Arg}), children : {<<>>}]
SomeLeaves == {leaf \in Leaves : leaf.entries \in {<<>>, <<Prop>>}}
Inner1 == NodesOver(Upto2(SomeLeaves))
Inner2 == NodesOver({<<>>} \union {<<node, leaf>> : node \in Inner1, leaf \in SomeLeaves})
Inner3 == NodesOver({<<leaf, node>> : node \in Inner2, leaf \in {l \in SomeLeaves : l.name = "b"}})

MCLong == [name : {"a"}, entries : MCEntries \X MCEntries \X MCEntries, children : {<<>>}]

MCNodes == Leaves \union MCLong \union Inner1 \union Inner2 \union Inner3
MCDocuments == Upto2(Leaves) \union {<<node>> : node \in MCNodes}
               \union {<<first, last>> : first \in Inner1, last \in SomeLeaves}

MCHeight[node \in MCNodes] ==
  IF node.children \in {<<>>, << <<>> >>} THEN 0
  ELSE 1 + Seqs!FoldLeft(LAMBDA height, child :
                           IF MCHeight[child] > height THEN MCHeight[child] ELSE height,
                         0, node.children[1])

=============================================================================

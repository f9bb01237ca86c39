---------------------------- MODULE MCObjectTree ----------------------------
(* Values of ObjectTree's constants for TLC. *)
EXTENDS ObjectTree

File(childs) == [childs |-> childs, top |-> 1, selected |-> {}]

\* Files with one object, an object with a child, with two childs, and a chain.
Single == File(<< <<>> >>)
Pair   == File(<< <<2>>, <<>> >>)
Fork   == File(<< <<2, 3>>, <<>>, <<>> >>)
Chain  == File(<< <<2>>, <<3>>, <<>> >>)

\* o and what is below it, in the order of the traversal.
Preorder(h, o) ==
  LET visit[depth \in Ids, x \in Ids] ==
        <<x>> \o IF depth = 1 THEN <<>>
                 ELSE FlattenSeq([i \in DOMAIN h.childs[x] |->
                                    visit[depth - 1, h.childs[x][i]]])
  IN  visit[MaxObjects, o]

\* The heap up to a renaming of its objects: every object is named by its place in
\* the traversal of the root and the copy buffer. Until an object was replaced no
\* command tells one address from another; from then on the heap is told apart as it is.
UpToRenaming ==
  LET tops == RootSeq(heap) \o heap.buffer
      owned == FlattenSeq([i \in DOMAIN tops |-> Preorder(heap, tops[i])])
      Rank(x) == IF x = NoObject THEN 0 ELSE SelectInSeq(owned, LAMBDA y : y = x)
      Node(x) == <<x \in heap.live, x \in heap.selected, Rank(heap.parent[x]),
                   [j \in DOMAIN heap.childs[x] |-> Rank(heap.childs[x][j])]>>
  IN  IF ~Intact THEN <<heap, since>> ELSE
      <<[i \in DOMAIN owned |-> Node(owned[i])], Rank(heap.root), Len(heap.buffer),
        Cardinality(heap.live), heap.fault, since>>

SomeShapes == {Single, Pair, Fork, Chain}
JustPair == {Pair}
=============================================================================

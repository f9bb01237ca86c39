----------------------------- MODULE ObjectTree -----------------------------
(***************************************************************************)
(* The object hierarchy of a model (MdlObject's parent and childs, Model's *)
(* root), the copy buffer, and the commands of the Edit and Object menus   *)
(* that restructure them. Objects are heap cells: they are allocated,      *)
(* linked by raw pointers in both directions, moved between owners and     *)
(* freed. Geometry, names and transforms are left out.                     *)
(***************************************************************************)
EXTENDS Naturals, SequencesExt

CONSTANTS
  MaxObjects,  \* the bound on the number of objects on the heap
  NoObject,    \* the null pointer
  Shapes,      \* the hierarchies that files contain
  AfterReplace \* how many commands are followed once an object was replaced; 0 when
               \* the Object / Replace command is not taken at all

Ids == 1 .. MaxObjects

\* No object is twice in the childs of S.
Apart(childs, S) ==
  \A p, q \in S : \A i \in DOMAIN childs[p], j \in DOMAIN childs[q] :
    childs[p][i] = childs[q][j] => p = q /\ i = j

\* What a file or a clone consists of: its objects, with the childs of each one and the
\* topmost one, and which are selected. Every other object is the child of one object,
\* and none is below itself.
Hierarchy(s) ==
  LET nodes == DOMAIN s.childs
  IN  /\ IsFiniteSet(nodes) /\ s.top \in nodes /\ s.selected \subseteq nodes
      /\ s.childs \in [nodes -> Seq(nodes)] /\ Apart(s.childs, nodes)
      /\ \A x \in nodes : x = s.top <=> \A p \in nodes : x \notin ToSet(s.childs[p])
      /\ \A S \in (SUBSET nodes) \ {{}} : \E x \in S : \A p \in S : x \notin ToSet(s.childs[p])

ASSUME HeapAssumption  == MaxObjects \in Nat \ {0} /\ NoObject \notin Nat
ASSUME ShapeAssumption == AfterReplace \in Nat /\ \A s \in Shapes : Hierarchy(s)

VARIABLES
  heap,  \* the objects, the model's root, the copy buffer, and the first fault
  since  \* commands taken since an object was replaced, that one included; 0 if none was

vars == <<heap, since>>

Heap == [live     : SUBSET Ids,                 \* allocated objects
         parent   : [Ids -> Ids \cup {NoObject}],
         childs   : [Ids -> Seq(Ids)],
         selected : SUBSET Ids,                 \* isSelected
         root     : Ids \cup {NoObject},        \* Model::root
         buffer   : Seq(Ids),                   \* CopyBuffer::buffer
         fault    : {"none", "assertion", "dangling"}]

-----------------------------------------------------------------------------
(* Traversals *)

\* o and its descendants: what no set of objects with o leaves out, unless a child of one
\* of them is not in the set either.
Below(h, o) ==
  {x \in Ids : \A S \in SUBSET (Ids \ {x}) : o \in S => \E p \in S : ~ ToSet(h.childs[p]) \subseteq S}

BelowAll(h, tops) == UNION {Below(h, o) : o \in ToSet(tops)}

\* A traversal from tops meets every object once.
MetOnce(h, tops) ==
  LET met == BelowAll(h, tops)
  IN  /\ Apart(h.childs, met) /\ IsInjective(tops)
      /\ \A p \in met : ToSet(h.childs[p]) \cap ToSet(tops) = {}

RootSeq(h) == IF h.root = NoObject THEN <<>> ELSE <<h.root>>

InModel(h)  == BelowAll(h, RootSeq(h))
InBuffer(h) == BelowAll(h, h.buffer)

\* A traversal meets x before y: a parent comes before its childs, and what is below a
\* child before what is below the next one.
Visited(h, x, y) ==
  \/ x # y /\ y \in Below(h, x)
  \/ \E p \in InModel(h) : \E i, j \in DOMAIN h.childs[p] :
       i < j /\ x \in Below(h, h.childs[p][i]) /\ y \in Below(h, h.childs[p][j])

\* The objects of S in the order of the traversal of the model. There is no such list
\* where a traversal would meet an object twice.
InOrder(h, S) ==
  {s \in [1 .. Cardinality(S) -> S] :
     /\ ToSet(s) = S /\ MetOnce(h, RootSeq(h))
     /\ \A j \in DOMAIN s : \A i \in 1 .. j - 1 : Visited(h, s[i], s[j])}

Selected(h) == h.selected \cap InModel(h)

GetSelectedObjects(h) == InOrder(h, Selected(h))

\* GetSingleSel returns o.
SingleSel(h, o) == <<o>> \in GetSelectedObjects(h)

\* The pointers HasSelectedParent looks at: up to the first selected ancestor.
Climb(h, o) ==
  {x \in Ids : \A S \in SUBSET (Ids \ {x}) :
     h.parent[o] \in S \cup {NoObject} =>
       \E p \in S \ h.selected : h.parent[p] \notin S \cup {NoObject}}

\* Mutant of HasSelectedParent: it looks at the parent only.
HasSelectedDirectParent(h, o) == h.parent[o] \in h.selected

HasSelectedParent(h, o) == Climb(h, o) \cap h.selected # {}

\* The selected objects below no other selected one, and whether finding them out
\* reads only objects that exist.
Topmost(h) == {o \in Selected(h) : ~HasSelectedParent(h, o)}
ClimbsSafely(h) == \A o \in Selected(h) : Climb(h, o) \subseteq h.live

-----------------------------------------------------------------------------
(* Heap cells. A fault is what the code does to a freed object, or to an    *)
(* object that is not where a pointer says; what follows it is not modelled. *)

Fault(h, f) == IF h.fault = "none" THEN [h EXCEPT !.fault = f] ELSE h

Linked(h, o) == h.parent[o] \in h.live /\ o \in ToSet(h.childs[h.parent[o]])

\* What Clone copies: the objects below o and the selection, whatever parent pointers say.
ShapeOf(h, o) == [childs   |-> [x \in Below(h, o) |-> h.childs[x]],
                  top      |-> o,
                  selected |-> h.selected \cap Below(h, o)]

HasRoom(h, s) == Cardinality(DOMAIN s.childs) <= Cardinality(Ids \ h.live)

\* The objects that clones of those in list s consist of.
Copies(h, s) == UNION {{i} \X Below(h, s[i]) : i \in DOMAIN s}

\* The addresses that new objects get.
Addresses(h, nodes) == CHOOSE at \in [nodes -> Ids \ h.live] : IsInjective(at)

Top(h, s) == Addresses(h, DOMAIN s.childs)[s.top]

\* Mutant of ParentIn: childs are not linked back to their parent.
NoParentIn(s, at, x) == NoObject

\* The parent of node x of hierarchy s, when its objects are placed at the addresses at.
ParentIn(s, at, x) ==
  IF x = s.top THEN NoObject
  ELSE at[CHOOSE p \in DOMAIN s.childs : x \in ToSet(s.childs[p])]

\* Objects of hierarchy s are allocated and linked both ways.
Build(h, s) ==
  LET nodes   == DOMAIN s.childs
      at      == Addresses(h, nodes)
      Node(a) == CHOOSE x \in nodes : at[x] = a
  IN  [h EXCEPT
         !.live     = @ \cup Range(at),
         !.childs   = [a \in Ids |-> IF a \in Range(at)
                                     THEN [j \in DOMAIN s.childs[Node(a)] |-> at[s.childs[Node(a)][j]]]
                                     ELSE @[a]],
         !.parent   = [a \in Ids |-> IF a \in Range(at) THEN ParentIn(s, at, Node(a)) ELSE @[a]],
         !.selected = @ \cup {at[x] : x \in s.selected}]

Without(h, S) ==
  [h EXCEPT !.live     = @ \ S,
            !.parent   = [x \in Ids |-> IF x \in S THEN NoObject ELSE @[x]],
            !.childs   = [x \in Ids |-> IF x \in S THEN <<>> ELSE @[x]],
            !.selected = @ \ S]

\* Mutant of Destroy: childs are forgotten.
DestroyAlone(h, o) == IF o \notin h.live THEN Fault(h, "dangling") ELSE Without(h, {o})

\* ~MdlObject: childs are deleted with their parent.
Destroy(h, o) ==
  IF Below(h, o) \subseteq h.live /\ MetOnce(h, <<o>>)
  THEN Without(h, Below(h, o)) ELSE Fault(h, "dangling")

UnlinkFromParent(h, o) ==
  IF h.parent[o] = NoObject THEN h
  ELSE IF ~Linked(h, o) THEN Fault(h, "dangling")
  ELSE [h EXCEPT !.childs[h.parent[o]] = RemoveFirst(@, o), !.parent[o] = NoObject]

LinkToParent(h, o, p) ==
  LET u == UnlinkFromParent(h, o)
  IN  IF p = NoObject THEN h
      ELSE [u EXCEPT !.childs[p] = Append(@, o), !.parent[o] = p]

\* The owner of o lets it go: its parent, or the model when it is the root.
TakeOut(h, o) ==
  IF h.parent[o] # NoObject THEN UnlinkFromParent(h, o)
  ELSE IF o # h.root THEN Fault(h, "assertion")
  ELSE [h EXCEPT !.root = NoObject]

DeleteObject(h, o) ==
  IF o \notin h.live THEN Fault(h, "dangling") ELSE Destroy(TakeOut(h, o), o)

\* A loop over the list s (FoldLeft, as a recursive function).
InTurn(step(_, _), h, s) ==
  LET after[i \in 0 .. Len(s)] == IF i = 0 THEN h ELSE step(after[i - 1], s[i])
  IN  after[Len(s)]

-----------------------------------------------------------------------------
(* Commands, as functions on the heap *)

\* Objects below a selected one go with it: s lists the topmost ones.
DeleteSelection(h, s) ==
  IF ClimbsSafely(h) THEN InTurn(DeleteObject, h, s) ELSE Fault(h, "dangling")

ClearBuffer(h) == [InTurn(Destroy, h, h.buffer) EXCEPT !.buffer = <<>>]

PushClone(h, o) ==
  IF h.fault # "none" THEN h
  ELSE [Build(h, ShapeOf(h, o)) EXCEPT !.buffer = Append(@, Top(h, ShapeOf(h, o)))]

Copy(h, s) ==
  IF ClimbsSafely(h) THEN InTurn(PushClone, ClearBuffer(h), s) ELSE Fault(h, "dangling")

\* The first selected object.
FirstSelected(h) == CHOOSE o \in Selected(h) : \A x \in Selected(h) \ {o} : Visited(h, o, x)

\* Mutant of CutFirst: the object keeps pointing at its old parent.
CutFirstStaysLinked(h) ==
  IF Selected(h) = {} THEN h
  ELSE LET o == FirstSelected(h)
       IN  [TakeOut(h, o) EXCEPT !.parent[o] = h.parent[o],
                                 !.selected = @ \ {o}, !.buffer = Append(@, o)]

\* One round of the loop of CopyBuffer::Cut.
CutFirst(h) ==
  IF Selected(h) = {} THEN h
  ELSE LET o == FirstSelected(h)
       IN  [TakeOut(h, o) EXCEPT !.selected = @ \ {o}, !.buffer = Append(@, o)]

\* The loop ends at a fault.
CutRound(h, n) == IF h.fault = "none" THEN CutFirst(h) ELSE h

\* Mutant of Cut: the selected objects are listed once, nested ones included.
CutListed(h) ==
  InTurn(LAMBDA g, o : [TakeOut(g, o) EXCEPT !.selected = @ \ {o}, !.buffer = Append(@, o)],
         ClearBuffer(h), CHOOSE s \in GetSelectedObjects(h) : TRUE)

\* Until nothing is selected any more: a round per object is enough.
Cut(h) == InTurn(CutRound, ClearBuffer(h), [n \in Ids |-> n])

\* Into a single selected object go clones of the whole buffer. Into none goes only
\* the first one, and only when there is no root ("There can only be one root
\* object").
PasteInto(h, where) ==
  InTurn(LAMBDA g, o : LinkToParent(Build(g, ShapeOf(g, o)), Top(g, ShapeOf(g, o)), where),
         h, h.buffer)

PasteRoot(h) ==
  IF h.buffer = <<>> \/ h.root # NoObject THEN h
  ELSE LET s == ShapeOf(h, Head(h.buffer)) IN [Build(h, s) EXCEPT !.root = Top(h, s)]

\* a and b are unlinked and exchange their childs.
ExchangeChilds(h, a, b) ==
  LET u == UnlinkFromParent(UnlinkFromParent(h, a), b)
      Kids(x) == IF x = a THEN u.childs[b] ELSE IF x = b THEN u.childs[a] ELSE u.childs[x]
  IN  [u EXCEPT !.childs = [x \in Ids |-> Kids(x)],
                !.parent = [x \in Ids |-> IF x \in ToSet(Kids(a)) THEN a
                                          ELSE IF x \in ToSet(Kids(b)) THEN b
                                          ELSE @[x]]]

\* Mutant of LinkSwapped: the case of a being the parent of b is missed.
LinkSwappedMissesChild(h, a, b, ap, bp) ==
  IF b = ap THEN LinkToParent(LinkToParent(h, b, a), a, bp)
  ELSE LinkToParent(LinkToParent(h, a, bp), b, ap)

\* Each is linked where the other was, ap and bp being their old parents.
LinkSwapped(h, a, b, ap, bp) ==
  IF b = ap THEN LinkToParent(LinkToParent(h, b, a), a, bp)
  ELSE IF a = bp THEN LinkToParent(LinkToParent(h, a, b), b, ap)
  ELSE LinkToParent(LinkToParent(h, a, bp), b, ap)

\* Mutant of SwapObjects: childs stay with their parent.
SwapKeepsChilds(h, a, b) ==
  LET u == UnlinkFromParent(UnlinkFromParent(h, a), b)
  IN  [LinkSwapped(u, a, b, h.parent[a], h.parent[b])
         EXCEPT !.root = IF a = @ THEN b ELSE IF b = @ THEN a ELSE @]

SwapObjects(h, a, b) ==
  [LinkSwapped(ExchangeChilds(h, a, b), a, b, h.parent[a], h.parent[b])
     EXCEPT !.root = IF a = @ THEN b ELSE IF b = @ THEN a ELSE @]

\* Mutant of ReplaceObject: the old object is deleted with its childs still in it.
ReplaceDeletesChilds(h, old, new) ==
  LET p == h.parent[old]
      d == DeleteObject(h, old)
  IN  IF p = NoObject THEN [d EXCEPT !.root = new]
      ELSE [d EXCEPT !.childs[p] = Append(@, new)]

\* The old object's childs are moved without a new parent pointer, and the new
\* object is put among the childs of the old one's parent without one.
ReplaceObject(h, old, new) ==
  LET p == h.parent[old]
      d == DeleteObject([h EXCEPT !.childs[new] = @ \o h.childs[old],
                                  !.childs[old] = <<>>], old)
  IN  IF p = NoObject THEN [d EXCEPT !.root = new]
      ELSE [d EXCEPT !.childs[p] = Append(@, new)]

\* Mutant of MergeChild: grandchildren keep their parent pointer.
MergeChildKeepsPointers(h, p, o) ==
  Destroy([h EXCEPT !.childs[p] = RemoveFirst(@ \o h.childs[o], o), !.childs[o] = <<>>], o)

\* The childs of o become its parent's, and o is deleted.
MergeChild(h, p, o) ==
  Destroy([h EXCEPT !.childs[p] = RemoveFirst(@ \o h.childs[o], o),
                    !.childs[o] = <<>>,
                    !.parent = [x \in Ids |-> IF x \in ToSet(h.childs[o]) THEN p ELSE @[x]]],
          o)

MergeNext(h, o) ==
  IF h.parent[o] = NoObject THEN h
  ELSE IF ~Linked(h, o) THEN Fault(h, "dangling")
  ELSE MergeChild(h, h.parent[o], o)

\* Mutant of MergeSelection: what is below a selected object is not merged.
MergeTopmost(h, s) == InTurn(MergeNext, h, CHOOSE t \in InOrder(h, Topmost(h)) : TRUE)

\* Object / Merge: the list is made before the first merge.
MergeSelection(h, s) == InTurn(MergeNext, h, s)

\* SetModel: the new model is built before the old one is deleted.
SetRoot(h, new) ==
  [IF h.root = NoObject THEN h ELSE Destroy(h, h.root) EXCEPT !.root = new]

-----------------------------------------------------------------------------
(* Actions *)

\* A command leaves h, unless an earlier one has met a fault.
Step(h, n) ==
  /\ heap.fault = "none" /\ since <= AfterReplace
  /\ heap' = h
  /\ since' = n

Leave(h) == Step(h, IF since = 0 THEN 0 ELSE since + 1)

\* All that is below the selected objects, and they.
BelowSelected == UNION {Below(heap, o) : o \in Selected(heap)}

\* Clicks in a view or in the object tree, one after the other.
Select ==
  LET met == InModel(heap)
  IN  \E S \in SUBSET met : Leave([heap EXCEPT !.selected = (@ \ met) \cup S])

DoDelete == \E s \in InOrder(heap, Topmost(heap)) : Leave(DeleteSelection(heap, s))

DoCopy ==
  \E s \in InOrder(heap, Topmost(heap)) :
    /\ Cardinality(Copies(heap, s)) <= Cardinality(Ids \ (heap.live \ InBuffer(heap)))
    /\ Leave(Copy(heap, s))

DoCut == GetSelectedObjects(heap) # {} /\ Leave(Cut(heap))

DoPaste ==
  /\ MetOnce(heap, heap.buffer)
  /\ Cardinality(Copies(heap, heap.buffer)) <= Cardinality(Ids \ heap.live)
  /\ \/ \E o \in heap.live : SingleSel(heap, o) /\ Leave(PasteInto(heap, o))
     \/ <<>> \in GetSelectedObjects(heap) /\ Leave(PasteRoot(heap))

\* A new object becomes the root, or a child of the single selected object.
DoAddObject ==
  LET s == [childs |-> << <<>> >>, top |-> 1, selected |-> {}]
  IN  /\ HasRoom(heap, s)
      /\ \/ heap.root = NoObject /\ Leave([Build(heap, s) EXCEPT !.root = Top(heap, s)])
         \/ /\ heap.root # NoObject
            /\ \E o \in heap.live : SingleSel(heap, o)
                                   /\ Leave(LinkToParent(Build(heap, s), Top(heap, s), o))

DoSwap ==
  \E s \in GetSelectedObjects(heap) : Len(s) = 2 /\ Leave(SwapObjects(heap, s[1], s[2]))

DoMerge == \E s \in GetSelectedObjects(heap) : Leave(MergeSelection(heap, s))

\* Object / Load: a file's hierarchy becomes a child of the single selected object.
DoInsert(s) ==
  /\ HasRoom(heap, s)
  /\ \E o \in heap.live : SingleSel(heap, o)
                         /\ Leave(LinkToParent(Build(heap, s), Top(heap, s), o))

DoReplace(s) ==
  /\ AfterReplace > 0 /\ HasRoom(heap, s)
  /\ \E o \in heap.live : SingleSel(heap, o)
                         /\ Step(ReplaceObject(Build(heap, s), o, Top(heap, s)), since + 1)

\* File / Load.
DoLoad(s) ==
  /\ HasRoom(heap, s)
  /\ Leave(SetRoot(Build(heap, s), Top(heap, s)))

\* File / New, or undo back to the empty model.
DoNew == heap.root # NoObject /\ Leave(SetRoot(heap, NoObject))

\* An undo and a redo: the model is replaced by a clone, which may land on the
\* memory the old one had.
DoUndoRedo ==
  /\ heap.root # NoObject /\ MetOnce(heap, RootSeq(heap))
  /\ LET s == ShapeOf(heap, heap.root)
         h == SetRoot(heap, NoObject)
     IN  HasRoom(h, s) /\ Leave([Build(h, s) EXCEPT !.root = Top(h, s)])

Next ==
  \/ Select
  \/ DoDelete
  \/ DoCopy
  \/ DoCut
  \/ DoPaste
  \/ DoAddObject
  \/ DoSwap
  \/ DoMerge
  \/ \E s \in Shapes : DoInsert(s)
  \/ \E s \in Shapes : DoReplace(s)
  \/ \E s \in Shapes : DoLoad(s)
  \/ DoNew
  \/ DoUndoRedo

\* The editor starts with an empty model and an empty copy buffer.
Init ==
  /\ heap = [live |-> {}, parent |-> [o \in Ids |-> NoObject],
             childs |-> [o \in Ids |-> <<>>], selected |-> {},
             root |-> NoObject, buffer |-> <<>>, fault |-> "none"]
  /\ since = 0

Spec == Init /\ [][Next]_vars

-----------------------------------------------------------------------------
(* Properties *)

\* No object was replaced yet. What DoReplace leaves of the links is told by
\* ReplaceKeepsTheRest and UndoRedoRelinks; the other properties are about hierarchies
\* it has not touched.
Intact == since = 0

\* The heap has its type, and no object points at a freed parent (the members of
\* MdlObject, Model and CopyBuffer).
TypeOK ==
  /\ heap \in Heap
  /\ heap.selected \subseteq heap.live
  /\ since \in 0 .. AfterReplace + 1
  /\ Intact => \A o \in heap.live : heap.parent[o] \in heap.live \cup {NoObject}

\* Every object hangs once below the root or a buffered object, and nothing else does.
AllOwned ==
  LET tops == RootSeq(heap) \o heap.buffer
  IN  BelowAll(heap, tops) = heap.live /\ MetOnce(heap, tops)

\* Every object is owned exactly once, by a parent, as the root or by the copy
\* buffer: nothing is leaked, freed twice by ~MdlObject, or its own ancestor, and no
\* owner keeps a freed object.
OwnedOnce == Intact => AllOwned

\* The two directions of every link agree: an object's parent is the object that has
\* it among its childs, and null for the root and the buffered ones (DeleteObject,
\* UnlinkFromParent and MergeChild erase an object at the place its parent says).
LinksAgree ==
  Intact => \A o \in heap.live :
    heap.parent[o] = IF \E p \in heap.live : o \in ToSet(heap.childs[p])
                     THEN CHOOSE p \in heap.live : o \in ToSet(heap.childs[p])
                     ELSE NoObject

\* No command reads a freed object or erases a link that is not there, whatever was
\* done to the hierarchy before.
NoDangling == Intact => heap.fault # "dangling"

\* DeleteObject's "assert (obj == root)" and Cut's "assert(mdl->root==obj)": an
\* object without a parent is the root (Model.cpp, Tools.cpp).
AssertionsHold == heap.fault # "assertion"

\* Delete takes the selected objects with all that is below them and nothing else;
\* the links between the others stay (uiDeleteSelection skips what has a selected
\* ancestor, DeleteObject would free it twice).
DeleteIsExact ==
  [][Intact /\ DoDelete => /\ heap'.live = heap.live \ BelowSelected
                 /\ \A o \in heap'.live : heap'.parent[o] = heap.parent[o]]_vars

\* Cut moves the selected objects, with all that is below them, out of the model and
\* into the copy buffer, each hierarchy in one piece; the buffer's old contents are
\* all that is freed (CopyBuffer::Cut starts over after each object).
CutLosesNothing ==
  [][Intact /\ DoCut => /\ InModel(heap') = InModel(heap) \ BelowSelected
              /\ InBuffer(heap') = BelowSelected
              /\ \A o \in BelowSelected : Below(heap', o) = Below(heap, o)]_vars

\* Two objects swapped exchange their places in the hierarchy, also when one is the
\* parent or an ancestor of the other or the root; all others stay where they were
\* ("can swap any pair of objects including parent/child", readme.txt).
SwapExchangesPlaces ==
  [][Intact /\ DoSwap =>
       \E a, b \in heap.live :
         LET Other(o) == IF o = a THEN b ELSE IF o = b THEN a ELSE o
         IN
           /\ a # b /\ Selected(heap) = {a, b}
           /\ heap'.live = heap.live
           /\ heap'.root = Other(heap.root)
           /\ \A o \in heap.live : heap'.parent[Other(o)] = Other(heap.parent[o])]_vars

\* Merging removes exactly the selected objects that have a parent, and hangs every
\* other object below its closest ancestor that is left (menuObjectMerge works
\* through a list of objects that it changes the surroundings of).
MergeKeepsAncestry ==
  [][Intact /\ DoMerge =>
       LET merged == Selected(heap) \ {heap.root}
           left == heap.live \ merged
       IN  /\ heap'.live = left
           /\ \A p, o \in InModel(heap) \cap left :
                o \in Below(heap, p) <=> o \in Below(heap', p)]_vars

\* Replacing an object frees that object and nothing else: what was below it is still
\* in the model (Model::ReplaceObject empties the old object before it deletes it).
ReplaceKeepsTheRest ==
  [][\A s \in Shapes :
       Intact /\ DoReplace(s) =>
         /\ heap.live \ heap'.live = Selected(heap)
         /\ InModel(heap') \cup InBuffer(heap') = heap'.live]_vars

\* Undoing and redoing heals parent pointers that a replacement left wrong: the clone
\* sets its own (MdlObject::Clone), as long as no object has two owners.
UndoRedoRelinks ==
  [][AllOwned /\ DoUndoRedo =>
       \A p \in InModel(heap') :
         \A o \in ToSet(heap'.childs[p]) : heap'.parent[o] = p]_vars
=============================================================================

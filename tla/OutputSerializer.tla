-------------------------- MODULE OutputSerializer --------------------------
(***************************************************************************)
(* COutputStreamSerializer of creg/Serializer.cpp: a package is the data   *)
(* of a root object and of everything that can be reached from it, written *)
(* object by object, then the table of the objects, then the names and the *)
(* checksum of their classes, and last the header.                         *)
(*                                                                         *)
(* Memory is a function from instances to records: an instance that was    *)
(* allocated on its own is <<name>>, one that is a member of another, or   *)
(* an element of a vector of it, is Append(owner, position).  "at" is the  *)
(* address: a member at offset 0 of a structure without virtual functions  *)
(* has the address of the structure.  "fields" lists what the class        *)
(* registered, vectors flattened to their length and their elements: the   *)
(* order in which IType::Serialize visits it.  One step serializes one     *)
(* field: the call stack of the recursion is the sequence todo.            *)
(***************************************************************************)
EXTENDS Naturals, Sequences, Functions

CONSTANTS
    Heaps,       \* the models a user may save, as memory: see above
    Root,        \* the instance that is saved, an instance of its own
    MaxStream,   \* a package of more tokens than this is never written
    ClassOrders  \* lists of classes in the orders that the allocator may bring about

VARIABLES
    heap,        \* the memory, which saving only reads
    ptrToID,     \* address -> [id, class, isEmbedded]
    objects,     \* id -> address: pointers to the entries of ptrToID
    pending,     \* pendingObjects: seen through a pointer, not yet written
    po,          \* what is left of the copy that the current pass works on
    todo,        \* the fields still to be written by the calls under way
    stream,      \* the tokens written so far
    written,     \* the objects that were written at top level, in order
    saving,      \* "saving", "saved", or "cut": the save never ended
    file         \* what is on disk when the save is over

svars == <<heap, ptrToID, objects, pending, po, todo, stream, written, saving, file>>

(* A null pointer refers to no instance.                                   *)
Null == <<>>

(* The package of an unfinished save: its header was never written.        *)
NoHeader == [header |-> FALSE]

(* Instances that were allocated on their own, and those inside another.   *)
OwnInstances(h) == {p \in DOMAIN h : Len(p) = 1}

InnerInstances(h) == DOMAIN h \ OwnInstances(h)

Addresses(h, S) == {h[p].at : p \in S}

FieldsOf(h) == UNION {Range(h[p].fields) : p \in DOMAIN h}

(* No registered pointer of a model leads to a member of an object, and    *)
(* whatever a pointer leads to has virtual functions, so that none of its  *)
(* members is at offset 0 and has its address.                             *)
ASSUME HeapAssumption ==
    \A h \in Heaps :
        /\ Root \in OwnInstances(h)
        /\ \A p \in DOMAIN h : h[p].fields \in Seq(FieldsOf(h))
        /\ \A f \in FieldsOf(h) :
             /\ f.kind = "ptr" => f.val = Null \/ f.val \in OwnInstances(h)
             /\ f.kind = "inst" => f.val \in InnerInstances(h)
             /\ f.kind = "len" => f.val \in Nat
        /\ Addresses(h, OwnInstances(h)) \cap Addresses(h, InnerInstances(h)) = {}

(* The instance at an address is found by its class, as one address may be *)
(* that of a structure and of its first member.                            *)
InstanceAt(a, c) == CHOOSE p \in DOMAIN heap : heap[p].at = a /\ heap[p].class = c

Entry(n, c, embedded) == [id |-> n, class |-> c, isEmbedded |-> embedded]

(* The assignment ptrToID[a] = e, which may replace an entry.              *)
PutEntry(a, e) == [b \in DOMAIN ptrToID \union {a} |-> IF b = a THEN e ELSE ptrToID[b]]

(* SavePackage registers the root object before its loop starts.           *)
SaveInit ==
    /\ heap \in Heaps
    /\ ptrToID = [a \in {heap[Root].at} |-> Entry(1, heap[Root].class, FALSE)]
    /\ objects = <<heap[Root].at>>
    /\ pending = <<heap[Root].at>>
    /\ po = <<>>
    /\ todo = <<>>
    /\ stream = <<>>
    /\ written = <<>>
    /\ saving = "saving"
    /\ file = NoHeader

(***************************************************************************)
(* The fields.                                                             *)
(***************************************************************************)

(* Whether the next thing to do is to write a field of this kind.          *)
AtField(kind) ==
    /\ saving = "saving"
    /\ todo # <<>>
    /\ Head(todo).kind = kind
    /\ Len(stream) < MaxStream

(* Serialize: plain data, and the length that a vector writes.             *)
WriteData ==
    /\ AtField("data") \/ AtField("len")
    /\ stream' = Append(stream, Head(todo))
    /\ todo' = Tail(todo)
    /\ UNCHANGED <<heap, ptrToID, objects, pending, po, written, saving, file>>

(* A mutant: every pointer registers an object, also one that is known.    *)
WritePtrAlwaysNew ==
    /\ AtField("ptr")
    /\ LET target == Head(todo).val
           a == heap[target].at
           n == Len(objects) + 1
       IN  IF target = Null
           THEN /\ stream' = Append(stream, [kind |-> "ptr", val |-> 0])
                /\ UNCHANGED <<ptrToID, objects, pending>>
           ELSE /\ ptrToID' = PutEntry(a, Entry(n, heap[target].class, FALSE))
                /\ objects' = Append(objects, a)
                /\ pending' = Append(pending, a)
                /\ stream' = Append(stream, [kind |-> "ptr", val |-> n])
    /\ todo' = Tail(todo)
    /\ UNCHANGED <<heap, po, written, saving, file>>

(* SerializeObjectPtr: the object of a pointer is only registered, under   *)
(* the class that its virtual GetClass returns, and written by a later     *)
(* pass of the loop in SavePackage.                                        *)
WritePtr ==
    /\ AtField("ptr")
    /\ LET target == Head(todo).val
           a == heap[target].at
       IN  IF target = Null
           THEN /\ stream' = Append(stream, [kind |-> "ptr", val |-> 0])
                /\ UNCHANGED <<ptrToID, objects, pending>>
           ELSE IF a \in DOMAIN ptrToID
           THEN /\ stream' = Append(stream, [kind |-> "ptr", val |-> ptrToID[a].id])
                /\ UNCHANGED <<ptrToID, objects, pending>>
           ELSE /\ ptrToID' = PutEntry(a, Entry(Len(objects) + 1, heap[target].class, FALSE))
                /\ objects' = Append(objects, a)
                /\ pending' = Append(pending, a)
                /\ stream' = Append(stream, [kind |-> "ptr", val |-> Len(objects) + 1])
    /\ todo' = Tail(todo)
    /\ UNCHANGED <<heap, po, written, saving, file>>

(* Mutants: the row of an inner object is forgotten; the class of an entry *)
(* is not compared, so that a member is taken for the object around it.    *)
WriteInstanceWithoutRow ==
    /\ AtField("inst")
    /\ LET inst == Head(todo).val
           n == Len(objects) + 1
       IN  /\ ptrToID' = PutEntry(heap[inst].at, Entry(n, heap[inst].class, TRUE))
           /\ stream' = Append(stream, [kind |-> "inst", val |-> n])
           /\ todo' = heap[inst].fields \o Tail(todo)
    /\ UNCHANGED <<heap, objects, pending, po, written, saving, file>>

WriteInstanceByAddress ==
    /\ AtField("inst")
    /\ LET inst == Head(todo).val
           a == heap[inst].at
           known == a \in DOMAIN ptrToID
           n == IF known THEN ptrToID[a].id ELSE Len(objects) + 1
       IN  /\ ptrToID' = PutEntry(a, Entry(n, heap[inst].class, TRUE))
           /\ objects' = IF known THEN objects ELSE Append(objects, a)
           /\ stream' = Append(stream, [kind |-> "inst", val |-> n])
           /\ todo' = heap[inst].fields \o Tail(todo)
    /\ UNCHANGED <<heap, pending, po, written, saving, file>>

(* SerializeObjectInstance: an object inside another one is written where  *)
(* it stands.  If its address is known under another class the entry is    *)
(* taken over, and from then on two ids share it.                          *)
WriteInstance ==
    /\ AtField("inst")
    /\ LET inst == Head(todo).val
           a == heap[inst].at
           c == heap[inst].class
           known == a \in DOMAIN ptrToID /\ ptrToID[a].class = c
           n == IF known THEN ptrToID[a].id ELSE Len(objects) + 1
       IN  /\ ptrToID' = PutEntry(a, Entry(n, c, TRUE))
           /\ objects' = IF known THEN objects ELSE Append(objects, a)
           /\ stream' = Append(stream, [kind |-> "inst", val |-> n])
           /\ todo' = heap[inst].fields \o Tail(todo)
    /\ UNCHANGED <<heap, pending, po, written, saving, file>>

(***************************************************************************)
(* SavePackage.                                                            *)
(***************************************************************************)

(* A mutant: the pass starts at its end.                                   *)
NextObjectLastFirst ==
    /\ saving = "saving"
    /\ todo = <<>>
    /\ po # <<>>
    /\ LET a == po[Len(po)]
       IN  /\ todo' = heap[InstanceAt(a, ptrToID[a].class)].fields
           /\ written' = Append(written, a)
    /\ po' = SubSeq(po, 1, Len(po) - 1)
    /\ UNCHANGED <<heap, ptrToID, objects, pending, stream, saving, file>>

(* The next object of the pass, serialized as the class of its entry.      *)
NextObject ==
    /\ saving = "saving"
    /\ todo = <<>>
    /\ po # <<>>
    /\ LET a == Head(po)
       IN  /\ todo' = heap[InstanceAt(a, ptrToID[a].class)].fields
           /\ written' = Append(written, a)
    /\ po' = Tail(po)
    /\ UNCHANGED <<heap, ptrToID, objects, pending, stream, saving, file>>

(* A pass works on a copy of the list and leaves the list empty for what   *)
(* it will find.                                                           *)
NextPass ==
    /\ saving = "saving"
    /\ todo = <<>>
    /\ po = <<>>
    /\ pending # <<>>
    /\ po' = pending
    /\ pending' = <<>>
    /\ UNCHANGED <<heap, ptrToID, objects, todo, stream, written, saving, file>>

(* The lists of the classes that entries have at the end, each where the   *)
(* walk over the entries by address first meets it.                        *)
ClassRefs ==
    {refs \in ClassOrders : Range(refs) = {ptrToID[a].class : a \in DOMAIN ptrToID}}

(* One row of the table for every id, read from the entry it points to.    *)
ObjectTable == [n \in DOMAIN objects |->
                  [class |-> ptrToID[objects[n]].class,
                   isEmbedded |-> ptrToID[objects[n]].isEmbedded]]

(* The end of SavePackage: the class references, the table, and the header *)
(* with the magic number and the checksum.                                 *)
FinishSave ==
    /\ saving = "saving"
    /\ todo = <<>> /\ po = <<>> /\ pending = <<>>
    /\ saving' = "saved"
    /\ \E refs \in ClassRefs :
          file' = [header |-> TRUE, classRefs |-> refs,
                   table |-> ObjectTable, stream |-> stream]
    /\ UNCHANGED <<heap, ptrToID, objects, pending, po, todo, stream, written>>

(* A mutant: the header is complete from the start.                        *)
CutSaveAfterHeader ==
    /\ saving = "saving"
    /\ saving' = "cut"
    /\ \E refs \in ClassRefs :
          file' = [header |-> TRUE, classRefs |-> refs,
                   table |-> ObjectTable, stream |-> stream]
    /\ UNCHANGED <<heap, ptrToID, objects, pending, po, todo, stream, written>>

(* The program dies, or the disk is full.  The header goes to the start of *)
(* the file with the last write of all, so that it is missing.             *)
CutSave ==
    /\ saving = "saving"
    /\ saving' = "cut"
    /\ UNCHANGED <<heap, ptrToID, objects, pending, po, todo, stream, written, file>>

SaveStep == WriteData \/ WritePtr \/ WriteInstance \/ NextObject \/ NextPass \/ FinishSave

SaveNext == SaveStep \/ CutSave

(* The loops of one call run to their end by themselves.                   *)
SaveSpec == SaveInit /\ [][SaveNext]_svars /\ WF_svars(SaveStep)

-----------------------------------------------------------------------------
(* What LoadPackage relies on: it reads the objects that are not embedded  *)
(* in the order of their ids, while SavePackage writes them in the order   *)
(* in which its passes meet them.  The two orders are the same, and no     *)
(* object is missing or written twice.                                     *)
WrittenInReadOrder ==
    saving = "saved" =>
        /\ \A i, j \in DOMAIN written : i < j => ptrToID[written[i]].id < ptrToID[written[j]].id
        /\ {ptrToID[written[i]].id : i \in DOMAIN written} =
               {n \in DOMAIN file.table : ~file.table[n].isEmbedded}

=============================================================================

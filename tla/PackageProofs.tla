---------------------------- MODULE PackageProofs ----------------------------
(***************************************************************************)
(* Proofs about packages, for every memory that satisfies HeapAssumption   *)
(* and all versions that satisfy VersionsAssumption.                       *)
(*                                                                         *)
(* 1. Objects are written in the order in which they are read.  The order  *)
(* of ids is the order of registration.  What has been written, what is    *)
(* left of the pass and what the next pass will find form one queue: a     *)
(* step takes over its front from one part to the next or adds at its end  *)
(* an object whose id is new, hence larger than all others.                *)
(* 2. A file without a header is refused: FinishSave alone writes one, and *)
(* no step of the loader gets past OpenPackage without it.                 *)
(* 3. Both serializers keep their types, whatever a file of another        *)
(* version makes the loader read.                                          *)
(***************************************************************************)
EXTENDS Package, Integers, SequenceTheorems, TLAPS

Queue == (written \o po) \o pending

OwnAddr == Addresses(heap, OwnInstances(heap))

InnerAddr == Addresses(heap, InnerInstances(heap))

\* Types of the saver's state.
Typed ==
  /\ heap \in Heaps
  /\ todo \in Seq(FieldsOf(heap))
  /\ objects \in Seq(OwnAddr \union InnerAddr)
  /\ pending \in Seq(OwnAddr)
  /\ po \in Seq(OwnAddr)
  /\ written \in Seq(OwnAddr)

\* An entry for every object, and the id of one that is not embedded is its own.
Entries ==
  /\ DOMAIN ptrToID = {objects[n] : n \in 1 .. Len(objects)}
  /\ \A a \in DOMAIN ptrToID : /\ ptrToID[a].id \in 1 .. Len(objects)
                               /\ (ptrToID[a].isEmbedded <=> a \in InnerAddr)
  /\ \A n \in 1 .. Len(objects) : objects[n] \in OwnAddr => ptrToID[objects[n]].id = n
  /\ \A a \in DOMAIN ptrToID \cap OwnAddr :
       \E p \in DOMAIN heap : heap[p].at = a /\ heap[p].class = ptrToID[a].class

\* The queue holds the objects that are not embedded, by increasing id.
Queued ==
  /\ \A i \in 1 .. Len(Queue) : Queue[i] \in DOMAIN ptrToID
  /\ \A i, j \in 1 .. Len(Queue) : i < j => ptrToID[Queue[i]].id < ptrToID[Queue[j]].id
  /\ \A a \in DOMAIN ptrToID \cap OwnAddr : \E i \in 1 .. Len(Queue) : Queue[i] = a

\* What holds when the call has ended.
Ended ==
  saving = "saved" => /\ po = <<>> /\ pending = <<>>
                      /\ file.table = ObjectTable

IInv == Typed /\ Entries /\ Queued /\ Ended

-----------------------------------------------------------------------------
(* The queue as its parts change.                                          *)

LEMMA FrontMoves ==
  ASSUME NEW S, NEW w \in Seq(S), NEW p \in Seq(S), NEW q \in Seq(S), p # <<>>
  PROVE  (Append(w, Head(p)) \o Tail(p)) \o q = (w \o p) \o q
<1>1. Head(p) \in S /\ Tail(p) \in Seq(S) /\ <<Head(p)>> \in Seq(S)
  BY HeadTailProperties
<1>2. <<Head(p)>> \o Tail(p) = p
  BY <1>1
<1>3. Append(w, Head(p)) = w \o <<Head(p)>>
  BY <1>1, AppendIsConcat
<1>4. (w \o <<Head(p)>>) \o Tail(p) = w \o (<<Head(p)>> \o Tail(p))
  BY <1>1, ConcatAssociative
<1> QED BY <1>2, <1>3, <1>4

LEMMA PassMoves ==
  ASSUME NEW S, NEW w \in Seq(S), NEW q \in Seq(S)
  PROVE  (w \o q) \o <<>> = (w \o <<>>) \o q
<1>1. w \o q \in Seq(S)
  BY ConcatProperties
<1> QED BY <1>1, ConcatEmptySeq

LEMMA EndGrows ==
  ASSUME NEW S, NEW w \in Seq(S), NEW p \in Seq(S), NEW q \in Seq(S), NEW a \in S
  PROVE  (w \o p) \o Append(q, a) = Append((w \o p) \o q, a)
<1>1. w \o p \in Seq(S) /\ <<a>> \in Seq(S) /\ (w \o p) \o q \in Seq(S)
  BY ConcatProperties
<1>2. Append(q, a) = q \o <<a>> /\ Append((w \o p) \o q, a) = ((w \o p) \o q) \o <<a>>
  BY <1>1, AppendIsConcat
<1> QED BY <1>1, <1>2, ConcatAssociative

\* The queue is a sequence of addresses of objects of their own.
LEMMA QueueType == Typed => Queue \in Seq(OwnAddr)
<1> SUFFICES ASSUME Typed PROVE Queue \in Seq(OwnAddr)
  OBVIOUS
<1>1. written \o po \in Seq(OwnAddr)
  BY ConcatProperties DEF Typed
<1> QED BY <1>1, ConcatProperties DEF Typed, Queue

\* The two kinds of addresses.
LEMMA AddressesApart == Typed => OwnAddr \cap InnerAddr = {}
  BY HeapAssumption DEF Typed, OwnAddr, InnerAddr

\* What a field leads to.
LEMMA HeadField ==
  ASSUME Typed, todo # <<>>
  PROVE  /\ Tail(todo) \in Seq(FieldsOf(heap))
         /\ Head(todo).kind = "ptr" /\ Head(todo).val # Null => heap[Head(todo).val].at \in OwnAddr
                                                  /\ Head(todo).val \in DOMAIN heap
         /\ Head(todo).kind = "inst" => /\ heap[Head(todo).val].at \in InnerAddr
                                        /\ Head(todo).val \in DOMAIN heap
<1>1. Head(todo) \in FieldsOf(heap) /\ Tail(todo) \in Seq(FieldsOf(heap))
  BY HeadTailProperties DEF Typed
<1>2. heap \in Heaps
  BY DEF Typed
<1>3. /\ Head(todo).kind = "ptr" => Head(todo).val = Null \/ Head(todo).val \in OwnInstances(heap)
      /\ Head(todo).kind = "inst" => Head(todo).val \in InnerInstances(heap)
  BY <1>1, <1>2, HeapAssumption
<1> QED BY <1>1, <1>3 DEF OwnAddr, InnerAddr, Addresses, OwnInstances, InnerInstances
-----------------------------------------------------------------------------
(* The initial states and the steps of the saver.                          *)

LEMMA InitHolds == SaveInit => IInv
<1> SUFFICES ASSUME SaveInit PROVE IInv
  OBVIOUS
<1> DEFINE r == heap[Root].at
<1>1. heap \in Heaps /\ Root \in OwnInstances(heap) /\ Root \in DOMAIN heap
  BY HeapAssumption DEF SaveInit, OwnInstances
<1>2. r \in OwnAddr
  BY <1>1 DEF OwnAddr, Addresses
<1>3. /\ objects = <<r>> /\ pending = <<r>> /\ po = <<>> /\ written = <<>> /\ todo = <<>>
      /\ ptrToID = [a \in {r} |-> Entry(1, heap[Root].class, FALSE)]
      /\ saving = "saving"
  BY DEF SaveInit
<1>4. Typed
  BY <1>1, <1>2, <1>3 DEF Typed
<1>5. /\ DOMAIN ptrToID = {r} /\ Len(objects) = 1 /\ objects[1] = r
      /\ ptrToID[r].id = 1 /\ ptrToID[r].isEmbedded = FALSE
      /\ ptrToID[r].class = heap[Root].class
  BY <1>3 DEF Entry
<1>6. r \notin InnerAddr
  BY <1>2, <1>4, AddressesApart
<1>7. Entries
  <2>1. \E p \in DOMAIN heap : heap[p].at = r /\ heap[p].class = ptrToID[r].class
    BY <1>1, <1>5
  <2>2. {objects[n] : n \in 1 .. Len(objects)} = {r}
    BY <1>5
  <2>3. ptrToID[r].isEmbedded <=> r \in InnerAddr
    BY <1>5, <1>6
  <2> HIDE DEF r
  <2>4. \A n \in 1 .. Len(objects) : objects[n] = r /\ n = 1
    BY <1>5
  <2> QED BY <1>5, <2>1, <2>2, <2>3, <2>4 DEF Entries
<1>8. Queue = <<r>>
  BY <1>3 DEF Queue
<1>9. Queued
  BY <1>5, <1>8 DEF Queued
<1> QED BY <1>3, <1>4, <1>7, <1>9 DEF IInv, Ended

\* A step that leaves the entries alone and moves objects along the queue.
LEMMA QueueKept ==
  ASSUME Queued, Queue' = Queue, UNCHANGED <<heap, ptrToID>>
  PROVE  Queued'
  BY DEF Queued, OwnAddr, OwnInstances, Addresses

LEMMA EntriesKept ==
  ASSUME Entries, UNCHANGED <<heap, ptrToID, objects>>
  PROVE  Entries'
  BY DEF Entries, OwnAddr, InnerAddr

LEMMA WriteDataKeeps == ASSUME IInv, WriteData PROVE IInv'
<1>1. UNCHANGED <<heap, ptrToID, objects, pending, po, written, saving, file>> /\ todo # <<>>
  BY DEF WriteData, AtField
<1>2. Typed'
  <2>1. todo' \in Seq(FieldsOf(heap))
    BY <1>1, HeadField DEF IInv, WriteData
  <2> QED BY <1>1, <2>1 DEF IInv, Typed, OwnAddr, InnerAddr
<1>3. Queued'
  BY <1>1, QueueKept DEF IInv, Queue
<1>4. Entries'
  BY <1>1, EntriesKept DEF IInv
<1> QED BY <1>1, <1>2, <1>3, <1>4 DEF IInv, Ended, ObjectTable

\* An entry of an inner object, new or taken over, is none of the queue's business.
LEMMA WriteInstanceKeeps == ASSUME IInv, WriteInstance PROVE IInv'
<1> DEFINE inst == Head(todo).val
           a == heap[inst].at
           c == heap[inst].class
           known == a \in DOMAIN ptrToID /\ ptrToID[a].class = c
           n == IF known THEN ptrToID[a].id ELSE Len(objects) + 1
<1>1. /\ UNCHANGED <<heap, pending, po, written, saving, file>> /\ todo # <<>> /\ saving = "saving"
      /\ ptrToID' = PutEntry(a, Entry(n, c, TRUE))
      /\ objects' = IF known THEN objects ELSE Append(objects, a)
      /\ todo' = heap[inst].fields \o Tail(todo)
      /\ Head(todo).kind = "inst"
  BY DEF WriteInstance, AtField
<1>2. Typed /\ Entries /\ Queued
  BY DEF IInv
<1>3. a \in InnerAddr /\ inst \in DOMAIN heap /\ Tail(todo) \in Seq(FieldsOf(heap))
  BY <1>1, <1>2, HeadField
<1>4. a \notin OwnAddr
  BY <1>2, <1>3, AddressesApart
<1>5. heap[inst].fields \in Seq(FieldsOf(heap))
  BY <1>2, <1>3, HeapAssumption DEF Typed
<1> HIDE DEF inst
<1>6. todo' \in Seq(FieldsOf(heap))
  BY <1>1, <1>3, <1>5, ConcatProperties
<1>7. OwnAddr' = OwnAddr /\ InnerAddr' = InnerAddr
  BY <1>1 DEF OwnAddr, InnerAddr
<1> HIDE DEF a, c
<1>8. /\ objects' \in Seq(OwnAddr \union InnerAddr)
      /\ Len(objects') \in Nat /\ Len(objects) \in Nat
      /\ \A k \in 1 .. Len(objects) : objects'[k] = objects[k]
      /\ n \in 1 .. Len(objects')
      /\ known => objects' = objects
      /\ ~known => Len(objects') = Len(objects) + 1 /\ objects'[Len(objects) + 1] = a
  BY <1>1, <1>2, <1>3, AppendProperties DEF Typed, Entries
<1>9. /\ DOMAIN ptrToID' = DOMAIN ptrToID \union {a}
      /\ ptrToID'[a].id = n /\ ptrToID'[a].isEmbedded = TRUE
      /\ \A b \in DOMAIN ptrToID : b # a => ptrToID'[b] = ptrToID[b]
  BY <1>1 DEF PutEntry, Entry
<1> HIDE DEF n
<1>10. Typed'
  BY <1>1, <1>2, <1>6, <1>7, <1>8 DEF Typed
<1>11. Entries'
  <2>1. DOMAIN ptrToID' = {objects'[k] : k \in 1 .. Len(objects')}
    <3>1. CASE known
      BY <3>1, <1>2, <1>8, <1>9 DEF Entries
    <3>2. CASE ~known
      <4>1. 1 .. Len(objects') = 1 .. Len(objects) \union {Len(objects) + 1}
        BY <3>2, <1>8
      <4>2. DOMAIN ptrToID = {objects[k] : k \in 1 .. Len(objects)}
        BY <1>2 DEF Entries
      <4> HIDE DEF known
      <4> QED BY <3>2, <4>1, <4>2, <1>8, <1>9
    <3> QED BY <3>1, <3>2
  <2>2. \A b \in DOMAIN ptrToID' : /\ ptrToID'[b].id \in 1 .. Len(objects')
                                   /\ (ptrToID'[b].isEmbedded <=> b \in InnerAddr)
    <3> SUFFICES ASSUME NEW b \in DOMAIN ptrToID'
                 PROVE  /\ ptrToID'[b].id \in 1 .. Len(objects')
                        /\ (ptrToID'[b].isEmbedded <=> b \in InnerAddr)
      OBVIOUS
    <3>1. CASE b = a
      BY <3>1, <1>3, <1>8, <1>9
    <3>2. CASE b # a
      <4>1. b \in DOMAIN ptrToID /\ ptrToID'[b] = ptrToID[b]
        BY <3>2, <1>9
      <4>2. ptrToID[b].id \in 1 .. Len(objects)
        BY <4>1, <1>2 DEF Entries
      <4>3. ptrToID[b].isEmbedded <=> b \in InnerAddr
        BY <4>1, <1>2 DEF Entries
      <4>4. Len(objects) <= Len(objects')
        BY <1>8
      <4> HIDE DEF known
      <4>5. ptrToID[b].id \in 1 .. Len(objects')
        BY <4>2, <4>4, <1>8
      <4> QED BY <4>1, <4>3, <4>5
    <3> QED BY <3>1, <3>2
  <2>3. \A k \in 1 .. Len(objects') : objects'[k] \in OwnAddr => ptrToID'[objects'[k]].id = k
    <3> SUFFICES ASSUME NEW k \in 1 .. Len(objects'), objects'[k] \in OwnAddr
                 PROVE  ptrToID'[objects'[k]].id = k
      OBVIOUS
    <3>1. objects'[k] # a
      BY <1>4
    <3>2. k \in 1 .. Len(objects)
      BY <3>1, <1>8
    <3>3. objects'[k] = objects[k] /\ objects[k] \in DOMAIN ptrToID
      BY <3>2, <1>2, <1>8 DEF Entries
    <3> QED BY <3>1, <3>2, <3>3, <1>2, <1>9 DEF Entries
  <2>4. \A b \in DOMAIN ptrToID' \cap OwnAddr :
          \E p \in DOMAIN heap : heap[p].at = b /\ heap[p].class = ptrToID'[b].class
    BY <1>2, <1>4, <1>9 DEF Entries
  <2> QED BY <2>1, <2>2, <2>3, <2>4, <1>1, <1>7 DEF Entries
<1>12. Queued'
  <2>1. Queue' = Queue /\ Queue \in Seq(OwnAddr)
    BY <1>1, <1>2, QueueType DEF Queue
  <2>2. \A i \in 1 .. Len(Queue) : /\ Queue[i] \in DOMAIN ptrToID'
                                   /\ ptrToID'[Queue[i]] = ptrToID[Queue[i]]
    <3> SUFFICES ASSUME NEW i \in 1 .. Len(Queue)
                 PROVE  Queue[i] \in DOMAIN ptrToID' /\ ptrToID'[Queue[i]] = ptrToID[Queue[i]]
      OBVIOUS
    <3>1. Queue[i] \in OwnAddr
      BY <2>1, ElementOfSeq
    <3> QED BY <3>1, <1>2, <1>4, <1>9 DEF Queued
  <2>3. DOMAIN ptrToID' \cap OwnAddr = DOMAIN ptrToID \cap OwnAddr
    BY <1>4, <1>9
  <2> QED BY <2>1, <2>2, <2>3, <1>2, <1>7 DEF Queued
<1> QED BY <1>1, <1>10, <1>11, <1>12 DEF IInv, Ended

\* A null pointer, and one to an object that has an id, only write a token.
LEMMA KnownPtrKeeps ==
  ASSUME IInv, AtField("ptr"), todo' = Tail(todo),
         UNCHANGED <<heap, ptrToID, objects, pending, po, written, saving, file>>
  PROVE  IInv'
<1>1. todo # <<>>
  BY DEF AtField
<1>2. Typed'
  <2>1. todo' \in Seq(FieldsOf(heap))
    BY <1>1, HeadField DEF IInv
  <2> QED BY <2>1 DEF IInv, Typed, OwnAddr, InnerAddr
<1>3. Queued'
  BY QueueKept DEF IInv, Queue
<1>4. Entries'
  BY EntriesKept DEF IInv
<1> QED BY <1>2, <1>3, <1>4 DEF IInv, Ended, ObjectTable

\* A pointer to an object not seen before gives it the next id and puts it at the end
\* of the queue.
LEMMA NewPtrKeeps ==
  ASSUME IInv, WritePtr, Head(todo).val # Null, heap[Head(todo).val].at \notin DOMAIN ptrToID
  PROVE  IInv'
<1> DEFINE target == Head(todo).val
           a == heap[target].at
<1>1. /\ todo # <<>> /\ Head(todo).kind = "ptr" /\ saving = "saving"
      /\ todo' = Tail(todo) /\ UNCHANGED <<heap, po, written, saving, file>>
      /\ ptrToID' = PutEntry(a, Entry(Len(objects) + 1, heap[target].class, FALSE))
      /\ objects' = Append(objects, a)
      /\ pending' = Append(pending, a)
      /\ a \notin DOMAIN ptrToID
  BY DEF WritePtr, AtField
<1>2. Typed /\ Entries /\ Queued
  BY DEF IInv
<1>3. a \in OwnAddr /\ target \in DOMAIN heap /\ Tail(todo) \in Seq(FieldsOf(heap))
  BY <1>1, <1>2, HeadField
<1>4. a \notin InnerAddr
  BY <1>2, <1>3, AddressesApart
<1>5. heap[target].at = a
  OBVIOUS
<1> HIDE DEF a, target
<1>5a. OwnAddr' = OwnAddr /\ InnerAddr' = InnerAddr
  BY <1>1 DEF OwnAddr, InnerAddr
<1> DEFINE top == Len(objects) + 1
<1>6. /\ objects' \in Seq(OwnAddr \union InnerAddr)
      /\ Len(objects) \in Nat /\ Len(objects') = top
      /\ \A k \in 1 .. Len(objects) : objects'[k] = objects[k]
      /\ objects'[top] = a
  BY <1>1, <1>2, <1>3, AppendProperties DEF Typed
<1>7. pending' \in Seq(OwnAddr)
  BY <1>1, <1>2, <1>3, AppendProperties DEF Typed
<1>8. /\ DOMAIN ptrToID' = DOMAIN ptrToID \union {a}
      /\ ptrToID'[a].id = top /\ ptrToID'[a].isEmbedded = FALSE
      /\ ptrToID'[a].class = heap[target].class
      /\ \A b \in DOMAIN ptrToID : ptrToID'[b] = ptrToID[b]
  BY <1>1 DEF PutEntry, Entry
<1>9. Typed'
  BY <1>1, <1>2, <1>3, <1>5a, <1>6, <1>7 DEF Typed
<1>10. 1 .. top = 1 .. Len(objects) \union {top}
  BY <1>6
<1>11. \A b \in DOMAIN ptrToID : ptrToID[b].id \in 1 .. Len(objects) /\ ptrToID[b].id < top
  BY <1>2, <1>6 DEF Entries
<1> HIDE DEF top
<1>12. Entries'
  <2>1. DOMAIN ptrToID' = {objects'[k] : k \in 1 .. Len(objects')}
    <3>1. DOMAIN ptrToID = {objects[k] : k \in 1 .. Len(objects)}
      BY <1>2 DEF Entries
    <3> QED BY <3>1, <1>6, <1>8, <1>10
  <2>2. \A b \in DOMAIN ptrToID' : /\ ptrToID'[b].id \in 1 .. Len(objects')
                                   /\ (ptrToID'[b].isEmbedded <=> b \in InnerAddr)
    <3> SUFFICES ASSUME NEW b \in DOMAIN ptrToID'
                 PROVE  /\ ptrToID'[b].id \in 1 .. Len(objects')
                        /\ (ptrToID'[b].isEmbedded <=> b \in InnerAddr)
      OBVIOUS
    <3>1. CASE b = a
      <4>1. ptrToID'[b].id \in 1 .. Len(objects')
        BY <3>1, <1>6, <1>8, <1>10
      <4>2. ptrToID'[b].isEmbedded <=> b \in InnerAddr
        BY <3>1, <1>4, <1>8
      <4> QED BY <4>1, <4>2
    <3>2. CASE b # a
      <4>1. b \in DOMAIN ptrToID /\ ptrToID'[b] = ptrToID[b]
        BY <3>2, <1>8
      <4>2. ptrToID[b].id \in 1 .. Len(objects')
        BY <4>1, <1>6, <1>10, <1>11
      <4>3. ptrToID[b].isEmbedded <=> b \in InnerAddr
        BY <4>1, <1>2 DEF Entries
      <4> QED BY <4>1, <4>2, <4>3
    <3> QED BY <3>1, <3>2
  <2>3. \A k \in 1 .. Len(objects') : objects'[k] \in OwnAddr => ptrToID'[objects'[k]].id = k
    <3> SUFFICES ASSUME NEW k \in 1 .. Len(objects'), objects'[k] \in OwnAddr
                 PROVE  ptrToID'[objects'[k]].id = k
      OBVIOUS
    <3>1. CASE k = top
      BY <3>1, <1>6, <1>8
    <3>2. CASE k # top
      <4>1. k \in 1 .. Len(objects)
        BY <3>2, <1>6, <1>10
      <4>2. objects'[k] = objects[k] /\ objects[k] \in DOMAIN ptrToID
        BY <4>1, <1>2, <1>6 DEF Entries
      <4> QED BY <4>1, <4>2, <1>2, <1>8 DEF Entries
    <3> QED BY <3>1, <3>2
  <2>4. \A b \in DOMAIN ptrToID' \cap OwnAddr :
          \E p \in DOMAIN heap : heap[p].at = b /\ heap[p].class = ptrToID'[b].class
    BY <1>2, <1>3, <1>5, <1>8 DEF Entries
  <2>5. heap' = heap
    BY <1>1
  <2> QED BY <2>1, <2>2, <2>3, <2>4, <2>5, <1>5a DEF Entries
<1>13. Queued'
  <2> DEFINE len == Len(Queue)
  <2>1. Queue \in Seq(OwnAddr)
    BY <1>2, QueueType
  <2>1a. Queue' = Append(Queue, a)
    <3>1. /\ pending \in Seq(OwnAddr) /\ po \in Seq(OwnAddr) /\ written \in Seq(OwnAddr)
      BY <1>2 DEF Typed
    <3>2. (written \o po) \o Append(pending, a) = Append((written \o po) \o pending, a)
      BY <3>1, <1>3, EndGrows
    <3>3. written' = written /\ po' = po /\ pending' = Append(pending, a)
      BY <1>1
    <3> QED BY <3>2, <3>3 DEF Queue
  <2>2. /\ len \in Nat /\ Len(Queue') = len + 1 /\ Queue'[len + 1] = a
        /\ \A i \in 1 .. len : Queue'[i] = Queue[i]
    BY <2>1, <2>1a, <1>3, AppendProperties
  <2>3. \A i \in 1 .. len : /\ Queue[i] \in DOMAIN ptrToID
                             /\ ptrToID'[Queue[i]] = ptrToID[Queue[i]]
                             /\ ptrToID[Queue[i]].id < top
    BY <1>2, <1>8, <1>11 DEF Queued
  <2>4. \A i, j \in 1 .. len : i < j => ptrToID[Queue[i]].id < ptrToID[Queue[j]].id
    BY <1>2 DEF Queued
  <2>5. \A b \in DOMAIN ptrToID \cap OwnAddr : \E i \in 1 .. len : Queue[i] = b
    BY <1>2 DEF Queued
  <2> HIDE DEF len
  <2>6. 1 .. len + 1 = 1 .. len \union {len + 1} /\ \A i \in 1 .. len : i < len + 1
    BY <2>2
  <2>7. \A i \in 1 .. len + 1 : Queue'[i] \in DOMAIN ptrToID'
    BY <2>2, <2>3, <2>6, <1>8
  <2>8. \A i, j \in 1 .. len + 1 : i < j => ptrToID'[Queue'[i]].id < ptrToID'[Queue'[j]].id
    <3> SUFFICES ASSUME NEW i \in 1 .. len + 1, NEW j \in 1 .. len + 1, i < j
                 PROVE  ptrToID'[Queue'[i]].id < ptrToID'[Queue'[j]].id
      OBVIOUS
    <3>1. i \in 1 .. len
      BY <2>2
    <3>2. CASE j = len + 1
      BY <3>1, <3>2, <2>2, <2>3, <1>8
    <3>3. CASE j # len + 1
      <4>1. j \in 1 .. len
        BY <3>3, <2>6
      <4> QED BY <3>1, <4>1, <2>2, <2>3, <2>4
    <3> QED BY <3>2, <3>3
  <2>9. \A b \in DOMAIN ptrToID' \cap OwnAddr : \E i \in 1 .. len + 1 : Queue'[i] = b
    BY <2>2, <2>5, <2>6, <1>8
  <2> QED BY <2>2, <2>7, <2>8, <2>9, <1>5a DEF Queued
<1> QED BY <1>1, <1>9, <1>12, <1>13 DEF IInv, Ended

LEMMA WritePtrKeeps == ASSUME IInv, WritePtr PROVE IInv'
<1> DEFINE seen == Head(todo).val = Null \/ heap[Head(todo).val].at \in DOMAIN ptrToID
<1>1. CASE seen
  BY <1>1, KnownPtrKeeps DEF WritePtr
<1>2. CASE ~seen
  BY <1>2, NewPtrKeeps
<1> QED BY <1>1, <1>2

LEMMA NextObjectKeeps == ASSUME IInv, NextObject PROVE IInv'
<1> DEFINE a == Head(po)
           inst == InstanceAt(a, ptrToID[a].class)
<1>1. /\ UNCHANGED <<heap, ptrToID, objects, pending, saving, file>> /\ saving = "saving"
      /\ po # <<>> /\ po' = Tail(po) /\ written' = Append(written, Head(po))
      /\ todo' = heap[inst].fields
  BY DEF NextObject
<1>2. Typed /\ Entries /\ Queued
  BY DEF IInv
<1>3. a \in OwnAddr /\ Tail(po) \in Seq(OwnAddr) /\ written' \in Seq(OwnAddr)
  BY <1>1, <1>2, HeadTailProperties, AppendProperties DEF Typed
<1>4. Queue' = Queue
  BY <1>1, <1>2, FrontMoves DEF Queue, Typed
<1>5. a \in DOMAIN ptrToID
  <2>1. written \in Seq(OwnAddr) /\ po \in Seq(OwnAddr) /\ pending \in Seq(OwnAddr)
    BY <1>2 DEF Typed
  <2>2. /\ Len(written) \in Nat /\ Len(po) \in Nat \ {0} /\ Len(pending) \in Nat
    BY <1>1, <2>1, EmptySeq, LenProperties
  <2>3. /\ written \o po \in Seq(OwnAddr) /\ Len(written \o po) = Len(written) + Len(po)
        /\ (written \o po)[Len(written) + 1] = po[1]
    BY <2>1, <2>2, ConcatProperties
  <2>4. /\ Len(Queue) = Len(written) + Len(po) + Len(pending)
        /\ Queue[Len(written) + 1] = po[1]
    BY <2>1, <2>2, <2>3, ConcatProperties DEF Queue
  <2>5. Len(written) + 1 \in 1 .. Len(Queue)
    BY <2>2, <2>4
  <2>6. po[1] = Head(po)
    BY <2>1, <1>1
  <2> QED BY <2>4, <2>5, <2>6, <1>2 DEF Queued
<1>6. inst \in DOMAIN heap
  <2>1. \E p \in DOMAIN heap : heap[p].at = a /\ heap[p].class = ptrToID[a].class
    BY <1>2, <1>3, <1>5 DEF Entries
  <2> QED BY <2>1 DEF InstanceAt
<1>7. todo' \in Seq(FieldsOf(heap))
  <2> HIDE DEF inst
  <2> QED BY <1>1, <1>2, <1>6, HeapAssumption DEF Typed
<1>8. Typed'
  BY <1>1, <1>2, <1>3, <1>7 DEF Typed, OwnAddr, InnerAddr
<1>9. Queued'
  BY <1>1, <1>2, <1>4, QueueKept
<1>10. Entries'
  BY <1>1, <1>2, EntriesKept
<1> QED BY <1>1, <1>8, <1>9, <1>10 DEF IInv, Ended

LEMMA NextPassKeeps == ASSUME IInv, NextPass PROVE IInv'
<1>1. /\ UNCHANGED <<heap, ptrToID, objects, todo, written, saving, file>> /\ saving = "saving"
      /\ po = <<>> /\ po' = pending /\ pending' = <<>>
  BY DEF NextPass
<1>2. Queue' = Queue
  BY <1>1, PassMoves DEF Queue, IInv, Typed
<1>3. Typed'
  BY <1>1, EmptySeq DEF IInv, Typed, OwnAddr, InnerAddr
<1>4. Queued'
  BY <1>1, <1>2, QueueKept DEF IInv
<1>5. Entries'
  BY <1>1, EntriesKept DEF IInv
<1> QED BY <1>1, <1>3, <1>4, <1>5 DEF IInv, Ended

LEMMA EndKeeps == ASSUME IInv, FinishSave \/ CutSave PROVE IInv'
<1>1. UNCHANGED <<heap, ptrToID, objects, pending, po, todo, written>>
  BY DEF FinishSave, CutSave
<1>2. Typed'
  BY <1>1 DEF IInv, Typed, OwnAddr, InnerAddr
<1>3. Queued'
  BY <1>1, QueueKept DEF IInv, Queue
<1>4. Entries'
  BY <1>1, EntriesKept DEF IInv
<1>5. Ended'
  BY <1>1 DEF FinishSave, CutSave, Ended, ObjectTable
<1> QED BY <1>2, <1>3, <1>4, <1>5 DEF IInv

LEMMA StutterKeeps == ASSUME IInv, UNCHANGED svars PROVE IInv'
<1>1. UNCHANGED <<heap, ptrToID, objects, pending, po, todo, written, saving, file>>
  BY DEF svars
<1>2. Typed'
  BY <1>1 DEF IInv, Typed, OwnAddr, InnerAddr
<1>3. Queued'
  BY <1>1, QueueKept DEF IInv, Queue
<1>4. Entries'
  BY <1>1, EntriesKept DEF IInv
<1> QED BY <1>1, <1>2, <1>3, <1>4 DEF IInv, Ended, ObjectTable

LEMMA StepKeeps == IInv /\ [Next]_vars => IInv'
<1> SUFFICES ASSUME IInv, [Next]_vars PROVE IInv'
  OBVIOUS
<1>1. CASE Save
  <2>1. SaveStep
    BY <1>1 DEF Save
  <2> QED BY <2>1, WriteDataKeeps, WritePtrKeeps, WriteInstanceKeeps, NextObjectKeeps,
             NextPassKeeps, EndKeeps DEF SaveStep
<1>2. CASE Cut
  BY <1>2, EndKeeps DEF Cut
<1>3. CASE LoadOPK \/ Load \/ UNCHANGED vars
  BY <1>3, StutterKeeps DEF LoadOPK, Load, vars
<1> QED BY <1>1, <1>2, <1>3 DEF Next

-----------------------------------------------------------------------------
\* When the call has ended, the queue is what was written.
LEMMA QueueIsWritten == IInv => WrittenInReadOrder
<1> SUFFICES ASSUME IInv, saving = "saved" PROVE WrittenInReadOrder
  BY DEF WrittenInReadOrder
<1>1. Typed /\ Entries /\ Queued
  BY DEF IInv
<1>2. po = <<>> /\ pending = <<>> /\ file.table = ObjectTable
  BY DEF IInv, Ended
<1>3. written \in Seq(OwnAddr) /\ Queue = written
  BY <1>1, <1>2, ConcatEmptySeq DEF Queue, Typed
<1>4. DOMAIN written = 1 .. Len(written) /\ DOMAIN objects = 1 .. Len(objects)
  BY <1>1, <1>3, LenProperties DEF Typed
<1>5. \A i, j \in DOMAIN written : i < j => ptrToID[written[i]].id < ptrToID[written[j]].id
  BY <1>1, <1>3, <1>4 DEF Queued
<1>6. /\ DOMAIN file.table = 1 .. Len(objects)
      /\ \A n \in 1 .. Len(objects) : file.table[n].isEmbedded = ptrToID[objects[n]].isEmbedded
  BY <1>2, <1>4 DEF ObjectTable
<1>7. ASSUME NEW i \in DOMAIN written
      PROVE  /\ ptrToID[written[i]].id \in 1 .. Len(objects)
             /\ ~file.table[ptrToID[written[i]].id].isEmbedded
  <2> DEFINE a == written[i]
             n == ptrToID[a].id
  <2>1. a \in OwnAddr /\ a \in DOMAIN ptrToID
    BY <1>1, <1>3, <1>4, ElementOfSeq DEF Queued
  <2>2. ~ptrToID[a].isEmbedded /\ n \in 1 .. Len(objects)
    BY <2>1, <1>1, AddressesApart DEF Entries
  <2>3. PICK m \in 1 .. Len(objects) : objects[m] = a
    BY <2>1, <1>1 DEF Entries
  <2>4. n = m
    BY <2>1, <2>3, <1>1 DEF Entries
  <2> QED BY <2>2, <2>3, <2>4, <1>6
<1>8. ASSUME NEW n \in 1 .. Len(objects), ~file.table[n].isEmbedded
      PROVE  \E i \in DOMAIN written : ptrToID[written[i]].id = n
  <2>1. objects[n] \in DOMAIN ptrToID /\ objects[n] \in OwnAddr \union InnerAddr
    BY <1>1, ElementOfSeq DEF Entries, Typed
  <2>2. objects[n] \in OwnAddr
    BY <2>1, <1>1, <1>6, <1>8 DEF Entries
  <2>3. ptrToID[objects[n]].id = n
    BY <2>2, <1>1 DEF Entries
  <2> QED BY <2>1, <2>2, <2>3, <1>1, <1>3, <1>4 DEF Queued
<1> QED BY <1>5, <1>6, <1>7, <1>8 DEF WrittenInReadOrder

\* The inductive invariant of the saver.
THEOREM SaverInvariant == Spec => []IInv
<1>1. Init => IInv
  BY InitHolds DEF Init
<1> QED BY <1>1, StepKeeps, PTL DEF Spec

\* The objects of a package are in the order in which LoadPackage reads them, and none is
\* missing or there twice (SavePackage, and the loop of LoadPackage over the table).
THEOREM WriteOrderIsReadOrder == Spec => []WrittenInReadOrder
  BY SaverInvariant, QueueIsWritten, PTL

-----------------------------------------------------------------------------
(* A save that did not end.                                                *)

\* As long as there is no package, the file has no header and no load got beyond the
\* test of it.
Headerless ==
  saving # "saved" => file = NoHeader /\ loading \in {"idle", "failed"}

LEMMA HeaderlessSave == ASSUME Headerless, SaveStep \/ CutSave, UNCHANGED lvars PROVE Headerless'
<1>1. loading' = loading
  BY DEF lvars
<1>2. CASE FinishSave
  BY <1>2 DEF FinishSave, Headerless
<1>3. CASE CutSave
  <2>1. saving = "saving" /\ file' = file
    BY <1>3 DEF CutSave
  <2>2. "saving" # "saved"
    OBVIOUS
  <2> QED BY <1>1, <2>1, <2>2 DEF Headerless
<1>4. CASE WriteData \/ WritePtr \/ WriteInstance \/ NextObject \/ NextPass
  <2>1. saving' = saving /\ file' = file
    BY <1>4 DEF WriteData, WritePtr, WriteInstance, NextObject, NextPass
  <2> QED BY <1>1, <2>1 DEF Headerless
<1> QED BY <1>2, <1>3, <1>4 DEF SaveStep

\* LoadPackage looks at the header before anything else.
LEMMA HeaderlessOpen ==
  ASSUME Headerless, OpenPackage(file), UNCHANGED svars PROVE Headerless'
<1>1. saving' = saving /\ file' = file
  BY DEF svars
<1>2. ASSUME file = NoHeader PROVE loading' = "failed"
  <2>1. Refuses(version', file)
    BY <1>2 DEF Refuses, NoHeader
  <2> QED BY <2>1 DEF OpenPackage
<1> QED BY <1>1, <1>2 DEF Headerless

\* The loop over the objects of a package runs only when there is one.
LEMMA HeaderlessLoad == ASSUME Headerless, LoadStep, UNCHANGED svars PROVE Headerless'
<1>1. saving' = saving
  BY DEF svars
<1>2. loading = "reading"
  BY Zenon DEF LoadStep, ReadObject, ReadMember, ReadData, ReadVector, ReadPtr, ReadInstance,
               AtMember, Garble, FinishLoad
<1>3. "reading" \notin {"idle", "failed"}
  OBVIOUS
<1> QED BY <1>1, <1>2, <1>3 DEF Headerless

LEMMA HeaderlessStep == Headerless /\ [Next]_vars => Headerless'
<1> SUFFICES ASSUME Headerless, [Next]_vars PROVE Headerless'
  OBVIOUS
<1>1. CASE Save \/ Cut
  BY <1>1, HeaderlessSave DEF Save, Cut
<1>2. CASE LoadOPK
  BY <1>2, HeaderlessOpen DEF LoadOPK
<1>3. CASE Load
  BY <1>3, HeaderlessLoad DEF Load
<1>4. CASE UNCHANGED vars
  BY <1>4 DEF vars, svars, lvars, Headerless
<1> QED BY <1>1, <1>2, <1>3, <1>4 DEF Next

\* The file of a save that did not end is never loaded, not even in part (SavePackage
\* writes the header last, and LoadPackage tests it first).
THEOREM UnfinishedStaysRefused == Spec => []UnfinishedIsRefused
<1>1. Init => Headerless
  BY DEF Init, SaveInit, LoadInit, Headerless
<1>2. Headerless => UnfinishedIsRefused
  <2>1. "cut" # "saved"
    OBVIOUS
  <2> QED BY <2>1 DEF Headerless, UnfinishedIsRefused
<1> QED BY <1>1, <1>2, HeaderlessStep, PTL DEF Spec

-----------------------------------------------------------------------------
(* Types: what the saver wrote.                                            *)

\* The tokens of a package: data and lengths as they are in memory, and ids.
Tokens ==
  {f \in FieldsOf(heap) : f.kind \in {"data", "len"}} \union [kind : {"ptr", "inst"}, val : Nat]

FileTyped ==
  /\ file.stream \in Seq(Tokens)
  /\ file.table \in Seq([class : Range(file.classRefs), isEmbedded : BOOLEAN])

SaverTyped ==
  /\ saving \in {"saving", "saved", "cut"}
  /\ stream \in Seq(Tokens)
  /\ \A a \in DOMAIN ptrToID : ptrToID[a].isEmbedded \in BOOLEAN
  /\ file = NoHeader \/ FileTyped

\* A token tells what it is, and all but data hold numbers.
LEMMA TokenKinds ==
  ASSUME Typed, NEW t \in Tokens
  PROVE  t.kind \in Kinds /\ (t.kind # "data" => t.val \in Nat)
<1>1. CASE t \in [kind : {"ptr", "inst"}, val : Nat]
  BY <1>1 DEF Kinds
<1>2. CASE t \in FieldsOf(heap) /\ t.kind \in {"data", "len"}
  <2>1. t.kind = "len" => t.val \in Nat
    BY <1>2, HeapAssumption DEF Typed
  <2> QED BY <1>2, <2>1 DEF Kinds
<1> QED BY <1>1, <1>2 DEF Tokens

\* An id is put in the stream.
LEMMA IdWritten ==
  ASSUME stream \in Seq(Tokens), NEW n \in Nat, NEW k \in {"ptr", "inst"}, heap' = heap,
         stream' = Append(stream, [kind |-> k, val |-> n])
  PROVE  stream' \in Seq(Tokens')
<1>1. [kind |-> k, val |-> n] \in Tokens /\ Tokens' = Tokens
  BY DEF Tokens
<1> QED BY <1>1, AppendProperties

\* Nothing but the stream and the entries.
LEMMA FileKept ==
  ASSUME SaverTyped, UNCHANGED <<heap, saving, file>>, stream' \in Seq(Tokens'),
         \A a \in DOMAIN ptrToID' : ptrToID'[a].isEmbedded \in BOOLEAN
  PROVE  SaverTyped'
<1>1. Tokens' = Tokens
  BY DEF Tokens
<1>2. FileTyped => FileTyped'
  BY <1>1 DEF FileTyped
<1> QED BY <1>2 DEF SaverTyped

LEMMA WriteDataTyped == ASSUME IInv, SaverTyped, WriteData PROVE SaverTyped'
<1>1. /\ UNCHANGED <<heap, ptrToID, saving, file>> /\ todo # <<>>
      /\ stream' = Append(stream, Head(todo)) /\ Head(todo).kind \in {"data", "len"}
  BY DEF WriteData, AtField
<1>2. Head(todo) \in FieldsOf(heap)
  BY <1>1, HeadTailProperties DEF IInv, Typed
<1>3. Head(todo) \in Tokens /\ Tokens' = Tokens
  BY <1>1, <1>2 DEF Tokens
<1>4. stream' \in Seq(Tokens')
  BY <1>1, <1>3, AppendProperties DEF SaverTyped
<1> QED BY <1>1, <1>4, FileKept DEF SaverTyped

\* The entry of an address, new or replaced.
LEMMA EntryTyped ==
  ASSUME SaverTyped, NEW a, NEW n, NEW c, NEW b \in BOOLEAN, ptrToID' = PutEntry(a, Entry(n, c, b))
  PROVE  \A d \in DOMAIN ptrToID' : ptrToID'[d].isEmbedded \in BOOLEAN
<1>1. Entry(n, c, b).isEmbedded \in BOOLEAN
  BY DEF Entry
<1> HIDE DEF Entry
<1> QED BY <1>1 DEF PutEntry, SaverTyped

LEMMA WritePtrTyped == ASSUME IInv, SaverTyped, WritePtr PROVE SaverTyped'
<1> DEFINE target == Head(todo).val
           a == heap[target].at
<1>1. UNCHANGED <<heap, saving, file>> /\ stream \in Seq(Tokens) /\ Len(objects) \in Nat
  BY LenProperties DEF WritePtr, IInv, Typed, SaverTyped
<1>2. CASE target = Null
  <2>1. stream' = Append(stream, [kind |-> "ptr", val |-> 0]) /\ ptrToID' = ptrToID
    BY <1>2 DEF WritePtr
  <2>2. stream' \in Seq(Tokens')
    BY <1>1, <2>1, IdWritten
  <2> QED BY <1>1, <2>1, <2>2, FileKept DEF SaverTyped
<1>3. CASE target # Null /\ a \in DOMAIN ptrToID
  <2>1. stream' = Append(stream, [kind |-> "ptr", val |-> ptrToID[a].id]) /\ ptrToID' = ptrToID
    BY <1>3 DEF WritePtr
  <2>2. ptrToID[a].id \in Nat
    <3>1. ptrToID[a].id \in 1 .. Len(objects)
      BY <1>3 DEF IInv, Entries
    <3> QED BY <1>1, <3>1
  <2>3. stream' \in Seq(Tokens')
    BY <1>1, <2>1, <2>2, IdWritten
  <2> QED BY <1>1, <2>1, <2>3, FileKept DEF SaverTyped
<1>4. CASE target # Null /\ a \notin DOMAIN ptrToID
  <2>1. /\ stream' = Append(stream, [kind |-> "ptr", val |-> Len(objects) + 1])
        /\ ptrToID' = PutEntry(a, Entry(Len(objects) + 1, heap[target].class, FALSE))
    BY <1>4 DEF WritePtr
  <2>2. Len(objects) + 1 \in Nat
    BY <1>1
  <2>3. stream' \in Seq(Tokens')
    BY <1>1, <2>1, <2>2, IdWritten
  <2>4. \A d \in DOMAIN ptrToID' : ptrToID'[d].isEmbedded \in BOOLEAN
    BY <2>1, EntryTyped
  <2> QED BY <1>1, <2>3, <2>4, FileKept
<1> QED BY <1>2, <1>3, <1>4

LEMMA WriteInstanceTyped == ASSUME IInv, SaverTyped, WriteInstance PROVE SaverTyped'
<1> DEFINE inst == Head(todo).val
           a == heap[inst].at
           c == heap[inst].class
           known == a \in DOMAIN ptrToID /\ ptrToID[a].class = c
           n == IF known THEN ptrToID[a].id ELSE Len(objects) + 1
<1>1. /\ UNCHANGED <<heap, saving, file>> /\ stream \in Seq(Tokens) /\ Len(objects) \in Nat
      /\ stream' = Append(stream, [kind |-> "inst", val |-> n])
      /\ ptrToID' = PutEntry(a, Entry(n, c, TRUE))
  BY LenProperties DEF WriteInstance, IInv, Typed, SaverTyped
<1>2. a \in DOMAIN ptrToID => ptrToID[a].id \in 1 .. Len(objects)
  BY DEF IInv, Entries
<1> HIDE DEF a
<1>3. n \in Nat
  BY <1>1, <1>2
<1> HIDE DEF c, n
<1>4. stream' \in Seq(Tokens')
  BY <1>1, <1>3, IdWritten
<1>5. \A d \in DOMAIN ptrToID' : ptrToID'[d].isEmbedded \in BOOLEAN
  BY <1>1, EntryTyped
<1> QED BY <1>1, <1>4, <1>5, FileKept

\* The table has a row for every id, of a class that is in the list.
LEMMA FinishSaveTyped == ASSUME IInv, SaverTyped, FinishSave PROVE SaverTyped'
<1>1. PICK refs \in ClassRefs :
        file' = [header |-> TRUE, classRefs |-> refs, table |-> ObjectTable, stream |-> stream]
  BY DEF FinishSave
<1>2. UNCHANGED <<heap, ptrToID, stream>> /\ saving' = "saved" /\ Tokens' = Tokens
  BY DEF FinishSave, Tokens
<1>3. file'.stream = stream /\ file'.table = ObjectTable /\ file'.classRefs = refs
  BY <1>1
<1>4. ObjectTable \in Seq([class : Range(refs), isEmbedded : BOOLEAN])
  <2>1. DOMAIN objects = 1 .. Len(objects) /\ Len(objects) \in Nat
    BY LenProperties DEF IInv, Typed
  <2>2. \A n \in DOMAIN objects :
          [class |-> ptrToID[objects[n]].class, isEmbedded |-> ptrToID[objects[n]].isEmbedded]
            \in [class : Range(refs), isEmbedded : BOOLEAN]
    <3> SUFFICES ASSUME NEW n \in DOMAIN objects
                 PROVE  /\ ptrToID[objects[n]].class \in Range(refs)
                        /\ ptrToID[objects[n]].isEmbedded \in BOOLEAN
      OBVIOUS
    <3>1. objects[n] \in DOMAIN ptrToID
      BY <2>1 DEF IInv, Entries
    <3>2. Range(refs) = {ptrToID[b].class : b \in DOMAIN ptrToID}
      BY <1>1 DEF ClassRefs
    <3> QED BY <3>1, <3>2 DEF SaverTyped
  <2> QED BY <2>1, <2>2 DEF ObjectTable
<1>5. FileTyped'
  BY <1>2, <1>3, <1>4 DEF FileTyped, SaverTyped
<1> QED BY <1>2, <1>5 DEF SaverTyped

LEMMA SaverTypedStep == ASSUME IInv, SaverTyped, [SaveNext]_svars PROVE SaverTyped'
<1>1. CASE NextObject \/ NextPass \/ UNCHANGED svars
  <2>1. UNCHANGED <<heap, ptrToID, stream, saving, file>>
    BY <1>1 DEF NextObject, NextPass, svars
  <2>2. Tokens' = Tokens
    BY <2>1 DEF Tokens
  <2> QED BY <2>1, <2>2, FileKept DEF SaverTyped
<1>2. CASE CutSave
  <2>1. UNCHANGED <<heap, ptrToID, stream, file>> /\ saving' = "cut"
    BY <1>2 DEF CutSave
  <2>2. Tokens' = Tokens /\ (FileTyped => FileTyped')
    BY <2>1 DEF Tokens, FileTyped
  <2> QED BY <2>1, <2>2 DEF SaverTyped
<1> QED BY <1>1, <1>2, WriteDataTyped, WritePtrTyped, WriteInstanceTyped, FinishSaveTyped
        DEF SaveNext, SaveStep

-----------------------------------------------------------------------------
(* Types: what the loader makes of it.                                     *)

Paths == Seq(Nat)

\* The fields of loaded instances: data and lengths as read, pointers as paths.
Fields == Tokens \union [kind : {"ptr", "inst"}, val : Paths]

Rows == [obj : Paths, isEmbedded : BOOLEAN, class : DOMAIN version]

MemberClasses == UNION {{version[c][i].class : i \in DOMAIN version[c]} : c \in DOMAIN version}

\* A member still to be read into an instance of D.
Jobs(D) ==
  {j \in [kind : MemberKinds, class : MemberClasses, dest : D] :
     j.kind \in {"inst", "insts"} => j.class \in DOMAIN version}

\* A pointer of an instance of D that is left for later.
Late(D) == [owner : D, pos : Nat, id : DOMAIN table]

Instances ==
  /\ DOMAIN ins \subseteq Paths
  /\ ins \in [DOMAIN ins -> [class : DOMAIN version, fields : Seq(Fields)]]

Table ==
  /\ table \in Seq(Rows)
  /\ \A n \in DOMAIN table : ~table[n].isEmbedded => table[n].obj \in DOMAIN ins
  /\ nextObj \in 1 .. Len(table) + 1

LoaderTyped ==
  /\ loading \in {"idle", "reading", "loaded", "failed", "garbled"}
  /\ loading = "idle" => /\ table = <<>> /\ ins = <<>> /\ rtodo = <<>>
                         /\ unfixed = <<>> /\ nextObj = 1 /\ input = <<>>
  /\ loading # "idle" => version \in Versions
  /\ input \in Seq(Tokens)
  /\ rtodo \in Seq(Jobs(DOMAIN ins))
  /\ unfixed \in Seq(Late(DOMAIN ins))
  /\ Instances /\ Table

LEMMA SeqOfMore == ASSUME NEW S, NEW T, S \subseteq T, NEW s \in Seq(S) PROVE s \in Seq(T)
  OBVIOUS

\* The members of a class are all read into one instance.
LEMMA MembersTyped ==
  ASSUME version \in Versions, NEW c \in DOMAIN version, NEW D, NEW dest \in D
  PROVE  Members(c, dest) \in Seq(Jobs(D))
<1> DEFINE ms == version[c]
           n == Len(ms)
           job(i) == [kind |-> ms[i].kind, class |-> ms[i].class, dest |-> dest]
<1>1. /\ DOMAIN ms = 1 .. n /\ n \in Nat
      /\ \A i \in DOMAIN ms : /\ ms[i].kind \in MemberKinds
                              /\ ms[i].kind \in {"inst", "insts"} => ms[i].class \in DOMAIN version
  BY VersionsAssumption
<1>2. \A i \in DOMAIN ms : ms[i].class \in MemberClasses
  BY DEF MemberClasses
<1>3. Members(c, dest) = [i \in DOMAIN ms |-> job(i)]
  BY DEF Members
<1> HIDE DEF ms, n
<1>4. \A i \in DOMAIN ms : job(i) \in Jobs(D)
  BY <1>1, <1>2 DEF Jobs
<1> HIDE DEF job
<1> QED BY <1>1, <1>3, <1>4

\* A field is put into an instance.
LEMMA PutTyped ==
  ASSUME Instances, Dest \in DOMAIN ins, NEW field \in Fields
  PROVE  /\ Put(field) \in [DOMAIN ins -> [class : DOMAIN version, fields : Seq(Fields)]]
         /\ DOMAIN Put(field) = DOMAIN ins
<1> DEFINE old == ins[Dest]
           new == [old EXCEPT !.fields = Append(@, field)]
<1>1. old \in [class : DOMAIN version, fields : Seq(Fields)]
  BY DEF Instances
<1>2. Put(field) = [ins EXCEPT ![Dest] = new]
  BY DEF Put
<1> HIDE DEF old
<1>3. Append(old.fields, field) \in Seq(Fields)
  BY <1>1, AppendProperties
<1>4. new \in [class : DOMAIN version, fields : Seq(Fields)]
  BY <1>1, <1>3
<1> HIDE DEF new
<1> QED BY <1>2, <1>4 DEF Instances

\* The job at hand, and what stays to be done.
LEMMA HeadJob ==
  ASSUME LoaderTyped, rtodo # <<>>
  PROVE  /\ Head(rtodo) \in Jobs(DOMAIN ins) /\ Tail(rtodo) \in Seq(Jobs(DOMAIN ins))
         /\ Dest \in DOMAIN ins
<1>1. Head(rtodo) \in Jobs(DOMAIN ins) /\ Tail(rtodo) \in Seq(Jobs(DOMAIN ins))
  BY HeadTailProperties DEF LoaderTyped
<1> QED BY <1>1 DEF Jobs, Dest

LEMMA HeadInput ==
  ASSUME LoaderTyped, NEW k, Expected(k)
  PROVE  Head(input) \in Tokens /\ Tail(input) \in Seq(Tokens) /\ Head(input).kind = k
  BY HeadTailProperties DEF LoaderTyped, Expected

\* What depends on the heap and on the version only.
LEMMA SetsKept ==
  ASSUME UNCHANGED <<heap, version>>
  PROVE  /\ Tokens' = Tokens /\ Fields' = Fields /\ Rows' = Rows
         /\ \A D : Jobs(D)' = Jobs(D)
  BY DEF Tokens, Fields, Rows, Jobs, MemberClasses

LEMMA ReadObjectTyped == ASSUME LoaderTyped, ReadObject, heap' = heap PROVE LoaderTyped'
<1>1. /\ loading = "reading" /\ nextObj <= Len(table) /\ nextObj' = nextObj + 1
      /\ UNCHANGED <<loading, version, input, table, ins, unfixed>>
      /\ rtodo' = IF table[nextObj].isEmbedded THEN <<>>
                  ELSE Members(table[nextObj].class, table[nextObj].obj)
  BY DEF ReadObject
<1>2. table \in Seq(Rows) /\ nextObj \in 1 .. Len(table) + 1 /\ Len(table) \in Nat
  BY LenProperties DEF LoaderTyped, Table
<1>3. nextObj \in DOMAIN table /\ table[nextObj] \in Rows /\ nextObj' \in 1 .. Len(table) + 1
  BY <1>1, <1>2, ElementOfSeq
<1>4. rtodo' \in Seq(Jobs(DOMAIN ins))
  <2>1. CASE table[nextObj].isEmbedded
    BY <1>1, <2>1
  <2>2. CASE ~table[nextObj].isEmbedded
    <3>1. table[nextObj].obj \in DOMAIN ins /\ table[nextObj].class \in DOMAIN version
      BY <1>3, <2>2 DEF LoaderTyped, Table, Rows
    <3>2. version \in Versions
      BY <1>1 DEF LoaderTyped
    <3> QED BY <1>1, <2>2, <3>1, <3>2, MembersTyped
  <2> QED BY <2>1, <2>2
<1>5. /\ Tokens' = Tokens /\ Fields' = Fields /\ Rows' = Rows
      /\ \A D : Jobs(D)' = Jobs(D)
  BY <1>1, SetsKept
<1> QED BY <1>1, <1>3, <1>4, <1>5 DEF LoaderTyped, Instances, Table, Late

\* A field is read and the other parts are as they should be.
LEMMA FieldTyped ==
  ASSUME LoaderTyped, loading = "reading", Dest \in DOMAIN ins, NEW field \in Fields,
         UNCHANGED <<heap, loading, version, table, nextObj>>,
         ins' = Put(field), input' \in Seq(Tokens), rtodo' \in Seq(Jobs(DOMAIN ins)),
         unfixed' \in Seq(Late(DOMAIN ins))
  PROVE  LoaderTyped'
<1>1. /\ Tokens' = Tokens /\ Fields' = Fields /\ Rows' = Rows
      /\ \A D : Jobs(D)' = Jobs(D)
  BY SetsKept
<1>2. /\ ins' \in [DOMAIN ins -> [class : DOMAIN version, fields : Seq(Fields)]]
      /\ DOMAIN ins' = DOMAIN ins
  BY PutTyped DEF LoaderTyped
<1>3. Instances' /\ Table'
  BY <1>1, <1>2 DEF LoaderTyped, Instances, Table
<1>4. Late(DOMAIN ins)' = Late(DOMAIN ins)
  BY <1>2 DEF Late
<1>5. version' \in Versions /\ loading' = "reading" /\ "reading" # "idle"
  BY DEF LoaderTyped
<1> QED BY <1>1, <1>2, <1>3, <1>4, <1>5 DEF LoaderTyped

LEMMA ReadDataTyped == ASSUME LoaderTyped, ReadData, heap' = heap PROVE LoaderTyped'
<1>1. /\ loading = "reading" /\ rtodo # <<>> /\ Expected("data")
      /\ UNCHANGED <<loading, version, table, nextObj, unfixed>>
      /\ ins' = Put(Head(input)) /\ input' = Tail(input) /\ rtodo' = Tail(rtodo)
  BY DEF ReadData, AtMember
<1>2. Head(input) \in Fields /\ input' \in Seq(Tokens)
  BY <1>1, HeadInput DEF Fields
<1>3. Dest \in DOMAIN ins /\ rtodo' \in Seq(Jobs(DOMAIN ins))
  BY <1>1, HeadJob
<1>4. unfixed' \in Seq(Late(DOMAIN ins))
  BY <1>1 DEF LoaderTyped
<1> QED BY <1>1, <1>2, <1>3, <1>4, FieldTyped

LEMMA ReadVectorTyped ==
  ASSUME Typed, LoaderTyped, ReadVector, heap' = heap PROVE LoaderTyped'
<1> DEFINE element == [Head(rtodo) EXCEPT !.kind = IF @ = "ptrs" THEN "ptr" ELSE "inst"]
           elements == [i \in 1 .. Head(input).val |-> element]
<1>1. /\ loading = "reading" /\ rtodo # <<>> /\ Head(rtodo).kind \in {"ptrs", "insts"}
      /\ Expected("len") /\ UNCHANGED <<loading, version, table, nextObj, unfixed>>
      /\ ins' = Put(Head(input)) /\ input' = Tail(input) /\ rtodo' = elements \o Tail(rtodo)
  BY DEF ReadVector, AtMember
<1>2. Head(input) \in Tokens /\ input' \in Seq(Tokens) /\ Head(input).kind = "len"
  BY <1>1, HeadInput
<1>3. Head(input) \in Fields /\ Head(input).val \in Nat
  BY <1>2, TokenKinds DEF Fields
<1>4. /\ Head(rtodo) \in Jobs(DOMAIN ins) /\ Tail(rtodo) \in Seq(Jobs(DOMAIN ins))
      /\ Dest \in DOMAIN ins
  BY <1>1, HeadJob
<1>5. element \in Jobs(DOMAIN ins)
  <2>1. Head(rtodo).kind = "insts" => Head(rtodo).class \in DOMAIN version
    BY <1>4 DEF Jobs
  <2>2. /\ element.kind = IF Head(rtodo).kind = "ptrs" THEN "ptr" ELSE "inst"
        /\ element.class = Head(rtodo).class
        /\ element \in [kind : MemberKinds, class : MemberClasses, dest : DOMAIN ins]
    BY <1>4 DEF Jobs, MemberKinds
  <2> HIDE DEF element
  <2> QED BY <1>1, <2>1, <2>2 DEF Jobs
<1> HIDE DEF element
<1>6. elements \in Seq(Jobs(DOMAIN ins))
  BY <1>3, <1>5
<1> HIDE DEF elements
<1>7. rtodo' \in Seq(Jobs(DOMAIN ins))
  BY <1>1, <1>4, <1>6, ConcatProperties
<1>8. unfixed' \in Seq(Late(DOMAIN ins))
  BY <1>1 DEF LoaderTyped
<1> QED BY <1>1, <1>2, <1>3, <1>4, <1>7, <1>8, FieldTyped

LEMMA ReadPtrTyped == ASSUME Typed, LoaderTyped, ReadPtr, heap' = heap PROVE LoaderTyped'
<1> DEFINE n == Head(input).val
           obj == IF n = 0 THEN NoObj ELSE table[n].obj
           late == [owner |-> Dest, id |-> n, pos |-> Len(ins[Dest].fields) + 1]
<1>1. /\ loading = "reading" /\ rtodo # <<>> /\ Expected("ptr")
      /\ UNCHANGED <<loading, version, table, nextObj>>
      /\ n <= Len(table) /\ ins' = Put([kind |-> "ptr", val |-> obj])
      /\ unfixed' = IF n # 0 /\ obj = NoObj THEN Append(unfixed, late) ELSE unfixed
      /\ input' = Tail(input) /\ rtodo' = Tail(rtodo)
  BY DEF ReadPtr, AtMember
<1>2. n \in Nat /\ input' \in Seq(Tokens)
  <2>1. Head(input) \in Tokens /\ Head(input).kind = "ptr" /\ Tail(input) \in Seq(Tokens)
    BY <1>1, HeadInput
  <2> QED BY <1>1, <2>1, TokenKinds
<1>3. Dest \in DOMAIN ins /\ rtodo' \in Seq(Jobs(DOMAIN ins))
  BY <1>1, HeadJob
<1> HIDE DEF n
<1>4. n # 0 => n \in DOMAIN table /\ table[n].obj \in Paths
  <2>1. table \in Seq(Rows) /\ Len(table) \in Nat /\ DOMAIN table = 1 .. Len(table)
    BY LenProperties DEF LoaderTyped, Table
  <2>2. n # 0 => n \in 1 .. Len(table)
    BY <1>1, <1>2, <2>1
  <2>3. n # 0 => table[n] \in Rows
    BY <2>1, <2>2, ElementOfSeq
  <2> QED BY <2>1, <2>2, <2>3 DEF Rows
<1>5. obj \in Paths
  BY <1>4 DEF NoObj, Paths
<1> HIDE DEF obj
<1>6. [kind |-> "ptr", val |-> obj] \in Fields
  BY <1>5 DEF Fields
<1>7. unfixed' \in Seq(Late(DOMAIN ins))
  <2>1. unfixed \in Seq(Late(DOMAIN ins))
    BY DEF LoaderTyped
  <2>2. CASE n # 0
    <3>1. ins[Dest].fields \in Seq(Fields)
      BY <1>3 DEF LoaderTyped, Instances
    <3>2. Len(ins[Dest].fields) + 1 \in Nat
      BY <3>1, LenProperties
    <3>3. late \in Late(DOMAIN ins)
      BY <1>3, <1>4, <2>2, <3>2 DEF Late
    <3> HIDE DEF late
    <3> QED BY <1>1, <2>1, <3>3, AppendProperties
  <2>3. CASE n = 0
    BY <1>1, <2>1, <2>3
  <2> QED BY <2>2, <2>3
<1> QED BY <1>1, <1>2, <1>3, <1>6, <1>7, FieldTyped

\* One instance more, of a class that is known, and its members to be read.
LEMMA ReadInstanceTyped == ASSUME LoaderTyped, ReadInstance, heap' = heap PROVE LoaderTyped'
<1> DEFINE n == Head(input).val
           here == Append(Dest, Len(ins[Dest].fields) + 1)
           c == Head(rtodo).class
           field == [kind |-> "inst", val |-> here]
           D == DOMAIN ins
           E == DOMAIN ins \union {here}
<1>1. /\ loading = "reading" /\ rtodo # <<>> /\ Head(rtodo).kind = "inst" /\ Expected("inst")
      /\ UNCHANGED <<loading, version, nextObj, unfixed>> /\ input' = Tail(input)
      /\ table[n].isEmbedded
      /\ table' = [table EXCEPT ![n].obj = here]
      /\ ins' = [p \in E |-> IF p = here THEN [class |-> c, fields |-> <<>>] ELSE Put(field)[p]]
      /\ rtodo' = Members(c, here) \o Tail(rtodo)
  BY DEF ReadInstance, AtMember
<1>2. input' \in Seq(Tokens)
  BY <1>1, HeadInput
<1>3. Dest \in D /\ Tail(rtodo) \in Seq(Jobs(D)) /\ c \in DOMAIN version
  <2>1. Head(rtodo) \in Jobs(D) /\ Tail(rtodo) \in Seq(Jobs(D)) /\ Dest \in D
    BY <1>1, HeadJob
  <2> QED BY <1>1, <2>1 DEF Jobs
<1>4. here \in Paths
  <2>1. Dest \in Seq(Nat) /\ ins[Dest].fields \in Seq(Fields)
    BY <1>3 DEF LoaderTyped, Instances, Paths
  <2>2. Len(ins[Dest].fields) + 1 \in Nat
    BY <2>1, LenProperties
  <2> QED BY <2>1, <2>2, AppendProperties DEF Paths
<1> HIDE DEF n, here, c
<1>5. field \in Fields
  BY <1>4 DEF Fields
<1> HIDE DEF field
<1>6. /\ Put(field) \in [D -> [class : DOMAIN version, fields : Seq(Fields)]]
      /\ DOMAIN Put(field) = D
  BY <1>3, <1>5, PutTyped DEF LoaderTyped
<1>7. DOMAIN ins' = E
  BY <1>1
<1>8. /\ Tokens' = Tokens /\ Fields' = Fields /\ Rows' = Rows
      /\ \A S : Jobs(S)' = Jobs(S)
  BY <1>1, SetsKept
<1>9. Instances'
  <2>1. [class |-> c, fields |-> <<>>] \in [class : DOMAIN version, fields : Seq(Fields)]
    BY <1>3
  <2>2. DOMAIN ins' \subseteq Paths
    BY <1>4, <1>7 DEF LoaderTyped, Instances
  <2>3. ins' \in [E -> [class : DOMAIN version, fields : Seq(Fields)]]
    BY <1>1, <1>6, <2>1
  <2> QED BY <1>1, <1>7, <1>8, <2>2, <2>3 DEF Instances
<1>10. Table'
  <2>1. /\ table \in Seq(Rows) /\ Len(table) \in Nat /\ DOMAIN table = 1 .. Len(table)
        /\ nextObj \in 1 .. Len(table) + 1
    BY LenProperties DEF LoaderTyped, Table
  <2>2. ASSUME n \in DOMAIN table
        PROVE  /\ [table[n] EXCEPT !.obj = here] \in Rows
               /\ [table[n] EXCEPT !.obj = here].isEmbedded = table[n].isEmbedded
    <3>1. table[n] \in Rows
      BY <2>1, <2>2, ElementOfSeq
    <3> QED BY <1>4, <3>1 DEF Rows
  <2>3. /\ table' \in Seq(Rows) /\ Len(table') = Len(table) /\ DOMAIN table' = DOMAIN table
        /\ \A m \in DOMAIN table :
             table'[m] = IF m = n THEN [table[n] EXCEPT !.obj = here] ELSE table[m]
    <3> DEFINE new == [table[n] EXCEPT !.obj = here]
    <3>1. table' = [table EXCEPT ![n] = new] /\ (n \in DOMAIN table => new \in Rows)
      BY <1>1, <2>2
    <3> HIDE DEF new
    <3>2. \A m \in DOMAIN table : table[m] \in Rows
      BY <2>1, ElementOfSeq
    <3>3. /\ DOMAIN table' = DOMAIN table
          /\ \A m \in DOMAIN table : table'[m] = IF m = n THEN new ELSE table[m]
      BY <3>1
    <3>4. table' = [m \in 1 .. Len(table) |-> table'[m]]
      BY <2>1, <3>1, <3>3
    <3>5. \A m \in 1 .. Len(table) : table'[m] \in Rows
      BY <2>1, <3>1, <3>2, <3>3
    <3>6. table' \in Seq(Rows) /\ Len(table') = Len(table)
      BY <2>1, <3>4, <3>5
    <3> QED BY <3>3, <3>6 DEF new
  <2>4. \A m \in DOMAIN table : ~table'[m].isEmbedded => table'[m].obj \in E
    BY <1>1, <2>2, <2>3 DEF LoaderTyped, Table
  <2> QED BY <1>1, <1>7, <1>8, <2>1, <2>3, <2>4 DEF Table
<1>11. rtodo' \in Seq(Jobs(E))
  <2>1. Members(c, here) \in Seq(Jobs(E))
    <3>1. version \in Versions /\ here \in E
      BY <1>1 DEF LoaderTyped
    <3> QED BY <1>3, <3>1, MembersTyped
  <2>2. Jobs(D) \subseteq Jobs(E)
    BY DEF Jobs
  <2>3. Tail(rtodo) \in Seq(Jobs(E))
    BY <1>3, <2>2, SeqOfMore
  <2> QED BY <1>1, <2>1, <2>3, ConcatProperties
<1>12. unfixed' \in Seq(Late(DOMAIN ins)')
  <2>1. DOMAIN table' = DOMAIN table
    BY <1>1
  <2>2. Late(D) \subseteq Late(DOMAIN ins)'
    BY <1>7, <2>1 DEF Late
  <2>3. unfixed \in Seq(Late(D))
    BY DEF LoaderTyped
  <2> QED BY <1>1, <2>2, <2>3, SeqOfMore
<1>13. Jobs(DOMAIN ins)' = Jobs(E)
  BY <1>1, <1>7 DEF Jobs, MemberClasses
<1>14. version' \in Versions /\ loading' = "reading" /\ "reading" # "idle"
  BY <1>1 DEF LoaderTyped
<1> QED BY <1>2, <1>8, <1>9, <1>10, <1>11, <1>12, <1>13, <1>14 DEF LoaderTyped

\* The pointers left for later become paths, like the others.
LEMMA FixedTyped ==
  ASSUME LoaderTyped, NEW p \in DOMAIN ins, NEW i \in DOMAIN ins[p].fields
  PROVE  Fixed(p, i) \in Fields
<1> DEFINE late == {u \in DOMAIN unfixed : unfixed[u].owner = p /\ unfixed[u].pos = i}
<1>1. Fixed(p, i) = IF late = {} THEN ins[p].fields[i]
                    ELSE [kind |-> "ptr", val |-> table[unfixed[CHOOSE u \in late : TRUE].id].obj]
  BY DEF Fixed
<1>2. CASE late = {}
  <2>1. ins[p].fields \in Seq(Fields)
    BY DEF LoaderTyped, Instances
  <2> QED BY <1>1, <1>2, <2>1
<1>3. CASE late # {}
  <2> DEFINE u == CHOOSE x \in late : TRUE
  <2>1. u \in DOMAIN unfixed
    BY <1>3
  <2> HIDE DEF u, late
  <2>2. unfixed \in Seq(Late(DOMAIN ins))
    BY DEF LoaderTyped
  <2>3. unfixed[u] \in Late(DOMAIN ins)
    BY <2>1, <2>2
  <2>4. unfixed[u].id \in DOMAIN table
    BY <2>3 DEF Late
  <2>5. table \in Seq(Rows)
    BY DEF LoaderTyped, Table
  <2>6. table[unfixed[u].id].obj \in Paths
    <3>1. table[unfixed[u].id] \in Rows
      BY <2>4, <2>5
    <3> QED BY <3>1 DEF Rows
  <2>7. Fixed(p, i) = [kind |-> "ptr", val |-> table[unfixed[u].id].obj]
    BY <1>1, <1>3 DEF u
  <2> QED BY <2>6, <2>7 DEF Fields
<1> QED BY <1>2, <1>3

LEMMA FinishLoadTyped == ASSUME LoaderTyped, FinishLoad, heap' = heap PROVE LoaderTyped'
<1> DEFINE fixed(p) == [i \in DOMAIN ins[p].fields |-> Fixed(p, i)]
           T == [class : DOMAIN version, fields : Seq(Fields)]
<1>1. /\ loading = "reading" /\ loading' = "loaded"
      /\ ins' = [p \in DOMAIN ins |-> [ins[p] EXCEPT !.fields = fixed(p)]]
      /\ UNCHANGED <<version, input, table, nextObj, rtodo, unfixed>>
  BY DEF FinishLoad
<1>2. ASSUME NEW p \in DOMAIN ins PROVE [ins[p] EXCEPT !.fields = fixed(p)] \in T
  <2>1. ins[p] \in T /\ ins[p].fields \in Seq(Fields)
    BY DEF LoaderTyped, Instances
  <2>2. \A i \in DOMAIN ins[p].fields : Fixed(p, i) \in Fields
    BY FixedTyped
  <2>3. fixed(p) \in Seq(Fields)
    <3>1. DOMAIN ins[p].fields = 1 .. Len(ins[p].fields) /\ Len(ins[p].fields) \in Nat
      BY <2>1, LenProperties
    <3> QED BY <2>2, <3>1
  <2> HIDE DEF fixed
  <2> QED BY <2>1, <2>3
<1> HIDE DEF fixed
<1>3. ins' \in [DOMAIN ins -> T] /\ DOMAIN ins' = DOMAIN ins
  BY <1>1, <1>2
<1>4. /\ Tokens' = Tokens /\ Fields' = Fields /\ Rows' = Rows
      /\ \A D : Jobs(D)' = Jobs(D)
  BY <1>1, SetsKept
<1>5. Instances' /\ Table'
  BY <1>1, <1>3, <1>4 DEF LoaderTyped, Instances, Table
<1>6. Late(DOMAIN ins)' = Late(DOMAIN ins) /\ Jobs(DOMAIN ins)' = Jobs(DOMAIN ins)
  <2>1. Late(DOMAIN ins)' = Late(DOMAIN ins)
    BY <1>1, <1>3 DEF Late
  <2>2. version' = version /\ DOMAIN ins' = DOMAIN ins
    BY <1>1, <1>3
  <2>3. Jobs(DOMAIN ins)' = Jobs(DOMAIN ins)
    BY <2>2 DEF Jobs, MemberClasses
  <2> QED BY <2>1, <2>3
<1>7. version' \in Versions /\ "loaded" # "idle"
  BY <1>1 DEF LoaderTyped
<1> QED BY <1>1, <1>4, <1>5, <1>6, <1>7 DEF LoaderTyped

LEMMA NothingReadTyped ==
  ASSUME LoaderTyped, UNCHANGED <<heap, version, input, table, nextObj, rtodo, ins, unfixed>>,
         \/ loading' = loading
         \/ loading = "reading" /\ loading' = "garbled"
  PROVE  LoaderTyped'
<1>1. /\ Tokens' = Tokens /\ Fields' = Fields /\ Rows' = Rows
  BY SetsKept
<1>2. Late(DOMAIN ins)' = Late(DOMAIN ins) /\ Jobs(DOMAIN ins)' = Jobs(DOMAIN ins)
  BY DEF Late, Jobs, MemberClasses
<1>3. Instances' /\ Table'
  BY <1>1 DEF LoaderTyped, Instances, Table
<1>4. "garbled" # "idle" /\ "reading" # "idle"
  OBVIOUS
<1>5. /\ loading' \in {"idle", "reading", "loaded", "failed", "garbled"}
      /\ loading' = "idle" => loading = "idle"
      /\ loading' # "idle" => loading # "idle"
  BY <1>4 DEF LoaderTyped
<1> QED BY <1>1, <1>2, <1>3, <1>5 DEF LoaderTyped

\* Every object of the table that is not embedded is created, of a class that the
\* program knows.
LEMMA OpenTyped ==
  ASSUME SaverTyped, LoaderTyped, OpenPackage(file), heap' = heap PROVE LoaderTyped'
<1>1. /\ loading = "idle" /\ version' \in Versions
      /\ table = <<>> /\ ins = <<>> /\ rtodo = <<>> /\ unfixed = <<>> /\ nextObj = 1
      /\ input = <<>> /\ UNCHANGED <<nextObj, rtodo, unfixed>>
  BY DEF OpenPackage, LoaderTyped
<1>2. rtodo' \in Seq(Jobs(DOMAIN ins)') /\ unfixed' \in Seq(Late(DOMAIN ins)') /\ nextObj' = 1
  BY <1>1
<1>3. Tokens' = Tokens
  BY DEF Tokens
<1>4. CASE Refuses(version', file)
  <2>1. loading' = "failed" /\ UNCHANGED <<input, table, ins>> /\ "failed" # "idle"
    BY <1>4 DEF OpenPackage
  <2>2. Instances' /\ Table'
    BY <1>1, <2>1 DEF Instances, Table
  <2> QED BY <1>1, <1>2, <1>3, <2>1, <2>2 DEF LoaderTyped
<1>5. CASE ~Refuses(version', file)
  <2> DEFINE own == {m \in DOMAIN file.table : ~file.table[m].isEmbedded}
  <2>1. /\ loading' = "reading" /\ input' = file.stream
        /\ table' = [n \in DOMAIN file.table |->
                        [obj |-> IF file.table[n].isEmbedded THEN NoObj ELSE <<n>>,
                         isEmbedded |-> file.table[n].isEmbedded,
                         class |-> file.table[n].class]]
        /\ ins' = [p \in {<<n>> : n \in own} |-> [class |-> file.table[p[1]].class,
                                                 fields |-> <<>>]]
    BY <1>5 DEF OpenPackage
  <2>2. file.header /\ Range(file.classRefs) \subseteq DOMAIN version'
    BY <1>5 DEF Refuses
  <2>3. FileTyped
    BY <2>2 DEF SaverTyped, NoHeader
  <2>4. /\ Len(file.table) \in Nat /\ DOMAIN file.table = 1 .. Len(file.table)
        /\ \A n \in DOMAIN file.table : /\ file.table[n].isEmbedded \in BOOLEAN
                                        /\ file.table[n].class \in DOMAIN version'
    <3>1. file.table \in Seq([class : Range(file.classRefs), isEmbedded : BOOLEAN])
      BY <2>3 DEF FileTyped
    <3>2. DOMAIN file.table = 1 .. Len(file.table) /\ Len(file.table) \in Nat
      BY <3>1, LenProperties
    <3>3. ASSUME NEW n \in DOMAIN file.table
          PROVE  file.table[n] \in [class : Range(file.classRefs), isEmbedded : BOOLEAN]
      BY <3>1, <3>2, <3>3, ElementOfSeq
    <3> QED BY <2>2, <3>2, <3>3
  <2>5. \A n \in DOMAIN file.table : <<n>> \in Paths
    BY <2>4 DEF Paths
  <2>6. DOMAIN ins' = {<<n>> : n \in own}
    BY <2>1
  <2>7. Instances'
    <3>1. DOMAIN ins' \subseteq Paths
      BY <2>5, <2>6
    <3>2. ASSUME NEW p \in DOMAIN ins'
          PROVE  ins'[p] \in [class : DOMAIN version', fields : Seq(Fields')]
      <4>1. PICK n \in own : p = <<n>>
        BY <2>6, <3>2
      <4>2. ins'[p] = [class |-> file.table[p[1]].class, fields |-> <<>>]
        BY <2>1, <2>6, <3>2
      <4>3. file.table[p[1]].class \in DOMAIN version'
        BY <2>4, <4>1
      <4> QED BY <4>2, <4>3
    <3>3. ins' = [p \in DOMAIN ins' |-> ins'[p]]
      BY <2>1, <2>6
    <3>4. ins' \in [DOMAIN ins' -> [class : DOMAIN version', fields : Seq(Fields')]]
      BY <3>2, <3>3
    <3> QED BY <3>1, <3>4 DEF Instances
  <2>8. Table'
    <3>1. NoObj \in Paths
      BY DEF NoObj, Paths
    <3>2. \A n \in DOMAIN file.table :
            [obj |-> IF file.table[n].isEmbedded THEN NoObj ELSE <<n>>,
             isEmbedded |-> file.table[n].isEmbedded,
             class |-> file.table[n].class] \in Rows'
      BY <2>4, <2>5, <3>1 DEF Rows
    <3>3. table' \in Seq(Rows') /\ Len(table') = Len(file.table)
      BY <2>1, <2>4, <3>2
    <3>4. \A n \in DOMAIN table' : ~table'[n].isEmbedded => table'[n].obj \in DOMAIN ins'
      <4> SUFFICES ASSUME NEW n \in DOMAIN table', ~table'[n].isEmbedded
                   PROVE  table'[n].obj \in DOMAIN ins'
        OBVIOUS
      <4>1. n \in own /\ table'[n].obj = <<n>>
        BY <2>1
      <4> QED BY <2>6, <4>1
    <3>5. nextObj' \in 1 .. Len(table') + 1
      BY <1>2, <2>4, <3>3
    <3> QED BY <3>3, <3>4, <3>5 DEF Table
  <2>9. input' \in Seq(Tokens') /\ "reading" # "idle"
    BY <1>3, <2>1, <2>3 DEF FileTyped
  <2> QED BY <1>1, <1>2, <2>1, <2>7, <2>8, <2>9 DEF LoaderTyped
<1> QED BY <1>4, <1>5

LEMMA LoadStepTyped == ASSUME Typed, LoaderTyped, LoadStep, heap' = heap PROVE LoaderTyped'
<1>1. CASE Garble
  <2>1. /\ loading = "reading" /\ loading' = "garbled"
        /\ UNCHANGED <<version, input, table, nextObj, rtodo, ins, unfixed>>
    BY <1>1, Zenon DEF Garble
  <2> QED BY <2>1, NothingReadTyped
<1> QED BY <1>1, ReadObjectTyped, ReadDataTyped, ReadVectorTyped, ReadPtrTyped,
           ReadInstanceTyped, FinishLoadTyped DEF LoadStep, ReadMember

LEMMA TypedStep == ASSUME IInv, SaverTyped, LoaderTyped, [Next]_vars
                   PROVE  SaverTyped' /\ LoaderTyped'
<1>1. CASE Save \/ Cut
  <2>1. SaveNext /\ UNCHANGED lvars
    BY <1>1 DEF Save, Cut, SaveNext
  <2>2. heap' = heap
    BY <2>1 DEF SaveNext, SaveStep, WriteData, WritePtr, WriteInstance, NextObject, NextPass,
                FinishSave, CutSave
  <2>3. LoaderTyped'
    BY <2>1, <2>2, NothingReadTyped DEF lvars
  <2> QED BY <2>1, <2>3, SaverTypedStep
<1>2. CASE LoadOPK
  <2>1. OpenPackage(file) /\ UNCHANGED svars /\ heap' = heap
    BY <1>2 DEF LoadOPK, svars
  <2> QED BY <2>1, OpenTyped, SaverTypedStep
<1>3. CASE Load
  <2>1. LoadStep /\ UNCHANGED svars /\ heap' = heap
    BY <1>3 DEF Load, svars
  <2> QED BY <2>1, LoadStepTyped, SaverTypedStep DEF IInv
<1>4. CASE UNCHANGED vars
  <2>1. UNCHANGED svars /\ UNCHANGED lvars /\ heap' = heap
    BY <1>4 DEF vars, svars
  <2> QED BY <2>1, NothingReadTyped, SaverTypedStep DEF lvars
<1> QED BY <1>1, <1>2, <1>3, <1>4 DEF Next

LEMMA TypedInit == Init => SaverTyped /\ LoaderTyped
<1> SUFFICES ASSUME Init PROVE SaverTyped /\ LoaderTyped
  OBVIOUS
<1>1. SaverTyped
  <2>1. ptrToID = [a \in {heap[Root].at} |-> Entry(1, heap[Root].class, FALSE)]
    BY DEF Init, SaveInit
  <2>2. Entry(1, heap[Root].class, FALSE).isEmbedded \in BOOLEAN
    BY DEF Entry
  <2>3. \A a \in DOMAIN ptrToID : ptrToID[a].isEmbedded \in BOOLEAN
    BY <2>1, <2>2
  <2>4. stream = <<>> /\ saving = "saving" /\ file = NoHeader
    BY DEF Init, SaveInit
  <2> QED BY <2>3, <2>4 DEF SaverTyped
<1>2. LoaderTyped
  BY DEF Init, LoadInit, LoaderTyped, Instances, Table
<1> QED BY <1>1, <1>2

\* The serializers keep their types: in particular every id leads to an object that has an
\* entry, every loaded instance has a class that the loading program knows, and every
\* pointer left for later leads from an instance to a row of the table (TypeOK).
THEOREM TypeCorrect == Spec => []TypeOK
<1>1. ASSUME IInv, SaverTyped, LoaderTyped PROVE TypeOK
  <2>1. DOMAIN objects = 1 .. Len(objects)
    BY <1>1, LenProperties DEF IInv, Typed
  <2>2. \A a \in DOMAIN ptrToID : ptrToID[a].id \in DOMAIN objects
    BY <1>1, <2>1 DEF IInv, Entries
  <2>3. \A n \in DOMAIN objects : objects[n] \in DOMAIN ptrToID
    BY <1>1, <2>1 DEF IInv, Entries
  <2>4. \A t \in Range(stream) : t.kind \in Kinds
    <3> SUFFICES ASSUME NEW n \in DOMAIN stream PROVE stream[n].kind \in Kinds
      BY DEF Range
    <3>1. stream[n] \in Tokens
      BY <1>1 DEF SaverTyped
    <3> QED BY <1>1, <3>1, TokenKinds DEF IInv
  <2>5. \A p \in DOMAIN ins : ins[p].class \in DOMAIN version
    BY <1>1 DEF LoaderTyped, Instances
  <2>6. \A u \in Range(unfixed) : u.owner \in DOMAIN ins /\ u.id \in DOMAIN table
    <3> SUFFICES ASSUME NEW n \in DOMAIN unfixed
                 PROVE  unfixed[n].owner \in DOMAIN ins /\ unfixed[n].id \in DOMAIN table
      BY DEF Range
    <3>1. unfixed[n] \in Late(DOMAIN ins)
      BY <1>1 DEF LoaderTyped
    <3> QED BY <3>1 DEF Late
  <2> QED BY <1>1, <2>2, <2>3, <2>4, <2>5, <2>6 DEF SaverTyped, LoaderTyped, Table, TypeOK
<1>2. IInv /\ SaverTyped /\ LoaderTyped /\ [Next]_vars => SaverTyped' /\ LoaderTyped'
  BY TypedStep
<1>3. Spec => [](SaverTyped /\ LoaderTyped)
  BY TypedInit, <1>2, SaverInvariant, PTL DEF Spec
<1> QED BY <1>1, <1>3, SaverInvariant, PTL

=============================================================================

-------------------------- MODULE ObjectTreeProofs --------------------------
(***************************************************************************)
(* Proofs about ObjectTree, for any number of objects and any files: until *)
(* an object is replaced the heap is a forest, from which follow ownership, *)
(* the agreement of links, and what each command does; and what replacing   *)
(* an object, and an undo and a redo after it, do to the links.             *)
(***************************************************************************)
EXTENDS ObjectTree, SequenceTheorems, FiniteSetTheorems, WellFoundedInduction, TLAPS

-----------------------------------------------------------------------------
(* Lists without duplicates *)

\* What is in a list, by its places.
LEMMA ElementsOfSeq ==
  ASSUME NEW S, NEW s \in Seq(S)
  PROVE  /\ ToSet(s) \subseteq S
         /\ \A e : e \in ToSet(s) <=> \E i \in 1 .. Len(s) : s[i] = e
<1>1. DOMAIN s = 1 .. Len(s) /\ s \in [1 .. Len(s) -> S]
  BY LenProperties
<1> QED BY <1>1 DEF ToSet

\* A list without duplicates, by its places.
LEMMA InjectiveSeq ==
  ASSUME NEW S, NEW s \in Seq(S)
  PROVE  IsInjective(s) <=> \A i, j \in 1 .. Len(s) : s[i] = s[j] => i = j
<1>1. DOMAIN s = 1 .. Len(s)
  BY LenProperties
<1> QED BY <1>1 DEF IsInjective

\* Erasing an element of a list without duplicates.
LEMMA RemoveFirstProperties ==
  ASSUME NEW S, NEW s \in Seq(S), IsInjective(s), NEW e \in ToSet(s)
  PROVE  /\ RemoveFirst(s, e) \in Seq(S)
         /\ IsInjective(RemoveFirst(s, e))
         /\ ToSet(RemoveFirst(s, e)) = ToSet(s) \ {e}
<1> DEFINE n == Len(s)
           k == SelectInSeq(s, LAMBDA v : v = e)
           a == SubSeq(s, 1, k - 1)
           b == SubSeq(s, k + 1, n)
<1>1. n \in Nat /\ DOMAIN s = 1 .. n /\ s \in [1 .. n -> S]
  BY LenProperties
<1>2. PICK m \in 1 .. n : s[m] = e
  BY ElementsOfSeq
<1>3. {i \in 1 .. n : s[i] = e} = {m}
  BY <1>2, InjectiveSeq
<1>4. k = m
  <2>1. Min({m}) = m
    BY <1>2 DEF Min
  <2> QED BY <1>3, <2>1 DEF SelectInSeq
<1>5. RemoveFirst(s, e) = a \o b
  BY <1>2 DEF RemoveFirst, RemoveAt
<1>6. /\ a \in Seq(S) /\ Len(a) = m - 1 /\ \A i \in 1 .. m - 1 : a[i] = s[i]
      /\ b \in Seq(S) /\ Len(b) = n - m /\ \A i \in 1 .. n - m : b[i] = s[m + i]
  <2>1. \A i \in 1 .. m - 1 : s[i] \in S
    BY <1>1, <1>2
  <2>2. \A i \in m + 1 .. n : s[i] \in S
    BY <1>1, <1>2
  <2>3. /\ SubSeq(s, 1, m - 1) \in Seq(S)
        /\ Len(SubSeq(s, 1, m - 1)) = IF 1 <= m - 1 THEN m - 1 - 1 + 1 ELSE 0
        /\ \A i \in 1 .. m - 1 - 1 + 1 : SubSeq(s, 1, m - 1)[i] = s[1 + i - 1]
    BY <1>2, <2>1, SubSeqProperties
  <2>4. /\ SubSeq(s, m + 1, n) \in Seq(S)
        /\ Len(SubSeq(s, m + 1, n)) = IF m + 1 <= n THEN n - (m + 1) + 1 ELSE 0
        /\ \A i \in 1 .. n - (m + 1) + 1 : SubSeq(s, m + 1, n)[i] = s[m + 1 + i - 1]
    BY <1>1, <1>2, <2>2, SubSeqProperties
  <2>5. m \in Int /\ n \in Int /\ 1 <= m /\ m <= n
    BY <1>1, <1>2
  <2> HIDE DEF n, k
  <2> QED BY <2>3, <2>4, <2>5, <1>4
<1> HIDE DEF a, b, k, n
<1>7. /\ a \o b \in Seq(S) /\ Len(a \o b) = n - 1
      /\ \A i \in 1 .. n - 1 : (a \o b)[i] = IF i <= m - 1 THEN s[i] ELSE s[i + 1]
  <2>1. /\ a \o b \in Seq(S) /\ Len(a \o b) = Len(a) + Len(b)
        /\ \A i \in 1 .. Len(a) + Len(b) : (a \o b)[i] = IF i <= Len(a) THEN a[i] ELSE b[i - Len(a)]
    BY <1>6, ConcatProperties
  <2> QED BY <2>1, <1>1, <1>2, <1>6
<1> DEFINE r == a \o b
<1> HIDE DEF r
<1>8. IsInjective(r)
  <2>1. IsInjective(r) <=> \A i, j \in 1 .. n - 1 : r[i] = r[j] => i = j
    BY <1>7, InjectiveSeq DEF r
  <2>2. \A i, j \in 1 .. n : s[i] = s[j] => i = j
    BY InjectiveSeq DEF n
  <2> SUFFICES ASSUME NEW i \in 1 .. n - 1, NEW j \in 1 .. n - 1, r[i] = r[j] PROVE i = j
    BY <2>1
  <2> DEFINE At(x) == IF x <= m - 1 THEN x ELSE x + 1
  <2>3. r[i] = s[At(i)] /\ r[j] = s[At(j)]
    BY <1>7 DEF r
  <2>4. At(i) \in 1 .. n /\ At(j) \in 1 .. n
    BY <1>1, <1>2
  <2>5. At(i) = At(j)
    BY <2>2, <2>3, <2>4
  <2> QED BY <2>5, <1>1, <1>2
<1>9. ToSet(r) = ToSet(s) \ {e}
  <2>1. ASSUME NEW i \in 1 .. n - 1 PROVE r[i] \in ToSet(s) \ {e}
    <3>1. r[i] = s[IF i <= m - 1 THEN i ELSE i + 1]
      BY <1>7 DEF r
    <3>2. (IF i <= m - 1 THEN i ELSE i + 1) \in (1 .. n) \ {m}
      BY <1>1, <1>2
    <3> DEFINE q == IF i <= m - 1 THEN i ELSE i + 1
    <3> HIDE DEF q
    <3>3. r[i] = s[q] /\ q \in 1 .. n /\ q # m
      BY <3>1, <3>2 DEF q
    <3>4. s[q] # e
      BY <3>3, <1>2, InjectiveSeq DEF n
    <3>5. s[q] \in ToSet(s)
      BY <3>3, ElementsOfSeq DEF n
    <3> HIDE DEF r
    <3>6. r[i] \in ToSet(s) /\ r[i] # e
      BY <3>3, <3>4, <3>5, Zenon
    <3> QED BY <3>6
  <2>2. ASSUME NEW j \in 1 .. n, j # m PROVE \E i \in 1 .. n - 1 : r[i] = s[j]
    <3>1. CASE j < m
      <4>1. j \in 1 .. n - 1 /\ j <= m - 1
        BY <3>1, <1>1, <1>2
      <4>2. r[j] = s[j]
        BY <4>1, <1>7 DEF r
      <4> QED BY <4>1, <4>2
    <3>2. CASE j > m
      <4>1. j - 1 \in 1 .. n - 1 /\ ~(j - 1 <= m - 1) /\ (j - 1) + 1 = j
        BY <3>2, <1>1, <1>2
      <4> QED BY <4>1, <1>7 DEF r
    <3> QED BY <3>1, <3>2, <2>2, <1>2, <1>1
  <2>3. \A x : x \in ToSet(r) <=> \E i \in 1 .. n - 1 : r[i] = x
    BY <1>7, ElementsOfSeq DEF r
  <2>4. \A x : x \in ToSet(s) <=> \E i \in 1 .. n : s[i] = x
    BY ElementsOfSeq DEF n
  <2> QED BY <2>1, <2>2, <2>3, <2>4, <1>2
<1> QED BY <1>5, <1>7, <1>8, <1>9 DEF r

\* Adding an element to a list (push_back).
LEMMA AppendElement ==
  ASSUME NEW S, NEW s \in Seq(S), NEW e \in S
  PROVE  /\ Append(s, e) \in Seq(S) /\ ToSet(Append(s, e)) = ToSet(s) \cup {e}
         /\ IsInjective(s) /\ e \notin ToSet(s) => IsInjective(Append(s, e))
<1> DEFINE r == Append(s, e)
           n == Len(s)
<1>1. /\ r \in Seq(S) /\ Len(r) = n + 1 /\ r[n + 1] = e
      /\ \A i \in 1 .. n : r[i] = s[i]
  BY AppendProperties
<1>2. n \in Nat
  BY LenProperties
<1>3. \A x : x \in ToSet(r) <=> \E i \in 1 .. n + 1 : r[i] = x
  <2> HIDE DEF r
  <2> QED BY <1>1, ElementsOfSeq
<1>4. \A x : x \in ToSet(s) <=> \E i \in 1 .. n : s[i] = x
  BY ElementsOfSeq
<1>5. IsInjective(s) /\ e \notin ToSet(s) => IsInjective(r)
  <2> HIDE DEF r
  <2> QED BY <1>1, <1>2, <1>4, InjectiveSeq
<1> HIDE DEF r, n
<1>6. ToSet(r) = ToSet(s) \cup {e}
  BY <1>1, <1>2, <1>3, <1>4
<1> QED BY <1>1, <1>5, <1>6 DEF r

\* Adding one list to another (insert at the end).
LEMMA ConcatElements ==
  ASSUME NEW S, NEW s \in Seq(S), NEW t \in Seq(S)
  PROVE  /\ s \o t \in Seq(S) /\ ToSet(s \o t) = ToSet(s) \cup ToSet(t)
         /\ IsInjective(s) /\ IsInjective(t) /\ ToSet(s) \cap ToSet(t) = {} => IsInjective(s \o t)
<1> DEFINE r == s \o t
           n == Len(s)
           m == Len(t)
<1>1. /\ r \in Seq(S) /\ Len(r) = n + m
      /\ \A i \in 1 .. n + m : r[i] = IF i <= n THEN s[i] ELSE t[i - n]
  BY ConcatProperties
<1>2. n \in Nat /\ m \in Nat
  BY LenProperties
<1>3. \A x : x \in ToSet(r) <=> \E i \in 1 .. n + m : r[i] = x
  <2> HIDE DEF r
  <2> QED BY <1>1, ElementsOfSeq
<1>4. \A x : x \in ToSet(s) <=> \E i \in 1 .. n : s[i] = x
  BY ElementsOfSeq
<1>5. \A x : x \in ToSet(t) <=> \E i \in 1 .. m : t[i] = x
  BY ElementsOfSeq
<1>6. /\ IsInjective(s) <=> \A i, j \in 1 .. n : s[i] = s[j] => i = j
      /\ IsInjective(t) <=> \A i, j \in 1 .. m : t[i] = t[j] => i = j
  BY InjectiveSeq
<1>7. IsInjective(r) <=> \A i, j \in 1 .. n + m : r[i] = r[j] => i = j
  <2> HIDE DEF r
  <2> QED BY <1>1, InjectiveSeq
<1> HIDE DEF r, n, m
<1>8. \A i \in 1 .. m : n + i \in 1 .. n + m /\ ~(n + i <= n) /\ r[n + i] = t[i]
  BY <1>1, <1>2
<1>9. \A i \in 1 .. n : i \in 1 .. n + m /\ r[i] = s[i]
  BY <1>1, <1>2
<1>10. \A i \in 1 .. n + m : (i \in 1 .. n /\ r[i] = s[i]) \/ (i - n \in 1 .. m /\ r[i] = t[i - n])
  BY <1>1, <1>2
<1>11. ToSet(r) = ToSet(s) \cup ToSet(t)
  BY <1>3, <1>4, <1>5, <1>8, <1>9, <1>10
<1>12. ASSUME IsInjective(s), IsInjective(t), ToSet(s) \cap ToSet(t) = {} PROVE IsInjective(r)
  <2> SUFFICES ASSUME NEW i \in 1 .. n + m, NEW j \in 1 .. n + m, r[i] = r[j] PROVE i = j
    BY <1>7
  <2>1. CASE i \in 1 .. n /\ j \in 1 .. n
    BY <2>1, <1>6, <1>9, <1>12
  <2>2. CASE i \notin 1 .. n /\ j \notin 1 .. n
    <3>1. i - n \in 1 .. m /\ j - n \in 1 .. m /\ t[i - n] = t[j - n]
      BY <2>2, <1>10
    <3>2. i - n = j - n
      BY <3>1, <1>6, <1>12
    <3> QED BY <3>2, <1>2
  <2>3. CASE i \in 1 .. n /\ j \notin 1 .. n
    <3>1. r[i] = s[i] /\ j - n \in 1 .. m /\ r[j] = t[j - n]
      BY <2>3, <1>9, <1>10
    <3>2. r[i] \in ToSet(s) /\ r[j] \in ToSet(t)
      BY <2>3, <3>1, <1>4, <1>5
    <3> QED BY <3>2, <1>12
  <2>4. CASE i \notin 1 .. n /\ j \in 1 .. n
    <3>1. r[j] = s[j] /\ i - n \in 1 .. m /\ r[i] = t[i - n]
      BY <2>4, <1>9, <1>10
    <3>2. r[i] \in ToSet(t) /\ r[j] \in ToSet(s)
      BY <2>4, <3>1, <1>4, <1>5
    <3> QED BY <3>2, <1>12
  <2> QED BY <2>1, <2>2, <2>3, <2>4
<1> QED BY <1>1, <1>11, <1>12 DEF r

-----------------------------------------------------------------------------
(* Hierarchies *)

Kids(h, p) == ToSet(h.childs[p])

Tops(h) == {o \in h.live : h.parent[o] = NoObject}

\* The two directions of every link agree, and only objects that exist are linked.
LinkedBothWays(h) ==
  /\ h \in Heap
  /\ h.selected \subseteq h.live
  /\ \A o \in Ids \ h.live : h.parent[o] = NoObject
  /\ \A o \in h.live : h.parent[o] \in h.live \cup {NoObject}
  /\ \A p \in Ids : IsInjective(h.childs[p])
  /\ \A p, o \in Ids : o \in Kids(h, p) <=> h.parent[o] = p

\* Among any objects one is topmost.
Acyclic(h) == \A S \in SUBSET h.live : S # {} => \E x \in S : h.parent[x] \notin S

Trees(h) == LinkedBothWays(h) /\ Acyclic(h)

\* The null pointer is no object.
LEMMA NoObjectIsNone == NoObject \notin Ids
BY HeapAssumption DEF Ids

\* Childs are objects.
LEMMA KidsAreObjects ==
  ASSUME NEW h, h.childs \in [Ids -> Seq(Ids)]
  PROVE  \A p \in Ids : Kids(h, p) \subseteq Ids
<1> SUFFICES ASSUME NEW p \in Ids PROVE Kids(h, p) \subseteq Ids
  OBVIOUS
<1>1. h.childs[p] \in Seq(Ids)
  OBVIOUS
<1> QED BY <1>1, ElementsOfSeq DEF Kids

\* Below(h, o) is the least set with o that is closed under childs.
LEMMA BelowIsLeast ==
  ASSUME NEW h, NEW o, NEW S \in SUBSET Ids, o \in S, \A p \in S : Kids(h, p) \subseteq S
  PROVE  Below(h, o) \subseteq S
BY DEF Below, Kids

\* What is below an object has it, and the childs of all it has.
LEMMA BelowIsClosed ==
  ASSUME NEW h, h.childs \in [Ids -> Seq(Ids)], NEW o \in Ids
  PROVE  /\ o \in Below(h, o) /\ Below(h, o) \subseteq Ids
         /\ \A p \in Below(h, o) : Kids(h, p) \subseteq Below(h, o)
<1>1. o \in Below(h, o) /\ Below(h, o) \subseteq Ids
  BY DEF Below
<1>2. ASSUME NEW p \in Below(h, o), NEW y \in Kids(h, p) PROVE y \in Below(h, o)
  <2>1. p \in Ids /\ y \in Ids
    BY <1>1, <1>2, KidsAreObjects
  <2>2. SUFFICES ASSUME NEW S \in SUBSET (Ids \ {y}), o \in S, \A q \in S : Kids(h, q) \subseteq S
                 PROVE FALSE
    BY <2>1 DEF Below, Kids
  <2>3. p \in S
    BY <2>2, <1>2 DEF Below, Kids
  <2> QED BY <2>2, <2>3, <1>2
<1> QED BY <1>1, <1>2

\* What is below an object is a child of something that is below it.
LEMMA BelowIsOwned ==
  ASSUME NEW h, h.childs \in [Ids -> Seq(Ids)], NEW o \in Ids, NEW x \in Below(h, o), x # o
  PROVE  \E p \in Below(h, o) : x \in Kids(h, p)
<1> SUFFICES ASSUME \A p \in Below(h, o) : x \notin Kids(h, p) PROVE FALSE
  OBVIOUS
<1> DEFINE S == Below(h, o) \ {x}
<1>1. /\ o \in S /\ S \subseteq Ids /\ \A p \in S : Kids(h, p) \subseteq S
  BY BelowIsClosed
<1>2. Below(h, o) \subseteq S
  <2> HIDE DEF S
  <2> QED BY <1>1, BelowIsLeast
<1> QED BY <1>2

\* What is below something below an object is below that object.
LEMMA BelowIsTransitive ==
  ASSUME NEW h, h.childs \in [Ids -> Seq(Ids)], NEW o \in Ids, NEW x \in Below(h, o)
  PROVE  Below(h, x) \subseteq Below(h, o)
BY BelowIsClosed, BelowIsLeast

\* What is below o depends on the links below o only.
LEMMA BelowIsLocal ==
  ASSUME NEW h, h.childs \in [Ids -> Seq(Ids)], NEW g, g.childs \in [Ids -> Seq(Ids)], NEW o \in Ids,
         \A p \in Below(h, o) : Kids(g, p) = Kids(h, p)
  PROVE  Below(g, o) = Below(h, o)
<1>1. Below(g, o) \subseteq Below(h, o)
  BY BelowIsClosed, BelowIsLeast
<1>2. Below(h, o) \subseteq Below(g, o)
  <2>1. \A p \in Below(g, o) : Kids(h, p) \subseteq Below(g, o)
    BY <1>1, BelowIsClosed
  <2> QED BY <2>1, BelowIsClosed, BelowIsLeast
<1> QED BY <1>1, <1>2

-----------------------------------------------------------------------------
(* Trees *)

\* What linked objects are.
LEMMA TypeOfTrees ==
  ASSUME NEW h, LinkedBothWays(h)
  PROVE  /\ h.live \subseteq Ids /\ h.selected \subseteq h.live
         /\ h.parent \in [Ids -> Ids \cup {NoObject}] /\ h.childs \in [Ids -> Seq(Ids)]
         /\ h.root \in Ids \cup {NoObject} /\ h.buffer \in Seq(Ids)
         /\ \A p \in Ids : h.childs[p] \in Seq(Ids) /\ IsInjective(h.childs[p])
         /\ \A o \in Ids : h.parent[o] \in h.live \cup {NoObject}
         /\ \A o \in Ids : h.parent[o] # NoObject => o \in h.live
         /\ \A p, o \in Ids : o \in Kids(h, p) <=> h.parent[o] = p
         /\ \A p \in Ids : Kids(h, p) \subseteq h.live
<1> h \in Heap
  BY DEF LinkedBothWays
<1>1. /\ h.live \subseteq Ids /\ h.selected \subseteq h.live
      /\ h.parent \in [Ids -> Ids \cup {NoObject}] /\ h.childs \in [Ids -> Seq(Ids)]
      /\ h.root \in Ids \cup {NoObject} /\ h.buffer \in Seq(Ids)
  BY DEF Heap, LinkedBothWays
<1>2. \A p \in Ids : Kids(h, p) \subseteq Ids
  BY <1>1, KidsAreObjects
<1> QED BY <1>1, <1>2, NoObjectIsNone DEF LinkedBothWays

\* What is below an object is told by parent pointers too, when links agree.
LEMMA BelowInTrees ==
  ASSUME NEW h, LinkedBothWays(h), NEW o \in h.live
  PROVE  /\ o \in Below(h, o) /\ Below(h, o) \subseteq h.live
         /\ \A x \in Ids : h.parent[x] \in Below(h, o) => x \in Below(h, o)
         /\ \A x \in Below(h, o) : x # o => h.parent[x] \in Below(h, o)
         /\ \A x \in Below(h, o) : Below(h, x) \subseteq Below(h, o)
<1>1. h.live \subseteq Ids /\ h.childs \in [Ids -> Seq(Ids)] /\ \A p \in Ids : Kids(h, p) \subseteq h.live
  BY TypeOfTrees
<1>2. o \in Below(h, o) /\ Below(h, o) \subseteq h.live
  BY <1>1, BelowIsClosed, BelowIsLeast
<1>3. \A x \in Ids : h.parent[x] \in Below(h, o) => x \in Below(h, o)
  BY <1>1, <1>2, BelowIsClosed, TypeOfTrees
<1>4. \A x \in Below(h, o) : x # o => h.parent[x] \in Below(h, o)
  BY <1>1, <1>2, BelowIsOwned, TypeOfTrees
<1> QED BY <1>1, <1>2, <1>3, <1>4, BelowIsTransitive

\* Induction from the topmost objects downwards.
LEMMA TopDown ==
  ASSUME NEW h, Trees(h), NEW S,
         \A x \in h.live : h.parent[x] \in S \cup {NoObject} => x \in S
  PROVE  h.live \subseteq S
<1> SUFFICES ASSUME h.live \ S # {} PROVE FALSE
  OBVIOUS
<1>1. PICK x \in h.live \ S : h.parent[x] \notin h.live \ S
  BY DEF Trees, Acyclic
<1>2. h.parent[x] \in h.live \cup {NoObject}
  BY TypeOfTrees DEF Trees
<1> QED BY <1>1, <1>2

\* No object is its own parent.
LEMMA NoLoop ==
  ASSUME NEW h, Trees(h), NEW o \in h.live
  PROVE  h.parent[o] # o
<1>1. \E x \in {o} : h.parent[x] \notin {o}
  BY DEF Trees, Acyclic
<1> QED BY <1>1

\* No two objects are below each other.
LEMMA BelowIsAntisymmetric ==
  ASSUME NEW h, Trees(h), NEW x \in h.live, NEW y \in Below(h, x), x \in Below(h, y)
  PROVE  x = y
<1> SUFFICES ASSUME x # y PROVE FALSE
  OBVIOUS
<1> DEFINE T == {z \in Below(h, x) : x \in Below(h, z)}
<1> LinkedBothWays(h)
  BY DEF Trees
<1>1. Below(h, x) \subseteq h.live /\ y \in h.live
  BY BelowInTrees
<1>2. y \in T
  OBVIOUS
<1>3. PICK z \in T : h.parent[z] \notin T
  BY <1>1, <1>2 DEF Trees, Acyclic
<1>4. z \in h.live /\ z \in Ids
  BY <1>1, TypeOfTrees
<1>5. CASE z = x
  <2>1. h.parent[x] \in Below(h, y)
    BY <1>1, BelowInTrees
  <2>2. h.parent[x] \in Below(h, x)
    BY <2>1, <1>1, BelowInTrees
  <2>3. h.parent[x] \in h.live
    BY <2>2, <1>1
  <2>4. x \in Below(h, h.parent[x])
    BY <2>3, <1>4, <1>5, BelowInTrees
  <2> QED BY <2>2, <2>4, <1>3, <1>5
<1>6. CASE z # x
  <2>1. h.parent[z] \in Below(h, x)
    BY <1>6, BelowInTrees
  <2>2. h.parent[z] \in h.live
    BY <2>1, <1>1
  <2>3. z \in Below(h, h.parent[z])
    BY <2>2, <1>4, BelowInTrees
  <2>4. x \in Below(h, h.parent[z])
    BY <2>2, <2>3, BelowInTrees
  <2> QED BY <2>1, <2>4, <1>3
<1> QED BY <1>5, <1>6

\* Of two objects above the same one, one is above the other.
LEMMA AncestorsAreComparable ==
  ASSUME NEW h, Trees(h), NEW a \in h.live, NEW b \in h.live
  PROVE  \A y \in Below(h, a) \cap Below(h, b) : a \in Below(h, b) \/ b \in Below(h, a)
<1> SUFFICES ASSUME a \notin Below(h, b), b \notin Below(h, a)
             PROVE  Below(h, a) \cap Below(h, b) = {}
  OBVIOUS
<1> DEFINE T == Below(h, a) \cap Below(h, b)
<1> SUFFICES ASSUME T # {} PROVE FALSE
  OBVIOUS
<1> LinkedBothWays(h)
  BY DEF Trees
<1>1. T \subseteq h.live
  BY BelowInTrees
<1>2. PICK x \in T : h.parent[x] \notin T
  BY <1>1 DEF Trees, Acyclic
<1>3. x # a /\ x # b
  OBVIOUS
<1> QED BY <1>2, <1>3, BelowInTrees

\* Every object is below one that has no parent.
LEMMA EverythingIsBelowTops ==
  ASSUME NEW h, Trees(h)
  PROVE  \A x \in h.live : \E o \in Tops(h) : x \in Below(h, o)
<1> DEFINE S == {x \in h.live : \E o \in Tops(h) : x \in Below(h, o)}
<1> LinkedBothWays(h)
  BY DEF Trees
<1>1. ASSUME NEW x \in h.live, h.parent[x] \in S \cup {NoObject} PROVE x \in S
  <2>1. CASE h.parent[x] = NoObject
    BY <2>1, BelowInTrees DEF Tops
  <2>2. CASE h.parent[x] \in S
    <3>1. PICK o \in Tops(h) : h.parent[x] \in Below(h, o)
      BY <2>2
    <3>2. o \in h.live /\ x \in Ids
      BY TypeOfTrees DEF Tops
    <3> QED BY <3>1, <3>2, BelowInTrees
  <2> QED BY <1>1, <2>1, <2>2
<1>2. h.live \subseteq S
  <2> HIDE DEF S
  <2> QED BY <1>1, TopDown
<1> QED BY <1>2

\* No parent, nothing above.
LEMMA TopsAreApart ==
  ASSUME NEW h, Trees(h), NEW a \in Tops(h), NEW o \in h.live, a \in Below(h, o)
  PROVE  a = o
<1> LinkedBothWays(h)
  BY DEF Trees
<1>1. a # o => NoObject \in Below(h, o)
  BY BelowInTrees DEF Tops
<1>2. Below(h, o) \subseteq Ids
  BY BelowInTrees, TypeOfTrees
<1> QED BY <1>1, <1>2, NoObjectIsNone

\* Nothing is below two objects without a parent.
LEMMA TopsShareNothing ==
  ASSUME NEW h, Trees(h), NEW a \in Tops(h), NEW b \in Tops(h), a # b
  PROVE  Below(h, a) \cap Below(h, b) = {}
<1>1. a \in h.live /\ b \in h.live
  BY DEF Tops
<1> QED BY <1>1, AncestorsAreComparable, TopsAreApart

\* Together the objects without a parent own all there are.
LEMMA TopsOwnAll ==
  ASSUME NEW h, Trees(h)
  PROVE  UNION {Below(h, o) : o \in Tops(h)} = h.live
<1>1. \A o \in Tops(h) : Below(h, o) \subseteq h.live
  BY BelowInTrees DEF Trees, Tops
<1> QED BY <1>1, EverythingIsBelowTops

\* A traversal from objects without a parent meets every object once.
LEMMA TopsAreMetOnce ==
  ASSUME NEW h, Trees(h), NEW t, IsInjective(t), ToSet(t) \subseteq Tops(h)
  PROVE  MetOnce(h, t)
<1> DEFINE met == BelowAll(h, t)
<1> LinkedBothWays(h)
  BY DEF Trees
<1>1. met \subseteq h.live /\ met \subseteq Ids
  BY BelowInTrees, TypeOfTrees DEF BelowAll, Tops
<1>2. \A p \in met : \A o \in Kids(h, p) : o \in Ids /\ h.parent[o] = p /\ p # NoObject
  BY <1>1, TypeOfTrees, NoObjectIsNone
<1>3. Apart(h.childs, met)
  <2> SUFFICES ASSUME NEW p \in met, NEW q \in met,
                      NEW i \in DOMAIN h.childs[p], NEW j \in DOMAIN h.childs[q],
                      h.childs[p][i] = h.childs[q][j]
               PROVE  p = q /\ i = j
    BY DEF Apart
  <2>1. h.childs[p][i] \in Kids(h, p) /\ h.childs[q][j] \in Kids(h, q)
    BY DEF Kids, ToSet
  <2>2. p = q
    BY <2>1, <1>2
  <2>3. IsInjective(h.childs[p])
    BY <1>1, TypeOfTrees
  <2> QED BY <2>2, <2>3 DEF IsInjective
<1>4. \A p \in met : Kids(h, p) \cap ToSet(t) = {}
  BY <1>2 DEF Tops
<1> QED BY <1>3, <1>4 DEF MetOnce, Kids

-----------------------------------------------------------------------------
(* The invariant *)

\* The root and the buffered objects are what has no parent.
Forest(h) ==
  /\ Trees(h)
  /\ h.fault = "none"
  /\ IsInjective(h.buffer)
  /\ h.root \notin ToSet(h.buffer)
  /\ Tops(h) = ({h.root} \ {NoObject}) \cup ToSet(h.buffer)

IInv ==
  /\ since \in 0 .. AfterReplace + 1
  /\ since = 0 => Forest(heap)

\* The model and the copy buffer share the objects between them.
LEMMA OwnersOfForest ==
  ASSUME NEW h, Forest(h)
  PROVE  /\ ToSet(RootSeq(h)) = {h.root} \ {NoObject} /\ IsInjective(RootSeq(h))
         /\ h.root \in h.live \cup {NoObject}
         /\ RootSeq(h) \in Seq(Ids)
         /\ ToSet(h.buffer) \subseteq h.live
         /\ InBuffer(h) = UNION {Below(h, o) : o \in ToSet(h.buffer)}
         /\ h.root = NoObject => InModel(h) = {}
         /\ h.root # NoObject => InModel(h) = Below(h, h.root)
         /\ InModel(h) \cup InBuffer(h) = h.live /\ InModel(h) \cap InBuffer(h) = {}
         /\ MetOnce(h, RootSeq(h)) /\ MetOnce(h, h.buffer)
<1> Trees(h) /\ LinkedBothWays(h)
  BY DEF Forest, Trees
<1>1. ToSet(RootSeq(h)) = {h.root} \ {NoObject} /\ IsInjective(RootSeq(h))
  BY DEF RootSeq, ToSet, IsInjective
<1>2. h.root \in h.live \cup {NoObject} /\ ToSet(h.buffer) \subseteq h.live
  BY DEF Forest, Tops
<1>3. RootSeq(h) \in Seq(Ids)
  BY <1>2, TypeOfTrees DEF RootSeq
<1>4. InBuffer(h) = UNION {Below(h, o) : o \in ToSet(h.buffer)}
  BY DEF InBuffer, BelowAll
<1>5. InModel(h) = UNION {Below(h, o) : o \in {h.root} \ {NoObject}}
  BY <1>1 DEF InModel, BelowAll
<1>6. InModel(h) \cup InBuffer(h) = h.live
  <2>1. UNION {Below(h, o) : o \in Tops(h)} = h.live
    BY TopsOwnAll
  <2> QED BY <2>1, <1>4, <1>5 DEF Forest
<1>7. InModel(h) \cap InBuffer(h) = {}
  BY <1>4, <1>5, TopsShareNothing DEF Forest
<1>8. MetOnce(h, RootSeq(h)) /\ MetOnce(h, h.buffer)
  BY <1>1, TopsAreMetOnce DEF Forest
<1> QED BY <1>1, <1>2, <1>3, <1>4, <1>5, <1>6, <1>7, <1>8

\* Every object of a forest is owned once.
LEMMA ForestIsOwned ==
  ASSUME NEW h, Forest(h)
  PROVE  LET tops == RootSeq(h) \o h.buffer
         IN  BelowAll(h, tops) = h.live /\ MetOnce(h, tops)
<1> DEFINE tops == RootSeq(h) \o h.buffer
<1> Trees(h) /\ LinkedBothWays(h)
  BY DEF Forest, Trees
<1>1. ToSet(tops) = Tops(h) /\ IsInjective(tops)
  <2>1. h.buffer \in Seq(Ids) /\ RootSeq(h) \in Seq(Ids)
    BY TypeOfTrees, OwnersOfForest
  <2>2. /\ ToSet(tops) = ToSet(RootSeq(h)) \cup ToSet(h.buffer)
        /\ IsInjective(RootSeq(h)) /\ IsInjective(h.buffer) /\ ToSet(RootSeq(h)) \cap ToSet(h.buffer) = {}
             => IsInjective(tops)
    BY <2>1, ConcatElements
  <2> QED BY <2>2, OwnersOfForest DEF Forest
<1> HIDE DEF tops
<1>2. BelowAll(h, tops) = h.live
  BY <1>1, TopsOwnAll DEF BelowAll
<1> QED BY <1>1, <1>2, TopsAreMetOnce DEF tops

\* A parent pointer is what the lists of childs say.
LEMMA ForestLinksAgree ==
  ASSUME NEW h, LinkedBothWays(h), NEW o \in h.live
  PROVE  h.parent[o] = IF \E p \in h.live : o \in ToSet(h.childs[p])
                       THEN CHOOSE p \in h.live : o \in ToSet(h.childs[p])
                       ELSE NoObject
<1>1. h.parent[o] \in h.live \cup {NoObject} /\ o \in Ids /\ h.live \subseteq Ids
  BY TypeOfTrees
<1>2. \A p \in h.live : o \in ToSet(h.childs[p]) <=> h.parent[o] = p
  BY <1>1, TypeOfTrees DEF Kids
<1>3. CASE h.parent[o] = NoObject
  BY <1>1, <1>2, <1>3, NoObjectIsNone
<1>4. CASE h.parent[o] \in h.live
  BY <1>2, <1>4
<1> QED BY <1>1, <1>3, <1>4

\* A forest has its type.
LEMMA ForestHasType ==
  ASSUME NEW h, Forest(h)
  PROVE  /\ h \in Heap /\ h.selected \subseteq h.live
         /\ \A o \in h.live : h.parent[o] \in h.live \cup {NoObject}
BY DEF Forest, Trees, LinkedBothWays

\* The editor starts with a forest of no objects.
LEMMA InitForest == Init => IInv
<1> SUFFICES ASSUME Init PROVE IInv
  OBVIOUS
<1>1. /\ heap.live = {} /\ heap.parent = [o \in Ids |-> NoObject] /\ heap.childs = [o \in Ids |-> <<>>]
      /\ heap.selected = {} /\ heap.root = NoObject /\ heap.buffer = <<>> /\ heap.fault = "none"
      /\ since = 0
  BY DEF Init
<1>2. heap \in Heap
  BY DEF Init, Heap
<1>3. \A p \in Ids : IsInjective(heap.childs[p]) /\ Kids(heap, p) = {}
  BY <1>1 DEF IsInjective, Kids, ToSet
<1>4. Trees(heap)
  BY <1>1, <1>2, <1>3, NoObjectIsNone DEF Trees, LinkedBothWays, Acyclic
<1>5. IsInjective(heap.buffer) /\ ToSet(heap.buffer) = {}
  BY <1>1 DEF IsInjective, ToSet
<1>6. since \in 0 .. AfterReplace + 1
  BY <1>1, ShapeAssumption
<1> QED BY <1>1, <1>4, <1>5, <1>6 DEF IInv, Forest, Tops

-----------------------------------------------------------------------------
(* Links taken away and added *)

\* A heap is made of its fields.
LEMMA FieldsOfHeap ==
  ASSUME NEW h \in Heap, NEW g,
         g = [live |-> g.live, parent |-> g.parent, childs |-> g.childs, selected |-> g.selected,
              root |-> g.root, buffer |-> g.buffer, fault |-> g.fault],
         g.live \subseteq Ids, g.parent \in [Ids -> Ids \cup {NoObject}], g.childs \in [Ids -> Seq(Ids)],
         g.selected \subseteq Ids, g.root \in Ids \cup {NoObject}, g.buffer \in Seq(Ids),
         g.fault = h.fault
  PROVE  g \in Heap
<1>1. g.fault \in {"none", "assertion", "dangling"}
  BY DEF Heap
<1> QED BY <1>1 DEF Heap

\* UnlinkFromParent changes two links, one in each direction.
LEMMA UnlinkProperties ==
  ASSUME NEW h, LinkedBothWays(h), NEW o \in h.live
  PROVE  LET u == UnlinkFromParent(h, o)
         IN  /\ LinkedBothWays(u)
             /\ u.live = h.live /\ u.parent = [h.parent EXCEPT ![o] = NoObject]
             /\ u.selected = h.selected /\ u.root = h.root /\ u.buffer = h.buffer /\ u.fault = h.fault
             /\ \A p \in Ids : p # h.parent[o] => u.childs[p] = h.childs[p]
<1> DEFINE u == UnlinkFromParent(h, o)
           q == h.parent[o]
<1> h \in Heap /\ o \in Ids
  BY TypeOfTrees DEF LinkedBothWays
<1>1. CASE q = NoObject
  <2>1. u = h
    BY <1>1 DEF UnlinkFromParent
  <2>2. h.parent = [h.parent EXCEPT ![o] = NoObject]
    BY <1>1, TypeOfTrees
  <2> QED BY <2>1, <2>2
<1>2. CASE q # NoObject
  <2>1. q \in h.live /\ q \in Ids /\ o \in Kids(h, q)
    BY <1>2, TypeOfTrees
  <2>2. u = [h EXCEPT !.childs[q] = RemoveFirst(@, o), !.parent[o] = NoObject]
    BY <1>2, <2>1 DEF UnlinkFromParent, Linked, Kids
  <2> DEFINE c == RemoveFirst(h.childs[q], o)
  <2>3. c \in Seq(Ids) /\ IsInjective(c) /\ ToSet(c) = Kids(h, q) \ {o}
    BY <2>1, RemoveFirstProperties, TypeOfTrees DEF Kids
  <2>4. /\ u.live = h.live /\ u.parent = [h.parent EXCEPT ![o] = NoObject]
        /\ u.childs = [h.childs EXCEPT ![q] = c]
        /\ u.selected = h.selected /\ u.root = h.root /\ u.buffer = h.buffer /\ u.fault = h.fault
        /\ u = [live |-> u.live, parent |-> u.parent, childs |-> u.childs, selected |-> u.selected,
                root |-> u.root, buffer |-> u.buffer, fault |-> u.fault]
    BY <2>2 DEF Heap
  <2> HIDE DEF c, u
  <2>5. /\ \A p \in Ids : u.childs[p] = IF p = q THEN c ELSE h.childs[p]
        /\ \A p \in Ids : u.parent[p] = IF p = o THEN NoObject ELSE h.parent[p]
        /\ u.childs \in [Ids -> Seq(Ids)] /\ u.parent \in [Ids -> Ids \cup {NoObject}]
    BY <2>1, <2>3, <2>4, TypeOfTrees
  <2>6. u \in Heap
    BY <2>4, <2>5, TypeOfTrees, FieldsOfHeap
  <2>7. \A p \in Ids : IsInjective(u.childs[p])
    BY <2>3, <2>5, TypeOfTrees
  <2>8. \A p, x \in Ids : x \in Kids(h, p) <=> h.parent[x] = p
    BY TypeOfTrees
  <2>9. \A p, x \in Ids : x \in Kids(u, p) <=> u.parent[x] = p
    <3> SUFFICES ASSUME NEW p \in Ids, NEW x \in Ids PROVE x \in Kids(u, p) <=> u.parent[x] = p
      OBVIOUS
    <3>1. (x \in Kids(h, p) <=> h.parent[x] = p) /\ p # NoObject
      BY <2>8, NoObjectIsNone
    <3>2. u.parent[x] = IF x = o THEN NoObject ELSE h.parent[x]
      BY <2>5
    <3>3. CASE p = q
      <4>1. Kids(u, p) = Kids(h, p) \ {o}
        BY <3>3, <2>3, <2>5 DEF Kids
      <4> QED BY <4>1, <3>1, <3>2
    <3>4. CASE p # q
      <4>1. Kids(u, p) = Kids(h, p)
        BY <3>4, <2>5 DEF Kids
      <4>2. x = o => x \notin Kids(h, p)
        BY <3>1, <3>4
      <4> QED BY <4>1, <4>2, <3>1, <3>2
    <3> QED BY <3>3, <3>4
  <2>10. \A x \in Ids : u.parent[x] \in u.live \cup {NoObject} /\ (x \notin u.live => u.parent[x] = NoObject)
    BY <2>4, <2>5, TypeOfTrees
  <2>11. LinkedBothWays(u)
    BY <2>4, <2>6, <2>7, <2>9, <2>10, TypeOfTrees DEF LinkedBothWays
  <2> QED BY <2>4, <2>5, <2>11 DEF u
<1> QED BY <1>1, <1>2

\* Objects without a parent are linked below others.
LEMMA LinkProperties ==
  ASSUME NEW h, LinkedBothWays(h), NEW o \in Tops(h), NEW p \in h.live
  PROVE  LET u == LinkToParent(h, o, p)
         IN  /\ LinkedBothWays(u)
             /\ u.live = h.live /\ u.parent = [h.parent EXCEPT ![o] = p]
             /\ u.selected = h.selected /\ u.root = h.root /\ u.buffer = h.buffer /\ u.fault = h.fault
             /\ u.childs = [h.childs EXCEPT ![p] = Append(@, o)]
<1> DEFINE u == LinkToParent(h, o, p)
           c == Append(h.childs[p], o)
<1> h \in Heap /\ o \in Ids /\ p \in Ids /\ o \in h.live /\ h.parent[o] = NoObject
  BY TypeOfTrees DEF LinkedBothWays, Tops
<1>1. u = [h EXCEPT !.childs[p] = Append(@, o), !.parent[o] = p]
  BY NoObjectIsNone DEF LinkToParent, UnlinkFromParent
<1>2. c \in Seq(Ids) /\ IsInjective(c) /\ ToSet(c) = Kids(h, p) \cup {o}
  BY AppendElement, TypeOfTrees, NoObjectIsNone DEF Kids
<1>3. /\ u.live = h.live /\ u.parent = [h.parent EXCEPT ![o] = p]
      /\ u.childs = [h.childs EXCEPT ![p] = c]
      /\ u.selected = h.selected /\ u.root = h.root /\ u.buffer = h.buffer /\ u.fault = h.fault
      /\ u = [live |-> u.live, parent |-> u.parent, childs |-> u.childs, selected |-> u.selected,
              root |-> u.root, buffer |-> u.buffer, fault |-> u.fault]
  BY <1>1 DEF Heap
<1> HIDE DEF u
<1>4. u.childs = [h.childs EXCEPT ![p] = Append(@, o)]
  BY <1>3
<1> HIDE DEF c
<1>5. /\ \A q \in Ids : u.childs[q] = IF q = p THEN c ELSE h.childs[q]
      /\ \A x \in Ids : u.parent[x] = IF x = o THEN p ELSE h.parent[x]
      /\ u.childs \in [Ids -> Seq(Ids)] /\ u.parent \in [Ids -> Ids \cup {NoObject}]
  BY <1>2, <1>3, TypeOfTrees
<1>6. u \in Heap
  BY <1>3, <1>5, TypeOfTrees, FieldsOfHeap
<1>7. \A q \in Ids : IsInjective(u.childs[q])
  BY <1>2, <1>5, TypeOfTrees
<1>8. \A q, x \in Ids : x \in Kids(h, q) <=> h.parent[x] = q
  BY TypeOfTrees
<1>9. \A q, x \in Ids : x \in Kids(u, q) <=> u.parent[x] = q
  <2> SUFFICES ASSUME NEW q \in Ids, NEW x \in Ids PROVE x \in Kids(u, q) <=> u.parent[x] = q
    OBVIOUS
  <2>1. CASE q = p
    <3>1. Kids(u, q) = Kids(h, p) \cup {o}
      BY <2>1, <1>2, <1>5 DEF Kids
    <3> QED BY <3>1, <2>1, <1>5, <1>8
  <2>2. CASE q # p
    <3>1. Kids(u, q) = Kids(h, q)
      BY <2>2, <1>5 DEF Kids
    <3> QED BY <3>1, <2>2, <1>5, <1>8, NoObjectIsNone
  <2> QED BY <2>1, <2>2
<1>10. \A x \in Ids : u.parent[x] \in u.live \cup {NoObject} /\ (x \notin u.live => u.parent[x] = NoObject)
  BY <1>3, <1>5, TypeOfTrees
<1>11. LinkedBothWays(u)
  BY <1>3, <1>6, <1>7, <1>9, <1>10, TypeOfTrees DEF LinkedBothWays
<1> QED BY <1>3, <1>4, <1>11 DEF u

\* An unlinked object is the top of a tree of its own.
LEMMA UnlinkKeepsTrees ==
  ASSUME NEW h, Trees(h), NEW o \in h.live
  PROVE  LET u == UnlinkFromParent(h, o)
         IN  /\ Trees(u) /\ Tops(u) = Tops(h) \cup {o}
             /\ \A x \in h.live : h.parent[o] \notin Below(h, x) => Below(u, x) = Below(h, x)
<1> DEFINE u == UnlinkFromParent(h, o)
<1> LinkedBothWays(h) /\ Acyclic(h)
  BY DEF Trees
<1>1. /\ LinkedBothWays(u) /\ u.live = h.live /\ u.parent = [h.parent EXCEPT ![o] = NoObject]
      /\ \A p \in Ids : p # h.parent[o] => u.childs[p] = h.childs[p]
  BY UnlinkProperties
<1> HIDE DEF u
<1>2. \A x \in Ids : u.parent[x] = IF x = o THEN NoObject ELSE h.parent[x]
  BY <1>1, TypeOfTrees
<1>3. h.live \subseteq Ids
  BY TypeOfTrees
<1>4. Acyclic(u)
  <2> SUFFICES ASSUME NEW S \in SUBSET h.live, S # {} PROVE \E x \in S : u.parent[x] \notin S
    BY <1>1 DEF Acyclic
  <2>1. PICK x \in S : h.parent[x] \notin S
    BY DEF Acyclic
  <2> QED BY <2>1, <1>2, <1>3, NoObjectIsNone
<1>5. Tops(u) = Tops(h) \cup {o}
  BY <1>1, <1>2, <1>3 DEF Tops
<1>6. ASSUME NEW x \in h.live, h.parent[o] \notin Below(h, x) PROVE Below(u, x) = Below(h, x)
  <2>1. \A p \in Below(h, x) : Kids(u, p) = Kids(h, p)
    BY <1>1, <1>3, <1>6, BelowInTrees DEF Kids
  <2>2. u.childs \in [Ids -> Seq(Ids)] /\ h.childs \in [Ids -> Seq(Ids)] /\ x \in Ids
    BY <1>1, <1>3, TypeOfTrees
  <2> QED BY <2>1, <2>2, BelowIsLocal
<1> QED BY <1>1, <1>4, <1>5, <1>6 DEF Trees, u

\* A tree can be linked to any object outside of it.
LEMMA LinkKeepsTrees ==
  ASSUME NEW h, Trees(h), NEW o \in Tops(h), NEW p \in h.live \ Below(h, o)
  PROVE  LET u == LinkToParent(h, o, p)
         IN  /\ Trees(u) /\ Tops(u) = Tops(h) \ {o}
             /\ \A x \in h.live : p \notin Below(h, x) => Below(u, x) = Below(h, x)
<1> DEFINE u == LinkToParent(h, o, p)
<1> LinkedBothWays(h) /\ Acyclic(h)
  BY DEF Trees
<1>1. /\ LinkedBothWays(u) /\ u.live = h.live /\ u.parent = [h.parent EXCEPT ![o] = p]
      /\ u.childs = [h.childs EXCEPT ![p] = Append(@, o)]
  BY LinkProperties
<1> HIDE DEF u
<1>2. h.live \subseteq Ids /\ o \in h.live
  BY TypeOfTrees DEF Tops
<1>3. \A x \in Ids : u.parent[x] = IF x = o THEN p ELSE h.parent[x]
  BY <1>1, TypeOfTrees
<1>4. Acyclic(u)
  <2> SUFFICES ASSUME NEW S \in SUBSET h.live, S # {} PROVE \E x \in S : u.parent[x] \notin S
    BY <1>1 DEF Acyclic
  <2>1. CASE p \notin S
    <3>1. PICK x \in S : h.parent[x] \notin S
      BY DEF Acyclic
    <3> QED BY <2>1, <3>1, <1>2, <1>3
  <2>2. CASE p \in S
    <3> DEFINE T == S \ Below(h, o)
    <3>1. T # {} /\ T \in SUBSET h.live
      BY <2>2
    <3>2. PICK x \in T : h.parent[x] \notin T
      BY <3>1 DEF Acyclic
    <3>3. x # o /\ x \in Ids
      BY <1>2, BelowInTrees
    <3>4. h.parent[x] \notin Below(h, o)
      BY <3>3, <1>2, BelowInTrees
    <3> QED BY <3>2, <3>3, <3>4, <1>3
  <2> QED BY <2>1, <2>2
<1>5. Tops(u) = Tops(h) \ {o}
  BY <1>1, <1>2, <1>3, NoObjectIsNone DEF Tops
<1>6. ASSUME NEW x \in h.live, p \notin Below(h, x) PROVE Below(u, x) = Below(h, x)
  <2>1. \A q \in Below(h, x) : q # p /\ q \in Ids
    BY <1>2, <1>6, BelowInTrees
  <2>2. \A q \in Ids : q # p => u.childs[q] = h.childs[q]
    BY <1>1, TypeOfTrees
  <2>3. \A q \in Below(h, x) : Kids(u, q) = Kids(h, q)
    BY <2>1, <2>2 DEF Kids
  <2>4. h.childs \in [Ids -> Seq(Ids)] /\ u.childs \in [Ids -> Seq(Ids)] /\ x \in Ids
    BY <1>1, <1>2, TypeOfTrees
  <2> QED BY <2>3, <2>4, BelowIsLocal
<1> QED BY <1>1, <1>4, <1>5, <1>6 DEF Trees, u

\* An object taken from its owner has what was below it still below it.
LEMMA TakeOutProperties ==
  ASSUME NEW h, Trees(h), NEW o \in h.live, h.parent[o] = NoObject => o = h.root
  PROVE  LET t == TakeOut(h, o)
         IN  /\ Trees(t) /\ Tops(t) = Tops(h) \cup {o}
             /\ t.live = h.live /\ t.parent = [h.parent EXCEPT ![o] = NoObject]
             /\ t.selected = h.selected /\ t.buffer = h.buffer /\ t.fault = h.fault
             /\ t.root = IF h.parent[o] = NoObject THEN NoObject ELSE h.root
             /\ \A x \in h.live : h.parent[o] \notin Below(h, x) => Below(t, x) = Below(h, x)
             /\ Below(t, o) = Below(h, o)
<1> DEFINE t == TakeOut(h, o)
<1> LinkedBothWays(h) /\ h \in Heap
  BY DEF Trees, LinkedBothWays
<1>1. h.parent[o] \notin Below(h, o)
  <2> SUFFICES ASSUME h.parent[o] \in Below(h, o) PROVE FALSE
    OBVIOUS
  <2>1. h.parent[o] \in h.live /\ o \in Ids
    BY BelowInTrees, TypeOfTrees
  <2>2. o \in Below(h, h.parent[o])
    BY <2>1, BelowInTrees
  <2> QED BY <2>1, <2>2, BelowIsAntisymmetric, NoLoop
<1>2. CASE h.parent[o] = NoObject
  <2>1. t = [h EXCEPT !.root = NoObject]
    BY <1>2 DEF TakeOut
  <2>2. /\ t.live = h.live /\ t.parent = h.parent /\ t.childs = h.childs /\ t.selected = h.selected
        /\ t.buffer = h.buffer /\ t.fault = h.fault /\ t.root = NoObject /\ t \in Heap
    BY <2>1 DEF Heap
  <2> HIDE DEF t
  <2>3. Trees(t) /\ Tops(t) = Tops(h) \cup {o}
    BY <1>2, <2>2 DEF Trees, LinkedBothWays, Acyclic, Tops, Kids
  <2>4. \A x \in h.live : Below(t, x) = Below(h, x)
    BY <2>2 DEF Below
  <2>5. h.parent = [h.parent EXCEPT ![o] = NoObject]
    BY <1>2, TypeOfTrees
  <2> QED BY <1>2, <2>2, <2>3, <2>4, <2>5 DEF t
<1>3. CASE h.parent[o] # NoObject
  <2>1. t = UnlinkFromParent(h, o)
    BY <1>3 DEF TakeOut
  <2> HIDE DEF t
  <2>2. /\ Trees(t) /\ Tops(t) = Tops(h) \cup {o}
        /\ \A x \in h.live : h.parent[o] \notin Below(h, x) => Below(t, x) = Below(h, x)
    BY <2>1, UnlinkKeepsTrees
  <2>3. /\ t.live = h.live /\ t.parent = [h.parent EXCEPT ![o] = NoObject]
        /\ t.selected = h.selected /\ t.buffer = h.buffer /\ t.fault = h.fault /\ t.root = h.root
    BY <2>1, UnlinkProperties
  <2> QED BY <1>1, <1>3, <2>2, <2>3 DEF t
<1> QED BY <1>2, <1>3

\* Objects freed together with all that is below them.
LEMMA WithoutProperties ==
  ASSUME NEW h, Trees(h), NEW D \in SUBSET h.live,
         \A x \in D : h.parent[x] \in D \cup {NoObject},
         \A x \in h.live : h.parent[x] \in D => x \in D
  PROVE  LET w == Without(h, D)
         IN  /\ Trees(w) /\ Tops(w) = Tops(h) \ D
             /\ w.live = h.live \ D /\ w.selected = h.selected \ D
             /\ w.root = h.root /\ w.buffer = h.buffer /\ w.fault = h.fault
             /\ \A x \in w.live : w.parent[x] = h.parent[x] /\ w.childs[x] = h.childs[x]
             /\ \A x \in w.live : Below(w, x) = Below(h, x)
<1> DEFINE w == Without(h, D)
<1> LinkedBothWays(h) /\ h \in Heap /\ Acyclic(h)
  BY DEF Trees, LinkedBothWays
<1>1. /\ w.live = h.live \ D /\ w.selected = h.selected \ D
      /\ w.root = h.root /\ w.buffer = h.buffer /\ w.fault = h.fault
      /\ w.parent = [x \in Ids |-> IF x \in D THEN NoObject ELSE h.parent[x]]
      /\ w.childs = [x \in Ids |-> IF x \in D THEN <<>> ELSE h.childs[x]]
      /\ w = [live |-> w.live, parent |-> w.parent, childs |-> w.childs, selected |-> w.selected,
              root |-> w.root, buffer |-> w.buffer, fault |-> w.fault]
  <2> DEFINE P == [x \in Ids |-> IF x \in D THEN NoObject ELSE h.parent[x]]
             C == [x \in Ids |-> IF x \in D THEN <<>> ELSE h.childs[x]]
  <2> HIDE DEF P, C
  <2>1. w = [h EXCEPT !.live = @ \ D, !.parent = P, !.childs = C, !.selected = @ \ D]
    BY DEF Without, P, C
  <2>2. /\ w.live = h.live \ D /\ w.selected = h.selected \ D /\ w.parent = P /\ w.childs = C
        /\ w.root = h.root /\ w.buffer = h.buffer /\ w.fault = h.fault
        /\ w = [live |-> w.live, parent |-> w.parent, childs |-> w.childs, selected |-> w.selected,
                root |-> w.root, buffer |-> w.buffer, fault |-> w.fault]
    <3> HIDE DEF w
    <3> QED BY <2>1 DEF Heap
  <2> HIDE DEF w
  <2> QED BY <2>2 DEF P, C
<1> HIDE DEF w
<1>2. <<>> \in Seq(Ids) /\ IsInjective(<<>>) /\ ToSet(<<>>) = {}
  BY DEF IsInjective, ToSet
<1>3. w \in Heap
  <2>1. w.parent \in [Ids -> Ids \cup {NoObject}] /\ w.childs \in [Ids -> Seq(Ids)]
    BY <1>1, <1>2, TypeOfTrees
  <2> QED BY <1>1, <2>1, TypeOfTrees, FieldsOfHeap
<1>4. /\ \A x \in Ids : w.parent[x] = IF x \in D THEN NoObject ELSE h.parent[x]
      /\ \A x \in Ids : w.childs[x] = IF x \in D THEN <<>> ELSE h.childs[x]
  BY <1>1
<1>5. \A x \in Ids : IsInjective(w.childs[x])
  BY <1>2, <1>4, TypeOfTrees
<1>6. \A p, x \in Ids : x \in Kids(w, p) <=> w.parent[x] = p
  <2> SUFFICES ASSUME NEW p \in Ids, NEW x \in Ids PROVE x \in Kids(w, p) <=> w.parent[x] = p
    OBVIOUS
  <2>1. (x \in Kids(h, p) <=> h.parent[x] = p) /\ p # NoObject /\ (h.parent[x] = p => x \in h.live)
    BY TypeOfTrees, NoObjectIsNone
  <2>2. CASE p \in D
    <3>1. Kids(w, p) = {}
      BY <2>2, <1>2, <1>4 DEF Kids
    <3> QED BY <3>1, <2>1, <2>2, <1>4
  <2>3. CASE p \notin D
    <3>1. Kids(w, p) = Kids(h, p)
      BY <2>3, <1>4 DEF Kids
    <3> QED BY <3>1, <2>1, <2>3, <1>4
  <2> QED BY <2>2, <2>3
<1>7. \A x \in Ids : w.parent[x] \in w.live \cup {NoObject} /\ (x \notin w.live => w.parent[x] = NoObject)
  BY <1>1, <1>4, TypeOfTrees
<1>8. LinkedBothWays(w)
  BY <1>1, <1>3, <1>5, <1>6, <1>7, TypeOfTrees DEF LinkedBothWays
<1>9. w.live \subseteq Ids /\ \A x \in w.live : w.parent[x] = h.parent[x] /\ w.childs[x] = h.childs[x]
  BY <1>1, <1>4, TypeOfTrees
<1>10. Acyclic(w)
  BY <1>1, <1>9 DEF Acyclic
<1>11. Tops(w) = Tops(h) \ D
  BY <1>1, <1>9 DEF Tops
<1>12. ASSUME NEW x \in w.live PROVE Below(w, x) = Below(h, x)
  <2> DEFINE S == h.live \ D
  <2>1. x \in S /\ S \subseteq Ids
    BY <1>1, <1>9
  <2>2. \A p \in S : Kids(h, p) \subseteq S
    <3> SUFFICES ASSUME NEW p \in S, NEW y \in Kids(h, p) PROVE y \in S
      OBVIOUS
    <3>1. y \in h.live /\ h.parent[y] = p /\ p # NoObject
      BY <2>1, TypeOfTrees, NoObjectIsNone
    <3> QED BY <3>1
  <2> HIDE DEF S
  <2>3. Below(h, x) \subseteq S
    BY <2>1, <2>2, BelowIsLeast
  <2>4. \A p \in Below(h, x) : Kids(w, p) = Kids(h, p)
    BY <2>3, <1>1, <1>9 DEF Kids, S
  <2> QED BY <2>1, <2>4, <1>8, TypeOfTrees, BelowIsLocal
<1> QED BY <1>1, <1>8, <1>9, <1>10, <1>11, <1>12 DEF Trees, w

\* An object without a parent is freed with all that is below it.
LEMMA DestroyProperties ==
  ASSUME NEW h, Trees(h), NEW o \in Tops(h)
  PROVE  LET w == Destroy(h, o)
         IN  /\ Trees(w) /\ Tops(w) = Tops(h) \ {o}
             /\ w.live = h.live \ Below(h, o) /\ w.selected = h.selected \ Below(h, o)
             /\ w.root = h.root /\ w.buffer = h.buffer /\ w.fault = h.fault
             /\ \A x \in w.live : w.parent[x] = h.parent[x] /\ w.childs[x] = h.childs[x]
             /\ \A x \in w.live : Below(w, x) = Below(h, x)
<1> DEFINE D == Below(h, o)
<1> LinkedBothWays(h) /\ o \in h.live /\ h.parent[o] = NoObject
  BY DEF Trees, Tops
<1>1. /\ o \in D /\ D \subseteq h.live
      /\ \A x \in Ids : h.parent[x] \in D => x \in D
      /\ \A x \in D : x # o => h.parent[x] \in D
  BY BelowInTrees
<1>2. MetOnce(h, <<o>>)
  <2>1. IsInjective(<<o>>) /\ ToSet(<<o>>) = {o}
    BY DEF IsInjective, ToSet
  <2> QED BY <2>1, TopsAreMetOnce
<1>3. Destroy(h, o) = Without(h, D)
  BY <1>1, <1>2 DEF Destroy
<1>4. Tops(h) \ D = Tops(h) \ {o}
  BY <1>1, TopsAreApart
<1>5. /\ \A x \in D : h.parent[x] \in D \cup {NoObject}
      /\ \A x \in h.live : h.parent[x] \in D => x \in D
  BY <1>1, TypeOfTrees
<1> HIDE DEF D
<1>6. LET w == Without(h, D)
      IN  /\ Trees(w) /\ Tops(w) = Tops(h) \ D
          /\ w.live = h.live \ D /\ w.selected = h.selected \ D
          /\ w.root = h.root /\ w.buffer = h.buffer /\ w.fault = h.fault
          /\ \A x \in w.live : w.parent[x] = h.parent[x] /\ w.childs[x] = h.childs[x]
          /\ \A x \in w.live : Below(w, x) = Below(h, x)
  BY <1>1, <1>5, WithoutProperties
<1> QED BY <1>3, <1>4, <1>6 DEF D

\* DeleteObject frees what is below an object, no more and no less.
LEMMA DeleteProperties ==
  ASSUME NEW h, Trees(h), NEW o \in h.live, h.parent[o] = NoObject => o = h.root
  PROVE  LET d == DeleteObject(h, o)
         IN  /\ Trees(d) /\ Tops(d) = Tops(h) \ {o}
             /\ d.live = h.live \ Below(h, o) /\ d.selected = h.selected \ Below(h, o)
             /\ d.buffer = h.buffer /\ d.fault = h.fault
             /\ d.root = IF h.parent[o] = NoObject THEN NoObject ELSE h.root
             /\ \A x \in d.live : d.parent[x] = h.parent[x]
             /\ \A x \in d.live : h.parent[o] \notin Below(h, x) => Below(d, x) = Below(h, x)
<1> DEFINE t == TakeOut(h, o)
           d == Destroy(t, o)
<1> LinkedBothWays(h) /\ o \in Ids
  BY TypeOfTrees DEF Trees
<1>1. /\ Trees(t) /\ Tops(t) = Tops(h) \cup {o}
      /\ t.live = h.live /\ t.parent = [h.parent EXCEPT ![o] = NoObject]
      /\ t.selected = h.selected /\ t.buffer = h.buffer /\ t.fault = h.fault
      /\ t.root = IF h.parent[o] = NoObject THEN NoObject ELSE h.root
      /\ \A x \in h.live : h.parent[o] \notin Below(h, x) => Below(t, x) = Below(h, x)
      /\ Below(t, o) = Below(h, o)
  BY TakeOutProperties
<1> HIDE DEF t
<1>7. Trees(t) /\ o \in Tops(t)
  BY <1>1
<1>2. /\ Trees(d) /\ Tops(d) = Tops(t) \ {o}
      /\ d.live = t.live \ Below(t, o) /\ d.selected = t.selected \ Below(t, o)
      /\ d.root = t.root /\ d.buffer = t.buffer /\ d.fault = t.fault
      /\ \A x \in d.live : d.parent[x] = t.parent[x]
      /\ \A x \in d.live : Below(d, x) = Below(t, x)
  BY <1>7, DestroyProperties
<1>3. DeleteObject(h, o) = d
  BY DEF DeleteObject, t
<1> HIDE DEF d
<1>4. o \in Below(h, o) /\ d.live = h.live \ Below(h, o) /\ o \notin d.live /\ d.live \subseteq Ids
  BY <1>1, <1>2, BelowInTrees, TypeOfTrees
<1>5. \A x \in d.live : d.parent[x] = h.parent[x]
  BY <1>1, <1>2, <1>4, TypeOfTrees
<1>6. Tops(d) = Tops(h) \ {o}
  BY <1>1, <1>2
<1> QED BY <1>1, <1>2, <1>3, <1>4, <1>5, <1>6

-----------------------------------------------------------------------------
(* Loops *)

\* Induction up to a number, for sets.
LEMMA UpTo ==
  ASSUME NEW n \in Nat, NEW S, 0 \in S, \A i \in 1 .. n : i - 1 \in S => i \in S
  PROVE  \A i \in 0 .. n : i \in S
<1> SUFFICES ASSUME (0 .. n) \ S # {} PROVE FALSE
  OBVIOUS
<1>1. (0 .. n) \ S \subseteq Nat
  OBVIOUS
<1>2. PICK x \in (0 .. n) \ S : \A y \in (0 .. n) \ S : ~ (<<y, x>> \in OpToRel(<, Nat))
  BY <1>1, WFMin, NatLessThanWellFounded
<1>3. x # 0 /\ x \in 1 .. n /\ x - 1 \in 0 .. n /\ x - 1 \in Nat /\ x \in Nat /\ x - 1 < x
  OBVIOUS
<1>4. x - 1 \in S
  BY <1>2, <1>3 DEF OpToRel
<1> QED BY <1>3, <1>4

\* The first m rounds of a loop, each of which keeps what is in G[i - 1] within G[i].
Rounds(F, G, h, m) ==
  {f \in [0 .. m -> UNION {G[i] : i \in 0 .. m}] :
     /\ f[0] = h
     /\ \A i \in 1 .. m : f[i] = F[<<f[i - 1], i>>]
     /\ \A i \in 0 .. m : f[i] \in G[i]}

\* A loop whose rounds lead from each set of heaps to the next one can be run.
LEMMA LoopRuns ==
  ASSUME NEW n \in Nat, NEW G, NEW F, NEW h \in G[0],
         \A i \in 1 .. n : \A g \in G[i - 1] : F[<<g, i>>] \in G[i]
  PROVE  Rounds(F, G, h, n) # {}
<1> DEFINE S == {m \in 0 .. n : Rounds(F, G, h, m) # {}}
<1>1. 0 \in S
  <2> DEFINE f == [i \in 0 .. 0 |-> h]
  <2>1. f \in Rounds(F, G, h, 0)
    BY DEF Rounds
  <2> QED BY <2>1
<1>2. ASSUME NEW i \in 1 .. n, i - 1 \in S PROVE i \in S
  <2>1. PICK e : e \in Rounds(F, G, h, i - 1)
    BY <1>2
  <2>2. /\ e[0] = h
        /\ \A j \in 1 .. i - 1 : e[j] = F[<<e[j - 1], j>>]
        /\ \A j \in 0 .. i - 1 : e[j] \in G[j]
    BY <2>1 DEF Rounds
  <2> DEFINE f == [j \in 0 .. i |-> IF j = i THEN F[<<e[i - 1], i>>] ELSE e[j]]
  <2>3. \A j \in 0 .. i - 1 : f[j] = e[j]
    OBVIOUS
  <2>4. f[i] = F[<<e[i - 1], i>>] /\ i - 1 \in 0 .. i - 1
    OBVIOUS
  <2>5. f = [j \in 0 .. i |-> f[j]]
    OBVIOUS
  <2> HIDE DEF f
  <2>6. \A j \in 1 .. i : f[j] = F[<<f[j - 1], j>>]
    <3> SUFFICES ASSUME NEW j \in 1 .. i PROVE f[j] = F[<<f[j - 1], j>>]
      OBVIOUS
    <3>1. CASE j = i
      BY <3>1, <2>3, <2>4
    <3>2. CASE j # i
      <4>1. j \in 1 .. i - 1 /\ j \in 0 .. i - 1 /\ j - 1 \in 0 .. i - 1
        BY <3>2
      <4> QED BY <4>1, <2>2, <2>3
    <3> QED BY <3>1, <3>2
  <2>7. \A j \in 0 .. i : f[j] \in G[j]
    <3> SUFFICES ASSUME NEW j \in 0 .. i PROVE f[j] \in G[j]
      OBVIOUS
    <3>1. CASE j = i
      BY <3>1, <2>2, <2>4
    <3>2. CASE j # i
      <4>1. j \in 0 .. i - 1
        BY <3>2
      <4> QED BY <4>1, <2>2, <2>3
    <3> QED BY <3>1, <3>2
  <2>8. f \in [0 .. i -> UNION {G[j] : j \in 0 .. i}]
    BY <2>5, <2>7
  <2>9. f[0] = h
    BY <2>2, <2>3
  <2>10. f \in Rounds(F, G, h, i)
    BY <2>6, <2>7, <2>8, <2>9 DEF Rounds
  <2> QED BY <2>10
<1> HIDE DEF S
<1>3. n \in S
  BY <1>1, <1>2, UpTo
<1> QED BY <1>3 DEF S

\* The heaps that such a loop passes.
LEMMA RoundsFollow ==
  ASSUME NEW n \in Nat, NEW G, NEW F, NEW h, NEW f \in Rounds(F, G, h, n)
  PROVE  /\ f = [i \in 0 .. n |-> f[i]] /\ f[0] = h
         /\ \A i \in 1 .. n : f[i] = F[<<f[i - 1], i>>] /\ f[i - 1] \in G[i - 1]
<1>1. /\ f = [i \in 0 .. n |-> f[i]] /\ f[0] = h
      /\ \A i \in 1 .. n : f[i] = F[<<f[i - 1], i>>]
      /\ \A i \in 0 .. n : f[i] \in G[i]
  BY DEF Rounds
<1>2. \A i \in 1 .. n : i - 1 \in 0 .. n
  OBVIOUS
<1> QED BY <1>1, <1>2

\* A loop of Destroy.
LEMMA DestroyInTurn ==
  ASSUME NEW h, NEW s, NEW G, Len(s) \in Nat, h \in G[0],
         \A i \in 1 .. Len(s) : \A g \in G[i - 1] : Destroy(g, s[i]) \in G[i]
  PROVE  InTurn(Destroy, h, s) \in G[Len(s)]
<1> DEFINE n == Len(s)
           All == UNION {G[i] : i \in 0 .. n}
           F == [q \in All \X (1 .. n) |-> Destroy(q[1], s[q[2]])]
           after[i \in 0 .. n] == IF i = 0 THEN h ELSE Destroy(after[i - 1], s[i])
           S == {i \in 0 .. n : after[i] \in G[i]}
<1> HIDE DEF n
<1>0. n \in Nat
  BY DEF n
<1>1. ASSUME NEW i \in 1 .. n, NEW g \in G[i - 1]
      PROVE  F[<<g, i>>] = Destroy(g, s[i]) /\ F[<<g, i>>] \in G[i]
  <2>1. <<g, i>> \in All \X (1 .. n)
    BY <1>0
  <2> QED BY <2>1 DEF n
<1> HIDE DEF F
<1>2. PICK f \in Rounds(F, G, h, n) : TRUE
  <2>1. \A i \in 1 .. n : \A g \in G[i - 1] : F[<<g, i>>] \in G[i]
    BY <1>1
  <2>2. Rounds(F, G, h, n) # {}
    BY <2>1, <1>0, LoopRuns
  <2> QED BY <2>2
<1>3. f = [i \in 0 .. n |-> IF i = 0 THEN h ELSE Destroy(f[i - 1], s[i])]
  <2> DEFINE e == [i \in 0 .. n |-> IF i = 0 THEN h ELSE Destroy(f[i - 1], s[i])]
  <2>0. /\ f = [i \in 0 .. n |-> f[i]] /\ f[0] = h
        /\ \A i \in 1 .. n : f[i] = F[<<f[i - 1], i>>] /\ f[i - 1] \in G[i - 1]
    BY <1>0, RoundsFollow
  <2>1. \A i \in 1 .. n : f[i] = Destroy(f[i - 1], s[i])
    BY <1>1, <2>0
  <2>2. /\ e = [i \in 0 .. n |-> e[i]]
        /\ \A i \in 0 .. n : e[i] = IF i = 0 THEN h ELSE Destroy(f[i - 1], s[i])
    OBVIOUS
  <2> HIDE DEF e
  <2>4. \A i \in 0 .. n : i = 0 \/ i \in 1 .. n
    BY <1>0
  <2>5. \A i \in 0 .. n : e[i] = f[i]
    BY <2>0, <2>1, <2>2, <2>4
  <2>3. e = f
    BY <2>0, <2>2, <2>5
  <2> QED BY <2>3 DEF e
<1>4. after = [i \in 0 .. n |-> IF i = 0 THEN h ELSE Destroy(after[i - 1], s[i])]
  BY <1>3, Zenon DEF after
<1> HIDE DEF after
<1>5. after[0] = h /\ \A i \in 1 .. n : after[i] = Destroy(after[i - 1], s[i])
  BY <1>0, <1>4
<1>6. 0 \in S /\ \A i \in 1 .. n : i - 1 \in S => i \in S
  BY <1>0, <1>5 DEF n
<1> HIDE DEF S
<1>7. n \in S
  <2>1. n \in Nat /\ n \in 0 .. n
    BY <1>0
  <2>2. \A i \in 0 .. n : i \in S
    BY <2>1, <1>6, UpTo
  <2> QED BY <2>1, <2>2
<1> QED BY <1>7 DEF S, n, after, InTurn

\* A loop of DeleteObject.
LEMMA DeleteInTurn ==
  ASSUME NEW h, NEW s, NEW G, Len(s) \in Nat, h \in G[0],
         \A i \in 1 .. Len(s) : \A g \in G[i - 1] : DeleteObject(g, s[i]) \in G[i]
  PROVE  InTurn(DeleteObject, h, s) \in G[Len(s)]
<1> DEFINE n == Len(s)
           All == UNION {G[i] : i \in 0 .. n}
           F == [q \in All \X (1 .. n) |-> DeleteObject(q[1], s[q[2]])]
           after[i \in 0 .. n] == IF i = 0 THEN h ELSE DeleteObject(after[i - 1], s[i])
           S == {i \in 0 .. n : after[i] \in G[i]}
<1> HIDE DEF n
<1>0. n \in Nat
  BY DEF n
<1>1. ASSUME NEW i \in 1 .. n, NEW g \in G[i - 1]
      PROVE  F[<<g, i>>] = DeleteObject(g, s[i]) /\ F[<<g, i>>] \in G[i]
  <2>1. <<g, i>> \in All \X (1 .. n)
    BY <1>0
  <2> QED BY <2>1 DEF n
<1> HIDE DEF F
<1>2. PICK f \in Rounds(F, G, h, n) : TRUE
  <2>1. \A i \in 1 .. n : \A g \in G[i - 1] : F[<<g, i>>] \in G[i]
    BY <1>1
  <2>2. Rounds(F, G, h, n) # {}
    BY <2>1, <1>0, LoopRuns
  <2> QED BY <2>2
<1>3. f = [i \in 0 .. n |-> IF i = 0 THEN h ELSE DeleteObject(f[i - 1], s[i])]
  <2> DEFINE e == [i \in 0 .. n |-> IF i = 0 THEN h ELSE DeleteObject(f[i - 1], s[i])]
  <2>0. /\ f = [i \in 0 .. n |-> f[i]] /\ f[0] = h
        /\ \A i \in 1 .. n : f[i] = F[<<f[i - 1], i>>] /\ f[i - 1] \in G[i - 1]
    BY <1>0, RoundsFollow
  <2>1. \A i \in 1 .. n : f[i] = DeleteObject(f[i - 1], s[i])
    BY <1>1, <2>0
  <2>2. /\ e = [i \in 0 .. n |-> e[i]]
        /\ \A i \in 0 .. n : e[i] = IF i = 0 THEN h ELSE DeleteObject(f[i - 1], s[i])
    OBVIOUS
  <2> HIDE DEF e
  <2>4. \A i \in 0 .. n : i = 0 \/ i \in 1 .. n
    BY <1>0
  <2>5. \A i \in 0 .. n : e[i] = f[i]
    BY <2>0, <2>1, <2>2, <2>4
  <2>3. e = f
    BY <2>0, <2>2, <2>5
  <2> QED BY <2>3 DEF e
<1>4. after = [i \in 0 .. n |-> IF i = 0 THEN h ELSE DeleteObject(after[i - 1], s[i])]
  BY <1>3, Zenon DEF after
<1> HIDE DEF after
<1>5. after[0] = h /\ \A i \in 1 .. n : after[i] = DeleteObject(after[i - 1], s[i])
  BY <1>0, <1>4
<1>6. 0 \in S /\ \A i \in 1 .. n : i - 1 \in S => i \in S
  BY <1>0, <1>5 DEF n
<1> HIDE DEF S
<1>7. n \in S
  <2>1. n \in Nat /\ n \in 0 .. n
    BY <1>0
  <2>2. \A i \in 0 .. n : i \in S
    BY <2>1, <1>6, UpTo
  <2> QED BY <2>1, <2>2
<1> QED BY <1>7 DEF S, n, after, InTurn

\* A loop of PushClone.
LEMMA CloneInTurn ==
  ASSUME NEW h, NEW s, NEW G, Len(s) \in Nat, h \in G[0],
         \A i \in 1 .. Len(s) : \A g \in G[i - 1] : PushClone(g, s[i]) \in G[i]
  PROVE  InTurn(PushClone, h, s) \in G[Len(s)]
<1> DEFINE n == Len(s)
           All == UNION {G[i] : i \in 0 .. n}
           F == [q \in All \X (1 .. n) |-> PushClone(q[1], s[q[2]])]
           after[i \in 0 .. n] == IF i = 0 THEN h ELSE PushClone(after[i - 1], s[i])
           S == {i \in 0 .. n : after[i] \in G[i]}
<1> HIDE DEF n
<1>0. n \in Nat
  BY DEF n
<1>1. ASSUME NEW i \in 1 .. n, NEW g \in G[i - 1]
      PROVE  F[<<g, i>>] = PushClone(g, s[i]) /\ F[<<g, i>>] \in G[i]
  <2>1. <<g, i>> \in All \X (1 .. n)
    BY <1>0
  <2> QED BY <2>1 DEF n
<1> HIDE DEF F
<1>2. PICK f \in Rounds(F, G, h, n) : TRUE
  <2>1. \A i \in 1 .. n : \A g \in G[i - 1] : F[<<g, i>>] \in G[i]
    BY <1>1
  <2>2. Rounds(F, G, h, n) # {}
    BY <2>1, <1>0, LoopRuns
  <2> QED BY <2>2
<1>3. f = [i \in 0 .. n |-> IF i = 0 THEN h ELSE PushClone(f[i - 1], s[i])]
  <2> DEFINE e == [i \in 0 .. n |-> IF i = 0 THEN h ELSE PushClone(f[i - 1], s[i])]
  <2>0. /\ f = [i \in 0 .. n |-> f[i]] /\ f[0] = h
        /\ \A i \in 1 .. n : f[i] = F[<<f[i - 1], i>>] /\ f[i - 1] \in G[i - 1]
    BY <1>0, RoundsFollow
  <2>1. \A i \in 1 .. n : f[i] = PushClone(f[i - 1], s[i])
    BY <1>1, <2>0
  <2>2. /\ e = [i \in 0 .. n |-> e[i]]
        /\ \A i \in 0 .. n : e[i] = IF i = 0 THEN h ELSE PushClone(f[i - 1], s[i])
    OBVIOUS
  <2> HIDE DEF e
  <2>4. \A i \in 0 .. n : i = 0 \/ i \in 1 .. n
    BY <1>0
  <2>5. \A i \in 0 .. n : e[i] = f[i]
    BY <2>0, <2>1, <2>2, <2>4
  <2>3. e = f
    BY <2>0, <2>2, <2>5
  <2> QED BY <2>3 DEF e
<1>4. after = [i \in 0 .. n |-> IF i = 0 THEN h ELSE PushClone(after[i - 1], s[i])]
  BY <1>3, Zenon DEF after
<1> HIDE DEF after
<1>5. after[0] = h /\ \A i \in 1 .. n : after[i] = PushClone(after[i - 1], s[i])
  BY <1>0, <1>4
<1>6. 0 \in S /\ \A i \in 1 .. n : i - 1 \in S => i \in S
  BY <1>0, <1>5 DEF n
<1> HIDE DEF S
<1>7. n \in S
  <2>1. n \in Nat /\ n \in 0 .. n
    BY <1>0
  <2>2. \A i \in 0 .. n : i \in S
    BY <2>1, <1>6, UpTo
  <2> QED BY <2>1, <2>2
<1> QED BY <1>7 DEF S, n, after, InTurn

\* The loop of Cut.
LEMMA CutInTurn ==
  ASSUME NEW h, NEW s, NEW G, Len(s) \in Nat, h \in G[0],
         \A i \in 1 .. Len(s) : \A g \in G[i - 1] : CutRound(g, s[i]) \in G[i]
  PROVE  InTurn(CutRound, h, s) \in G[Len(s)]
<1> DEFINE n == Len(s)
           All == UNION {G[i] : i \in 0 .. n}
           F == [q \in All \X (1 .. n) |-> CutRound(q[1], s[q[2]])]
           after[i \in 0 .. n] == IF i = 0 THEN h ELSE CutRound(after[i - 1], s[i])
           S == {i \in 0 .. n : after[i] \in G[i]}
<1> HIDE DEF n
<1>0. n \in Nat
  BY DEF n
<1>1. ASSUME NEW i \in 1 .. n, NEW g \in G[i - 1]
      PROVE  F[<<g, i>>] = CutRound(g, s[i]) /\ F[<<g, i>>] \in G[i]
  <2>1. <<g, i>> \in All \X (1 .. n)
    BY <1>0
  <2> QED BY <2>1 DEF n
<1> HIDE DEF F
<1>2. PICK f \in Rounds(F, G, h, n) : TRUE
  <2>1. \A i \in 1 .. n : \A g \in G[i - 1] : F[<<g, i>>] \in G[i]
    BY <1>1
  <2>2. Rounds(F, G, h, n) # {}
    BY <2>1, <1>0, LoopRuns
  <2> QED BY <2>2
<1>3. f = [i \in 0 .. n |-> IF i = 0 THEN h ELSE CutRound(f[i - 1], s[i])]
  <2> DEFINE e == [i \in 0 .. n |-> IF i = 0 THEN h ELSE CutRound(f[i - 1], s[i])]
  <2>0. /\ f = [i \in 0 .. n |-> f[i]] /\ f[0] = h
        /\ \A i \in 1 .. n : f[i] = F[<<f[i - 1], i>>] /\ f[i - 1] \in G[i - 1]
    BY <1>0, RoundsFollow
  <2>1. \A i \in 1 .. n : f[i] = CutRound(f[i - 1], s[i])
    BY <1>1, <2>0
  <2>2. /\ e = [i \in 0 .. n |-> e[i]]
        /\ \A i \in 0 .. n : e[i] = IF i = 0 THEN h ELSE CutRound(f[i - 1], s[i])
    OBVIOUS
  <2> HIDE DEF e
  <2>4. \A i \in 0 .. n : i = 0 \/ i \in 1 .. n
    BY <1>0
  <2>5. \A i \in 0 .. n : e[i] = f[i]
    BY <2>0, <2>1, <2>2, <2>4
  <2>3. e = f
    BY <2>0, <2>2, <2>5
  <2> QED BY <2>3 DEF e
<1>4. after = [i \in 0 .. n |-> IF i = 0 THEN h ELSE CutRound(after[i - 1], s[i])]
  BY <1>3, Zenon DEF after
<1> HIDE DEF after
<1>5. after[0] = h /\ \A i \in 1 .. n : after[i] = CutRound(after[i - 1], s[i])
  BY <1>0, <1>4
<1>6. 0 \in S /\ \A i \in 1 .. n : i - 1 \in S => i \in S
  BY <1>0, <1>5 DEF n
<1> HIDE DEF S
<1>7. n \in S
  <2>1. n \in Nat /\ n \in 0 .. n
    BY <1>0
  <2>2. \A i \in 0 .. n : i \in S
    BY <2>1, <1>6, UpTo
  <2> QED BY <2>1, <2>2
<1> QED BY <1>7 DEF S, n, after, InTurn

\* The loop of Object / Merge.
LEMMA MergeInTurn ==
  ASSUME NEW h, NEW s, NEW G, Len(s) \in Nat, h \in G[0],
         \A i \in 1 .. Len(s) : \A g \in G[i - 1] : MergeNext(g, s[i]) \in G[i]
  PROVE  InTurn(MergeNext, h, s) \in G[Len(s)]
<1> DEFINE n == Len(s)
           All == UNION {G[i] : i \in 0 .. n}
           F == [q \in All \X (1 .. n) |-> MergeNext(q[1], s[q[2]])]
           after[i \in 0 .. n] == IF i = 0 THEN h ELSE MergeNext(after[i - 1], s[i])
           S == {i \in 0 .. n : after[i] \in G[i]}
<1> HIDE DEF n
<1>0. n \in Nat
  BY DEF n
<1>1. ASSUME NEW i \in 1 .. n, NEW g \in G[i - 1]
      PROVE  F[<<g, i>>] = MergeNext(g, s[i]) /\ F[<<g, i>>] \in G[i]
  <2>1. <<g, i>> \in All \X (1 .. n)
    BY <1>0
  <2> QED BY <2>1 DEF n
<1> HIDE DEF F
<1>2. PICK f \in Rounds(F, G, h, n) : TRUE
  <2>1. \A i \in 1 .. n : \A g \in G[i - 1] : F[<<g, i>>] \in G[i]
    BY <1>1
  <2>2. Rounds(F, G, h, n) # {}
    BY <2>1, <1>0, LoopRuns
  <2> QED BY <2>2
<1>3. f = [i \in 0 .. n |-> IF i = 0 THEN h ELSE MergeNext(f[i - 1], s[i])]
  <2> DEFINE e == [i \in 0 .. n |-> IF i = 0 THEN h ELSE MergeNext(f[i - 1], s[i])]
  <2>0. /\ f = [i \in 0 .. n |-> f[i]] /\ f[0] = h
        /\ \A i \in 1 .. n : f[i] = F[<<f[i - 1], i>>] /\ f[i - 1] \in G[i - 1]
    BY <1>0, RoundsFollow
  <2>1. \A i \in 1 .. n : f[i] = MergeNext(f[i - 1], s[i])
    BY <1>1, <2>0
  <2>2. /\ e = [i \in 0 .. n |-> e[i]]
        /\ \A i \in 0 .. n : e[i] = IF i = 0 THEN h ELSE MergeNext(f[i - 1], s[i])
    OBVIOUS
  <2> HIDE DEF e
  <2>4. \A i \in 0 .. n : i = 0 \/ i \in 1 .. n
    BY <1>0
  <2>5. \A i \in 0 .. n : e[i] = f[i]
    BY <2>0, <2>1, <2>2, <2>4
  <2>3. e = f
    BY <2>0, <2>2, <2>5
  <2> QED BY <2>3 DEF e
<1>4. after = [i \in 0 .. n |-> IF i = 0 THEN h ELSE MergeNext(after[i - 1], s[i])]
  BY <1>3, Zenon DEF after
<1> HIDE DEF after
<1>5. after[0] = h /\ \A i \in 1 .. n : after[i] = MergeNext(after[i - 1], s[i])
  BY <1>0, <1>4
<1>6. 0 \in S /\ \A i \in 1 .. n : i - 1 \in S => i \in S
  BY <1>0, <1>5 DEF n
<1> HIDE DEF S
<1>7. n \in S
  <2>1. n \in Nat /\ n \in 0 .. n
    BY <1>0
  <2>2. \A i \in 0 .. n : i \in S
    BY <2>1, <1>6, UpTo
  <2> QED BY <2>1, <2>2
<1> QED BY <1>7 DEF S, n, after, InTurn

\* One round of a paste.
PasteOne(where, g, o) ==
  LinkToParent(Build(g, ShapeOf(g, o)), Top(g, ShapeOf(g, o)), where)

\* The loop of Paste.
LEMMA PasteInTurn ==
  ASSUME NEW h, NEW s, s = h.buffer, NEW where, NEW G, Len(s) \in Nat, h \in G[0],
         \A i \in 1 .. Len(s) : \A g \in G[i - 1] : PasteOne(where, g, s[i]) \in G[i]
  PROVE  PasteInto(h, where) \in G[Len(s)]
<1> DEFINE n == Len(s)
           All == UNION {G[i] : i \in 0 .. n}
           F == [q \in All \X (1 .. n) |-> PasteOne(where, q[1], s[q[2]])]
           after[i \in 0 .. n] == IF i = 0 THEN h ELSE PasteOne(where, after[i - 1], s[i])
           S == {i \in 0 .. n : after[i] \in G[i]}
<1> HIDE DEF n
<1>0. n \in Nat
  BY DEF n
<1>1. ASSUME NEW i \in 1 .. n, NEW g \in G[i - 1]
      PROVE  F[<<g, i>>] = PasteOne(where, g, s[i]) /\ F[<<g, i>>] \in G[i]
  <2>1. <<g, i>> \in All \X (1 .. n)
    BY <1>0
  <2> QED BY <2>1 DEF n
<1> HIDE DEF F
<1>2. PICK f \in Rounds(F, G, h, n) : TRUE
  <2>1. \A i \in 1 .. n : \A g \in G[i - 1] : F[<<g, i>>] \in G[i]
    BY <1>1
  <2>2. Rounds(F, G, h, n) # {}
    BY <2>1, <1>0, LoopRuns
  <2> QED BY <2>2
<1>3. f = [i \in 0 .. n |-> IF i = 0 THEN h ELSE PasteOne(where, f[i - 1], s[i])]
  <2> DEFINE e == [i \in 0 .. n |-> IF i = 0 THEN h ELSE PasteOne(where, f[i - 1], s[i])]
  <2>0. /\ f = [i \in 0 .. n |-> f[i]] /\ f[0] = h
        /\ \A i \in 1 .. n : f[i] = F[<<f[i - 1], i>>] /\ f[i - 1] \in G[i - 1]
    BY <1>0, RoundsFollow
  <2>1. \A i \in 1 .. n : f[i] = PasteOne(where, f[i - 1], s[i])
    BY <1>1, <2>0
  <2>2. /\ e = [i \in 0 .. n |-> e[i]]
        /\ \A i \in 0 .. n : e[i] = IF i = 0 THEN h ELSE PasteOne(where, f[i - 1], s[i])
    OBVIOUS
  <2> HIDE DEF e
  <2>4. \A i \in 0 .. n : i = 0 \/ i \in 1 .. n
    BY <1>0
  <2>5. \A i \in 0 .. n : e[i] = f[i]
    BY <2>0, <2>1, <2>2, <2>4
  <2>3. e = f
    BY <2>0, <2>2, <2>5
  <2> QED BY <2>3 DEF e
<1>4. after = [i \in 0 .. n |-> IF i = 0 THEN h ELSE PasteOne(where, after[i - 1], s[i])]
  BY <1>3, Zenon DEF after
<1> HIDE DEF after
<1>5. after[0] = h /\ \A i \in 1 .. n : after[i] = PasteOne(where, after[i - 1], s[i])
  BY <1>0, <1>4
<1>6. 0 \in S /\ \A i \in 1 .. n : i - 1 \in S => i \in S
  BY <1>0, <1>5 DEF n
<1> HIDE DEF S, All
<1>7. n \in S
  <2>1. n \in Nat /\ n \in 0 .. n
    BY <1>0
  <2>2. \A i \in 0 .. n : i \in S
    BY <2>1, <1>6, UpTo
  <2> QED BY <2>1, <2>2
<1>8. PasteInto(h, where) = after[n]
  BY DEF n, after, InTurn, PasteInto, PasteOne
<1> HIDE DEF n
<1> QED BY <1>7, <1>8 DEF S, n

\* The elements of a list that a loop has done.
Done(s, i) == {s[k] : k \in 1 .. i}

\* What was done in the first rounds of a loop.
LEMMA DoneProperties ==
  ASSUME NEW S, NEW s \in Seq(S)
  PROVE  /\ Done(s, 0) = {} /\ Done(s, Len(s)) = ToSet(s)
         /\ \A i \in 1 .. Len(s) : /\ s[i] \in ToSet(s) /\ Done(s, i) = Done(s, i - 1) \cup {s[i]}
                                   /\ IsInjective(s) => s[i] \notin Done(s, i - 1)
<1>1. Len(s) \in Nat /\ \A e : e \in ToSet(s) <=> \E i \in 1 .. Len(s) : s[i] = e
  BY LenProperties, ElementsOfSeq
<1>2. Done(s, 0) = {} /\ Done(s, Len(s)) = ToSet(s)
  BY <1>1 DEF Done
<1>3. ASSUME NEW i \in 1 .. Len(s)
      PROVE  /\ s[i] \in ToSet(s) /\ Done(s, i) = Done(s, i - 1) \cup {s[i]}
             /\ IsInjective(s) => s[i] \notin Done(s, i - 1)
  <2>1. 1 .. i = (1 .. i - 1) \cup {i} /\ 1 .. i - 1 \subseteq 1 .. Len(s)
    BY <1>1
  <2>2. IsInjective(s) => s[i] \notin Done(s, i - 1)
    BY <1>1, InjectiveSeq DEF Done
  <2>3. Done(s, i) = Done(s, i - 1) \cup {s[i]}
    BY <2>1 DEF Done
  <2> QED BY <1>1, <2>2, <2>3
<1> QED BY <1>2, <1>3

\* h without the buffered objects B.
Cleared(h, B) ==
  LET gone == UNION {Below(h, o) : o \in B}
  IN  {g \in Heap :
         /\ Trees(g) /\ Tops(g) = Tops(h) \ B
         /\ g.live = h.live \ gone /\ g.selected = h.selected \ gone
         /\ g.root = h.root /\ g.buffer = h.buffer /\ g.fault = h.fault
         /\ \A x \in g.live : /\ g.parent[x] = h.parent[x] /\ g.childs[x] = h.childs[x]
                              /\ Below(g, x) = Below(h, x)}

\* Freeing one more object of the copy buffer.
LEMMA ClearNext ==
  ASSUME NEW h, Forest(h), NEW B \in SUBSET ToSet(h.buffer), NEW o \in ToSet(h.buffer) \ B,
         NEW g \in Cleared(h, B)
  PROVE  Destroy(g, o) \in Cleared(h, B \cup {o})
<1> DEFINE w == Destroy(g, o)
           gone == UNION {Below(h, x) : x \in B}
           more == UNION {Below(h, x) : x \in B \cup {o}}
<1>1. /\ Trees(g) /\ Tops(g) = Tops(h) \ B
      /\ g.live = h.live \ gone /\ g.selected = h.selected \ gone
      /\ g.root = h.root /\ g.buffer = h.buffer /\ g.fault = h.fault
      /\ \A x \in g.live : /\ g.parent[x] = h.parent[x] /\ g.childs[x] = h.childs[x]
                           /\ Below(g, x) = Below(h, x)
  BY DEF Cleared
<1>2. o \in Tops(g) /\ o \in g.live
  BY <1>1 DEF Forest, Tops
<1>3. /\ Trees(w) /\ Tops(w) = Tops(g) \ {o}
      /\ w.live = g.live \ Below(g, o) /\ w.selected = g.selected \ Below(g, o)
      /\ w.root = g.root /\ w.buffer = g.buffer /\ w.fault = g.fault
      /\ \A x \in w.live : w.parent[x] = g.parent[x] /\ w.childs[x] = g.childs[x]
      /\ \A x \in w.live : Below(w, x) = Below(g, x)
  BY <1>1, <1>2, DestroyProperties
<1>4. more = gone \cup Below(h, o)
  OBVIOUS
<1>5. w \in Heap
  BY <1>3 DEF Trees, LinkedBothWays
<1>6. Below(g, o) = Below(h, o)
  BY <1>1, <1>2
<1> HIDE DEF w, gone, more
<1>7. /\ Tops(w) = Tops(h) \ (B \cup {o})
      /\ w.live = h.live \ more /\ w.selected = h.selected \ more
  BY <1>1, <1>3, <1>4, <1>6
<1>8. \A x \in w.live : /\ w.parent[x] = h.parent[x] /\ w.childs[x] = h.childs[x]
                        /\ Below(w, x) = Below(h, x)
  BY <1>1, <1>3
<1>9. w.root = h.root /\ w.buffer = h.buffer /\ w.fault = h.fault
  BY <1>1, <1>3
<1> QED BY <1>3, <1>5, <1>7, <1>8, <1>9 DEF Cleared, w, more

\* Clearing the copy buffer leaves the model as it is.
LEMMA ClearBufferProperties ==
  ASSUME NEW h, Forest(h)
  PROVE  LET c == ClearBuffer(h)
         IN  /\ Forest(c) /\ c.live = InModel(h) /\ c.selected = h.selected \cap InModel(h)
             /\ c.root = h.root /\ c.buffer = <<>>
             /\ InModel(c) = InModel(h)
             /\ \A x \in c.live : c.parent[x] = h.parent[x] /\ Below(c, x) = Below(h, x)
<1> DEFINE s == h.buffer
           G == [i \in 0 .. Len(s) |-> Cleared(h, Done(s, i))]
           d == InTurn(Destroy, h, s)
           c == ClearBuffer(h)
<1> Trees(h) /\ LinkedBothWays(h) /\ h \in Heap
  BY DEF Forest, Trees, LinkedBothWays
<1>1. s \in Seq(Ids) /\ Len(s) \in Nat /\ IsInjective(s)
  BY TypeOfTrees, LenProperties DEF Forest
<1>2. h \in Cleared(h, {})
  BY DEF Cleared
<1> HIDE DEF s
<1>3. h \in G[0]
  <2>1. Done(s, 0) = {}
    BY <1>1, DoneProperties
  <2>2. G[0] = Cleared(h, Done(s, 0))
    BY <1>1
  <2> QED BY <1>2, <2>1, <2>2
<1>4. ASSUME NEW i \in 1 .. Len(s), NEW g \in G[i - 1] PROVE Destroy(g, s[i]) \in G[i]
  <2>1. i - 1 \in 0 .. Len(s) /\ i \in 0 .. Len(s)
    BY <1>1
  <2>2. g \in Cleared(h, Done(s, i - 1))
    BY <1>4, <2>1
  <2>3. Done(s, i - 1) \subseteq ToSet(s)
    BY <1>1, <2>1, ElementsOfSeq DEF Done
  <2>4. s[i] \in ToSet(s) \ Done(s, i - 1) /\ Done(s, i) = Done(s, i - 1) \cup {s[i]}
    BY <1>1, DoneProperties
  <2>5. Destroy(g, s[i]) \in Cleared(h, Done(s, i - 1) \cup {s[i]})
    BY <2>2, <2>3, <2>4, ClearNext DEF s
  <2> QED BY <2>1, <2>4, <2>5
<1>5. d \in Cleared(h, ToSet(s))
  <2> HIDE DEF G
  <2>1. d \in G[Len(s)]
    BY <1>1, <1>3, <1>4, DestroyInTurn
  <2>2. G[Len(s)] = Cleared(h, ToSet(s))
    BY <1>1, DoneProperties DEF G
  <2> QED BY <2>1, <2>2
<1> HIDE DEF d, G
<1>6. InModel(h) = h.live \ UNION {Below(h, o) : o \in ToSet(s)}
  BY OwnersOfForest DEF s
<1>7. /\ Trees(d) /\ Tops(d) = Tops(h) \ ToSet(s)
      /\ d.live = InModel(h) /\ d.selected = h.selected \ UNION {Below(h, o) : o \in ToSet(s)}
      /\ d.root = h.root /\ d.fault = h.fault /\ d \in Heap
      /\ \A x \in d.live : d.parent[x] = h.parent[x] /\ Below(d, x) = Below(h, x)
  BY <1>5, <1>6 DEF Cleared
<1>8. c = [d EXCEPT !.buffer = <<>>]
  BY DEF ClearBuffer, d, s
<1>9. <<>> \in Seq(Ids) /\ IsInjective(<<>>) /\ ToSet(<<>>) = {}
  BY DEF IsInjective, ToSet
<1> HIDE DEF c
<1>10. /\ c.live = d.live /\ c.parent = d.parent /\ c.childs = d.childs /\ c.selected = d.selected
       /\ c.root = d.root /\ c.fault = d.fault /\ c.buffer = <<>> /\ c \in Heap
  BY <1>7, <1>8, <1>9 DEF Heap
<1>11. Trees(c) /\ Tops(c) = Tops(d) /\ \A x \in c.live : Below(c, x) = Below(d, x)
  <2>1. \A x \in c.live : Below(c, x) = Below(d, x)
    BY <1>10 DEF Below
  <2> QED BY <2>1, <1>7, <1>10 DEF Trees, LinkedBothWays, Acyclic, Tops, Kids
<1>12. Tops(c) = {h.root} \ {NoObject}
  BY <1>7, <1>11 DEF Forest, s
<1>13. Forest(c)
  BY <1>7, <1>9, <1>10, <1>11, <1>12 DEF Forest
<1>14. c.selected = h.selected \cap InModel(h)
  <2>1. h.selected \subseteq h.live
    BY TypeOfTrees
  <2> QED BY <2>1, <1>6, <1>7, <1>10
<1>15. \A x \in c.live : c.parent[x] = h.parent[x] /\ Below(c, x) = Below(h, x)
  BY <1>7, <1>10, <1>11
<1>16. InModel(c) = InModel(h)
  <2>1. CASE h.root = NoObject
    BY <2>1, <1>7, <1>10, <1>13, OwnersOfForest
  <2>2. CASE h.root # NoObject
    <3>1. h.root \in c.live
      BY <2>2, <1>11, <1>12, OwnersOfForest DEF Tops
    <3> QED BY <2>2, <3>1, <1>7, <1>10, <1>13, <1>15, OwnersOfForest
  <2> QED BY <2>1, <2>2
<1> QED BY <1>7, <1>10, <1>13, <1>14, <1>15, <1>16 DEF c

\* What only the links say.
LEMMA SameLinks ==
  ASSUME NEW h, Trees(h), NEW g \in Heap,
         g.live = h.live, g.parent = h.parent, g.childs = h.childs, g.selected \subseteq g.live
  PROVE  Trees(g) /\ Tops(g) = Tops(h) /\ \A x : Below(g, x) = Below(h, x)
<1>1. \A x : Below(g, x) = Below(h, x)
  BY DEF Below
<1> QED BY <1>1 DEF Trees, LinkedBothWays, Acyclic, Tops, Kids

-----------------------------------------------------------------------------
(* Two objects swapped *)

Other(a, b, o) == IF o = a THEN b ELSE IF o = b THEN a ELSE o

\* LinkToParent of an object without a parent, which may leave it without one.
LEMMA LinkSomewhere ==
  ASSUME NEW h, LinkedBothWays(h), NEW o \in Tops(h), NEW p \in h.live \cup {NoObject}
  PROVE  LET u == LinkToParent(h, o, p)
         IN  /\ LinkedBothWays(u) /\ u.live = h.live
             /\ \A x \in Ids : u.parent[x] = IF x = o THEN p ELSE h.parent[x]
             /\ u.selected = h.selected /\ u.root = h.root /\ u.buffer = h.buffer /\ u.fault = h.fault
<1>1. o \in h.live /\ h.parent[o] = NoObject /\ h.live \subseteq Ids
  BY TypeOfTrees DEF Tops
<1>2. CASE p = NoObject
  <2>1. LinkToParent(h, o, p) = h
    BY <1>2 DEF LinkToParent
  <2> QED BY <1>1, <1>2, <2>1
<1>3. CASE p # NoObject
  <2> DEFINE u == LinkToParent(h, o, p)
  <2>1. /\ LinkedBothWays(u) /\ u.live = h.live /\ u.parent = [h.parent EXCEPT ![o] = p]
        /\ u.selected = h.selected /\ u.root = h.root /\ u.buffer = h.buffer /\ u.fault = h.fault
    <3>1. p \in h.live
      BY <1>3
    <3>2. /\ LinkedBothWays(u) /\ u.live = h.live /\ u.parent = [h.parent EXCEPT ![o] = p]
          /\ u.selected = h.selected /\ u.root = h.root /\ u.buffer = h.buffer /\ u.fault = h.fault
          /\ u.childs = [h.childs EXCEPT ![p] = Append(@, o)]
      BY <3>1, LinkProperties, SMTT(15)
    <3> HIDE DEF u
    <3> QED BY <3>2
  <2> HIDE DEF u
  <2>2. \A x \in Ids : u.parent[x] = IF x = o THEN p ELSE h.parent[x]
    BY <2>1, TypeOfTrees
  <2> QED BY <2>1, <2>2 DEF u
<1> QED BY <1>2, <1>3

\* Two objects that exchanged their childs are both without a parent.
LEMMA ExchangeProperties ==
  ASSUME NEW h, LinkedBothWays(h), NEW a \in h.live, NEW b \in h.live, a # b
  PROVE  LET x == ExchangeChilds(h, a, b)
         IN  /\ LinkedBothWays(x) /\ x.live = h.live
             /\ \A o \in Ids : x.parent[o] = IF o \in {a, b} THEN NoObject
                                             ELSE Other(a, b, h.parent[o])
             /\ x.selected = h.selected /\ x.root = h.root /\ x.buffer = h.buffer /\ x.fault = h.fault
<1> DEFINE v == UnlinkFromParent(h, a)
           u == UnlinkFromParent(v, b)
           C(o) == IF o = a THEN u.childs[b] ELSE IF o = b THEN u.childs[a] ELSE u.childs[o]
           P(o) == IF o \in ToSet(C(a)) THEN a ELSE IF o \in ToSet(C(b)) THEN b ELSE u.parent[o]
           x == ExchangeChilds(h, a, b)
<1>0. a \in Ids /\ b \in Ids
  BY TypeOfTrees
<1>1. /\ LinkedBothWays(v) /\ v.live = h.live /\ v.parent = [h.parent EXCEPT ![a] = NoObject]
      /\ v.selected = h.selected /\ v.root = h.root /\ v.buffer = h.buffer /\ v.fault = h.fault
  BY UnlinkProperties
<1> HIDE DEF v
<1>2. LinkedBothWays(v) /\ b \in v.live
  BY <1>1
<1>3. /\ LinkedBothWays(u) /\ u.live = v.live /\ u.parent = [v.parent EXCEPT ![b] = NoObject]
      /\ u.selected = v.selected /\ u.root = v.root /\ u.buffer = v.buffer /\ u.fault = v.fault
  BY <1>2, UnlinkProperties
<1>4. x = [u EXCEPT !.childs = [o \in Ids |-> C(o)], !.parent = [o \in Ids |-> P(o)]]
  BY DEF ExchangeChilds, v
<1> HIDE DEF u
<1>5. \A o \in Ids : u.parent[o] = IF o \in {a, b} THEN NoObject ELSE h.parent[o]
  BY <1>1, <1>3, TypeOfTrees
<1> DEFINE cs == [o \in Ids |-> C(o)]
           ps == [o \in Ids |-> P(o)]
<1>6. /\ \A o \in Ids : cs[o] \in Seq(Ids) /\ IsInjective(cs[o])
      /\ cs \in [Ids -> Seq(Ids)]
  BY <1>0, <1>3, TypeOfTrees
<1>7. \A o, p \in Ids : o \in ToSet(u.childs[p]) <=> u.parent[o] = p
  BY <1>3, TypeOfTrees DEF Kids
<1>8. \A o \in Ids : P(o) = Other(a, b, u.parent[o])
  BY <1>0, <1>7 DEF Other
<1>9. \A o \in Ids : ps[o] = Other(a, b, u.parent[o])
  BY <1>8
<1>10. u \in Heap
  BY <1>3 DEF LinkedBothWays
<1> HIDE DEF C, P
<1>11. x = [u EXCEPT !.childs = cs, !.parent = ps]
  BY <1>4
<1>12. \A p \in Ids : cs[p] = u.childs[Other(a, b, p)] /\ Other(a, b, p) \in Ids
  BY <1>0 DEF C, Other
<1>13. ps = [o \in Ids |-> ps[o]]
  OBVIOUS
<1> HIDE DEF cs, ps, x
<1>14. /\ x.live = u.live /\ x.parent = ps /\ x.childs = cs /\ x.selected = u.selected
       /\ x.root = u.root /\ x.buffer = u.buffer /\ x.fault = u.fault
       /\ x = [live |-> x.live, parent |-> x.parent, childs |-> x.childs, selected |-> x.selected,
               root |-> x.root, buffer |-> x.buffer, fault |-> x.fault]
  BY <1>10, <1>11 DEF Heap
<1>15. \A o \in Ids : /\ u.parent[o] \in u.live \cup {NoObject}
                      /\ o \notin u.live => u.parent[o] = NoObject
  BY <1>3, TypeOfTrees
<1>16. \A o \in Ids : /\ ps[o] \in u.live \cup {NoObject}
                      /\ o \notin u.live => ps[o] = NoObject
  BY <1>0, <1>1, <1>3, <1>9, <1>15, NoObjectIsNone DEF Other
<1>17. ps \in [Ids -> Ids \cup {NoObject}]
  BY <1>13, <1>16, <1>3, TypeOfTrees
<1>18. x \in Heap
  <2>1. /\ u \in Heap /\ u.live \subseteq Ids /\ u.selected \subseteq Ids /\ u.buffer \in Seq(Ids)
        /\ u.root \in Ids \cup {NoObject} /\ cs \in [Ids -> Seq(Ids)]
    BY <1>3, <1>6, <1>10, TypeOfTrees
  <2> QED BY <2>1, <1>14, <1>17, FieldsOfHeap
<1>19. \A p, o \in Ids : o \in Kids(x, p) <=> x.parent[o] = p
  <2> SUFFICES ASSUME NEW p \in Ids, NEW o \in Ids PROVE o \in Kids(x, p) <=> x.parent[o] = p
    OBVIOUS
  <2>1. o \in Kids(x, p) <=> u.parent[o] = Other(a, b, p)
    BY <1>7, <1>12, <1>14 DEF Kids
  <2>2. x.parent[o] = Other(a, b, u.parent[o])
    BY <1>9, <1>14
  <2> QED BY <2>1, <2>2 DEF Other
<1>20. LinkedBothWays(x)
  BY <1>3, <1>6, <1>14, <1>16, <1>18, <1>19, TypeOfTrees DEF LinkedBothWays
<1>21. \A o \in Ids : x.parent[o] = IF o \in {a, b} THEN NoObject ELSE Other(a, b, h.parent[o])
  BY <1>0, <1>5, <1>9, <1>14, NoObjectIsNone DEF Other
<1> QED BY <1>1, <1>3, <1>14, <1>20, <1>21 DEF x

\* Two objects take each other's place: the parent of one becomes the parent of the other,
\* and each takes over the other's childs.
LEMMA SwapProperties ==
  ASSUME NEW h, Trees(h), NEW a \in h.live, NEW b \in h.live, a # b
  PROVE  LET g == SwapObjects(h, a, b)
         IN  /\ Trees(g) /\ g.live = h.live /\ g.root = Other(a, b, h.root)
             /\ \A o \in Ids : g.parent[Other(a, b, o)] = Other(a, b, h.parent[o])
             /\ g.selected = h.selected /\ g.buffer = h.buffer /\ g.fault = h.fault
<1> DEFINE ap == h.parent[a]
           bp == h.parent[b]
           x == ExchangeChilds(h, a, b)
           y == LinkSwapped(x, a, b, ap, bp)
           g == SwapObjects(h, a, b)
<1> LinkedBothWays(h) /\ Acyclic(h) /\ a \in Ids /\ b \in Ids /\ h.live \subseteq Ids
  BY TypeOfTrees DEF Trees
<1>1. ap \in h.live \cup {NoObject} /\ bp \in h.live \cup {NoObject} /\ ap # a /\ bp # b
  BY TypeOfTrees, NoLoop
<1>2. ~(ap = b /\ bp = a)
  <2>1. \E o \in {a, b} : h.parent[o] \notin {a, b}
    BY DEF Acyclic
  <2> QED BY <2>1
<1>3. /\ LinkedBothWays(x) /\ x.live = h.live
      /\ \A o \in Ids : x.parent[o] = IF o \in {a, b} THEN NoObject ELSE Other(a, b, h.parent[o])
      /\ x.selected = h.selected /\ x.root = h.root /\ x.buffer = h.buffer /\ x.fault = h.fault
  BY ExchangeProperties
<1>4. g = [y EXCEPT !.root = IF a = @ THEN b ELSE IF b = @ THEN a ELSE @]
  BY DEF SwapObjects
<1> HIDE DEF x, g, ap, bp
<1>5. a \in Tops(x) /\ b \in Tops(x)
  BY <1>3 DEF Tops
<1>6. /\ LinkedBothWays(y) /\ y.live = h.live
      /\ \A o \in Ids : y.parent[o] = IF o = a THEN (IF a = bp THEN b ELSE bp)
                                      ELSE IF o = b THEN (IF b = ap THEN a ELSE ap)
                                      ELSE x.parent[o]
      /\ y.selected = h.selected /\ y.root = h.root /\ y.buffer = h.buffer /\ y.fault = h.fault
  <2> DEFINE Joined(z, c, p, d, q) ==
               /\ LinkedBothWays(z) /\ z.live = h.live
               /\ \A o \in Ids : z.parent[o] = IF o = d THEN q ELSE IF o = c THEN p ELSE x.parent[o]
               /\ z.selected = h.selected /\ z.root = h.root /\ z.buffer = h.buffer
               /\ z.fault = h.fault
  <2>1. ASSUME NEW c, NEW d, (c = a /\ d = b) \/ (c = b /\ d = a),
               NEW p \in h.live \cup {NoObject}, NEW q \in h.live \cup {NoObject}
        PROVE  Joined(LinkToParent(LinkToParent(x, c, p), d, q), c, p, d, q)
    <3> DEFINE w == LinkToParent(x, c, p)
               z == LinkToParent(w, d, q)
    <3>1. c \in Tops(x) /\ d \in Tops(x) /\ c # d /\ c \in Ids /\ d \in Ids
      BY <1>5, <2>1
    <3>2. p \in x.live \cup {NoObject}
      BY <1>3
    <3>3. /\ LinkedBothWays(w) /\ w.live = x.live
          /\ \A o \in Ids : w.parent[o] = IF o = c THEN p ELSE x.parent[o]
          /\ w.selected = x.selected /\ w.root = x.root /\ w.buffer = x.buffer /\ w.fault = x.fault
      BY <1>3, <3>1, <3>2, LinkSomewhere
    <3> HIDE DEF w
    <3>4. d \in Tops(w) /\ q \in w.live \cup {NoObject}
      BY <1>3, <3>1, <3>3 DEF Tops
    <3>5. /\ LinkedBothWays(z) /\ z.live = w.live
          /\ \A o \in Ids : z.parent[o] = IF o = d THEN q ELSE w.parent[o]
          /\ z.selected = w.selected /\ z.root = w.root /\ z.buffer = w.buffer /\ z.fault = w.fault
      BY <3>3, <3>4, LinkSomewhere
    <3> HIDE DEF z
    <3>6. \A o \in Ids : z.parent[o] = IF o = d THEN q ELSE IF o = c THEN p ELSE x.parent[o]
      BY <3>3, <3>5
    <3>7. /\ LinkedBothWays(z) /\ z.live = h.live
          /\ z.selected = h.selected /\ z.root = h.root /\ z.buffer = h.buffer /\ z.fault = h.fault
      BY <1>3, <3>3, <3>5
    <3> QED BY <3>6, <3>7 DEF z, w
  <2>2. CASE b = ap
    <3>1. y = LinkToParent(LinkToParent(x, b, a), a, bp) /\ a # bp
      BY <2>2, <1>2 DEF LinkSwapped
    <3> HIDE DEF y
    <3> HIDE DEF Joined
    <3>2. Joined(y, b, a, a, bp)
      BY <3>1, <2>1, <1>1
    <3> QED BY <3>1, <3>2, <2>2, <1>1 DEF Joined
  <2>3. CASE b # ap /\ a = bp
    <3>1. y = LinkToParent(LinkToParent(x, a, b), b, ap)
      BY <2>3 DEF LinkSwapped
    <3> HIDE DEF y
    <3> HIDE DEF Joined
    <3>2. Joined(y, a, b, b, ap)
      BY <3>1, <2>1, <1>1
    <3> QED BY <3>1, <3>2, <2>3, <1>1 DEF Joined
  <2>4. CASE b # ap /\ a # bp
    <3>1. y = LinkToParent(LinkToParent(x, a, bp), b, ap)
      BY <2>4 DEF LinkSwapped
    <3> HIDE DEF y
    <3> HIDE DEF Joined
    <3>2. Joined(y, a, bp, b, ap)
      BY <3>1, <2>1, <1>1
    <3> QED BY <3>1, <3>2, <2>4, <1>1 DEF Joined
  <2> QED BY <2>2, <2>3, <2>4
<1> HIDE DEF y
<1>7. y \in Heap
  BY <1>6 DEF LinkedBothWays
<1>8. \A o \in Ids : Other(a, b, o) \in Ids /\ Other(a, b, Other(a, b, o)) = o
  BY DEF Other
<1>9. \A o \in Ids : y.parent[Other(a, b, o)] = Other(a, b, h.parent[o])
  <2> SUFFICES ASSUME NEW o \in Ids PROVE y.parent[Other(a, b, o)] = Other(a, b, h.parent[o])
    OBVIOUS
  <2>1. CASE o = a
    BY <2>1, <1>1, <1>2, <1>6 DEF Other, ap
  <2>2. CASE o = b
    BY <2>2, <1>1, <1>2, <1>6 DEF Other, bp
  <2>3. CASE o # a /\ o # b
    BY <2>3, <1>3, <1>6 DEF Other
  <2> QED BY <2>1, <2>2, <2>3
<1>10. Acyclic(y)
  <2> SUFFICES ASSUME NEW S \in SUBSET h.live, S # {} PROVE \E o \in S : y.parent[o] \notin S
    BY <1>6 DEF Acyclic
  <2> DEFINE T == {Other(a, b, o) : o \in S}
  <2>1. T \in SUBSET h.live /\ T # {}
    BY DEF Other
  <2>2. PICK o \in T : h.parent[o] \notin T
    BY <2>1 DEF Acyclic
  <2>3. o \in Ids /\ Other(a, b, o) \in S
    BY <2>1, <1>8
  <2>4. Other(a, b, h.parent[o]) \notin S
    BY <2>2 DEF Other
  <2> QED BY <2>3, <2>4, <1>9
<1>11. /\ g.live = y.live /\ g.parent = y.parent /\ g.childs = y.childs /\ g.selected = y.selected
       /\ g.root = Other(a, b, h.root) /\ g.buffer = y.buffer /\ g.fault = y.fault
       /\ g = [live |-> g.live, parent |-> g.parent, childs |-> g.childs, selected |-> g.selected,
               root |-> g.root, buffer |-> g.buffer, fault |-> g.fault]
  BY <1>4, <1>6, <1>7 DEF Heap, Other
<1>12. g \in Heap
  <2>1. g.root \in Ids \cup {NoObject}
    BY <1>11, TypeOfTrees DEF Other
  <2>2. /\ g.live \subseteq Ids /\ g.parent \in [Ids -> Ids \cup {NoObject}]
        /\ g.childs \in [Ids -> Seq(Ids)] /\ g.selected \subseteq Ids /\ g.buffer \in Seq(Ids)
    BY <1>6, <1>11, TypeOfTrees
  <2> QED BY <2>1, <2>2, <1>7, <1>11, FieldsOfHeap
<1>13. Trees(g)
  <2>1. Trees(y)
    BY <1>6, <1>10 DEF Trees
  <2>2. g.selected \subseteq g.live
    BY <1>6, <1>11, TypeOfTrees
  <2> QED BY <2>1, <2>2, <1>11, <1>12, SameLinks
<1> QED BY <1>6, <1>9, <1>11, <1>13 DEF g

-----------------------------------------------------------------------------
(* New objects *)

\* There are finitely many objects.
LEMMA IdsAreFinite == IsFiniteSet(Ids) /\ \A S \in SUBSET Ids : IsFiniteSet(S) /\ Cardinality(S) \in Nat
<1>1. IsFiniteSet(Ids)
  BY HeapAssumption, FS_Interval DEF Ids
<1> QED BY <1>1, FS_Subset, FS_CardinalityType

\* A set that is not larger than another one can be mapped into it.
LEMMA InjectionExists ==
  ASSUME NEW S, NEW T, IsFiniteSet(S), IsFiniteSet(T), Cardinality(S) <= Cardinality(T)
  PROVE  \E f \in [S -> T] : IsInjective(f)
<1> DEFINE n == Cardinality(S)
           m == Cardinality(T)
<1>1. n \in Nat /\ m \in Nat /\ ExistsBijection(1 .. n, S) /\ ExistsBijection(1 .. m, T)
  BY FS_CardinalityType
<1>2. PICK a \in [1 .. n -> S] : \A x \in S : \E i \in 1 .. n : a[i] = x
  BY <1>1 DEF ExistsBijection, Bijection, Surjection, Injection
<1>3. PICK b \in [1 .. m -> T] : \A i, j \in 1 .. m : b[i] = b[j] => i = j
  BY <1>1 DEF ExistsBijection, Bijection, Surjection, Injection, IsInjective
<1> HIDE DEF n, m
<1> DEFINE I(x) == CHOOSE i \in 1 .. n : a[i] = x
           f == [x \in S |-> b[I(x)]]
<1>4. \A x \in S : I(x) \in 1 .. n /\ a[I(x)] = x
  BY <1>2
<1>5. 1 .. n \subseteq 1 .. m
  BY <1>1 DEF n, m
<1> HIDE DEF I
<1>6. f \in [S -> T]
  BY <1>4, <1>5
<1>7. IsInjective(f)
  BY <1>3, <1>4, <1>5 DEF IsInjective
<1> QED BY <1>6, <1>7

\* New objects get addresses that are free, each one of its own.
LEMMA AddressesProperties ==
  ASSUME NEW h, h.live \subseteq Ids, NEW nodes, IsFiniteSet(nodes),
         Cardinality(nodes) <= Cardinality(Ids \ h.live)
  PROVE  LET at == Addresses(h, nodes)
             R  == Range(at)
         IN  /\ at \in [nodes -> Ids \ h.live]
             /\ \A x, y \in nodes : at[x] = at[y] => x = y
             /\ R = {at[x] : x \in nodes} /\ R \subseteq Ids \ h.live
             /\ Cardinality(Ids \ (h.live \cup R)) = Cardinality(Ids \ h.live) - Cardinality(nodes)
<1> DEFINE at == Addresses(h, nodes)
           R  == Range(at)
           free == Ids \ h.live
<1>1. IsFiniteSet(free) /\ Cardinality(free) \in Nat
  BY IdsAreFinite
<1>2. \E f \in [nodes -> free] : IsInjective(f)
  BY <1>1, InjectionExists
<1>3. at \in [nodes -> free] /\ IsInjective(at)
  BY <1>2 DEF Addresses
<1> HIDE DEF at
<1>4. R = {at[x] : x \in nodes} /\ R \subseteq free
  BY <1>3 DEF Range
<1>5. \A x, y \in nodes : at[x] = at[y] => x = y
  BY <1>3 DEF IsInjective
<1>6. Cardinality(R) = Cardinality(nodes)
  <2>1. at \in Bijection(nodes, R)
    BY <1>3, <1>4 DEF Bijection, Injection, Surjection
  <2> QED BY <2>1, FS_Bijection DEF ExistsBijection
<1>7. Cardinality(free \ R) = Cardinality(free) - Cardinality(R)
  <2>1. IsFiniteSet(R) /\ IsFiniteSet(free \ R) /\ Cardinality(R) \in Nat /\ Cardinality(free \ R) \in Nat
    BY <1>4, IdsAreFinite
  <2>2. R \cup (free \ R) = free /\ R \cap (free \ R) = {}
    BY <1>4
  <2> HIDE DEF R, free
  <2>4. Cardinality(R \cup (free \ R)) = Cardinality(R) + Cardinality(free \ R) - Cardinality(R \cap (free \ R))
    BY <2>1, FS_Union
  <2>5. Cardinality({}) = 0
    BY FS_EmptySet
  <2>3. Cardinality(free) = Cardinality(R) + Cardinality(free \ R) - 0
    BY <2>2, <2>4, <2>5
  <2> QED BY <2>1, <2>3
<1>8. free \ R = Ids \ (h.live \cup R)
  OBVIOUS
<1> QED BY <1>3, <1>4, <1>5, <1>6, <1>7, <1>8 DEF at

\* A hierarchy placed at the addresses at: childs and parents of the new objects.
LEMMA ParentInProperties ==
  ASSUME NEW s, Hierarchy(s), NEW T, T \subseteq Ids, NEW at \in [DOMAIN s.childs -> T],
         \A x, y \in DOMAIN s.childs : at[x] = at[y] => x = y
  PROVE  /\ ParentIn(s, at, s.top) = NoObject
         /\ \A x \in DOMAIN s.childs : x # s.top =>
              \E p \in DOMAIN s.childs : x \in ToSet(s.childs[p]) /\ ParentIn(s, at, x) = at[p]
         /\ \A x, p \in DOMAIN s.childs : ParentIn(s, at, x) = at[p] <=> x \in ToSet(s.childs[p])
<1> DEFINE nodes == DOMAIN s.childs
<1>1. /\ s.top \in nodes /\ s.childs \in [nodes -> Seq(nodes)] /\ Apart(s.childs, nodes)
      /\ \A x \in nodes : x = s.top <=> \A p \in nodes : x \notin ToSet(s.childs[p])
  BY DEF Hierarchy
<1>2. \A x, p, q \in nodes : x \in ToSet(s.childs[p]) /\ x \in ToSet(s.childs[q]) => p = q
  BY <1>1 DEF Apart, ToSet
<1> HIDE DEF nodes
<1>3. ASSUME NEW x \in nodes, x # s.top
      PROVE  \E p \in nodes : x \in ToSet(s.childs[p]) /\ ParentIn(s, at, x) = at[p]
  <2>1. \E p \in nodes : x \in ToSet(s.childs[p])
    BY <1>1, <1>3
  <2>2. ParentIn(s, at, x) = at[CHOOSE p \in nodes : x \in ToSet(s.childs[p])]
    BY <1>3 DEF ParentIn, nodes
  <2> QED BY <2>1, <2>2
<1>4. ParentIn(s, at, s.top) = NoObject
  BY DEF ParentIn
<1>5. ASSUME NEW x \in nodes, NEW p \in nodes
      PROVE  ParentIn(s, at, x) = at[p] <=> x \in ToSet(s.childs[p])
  <2>1. at[p] # NoObject
    BY NoObjectIsNone DEF nodes
  <2>2. CASE x = s.top
    BY <1>1, <1>4, <1>5, <2>1, <2>2
  <2>3. CASE x # s.top
    <3>1. PICK q \in nodes : x \in ToSet(s.childs[q]) /\ ParentIn(s, at, x) = at[q]
      BY <1>3, <2>3
    <3> QED BY <3>1, <1>2 DEF nodes
  <2> QED BY <2>2, <2>3
<1> QED BY <1>3, <1>4, <1>5 DEF nodes

\* What a heap is after a hierarchy was built on it, whatever else is there.
LEMMA BuildFields ==
  ASSUME NEW h \in Heap, NEW s, Hierarchy(s), HasRoom(h, s)
  PROVE  LET g == Build(h, s)
             nodes == DOMAIN s.childs
             at == Addresses(h, nodes)
             R == Range(at)
         IN  /\ g \in Heap /\ g.live = h.live \cup R /\ g.selected = h.selected \cup {at[x] : x \in s.selected}
             /\ g.root = h.root /\ g.buffer = h.buffer /\ g.fault = h.fault
             /\ \A x \in nodes : /\ g.parent[at[x]] = ParentIn(s, at, x)
                                 /\ g.childs[at[x]] = [j \in DOMAIN s.childs[x] |-> at[s.childs[x][j]]]
             /\ \A a \in Ids \ R : g.parent[a] = h.parent[a] /\ g.childs[a] = h.childs[a]
<1> DEFINE g == Build(h, s)
           nodes == DOMAIN s.childs
           at == Addresses(h, nodes)
           R == Range(at)
           Node(a) == CHOOSE x \in nodes : at[x] = a
           Row(x) == [j \in DOMAIN s.childs[x] |-> at[s.childs[x][j]]]
           cs == [a \in Ids |-> IF a \in R THEN Row(Node(a)) ELSE h.childs[a]]
           ps == [a \in Ids |-> IF a \in R THEN ParentIn(s, at, Node(a)) ELSE h.parent[a]]
<1>0. /\ h.live \subseteq Ids /\ h.selected \subseteq Ids /\ h.root \in Ids \cup {NoObject} /\ h.buffer \in Seq(Ids)
      /\ h.childs \in [Ids -> Seq(Ids)] /\ h.parent \in [Ids -> Ids \cup {NoObject}]
  BY DEF Heap
<1>1. h.live \subseteq Ids /\ IsFiniteSet(nodes) /\ Cardinality(nodes) <= Cardinality(Ids \ h.live)
  BY <1>0 DEF Hierarchy, HasRoom
<1>2. /\ at \in [nodes -> Ids \ h.live]
      /\ \A x, y \in nodes : at[x] = at[y] => x = y
      /\ R \subseteq Ids \ h.live /\ R = {at[x] : x \in nodes}
  BY <1>1, AddressesProperties
<1>3. g = [h EXCEPT !.live = @ \cup R, !.childs = cs, !.parent = ps,
                    !.selected = @ \cup {at[x] : x \in s.selected}]
  BY DEF Build
<1> HIDE DEF at, g, R
<1>4. \A x \in nodes : Node(at[x]) = x
  BY <1>2
<1>5. \A a \in R : Node(a) \in nodes
  BY <1>2
<1>6. ASSUME NEW x \in nodes PROVE Row(x) \in Seq(Ids)
  <2>1. s.childs[x] \in Seq(nodes)
    BY DEF Hierarchy
  <2>2. /\ DOMAIN s.childs[x] = 1 .. Len(s.childs[x]) /\ Len(s.childs[x]) \in Nat
        /\ \A j \in 1 .. Len(s.childs[x]) : s.childs[x][j] \in nodes
    BY <2>1, LenProperties, ElementOfSeq
  <2>3. Row(x) \in [1 .. Len(s.childs[x]) -> Ids]
    BY <1>2, <2>2
  <2> QED BY <2>2, <2>3, SeqDef
<1>7. ASSUME NEW x \in nodes PROVE ParentIn(s, at, x) \in Ids \cup {NoObject}
  <2>1. /\ ParentIn(s, at, s.top) = NoObject
        /\ \A y \in nodes : y # s.top => \E q \in nodes : ParentIn(s, at, y) = at[q]
    BY <1>2, ParentInProperties
  <2> QED BY <2>1, <1>2
<1> HIDE DEF Node, Row
<1>8. cs \in [Ids -> Seq(Ids)] /\ ps \in [Ids -> Ids \cup {NoObject}]
  BY <1>0, <1>5, <1>6, <1>7
<1>9. /\ \A x \in nodes : at[x] \in R /\ at[x] \in Ids
      /\ \A a \in R : cs[a] = Row(Node(a)) /\ ps[a] = ParentIn(s, at, Node(a))
      /\ \A a \in Ids \ R : cs[a] = h.childs[a] /\ ps[a] = h.parent[a]
  BY <1>2
<1>10. \A x \in nodes : cs[at[x]] = Row(x) /\ ps[at[x]] = ParentIn(s, at, x)
  BY <1>4, <1>9
<1> HIDE DEF cs, ps
<1>11. /\ g.live = h.live \cup R /\ g.parent = ps /\ g.childs = cs
       /\ g.selected = h.selected \cup {at[x] : x \in s.selected}
       /\ g.root = h.root /\ g.buffer = h.buffer /\ g.fault = h.fault
       /\ g = [live |-> g.live, parent |-> g.parent, childs |-> g.childs, selected |-> g.selected,
               root |-> g.root, buffer |-> g.buffer, fault |-> g.fault]
  <2> DEFINE new == {at[x] : x \in s.selected}
  <2> HIDE DEF new
  <2>1. g = [h EXCEPT !.live = @ \cup R, !.childs = cs, !.parent = ps, !.selected = @ \cup new]
    BY <1>3 DEF new
  <2>2. /\ g.live = h.live \cup R /\ g.parent = ps /\ g.childs = cs /\ g.selected = h.selected \cup new
        /\ g.root = h.root /\ g.buffer = h.buffer /\ g.fault = h.fault
        /\ g = [live |-> g.live, parent |-> g.parent, childs |-> g.childs, selected |-> g.selected,
                root |-> g.root, buffer |-> g.buffer, fault |-> g.fault]
    BY <2>1 DEF Heap
  <2> QED BY <2>2 DEF new
<1>12. g \in Heap
  <2>1. {at[x] : x \in s.selected} \subseteq Ids
    BY <1>9 DEF Hierarchy
  <2>2. /\ g.live \subseteq Ids /\ g.selected \subseteq Ids /\ g.root \in Ids \cup {NoObject}
        /\ g.buffer \in Seq(Ids)
    BY <1>0, <1>2, <1>11, <2>1
  <2> QED BY <2>2, <1>8, <1>11, FieldsOfHeap
<1>13. \A x \in nodes : g.parent[at[x]] = ParentIn(s, at, x) /\ g.childs[at[x]] = Row(x)
  BY <1>10, <1>11
<1>14. \A a \in Ids \ R : g.parent[a] = h.parent[a] /\ g.childs[a] = h.childs[a]
  BY <1>9, <1>11
<1> QED BY <1>11, <1>12, <1>13, <1>14 DEF g, at, Row, R

\* New objects are linked both ways, and none is below itself.
LEMMA BuildIsLinked ==
  ASSUME NEW h, Trees(h), NEW s, Hierarchy(s), HasRoom(h, s)
  PROVE  Trees(Build(h, s))
<1> DEFINE g == Build(h, s)
           nodes == DOMAIN s.childs
           at == Addresses(h, nodes)
           R == Range(at)
           Row(x) == [j \in DOMAIN s.childs[x] |-> at[s.childs[x][j]]]
<1> LinkedBothWays(h) /\ Acyclic(h) /\ h \in Heap
  BY DEF Trees, LinkedBothWays
<1>1. h.live \subseteq Ids /\ IsFiniteSet(nodes) /\ Cardinality(nodes) <= Cardinality(Ids \ h.live)
  BY TypeOfTrees DEF Hierarchy, HasRoom
<1>2. /\ at \in [nodes -> Ids \ h.live]
      /\ \A x, y \in nodes : at[x] = at[y] => x = y
      /\ R \subseteq Ids \ h.live /\ R = {at[x] : x \in nodes}
  BY <1>1, AddressesProperties
<1>3. /\ g \in Heap /\ g.live = h.live \cup R /\ g.selected = h.selected \cup {at[x] : x \in s.selected}
      /\ \A x \in nodes : g.parent[at[x]] = ParentIn(s, at, x) /\ g.childs[at[x]] = Row(x)
      /\ \A a \in Ids \ R : g.parent[a] = h.parent[a] /\ g.childs[a] = h.childs[a]
  BY BuildFields
<1>4. /\ s.top \in nodes /\ s.selected \subseteq nodes
      /\ \A x \in nodes : s.childs[x] \in Seq(nodes) /\ IsInjective(s.childs[x])
  BY DEF Hierarchy, Apart, IsInjective
<1>5. /\ ParentIn(s, at, s.top) = NoObject
      /\ \A x \in nodes : x # s.top =>
           \E p \in nodes : x \in ToSet(s.childs[p]) /\ ParentIn(s, at, x) = at[p]
      /\ \A x, p \in nodes : ParentIn(s, at, x) = at[p] <=> x \in ToSet(s.childs[p])
  BY <1>2, ParentInProperties
<1>6. ASSUME NEW x \in nodes
      PROVE  IsInjective(Row(x)) /\ ToSet(Row(x)) = {at[y] : y \in ToSet(s.childs[x])}
  <2>1. \A j \in DOMAIN s.childs[x] : s.childs[x][j] \in nodes
    BY <1>4, LenProperties, ElementOfSeq
  <2> DEFINE c == s.childs[x]
  <2>2. IsInjective(c) /\ \A j \in DOMAIN c : c[j] \in nodes
    BY <2>1, <1>4
  <2> HIDE DEF c, at, nodes
  <2>3. DOMAIN Row(x) = DOMAIN c /\ \A j \in DOMAIN c : Row(x)[j] = at[c[j]]
    BY DEF c
  <2> HIDE DEF Row
  <2>4. IsInjective(Row(x))
    BY <2>2, <2>3, <1>2 DEF IsInjective
  <2>5. ToSet(Row(x)) = {at[y] : y \in ToSet(c)}
    BY <2>3 DEF ToSet
  <2> QED BY <2>4, <2>5 DEF c
<1> HIDE DEF at, g, Row
<1>7. R = {at[x] : x \in nodes} /\ R \cap h.live = {} /\ R \subseteq Ids
  BY <1>2
<1> HIDE DEF R
<1>8. \A x \in nodes : ToSet(s.childs[x]) \subseteq nodes
  BY <1>4, ElementsOfSeq
<1>9. \A p, o \in Ids : o \in Kids(g, p) <=> g.parent[o] = p
  <2> SUFFICES ASSUME NEW p \in Ids, NEW o \in Ids PROVE o \in Kids(g, p) <=> g.parent[o] = p
    OBVIOUS
  <2>0. /\ o \in Kids(h, p) <=> h.parent[o] = p
        /\ h.parent[o] \in h.live \cup {NoObject} /\ (h.parent[o] = p => o \in h.live)
        /\ p # NoObject /\ NoObject \notin R
    BY TypeOfTrees, NoObjectIsNone, <1>7
  <2>1. CASE p \in R
    <3>1. PICK x \in nodes : p = at[x]
      BY <2>1, <1>7
    <3>2. Kids(g, p) = {at[y] : y \in ToSet(s.childs[x])}
      BY <3>1, <1>3, <1>6 DEF Kids
    <3>3. CASE o \in R
      <4>1. PICK y \in nodes : o = at[y]
        BY <3>3, <1>7
      <4>2. o \in Kids(g, p) <=> y \in ToSet(s.childs[x])
        BY <3>2, <4>1, <1>2, <1>8
      <4>3. g.parent[o] = ParentIn(s, at, y)
        BY <4>1, <1>3
      <4> QED BY <3>1, <4>2, <4>3, <1>5
    <3>4. CASE o \notin R
      <4>1. o \notin Kids(g, p)
        BY <3>2, <3>4, <1>7, <1>8
      <4>2. g.parent[o] = h.parent[o]
        BY <3>4, <1>3
      <4> QED BY <4>1, <4>2, <2>0, <2>1, <1>7
    <3> QED BY <3>3, <3>4
  <2>2. CASE p \notin R
    <3>1. Kids(g, p) = Kids(h, p)
      BY <2>2, <1>3 DEF Kids
    <3>2. CASE o \in R
      <4>1. PICK y \in nodes : o = at[y]
        BY <3>2, <1>7
      <4>2. g.parent[o] = ParentIn(s, at, y)
        BY <4>1, <1>3
      <4>3. g.parent[o] \in R \cup {NoObject}
        BY <4>2, <1>5, <1>7
      <4>4. o \notin h.live
        BY <3>2, <1>7
      <4> QED BY <3>1, <4>3, <4>4, <2>0, <2>2
    <3>3. CASE o \notin R
      BY <3>1, <3>3, <2>0, <1>3
    <3> QED BY <3>2, <3>3
  <2> QED BY <2>1, <2>2
<1>10. \A p \in Ids : IsInjective(g.childs[p])
  <2> SUFFICES ASSUME NEW p \in Ids PROVE IsInjective(g.childs[p])
    OBVIOUS
  <2>1. CASE p \in R
    BY <2>1, <1>3, <1>6, <1>7
  <2>2. CASE p \notin R
    BY <2>2, <1>3, TypeOfTrees
  <2> QED BY <2>1, <2>2
<1>11. \A o \in Ids : g.parent[o] \in g.live \cup {NoObject} /\ (o \notin g.live => g.parent[o] = NoObject)
  <2> SUFFICES ASSUME NEW o \in Ids
               PROVE  g.parent[o] \in g.live \cup {NoObject} /\ (o \notin g.live => g.parent[o] = NoObject)
    OBVIOUS
  <2>1. CASE o \in R
    BY <2>1, <1>3, <1>5, <1>7
  <2>2. CASE o \notin R
    BY <2>2, <1>3, TypeOfTrees
  <2> QED BY <2>1, <2>2
<1>12. g.selected \subseteq g.live
  BY <1>3, <1>4, <1>7, TypeOfTrees
<1>13. g.live \subseteq Ids
  BY <1>1, <1>3, <1>7
<1>14. LinkedBothWays(g)
  BY <1>3, <1>9, <1>10, <1>11, <1>12, <1>13 DEF LinkedBothWays
<1>15. Acyclic(g)
  <2> SUFFICES ASSUME NEW S \in SUBSET g.live, S # {} PROVE \E o \in S : g.parent[o] \notin S
    BY DEF Acyclic
  <2>1. CASE S \cap R = {}
    <3>1. PICK o \in S : h.parent[o] \notin S
      BY <2>1, <1>3 DEF Acyclic
    <3>2. o \in Ids \ R
      BY <2>1, <1>13
    <3> QED BY <3>1, <3>2, <1>3
  <2>2. CASE S \cap R # {}
    <3> DEFINE N == {x \in nodes : at[x] \in S}
    <3>1. N # {} /\ N \in SUBSET nodes
      BY <2>2, <1>7
    <3>2. PICK x \in N : \A p \in N : x \notin ToSet(s.childs[p])
      BY <3>1 DEF Hierarchy
    <3>3. g.parent[at[x]] = ParentIn(s, at, x) /\ NoObject \notin S
      BY <1>3, <1>13, NoObjectIsNone
    <3>4. g.parent[at[x]] \notin S
      BY <3>2, <3>3, <1>5
    <3> QED BY <3>4
  <2> QED BY <2>1, <2>2
<1> QED BY <1>14, <1>15 DEF Trees, g

\* A new hierarchy is a tree of its own, and the others stay as they are.
LEMMA BuildProperties ==
  ASSUME NEW h, Trees(h), NEW s, Hierarchy(s), HasRoom(h, s)
  PROVE  LET g == Build(h, s)
             o == Top(h, s)
         IN  /\ Trees(g) /\ o \in Tops(g) /\ o \notin h.live /\ Tops(g) = Tops(h) \cup {o}
             /\ g.live = h.live \cup Below(g, o) /\ h.live \cap Below(g, o) = {}
             /\ g.selected \cap h.live = h.selected
             /\ g.root = h.root /\ g.buffer = h.buffer /\ g.fault = h.fault
             /\ \A x \in h.live : /\ g.parent[x] = h.parent[x] /\ g.childs[x] = h.childs[x]
                                  /\ Below(g, x) = Below(h, x)
             /\ Cardinality(Ids \ g.live) = Cardinality(Ids \ h.live) - Cardinality(DOMAIN s.childs)
<1> DEFINE g == Build(h, s)
           nodes == DOMAIN s.childs
           at == Addresses(h, nodes)
           R == Range(at)
           o == at[s.top]
<1> LinkedBothWays(h) /\ h \in Heap
  BY DEF Trees, LinkedBothWays
<1>1. h.live \subseteq Ids /\ IsFiniteSet(nodes) /\ Cardinality(nodes) <= Cardinality(Ids \ h.live)
  BY TypeOfTrees DEF Hierarchy, HasRoom
<1>2. /\ at \in [nodes -> Ids \ h.live]
      /\ R = {at[x] : x \in nodes} /\ R \cap h.live = {} /\ R \subseteq Ids
      /\ \A x, y \in nodes : at[x] = at[y] => x = y
      /\ Cardinality(Ids \ (h.live \cup R)) = Cardinality(Ids \ h.live) - Cardinality(nodes)
  BY <1>1, AddressesProperties
<1>3. /\ g.live = h.live \cup R /\ g.selected = h.selected \cup {at[x] : x \in s.selected}
      /\ g.root = h.root /\ g.buffer = h.buffer /\ g.fault = h.fault
      /\ \A x \in nodes : /\ g.parent[at[x]] = ParentIn(s, at, x)
                          /\ g.childs[at[x]] = [j \in DOMAIN s.childs[x] |-> at[s.childs[x][j]]]
      /\ \A a \in Ids \ R : g.parent[a] = h.parent[a] /\ g.childs[a] = h.childs[a]
  BY BuildFields
<1>4. Trees(g) /\ LinkedBothWays(g)
  BY BuildIsLinked DEF Trees
<1>5. s.top \in nodes /\ s.selected \subseteq nodes
  BY DEF Hierarchy
<1>6. /\ ParentIn(s, at, s.top) = NoObject
      /\ \A x \in nodes : x # s.top => \E p \in nodes : ParentIn(s, at, x) = at[p]
  BY <1>2, ParentInProperties
<1>7. Top(h, s) = o
  BY DEF Top
<1> HIDE DEF at, g, R, o, nodes
<1>8. o \in R /\ o \notin h.live /\ o \in g.live /\ g.parent[o] = NoObject
  BY <1>2, <1>3, <1>5, <1>6 DEF o
<1>9. \A a \in R : a # o => g.parent[a] \in R
  <2> SUFFICES ASSUME NEW a \in R, a # o PROVE g.parent[a] \in R
    OBVIOUS
  <2>1. PICK x \in nodes : a = at[x]
    BY <1>2
  <2>2. PICK p \in nodes : ParentIn(s, at, x) = at[p]
    BY <2>1, <1>6 DEF o
  <2>3. g.parent[a] = at[p]
    BY <2>1, <2>2, <1>3
  <2> QED BY <2>3, <1>2
<1>10. \A x \in h.live : x \in Ids \ R
  BY <1>1, <1>2
<1>11. Tops(g) = Tops(h) \cup {o}
  <2>1. \A a \in R : a # o => g.parent[a] # NoObject
    BY <1>2, <1>9, NoObjectIsNone
  <2> QED BY <2>1, <1>3, <1>8, <1>10 DEF Tops
<1>12. \A x \in h.live : g.parent[x] = h.parent[x] /\ g.childs[x] = h.childs[x]
  BY <1>3, <1>10
<1>13. ASSUME NEW x \in h.live PROVE Below(g, x) = Below(h, x) /\ Below(g, x) \subseteq h.live
  <2>1. Below(h, x) \subseteq h.live /\ x \in Ids
    BY <1>1, BelowInTrees
  <2>2. \A p \in Below(h, x) : Kids(g, p) = Kids(h, p)
    BY <2>1, <1>12 DEF Kids
  <2>3. h.childs \in [Ids -> Seq(Ids)] /\ g.childs \in [Ids -> Seq(Ids)]
    BY <1>4, TypeOfTrees
  <2>4. Below(g, x) = Below(h, x)
    BY <2>1, <2>2, <2>3, BelowIsLocal
  <2> QED BY <2>1, <2>4
<1>14. Below(g, o) \subseteq R
  <2>1. \A p \in R : Kids(g, p) \subseteq R
    <3> SUFFICES ASSUME NEW p \in R, NEW y \in Kids(g, p) PROVE y \in R
      OBVIOUS
    <3>1. p \in Ids /\ y \in g.live /\ y \in Ids /\ g.parent[y] = p /\ p # NoObject
      BY <1>2, <1>4, TypeOfTrees, NoObjectIsNone
    <3>2. y \in h.live => h.parent[y] \in h.live \cup {NoObject}
      BY <3>1, TypeOfTrees
    <3> QED BY <3>1, <3>2, <1>2, <1>3, <1>12
  <2> QED BY <2>1, <1>2, <1>8, BelowIsLeast
<1>15. R \subseteq Below(g, o)
  <2> SUFFICES ASSUME NEW a \in R PROVE a \in Below(g, o)
    OBVIOUS
  <2>1. PICK t \in Tops(g) : a \in Below(g, t)
    BY <1>3, <1>4, EverythingIsBelowTops
  <2>2. t \notin h.live
    BY <2>1, <1>2, <1>13
  <2>3. t = o
    BY <2>2, <1>11 DEF Tops
  <2> QED BY <2>1, <2>3
<1>16. g.selected \cap h.live = h.selected
  <2>1. {at[x] : x \in s.selected} \subseteq R
    BY <1>2, <1>5
  <2> QED BY <2>1, <1>2, <1>3, TypeOfTrees
<1>17. R = Below(g, o) /\ o \in Tops(g)
  BY <1>8, <1>11, <1>14, <1>15
<1>18. /\ g.live = h.live \cup Below(g, o) /\ h.live \cap Below(g, o) = {}
       /\ Cardinality(Ids \ g.live) = Cardinality(Ids \ h.live) - Cardinality(nodes)
  BY <1>2, <1>3, <1>17
<1> QED BY <1>3, <1>4, <1>7, <1>8, <1>11, <1>12, <1>13, <1>16, <1>17, <1>18 DEF g, nodes

\* What a clone copies is a hierarchy.
LEMMA ShapeIsHierarchy ==
  ASSUME NEW h, Trees(h), NEW o \in h.live
  PROVE  /\ Hierarchy(ShapeOf(h, o)) /\ DOMAIN ShapeOf(h, o).childs = Below(h, o)
         /\ ShapeOf(h, o).top = o
<1> DEFINE s == ShapeOf(h, o)
           nodes == Below(h, o)
<1> LinkedBothWays(h) /\ Acyclic(h)
  BY DEF Trees
<1>1. s.childs = [x \in nodes |-> h.childs[x]] /\ s.top = o /\ s.selected = h.selected \cap nodes
  BY DEF ShapeOf
<1> HIDE DEF s
<1>2. /\ o \in nodes /\ nodes \subseteq h.live /\ nodes \subseteq Ids
      /\ \A x \in Ids : h.parent[x] \in nodes => x \in nodes
      /\ \A x \in nodes : x # o => h.parent[x] \in nodes
  BY BelowInTrees, TypeOfTrees
<1> HIDE DEF nodes
<1>3. IsFiniteSet(nodes) /\ DOMAIN s.childs = nodes
  BY <1>1, <1>2, IdsAreFinite
<1>4. \A x \in nodes : s.childs[x] = h.childs[x] /\ ToSet(s.childs[x]) = Kids(h, x)
  BY <1>1 DEF Kids
<1>5. \A p, x \in nodes : x \in ToSet(s.childs[p]) <=> h.parent[x] = p
  BY <1>2, <1>4, TypeOfTrees
<1>6. ASSUME NEW x \in nodes PROVE s.childs[x] \in Seq(nodes)
  <2> DEFINE c == h.childs[x]
  <2>0. h.childs \in [Ids -> Seq(Ids)] /\ x \in Ids /\ x \in h.live
    BY <1>2, TypeOfTrees
  <2>1. c \in Seq(Ids) /\ ToSet(c) = Kids(h, x)
    BY <2>0 DEF Kids
  <2>3. ASSUME NEW y \in Kids(h, x) PROVE y \in nodes
    <3>1. y \in Ids /\ h.parent[y] = x
      BY <2>0, TypeOfTrees
    <3> QED BY <3>1, <1>2
  <2> HIDE DEF c
  <2>4. c \in [1 .. Len(c) -> Ids] /\ Len(c) \in Nat /\ \A i \in 1 .. Len(c) : c[i] \in nodes
    BY <2>1, <2>3, LenProperties, ElementsOfSeq
  <2>5. c \in [1 .. Len(c) -> nodes]
    BY <2>4
  <2> QED BY <2>4, <2>5, <1>4, SeqDef DEF c
<1>7. s.childs \in [nodes -> Seq(nodes)]
  BY <1>1, <1>4, <1>6
<1>8. Apart(s.childs, nodes)
  <2> SUFFICES ASSUME NEW p \in nodes, NEW q \in nodes,
                      NEW i \in DOMAIN s.childs[p], NEW j \in DOMAIN s.childs[q],
                      s.childs[p][i] = s.childs[q][j]
               PROVE  p = q /\ i = j
    BY DEF Apart
  <2>1. s.childs[p][i] \in Kids(h, p) /\ s.childs[q][j] \in Kids(h, q)
    BY <1>4 DEF Kids, ToSet
  <2>2. p = q
    BY <2>1, <1>2, TypeOfTrees
  <2>3. IsInjective(s.childs[p])
    BY <1>2, <1>4, TypeOfTrees
  <2> QED BY <2>2, <2>3 DEF IsInjective
<1>9. \A x \in nodes : x = o <=> \A p \in nodes : x \notin ToSet(s.childs[p])
  <2>1. h.parent[o] \notin nodes
    <3> SUFFICES ASSUME h.parent[o] \in nodes PROVE FALSE
      OBVIOUS
    <3>1. h.parent[o] \in h.live /\ o \in Ids
      BY <1>2
    <3>2. o \in Below(h, h.parent[o])
      BY <3>1, BelowInTrees
    <3> QED BY <3>1, <3>2, BelowIsAntisymmetric, NoLoop DEF nodes
  <2> QED BY <2>1, <1>2, <1>5
<1>10. \A S \in (SUBSET nodes) \ {{}} : \E x \in S : \A p \in S : x \notin ToSet(s.childs[p])
  <2> SUFFICES ASSUME NEW S \in (SUBSET nodes) \ {{}}
               PROVE  \E x \in S : \A p \in S : x \notin ToSet(s.childs[p])
    OBVIOUS
  <2>0. S \in (SUBSET h.live) \ {{}}
    BY <1>2
  <2>1. PICK x \in S : h.parent[x] \notin S
    BY <2>0 DEF Acyclic
  <2> QED BY <2>1, <1>5
<1>11. s.top \in nodes /\ s.selected \subseteq nodes
  BY <1>1, <1>2
<1>12. Hierarchy(s)
  BY <1>1, <1>3, <1>7, <1>8, <1>9, <1>10, <1>11 DEF Hierarchy
<1> QED BY <1>1, <1>3, <1>12 DEF s, nodes

\* The objects in clones of the first i objects of list s.
CopiesTo(h, s, i) == UNION {{k} \X Below(h, s[k]) : k \in 1 .. i}

\* How many objects clones take, one list element after the other.
LEMMA CopiesCounted ==
  ASSUME NEW h, LinkedBothWays(h), NEW s \in Seq(h.live)
  PROVE  /\ CopiesTo(h, s, 0) = {} /\ CopiesTo(h, s, Len(s)) = Copies(h, s)
         /\ \A i \in 0 .. Len(s) : /\ Cardinality(CopiesTo(h, s, i)) \in Nat
                                   /\ Cardinality(CopiesTo(h, s, i)) <= Cardinality(Copies(h, s))
         /\ \A i \in 1 .. Len(s) :
              Cardinality(CopiesTo(h, s, i)) = Cardinality(CopiesTo(h, s, i - 1)) + Cardinality(Below(h, s[i]))
<1> DEFINE n == Len(s)
           C(i) == CopiesTo(h, s, i)
<1>1. n \in Nat /\ DOMAIN s = 1 .. n /\ \A i \in 1 .. n : s[i] \in h.live
  BY LenProperties, ElementOfSeq
<1>2. \A i \in 1 .. n : Below(h, s[i]) \subseteq Ids
  BY <1>1, BelowInTrees, TypeOfTrees
<1> HIDE DEF n
<1>3. C(0) = {} /\ C(n) = Copies(h, s)
  BY <1>1 DEF CopiesTo, Copies
<1>4. \A i \in 0 .. n : C(i) \subseteq C(n)
  BY <1>1 DEF CopiesTo
<1>5. C(n) \subseteq (1 .. n) \X Ids
  BY <1>2 DEF CopiesTo
<1>6. IsFiniteSet((1 .. n) \X Ids)
  <2>1. IsFiniteSet(1 .. n)
    BY <1>1, FS_Interval
  <2> QED BY <2>1, IdsAreFinite, FS_Product
<1>7. \A i \in 0 .. n : IsFiniteSet(C(i)) /\ Cardinality(C(i)) \in Nat /\ Cardinality(C(i)) <= Cardinality(C(n))
  <2>1. IsFiniteSet(C(n))
    BY <1>5, <1>6, FS_Subset
  <2> QED BY <2>1, <1>4, FS_Subset, FS_CardinalityType
<1>8. ASSUME NEW i \in 1 .. n
      PROVE  Cardinality(C(i)) = Cardinality(C(i - 1)) + Cardinality(Below(h, s[i]))
  <2> DEFINE B == Below(h, s[i])
             D == {i} \X B
             f == [x \in B |-> <<i, x>>]
  <2>1. B \subseteq Ids /\ IsFiniteSet(B) /\ Cardinality(B) \in Nat
    BY <1>2, IdsAreFinite
  <2> HIDE DEF B
  <2>2. f \in Bijection(B, D)
    <3>1. f \in [B -> D] /\ \A x \in B : f[x] = <<i, x>>
      OBVIOUS
    <3>2. \A d \in D : \E x \in B : d = <<i, x>>
      OBVIOUS
    <3> HIDE DEF f, D
    <3>3. \A x, y \in B : f[x] = f[y] => x = y
      BY <3>1
    <3>4. \A d \in D : \E x \in B : f[x] = d
      BY <3>1, <3>2
    <3> QED BY <3>1, <3>3, <3>4 DEF Bijection, Injection, Surjection, IsInjective
  <2>3. IsFiniteSet(D) /\ Cardinality(D) = Cardinality(B)
    BY <2>1, <2>2, FS_Bijection DEF ExistsBijection
  <2>4. C(i) = C(i - 1) \cup D
    <3>1. 1 .. i = (1 .. i - 1) \cup {i}
      BY <1>1
    <3> QED BY <3>1 DEF CopiesTo, B
  <2>5. C(i - 1) \cap D = {}
    <3>1. \A k \in 1 .. i - 1 : k # i
      BY <1>1
    <3> QED BY <3>1 DEF CopiesTo
  <2>6. i - 1 \in 0 .. n /\ IsFiniteSet(C(i - 1)) /\ Cardinality(C(i - 1)) \in Nat
    BY <1>1, <1>7
  <2> HIDE DEF D, C
  <2>7. Cardinality(C(i - 1) \cup D) = Cardinality(C(i - 1)) + Cardinality(D) - Cardinality(C(i - 1) \cap D)
    BY <2>3, <2>6, FS_Union
  <2>8. Cardinality({}) = 0
    BY FS_EmptySet
  <2>10. Cardinality(C(i - 1) \cap D) = 0 /\ Cardinality(C(i)) = Cardinality(C(i - 1) \cup D)
    BY <2>4, <2>5, <2>8
  <2>9. Cardinality(C(i)) = Cardinality(C(i - 1)) + Cardinality(B)
    BY <2>1, <2>3, <2>6, <2>7, <2>10
  <2> QED BY <2>9 DEF B
<1> QED BY <1>3, <1>7, <1>8 DEF n

-----------------------------------------------------------------------------
(* Commands *)

\* What a command leaves when nothing was replaced.
LEMMA LeaveKeeps ==
  ASSUME NEW h, IInv, Leave(h), since = 0 => Forest(h)
  PROVE  IInv'
<1>1. since \in 0 .. AfterReplace + 1 /\ since <= AfterReplace /\ heap' = h
      /\ since' = IF since = 0 THEN 0 ELSE since + 1
  BY DEF IInv, Leave, Step
<1>2. since' \in 0 .. AfterReplace + 1 /\ (since' = 0 => since = 0)
  BY <1>1, ShapeAssumption
<1> QED BY <1>1, <1>2 DEF IInv

\* Clicks change the selection only.
LEMMA SelectKeeps ==
  ASSUME NEW h, Forest(h), NEW S \in SUBSET InModel(h)
  PROVE  Forest([h EXCEPT !.selected = (@ \ InModel(h)) \cup S])
<1> DEFINE g == [h EXCEPT !.selected = (@ \ InModel(h)) \cup S]
<1>1. Trees(h) /\ LinkedBothWays(h) /\ h \in Heap /\ h.selected \subseteq h.live /\ h.live \subseteq Ids
  BY TypeOfTrees DEF Forest, Trees, LinkedBothWays
<1>2. InModel(h) \subseteq h.live
  BY OwnersOfForest
<1>3. /\ g.live = h.live /\ g.parent = h.parent /\ g.childs = h.childs /\ g.selected \subseteq g.live
      /\ g.root = h.root /\ g.buffer = h.buffer /\ g.fault = h.fault /\ g \in Heap
  BY <1>1, <1>2 DEF Heap
<1> HIDE DEF g
<1>4. Trees(g) /\ Tops(g) = Tops(h)
  BY <1>1, <1>3, SameLinks
<1>5. Forest(g)
  BY <1>3, <1>4 DEF Forest
<1> QED BY <1>5 DEF g

\* A new hierarchy becomes the model.
LEMMA NewModel ==
  ASSUME NEW h, Forest(h), h.root = NoObject, NEW s, Hierarchy(s), HasRoom(h, s)
  PROVE  Forest([Build(h, s) EXCEPT !.root = Top(h, s)])
<1> DEFINE o == Top(h, s)
           b == Build(h, s)
           g == [b EXCEPT !.root = o]
<1>1. Trees(h) /\ LinkedBothWays(h) /\ ToSet(h.buffer) \subseteq h.live /\ Tops(h) = ToSet(h.buffer)
      /\ IsInjective(h.buffer) /\ h.fault = "none"
  BY OwnersOfForest DEF Forest, Trees
<1>2. /\ Trees(b) /\ o \in Tops(b) /\ o \notin h.live /\ Tops(b) = Tops(h) \cup {o}
      /\ b.root = h.root /\ b.buffer = h.buffer /\ b.fault = h.fault
  BY <1>1, BuildProperties
<1> HIDE DEF o, b
<1>3. b \in Heap /\ o \in Ids /\ b.selected \subseteq b.live
  BY <1>2, TypeOfTrees DEF Trees, LinkedBothWays, Tops
<1>4. /\ g.live = b.live /\ g.parent = b.parent /\ g.childs = b.childs /\ g.selected = b.selected
      /\ g.root = o /\ g.buffer = b.buffer /\ g.fault = b.fault /\ g \in Heap
  BY <1>3 DEF Heap
<1> HIDE DEF g
<1>5. Trees(g) /\ Tops(g) = Tops(b)
  BY <1>2, <1>3, <1>4, SameLinks
<1>6. o # NoObject
  BY <1>3, NoObjectIsNone
<1>7. Forest(g)
  BY <1>1, <1>2, <1>4, <1>5, <1>6 DEF Forest
<1> QED BY <1>7 DEF g, b, o

\* Forest g is h with hierarchy s in it as a child of p.
HasNewChild(h, s, p, g) ==
  /\ Forest(g) /\ h.live \subseteq g.live
  /\ g.root = h.root /\ g.buffer = h.buffer
  /\ \A x \in h.live : p \notin Below(h, x) => Below(g, x) = Below(h, x)
  /\ Cardinality(Ids \ g.live) = Cardinality(Ids \ h.live) - Cardinality(DOMAIN s.childs)

\* A new hierarchy is linked below an object.
LEMMA NewChild ==
  ASSUME NEW h, Forest(h), NEW s, Hierarchy(s), HasRoom(h, s), NEW p \in h.live
  PROVE  HasNewChild(h, s, p, LinkToParent(Build(h, s), Top(h, s), p))
<1> DEFINE o == Top(h, s)
           b == Build(h, s)
           g == LinkToParent(b, o, p)
<1>1. Trees(h) /\ LinkedBothWays(h) /\ Tops(h) = ({h.root} \ {NoObject}) \cup ToSet(h.buffer)
      /\ IsInjective(h.buffer) /\ h.fault = "none" /\ h.root \notin ToSet(h.buffer)
  BY DEF Forest, Trees
<1>2. /\ Trees(b) /\ o \in Tops(b) /\ o \notin h.live /\ Tops(b) = Tops(h) \cup {o}
      /\ b.live = h.live \cup Below(b, o) /\ h.live \cap Below(b, o) = {}
      /\ b.selected \cap h.live = h.selected
      /\ b.root = h.root /\ b.buffer = h.buffer /\ b.fault = h.fault
      /\ \A x \in h.live : /\ b.parent[x] = h.parent[x] /\ b.childs[x] = h.childs[x]
                           /\ Below(b, x) = Below(h, x)
      /\ Cardinality(Ids \ b.live) = Cardinality(Ids \ h.live) - Cardinality(DOMAIN s.childs)
  BY <1>1, BuildProperties
<1> HIDE DEF o, b
<1>3. p \in b.live \ Below(b, o) /\ LinkedBothWays(b) /\ p \in b.live
  BY <1>2 DEF Trees
<1>4. /\ Trees(g) /\ Tops(g) = Tops(b) \ {o}
      /\ \A x \in b.live : p \notin Below(b, x) => Below(g, x) = Below(b, x)
  BY <1>2, <1>3, LinkKeepsTrees
<1>5. /\ LinkedBothWays(g)
      /\ g.live = b.live /\ g.parent = [b.parent EXCEPT ![o] = p]
      /\ g.selected = b.selected /\ g.root = b.root /\ g.buffer = b.buffer /\ g.fault = b.fault
      /\ g.childs = [b.childs EXCEPT ![p] = Append(@, o)]
  <2>1. LinkedBothWays(b) /\ o \in Tops(b) /\ p \in b.live
    BY <1>2, <1>3
  <2> QED BY <2>1, LinkProperties
<1> HIDE DEF g
<1>6. Tops(g) = Tops(h)
  BY <1>2, <1>4 DEF Tops
<1>7. Forest(g)
  BY <1>1, <1>2, <1>4, <1>5, <1>6 DEF Forest
<1>8. \A x \in h.live : p \notin Below(h, x) => Below(g, x) = Below(h, x)
  BY <1>2, <1>4
<1>9. h.live \subseteq g.live /\ g.root = h.root /\ g.buffer = h.buffer
  BY <1>2, <1>5
<1>10. Cardinality(Ids \ g.live) = Cardinality(Ids \ h.live) - Cardinality(DOMAIN s.childs)
  BY <1>2, <1>5
<1> QED BY <1>7, <1>8, <1>9, <1>10 DEF HasNewChild, g, b, o

\* The model is deleted.
LEMMA RootGone ==
  ASSUME NEW h, Forest(h), h.root # NoObject
  PROVE  Forest(SetRoot(h, NoObject)) /\ SetRoot(h, NoObject).root = NoObject
<1> DEFINE d == Destroy(h, h.root)
           g == SetRoot(h, NoObject)
<1>1. Trees(h) /\ Tops(h) = ({h.root} \ {NoObject}) \cup ToSet(h.buffer)
      /\ IsInjective(h.buffer) /\ h.fault = "none" /\ h.root \notin ToSet(h.buffer)
  BY DEF Forest
<1>2. h.root \in Tops(h)
  BY <1>1
<1>3. /\ Trees(d) /\ Tops(d) = Tops(h) \ {h.root}
      /\ d.live = h.live \ Below(h, h.root) /\ d.selected = h.selected \ Below(h, h.root)
      /\ d.root = h.root /\ d.buffer = h.buffer /\ d.fault = h.fault
      /\ \A x \in d.live : d.parent[x] = h.parent[x] /\ d.childs[x] = h.childs[x]
      /\ \A x \in d.live : Below(d, x) = Below(h, x)
  BY <1>1, <1>2, DestroyProperties
<1>4. g = [d EXCEPT !.root = NoObject]
  BY DEF SetRoot
<1> HIDE DEF d, g
<1>5. d \in Heap /\ d.selected \subseteq d.live
  BY <1>3 DEF Trees, LinkedBothWays
<1>6. /\ g.live = d.live /\ g.parent = d.parent /\ g.childs = d.childs /\ g.selected = d.selected
      /\ g.root = NoObject /\ g.buffer = d.buffer /\ g.fault = d.fault /\ g \in Heap
  BY <1>4, <1>5 DEF Heap
<1>7. Trees(g) /\ Tops(g) = Tops(d)
  BY <1>3, <1>5, <1>6, SameLinks
<1>8. NoObject \notin ToSet(h.buffer)
  <2>1. LinkedBothWays(h)
    BY <1>1 DEF Trees
  <2> QED BY <2>1, TypeOfTrees, ElementsOfSeq, NoObjectIsNone
<1>9. Forest(g)
  BY <1>1, <1>3, <1>6, <1>7, <1>8 DEF Forest
<1> QED BY <1>6, <1>9 DEF g

\* A file is loaded: the new model is built before the old one is deleted.
LEMMA LoadedModel ==
  ASSUME NEW h, Forest(h), NEW s, Hierarchy(s), HasRoom(h, s)
  PROVE  Forest(SetRoot(Build(h, s), Top(h, s)))
<1> DEFINE o == Top(h, s)
           b == Build(h, s)
           d == Destroy(b, b.root)
           g == SetRoot(b, o)
<1>1. Trees(h) /\ LinkedBothWays(h) /\ Tops(h) = ({h.root} \ {NoObject}) \cup ToSet(h.buffer)
      /\ IsInjective(h.buffer) /\ h.fault = "none" /\ h.root \notin ToSet(h.buffer)
  BY DEF Forest, Trees
<1>2. /\ Trees(b) /\ o \in Tops(b) /\ o \notin h.live /\ Tops(b) = Tops(h) \cup {o}
      /\ b.root = h.root /\ b.buffer = h.buffer /\ b.fault = h.fault
  BY <1>1, BuildProperties
<1> HIDE DEF o, b
<1>3. CASE h.root = NoObject
  <2>1. g = [b EXCEPT !.root = o]
    BY <1>2, <1>3 DEF SetRoot
  <2> QED BY <2>1, <1>3, NewModel DEF g, b, o
<1>4. CASE h.root # NoObject
  <2>1. b.root \in Tops(b)
    BY <1>1, <1>2, <1>4
  <2>2. /\ Trees(d) /\ Tops(d) = Tops(b) \ {b.root}
        /\ d.live = b.live \ Below(b, b.root) /\ d.selected = b.selected \ Below(b, b.root)
        /\ d.root = b.root /\ d.buffer = b.buffer /\ d.fault = b.fault
        /\ \A x \in d.live : d.parent[x] = b.parent[x] /\ d.childs[x] = b.childs[x]
        /\ \A x \in d.live : Below(d, x) = Below(b, x)
    BY <1>2, <2>1, DestroyProperties
  <2>3. g = [d EXCEPT !.root = o]
    BY <1>2, <1>4 DEF SetRoot
  <2> HIDE DEF d, g
  <2>4. d \in Heap /\ d.selected \subseteq d.live /\ o \in Ids /\ o # NoObject
    BY <1>2, <2>2, TypeOfTrees, NoObjectIsNone DEF Trees, LinkedBothWays, Tops
  <2>5. /\ g.live = d.live /\ g.parent = d.parent /\ g.childs = d.childs /\ g.selected = d.selected
        /\ g.root = o /\ g.buffer = d.buffer /\ g.fault = d.fault /\ g \in Heap
    BY <2>3, <2>4 DEF Heap
  <2>6. Trees(g) /\ Tops(g) = Tops(d)
    BY <2>2, <2>4, <2>5, SameLinks
  <2>7. h.root # o /\ o \notin ToSet(h.buffer)
    BY <1>1, <1>2, <1>4 DEF Tops
  <2>8. Forest(g)
    BY <1>1, <1>2, <1>4, <2>2, <2>4, <2>5, <2>6, <2>7 DEF Forest
  <2> QED BY <2>8 DEF g, b, o
<1> QED BY <1>3, <1>4

\* A single object is a hierarchy.
LEMMA OneIsHierarchy == Hierarchy([childs |-> << <<>> >>, top |-> 1, selected |-> {}])
<1> DEFINE s == [childs |-> << <<>> >>, top |-> 1, selected |-> {}]
<1>1. DOMAIN s.childs = {1} /\ s.childs[1] = <<>> /\ s.top = 1 /\ s.selected = {}
  OBVIOUS
<1>6. s.childs = [x \in {1} |-> s.childs[x]]
  OBVIOUS
<1> HIDE DEF s
<1>7. <<>> \in Seq({1}) /\ DOMAIN <<>> = {}
  OBVIOUS
<1>2. s.childs \in [{1} -> Seq({1})] /\ ToSet(s.childs[1]) = {} /\ DOMAIN s.childs[1] = {}
  BY <1>1, <1>6, <1>7 DEF ToSet
<1>3. IsFiniteSet({1})
  BY FS_Singleton
<1>4. Apart(s.childs, {1})
  BY <1>2 DEF Apart
<1>5. Hierarchy(s)
  BY <1>1, <1>2, <1>3, <1>4 DEF Hierarchy
<1> QED BY <1>5 DEF s

-----------------------------------------------------------------------------
(* The selection *)

\* The list that a traversal makes of a set.
LEMMA InOrderProperties ==
  ASSUME NEW h, NEW S \in SUBSET Ids, NEW s \in InOrder(h, S)
  PROVE  /\ s \in Seq(S) /\ s \in Seq(Ids) /\ Len(s) = Cardinality(S) /\ Len(s) \in Nat
         /\ ToSet(s) = S /\ IsInjective(s)
         /\ \A i \in 1 .. Len(s) : s[i] \in S
         /\ \A j \in 1 .. Len(s) : \A i \in 1 .. j - 1 : Visited(h, s[i], s[j])
<1> DEFINE n == Cardinality(S)
<1>1. n \in Nat /\ IsFiniteSet(S)
  BY IdsAreFinite
<1>2. s \in [1 .. n -> S] /\ ToSet(s) = S /\ \A j \in DOMAIN s : \A i \in 1 .. j - 1 : Visited(h, s[i], s[j])
  BY DEF InOrder
<1> HIDE DEF n
<1>3. s \in Seq(S) /\ Len(s) = n /\ DOMAIN s = 1 .. n
  BY <1>1, <1>2
<1>4. s \in [1 .. n -> Ids]
  BY <1>2
<1>5. s \in Seq(Ids)
  BY <1>1, <1>4
<1>6. IsFiniteSet(1 .. n) /\ Cardinality(1 .. n) = Cardinality(S)
  BY <1>1, FS_Interval DEF n
<1>7. s \in Surjection(1 .. n, S)
  <2>1. \A x \in S : \E i \in 1 .. n : s[i] = x
    BY <1>2, <1>3, ElementsOfSeq
  <2> QED BY <2>1, <1>2 DEF Surjection
<1>8. s \in Injection(1 .. n, S)
  BY <1>6, <1>7, FS_SurjSameCardinalityImpliesInj
<1>9. IsInjective(s)
  BY <1>3, <1>8 DEF Injection, IsInjective
<1>10. \A i \in 1 .. Len(s) : s[i] \in S
  BY <1>2, <1>3
<1> QED BY <1>1, <1>2, <1>3, <1>5, <1>9, <1>10 DEF n

\* HasSelectedParent looks at objects above o, and finds any selected one.
LEMMA ClimbProperties ==
  ASSUME NEW h, Trees(h), NEW o \in h.live
  PROVE  /\ Climb(h, o) \subseteq h.live
         /\ \A x \in Climb(h, o) : x # o /\ o \in Below(h, x)
         /\ \A a \in h.live : a # o /\ o \in Below(h, a) /\ a \in h.selected => HasSelectedParent(h, o)
<1> DEFINE C == Climb(h, o)
           Closed(S) == \A p \in S \ h.selected : h.parent[p] \in S \cup {NoObject}
<1> LinkedBothWays(h)
  BY DEF Trees
<1>1. /\ h.live \subseteq Ids /\ \A x \in Ids : h.parent[x] \in h.live \cup {NoObject}
      /\ \A p, x \in Ids : x \in Kids(h, p) <=> h.parent[x] = p
  BY TypeOfTrees
<1>2. \A S \in SUBSET Ids : h.parent[o] \in S \cup {NoObject} /\ Closed(S) => C \subseteq S
  BY DEF Climb
<1>3. h.parent[o] # NoObject => h.parent[o] \in C
  BY <1>1 DEF Climb
<1>4. ASSUME NEW p \in C \ h.selected, h.parent[p] # NoObject PROVE h.parent[p] \in C
  <2>1. p \in Ids /\ h.parent[p] \in Ids
    BY <1>1, <1>4 DEF Climb
  <2>2. SUFFICES ASSUME NEW S \in SUBSET (Ids \ {h.parent[p]}), h.parent[o] \in S \cup {NoObject}
                 PROVE  \E q \in S \ h.selected : h.parent[q] \notin S \cup {NoObject}
    BY <2>1 DEF Climb
  <2>3. CASE p \in S
    BY <2>3, <2>2, <1>4
  <2>4. CASE p \notin S
    <3>1. S \in SUBSET (Ids \ {p})
      BY <2>2, <2>4
    <3> QED BY <3>1, <2>2, <1>4 DEF Climb
  <2> QED BY <2>3, <2>4
<1>5. C \subseteq h.live
  BY <1>1, <1>2
<1>6. ASSUME NEW x \in C PROVE x # o /\ o \in Below(h, x)
  <2> DEFINE S == {y \in h.live : y # o /\ o \in Below(h, y)}
  <2>1. ASSUME NEW q \in h.live, q # o => q \in S, h.parent[q] # NoObject PROVE h.parent[q] \in S
    <3>1. h.parent[q] \in h.live /\ q \in Ids
      BY <2>1, <1>1
    <3>2. q \in Below(h, h.parent[q]) /\ Below(h, q) \subseteq Below(h, h.parent[q])
      BY <3>1, BelowInTrees
    <3>3. o \in Below(h, q)
      BY <2>1, BelowInTrees
    <3>4. h.parent[q] # o
      <4>1. CASE q = o
        BY <4>1, NoLoop
      <4>2. CASE q # o
        BY <4>2, <3>2, <3>3, BelowIsAntisymmetric
      <4> QED BY <4>1, <4>2
    <3> QED BY <3>1, <3>2, <3>3, <3>4
  <2>2. h.parent[o] \in S \cup {NoObject}
    BY <2>1
  <2>3. Closed(S)
    BY <2>1
  <2>4. S \in SUBSET Ids
    BY <1>1
  <2> HIDE DEF S, C
  <2>5. C \subseteq S
    BY <2>2, <2>3, <2>4, <1>2
  <2> QED BY <2>5 DEF S
<1>7. ASSUME NEW a \in h.live, a # o, o \in Below(h, a), a \in h.selected, C \cap h.selected = {}
      PROVE  FALSE
  <2> DEFINE S == {y \in Below(h, a) : y \notin C \cup {o}}
  <2>1. a \in S
    <3>1. a \in Below(h, a)
      BY BelowInTrees
    <3> QED BY <3>1, <1>7
  <2>2. \A p \in S : Kids(h, p) \subseteq S
    <3> SUFFICES ASSUME NEW p \in S, NEW y \in Kids(h, p) PROVE y \in S
      OBVIOUS
    <3>1. p \in Ids /\ p \in h.live /\ y \in Ids /\ h.parent[y] = p /\ p # NoObject
      <4>1. p \in h.live
        BY BelowInTrees
      <4> QED BY <4>1, <1>1, TypeOfTrees, NoObjectIsNone
    <3>2. y \in Below(h, a)
      BY <3>1, BelowInTrees
    <3>3. y \notin C \cup {o}
      BY <3>1, <1>3, <1>4, <1>7
    <3> QED BY <3>2, <3>3
  <2>3. S \in SUBSET Ids
    BY <1>1, BelowInTrees
  <2> HIDE DEF S
  <2>4. Below(h, a) \subseteq S
    BY <2>1, <2>2, <2>3, BelowIsLeast
  <2> QED BY <2>4, <1>7 DEF S
<1> QED BY <1>5, <1>6, <1>7 DEF HasSelectedParent

\* The topmost objects of the selection are apart, and the rest of it is below them.
LEMMA TopmostProperties ==
  ASSUME NEW h, Forest(h)
  PROVE  /\ ClimbsSafely(h) /\ Selected(h) \subseteq h.live /\ Topmost(h) \subseteq Selected(h)
         /\ Topmost(h) \subseteq h.live /\ Topmost(h) \subseteq Ids
         /\ \A x, y \in Topmost(h) : y \in Below(h, x) => x = y
         /\ \A x \in Selected(h) : \E t \in Topmost(h) : x \in Below(h, t)
         /\ UNION {Below(h, x) : x \in Selected(h)} = UNION {Below(h, t) : t \in Topmost(h)}
         /\ \A x \in Selected(h) : h.parent[x] = NoObject => x = h.root
<1> Trees(h) /\ LinkedBothWays(h)
  BY DEF Forest, Trees
<1>1. /\ InModel(h) \cup InBuffer(h) = h.live /\ InModel(h) \cap InBuffer(h) = {}
      /\ h.root = NoObject => InModel(h) = {}
      /\ h.root # NoObject => InModel(h) = Below(h, h.root)
      /\ InBuffer(h) = UNION {Below(h, o) : o \in ToSet(h.buffer)}
      /\ ToSet(h.buffer) \subseteq h.live /\ h.root \in h.live \cup {NoObject}
  BY OwnersOfForest
<1>2. /\ Selected(h) = h.selected \cap InModel(h) /\ Selected(h) \subseteq h.live
      /\ Topmost(h) = {o \in Selected(h) : ~HasSelectedParent(h, o)} /\ h.live \subseteq Ids
  BY <1>1, TypeOfTrees DEF Selected, Topmost
<1>3. ClimbsSafely(h)
  BY <1>2, ClimbProperties DEF ClimbsSafely
<1>4. ASSUME NEW a \in h.live, NEW x \in InModel(h), x \in Below(h, a) PROVE a \in InModel(h)
  <2>1. h.root # NoObject /\ x \in Below(h, h.root) /\ h.root \in h.live /\ h.root \in Tops(h)
    BY <1>1, <1>4 DEF Forest
  <2>2. a \in Below(h, h.root) \/ h.root \in Below(h, a)
    BY <2>1, <1>4, AncestorsAreComparable
  <2>3. h.root \in Below(h, a) => a = h.root
    BY <2>1, TopsAreApart
  <2> QED BY <2>1, <2>2, <2>3, <1>1, BelowInTrees
<1>5. \A x, y \in Topmost(h) : y \in Below(h, x) => x = y
  BY <1>2, ClimbProperties DEF Selected
<1>6. ASSUME NEW x \in Selected(h) PROVE \E t \in Topmost(h) : x \in Below(h, t)
  <2> SUFFICES ASSUME \A t \in Topmost(h) : x \notin Below(h, t) PROVE FALSE
    OBVIOUS
  <2> DEFINE U == {y \in h.live : x \in Below(h, y) /\ \E a \in Selected(h) : y \in Below(h, a) /\ x \in Below(h, a)}
  <2>1. x \in U
    BY <1>2, BelowInTrees
  <2>2. PICK y \in U : h.parent[y] \notin U
    <3>1. U \in SUBSET h.live /\ U # {}
      BY <2>1
    <3> HIDE DEF U
    <3> QED BY <3>1 DEF Forest, Trees, Acyclic
  <2>3. y \in h.live /\ x \in Below(h, y)
    BY <2>2
  <2>4. PICK a \in Selected(h) : y \in Below(h, a) /\ x \in Below(h, a)
    BY <2>2
  <2>5. ASSUME NEW b \in Selected(h), y \in Below(h, b), x \in Below(h, b) PROVE b = y
    <3> SUFFICES ASSUME b # y PROVE FALSE
      OBVIOUS
    <3>1. h.parent[y] \in Below(h, b) /\ b \in h.live
      BY <2>5, <1>2, BelowInTrees
    <3>2. h.parent[y] \in h.live /\ y \in Ids
      BY <3>1, <2>3, <1>2, BelowInTrees
    <3>3. y \in Below(h, h.parent[y]) /\ Below(h, y) \subseteq Below(h, h.parent[y])
      BY <3>2, BelowInTrees
    <3>4. h.parent[y] \in U
      BY <2>3, <2>5, <3>1, <3>2, <3>3
    <3> QED BY <3>4, <2>2
  <2>6. a = y
    BY <2>4, <2>5
  <2>7. y \notin Topmost(h) /\ y \in Selected(h)
    BY <2>3, <2>4, <2>6
  <2>8. PICK b \in Climb(h, y) : b \in h.selected
    BY <2>7, <1>2 DEF HasSelectedParent
  <2>9. b \in h.live /\ b # y /\ y \in Below(h, b)
    BY <2>3, <2>8, ClimbProperties
  <2>10. x \in Below(h, b)
    BY <2>3, <2>9, BelowInTrees
  <2>11. b \in Selected(h)
    BY <2>7, <2>8, <2>9, <1>2, <1>4
  <2> QED BY <2>5, <2>9, <2>10, <2>11
<1>7. UNION {Below(h, x) : x \in Selected(h)} = UNION {Below(h, t) : t \in Topmost(h)}
  <2>1. ASSUME NEW x \in Selected(h), NEW y \in Below(h, x) PROVE \E t \in Topmost(h) : y \in Below(h, t)
    <3>1. PICK t \in Topmost(h) : x \in Below(h, t)
      BY <1>6
    <3>2. Below(h, x) \subseteq Below(h, t)
      BY <3>1, <1>2, BelowInTrees
    <3> QED BY <3>1, <3>2
  <2> QED BY <2>1, <1>2
<1>8. ASSUME NEW x \in Selected(h), h.parent[x] = NoObject PROVE x = h.root
  <2>1. x \in Tops(h) /\ x \in InModel(h)
    BY <1>2, <1>8 DEF Tops
  <2>2. x \in ToSet(h.buffer) => x \in InBuffer(h)
    BY <1>1, BelowInTrees
  <2> QED BY <2>1, <2>2, <1>1 DEF Forest
<1> QED BY <1>2, <1>3, <1>5, <1>6, <1>7, <1>8

\* h without the objects below those in B.
Deleted(h, B) ==
  LET gone == UNION {Below(h, o) : o \in B}
  IN  {g \in Heap :
         /\ Trees(g) /\ Tops(g) = Tops(h) \ B /\ g.live = h.live \ gone
         /\ g.root = (IF h.root \in B THEN NoObject ELSE h.root)
         /\ g.buffer = h.buffer /\ g.fault = h.fault
         /\ \A x \in g.live : g.parent[x] = h.parent[x]
         /\ \A x \in Topmost(h) \ B : Below(g, x) = Below(h, x)}

\* Deleting one more topmost selected object.
LEMMA DeleteNext ==
  ASSUME NEW h, Forest(h), NEW B \in SUBSET Topmost(h), NEW o \in Topmost(h) \ B, NEW g \in Deleted(h, B)
  PROVE  DeleteObject(g, o) \in Deleted(h, B \cup {o})
<1> DEFINE d == DeleteObject(g, o)
           gone == UNION {Below(h, x) : x \in B}
           more == UNION {Below(h, x) : x \in B \cup {o}}
<1> Trees(h) /\ LinkedBothWays(h)
  BY DEF Forest, Trees
<1>1. /\ Trees(g) /\ Tops(g) = Tops(h) \ B /\ g.live = h.live \ gone
      /\ g.root = (IF h.root \in B THEN NoObject ELSE h.root)
      /\ g.buffer = h.buffer /\ g.fault = h.fault
      /\ \A x \in g.live : g.parent[x] = h.parent[x]
      /\ \A x \in Topmost(h) \ B : Below(g, x) = Below(h, x)
  BY DEF Deleted
<1>2. /\ Topmost(h) \subseteq h.live /\ Topmost(h) \subseteq Selected(h)
      /\ \A x, y \in Topmost(h) : y \in Below(h, x) => x = y
      /\ \A x \in Selected(h) : h.parent[x] = NoObject => x = h.root
  BY TopmostProperties
<1>3. \A x \in Topmost(h) \ B : x \in g.live
  BY <1>1, <1>2
<1>4. g.parent[o] = NoObject => o = g.root
  BY <1>1, <1>2, <1>3
<1>5. /\ Trees(d) /\ Tops(d) = Tops(g) \ {o}
      /\ d.live = g.live \ Below(g, o) /\ d.selected = g.selected \ Below(g, o)
      /\ d.buffer = g.buffer /\ d.fault = g.fault
      /\ d.root = IF g.parent[o] = NoObject THEN NoObject ELSE g.root
      /\ \A x \in d.live : d.parent[x] = g.parent[x]
      /\ \A x \in d.live : g.parent[o] \notin Below(g, x) => Below(d, x) = Below(g, x)
  BY <1>1, <1>3, <1>4, DeleteProperties
<1>6. more = gone \cup Below(h, o)
  OBVIOUS
<1>7. d \in Heap
  BY <1>5 DEF Trees, LinkedBothWays
<1>8. Below(g, o) = Below(h, o) /\ o \in Below(h, o)
  BY <1>1, <1>2, BelowInTrees
<1> HIDE DEF d, gone, more
<1>9. Tops(d) = Tops(h) \ (B \cup {o}) /\ d.live = h.live \ more
  BY <1>1, <1>5, <1>6, <1>8
<1>10. \A x \in d.live : d.parent[x] = h.parent[x]
  BY <1>1, <1>5
<1>11. ASSUME NEW x \in Topmost(h) \ (B \cup {o}) PROVE Below(d, x) = Below(h, x)
  <2>1. x \in g.live /\ Below(g, x) = Below(h, x)
    BY <1>1, <1>3
  <2>2. x \notin Below(g, o) /\ o \notin Below(g, x)
    BY <2>1, <1>2, <1>8
  <2>3. x \in d.live
    BY <2>1, <2>2, <1>5
  <2>4. g.parent[o] \notin Below(g, x)
    <3>1. LinkedBothWays(g) /\ o \in Ids
      BY <1>1, <1>2, TypeOfTrees DEF Trees
    <3> QED BY <3>1, <2>1, <2>2, BelowInTrees
  <2> QED BY <2>1, <2>3, <2>4, <1>5
<1>12. d.root = IF h.root \in B \cup {o} THEN NoObject ELSE h.root
  <2>1. g.parent[o] = h.parent[o]
    BY <1>1, <1>3
  <2>2. h.parent[o] = NoObject => o = h.root
    BY <1>2
  <2>3. h.root = o => h.parent[o] = NoObject
    <3>1. o # NoObject
      BY <1>2, TypeOfTrees, NoObjectIsNone
    <3> QED BY <3>1 DEF Forest, Tops
  <2> QED BY <2>1, <2>2, <2>3, <1>1, <1>5
<1>13. d.buffer = h.buffer /\ d.fault = h.fault
  BY <1>1, <1>5
<1> QED BY <1>5, <1>7, <1>9, <1>10, <1>11, <1>12, <1>13 DEF Deleted, d, more

\* Delete takes what is selected with all that is below it.
LEMMA DeleteSelectionProperties ==
  ASSUME NEW h, Forest(h), NEW s \in InOrder(h, Topmost(h))
  PROVE  LET d == DeleteSelection(h, s)
         IN  /\ Forest(d)
             /\ d.live = h.live \ UNION {Below(h, o) : o \in Selected(h)}
             /\ \A x \in d.live : d.parent[x] = h.parent[x]
<1> DEFINE G == [i \in 0 .. Len(s) |-> Deleted(h, Done(s, i))]
           d == InTurn(DeleteObject, h, s)
           T == Topmost(h)
<1> Trees(h) /\ LinkedBothWays(h) /\ h \in Heap
  BY DEF Forest, Trees, LinkedBothWays
<1>1. /\ ClimbsSafely(h) /\ T \subseteq Selected(h) /\ T \subseteq Ids
      /\ UNION {Below(h, x) : x \in Selected(h)} = UNION {Below(h, t) : t \in T}
  BY TopmostProperties
<1>2. s \in Seq(Ids) /\ Len(s) \in Nat /\ IsInjective(s) /\ ToSet(s) = T
  BY <1>1, InOrderProperties
<1>3. h \in Deleted(h, {})
  BY DEF Deleted
<1>4. h \in G[0]
  <2>1. Done(s, 0) = {} /\ G[0] = Deleted(h, Done(s, 0))
    BY <1>2, DoneProperties
  <2> QED BY <1>3, <2>1
<1>5. ASSUME NEW i \in 1 .. Len(s), NEW g \in G[i - 1] PROVE DeleteObject(g, s[i]) \in G[i]
  <2>1. i - 1 \in 0 .. Len(s) /\ i \in 0 .. Len(s)
    BY <1>2
  <2>2. g \in Deleted(h, Done(s, i - 1))
    BY <1>5, <2>1
  <2>3. Done(s, i - 1) \subseteq ToSet(s)
    BY <1>2, <2>1, ElementsOfSeq DEF Done
  <2>4. s[i] \in ToSet(s) \ Done(s, i - 1) /\ Done(s, i) = Done(s, i - 1) \cup {s[i]}
    BY <1>2, DoneProperties
  <2>5. DeleteObject(g, s[i]) \in Deleted(h, Done(s, i - 1) \cup {s[i]})
    BY <2>2, <2>3, <2>4, <1>2, DeleteNext
  <2> QED BY <2>1, <2>4, <2>5
<1>6. d \in Deleted(h, T)
  <2> HIDE DEF G
  <2>1. d \in G[Len(s)]
    BY <1>2, <1>4, <1>5, DeleteInTurn
  <2>2. G[Len(s)] = Deleted(h, T)
    BY <1>2, DoneProperties DEF G
  <2> QED BY <2>1, <2>2
<1>7. DeleteSelection(h, s) = d
  BY <1>1 DEF DeleteSelection
<1> HIDE DEF d, G
<1>8. /\ Trees(d) /\ Tops(d) = Tops(h) \ T /\ d.live = h.live \ UNION {Below(h, o) : o \in T}
      /\ d.root = (IF h.root \in T THEN NoObject ELSE h.root)
      /\ d.buffer = h.buffer /\ d.fault = h.fault
      /\ \A x \in d.live : d.parent[x] = h.parent[x]
  BY <1>6 DEF Deleted
<1>9. T \cap ToSet(h.buffer) = {} /\ NoObject \notin ToSet(h.buffer)
  <2>1. /\ InModel(h) \cap InBuffer(h) = {} /\ ToSet(h.buffer) \subseteq h.live
        /\ InBuffer(h) = UNION {Below(h, o) : o \in ToSet(h.buffer)}
    BY OwnersOfForest
  <2>2. ToSet(h.buffer) \subseteq InBuffer(h)
    BY <2>1, BelowInTrees
  <2> QED BY <2>1, <2>2, <1>1, TypeOfTrees, NoObjectIsNone DEF Selected
<1>10. Forest(d)
  BY <1>8, <1>9 DEF Forest
<1> QED BY <1>1, <1>7, <1>8, <1>10

-----------------------------------------------------------------------------
(* Clones *)

\* A new hierarchy goes into the copy buffer.
LEMMA NewBuffered ==
  ASSUME NEW h, Forest(h), NEW s, Hierarchy(s), HasRoom(h, s)
  PROVE  LET g == [Build(h, s) EXCEPT !.buffer = Append(@, Top(h, s))]
         IN  /\ Forest(g) /\ h.live \subseteq g.live /\ g.root = h.root
             /\ \A x \in h.live : Below(g, x) = Below(h, x)
             /\ Cardinality(Ids \ g.live) = Cardinality(Ids \ h.live) - Cardinality(DOMAIN s.childs)
<1> DEFINE o == Top(h, s)
           b == Build(h, s)
           g == [b EXCEPT !.buffer = Append(@, o)]
<1>1. Trees(h) /\ LinkedBothWays(h) /\ Tops(h) = ({h.root} \ {NoObject}) \cup ToSet(h.buffer)
      /\ IsInjective(h.buffer) /\ h.fault = "none" /\ h.root \notin ToSet(h.buffer)
      /\ h.buffer \in Seq(Ids)
  BY TypeOfTrees DEF Forest, Trees
<1>2. /\ Trees(b) /\ o \in Tops(b) /\ o \notin h.live /\ Tops(b) = Tops(h) \cup {o}
      /\ b.live = h.live \cup Below(b, o) /\ h.live \cap Below(b, o) = {}
      /\ b.selected \cap h.live = h.selected
      /\ b.root = h.root /\ b.buffer = h.buffer /\ b.fault = h.fault
      /\ \A x \in h.live : /\ b.parent[x] = h.parent[x] /\ b.childs[x] = h.childs[x]
                           /\ Below(b, x) = Below(h, x)
      /\ Cardinality(Ids \ b.live) = Cardinality(Ids \ h.live) - Cardinality(DOMAIN s.childs)
  BY <1>1, BuildProperties
<1> HIDE DEF o, b
<1>3. b \in Heap /\ o \in Ids /\ b.selected \subseteq b.live
  BY <1>2, TypeOfTrees DEF Trees, LinkedBothWays, Tops
<1>4. o \notin ToSet(h.buffer) /\ o # h.root
  <2>1. ToSet(h.buffer) \subseteq h.live /\ h.root \in h.live \cup {NoObject}
    BY OwnersOfForest
  <2> QED BY <2>1, <1>2, <1>3, NoObjectIsNone
<1>5. /\ Append(h.buffer, o) \in Seq(Ids) /\ IsInjective(Append(h.buffer, o))
      /\ ToSet(Append(h.buffer, o)) = ToSet(h.buffer) \cup {o}
  BY <1>1, <1>3, <1>4, AppendElement
<1>6. /\ g.live = b.live /\ g.parent = b.parent /\ g.childs = b.childs /\ g.selected = b.selected
      /\ g.root = b.root /\ g.buffer = Append(h.buffer, o) /\ g.fault = b.fault /\ g \in Heap
  BY <1>2, <1>3, <1>5 DEF Heap
<1> HIDE DEF g
<1>7. Trees(g) /\ Tops(g) = Tops(b) /\ \A x : Below(g, x) = Below(b, x)
  BY <1>2, <1>3, <1>6, SameLinks
<1>8. Forest(g)
  BY <1>1, <1>2, <1>4, <1>5, <1>6, <1>7 DEF Forest
<1>9. \A x \in h.live : Below(g, x) = Below(h, x)
  BY <1>2, <1>7
<1>10. h.live \subseteq g.live /\ g.root = h.root
       /\ Cardinality(Ids \ g.live) = Cardinality(Ids \ h.live) - Cardinality(DOMAIN s.childs)
  BY <1>2, <1>6
<1> QED BY <1>8, <1>9, <1>10 DEF g, b, o

\* h with clones of the first i objects of list s, the hierarchies of which are still there.
Grown(h, s, i) ==
  {g \in Heap : /\ Forest(g) /\ h.live \subseteq g.live
                /\ \A x \in ToSet(s) : Below(g, x) = Below(h, x)
                /\ Cardinality(Ids \ g.live) = Cardinality(Ids \ h.live) - Cardinality(CopiesTo(h, s, i))}

\* There is room for the next clone.
LEMMA RoomForNext ==
  ASSUME NEW h, Forest(h), NEW s \in Seq(h.live), Cardinality(Copies(h, s)) <= Cardinality(Ids \ h.live),
         NEW i \in 1 .. Len(s), NEW g \in Grown(h, s, i - 1)
  PROVE  LET c == ShapeOf(g, s[i])
         IN  /\ Forest(g) /\ s[i] \in g.live /\ Hierarchy(c) /\ HasRoom(g, c)
             /\ h.live \subseteq g.live /\ \A x \in ToSet(s) : Below(g, x) = Below(h, x)
             /\ Cardinality(Ids \ g.live) - Cardinality(DOMAIN c.childs)
                  = Cardinality(Ids \ h.live) - Cardinality(CopiesTo(h, s, i))
<1> DEFINE c == ShapeOf(g, s[i])
           m == Cardinality(Ids \ h.live)
           n == Cardinality(CopiesTo(h, s, i - 1))
           k == Cardinality(CopiesTo(h, s, i))
           l == Cardinality(Below(h, s[i]))
           r == Cardinality(Ids \ g.live)
           q == Cardinality(Copies(h, s))
<1>0. q <= m
  OBVIOUS
<1> Trees(h) /\ LinkedBothWays(h)
  BY DEF Forest, Trees
<1>1. /\ Forest(g) /\ h.live \subseteq g.live
      /\ \A x \in ToSet(s) : Below(g, x) = Below(h, x) /\ r = m - n
  BY DEF Grown
<1>2. Len(s) \in Nat /\ s[i] \in h.live /\ s[i] \in ToSet(s) /\ i - 1 \in 0 .. Len(s) /\ i \in 0 .. Len(s)
  BY LenProperties, ElementsOfSeq
<1>3. s[i] \in g.live /\ Trees(g) /\ Below(g, s[i]) = Below(h, s[i])
  BY <1>1, <1>2 DEF Forest
<1>4. Hierarchy(c) /\ DOMAIN c.childs = Below(h, s[i])
  BY <1>3, ShapeIsHierarchy
<1>5. n \in Nat /\ k \in Nat /\ k <= q /\ k = n + l
  BY <1>2, CopiesCounted
<1>6. m \in Nat /\ l \in Nat /\ r \in Nat /\ q \in Nat
  <2>1. Below(h, s[i]) \subseteq Ids
    BY <1>2, BelowInTrees, TypeOfTrees
  <2>2. Cardinality(CopiesTo(h, s, Len(s))) \in Nat /\ CopiesTo(h, s, Len(s)) = Copies(h, s)
    BY <1>2, CopiesCounted
  <2> QED BY <2>1, <2>2, IdsAreFinite
<1> HIDE DEF c, m, n, k, l, r, q
<1>7. l <= r /\ r - l = m - k
  <2>1. r = m - n
    BY <1>1, <1>2
  <2> QED BY <2>1, <1>0, <1>5, <1>6
<1>8. HasRoom(g, c)
  BY <1>4, <1>7 DEF HasRoom, l, r
<1>9. r - Cardinality(DOMAIN c.childs) = m - k
  BY <1>4, <1>7 DEF l
<1> QED BY <1>1, <1>3, <1>4, <1>8, <1>9 DEF c, m, k, r

\* Copying puts clones of what is selected into the copy buffer.
LEMMA CopyKeeps ==
  ASSUME NEW h, Forest(h), NEW s \in InOrder(h, Topmost(h)),
         Cardinality(Copies(h, s)) <= Cardinality(Ids \ (h.live \ InBuffer(h)))
  PROVE  Forest(Copy(h, s))
<1> DEFINE c == ClearBuffer(h)
           G == [i \in 0 .. Len(s) |-> Grown(c, s, i)]
           d == InTurn(PushClone, c, s)
<1>1. /\ Forest(c) /\ c.live = InModel(h)
      /\ \A x \in c.live : Below(c, x) = Below(h, x)
  BY ClearBufferProperties
<1>2. ClimbsSafely(h) /\ Topmost(h) \subseteq Ids /\ Topmost(h) \subseteq InModel(h)
  BY TopmostProperties DEF Selected
<1>3. s \in Seq(Topmost(h)) /\ Len(s) \in Nat /\ ToSet(s) = Topmost(h) /\ \A i \in 1 .. Len(s) : s[i] \in Topmost(h)
  BY <1>2, InOrderProperties
<1>4. Copy(h, s) = d
  BY <1>2 DEF Copy
<1> HIDE DEF c
<1>5. s \in Seq(c.live)
  <2>1. Topmost(h) \subseteq c.live
    BY <1>1, <1>2
  <2> QED BY <2>1, <1>3
<1>6. h.live \ InBuffer(h) = c.live
  BY <1>1, OwnersOfForest
<1>7. Copies(h, s) = Copies(c, s)
  <2>1. \A i \in DOMAIN s : Below(c, s[i]) = Below(h, s[i])
    BY <1>1, <1>5
  <2> QED BY <2>1 DEF Copies
<1>8. Cardinality(Copies(c, s)) <= Cardinality(Ids \ c.live)
  BY <1>6, <1>7
<1>9. Trees(c) /\ LinkedBothWays(c) /\ c \in Heap
  BY <1>1 DEF Forest, Trees, LinkedBothWays
<1>10. c \in G[0]
  <2>1. CopiesTo(c, s, 0) = {} /\ Cardinality({}) = 0
    BY <1>5, <1>9, CopiesCounted, FS_EmptySet
  <2>2. Cardinality(Ids \ c.live) \in Nat
    BY IdsAreFinite
  <2>3. Cardinality(Ids \ c.live) = Cardinality(Ids \ c.live) - Cardinality(CopiesTo(c, s, 0))
    <3> DEFINE m == Cardinality(Ids \ c.live)
               n == Cardinality(CopiesTo(c, s, 0))
    <3>1. m \in Nat /\ n = 0
      BY <2>1, <2>2
    <3> HIDE DEF m, n, G, d
    <3>2. m = m - n
      BY <3>1
    <3> QED BY <3>2 DEF m, n
  <2>4. c \in Grown(c, s, 0)
    <3> HIDE DEF G, d
    <3> QED BY <2>3, <1>1, <1>9 DEF Grown
  <2> QED BY <2>4, <1>3
<1>11. ASSUME NEW i \in 1 .. Len(s), NEW g \in G[i - 1] PROVE PushClone(g, s[i]) \in G[i]
  <2>1. i - 1 \in 0 .. Len(s) /\ i \in 0 .. Len(s)
    BY <1>3
  <2>2. g \in Grown(c, s, i - 1)
    BY <1>11, <2>1
  <2> DEFINE k == ShapeOf(g, s[i])
             w == [Build(g, k) EXCEPT !.buffer = Append(@, Top(g, k))]
  <2>3. /\ Forest(g) /\ s[i] \in g.live /\ Hierarchy(k) /\ HasRoom(g, k)
        /\ c.live \subseteq g.live /\ \A x \in ToSet(s) : Below(g, x) = Below(c, x)
        /\ Cardinality(Ids \ g.live) - Cardinality(DOMAIN k.childs)
             = Cardinality(Ids \ c.live) - Cardinality(CopiesTo(c, s, i))
    BY <1>1, <1>5, <1>8, <2>2, RoomForNext
  <2> HIDE DEF k
  <2>4. /\ Forest(w) /\ g.live \subseteq w.live /\ w.root = g.root
        /\ \A x \in g.live : Below(w, x) = Below(g, x)
        /\ Cardinality(Ids \ w.live) = Cardinality(Ids \ g.live) - Cardinality(DOMAIN k.childs)
    BY <2>3, NewBuffered
  <2>5. PushClone(g, s[i]) = w
    BY <2>3 DEF PushClone, k, Forest
  <2> HIDE DEF w
  <2>6. ToSet(s) \subseteq g.live
    BY <2>3, <1>3, <1>1, <1>2
  <2>7. w \in Heap
    BY <2>4 DEF Forest, Trees, LinkedBothWays
  <2>8. \A x \in ToSet(s) : Below(w, x) = Below(c, x)
    BY <2>3, <2>4, <2>6
  <2>9. c.live \subseteq w.live
    BY <2>3, <2>4
  <2>10. w \in Grown(c, s, i)
    BY <2>3, <2>4, <2>7, <2>8, <2>9 DEF Grown
  <2> QED BY <2>1, <2>5, <2>10
<1>12. d \in G[Len(s)]
  <2> HIDE DEF G
  <2> QED BY <1>3, <1>10, <1>11, CloneInTurn
<1>13. Forest(d)
  BY <1>3, <1>12 DEF Grown
<1> QED BY <1>4, <1>13

\* Pasting below an object of the model links clones of the whole buffer below it.
LEMMA PasteIntoKeeps ==
  ASSUME NEW h, Forest(h), Cardinality(Copies(h, h.buffer)) <= Cardinality(Ids \ h.live),
         NEW where \in InModel(h)
  PROVE  Forest(PasteInto(h, where))
<1> DEFINE s == h.buffer
           G == [i \in 0 .. Len(s) |-> Grown(h, s, i)]
<1> Trees(h) /\ LinkedBothWays(h) /\ h \in Heap
  BY DEF Forest, Trees, LinkedBothWays
<1>1. s \in Seq(Ids) /\ Len(s) \in Nat /\ ToSet(s) \subseteq h.live
      /\ InBuffer(h) = UNION {Below(h, o) : o \in ToSet(s)}
      /\ InModel(h) \cap InBuffer(h) = {} /\ where \in h.live
  BY TypeOfTrees, OwnersOfForest, LenProperties
<1>2. s \in Seq(h.live)
  <2>1. \A i \in 1 .. Len(s) : s[i] \in h.live
    BY <1>1, ElementsOfSeq
  <2>2. s \in [1 .. Len(s) -> h.live]
    BY <1>1, <2>1, LenProperties
  <2> QED BY <2>2, <1>1, SeqDef
<1>3. \A x \in ToSet(s) : where \notin Below(h, x)
  BY <1>1
<1>4. h \in G[0]
  <2>1. CopiesTo(h, s, 0) = {} /\ Cardinality({}) = 0
    BY <1>2, CopiesCounted, FS_EmptySet
  <2>2. Cardinality(Ids \ h.live) \in Nat
    BY IdsAreFinite
  <2>3. h \in Grown(h, s, 0)
    BY <2>1, <2>2 DEF Grown
  <2> QED BY <2>3, <1>1
<1>5. ASSUME NEW i \in 1 .. Len(s), NEW g \in G[i - 1] PROVE PasteOne(where, g, s[i]) \in G[i]
  <2>1. i - 1 \in 0 .. Len(s) /\ i \in 0 .. Len(s)
    BY <1>1
  <2>2. g \in Grown(h, s, i - 1)
    BY <1>5, <2>1
  <2> DEFINE k == ShapeOf(g, s[i])
             w == LinkToParent(Build(g, k), Top(g, k), where)
  <2>3. /\ Forest(g) /\ s[i] \in g.live /\ Hierarchy(k) /\ HasRoom(g, k)
        /\ h.live \subseteq g.live /\ \A x \in ToSet(s) : Below(g, x) = Below(h, x)
        /\ Cardinality(Ids \ g.live) - Cardinality(DOMAIN k.childs)
             = Cardinality(Ids \ h.live) - Cardinality(CopiesTo(h, s, i))
    BY <1>2, <2>2, RoomForNext
  <2> HIDE DEF k
  <2>4. where \in g.live
    BY <2>3, <1>1
  <2>5. /\ Forest(w) /\ g.live \subseteq w.live
        /\ w.root = g.root /\ w.buffer = g.buffer
        /\ \A x \in g.live : where \notin Below(g, x) => Below(w, x) = Below(g, x)
        /\ Cardinality(Ids \ w.live) = Cardinality(Ids \ g.live) - Cardinality(DOMAIN k.childs)
    <3>1. Forest(g) /\ Hierarchy(k) /\ HasRoom(g, k) /\ where \in g.live
      BY <2>3, <2>4
    <3>2. HasNewChild(g, k, where, w)
      BY <3>1, NewChild
    <3> QED BY <3>2 DEF HasNewChild
  <2>6. PasteOne(where, g, s[i]) = w
    BY DEF PasteOne, k
  <2> HIDE DEF w, s
  <2>7. w \in Heap
    BY <2>5 DEF Forest, Trees, LinkedBothWays
  <2>8. \A x \in ToSet(s) : Below(w, x) = Below(h, x)
    BY <2>3, <2>5, <1>1, <1>3
  <2>9. h.live \subseteq w.live
    BY <2>3, <2>5
  <2>10. w \in Grown(h, s, i)
    BY <2>3, <2>5, <2>7, <2>8, <2>9 DEF Grown
  <2> QED BY <2>1, <2>6, <2>10
<1>6. PasteInto(h, where) \in G[Len(s)]
  <2> HIDE DEF G
  <2> QED BY <1>1, <1>4, <1>5, PasteInTurn
<1> QED BY <1>1, <1>6 DEF Grown

\* A clone becomes the root when there is none.
LEMMA PasteRootKeeps ==
  ASSUME NEW h, Forest(h), Cardinality(Copies(h, h.buffer)) <= Cardinality(Ids \ h.live)
  PROVE  Forest(PasteRoot(h))
<1> SUFFICES ASSUME h.buffer # <<>>, h.root = NoObject PROVE Forest(PasteRoot(h))
  BY DEF PasteRoot
<1> DEFINE o == Head(h.buffer)
           s == ShapeOf(h, o)
<1> Trees(h) /\ LinkedBothWays(h) /\ h \in Heap
  BY DEF Forest, Trees, LinkedBothWays
<1>1. h.buffer \in Seq(Ids) /\ Len(h.buffer) \in Nat /\ 1 \in 1 .. Len(h.buffer) /\ o = h.buffer[1]
  BY TypeOfTrees
<1>2. h.buffer \in Seq(h.live) /\ o \in h.live
  <2>1. ToSet(h.buffer) \subseteq h.live
    BY OwnersOfForest
  <2>2. \A i \in 1 .. Len(h.buffer) : h.buffer[i] \in h.live
    BY <1>1, <2>1, ElementsOfSeq
  <2>3. h.buffer \in [1 .. Len(h.buffer) -> h.live]
    BY <1>1, <2>2, LenProperties
  <2> QED BY <2>2, <2>3, <1>1, SeqDef
<1>3. /\ Cardinality(CopiesTo(h, h.buffer, 1)) = Cardinality(CopiesTo(h, h.buffer, 1 - 1)) + Cardinality(Below(h, h.buffer[1]))
      /\ Cardinality(CopiesTo(h, h.buffer, 1)) <= Cardinality(Copies(h, h.buffer))
      /\ CopiesTo(h, h.buffer, 0) = {}
      /\ Cardinality(CopiesTo(h, h.buffer, 1)) \in Nat
  <2>1. 1 \in 0 .. Len(h.buffer)
    BY <1>1
  <2> QED BY <2>1, <1>1, <1>2, CopiesCounted
<1>4. Cardinality(Below(h, o)) <= Cardinality(Ids \ h.live)
  <2>1. Cardinality({}) = 0
    BY FS_EmptySet
  <2>2. Cardinality(Below(h, o)) \in Nat /\ Cardinality(Ids \ h.live) \in Nat
    <3>1. Below(h, o) \subseteq Ids
      BY <1>2, BelowInTrees, TypeOfTrees
    <3> QED BY <3>1, IdsAreFinite
  <2>3. Cardinality(Copies(h, h.buffer)) \in Nat
    <3>1. Len(h.buffer) \in 0 .. Len(h.buffer)
      BY <1>1
    <3> QED BY <3>1, <1>2, CopiesCounted
  <2>4. Cardinality(CopiesTo(h, h.buffer, 1 - 1)) = 0
    <3>1. 1 - 1 = 0
      OBVIOUS
    <3> QED BY <3>1, <2>1, <1>3
  <2> HIDE DEF o
  <2> QED BY <2>2, <2>3, <2>4, <1>1, <1>3
<1>5. Hierarchy(s) /\ DOMAIN s.childs = Below(h, o)
  BY <1>2, ShapeIsHierarchy
<1>6. HasRoom(h, s)
  BY <1>4, <1>5 DEF HasRoom
<1>7. PasteRoot(h) = [Build(h, s) EXCEPT !.root = Top(h, s)]
  BY DEF PasteRoot
<1> HIDE DEF s
<1> QED BY <1>5, <1>6, <1>7, NewModel

-----------------------------------------------------------------------------
(* Merging *)

\* The fields of what MergeChild leaves.
LEMMA MergeChildFields ==
  ASSUME NEW h, Trees(h), NEW o \in h.live, NEW p \in h.live, h.parent[o] = p
  PROVE  LET w == MergeChild(h, p, o)
         IN  /\ w \in Heap /\ w.live = h.live \ {o} /\ w.selected = h.selected \ {o}
             /\ w.root = h.root /\ w.buffer = h.buffer /\ w.fault = h.fault
             /\ \A x \in Ids : w.parent[x] = IF x = o THEN NoObject
                                             ELSE IF h.parent[x] = o THEN p ELSE h.parent[x]
             /\ \A x \in Ids : w.childs[x] = IF x = o THEN <<>>
                                             ELSE IF x = p THEN RemoveFirst(h.childs[p] \o h.childs[o], o)
                                             ELSE h.childs[x]
             /\ p # o /\ RemoveFirst(h.childs[p] \o h.childs[o], o) \in Seq(Ids)
             /\ IsInjective(RemoveFirst(h.childs[p] \o h.childs[o], o))
             /\ ToSet(RemoveFirst(h.childs[p] \o h.childs[o], o)) = (Kids(h, p) \cup Kids(h, o)) \ {o}
<1> DEFINE r == RemoveFirst(h.childs[p] \o h.childs[o], o)
           P == [x \in Ids |-> IF x \in ToSet(h.childs[o]) THEN p ELSE h.parent[x]]
           C == [[h.childs EXCEPT ![p] = r] EXCEPT ![o] = <<>>]
           m == [h EXCEPT !.childs[p] = RemoveFirst(@ \o h.childs[o], o),
                          !.childs[o] = <<>>,
                          !.parent = [x \in Ids |-> IF x \in ToSet(h.childs[o]) THEN p ELSE @[x]]]
           w == MergeChild(h, p, o)
<1> LinkedBothWays(h) /\ h \in Heap /\ h.live \subseteq Ids
  BY TypeOfTrees DEF Trees, LinkedBothWays
<1>0. /\ h.childs \in [Ids -> Seq(Ids)] /\ h.parent \in [Ids -> Ids \cup {NoObject}]
      /\ p \in Ids /\ o \in Ids /\ p # o
      /\ h.childs[p] \in Seq(Ids) /\ h.childs[o] \in Seq(Ids)
      /\ IsInjective(h.childs[p]) /\ IsInjective(h.childs[o])
      /\ \A x \in Ids : x \in ToSet(h.childs[o]) <=> h.parent[x] = o
      /\ \A x \in Ids : x \in ToSet(h.childs[p]) <=> h.parent[x] = p
  BY TypeOfTrees, NoLoop DEF Kids
<1>1. r \in Seq(Ids) /\ IsInjective(r) /\ ToSet(r) = (Kids(h, p) \cup Kids(h, o)) \ {o}
  <2> DEFINE c == h.childs[p] \o h.childs[o]
  <2>1. ToSet(h.childs[p]) \cap ToSet(h.childs[o]) = {}
    BY <1>0, ElementsOfSeq
  <2>2. c \in Seq(Ids) /\ IsInjective(c) /\ ToSet(c) = Kids(h, p) \cup Kids(h, o)
    BY <2>1, <1>0, ConcatElements DEF Kids
  <2>3. o \in Kids(h, p)
    BY <1>0 DEF Kids
  <2> HIDE DEF c
  <2>4. o \in ToSet(c)
    BY <2>2, <2>3
  <2>5. /\ RemoveFirst(c, o) \in Seq(Ids) /\ IsInjective(RemoveFirst(c, o))
        /\ ToSet(RemoveFirst(c, o)) = ToSet(c) \ {o}
    BY <2>2, <2>4, RemoveFirstProperties
  <2> QED BY <2>2, <2>5 DEF c, r
<1> HIDE DEF r
<1>2. m = [h EXCEPT !.childs = C, !.parent = P]
  BY <1>0 DEF r, Heap
<1> HIDE DEF m
<1>3. /\ m.live = h.live /\ m.selected = h.selected /\ m.root = h.root /\ m.buffer = h.buffer
      /\ m.fault = h.fault /\ m.parent = P /\ m.childs = C
  <2> HIDE DEF P, C
  <2> QED BY <1>2 DEF Heap
<1>4. <<>> \in Seq(Ids) /\ ToSet(<<>>) = {} /\ DOMAIN <<>> = {}
  BY DEF ToSet
<1>5. /\ C \in [Ids -> Seq(Ids)] /\ C[o] = <<>> /\ C[p] = r
      /\ \A x \in Ids \ {o, p} : C[x] = h.childs[x]
  BY <1>0, <1>1, <1>4
<1>6. P \in [Ids -> Ids \cup {NoObject}]
      /\ \A x \in Ids : P[x] = IF h.parent[x] = o THEN p ELSE h.parent[x]
  BY <1>0
<1> HIDE DEF P, C
<1>7. m \in Heap
  BY <1>2, <1>5, <1>6 DEF Heap
<1>8. Below(m, o) = {o}
  <2>1. m.childs \in [Ids -> Seq(Ids)] /\ Kids(m, o) = {} /\ {o} \in SUBSET Ids
    BY <1>0, <1>3, <1>4, <1>5 DEF Kids
  <2>2. Below(m, o) \subseteq {o}
    <3>1. \A q \in {o} : Kids(m, q) \subseteq {o}
      BY <2>1
    <3> QED BY <2>1, <3>1, BelowIsLeast
  <2>3. o \in Below(m, o)
    BY <2>1, <1>0, BelowIsClosed
  <2> QED BY <2>2, <2>3
<1>9. MetOnce(m, <<o>>)
  <2>1. ToSet(<<o>>) = {o}
    BY DEF ToSet
  <2>2. BelowAll(m, <<o>>) = {o}
    BY <2>1, <1>8 DEF BelowAll
  <2>3. DOMAIN m.childs[o] = {} /\ ToSet(m.childs[o]) = {}
    BY <1>3, <1>4, <1>5
  <2>4. Apart(m.childs, {o})
    BY <2>3 DEF Apart
  <2>5. IsInjective(<<o>>)
    BY DEF IsInjective
  <2> QED BY <2>2, <2>3, <2>4, <2>5 DEF MetOnce
<1>10. w = Without(m, {o})
  BY <1>3, <1>8, <1>9 DEF MergeChild, Destroy, m
<1> HIDE DEF w
<1>11. /\ w.live = h.live \ {o} /\ w.selected = h.selected \ {o}
       /\ w.root = h.root /\ w.buffer = h.buffer /\ w.fault = h.fault
       /\ w.parent = [x \in Ids |-> IF x \in {o} THEN NoObject ELSE P[x]]
       /\ w.childs = [x \in Ids |-> IF x \in {o} THEN <<>> ELSE C[x]]
       /\ w = [live |-> w.live, parent |-> w.parent, childs |-> w.childs, selected |-> w.selected,
               root |-> w.root, buffer |-> w.buffer, fault |-> w.fault]
  <2> DEFINE Q == [x \in Ids |-> IF x \in {o} THEN NoObject ELSE m.parent[x]]
             E == [x \in Ids |-> IF x \in {o} THEN <<>> ELSE m.childs[x]]
  <2> HIDE DEF Q, E
  <2>1. w = [m EXCEPT !.live = @ \ {o}, !.parent = Q, !.childs = E, !.selected = @ \ {o}]
    BY <1>10 DEF Without, Q, E
  <2>2. /\ w.live = m.live \ {o} /\ w.selected = m.selected \ {o} /\ w.parent = Q /\ w.childs = E
        /\ w.root = m.root /\ w.buffer = m.buffer /\ w.fault = m.fault
        /\ w = [live |-> w.live, parent |-> w.parent, childs |-> w.childs, selected |-> w.selected,
                root |-> w.root, buffer |-> w.buffer, fault |-> w.fault]
    BY <1>7, <2>1 DEF Heap
  <2> QED BY <2>2, <1>3 DEF Q, E
<1>12. w.parent \in [Ids -> Ids \cup {NoObject}] /\ w.childs \in [Ids -> Seq(Ids)]
  BY <1>4, <1>5, <1>6, <1>11
<1>13. w \in Heap
  BY <1>11, <1>12, TypeOfTrees, FieldsOfHeap
<1>14. \A x \in Ids : w.parent[x] = IF x = o THEN NoObject
                                    ELSE IF h.parent[x] = o THEN p ELSE h.parent[x]
  BY <1>6, <1>11
<1>15. \A x \in Ids : w.childs[x] = IF x = o THEN <<>> ELSE IF x = p THEN r ELSE h.childs[x]
  BY <1>5, <1>11
<1> QED BY <1>0, <1>1, <1>11, <1>13, <1>14, <1>15 DEF r, w

\* An object is merged with its parent: it is gone, and what was below it hangs where it did.
LEMMA MergeChildProperties ==
  ASSUME NEW h, Trees(h), NEW o \in h.live, NEW p \in h.live, h.parent[o] = p
  PROVE  LET w == MergeChild(h, p, o)
         IN  /\ Trees(w) /\ Tops(w) = Tops(h)
             /\ w.live = h.live \ {o}
             /\ w.root = h.root /\ w.buffer = h.buffer /\ w.fault = h.fault
             /\ \A x \in w.live : Below(w, x) = Below(h, x) \ {o}
<1> DEFINE r == RemoveFirst(h.childs[p] \o h.childs[o], o)
           w == MergeChild(h, p, o)
<1> LinkedBothWays(h) /\ h \in Heap /\ Acyclic(h)
  BY DEF Trees, LinkedBothWays
<1>1. /\ w \in Heap /\ w.live = h.live \ {o} /\ w.selected = h.selected \ {o}
      /\ w.root = h.root /\ w.buffer = h.buffer /\ w.fault = h.fault
      /\ \A x \in Ids : w.parent[x] = IF x = o THEN NoObject
                                      ELSE IF h.parent[x] = o THEN p ELSE h.parent[x]
      /\ \A x \in Ids : w.childs[x] = IF x = o THEN <<>> ELSE IF x = p THEN r ELSE h.childs[x]
      /\ p # o /\ r \in Seq(Ids) /\ IsInjective(r)
      /\ ToSet(r) = (Kids(h, p) \cup Kids(h, o)) \ {o}
  BY MergeChildFields
<1> HIDE DEF w, r
<1>2. /\ h.live \subseteq Ids /\ h.selected \subseteq h.live
      /\ \A x \in Ids : h.parent[x] \in h.live \cup {NoObject}
      /\ \A x \in Ids : h.parent[x] # NoObject => x \in h.live
      /\ \A q, x \in Ids : x \in Kids(h, q) <=> h.parent[x] = q
      /\ \A q \in Ids : IsInjective(h.childs[q])
      /\ h.childs \in [Ids -> Seq(Ids)] /\ p \in Ids /\ o \in Ids
      /\ o # NoObject /\ p # NoObject
  BY TypeOfTrees, NoObjectIsNone
<1>3. <<>> \in Seq(Ids) /\ IsInjective(<<>>) /\ ToSet(<<>>) = {}
  BY DEF IsInjective, ToSet
<1>4. \A q \in Ids : IsInjective(w.childs[q])
  BY <1>1, <1>2, <1>3
<1>5. \A x \in Ids : w.parent[x] \in w.live \cup {NoObject} /\ (x \notin w.live => w.parent[x] = NoObject)
  <2> SUFFICES ASSUME NEW x \in Ids
               PROVE  w.parent[x] \in w.live \cup {NoObject} /\ (x \notin w.live => w.parent[x] = NoObject)
    OBVIOUS
  <2>1. CASE x = o
    BY <2>1, <1>1
  <2>2. CASE x # o /\ h.parent[x] = o
    BY <2>2, <1>1, <1>2
  <2>3. CASE x # o /\ h.parent[x] # o
    BY <2>3, <1>1, <1>2
  <2> QED BY <2>1, <2>2, <2>3
<1>6. ASSUME NEW q \in Ids, NEW x \in Ids PROVE x \in Kids(w, q) <=> w.parent[x] = q
  <2>0. q # NoObject /\ o # NoObject
    BY <1>2, NoObjectIsNone
  <2>1. CASE q = o
    <3>1. Kids(w, q) = {}
      BY <2>1, <1>1, <1>3 DEF Kids
    <3>2. w.parent[x] # q
      BY <2>0, <2>1, <1>1
    <3> QED BY <3>1, <3>2
  <2>2. CASE q = p
    <3>1. Kids(w, q) = (Kids(h, p) \cup Kids(h, o)) \ {o}
      BY <2>2, <1>1 DEF Kids
    <3> QED BY <3>1, <2>0, <2>2, <1>1, <1>2
  <2>3. CASE q # o /\ q # p
    <3>1. Kids(w, q) = Kids(h, q)
      BY <2>3, <1>1 DEF Kids
    <3>2. x \in Kids(w, q) <=> h.parent[x] = q
      BY <3>1, <1>2
    <3>3. CASE x = o
      BY <3>2, <3>3, <2>0, <2>3, <1>1
    <3>4. CASE x # o
      BY <3>2, <3>4, <2>3, <1>1
    <3> QED BY <3>3, <3>4
  <2> QED BY <2>1, <2>2, <2>3
<1>7. LinkedBothWays(w)
  BY <1>1, <1>2, <1>4, <1>5, <1>6 DEF LinkedBothWays
<1>8. Acyclic(w)
  <2> SUFFICES ASSUME NEW S \in SUBSET w.live, S # {} PROVE \E x \in S : w.parent[x] \notin S
    BY DEF Acyclic
  <2>0. S \subseteq h.live /\ S \subseteq Ids /\ o \notin S
    BY <1>1, <1>2
  <2>1. CASE \E y \in S : h.parent[y] = o
    <3>1. PICK y \in S : h.parent[y] = o
      BY <2>1
    <3>2. PICK x \in S \cup {o} : h.parent[x] \notin S \cup {o}
      <4>1. S \cup {o} \in SUBSET h.live /\ S \cup {o} # {}
        BY <2>0
      <4> QED BY <4>1 DEF Acyclic
    <3>3. CASE x = o
      <4>1. w.parent[y] = p /\ p \notin S
        BY <3>1, <3>2, <3>3, <2>0, <1>1
      <4> QED BY <4>1, <3>1
    <3>4. CASE x # o
      <4>1. x \in S /\ w.parent[x] = h.parent[x]
        BY <3>2, <3>4, <2>0, <1>1
      <4> QED BY <4>1, <3>2
    <3> QED BY <3>3, <3>4
  <2>2. CASE \A y \in S : h.parent[y] # o
    <3>1. PICK x \in S : h.parent[x] \notin S
      BY <2>0 DEF Acyclic
    <3>2. w.parent[x] = h.parent[x]
      BY <3>1, <2>0, <2>2, <1>1
    <3> QED BY <3>1, <3>2
  <2> QED BY <2>1, <2>2
<1>9. Tops(w) = Tops(h)
  <2>1. ASSUME NEW x \in Ids, x # o PROVE w.parent[x] = NoObject <=> h.parent[x] = NoObject
    <3>1. w.parent[x] = IF h.parent[x] = o THEN p ELSE h.parent[x]
      BY <2>1, <1>1
    <3> QED BY <3>1, <1>2
  <2>2. o \notin Tops(h)
    BY <1>2, NoObjectIsNone DEF Tops
  <2> QED BY <2>1, <2>2, <1>1, <1>2 DEF Tops
<1>10. ASSUME NEW x \in w.live PROVE Below(w, x) = Below(h, x) \ {o}
  <2>0. x \in h.live /\ x # o /\ x \in Ids
    BY <1>1, <1>2
  <2>1. /\ x \in Below(h, x) /\ Below(h, x) \subseteq Ids
        /\ \A y \in Ids : h.parent[y] \in Below(h, x) => y \in Below(h, x)
        /\ \A y \in Below(h, x) : y # x => h.parent[y] \in Below(h, x)
    BY <2>0, <1>2, BelowInTrees
  <2>2. /\ x \in Below(w, x) /\ Below(w, x) \subseteq w.live
        /\ \A y \in Ids : w.parent[y] \in Below(w, x) => y \in Below(w, x)
    BY <1>7, <1>10, BelowInTrees
  <2>3. Below(w, x) \subseteq Below(h, x) \ {o}
    <3> DEFINE S == Below(h, x) \ {o}
    <3>1. x \in S /\ S \in SUBSET Ids
      BY <2>0, <2>1
    <3>2. \A q \in S : Kids(w, q) \subseteq S
      <4> SUFFICES ASSUME NEW q \in S, NEW y \in Kids(w, q) PROVE y \in S
        OBVIOUS
      <4>1. q \in Ids /\ y \in Ids /\ w.parent[y] = q /\ q # NoObject
        BY <3>1, <1>7, <1>2, <1>1, TypeOfTrees, NoObjectIsNone
      <4>2. y # o
        BY <4>1, <1>1
      <4>3. CASE h.parent[y] = o
        <5>1. q = p /\ p \in Below(h, x)
          BY <4>1, <4>2, <4>3, <1>1
        <5>2. o \in Below(h, x)
          BY <5>1, <2>1, <1>2
        <5> QED BY <5>2, <4>1, <4>2, <4>3, <2>1
      <4>4. CASE h.parent[y] # o
        <5>1. h.parent[y] = q
          BY <4>1, <4>2, <4>4, <1>1
        <5> QED BY <5>1, <4>1, <4>2, <2>1
      <4> QED BY <4>3, <4>4
    <3> HIDE DEF S
    <3>3. Below(w, x) \subseteq S
      BY <3>1, <3>2, BelowIsLeast
    <3> QED BY <3>3 DEF S
  <2>4. Below(h, x) \subseteq Below(w, x) \cup {o}
    <3> DEFINE S == Below(w, x) \cup {z \in {o} : p \in Below(w, x)}
    <3>1. x \in S /\ S \in SUBSET Ids
      BY <2>2, <1>1, <1>2
    <3>2. \A q \in S : Kids(h, q) \subseteq S
      <4> SUFFICES ASSUME NEW q \in S, NEW y \in Kids(h, q) PROVE y \in S
        OBVIOUS
      <4>1. q \in Ids /\ y \in Ids /\ h.parent[y] = q
        BY <3>1, <1>2, TypeOfTrees
      <4>2. CASE q = o
        <5>1. p \in Below(w, x)
          BY <4>2, <2>2, <1>1
        <5>2. y # o /\ w.parent[y] = p
          BY <4>1, <4>2, <1>1
        <5> QED BY <5>1, <5>2, <4>1, <2>2
      <4>3. CASE q # o /\ y = o
        BY <4>1, <4>3
      <4>4. CASE q # o /\ y # o
        <5>1. w.parent[y] = q /\ q \in Below(w, x)
          BY <4>1, <4>4, <1>1
        <5> QED BY <5>1, <4>1, <2>2
      <4> QED BY <4>2, <4>3, <4>4
    <3> HIDE DEF S
    <3>3. Below(h, x) \subseteq S
      BY <3>1, <3>2, BelowIsLeast
    <3> QED BY <3>3 DEF S
  <2> QED BY <2>2, <2>3, <2>4, <1>1
<1> QED BY <1>1, <1>7, <1>8, <1>9, <1>10 DEF Trees, w

\* h with the objects of B merged with their parents; the root has none.
Merged(h, B) ==
  {g \in Heap :
     /\ Trees(g) /\ Tops(g) = Tops(h) /\ g.live = h.live \ (B \ {h.root})
     /\ g.root = h.root /\ g.buffer = h.buffer /\ g.fault = h.fault
     /\ \A x \in g.live : Below(g, x) = Below(h, x) \ (B \ {h.root})}

\* Merging one more selected object.
LEMMA MergeNextKeeps ==
  ASSUME NEW h, Forest(h), NEW B \in SUBSET Selected(h), NEW o \in Selected(h) \ B, NEW g \in Merged(h, B)
  PROVE  MergeNext(g, o) \in Merged(h, B \cup {o})
<1> DEFINE D == B \ {h.root}
           w == MergeChild(g, g.parent[o], o)
<1>1. /\ Trees(g) /\ Tops(g) = Tops(h) /\ g.live = h.live \ D
      /\ g.root = h.root /\ g.buffer = h.buffer /\ g.fault = h.fault
      /\ \A x \in g.live : Below(g, x) = Below(h, x) \ D
  BY DEF Merged
<1>2. Selected(h) \subseteq h.live /\ \A x \in Selected(h) : h.parent[x] = NoObject => x = h.root
  BY TopmostProperties
<1>3. o \in g.live /\ LinkedBothWays(g)
  BY <1>1, <1>2 DEF Trees
<1>4. CASE g.parent[o] = NoObject
  <2>1. o \in Tops(h)
    BY <1>1, <1>3, <1>4 DEF Tops
  <2>2. o = h.root
    BY <2>1, <1>2 DEF Tops
  <2>3. (B \cup {o}) \ {h.root} = B \ {h.root}
    BY <2>2
  <2>4. MergeNext(g, o) = g
    BY <1>4 DEF MergeNext
  <2> QED BY <2>3, <2>4 DEF Merged
<1>5. CASE g.parent[o] # NoObject
  <2>1. /\ o \in Ids /\ g.parent[o] \in g.live /\ g.parent[o] \in Ids
        /\ o \in ToSet(g.childs[g.parent[o]])
    BY <1>3, <1>5, TypeOfTrees DEF Kids
  <2>2. MergeNext(g, o) = w
    BY <2>1, <1>5 DEF MergeNext, Linked
  <2>3. /\ Trees(w) /\ Tops(w) = Tops(g)
        /\ w.live = g.live \ {o}
        /\ w.root = g.root /\ w.buffer = g.buffer /\ w.fault = g.fault
        /\ \A x \in w.live : Below(w, x) = Below(g, x) \ {o}
    BY <2>1, <1>1, <1>3, MergeChildProperties
  <2> HIDE DEF w
  <2>4. o # h.root
    <3>1. o \notin Tops(h)
      BY <1>1, <1>5 DEF Tops
    <3>2. o # NoObject
      BY <2>1, NoObjectIsNone
    <3> QED BY <3>1, <3>2 DEF Forest
  <2>5. (B \cup {o}) \ {h.root} = D \cup {o}
    BY <2>4
  <2>6. w \in Heap
    BY <2>3 DEF Trees, LinkedBothWays
  <2> HIDE DEF D
  <2>7. w.live = h.live \ (D \cup {o}) /\ \A x \in w.live : Below(w, x) = Below(h, x) \ (D \cup {o})
    BY <2>3, <1>1
  <2>8. w \in Merged(h, B \cup {o})
    BY <2>3, <2>5, <2>6, <2>7, <1>1 DEF Merged
  <2> QED BY <2>2, <2>8
<1> QED BY <1>4, <1>5

\* Merging removes the selected objects that have a parent; the others are below the
\* same objects as before.
LEMMA MergeSelectionProperties ==
  ASSUME NEW h, Forest(h), NEW s \in GetSelectedObjects(h)
  PROVE  LET m == MergeSelection(h, s)
             merged == Selected(h) \ {h.root}
         IN  /\ Forest(m) /\ m.live = h.live \ merged /\ m.root = h.root
             /\ \A x \in m.live : Below(m, x) = Below(h, x) \ merged
<1> DEFINE G == [i \in 0 .. Len(s) |-> Merged(h, Done(s, i))]
           m == InTurn(MergeNext, h, s)
           T == Selected(h)
<1> Trees(h) /\ LinkedBothWays(h) /\ h \in Heap
  BY DEF Forest, Trees, LinkedBothWays
<1>1. T \subseteq Ids
  BY TopmostProperties, TypeOfTrees
<1>2. s \in Seq(Ids) /\ Len(s) \in Nat /\ IsInjective(s) /\ ToSet(s) = T
  BY <1>1, InOrderProperties DEF GetSelectedObjects
<1>3. h \in Merged(h, {})
  BY DEF Merged
<1>4. h \in G[0]
  <2>1. Done(s, 0) = {} /\ G[0] = Merged(h, Done(s, 0))
    BY <1>2, DoneProperties
  <2> QED BY <1>3, <2>1
<1>5. ASSUME NEW i \in 1 .. Len(s), NEW g \in G[i - 1] PROVE MergeNext(g, s[i]) \in G[i]
  <2>1. i - 1 \in 0 .. Len(s) /\ i \in 0 .. Len(s)
    BY <1>2
  <2>2. g \in Merged(h, Done(s, i - 1))
    BY <1>5, <2>1
  <2>3. Done(s, i - 1) \subseteq ToSet(s)
    BY <1>2, <2>1, ElementsOfSeq DEF Done
  <2>4. s[i] \in ToSet(s) \ Done(s, i - 1) /\ Done(s, i) = Done(s, i - 1) \cup {s[i]}
    BY <1>2, DoneProperties
  <2>5. MergeNext(g, s[i]) \in Merged(h, Done(s, i - 1) \cup {s[i]})
    BY <2>2, <2>3, <2>4, <1>2, MergeNextKeeps
  <2> QED BY <2>1, <2>4, <2>5
<1>6. m \in Merged(h, T)
  <2> HIDE DEF G
  <2>1. m \in G[Len(s)]
    BY <1>2, <1>4, <1>5, MergeInTurn
  <2>2. G[Len(s)] = Merged(h, T)
    BY <1>2, DoneProperties DEF G
  <2> QED BY <2>1, <2>2
<1>7. MergeSelection(h, s) = m
  BY DEF MergeSelection
<1> HIDE DEF m, G
<1>8. /\ Trees(m) /\ Tops(m) = Tops(h) /\ m.live = h.live \ (T \ {h.root})
      /\ m.root = h.root /\ m.buffer = h.buffer /\ m.fault = h.fault
      /\ \A x \in m.live : Below(m, x) = Below(h, x) \ (T \ {h.root})
  BY <1>6 DEF Merged
<1>9. Forest(m)
  BY <1>8 DEF Forest
<1> QED BY <1>7, <1>8, <1>9

-----------------------------------------------------------------------------
(* Cutting *)

\* Induction from the objects without childs upwards.
LEMMA BottomUp ==
  ASSUME NEW h, Trees(h), NEW S, \A x \in h.live : Kids(h, x) \subseteq S => x \in S
  PROVE  h.live \subseteq S
<1> LinkedBothWays(h)
  BY DEF Trees
<1> DEFINE Size(x) == Cardinality(Below(h, x))
           N == {Size(x) : x \in h.live \ S}
<1> SUFFICES ASSUME h.live \ S # {} PROVE FALSE
  OBVIOUS
<1>1. ASSUME NEW x \in h.live
      PROVE  /\ Below(h, x) \subseteq Ids /\ IsFiniteSet(Below(h, x)) /\ Size(x) \in Nat
  <2>1. Below(h, x) \subseteq Ids
    BY BelowInTrees, TypeOfTrees
  <2> QED BY <2>1, IdsAreFinite
<1>2. ASSUME NEW x \in h.live, NEW y \in Kids(h, x) PROVE y \in h.live /\ Size(y) < Size(x)
  <2>1. x \in Ids /\ y \in Ids /\ y \in h.live /\ h.parent[y] = x
    BY TypeOfTrees
  <2>2. y \in Below(h, x) /\ Below(h, y) \subseteq Below(h, x) /\ x \in Below(h, x)
    BY <2>1, BelowInTrees
  <2>3. x \notin Below(h, y)
    BY <2>1, <2>2, BelowIsAntisymmetric, NoLoop
  <2>4. Size(y) <= Size(x) /\ Size(y) # Size(x)
    BY <2>2, <2>3, <1>1, FS_Subset
  <2> QED BY <2>1, <2>4, <1>1
<1>3. N \subseteq Nat /\ N # {}
  BY <1>1
<1>4. PICK n \in N : \A m \in N : ~ (<<m, n>> \in OpToRel(<, Nat))
  BY <1>3, WFMin, NatLessThanWellFounded
<1>5. PICK x \in h.live \ S : n = Size(x)
  BY <1>4
<1>6. PICK y \in Kids(h, x) : y \notin S
  BY <1>5
<1>7. y \in h.live \ S /\ Size(y) < Size(x)
  BY <1>2, <1>5, <1>6
<1>8. Size(y) \in N /\ Size(y) \in Nat /\ Size(x) \in Nat
  BY <1>1, <1>5, <1>7
<1> HIDE DEF N, Size
<1> QED BY <1>4, <1>5, <1>7, <1>8 DEF OpToRel

\* What is below an object is below one of its childs.
LEMMA BelowIsBelowKids ==
  ASSUME NEW h, LinkedBothWays(h), NEW z \in h.live, NEW y \in Below(h, z), y # z
  PROVE  \E j \in DOMAIN h.childs[z] : h.childs[z][j] \in Kids(h, z) /\ y \in Below(h, h.childs[z][j])
<1> DEFINE S == {z} \cup UNION {Below(h, k) : k \in Kids(h, z)}
<1>1. /\ z \in Ids /\ h.live \subseteq Ids /\ Kids(h, z) \subseteq h.live
      /\ \A p, o \in Ids : o \in Kids(h, p) <=> h.parent[o] = p
      /\ \A p \in Ids : Kids(h, p) \subseteq h.live
  BY TypeOfTrees
<1>2. \A k \in Kids(h, z) : k \in Below(h, k) /\ Below(h, k) \subseteq h.live
  BY <1>1, BelowInTrees
<1>3. S \in SUBSET Ids /\ z \in S
  BY <1>1, <1>2
<1>4. \A p \in S : Kids(h, p) \subseteq S
  <2> SUFFICES ASSUME NEW p \in S, NEW x \in Kids(h, p) PROVE x \in S
    OBVIOUS
  <2>1. CASE p = z
    BY <2>1, <1>2
  <2>2. CASE p # z
    <3>1. PICK k \in Kids(h, z) : p \in Below(h, k)
      BY <2>2
    <3>2. p \in Ids /\ x \in Ids /\ h.parent[x] = p
      BY <1>1, <1>3
    <3>3. x \in Below(h, k)
      BY <3>1, <3>2, <1>1, BelowInTrees
    <3> QED BY <3>3
  <2> QED BY <2>1, <2>2
<1> HIDE DEF S
<1>5. Below(h, z) \subseteq S
  BY <1>3, <1>4, BelowIsLeast
<1>6. PICK k \in Kids(h, z) : y \in Below(h, k)
  BY <1>5 DEF S
<1>7. PICK j \in DOMAIN h.childs[z] : h.childs[z][j] = k
  BY <1>6 DEF Kids, ToSet
<1> QED BY <1>6, <1>7

\* The traversal of the model meets one of any objects first.
LEMMA SomeIsFirst ==
  ASSUME NEW h, Forest(h), NEW X \in SUBSET InModel(h), X # {}
  PROVE  \E o \in X : \A x \in X \ {o} : Visited(h, o, x)
<1> Trees(h) /\ LinkedBothWays(h)
  BY DEF Forest, Trees
<1> DEFINE First(z) == \E o \in X \cap Below(h, z) : \A x \in (X \cap Below(h, z)) \ {o} : Visited(h, o, x)
           S == {z \in h.live : z \in InModel(h) /\ X \cap Below(h, z) # {} => First(z)}
<1>1. /\ InModel(h) \subseteq h.live /\ h.live \subseteq Ids /\ h.root # NoObject
      /\ InModel(h) = Below(h, h.root) /\ h.root \in h.live
      /\ h.childs \in [Ids -> Seq(Ids)]
  BY OwnersOfForest, TypeOfTrees
<1>2. ASSUME NEW z \in h.live, Kids(h, z) \subseteq S PROVE z \in S
  <2> SUFFICES ASSUME z \in InModel(h), X \cap Below(h, z) # {} PROVE First(z)
    OBVIOUS
  <2>1. CASE z \in X
    <3>1. \A x \in (X \cap Below(h, z)) \ {z} : Visited(h, z, x)
      BY DEF Visited
    <3>2. z \in X \cap Below(h, z)
      BY <2>1, BelowInTrees
    <3> QED BY <3>1, <3>2
  <2>2. CASE z \notin X
    <3> DEFINE c == h.childs[z]
               J == {j \in DOMAIN c : c[j] \in Kids(h, z) /\ X \cap Below(h, c[j]) # {}}
    <3>1. ASSUME NEW x \in X \cap Below(h, z)
          PROVE \E j \in DOMAIN c : c[j] \in Kids(h, z) /\ x \in Below(h, c[j])
      BY <2>2, <3>1, BelowIsBelowKids
    <3>2. J \subseteq Nat /\ J # {}
      <4>1. c \in Seq(Ids)
        BY <1>1
      <4>2. DOMAIN c \subseteq Nat
        <5> HIDE DEF c
        <5> QED BY <4>1, LenProperties
      <4>3. PICK x : x \in X \cap Below(h, z)
        OBVIOUS
      <4> QED BY <4>2, <4>3, <3>1
    <3>3. PICK j \in J : \A i \in J : ~ (<<i, j>> \in OpToRel(<, Nat))
      BY <3>2, WFMin, NatLessThanWellFounded
    <3>4. ASSUME NEW i \in J PROVE i = j \/ j < i
      <4> HIDE DEF J, S, First
      <4>1. i \in Nat /\ j \in Nat
        BY <3>2
      <4>2. ~ (i < j)
        BY <3>3, <4>1 DEF OpToRel
      <4> QED BY <4>1, <4>2
    <3>5. c[j] \in Kids(h, z) /\ X \cap Below(h, c[j]) # {} /\ j \in DOMAIN c
      BY <3>3
    <3>6. \A k \in Kids(h, z) : k \in h.live /\ k \in InModel(h) /\ Below(h, k) \subseteq Below(h, z)
      <4> SUFFICES ASSUME NEW k \in Kids(h, z)
                   PROVE  k \in h.live /\ k \in InModel(h) /\ Below(h, k) \subseteq Below(h, z)
        OBVIOUS
      <4>1. k \in h.live /\ h.parent[k] = z /\ k \in Ids
        BY <1>1, TypeOfTrees
      <4>2. z \in Below(h, z)
        BY BelowInTrees
      <4>3. k \in Below(h, z) /\ k \in InModel(h)
        BY <4>1, <4>2, <1>1, BelowInTrees
      <4>4. Below(h, k) \subseteq Below(h, z)
        BY <4>3, BelowInTrees
      <4> QED BY <4>1, <4>3, <4>4
    <3>7. First(c[j])
      BY <3>5, <3>6, <1>2
    <3>8. PICK o \in X \cap Below(h, c[j]) : \A x \in (X \cap Below(h, c[j])) \ {o} : Visited(h, o, x)
      BY <3>7
    <3>9. ASSUME NEW x \in (X \cap Below(h, z)) \ {o} PROVE Visited(h, o, x)
      <4>1. PICK i \in DOMAIN c : c[i] \in Kids(h, z) /\ x \in Below(h, c[i])
        BY <3>1
      <4>2. i \in J
        BY <4>1, <3>9
      <4>3. CASE i = j
        BY <4>1, <4>3, <3>8, <3>9
      <4>4. CASE j < i
        BY <4>1, <4>4, <3>5, <3>8 DEF Visited
      <4> QED BY <4>2, <4>3, <4>4, <3>4
    <3>10. o \in X \cap Below(h, z)
      BY <3>5, <3>6, <3>8
    <3> QED BY <3>9, <3>10
  <2> QED BY <2>1, <2>2
<1> HIDE DEF S
<1>3. h.live \subseteq S
  BY <1>2, BottomUp
<1>4. X \cap Below(h, h.root) = X
  BY <1>1
<1>5. First(h.root)
  BY <1>1, <1>3, <1>4, BelowInTrees DEF S
<1> QED BY <1>4, <1>5

\* What a traversal meets first is not below what it meets later.
LEMMA EarlierIsNotBelow ==
  ASSUME NEW h, Trees(h), NEW o \in h.live, NEW x \in h.live, x # o, Visited(h, o, x), InModel(h) \subseteq h.live
  PROVE  o \notin Below(h, x)
<1> LinkedBothWays(h)
  BY DEF Trees
<1> SUFFICES ASSUME o \in Below(h, x) PROVE FALSE
  OBVIOUS
<1>1. x \notin Below(h, o)
  BY BelowIsAntisymmetric
<1>2. PICK p \in InModel(h) : \E i, j \in DOMAIN h.childs[p] :
        i < j /\ o \in Below(h, h.childs[p][i]) /\ x \in Below(h, h.childs[p][j])
  BY <1>1 DEF Visited
<1>3. PICK i, j \in DOMAIN h.childs[p] :
        i < j /\ o \in Below(h, h.childs[p][i]) /\ x \in Below(h, h.childs[p][j])
  BY <1>2
<1> DEFINE a == h.childs[p][i]
           b == h.childs[p][j]
<1>4. p \in h.live /\ p \in Ids /\ h.childs[p] \in Seq(Ids) /\ IsInjective(h.childs[p])
  BY TypeOfTrees
<1>5. i # j
  <2>1. DOMAIN h.childs[p] \subseteq Nat
    BY <1>4, LenProperties
  <2> QED BY <2>1, <1>3
<1>6. a # b
  BY <1>4, <1>5 DEF IsInjective
<1>7. a \in Kids(h, p) /\ b \in Kids(h, p)
  BY DEF Kids, ToSet
<1> HIDE DEF a, b
<1>8. a \in h.live /\ b \in h.live /\ h.parent[a] = p /\ h.parent[b] = p /\ a \in Ids /\ b \in Ids
  BY <1>4, <1>7, TypeOfTrees
<1>9. o \in Below(h, a) /\ o \in Below(h, b)
  <2>1. Below(h, x) \subseteq Below(h, b)
    BY <1>3, <1>8, BelowInTrees DEF b
  <2> QED BY <2>1, <1>3 DEF a
<1>10. a \in Below(h, b) \/ b \in Below(h, a)
  BY <1>8, <1>9, AncestorsAreComparable
<1>11. ASSUME NEW u \in h.live, NEW v \in h.live, u # v, u \in Below(h, v), h.parent[u] = p, h.parent[v] = p
       PROVE  FALSE
  <2>1. p \in Below(h, v)
    BY <1>11, BelowInTrees
  <2>2. p \in Below(h, p)
    BY <1>4, BelowInTrees
  <2>3. v \in Ids
    BY TypeOfTrees
  <2>4. v \in Below(h, p)
    BY <2>2, <2>3, <1>4, <1>11, BelowInTrees
  <2>5. p = v
    BY <2>1, <2>4, <1>4, BelowIsAntisymmetric
  <2> QED BY <2>5, <1>11, NoLoop
<1> QED BY <1>6, <1>8, <1>10, <1>11

\* The first selected object is below no other one.
LEMMA FirstSelectedProperties ==
  ASSUME NEW h, Forest(h), Selected(h) # {}
  PROVE  LET o == FirstSelected(h)
         IN  /\ o \in Selected(h) /\ o \in h.live /\ o \in InModel(h) /\ o \in h.selected
             /\ \A x \in Selected(h) \ {o} : o \notin Below(h, x)
             /\ h.parent[o] = NoObject => o = h.root
<1> DEFINE o == FirstSelected(h)
<1> Trees(h)
  BY DEF Forest
<1>1. Selected(h) \subseteq InModel(h) /\ Selected(h) \subseteq h.selected /\ InModel(h) \subseteq h.live
  BY OwnersOfForest DEF Selected
<1>2. \E x \in Selected(h) : \A y \in Selected(h) \ {x} : Visited(h, x, y)
  BY <1>1, SomeIsFirst
<1>3. o \in Selected(h) /\ \A x \in Selected(h) \ {o} : Visited(h, o, x)
  BY <1>2 DEF FirstSelected
<1> HIDE DEF o
<1>4. ASSUME NEW x \in Selected(h) \ {o} PROVE o \notin Below(h, x)
  <2>1. o \in h.live /\ x \in h.live /\ x # o /\ Visited(h, o, x)
    BY <1>1, <1>3
  <2> QED BY <2>1, <1>1, EarlierIsNotBelow
<1>5. h.parent[o] = NoObject => o = h.root
  BY <1>3, TopmostProperties
<1> QED BY <1>1, <1>3, <1>4, <1>5 DEF o

\* One object goes into the copy buffer with all that is below it.
LEMMA CutFirstProperties ==
  ASSUME NEW h, Forest(h), Selected(h) # {}
  PROVE  LET w == CutFirst(h)
             o == FirstSelected(h)
         IN  /\ Forest(w) /\ w.live = h.live /\ w.selected = h.selected \ {o}
             /\ InBuffer(w) = InBuffer(h) \cup Below(h, o) /\ InModel(w) = InModel(h) \ Below(h, o)
             /\ \A x \in h.live : h.parent[o] \notin Below(h, x) => Below(w, x) = Below(h, x)
             /\ \A x \in InBuffer(w) : Below(w, x) = Below(h, x)
<1> DEFINE o == FirstSelected(h)
           t == TakeOut(h, o)
           w == CutFirst(h)
<1> Trees(h) /\ LinkedBothWays(h)
  BY DEF Forest, Trees
<1>1. /\ o \in Selected(h) /\ o \in h.live /\ o \in InModel(h) /\ o \in h.selected
      /\ \A x \in Selected(h) \ {o} : o \notin Below(h, x)
      /\ h.parent[o] = NoObject => o = h.root
  BY FirstSelectedProperties
<1>2. w = [t EXCEPT !.selected = @ \ {o}, !.buffer = Append(@, o)]
  BY DEF CutFirst
<1> HIDE DEF o, w
<1>3. /\ h.buffer \in Seq(Ids) /\ h.live \subseteq Ids /\ h.selected \subseteq h.live
      /\ h.fault = "none" /\ IsInjective(h.buffer) /\ h.root \notin ToSet(h.buffer)
      /\ Tops(h) = ({h.root} \ {NoObject}) \cup ToSet(h.buffer)
  BY TypeOfTrees DEF Forest
<1>4. /\ ToSet(h.buffer) \subseteq h.live /\ h.root \in h.live \cup {NoObject}
      /\ InBuffer(h) = UNION {Below(h, b) : b \in ToSet(h.buffer)}
      /\ h.root = NoObject => InModel(h) = {}
      /\ h.root # NoObject => InModel(h) = Below(h, h.root)
      /\ InModel(h) \cup InBuffer(h) = h.live /\ InModel(h) \cap InBuffer(h) = {}
  BY OwnersOfForest
<1>5. /\ Trees(t) /\ Tops(t) = Tops(h) \cup {o}
      /\ t.live = h.live /\ t.parent = [h.parent EXCEPT ![o] = NoObject]
      /\ t.selected = h.selected /\ t.buffer = h.buffer /\ t.fault = h.fault
      /\ t.root = IF h.parent[o] = NoObject THEN NoObject ELSE h.root
      /\ \A x \in h.live : h.parent[o] \notin Below(h, x) => Below(t, x) = Below(h, x)
      /\ Below(t, o) = Below(h, o)
  BY <1>1, TakeOutProperties
<1> HIDE DEF t
<1>6. o \in Ids /\ o # NoObject /\ o \in Below(h, o) /\ Below(h, o) \subseteq h.live
  BY <1>1, <1>3, NoObjectIsNone, BelowInTrees
<1>7. o \notin ToSet(h.buffer)
  BY <1>1, <1>4, BelowInTrees
<1>8. /\ Append(h.buffer, o) \in Seq(Ids) /\ IsInjective(Append(h.buffer, o))
      /\ ToSet(Append(h.buffer, o)) = ToSet(h.buffer) \cup {o}
  BY <1>3, <1>6, <1>7, AppendElement
<1>9. t \in Heap
  BY <1>5 DEF Trees, LinkedBothWays
<1>10. /\ w.live = h.live /\ w.parent = t.parent /\ w.childs = t.childs /\ w.selected = h.selected \ {o}
       /\ w.root = t.root /\ w.buffer = Append(h.buffer, o) /\ w.fault = h.fault /\ w \in Heap
  BY <1>2, <1>3, <1>5, <1>8, <1>9 DEF Heap
<1>11. Trees(w) /\ Tops(w) = Tops(h) \cup {o} /\ \A x : Below(w, x) = Below(t, x)
  <2>1. w.live = t.live /\ w.selected \subseteq w.live
    BY <1>3, <1>5, <1>10
  <2> QED BY <2>1, <1>5, <1>10, SameLinks
<1>12. h.root = o => h.parent[o] = NoObject
  BY <1>3, <1>6 DEF Tops
<1>13. Forest(w)
  <2>1. CASE h.parent[o] = NoObject
    <3>1. w.root = NoObject /\ o = h.root
      BY <2>1, <1>1, <1>5, <1>10
    <3>2. NoObject \notin ToSet(h.buffer)
      BY <1>3, <1>4, NoObjectIsNone
    <3> QED BY <3>1, <3>2, <1>3, <1>6, <1>8, <1>10, <1>11 DEF Forest
  <2>2. CASE h.parent[o] # NoObject
    <3>1. w.root = h.root /\ h.root # o
      BY <2>2, <1>5, <1>10, <1>12
    <3> QED BY <3>1, <1>3, <1>8, <1>10, <1>11 DEF Forest
  <2> QED BY <2>1, <2>2
<1>14. \A x \in h.live : h.parent[o] \notin Below(h, x) => Below(w, x) = Below(h, x)
  BY <1>5, <1>11
<1>15. ASSUME NEW b \in ToSet(h.buffer), NEW x \in Below(h, b) PROVE x \in h.live /\ Below(w, x) = Below(h, x)
  <2>1. b \in h.live /\ Below(h, b) \subseteq InBuffer(h)
    BY <1>4
  <2>2. x \in h.live /\ Below(h, x) \subseteq Below(h, b)
    BY <2>1, BelowInTrees
  <2>3. h.parent[o] \notin Below(h, x)
    <3>1. o \notin Below(h, x)
      BY <2>1, <2>2, <1>1, <1>4
    <3> QED BY <3>1, <2>2, <1>6, BelowInTrees
  <2> QED BY <2>2, <2>3, <1>14
<1>16. ASSUME NEW x \in Below(h, o) PROVE Below(w, x) = Below(h, x)
  <2>1. x \in h.live
    BY <1>6
  <2>2. h.parent[o] \notin Below(h, x)
    <3> SUFFICES ASSUME h.parent[o] \in Below(h, x) PROVE FALSE
      OBVIOUS
    <3>1. o \in Below(h, x)
      BY <2>1, <1>6, BelowInTrees
    <3>2. x = o
      BY <3>1, <2>1, <1>1, BelowIsAntisymmetric
    <3>3. h.parent[o] \in Below(h, o) /\ h.parent[o] \in h.live
      BY <3>2, <1>6
    <3>4. o \in Below(h, h.parent[o])
      BY <3>3, <1>6, BelowInTrees
    <3>5. h.parent[o] = o
      BY <3>3, <3>4, <1>1, BelowIsAntisymmetric
    <3> QED BY <3>5, <1>1, NoLoop
  <2> QED BY <2>1, <2>2, <1>14
<1>17. InBuffer(w) = InBuffer(h) \cup Below(h, o)
  <2>1. InBuffer(w) = UNION {Below(w, b) : b \in ToSet(h.buffer) \cup {o}}
    BY <1>8, <1>10, <1>13, OwnersOfForest
  <2>2. \A b \in ToSet(h.buffer) : Below(w, b) = Below(h, b)
    BY <1>4, <1>15, BelowInTrees
  <2>3. Below(w, o) = Below(h, o)
    BY <1>6, <1>16
  <2> QED BY <2>1, <2>2, <2>3, <1>4
<1>18. InModel(w) = InModel(h) \ Below(h, o)
  <2>1. InModel(w) = h.live \ InBuffer(w)
    BY <1>10, <1>13, OwnersOfForest
  <2> QED BY <2>1, <1>4, <1>17
<1>19. \A x \in InBuffer(w) : Below(w, x) = Below(h, x)
  BY <1>4, <1>15, <1>16, <1>17
<1> QED BY <1>10, <1>13, <1>14, <1>17, <1>18, <1>19 DEF w, o

\* What i rounds of the loop of Cut have left of c.
CutDown(c, i) ==
  {g \in Heap :
     /\ Forest(g) /\ g.live = c.live /\ g.selected \subseteq c.selected
     /\ c.selected \cap InModel(g) \subseteq g.selected
     /\ \A x \in Selected(g) : \A y \in Below(c, x) : Below(g, y) = Below(c, y)
     /\ \A y \in InBuffer(g) : /\ Below(g, y) = Below(c, y)
                               /\ \E x \in Selected(c) : y \in Below(c, x)
     /\ Cardinality(Selected(g)) <= MaxObjects - i}

\* One more round of Cut.
LEMMA CutNext ==
  ASSUME NEW c, Forest(c), c.buffer = <<>>, NEW i \in 1 .. MaxObjects, NEW g \in CutDown(c, i - 1)
  PROVE  CutRound(g, i) \in CutDown(c, i)
<1>1. /\ Forest(g) /\ g.live = c.live /\ g.selected \subseteq c.selected
      /\ c.selected \cap InModel(g) \subseteq g.selected
      /\ \A x \in Selected(g) : \A y \in Below(c, x) : Below(g, y) = Below(c, y)
      /\ \A y \in InBuffer(g) : /\ Below(g, y) = Below(c, y)
                                /\ \E x \in Selected(c) : y \in Below(c, x)
      /\ Cardinality(Selected(g)) <= MaxObjects - (i - 1) /\ g \in Heap
  BY DEF CutDown
<1>2. CutRound(g, i) = CutFirst(g)
  BY <1>1 DEF CutRound, Forest
<1>3. MaxObjects \in Nat /\ i \in Nat /\ i <= MaxObjects
  BY HeapAssumption
<1>4. CASE Selected(g) = {}
  <2>1. CutFirst(g) = g
    BY <1>4 DEF CutFirst
  <2>2. Cardinality(Selected(g)) <= MaxObjects - i
    BY <1>3, <1>4, FS_EmptySet
  <2> QED BY <2>1, <2>2, <1>1, <1>2 DEF CutDown
<1>5. CASE Selected(g) # {}
  <2> DEFINE o == FirstSelected(g)
             w == CutFirst(g)
  <2>1. /\ o \in Selected(g) /\ o \in g.live /\ o \in InModel(g) /\ o \in g.selected
        /\ \A x \in Selected(g) \ {o} : o \notin Below(g, x)
        /\ g.parent[o] = NoObject => o = g.root
    BY <1>1, <1>5, FirstSelectedProperties
  <2>2. /\ Forest(w) /\ w.live = g.live /\ w.selected = g.selected \ {o}
        /\ InBuffer(w) = InBuffer(g) \cup Below(g, o) /\ InModel(w) = InModel(g) \ Below(g, o)
        /\ \A x \in g.live : g.parent[o] \notin Below(g, x) => Below(w, x) = Below(g, x)
        /\ \A x \in InBuffer(w) : Below(w, x) = Below(g, x)
    BY <1>1, <1>5, CutFirstProperties
  <2> HIDE DEF o, w
  <2> Trees(g) /\ LinkedBothWays(g) /\ Trees(c) /\ LinkedBothWays(c)
    BY <1>1 DEF Forest, Trees
  <2>3. o \in Below(g, o) /\ g.live \subseteq Ids /\ Selected(g) \subseteq g.live /\ Selected(c) \subseteq c.live
    BY <2>1, <1>1, BelowInTrees, TypeOfTrees, TopmostProperties
  <2>4. Selected(w) \subseteq Selected(g) \ {o}
    BY <2>2 DEF Selected
  <2>5. o \in Selected(c) /\ Below(g, o) = Below(c, o)
    <3>1. o \in Below(c, o) /\ InModel(c) = c.live
      <4>1. InBuffer(c) = UNION {Below(c, b) : b \in ToSet(c.buffer)} /\ InModel(c) \cup InBuffer(c) = c.live
        BY OwnersOfForest
      <4>2. ToSet(c.buffer) = {}
        BY DEF ToSet
      <4>3. InBuffer(c) = {}
        BY <4>1, <4>2
      <4>4. o \in c.live /\ o \in Below(c, o)
        BY <2>1, <1>1, BelowInTrees
      <4> QED BY <4>1, <4>3, <4>4
    <3> QED BY <3>1, <2>1, <1>1 DEF Selected
  <2>6. c.selected \cap InModel(w) \subseteq w.selected
    BY <2>2, <2>3, <1>1
  <2>7. ASSUME NEW x \in Selected(w), NEW y \in Below(c, x) PROVE Below(w, y) = Below(c, y)
    <3>1. x \in Selected(g) /\ x # o /\ x \in g.live /\ o \notin Below(g, x) /\ x \in Below(c, x)
      BY <2>1, <2>3, <2>4, <1>1, BelowInTrees
    <3>2. y \in Below(g, x) /\ Below(g, y) = Below(c, y)
      BY <3>1, <1>1
    <3>3. y \in g.live /\ Below(g, y) \subseteq Below(g, x)
      BY <3>1, <3>2, BelowInTrees
    <3>4. g.parent[o] \notin Below(g, y)
      BY <3>1, <3>3, <2>1, <2>3, BelowInTrees
    <3> QED BY <3>2, <3>3, <3>4, <2>2
  <2>8. ASSUME NEW y \in InBuffer(w)
        PROVE  Below(w, y) = Below(c, y) /\ \E x \in Selected(c) : y \in Below(c, x)
    <3>1. CASE y \in InBuffer(g)
      BY <3>1, <2>2, <1>1
    <3>2. CASE y \in Below(g, o)
      <4>1. Below(g, y) = Below(c, y)
        BY <3>2, <2>1, <2>5, <1>1
      <4> QED BY <4>1, <3>2, <2>2, <2>5
    <3> QED BY <3>1, <3>2, <2>2
  <2>9. Cardinality(Selected(w)) <= MaxObjects - i
    <3>1. Selected(g) \subseteq Ids /\ IsFiniteSet(Selected(g)) /\ Cardinality(Selected(g)) \in Nat
      BY <2>3, IdsAreFinite
    <3>2. Selected(w) \subseteq Selected(g) /\ Selected(w) # Selected(g)
      BY <2>1, <2>4
    <3>3. Cardinality(Selected(w)) \in Nat
      BY <3>1, <3>2, IdsAreFinite
    <3>4. Cardinality(Selected(w)) <= Cardinality(Selected(g)) /\ Cardinality(Selected(w)) # Cardinality(Selected(g))
      BY <3>1, <3>2, FS_Subset
    <3> QED BY <3>1, <3>3, <3>4, <1>1, <1>3
  <2>10. w \in Heap
    BY <2>2 DEF Forest, Trees, LinkedBothWays
  <2>11. w.live = c.live /\ w.selected \subseteq c.selected
    BY <2>2, <1>1
  <2>12. w \in CutDown(c, i)
    BY <2>2, <2>6, <2>7, <2>8, <2>9, <2>10, <2>11 DEF CutDown
  <2> QED BY <2>12, <1>2 DEF w
<1> QED BY <1>4, <1>5

\* Cut moves what is selected, with all that is below it, from the model into the copy
\* buffer, and frees what was there.
LEMMA CutProperties ==
  ASSUME NEW h, Forest(h)
  PROVE  LET w == Cut(h)
             cut == UNION {Below(h, o) : o \in Selected(h)}
         IN  /\ Forest(w) /\ InModel(w) = InModel(h) \ cut /\ InBuffer(w) = cut
             /\ \A o \in cut : Below(w, o) = Below(h, o)
<1> DEFINE c == ClearBuffer(h)
           s == [n \in Ids |-> n]
           G == [i \in 0 .. MaxObjects |-> CutDown(c, i)]
           w == Cut(h)
           cut == UNION {Below(h, o) : o \in Selected(h)}
<1>1. /\ Forest(c) /\ c.live = InModel(h) /\ c.selected = h.selected \cap InModel(h)
      /\ c.root = h.root /\ c.buffer = <<>>
      /\ InModel(c) = InModel(h)
      /\ \A x \in c.live : c.parent[x] = h.parent[x] /\ Below(c, x) = Below(h, x)
  BY ClearBufferProperties
<1>2. w = InTurn(CutRound, c, s)
  BY DEF Cut
<1> HIDE DEF c, w
<1> Trees(c) /\ LinkedBothWays(c) /\ c \in Heap
  BY <1>1 DEF Forest, Trees, LinkedBothWays
<1>3. Len(s) = MaxObjects /\ MaxObjects \in Nat /\ \A i \in 1 .. MaxObjects : s[i] = i
  BY HeapAssumption DEF Ids
<1>4. Selected(c) = Selected(h) /\ Selected(c) \subseteq c.live /\ c.selected = Selected(c)
  BY <1>1 DEF Selected
<1>5. InBuffer(c) = {}
  <2>1. ToSet(c.buffer) = {}
    BY <1>1 DEF ToSet
  <2> QED BY <2>1 DEF InBuffer, BelowAll
<1>6. c \in G[0]
  <2>1. Cardinality(Selected(c)) <= MaxObjects - 0
    <3>1. Selected(c) \subseteq Ids
      BY <1>4, TypeOfTrees
    <3>2. Cardinality(Selected(c)) <= Cardinality(Ids) /\ Cardinality(Selected(c)) \in Nat
      BY <3>1, IdsAreFinite, FS_Subset
    <3>3. Cardinality(Ids) = MaxObjects
      BY HeapAssumption, FS_Interval DEF Ids
    <3> HIDE DEF G
    <3> QED BY <3>2, <3>3, <1>3
  <2>2. c \in CutDown(c, 0)
    <3> HIDE DEF G
    <3> QED BY <2>1, <1>1, <1>4, <1>5 DEF CutDown
  <2> QED BY <2>2, <1>3
<1>7. ASSUME NEW i \in 1 .. MaxObjects, NEW g \in G[i - 1] PROVE CutRound(g, s[i]) \in G[i]
  <2>1. i - 1 \in 0 .. MaxObjects /\ i \in 0 .. MaxObjects
    BY <1>3
  <2>2. g \in CutDown(c, i - 1)
    BY <1>7, <2>1
  <2>3. CutRound(g, i) \in CutDown(c, i)
    BY <2>2, <1>1, CutNext
  <2> QED BY <2>1, <2>3, <1>3
<1>8. w \in CutDown(c, MaxObjects)
  <2> HIDE DEF G, s
  <2>1. InTurn(CutRound, c, s) \in G[Len(s)]
    BY <1>3, <1>6, <1>7, CutInTurn
  <2>2. G[MaxObjects] = CutDown(c, MaxObjects)
    BY <1>3 DEF G
  <2> QED BY <2>1, <2>2, <1>2, <1>3
<1>9. /\ Forest(w) /\ w.live = c.live
      /\ c.selected \cap InModel(w) \subseteq w.selected
      /\ \A y \in InBuffer(w) : /\ Below(w, y) = Below(c, y)
                                /\ \E x \in Selected(c) : y \in Below(c, x)
      /\ Cardinality(Selected(w)) <= MaxObjects - MaxObjects
  BY <1>8 DEF CutDown
<1>10. Selected(w) = {}
  <2>1. Selected(w) \subseteq Ids /\ IsFiniteSet(Selected(w)) /\ Cardinality(Selected(w)) \in Nat
    <3>1. Selected(w) \subseteq w.live
      BY <1>9, TopmostProperties
    <3> QED BY <3>1, <1>9, IdsAreFinite, TypeOfTrees
  <2>2. Cardinality(Selected(w)) = 0
    BY <2>1, <1>3, <1>9
  <2> QED BY <2>1, <2>2, FS_EmptySet
<1>11. /\ InModel(w) \cup InBuffer(w) = w.live /\ InModel(w) \cap InBuffer(w) = {}
       /\ InBuffer(w) = UNION {Below(w, b) : b \in ToSet(w.buffer)} /\ ToSet(w.buffer) \subseteq w.live
  BY <1>9, OwnersOfForest
<1>12. \A x \in Selected(c) : x \in InBuffer(w)
  BY <1>4, <1>9, <1>10, <1>11 DEF Selected
<1>13. \A y \in InBuffer(w) : Below(w, y) \subseteq InBuffer(w)
  <2> LinkedBothWays(w)
    BY <1>9 DEF Forest, Trees
  <2> QED BY <1>11, BelowInTrees
<1>14. InBuffer(w) = cut
  <2>1. InBuffer(w) \subseteq cut
    BY <1>1, <1>4, <1>9
  <2>2. cut \subseteq InBuffer(w)
    BY <1>1, <1>4, <1>9, <1>12, <1>13
  <2> QED BY <2>1, <2>2
<1>15. InModel(w) = InModel(h) \ cut
  BY <1>1, <1>9, <1>11, <1>14
<1>16. \A o \in cut : Below(w, o) = Below(h, o)
  <2> HIDE DEF cut
  <2>1. \A y \in InBuffer(w) : y \in c.live
    BY <1>9, <1>11
  <2> QED BY <2>1, <1>1, <1>9, <1>14
<1> QED BY <1>9, <1>14, <1>15, <1>16 DEF w

-----------------------------------------------------------------------------
(* Steps *)

\* GetSingleSel returns an object of the model.
LEMMA SingleSelProperties ==
  ASSUME NEW h, Forest(h), NEW o, SingleSel(h, o)
  PROVE  o \in InModel(h) /\ o \in h.live /\ Selected(h) = {o}
<1>1. Selected(h) \subseteq h.live /\ h.live \subseteq Ids /\ Selected(h) \subseteq InModel(h)
  BY TopmostProperties, TypeOfTrees DEF Forest, Trees, Selected
<1>2. ToSet(<<o>>) = Selected(h)
  BY DEF SingleSel, GetSelectedObjects, InOrder
<1>3. ToSet(<<o>>) = {o}
  BY DEF ToSet
<1> QED BY <1>1, <1>2, <1>3

\* Two selected objects are exchanged.
LEMMA SwapKeeps ==
  ASSUME NEW h, Forest(h), NEW s \in GetSelectedObjects(h), Len(s) = 2
  PROVE  /\ s[1] \in h.live /\ s[2] \in h.live /\ s[1] # s[2] /\ Selected(h) = {s[1], s[2]}
         /\ Forest(SwapObjects(h, s[1], s[2]))
<1> DEFINE a == s[1]
           b == s[2]
           g == SwapObjects(h, a, b)
<1> Trees(h) /\ LinkedBothWays(h)
  BY DEF Forest, Trees
<1>1. /\ Selected(h) \subseteq h.live /\ h.live \subseteq Ids /\ Selected(h) \subseteq InModel(h)
  BY TopmostProperties, TypeOfTrees DEF Selected
<1>2. /\ s \in Seq(Ids) /\ ToSet(s) = Selected(h) /\ IsInjective(s)
      /\ \A i \in 1 .. Len(s) : s[i] \in Selected(h)
  BY <1>1, InOrderProperties DEF GetSelectedObjects
<1>3. a \in Selected(h) /\ b \in Selected(h) /\ a # b /\ Selected(h) = {a, b}
  <2>1. 1 \in 1 .. Len(s) /\ 2 \in 1 .. Len(s) /\ \A i \in 1 .. Len(s) : i = 1 \/ i = 2
    OBVIOUS
  <2>2. a # b
    BY <2>1, <1>2, InjectiveSeq
  <2>3. \A x : x \in ToSet(s) <=> \E i \in 1 .. Len(s) : s[i] = x
    BY <1>2, ElementsOfSeq
  <2> QED BY <2>1, <2>2, <2>3, <1>2
<1> HIDE DEF a, b
<1>4. a \in h.live /\ b \in h.live /\ a \in Ids /\ b \in Ids
  BY <1>1, <1>3
<1>5. /\ Trees(g) /\ g.live = h.live /\ g.root = Other(a, b, h.root)
      /\ \A o \in Ids : g.parent[Other(a, b, o)] = Other(a, b, h.parent[o])
      /\ g.selected = h.selected /\ g.buffer = h.buffer /\ g.fault = h.fault
  BY <1>3, <1>4, SwapProperties
<1> HIDE DEF g
<1>6. a \notin ToSet(h.buffer) /\ b \notin ToSet(h.buffer)
  <2>1. /\ InModel(h) \cap InBuffer(h) = {} /\ ToSet(h.buffer) \subseteq h.live
        /\ InBuffer(h) = UNION {Below(h, o) : o \in ToSet(h.buffer)}
    BY OwnersOfForest
  <2>2. ToSet(h.buffer) \subseteq InBuffer(h)
    BY <2>1, BelowInTrees
  <2> QED BY <2>1, <2>2, <1>1, <1>3
<1>7. ASSUME NEW x \in h.live PROVE g.parent[x] = NoObject <=> h.parent[Other(a, b, x)] = NoObject
  <2>1. Other(a, b, x) \in Ids /\ Other(a, b, Other(a, b, x)) = x
    BY <1>1, <1>4 DEF Other
  <2>2. g.parent[x] = Other(a, b, h.parent[Other(a, b, x)])
    BY <2>1, <1>5
  <2>3. a # NoObject /\ b # NoObject
    BY <1>4, NoObjectIsNone
  <2> QED BY <2>2, <2>3 DEF Other
<1>8. Tops(h) = ({h.root} \ {NoObject}) \cup ToSet(h.buffer)
      /\ IsInjective(h.buffer) /\ h.fault = "none" /\ h.root \notin ToSet(h.buffer)
      /\ a # NoObject /\ b # NoObject
  BY <1>4, NoObjectIsNone DEF Forest
<1>9. \A x \in h.live : x \in Tops(g) <=> Other(a, b, x) \in Tops(h)
  BY <1>4, <1>5, <1>7 DEF Tops, Other
<1>10. \A x \in h.live : Other(a, b, x) \in Tops(h) <=> x \in ({g.root} \ {NoObject}) \cup ToSet(h.buffer)
  BY <1>4, <1>5, <1>6, <1>8 DEF Other
<1>11. g.root \in h.live \cup {NoObject} /\ ToSet(h.buffer) \subseteq h.live
  BY <1>4, <1>5, OwnersOfForest DEF Other
<1>12. Tops(g) = ({g.root} \ {NoObject}) \cup ToSet(h.buffer)
  <2>1. Tops(g) \subseteq h.live
    BY <1>5 DEF Tops
  <2> QED BY <2>1, <1>9, <1>10, <1>11
<1>13. g.root \notin ToSet(h.buffer)
  BY <1>5, <1>6, <1>8 DEF Other
<1>14. Forest(g)
  BY <1>5, <1>8, <1>12, <1>13 DEF Forest
<1> QED BY <1>3, <1>4, <1>14 DEF g, a, b

\* Every command keeps the invariant.
LEMMA IInvNext ==
  ASSUME IInv, [Next]_vars
  PROVE  IInv'
<1>0. since \in 0 .. AfterReplace + 1 /\ (since = 0 => Forest(heap))
  BY DEF IInv
<1>1. CASE Select
  <2>1. PICK S \in SUBSET InModel(heap) : Leave([heap EXCEPT !.selected = (@ \ InModel(heap)) \cup S])
    BY <1>1 DEF Select
  <2>2. since = 0 => Forest([heap EXCEPT !.selected = (@ \ InModel(heap)) \cup S])
    BY <1>0, SelectKeeps
  <2> QED BY <2>1, <2>2, LeaveKeeps
<1>2. CASE DoDelete
  <2>1. PICK s \in InOrder(heap, Topmost(heap)) : Leave(DeleteSelection(heap, s))
    BY <1>2 DEF DoDelete
  <2>2. since = 0 => Forest(DeleteSelection(heap, s))
    BY <1>0, DeleteSelectionProperties
  <2> QED BY <2>1, <2>2, LeaveKeeps
<1>3. CASE DoCopy
  <2>1. PICK s \in InOrder(heap, Topmost(heap)) :
          /\ Cardinality(Copies(heap, s)) <= Cardinality(Ids \ (heap.live \ InBuffer(heap)))
          /\ Leave(Copy(heap, s))
    BY <1>3 DEF DoCopy
  <2>2. since = 0 => Forest(Copy(heap, s))
    BY <2>1, <1>0, CopyKeeps
  <2> QED BY <2>1, <2>2, LeaveKeeps
<1>4. CASE DoCut
  <2>1. Leave(Cut(heap))
    BY <1>4 DEF DoCut
  <2>2. since = 0 => Forest(Cut(heap))
    BY <1>0, CutProperties
  <2> QED BY <2>1, <2>2, LeaveKeeps
<1>5. CASE DoPaste
  <2>1. /\ Cardinality(Copies(heap, heap.buffer)) <= Cardinality(Ids \ heap.live)
        /\ \/ \E o \in heap.live : SingleSel(heap, o) /\ Leave(PasteInto(heap, o))
           \/ Leave(PasteRoot(heap))
    BY <1>5 DEF DoPaste
  <2>2. ASSUME NEW o \in heap.live, SingleSel(heap, o), Leave(PasteInto(heap, o)) PROVE IInv'
    <3>1. since = 0 => Forest(PasteInto(heap, o))
      BY <2>1, <2>2, <1>0, SingleSelProperties, PasteIntoKeeps
    <3> QED BY <2>2, <3>1, LeaveKeeps
  <2>3. ASSUME Leave(PasteRoot(heap)) PROVE IInv'
    <3>1. since = 0 => Forest(PasteRoot(heap))
      BY <2>1, <1>0, PasteRootKeeps
    <3> QED BY <2>3, <3>1, LeaveKeeps
  <2> QED BY <2>1, <2>2, <2>3
<1>6. CASE DoAddObject
  <2> DEFINE s == [childs |-> << <<>> >>, top |-> 1, selected |-> {}]
  <2>1. /\ HasRoom(heap, s)
        /\ \/ heap.root = NoObject /\ Leave([Build(heap, s) EXCEPT !.root = Top(heap, s)])
           \/ \E o \in heap.live : Leave(LinkToParent(Build(heap, s), Top(heap, s), o))
    BY <1>6 DEF DoAddObject
  <2>2. Hierarchy(s)
    BY OneIsHierarchy
  <2> HIDE DEF s
  <2>3. ASSUME heap.root = NoObject, Leave([Build(heap, s) EXCEPT !.root = Top(heap, s)]) PROVE IInv'
    <3>1. since = 0 => Forest([Build(heap, s) EXCEPT !.root = Top(heap, s)])
      BY <2>1, <2>2, <2>3, <1>0, NewModel
    <3> QED BY <2>3, <3>1, LeaveKeeps
  <2>4. ASSUME NEW o \in heap.live, Leave(LinkToParent(Build(heap, s), Top(heap, s), o)) PROVE IInv'
    <3>1. since = 0 => Forest(LinkToParent(Build(heap, s), Top(heap, s), o))
      BY <2>1, <2>2, <2>4, <1>0, NewChild DEF HasNewChild
    <3> QED BY <2>4, <3>1, LeaveKeeps
  <2> QED BY <2>1, <2>3, <2>4
<1>7. CASE DoSwap
  <2>1. PICK s \in GetSelectedObjects(heap) : Len(s) = 2 /\ Leave(SwapObjects(heap, s[1], s[2]))
    BY <1>7 DEF DoSwap
  <2>2. since = 0 => Forest(SwapObjects(heap, s[1], s[2]))
    BY <2>1, <1>0, SwapKeeps
  <2> QED BY <2>1, <2>2, LeaveKeeps
<1>8. CASE DoMerge
  <2>1. PICK s \in GetSelectedObjects(heap) : Leave(MergeSelection(heap, s))
    BY <1>8 DEF DoMerge
  <2>2. since = 0 => Forest(MergeSelection(heap, s))
    BY <1>0, MergeSelectionProperties
  <2> QED BY <2>1, <2>2, LeaveKeeps
<1>9. ASSUME NEW s \in Shapes, DoInsert(s) PROVE IInv'
  <2>1. PICK o \in heap.live : HasRoom(heap, s) /\ Leave(LinkToParent(Build(heap, s), Top(heap, s), o))
    BY <1>9 DEF DoInsert
  <2>2. since = 0 => Forest(LinkToParent(Build(heap, s), Top(heap, s), o))
    BY <2>1, <1>0, ShapeAssumption, NewChild DEF HasNewChild
  <2> QED BY <2>1, <2>2, LeaveKeeps
<1>10. ASSUME NEW s \in Shapes, DoReplace(s) PROVE IInv'
  <2>1. since' = since + 1 /\ since <= AfterReplace
    BY <1>10 DEF DoReplace, Step
  <2>2. since' \in 0 .. AfterReplace + 1 /\ since' # 0
    BY <2>1, <1>0, ShapeAssumption
  <2> QED BY <2>2 DEF IInv
<1>11. ASSUME NEW s \in Shapes, DoLoad(s) PROVE IInv'
  <2>1. HasRoom(heap, s) /\ Leave(SetRoot(Build(heap, s), Top(heap, s)))
    BY <1>11 DEF DoLoad
  <2>2. since = 0 => Forest(SetRoot(Build(heap, s), Top(heap, s)))
    BY <2>1, <1>0, ShapeAssumption, LoadedModel
  <2> QED BY <2>1, <2>2, LeaveKeeps
<1>12. CASE DoNew
  <2>1. heap.root # NoObject /\ Leave(SetRoot(heap, NoObject))
    BY <1>12 DEF DoNew
  <2>2. since = 0 => Forest(SetRoot(heap, NoObject))
    BY <2>1, <1>0, RootGone
  <2> QED BY <2>1, <2>2, LeaveKeeps
<1>13. CASE DoUndoRedo
  <2> DEFINE s == ShapeOf(heap, heap.root)
             h == SetRoot(heap, NoObject)
  <2>1. heap.root # NoObject /\ HasRoom(h, s) /\ Leave([Build(h, s) EXCEPT !.root = Top(h, s)])
    BY <1>13 DEF DoUndoRedo
  <2>2. ASSUME since = 0 PROVE Forest([Build(h, s) EXCEPT !.root = Top(h, s)])
    <3>1. Forest(heap) /\ Trees(heap) /\ heap.root \in heap.live
      BY <2>1, <2>2, <1>0, OwnersOfForest DEF Forest
    <3>2. Hierarchy(s)
      BY <3>1, ShapeIsHierarchy
    <3>3. Forest(h) /\ h.root = NoObject
      BY <2>1, <3>1, RootGone
    <3> HIDE DEF h, s
    <3> QED BY <2>1, <3>2, <3>3, NewModel
  <2> HIDE DEF h, s
  <2> QED BY <2>1, <2>2, LeaveKeeps
<1>14. CASE UNCHANGED vars
  BY <1>14 DEF IInv, vars
<1> QED BY <1>1, <1>2, <1>3, <1>4, <1>5, <1>6, <1>7, <1>8, <1>9, <1>10, <1>11, <1>12, <1>13, <1>14
        DEF Next

-----------------------------------------------------------------------------
(* Replacing *)

\* An object without childs is freed, whatever points at it.
LEMMA DestroyChildless ==
  ASSUME NEW h \in Heap, NEW o \in h.live, h.childs[o] = <<>>
  PROVE  LET w == Destroy(h, o)
         IN  /\ w \in Heap /\ w.live = h.live \ {o} /\ w.selected = h.selected \ {o}
             /\ w.root = h.root /\ w.buffer = h.buffer /\ w.fault = h.fault
             /\ \A x \in Ids : w.parent[x] = IF x = o THEN NoObject ELSE h.parent[x]
             /\ \A x \in Ids : w.childs[x] = IF x = o THEN <<>> ELSE h.childs[x]
<1> DEFINE w == Destroy(h, o)
<1>1. /\ h.childs \in [Ids -> Seq(Ids)] /\ h.parent \in [Ids -> Ids \cup {NoObject}]
      /\ h.live \subseteq Ids /\ h.selected \subseteq Ids /\ o \in Ids
      /\ h.root \in Ids \cup {NoObject} /\ h.buffer \in Seq(Ids)
  BY DEF Heap
<1>2. <<>> \in Seq(Ids) /\ ToSet(<<>>) = {} /\ DOMAIN <<>> = {}
  BY DEF ToSet
<1>3. Below(h, o) = {o}
  <2>1. \A q \in {o} : Kids(h, q) \subseteq {o}
    BY <1>2 DEF Kids
  <2>2. Below(h, o) \subseteq {o}
    <3>1. {o} \in SUBSET Ids /\ o \in {o}
      BY <1>1
    <3> QED BY <2>1, <3>1, BelowIsLeast
  <2>3. o \in Below(h, o)
    BY <1>1, BelowIsClosed
  <2> QED BY <2>2, <2>3
<1>4. MetOnce(h, <<o>>)
  <2>1. ToSet(<<o>>) = {o}
    BY DEF ToSet
  <2>2. BelowAll(h, <<o>>) = {o}
    BY <2>1, <1>3 DEF BelowAll
  <2>3. DOMAIN h.childs[o] = {} /\ ToSet(h.childs[o]) = {}
    BY <1>2
  <2>4. Apart(h.childs, {o})
    BY <2>3 DEF Apart
  <2>5. IsInjective(<<o>>)
    BY DEF IsInjective
  <2> QED BY <2>2, <2>3, <2>4, <2>5 DEF MetOnce
<1>5. w = Without(h, {o})
  BY <1>3, <1>4 DEF Destroy
<1> HIDE DEF w
<1> DEFINE Q == [x \in Ids |-> IF x \in {o} THEN NoObject ELSE h.parent[x]]
           E == [x \in Ids |-> IF x \in {o} THEN <<>> ELSE h.childs[x]]
<1> HIDE DEF Q, E
<1>6. w = [h EXCEPT !.live = @ \ {o}, !.parent = Q, !.childs = E, !.selected = @ \ {o}]
  BY <1>5 DEF Without, Q, E
<1>7. /\ w.live = h.live \ {o} /\ w.selected = h.selected \ {o} /\ w.parent = Q /\ w.childs = E
      /\ w.root = h.root /\ w.buffer = h.buffer /\ w.fault = h.fault
      /\ w = [live |-> w.live, parent |-> w.parent, childs |-> w.childs, selected |-> w.selected,
              root |-> w.root, buffer |-> w.buffer, fault |-> w.fault]
  BY <1>6 DEF Heap
<1>8. /\ Q \in [Ids -> Ids \cup {NoObject}] /\ \A x \in Ids : Q[x] = IF x = o THEN NoObject ELSE h.parent[x]
      /\ E \in [Ids -> Seq(Ids)] /\ \A x \in Ids : E[x] = IF x = o THEN <<>> ELSE h.childs[x]
  BY <1>1, <1>2 DEF Q, E
<1>9. w \in Heap
  BY <1>1, <1>7, <1>8, FieldsOfHeap
<1> QED BY <1>7, <1>8, <1>9 DEF w

\* What ReplaceObject leaves of a heap that was in order: the links of the old object and
\* of the new one.
LEMMA ReplaceFields ==
  ASSUME NEW g, Trees(g), NEW o \in g.live, NEW n \in g.live, n # o, g.parent[o] # n,
         g.parent[o] = NoObject => o = g.root
  PROVE  LET r == ReplaceObject(g, o, n)
         IN  /\ r \in Heap /\ r.live = g.live \ {o} /\ r.selected = g.selected \ {o}
             /\ r.buffer = g.buffer /\ r.fault = g.fault
             /\ r.root = IF g.parent[o] = NoObject THEN n ELSE g.root
             /\ Kids(r, o) = {} /\ Kids(r, n) = Kids(g, n) \cup Kids(g, o)
             /\ g.parent[o] # NoObject => Kids(r, g.parent[o]) = (Kids(g, g.parent[o]) \ {o}) \cup {n}
             /\ \A x \in Ids : x # o /\ x # n /\ x # g.parent[o] => Kids(r, x) = Kids(g, x)
<1> DEFINE p == g.parent[o]
           cn == g.childs[n] \o g.childs[o]
           C == [[g.childs EXCEPT ![n] = cn] EXCEPT ![o] = <<>>]
           m == [g EXCEPT !.childs[n] = @ \o g.childs[o], !.childs[o] = <<>>]
           d == DeleteObject(m, o)
           r == ReplaceObject(g, o, n)
<1> LinkedBothWays(g) /\ g \in Heap
  BY DEF Trees, LinkedBothWays
<1>1. /\ g.live \subseteq Ids /\ g.selected \subseteq Ids /\ o \in Ids /\ n \in Ids
      /\ g.childs \in [Ids -> Seq(Ids)] /\ g.parent \in [Ids -> Ids \cup {NoObject}]
      /\ g.root \in Ids \cup {NoObject} /\ g.buffer \in Seq(Ids)
      /\ p \in g.live \cup {NoObject} /\ p # o /\ o # NoObject /\ n # NoObject
  BY TypeOfTrees, NoLoop, NoObjectIsNone
<1>2. cn \in Seq(Ids) /\ ToSet(cn) = Kids(g, n) \cup Kids(g, o)
  BY <1>1, ConcatElements DEF Kids
<1>3. <<>> \in Seq(Ids) /\ ToSet(<<>>) = {}
  BY DEF ToSet
<1>4. r = IF p = NoObject THEN [d EXCEPT !.root = n] ELSE [d EXCEPT !.childs[p] = Append(@, n)]
  BY DEF ReplaceObject
<1> HIDE DEF r, d
<1>5. m = [g EXCEPT !.childs = C]
  BY <1>1 DEF Heap
<1> HIDE DEF m, cn
<1>6. /\ C \in [Ids -> Seq(Ids)] /\ C[o] = <<>> /\ C[n] = cn
      /\ \A x \in Ids \ {o, n} : C[x] = g.childs[x]
  BY <1>1, <1>2, <1>3
<1> HIDE DEF C
<1>7. /\ m.live = g.live /\ m.selected = g.selected /\ m.root = g.root /\ m.buffer = g.buffer
      /\ m.fault = g.fault /\ m.parent = g.parent /\ m.childs = C /\ m \in Heap
  BY <1>5, <1>6 DEF Heap
<1>8. d = Destroy(TakeOut(m, o), o)
  BY <1>7 DEF DeleteObject, d
<1>9. CASE p = NoObject
  <2> DEFINE u == [m EXCEPT !.root = NoObject]
  <2>1. TakeOut(m, o) = u
    BY <1>7, <1>9 DEF TakeOut
  <2>2. /\ u \in Heap /\ u.live = g.live /\ u.selected = g.selected /\ u.root = NoObject
        /\ u.buffer = g.buffer /\ u.fault = g.fault /\ u.childs = C
    BY <1>7 DEF Heap
  <2> HIDE DEF u
  <2>3. u.childs[o] = <<>> /\ o \in u.live
    BY <2>2, <1>6
  <2>4. /\ d \in Heap /\ d.live = u.live \ {o} /\ d.selected = u.selected \ {o}
        /\ d.root = u.root /\ d.buffer = u.buffer /\ d.fault = u.fault
        /\ \A x \in Ids : d.parent[x] = IF x = o THEN NoObject ELSE u.parent[x]
        /\ \A x \in Ids : d.childs[x] = IF x = o THEN <<>> ELSE u.childs[x]
    BY <2>1, <2>2, <2>3, <1>8, DestroyChildless
  <2>5. /\ r \in Heap /\ r.live = d.live /\ r.selected = d.selected /\ r.root = n
        /\ r.buffer = d.buffer /\ r.fault = d.fault /\ r.childs = d.childs
    BY <2>4, <1>1, <1>4, <1>9 DEF Heap
  <2>6. \A x \in Ids : r.childs[x] = IF x = o THEN <<>> ELSE C[x]
    BY <2>2, <2>4, <2>5
  <2>7. Kids(r, o) = {} /\ Kids(r, n) = Kids(g, n) \cup Kids(g, o)
    BY <2>6, <1>1, <1>2, <1>3, <1>6 DEF Kids
  <2>8. \A x \in Ids : x # o /\ x # n => Kids(r, x) = Kids(g, x)
    BY <2>6, <1>6 DEF Kids
  <2>9. r.live = g.live \ {o} /\ r.selected = g.selected \ {o} /\ r.buffer = g.buffer /\ r.fault = g.fault
    BY <2>2, <2>4, <2>5
  <2> QED BY <2>5, <2>7, <2>8, <2>9, <1>9 DEF r
<1>10. CASE p # NoObject
  <2>0. p \in g.live /\ p \in Ids
    BY <1>1, <1>10
  <2> DEFINE e == RemoveFirst(g.childs[p], o)
             u == UnlinkFromParent(m, o)
             E == [C EXCEPT ![p] = e]
             Q == [m.parent EXCEPT ![o] = NoObject]
  <2>1. m.childs[p] = g.childs[p] /\ g.childs[p] \in Seq(Ids) /\ IsInjective(g.childs[p]) /\ o \in ToSet(g.childs[p])
    BY <2>0, <1>1, <1>6, <1>7, TypeOfTrees DEF Kids
  <2>2. e \in Seq(Ids) /\ ToSet(e) = ToSet(g.childs[p]) \ {o}
    BY <2>1, RemoveFirstProperties
  <2>3. TakeOut(m, o) = u
    BY <1>7, <1>10 DEF TakeOut
  <2>4. u = [m EXCEPT !.childs = E, !.parent = Q]
    <3>1. Linked(m, o)
      BY <2>0, <2>1, <1>7 DEF Linked
    <3>2. u = [m EXCEPT !.childs[m.parent[o]] = RemoveFirst(@, o), !.parent[o] = NoObject]
      BY <3>1, <1>7, <1>10 DEF UnlinkFromParent
    <3>3. m.parent[o] = p
      BY <1>7
    <3> HIDE DEF u
    <3> QED BY <3>2, <3>3, <2>1, <1>7 DEF Heap
  <2> HIDE DEF u, e
  <2>5. E \in [Ids -> Seq(Ids)] /\ E[p] = e /\ \A x \in Ids \ {p} : E[x] = C[x]
    BY <2>0, <2>2, <1>6
  <2>6. Q \in [Ids -> Ids \cup {NoObject}]
    BY <1>1, <1>7
  <2> HIDE DEF E, Q
  <2>7. /\ u \in Heap /\ u.live = g.live /\ u.selected = g.selected /\ u.root = g.root
        /\ u.buffer = g.buffer /\ u.fault = g.fault /\ u.childs = E
    BY <2>4, <2>5, <2>6, <1>7 DEF Heap
  <2>8. u.childs[o] = <<>> /\ o \in u.live
    BY <2>5, <2>7, <1>1, <1>6
  <2>9. /\ d \in Heap /\ d.live = u.live \ {o} /\ d.selected = u.selected \ {o}
        /\ d.root = u.root /\ d.buffer = u.buffer /\ d.fault = u.fault
        /\ \A x \in Ids : d.parent[x] = IF x = o THEN NoObject ELSE u.parent[x]
        /\ \A x \in Ids : d.childs[x] = IF x = o THEN <<>> ELSE u.childs[x]
    BY <2>3, <2>7, <2>8, <1>8, DestroyChildless
  <2> DEFINE a == Append(e, n)
             K == [d.childs EXCEPT ![p] = a]
  <2>10. a \in Seq(Ids) /\ ToSet(a) = ToSet(e) \cup {n}
    BY <2>2, <1>1, AppendElement
  <2>11. d.childs[p] = e
    BY <2>0, <2>5, <2>7, <2>9, <1>1
  <2>12. r = [d EXCEPT !.childs = K]
    BY <2>9, <2>11, <1>4, <1>10 DEF Heap
  <2> HIDE DEF a
  <2>13. /\ K \in [Ids -> Seq(Ids)] /\ K[p] = a
         /\ \A x \in Ids \ {p} : K[x] = d.childs[x]
    BY <2>0, <2>9, <2>10 DEF Heap
  <2> HIDE DEF K
  <2>14. /\ r \in Heap /\ r.live = d.live /\ r.selected = d.selected /\ r.root = d.root
         /\ r.buffer = d.buffer /\ r.fault = d.fault /\ r.childs = K
    BY <2>9, <2>12, <2>13 DEF Heap
  <2>15. \A x \in Ids \ {p} : r.childs[x] = IF x = o THEN <<>> ELSE C[x]
    <3> SUFFICES ASSUME NEW x \in Ids, x # p PROVE r.childs[x] = IF x = o THEN <<>> ELSE C[x]
      OBVIOUS
    <3>1. r.childs[x] = d.childs[x]
      BY <2>13, <2>14
    <3>2. d.childs[x] = IF x = o THEN <<>> ELSE u.childs[x]
      BY <2>9
    <3>3. u.childs[x] = C[x]
      BY <2>5, <2>7
    <3> QED BY <3>1, <3>2, <3>3
  <2>16. Kids(r, o) = {} /\ Kids(r, n) = Kids(g, n) \cup Kids(g, o)
    BY <2>15, <1>1, <1>2, <1>3, <1>6 DEF Kids
  <2>17. \A x \in Ids : x # o /\ x # n /\ x # p => Kids(r, x) = Kids(g, x)
    BY <2>15, <1>6 DEF Kids
  <2>18. Kids(r, p) = (Kids(g, p) \ {o}) \cup {n}
    BY <2>2, <2>10, <2>13, <2>14 DEF Kids
  <2>19. r.live = g.live \ {o} /\ r.selected = g.selected \ {o} /\ r.buffer = g.buffer /\ r.fault = g.fault
         /\ r.root = g.root
    BY <2>7, <2>9, <2>14
  <2> QED BY <2>14, <2>16, <2>17, <2>18, <2>19, <1>10 DEF r
<1> QED BY <1>9, <1>10

\* What is not below the replaced object is still in the model or in the copy buffer, and
\* what was below it is below the new one.
LEMMA ReplaceProperties ==
  ASSUME NEW h, Forest(h), NEW s, Hierarchy(s), HasRoom(h, s), NEW o, SingleSel(h, o)
  PROVE  LET r == ReplaceObject(Build(h, s), o, Top(h, s))
         IN  /\ r \in Heap /\ r.selected \subseteq r.live /\ h.live \ r.live = {o}
             /\ InModel(r) \cup InBuffer(r) = r.live
<1> DEFINE g == Build(h, s)
           n == Top(h, s)
           p == g.parent[o]
           r == ReplaceObject(g, o, n)
           W == InModel(r) \cup InBuffer(r)
<1> Trees(h) /\ LinkedBothWays(h)
  BY DEF Forest, Trees
<1>1. o \in h.live /\ o \in InModel(h) /\ Selected(h) = {o}
  BY SingleSelProperties
<1>2. /\ Trees(g) /\ n \in Tops(g) /\ n \notin h.live /\ Tops(g) = Tops(h) \cup {n}
      /\ g.live = h.live \cup Below(g, n) /\ h.live \cap Below(g, n) = {}
      /\ g.selected \cap h.live = h.selected
      /\ g.root = h.root /\ g.buffer = h.buffer /\ g.fault = h.fault
      /\ \A x \in h.live : /\ g.parent[x] = h.parent[x] /\ g.childs[x] = h.childs[x]
                           /\ Below(g, x) = Below(h, x)
      /\ Cardinality(Ids \ g.live) = Cardinality(Ids \ h.live) - Cardinality(DOMAIN s.childs)
  BY BuildProperties
<1> HIDE DEF g, n
<1>3. LinkedBothWays(g) /\ o \in g.live /\ n \in g.live /\ n # o /\ g.live \subseteq Ids /\ h.live \subseteq g.live
  BY <1>1, <1>2, TypeOfTrees DEF Trees, Tops
<1>4. /\ p = h.parent[o] /\ p \in h.live \cup {NoObject} /\ p # n /\ p # o
      /\ o # NoObject /\ n # NoObject
  BY <1>1, <1>2, <1>3, TypeOfTrees, NoObjectIsNone, NoLoop
<1>5. p = NoObject => o = g.root
  BY <1>1, <1>2, <1>4, TopmostProperties
<1>6. /\ r \in Heap /\ r.live = g.live \ {o} /\ r.selected = g.selected \ {o}
      /\ r.buffer = g.buffer /\ r.fault = g.fault
      /\ r.root = IF p = NoObject THEN n ELSE g.root
      /\ Kids(r, o) = {} /\ Kids(r, n) = Kids(g, n) \cup Kids(g, o)
      /\ p # NoObject => Kids(r, p) = (Kids(g, p) \ {o}) \cup {n}
      /\ \A x \in Ids : x # o /\ x # n /\ x # p => Kids(r, x) = Kids(g, x)
  <2>1. /\ Trees(g) /\ o \in g.live /\ n \in g.live /\ n # o /\ g.parent[o] # n
        /\ g.parent[o] = NoObject => o = g.root
    BY <1>2, <1>3, <1>4, <1>5 DEF p
  <2> QED BY <2>1, ReplaceFields
<1> HIDE DEF r, p
<1>7. /\ r.childs \in [Ids -> Seq(Ids)] /\ \A q, x \in Ids : x \in Kids(g, q) <=> g.parent[x] = q
      /\ \A x \in Ids : g.parent[x] # NoObject => x \in g.live
      /\ \A x \in Ids : g.parent[x] \in g.live \cup {NoObject}
      /\ g.selected \subseteq g.live
  BY <1>3, <1>6, TypeOfTrees DEF Heap
<1>8. ASSUME NEW q \in Ids, NEW x \in Kids(g, q), q # o, x # o PROVE x \in Kids(r, q)
  <2>1. CASE q = n
    BY <2>1, <1>6, <1>8
  <2>2. CASE q # n /\ q = p
    <3>1. p # NoObject
      BY <2>2, <1>8, NoObjectIsNone
    <3> QED BY <2>2, <3>1, <1>6, <1>8
  <2>3. CASE q # n /\ q # p
    BY <2>3, <1>6, <1>8
  <2> QED BY <2>1, <2>2, <2>3
<1>9. \A q \in r.live : Kids(r, q) \subseteq r.live
  <2> SUFFICES ASSUME NEW q \in r.live, NEW x \in Kids(r, q) PROVE x \in r.live
    OBVIOUS
  <2>0. q \in Ids /\ q # o
    BY <1>3, <1>6
  <2>1. x \in Ids
    <3>1. Kids(r, q) \subseteq Ids
      BY <2>0, <1>7, KidsAreObjects
    <3> QED BY <3>1
  <2>2. ASSUME NEW y \in Ids, x \in Kids(g, y) PROVE x \in g.live /\ (y # p => x # o)
    <3>1. g.parent[x] = y
      BY <2>1, <2>2, <1>7
    <3>2. g.parent[x] # NoObject
      BY <3>1, NoObjectIsNone
    <3> QED BY <2>1, <3>1, <3>2, <1>7 DEF p
  <2>3. o \in Ids /\ n \in Ids /\ n # o /\ p # n /\ p # o
    BY <1>3, <1>4
  <2>4. CASE q = n
    <3>1. x \in Kids(g, n) \cup Kids(g, o)
      BY <2>4, <1>6
    <3> QED BY <3>1, <2>4, <2>2, <2>3, <1>3, <1>4, <1>6
  <2>5. CASE q # n /\ q = p
    <3>1. x \in (Kids(g, p) \ {o}) \cup {n}
      BY <2>0, <2>5, <1>6, NoObjectIsNone
    <3> QED BY <3>1, <2>0, <2>5, <2>2, <1>3, <1>6
  <2>6. CASE q # n /\ q # p
    <3>1. x \in Kids(g, q)
      BY <2>0, <2>6, <1>6
    <3> QED BY <3>1, <2>0, <2>6, <2>2, <1>6
  <2> QED BY <2>4, <2>5, <2>6
<1>10. /\ ToSet(h.buffer) \subseteq h.live /\ o \notin ToSet(h.buffer) /\ h.root \in h.live \cup {NoObject}
       /\ Tops(h) = ({h.root} \ {NoObject}) \cup ToSet(h.buffer)
  <2>1. /\ InModel(h) \cap InBuffer(h) = {} /\ ToSet(h.buffer) \subseteq h.live
        /\ InBuffer(h) = UNION {Below(h, b) : b \in ToSet(h.buffer)} /\ h.root \in h.live \cup {NoObject}
    BY OwnersOfForest
  <2>2. ToSet(h.buffer) \subseteq InBuffer(h)
    BY <2>1, BelowInTrees
  <2> QED BY <2>1, <2>2, <1>1 DEF Forest
<1>11. r.root \in r.live \cup {NoObject} /\ ToSet(r.buffer) \subseteq r.live
  <2>1. p # NoObject => h.root # o
    <3>1. o = h.root => o \in Tops(h)
      BY <1>4, <1>10
    <3> QED BY <3>1, <1>4 DEF Tops
  <2> QED BY <2>1, <1>2, <1>3, <1>4, <1>6, <1>10
<1>12. /\ r.root # NoObject => InModel(r) = Below(r, r.root)
       /\ r.root = NoObject => InModel(r) = {}
       /\ InBuffer(r) = UNION {Below(r, b) : b \in ToSet(r.buffer)}
  <2>1. r.root # NoObject => ToSet(RootSeq(r)) = {r.root}
    BY DEF RootSeq, ToSet
  <2>2. r.root = NoObject => ToSet(RootSeq(r)) = {}
    BY DEF RootSeq, ToSet
  <2> QED BY <2>1, <2>2 DEF InModel, InBuffer, BelowAll
<1>13. ASSUME NEW t \in r.live
       PROVE  /\ t \in Below(r, t) /\ Below(r, t) \subseteq r.live
              /\ \A q \in Below(r, t) : Kids(r, q) \subseteq Below(r, t)
  <2>1. t \in Ids /\ r.live \in SUBSET Ids
    BY <1>3, <1>6
  <2>2. t \in Below(r, t) /\ \A q \in Below(r, t) : Kids(r, q) \subseteq Below(r, t)
    BY <2>1, <1>7, BelowIsClosed
  <2>3. Below(r, t) \subseteq r.live
    BY <2>1, <1>9, BelowIsLeast
  <2> QED BY <2>2, <2>3
<1>14. /\ W \subseteq r.live /\ \A q \in W : Kids(r, q) \subseteq W
       /\ r.root # NoObject => r.root \in W
       /\ ToSet(r.buffer) \subseteq W
  <2>1. W \subseteq r.live
    BY <1>11, <1>12, <1>13
  <2>2. \A q \in InModel(r) : Kids(r, q) \subseteq InModel(r)
    BY <1>11, <1>12, <1>13
  <2>3. \A q \in InBuffer(r) : Kids(r, q) \subseteq InBuffer(r)
    BY <1>11, <1>12, <1>13
  <2>4. (r.root # NoObject => r.root \in W) /\ ToSet(r.buffer) \subseteq W
    BY <1>11, <1>12, <1>13
  <2> QED BY <2>1, <2>2, <2>3, <2>4
<1> HIDE DEF W
<1>15. \A x \in Tops(h) : x # o => x \in W
  BY <1>2, <1>4, <1>5, <1>6, <1>10, <1>14
<1>16. n \in W
  <2>1. CASE p = NoObject
    BY <2>1, <1>4, <1>6, <1>14
  <2>2. CASE p # NoObject
    <3> DEFINE S == W \cup Below(h, o)
    <3>1. /\ o \in Below(h, o)
          /\ \A x \in Ids : h.parent[x] \in Below(h, o) => x \in Below(h, o)
      BY <1>1, BelowInTrees
    <3>2. ASSUME NEW x \in h.live, h.parent[x] \in S \cup {NoObject} PROVE x \in S
      <4>0. x \in Ids /\ g.parent[x] = h.parent[x]
        BY <1>2, <1>3
      <4>1. CASE h.parent[x] = NoObject
        <5>1. x \in Tops(h)
          BY <4>1 DEF Tops
        <5> QED BY <5>1, <3>1, <1>15
      <4>2. CASE h.parent[x] \in Below(h, o)
        BY <4>0, <4>2, <3>1
      <4>3. CASE h.parent[x] \in W /\ h.parent[x] \notin Below(h, o)
        <5>1. h.parent[x] # o /\ h.parent[x] \in Ids
          BY <4>3, <3>1, <1>3, <1>6, <1>14
        <5>2. x \in Kids(g, h.parent[x])
          BY <5>1, <4>0, <1>7
        <5>3. x # o => x \in W
          BY <5>1, <5>2, <4>3, <1>8, <1>14
        <5> QED BY <5>3, <3>1
      <4> QED BY <3>2, <4>1, <4>2, <4>3
    <3> HIDE DEF S
    <3>3. h.live \subseteq S
      BY <3>2, TopDown
    <3>4. p \in h.live
      BY <2>2, <1>4
    <3>5. p \notin Below(h, o)
      <4> SUFFICES ASSUME p \in Below(h, o) PROVE FALSE
        OBVIOUS
      <4>1. o \in Below(h, p)
        <5>1. p \in Below(h, p) /\ o \in Ids /\ h.parent[o] = p
          BY <3>4, <1>3, <1>4, BelowInTrees
        <5> QED BY <5>1, <3>4, BelowInTrees
      <4> QED BY <4>1, <3>4, <1>1, <1>4, BelowIsAntisymmetric
    <3>6. p \in W
      BY <3>3, <3>4, <3>5 DEF S
    <3> QED BY <2>2, <3>6, <1>6, <1>14
  <2> QED BY <2>1, <2>2
<1>17. r.live \subseteq W
  <2> DEFINE S == W \cup {o}
  <2>1. ASSUME NEW x \in g.live, g.parent[x] \in S \cup {NoObject} PROVE x \in S
    <3>0. x \in Ids
      BY <1>3
    <3>1. CASE g.parent[x] = NoObject
      <4>1. x \in Tops(g)
        BY <3>1 DEF Tops
      <4> QED BY <4>1, <1>2, <1>15, <1>16
    <3>2. CASE g.parent[x] = o
      <4>1. x \in Kids(g, o)
        BY <3>0, <3>2, <1>3, <1>7
      <4> QED BY <4>1, <1>6, <1>14, <1>16
    <3>3. CASE g.parent[x] \in W /\ g.parent[x] # o
      <4>1. g.parent[x] \in Ids
        BY <3>3, <1>3, <1>6, <1>14
      <4>2. x \in Kids(g, g.parent[x])
        BY <4>1, <3>0, <1>7
      <4>3. x # o => x \in W
        BY <4>1, <4>2, <3>3, <1>8, <1>14
      <4> QED BY <4>3
    <3> QED BY <2>1, <3>1, <3>2, <3>3
  <2> HIDE DEF S
  <2>2. g.live \subseteq S
    BY <2>1, <1>2, TopDown
  <2> QED BY <2>2, <1>6 DEF S
<1>18. W = r.live
  BY <1>14, <1>17
<1>19. h.live \ r.live = {o} /\ r.selected \subseteq r.live
  BY <1>1, <1>3, <1>6, <1>7
<1> QED BY <1>6, <1>18, <1>19 DEF W, r, g, n

\* Only Object / Replace leaves a heap on which exactly one command, that one, was taken
\* since an object was replaced.
LEMMA OnlyReplacingCounts ==
  ASSUME IInv, [Next]_vars, since' = 1
  PROVE  UNCHANGED vars \/ (since = 0 /\ \E s \in Shapes : DoReplace(s))
<1>1. since \in Nat
  BY ShapeAssumption DEF IInv
<1>2. ASSUME NEW h PROVE ~ Leave(h)
  BY <1>1 DEF Leave, Step
<1>3. ~Select /\ ~DoDelete /\ ~DoCopy /\ ~DoCut /\ ~DoPaste /\ ~DoAddObject
  BY <1>2 DEF Select, DoDelete, DoCopy, DoCut, DoPaste, DoAddObject
<1>4. ~DoSwap /\ ~DoMerge /\ ~DoNew /\ ~DoUndoRedo
  BY <1>2 DEF DoSwap, DoMerge, DoNew, DoUndoRedo
<1>5. ASSUME NEW s \in Shapes PROVE ~DoInsert(s) /\ ~DoLoad(s)
  BY <1>2 DEF DoInsert, DoLoad
<1>6. ASSUME NEW s \in Shapes, DoReplace(s) PROVE since = 0
  BY <1>1, <1>6 DEF DoReplace, Step
<1> QED BY <1>3, <1>4, <1>5, <1>6 DEF Next

\* What Object / Replace makes of an intact hierarchy.
LEMMA ReplaceLeaves ==
  ASSUME IInv, since = 0, NEW s \in Shapes, DoReplace(s)
  PROVE  /\ heap' \in Heap /\ heap'.selected \subseteq heap'.live
         /\ heap.live \ heap'.live = Selected(heap)
         /\ InModel(heap') \cup InBuffer(heap') = heap'.live
<1>1. Forest(heap) /\ Hierarchy(s)
  BY ShapeAssumption DEF IInv
<1>2. PICK o \in heap.live : /\ HasRoom(heap, s) /\ SingleSel(heap, o)
                             /\ heap' = ReplaceObject(Build(heap, s), o, Top(heap, s))
  BY DEF DoReplace, Step
<1>3. Selected(heap) = {o}
  BY <1>1, <1>2, SingleSelProperties
<1> DEFINE r == ReplaceObject(Build(heap, s), o, Top(heap, s))
<1>4. /\ r \in Heap /\ r.selected \subseteq r.live /\ heap.live \ r.live = {o}
      /\ InModel(r) \cup InBuffer(r) = r.live
  BY <1>1, <1>2, ReplaceProperties
<1> HIDE DEF r
<1>5. heap' = r
  BY <1>2 DEF r
<1> QED BY <1>3, <1>4, <1>5

\* What is below an object is copied as a hierarchy, wherever parent pointers point, when a
\* traversal meets every object once.
LEMMA MetOnceIsHierarchy ==
  ASSUME NEW h \in Heap, NEW o \in Ids, MetOnce(h, <<o>>)
  PROVE  Hierarchy(ShapeOf(h, o))
<1> DEFINE s == ShapeOf(h, o)
           nodes == Below(h, o)
<1>1. s.childs = [x \in nodes |-> h.childs[x]] /\ s.top = o /\ s.selected = h.selected \cap nodes
  BY DEF ShapeOf
<1> HIDE DEF s
<1>2. h.childs \in [Ids -> Seq(Ids)]
  BY DEF Heap
<1>3. /\ o \in nodes /\ nodes \subseteq Ids /\ \A p \in nodes : Kids(h, p) \subseteq nodes
      /\ \A x \in nodes : x # o => \E p \in nodes : x \in Kids(h, p)
  BY <1>2, BelowIsClosed, BelowIsOwned
<1>4. Apart(h.childs, nodes) /\ \A p \in nodes : o \notin Kids(h, p)
  <2>1. ToSet(<<o>>) = {o}
    BY DEF ToSet
  <2>2. BelowAll(h, <<o>>) = nodes
    BY <2>1 DEF BelowAll
  <2> QED BY <2>1, <2>2 DEF MetOnce, Kids
<1>5. ASSUME NEW S \in SUBSET nodes, S # {}
      PROVE  \E x \in S : \A p \in S : x \notin Kids(h, p)
  <2> SUFFICES ASSUME \A x \in S : \E p \in S : x \in Kids(h, p) PROVE FALSE
    OBVIOUS
  <2> DEFINE T == nodes \ S
  <2>1. \A x, p, q \in nodes : x \in Kids(h, p) /\ x \in Kids(h, q) => p = q
    BY <1>4 DEF Apart, Kids, ToSet
  <2>2. o \in T /\ T \in SUBSET Ids
    BY <1>3, <1>4
  <2>3. \A p \in T : Kids(h, p) \subseteq T
    BY <2>1, <1>3
  <2> HIDE DEF T
  <2>4. nodes \subseteq T
    BY <2>2, <2>3, BelowIsLeast
  <2> QED BY <2>4, <1>5 DEF T
<1> HIDE DEF nodes
<1>6. /\ DOMAIN s.childs = nodes /\ IsFiniteSet(nodes)
      /\ \A x \in nodes : s.childs[x] = h.childs[x] /\ ToSet(s.childs[x]) = Kids(h, x)
  BY <1>1, <1>3, IdsAreFinite DEF Kids
<1>7. ASSUME NEW x \in nodes PROVE s.childs[x] \in Seq(nodes)
  <2> DEFINE c == h.childs[x]
  <2>1. c \in Seq(Ids) /\ ToSet(c) \subseteq nodes
    BY <1>2, <1>3 DEF Kids
  <2> HIDE DEF c
  <2>2. c \in [1 .. Len(c) -> Ids] /\ Len(c) \in Nat /\ \A i \in 1 .. Len(c) : c[i] \in nodes
    BY <2>1, LenProperties, ElementsOfSeq
  <2>3. c \in [1 .. Len(c) -> nodes]
    BY <2>2
  <2> QED BY <2>2, <2>3, <1>6, SeqDef DEF c
<1>8. s.childs \in [nodes -> Seq(nodes)]
  BY <1>1, <1>6, <1>7
<1>9. Apart(s.childs, nodes)
  BY <1>4, <1>6 DEF Apart
<1>10. \A x \in nodes : x = o <=> \A p \in nodes : x \notin ToSet(s.childs[p])
  BY <1>3, <1>4, <1>6
<1>11. \A S \in (SUBSET nodes) \ {{}} : \E x \in S : \A p \in S : x \notin ToSet(s.childs[p])
  BY <1>5, <1>6
<1>12. s.top \in nodes /\ s.selected \subseteq nodes
  BY <1>1, <1>3
<1>13. Hierarchy(s)
  BY <1>1, <1>6, <1>8, <1>9, <1>10, <1>11, <1>12 DEF Hierarchy
<1> QED BY <1>13 DEF s

\* The objects of a new hierarchy have the parent that has them among its childs, whatever
\* else is on the heap.
LEMMA BuildRelinks ==
  ASSUME NEW h \in Heap, NEW s, Hierarchy(s), HasRoom(h, s)
  PROVE  LET g == Build(h, s)
         IN  /\ g \in Heap
             /\ \A p \in Below(g, Top(h, s)) : \A x \in Kids(g, p) : g.parent[x] = p
<1> DEFINE g == Build(h, s)
           nodes == DOMAIN s.childs
           at == Addresses(h, nodes)
           R == Range(at)
           o == at[s.top]
<1>0. h.live \subseteq Ids
  BY DEF Heap
<1>1. /\ at \in [nodes -> Ids \ h.live]
      /\ \A x, y \in nodes : at[x] = at[y] => x = y
      /\ R = {at[x] : x \in nodes} /\ R \subseteq Ids \ h.live
      /\ Cardinality(Ids \ (h.live \cup R)) = Cardinality(Ids \ h.live) - Cardinality(nodes)
  BY <1>0, AddressesProperties DEF Hierarchy, HasRoom
<1>2. /\ g \in Heap
      /\ \A x \in nodes : /\ g.parent[at[x]] = ParentIn(s, at, x)
                          /\ g.childs[at[x]] = [j \in DOMAIN s.childs[x] |-> at[s.childs[x][j]]]
  BY BuildFields
<1>3. \A x, p \in nodes : ParentIn(s, at, x) = at[p] <=> x \in ToSet(s.childs[p])
  BY <1>1, ParentInProperties
<1>4. s.top \in nodes /\ \A x \in nodes : ToSet(s.childs[x]) \subseteq nodes
  <2>1. s.top \in nodes /\ \A x \in nodes : s.childs[x] \in Seq(nodes)
    BY DEF Hierarchy
  <2> QED BY <2>1, ElementsOfSeq
<1> HIDE DEF g, at, R, nodes
<1>5. ASSUME NEW p \in R, NEW y \in Kids(g, p) PROVE y \in R /\ g.parent[y] = p
  <2>1. PICK x \in nodes : p = at[x]
    BY <1>1
  <2>2. Kids(g, p) = {at[z] : z \in ToSet(s.childs[x])}
    <3> DEFINE c == s.childs[x]
    <3>1. g.childs[p] = [j \in DOMAIN c |-> at[c[j]]]
      BY <2>1, <1>2
    <3> HIDE DEF c
    <3>2. ToSet(g.childs[p]) = {at[z] : z \in ToSet(c)}
      BY <3>1 DEF ToSet
    <3> QED BY <3>2 DEF Kids, c
  <2>3. PICK z \in ToSet(s.childs[x]) : y = at[z]
    BY <2>2
  <2>4. z \in nodes /\ at[z] \in R
    BY <2>1, <2>3, <1>1, <1>4
  <2>5. g.parent[at[z]] = at[x]
    BY <2>1, <2>3, <2>4, <1>2, <1>3
  <2> QED BY <2>1, <2>3, <2>4, <2>5
<1>6. o \in R /\ R \in SUBSET Ids /\ \A p \in R : Kids(g, p) \subseteq R
  BY <1>1, <1>4, <1>5
<1>7. Below(g, o) \subseteq R
  BY <1>6, BelowIsLeast
<1>8. Top(h, s) = o
  BY DEF Top, at, nodes
<1> HIDE DEF o
<1>9. /\ g \in Heap
      /\ \A p \in Below(g, Top(h, s)) : \A x \in Kids(g, p) : g.parent[x] = p
  BY <1>2, <1>5, <1>7, <1>8
<1> QED BY <1>9 DEF g

\* An undo and a redo leave a model in which every object has its parent, whatever was
\* wrong with the parent pointers before.
LEMMA UndoRedoHeals ==
  ASSUME heap \in Heap, DoUndoRedo
  PROVE  \A p \in InModel(heap') : \A o \in ToSet(heap'.childs[p]) : heap'.parent[o] = p
<1> DEFINE s == ShapeOf(heap, heap.root)
           h == SetRoot(heap, NoObject)
           g == Build(h, s)
           t == Top(h, s)
<1>1. /\ heap.root # NoObject /\ MetOnce(heap, RootSeq(heap)) /\ HasRoom(h, s)
      /\ heap' = [g EXCEPT !.root = t]
  BY DEF DoUndoRedo, Leave, Step
<1>2. Hierarchy(s)
  <2>1. heap.root \in Ids /\ RootSeq(heap) = <<heap.root>>
    BY <1>1 DEF Heap, RootSeq
  <2> QED BY <2>1, <1>1, MetOnceIsHierarchy
<1>3. h \in Heap
  <2> DEFINE d == Destroy(heap, heap.root)
  <2>1. d \in Heap
    <3>1. Without(heap, Below(heap, heap.root)) \in Heap
      BY EmptySeq DEF Heap, Without
    <3>2. Fault(heap, "dangling") \in Heap
      BY DEF Heap, Fault
    <3> QED BY <3>1, <3>2 DEF Destroy
  <2> HIDE DEF d
  <2>2. h = [d EXCEPT !.root = NoObject]
    BY <1>1 DEF SetRoot, d
  <2> HIDE DEF h
  <2> QED BY <2>1, <2>2 DEF Heap
<1> HIDE DEF h, s
<1>4. g \in Heap /\ \A p \in Below(g, t) : \A x \in Kids(g, p) : g.parent[x] = p
  BY <1>1, <1>2, <1>3, BuildRelinks
<1> HIDE DEF g, t
<1>5. heap'.childs = g.childs /\ heap'.parent = g.parent /\ heap'.root = t
  BY <1>1, <1>4 DEF Heap
<1>6. Below(heap', t) = Below(g, t)
  BY <1>5 DEF Below
<1>7. InModel(heap') \subseteq Below(heap', t)
  BY <1>5 DEF InModel, BelowAll, RootSeq, ToSet
<1> QED BY <1>4, <1>5, <1>6, <1>7 DEF Kids

-----------------------------------------------------------------------------
(* Theorems *)

\* As long as no object was replaced, the heap is a forest whose roots are the model's
\* root and the buffered objects, and nothing has met a fault.
THEOREM Invariance == Spec => []IInv
<1>1. IInv /\ [Next]_vars => IInv'
  BY IInvNext
<1> QED BY <1>1, InitForest, PTL DEF Spec

\* As long as no object was replaced, every object is owned exactly once, by a parent, as
\* the root or by the copy buffer: ~MdlObject and the commands neither leak an object nor
\* free one twice, and no owner keeps a freed one.
THEOREM EveryObjectIsOwned == Spec => []OwnedOnce
<1>1. IInv => OwnedOnce
  <2> SUFFICES ASSUME IInv, Intact PROVE AllOwned
    BY DEF OwnedOnce
  <2>1. Forest(heap)
    BY DEF IInv, Intact
  <2> QED BY <2>1, ForestIsOwned DEF AllOwned
<1> QED BY <1>1, Invariance, PTL

\* As long as no object was replaced, every parent pointer names the object that has the
\* child in its list, so that UnlinkFromParent and MergeChild erase what they should.
THEOREM BothDirectionsAgree == Spec => []LinksAgree
<1>1. IInv => LinksAgree
  <2> SUFFICES ASSUME IInv, Intact, NEW o \in heap.live
               PROVE  heap.parent[o] = IF \E p \in heap.live : o \in ToSet(heap.childs[p])
                                       THEN CHOOSE p \in heap.live : o \in ToSet(heap.childs[p])
                                       ELSE NoObject
    BY DEF LinksAgree
  <2>1. LinkedBothWays(heap)
    BY DEF IInv, Intact, Forest, Trees
  <2> QED BY <2>1, ForestLinksAgree
<1> QED BY <1>1, Invariance, PTL

\* As long as no object was replaced, no command reads a freed object or erases a link
\* that is not there.
THEOREM NothingDangles == Spec => []NoDangling
<1>1. IInv => NoDangling
  BY DEF IInv, NoDangling, Intact, Forest
<1> QED BY <1>1, Invariance, PTL

\* As long as no object was replaced, the assertions of DeleteObject and Cut hold: an
\* object without a parent that is deleted or cut is the root.
THEOREM AssertionsHoldIntact == Spec => [](Intact => AssertionsHold)
<1>1. IInv => (Intact => AssertionsHold)
  BY DEF IInv, AssertionsHold, Intact, Forest
<1> QED BY <1>1, Invariance, PTL

\* Delete takes the selected objects with all that is below them and nothing else, and
\* leaves the links between the others (uiDeleteSelection, DeleteObject).
THEOREM DeletingIsExact == Spec => DeleteIsExact
<1>1. ASSUME IInv, [Next]_vars
      PROVE  [Intact /\ DoDelete => /\ heap'.live = heap.live \ BelowSelected
                                    /\ \A o \in heap'.live : heap'.parent[o] = heap.parent[o]]_vars
  <2> SUFFICES ASSUME Intact, DoDelete
               PROVE  /\ heap'.live = heap.live \ BelowSelected
                      /\ \A o \in heap'.live : heap'.parent[o] = heap.parent[o]
    OBVIOUS
  <2>1. Forest(heap)
    BY <1>1 DEF IInv, Intact
  <2>2. PICK s \in InOrder(heap, Topmost(heap)) : heap' = DeleteSelection(heap, s)
    BY DEF DoDelete, Leave, Step
  <2> QED BY <2>1, <2>2, DeleteSelectionProperties DEF BelowSelected
<1> QED BY <1>1, Invariance, PTL DEF Spec, DeleteIsExact

\* Cut moves the selected hierarchies in one piece from the model into the copy buffer,
\* and frees only what was in it (CopyBuffer::Cut, which starts over after each object).
THEOREM CuttingLosesNothing == Spec => CutLosesNothing
<1>1. ASSUME IInv, [Next]_vars
      PROVE  [Intact /\ DoCut => /\ InModel(heap') = InModel(heap) \ BelowSelected
                                 /\ InBuffer(heap') = BelowSelected
                                 /\ \A o \in BelowSelected : Below(heap', o) = Below(heap, o)]_vars
  <2> SUFFICES ASSUME Intact, DoCut
               PROVE  /\ InModel(heap') = InModel(heap) \ BelowSelected
                      /\ InBuffer(heap') = BelowSelected
                      /\ \A o \in BelowSelected : Below(heap', o) = Below(heap, o)
    OBVIOUS
  <2>1. Forest(heap)
    BY <1>1 DEF IInv, Intact
  <2>2. heap' = Cut(heap)
    BY DEF DoCut, Leave, Step
  <2> QED BY <2>1, <2>2, CutProperties DEF BelowSelected
<1> QED BY <1>1, Invariance, PTL DEF Spec, CutLosesNothing

\* Two objects swapped exchange their places, also when one is the parent or an ancestor
\* of the other or the root, and all others stay where they were (SwapObjects).
THEOREM SwappingExchangesPlaces == Spec => SwapExchangesPlaces
<1>1. ASSUME IInv, [Next]_vars
      PROVE  [Intact /\ DoSwap =>
                \E a, b \in heap.live :
                  LET Partner(o) == IF o = a THEN b ELSE IF o = b THEN a ELSE o
                  IN
                    /\ a # b /\ Selected(heap) = {a, b}
                    /\ heap'.live = heap.live
                    /\ heap'.root = Partner(heap.root)
                    /\ \A o \in heap.live : heap'.parent[Partner(o)] = Partner(heap.parent[o])]_vars
  <2> SUFFICES ASSUME Intact, DoSwap
               PROVE  \E a, b \in heap.live :
                        LET Partner(o) == IF o = a THEN b ELSE IF o = b THEN a ELSE o
                        IN  /\ a # b /\ Selected(heap) = {a, b}
                            /\ heap'.live = heap.live
                            /\ heap'.root = Partner(heap.root)
                            /\ \A o \in heap.live : heap'.parent[Partner(o)] = Partner(heap.parent[o])
    OBVIOUS
  <2>1. Forest(heap) /\ Trees(heap) /\ heap.live \subseteq Ids
    BY <1>1, TypeOfTrees DEF IInv, Intact, Forest, Trees
  <2>2. PICK s \in GetSelectedObjects(heap) : Len(s) = 2 /\ heap' = SwapObjects(heap, s[1], s[2])
    BY DEF DoSwap, Leave, Step
  <2> DEFINE a == s[1]
             b == s[2]
             g == SwapObjects(heap, a, b)
  <2>3. a \in heap.live /\ b \in heap.live /\ a # b /\ Selected(heap) = {a, b}
    BY <2>1, <2>2, SwapKeeps
  <2> HIDE DEF a, b
  <2>4. /\ Trees(g) /\ g.live = heap.live /\ g.root = Other(a, b, heap.root)
        /\ \A o \in Ids : g.parent[Other(a, b, o)] = Other(a, b, heap.parent[o])
        /\ g.selected = heap.selected /\ g.buffer = heap.buffer /\ g.fault = heap.fault
    BY <2>1, <2>3, SwapProperties
  <2>5. heap' = g
    BY <2>2 DEF a, b
  <2> HIDE DEF g
  <2> DEFINE Partner(o) == IF o = a THEN b ELSE IF o = b THEN a ELSE o
  <2>6. \A o : Partner(o) = Other(a, b, o)
    BY DEF Other
  <2> HIDE DEF Partner
  <2>7. /\ heap'.live = heap.live /\ heap'.root = Partner(heap.root)
        /\ \A o \in heap.live : heap'.parent[Partner(o)] = Partner(heap.parent[o])
    BY <2>1, <2>4, <2>5, <2>6
  <2> QED BY <2>3, <2>7 DEF Partner
<1> QED BY <1>1, Invariance, PTL DEF Spec, SwapExchangesPlaces

\* Merging removes exactly the selected objects that have a parent, and leaves every other
\* object below the same objects as before (menuObjectMerge, MergeChild).
THEOREM MergingKeepsAncestry == Spec => MergeKeepsAncestry
<1>1. ASSUME IInv, [Next]_vars
      PROVE  [Intact /\ DoMerge =>
                LET merged == Selected(heap) \ {heap.root}
                    left == heap.live \ merged
                IN  /\ heap'.live = left
                    /\ \A p, o \in InModel(heap) \cap left :
                         o \in Below(heap, p) <=> o \in Below(heap', p)]_vars
  <2> DEFINE merged == Selected(heap) \ {heap.root}
             left == heap.live \ merged
  <2> SUFFICES ASSUME Intact, DoMerge
               PROVE  /\ heap'.live = left
                      /\ \A p, o \in InModel(heap) \cap left :
                           o \in Below(heap, p) <=> o \in Below(heap', p)
    OBVIOUS
  <2>1. Forest(heap)
    BY <1>1 DEF IInv, Intact
  <2>2. PICK s \in GetSelectedObjects(heap) : heap' = MergeSelection(heap, s)
    BY DEF DoMerge, Leave, Step
  <2>3. heap'.live = left /\ \A x \in heap'.live : Below(heap', x) = Below(heap, x) \ merged
    BY <2>1, <2>2, MergeSelectionProperties
  <2> QED BY <2>3
<1> QED BY <1>1, Invariance, PTL DEF Spec, MergeKeepsAncestry

\* Up to and including the command that replaces an object, the heap has its type; the
\* commands that follow one work on hierarchies whose parent pointers are wrong.
THEOREM TypeCorrectness == Spec => [](since <= 1 => TypeOK)
<1> DEFINE J == IInv /\ (since = 1 => heap \in Heap /\ heap.selected \subseteq heap.live)
<1>1. Init => J
  BY InitForest DEF Init
<1>2. J /\ [Next]_vars => J'
  <2> SUFFICES ASSUME J, [Next]_vars, since' = 1
               PROVE  heap' \in Heap /\ heap'.selected \subseteq heap'.live
    BY IInvNext
  <2>1. CASE UNCHANGED vars
    BY <2>1 DEF vars
  <2>2. ASSUME since = 0, NEW s \in Shapes, DoReplace(s)
        PROVE  heap' \in Heap /\ heap'.selected \subseteq heap'.live
    BY <2>2, ReplaceLeaves
  <2> QED BY <2>1, <2>2, OnlyReplacingCounts
<1>3. J => (since <= 1 => TypeOK)
  <2> SUFFICES ASSUME J, since <= 1 PROVE TypeOK
    OBVIOUS
  <2>1. since \in 0 .. AfterReplace + 1 /\ (since = 0 \/ since = 1)
    BY ShapeAssumption DEF IInv
  <2>2. CASE since = 0
    BY <2>1, <2>2, ForestHasType DEF IInv, TypeOK
  <2>3. CASE since = 1
    BY <2>1, <2>3 DEF TypeOK, Intact
  <2> QED BY <2>1, <2>2, <2>3
<1> HIDE DEF J
<1> QED BY <1>1, <1>2, <1>3, PTL DEF Spec

\* Replacing an object frees that object and no other: what was below it is still in the
\* model (Model::ReplaceObject).
THEOREM ReplacingKeepsTheRest == Spec => ReplaceKeepsTheRest
<1>1. ASSUME IInv, [Next]_vars
      PROVE  [\A s \in Shapes :
                Intact /\ DoReplace(s) =>
                  /\ heap.live \ heap'.live = Selected(heap)
                  /\ InModel(heap') \cup InBuffer(heap') = heap'.live]_vars
  BY <1>1, ReplaceLeaves DEF Intact
<1> QED BY <1>1, Invariance, PTL DEF Spec, ReplaceKeepsTheRest

\* As long as the heap has its type, an undo and a redo heal the parent pointers that a
\* replacement left wrong: a clone sets its own (MdlObject::Clone). This also holds on
\* hierarchies that commands after the replacement have worked on.
THEOREM UndoRedoHealsLinks == Spec /\ [](heap \in Heap) => UndoRedoRelinks
<1>1. ASSUME heap \in Heap
      PROVE  [AllOwned /\ DoUndoRedo =>
                \A p \in InModel(heap') :
                  \A o \in ToSet(heap'.childs[p]) : heap'.parent[o] = p]_vars
  BY <1>1, UndoRedoHeals
<1> QED BY <1>1, PTL DEF UndoRedoRelinks

\* An undo and a redo as the first command after a replacement heal the parent pointers,
\* with nothing assumed.
THEOREM UndoRedoHealsReplacing ==
  Spec => [][since <= 1 /\ DoUndoRedo =>
               \A p \in InModel(heap') :
                 \A o \in ToSet(heap'.childs[p]) : heap'.parent[o] = p]_vars
<1>1. ASSUME since <= 1 => TypeOK
      PROVE  [since <= 1 /\ DoUndoRedo =>
                \A p \in InModel(heap') :
                  \A o \in ToSet(heap'.childs[p]) : heap'.parent[o] = p]_vars
  BY <1>1, UndoRedoHeals DEF TypeOK
<1> QED BY <1>1, TypeCorrectness, PTL
============================

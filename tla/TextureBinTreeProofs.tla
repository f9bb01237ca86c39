------------------------ MODULE TextureBinTreeProofs ------------------------
(***************************************************************************)
(* Proofs about TextureBinTree for textures and images of every size: a    *)
(* split hands each texel of the leaf to exactly one of its three parts,   *)
(* and from that the packing is a TextureAtlas.                            *)
(***************************************************************************)
EXTENDS TextureBinTree, SequenceTheorems, TLAPS

-----------------------------------------------------------------------------
(* Rectangles *)

\* r lies within s.
Within(r, s) == /\ s.x <= r.x /\ r.x + r.w <= s.x + s.w
                /\ s.y <= r.y /\ r.y + r.h <= s.y + s.h

\* A part of a rectangle is apart from and inside what the rectangle is.
LEMMA WithinDisjoint ==
  ASSUME NEW r \in Rect, NEW s \in Rect, NEW q \in Rect, Within(r, s), Width \in Int, Height \in Int
  PROVE  /\ Disjoint(s, q) => Disjoint(r, q) /\ Disjoint(q, r)
         /\ Disjoint(q, s) => Disjoint(r, q) /\ Disjoint(q, r)
         /\ Inside(s) => Inside(r)
  BY DEF Rect, Within, Disjoint, Inside

\* Rectangles apart share no texel.
LEMMA DisjointCovers ==
  ASSUME NEW r \in Rect, NEW s \in Rect, NEW t \in Texel, Disjoint(r, s)
  PROVE  ~(Covers(r, t) /\ Covers(s, t))
<1>1. t[1] \in Int /\ t[2] \in Int
  BY TextureAssumption DEF Texel
<1> QED BY <1>1 DEF Rect, Disjoint, Covers

\* The image and the two child nodes lie within the leaf, apart from each other, and
\* cover it.
LEMMA Split ==
  ASSUME NEW n \in Rect, NEW w \in Nat \ {0}, NEW h \in Nat \ {0}, n.w >= w, n.h >= h
  PROVE  LET I == Node(n.x, n.y, w, h)
             R == Right(n, w, h)
             B == Below(n, w, h)
         IN  /\ I \in Rect /\ R \in Rect /\ B \in Rect
             /\ Within(I, n) /\ Within(R, n) /\ Within(B, n)
             /\ Disjoint(I, R) /\ Disjoint(I, B) /\ Disjoint(R, B)
             /\ R.w = n.w - w /\ R.h > 0 /\ B.h = n.h - h /\ B.w > 0
             /\ \A t \in Texel : Covers(n, t) => \/ Covers(I, t)
                                                 \/ n.w > w /\ Covers(R, t)
                                                 \/ n.h > h /\ Covers(B, t)
<1> DEFINE I == Node(n.x, n.y, w, h)
           R == Right(n, w, h)
           B == Below(n, w, h)
<1>1. /\ n.x \in Int /\ n.y \in Int /\ n.w \in Int /\ n.h \in Int
  BY DEF Rect
<1>2. /\ I = [x |-> n.x, y |-> n.y, w |-> w, h |-> h]
      /\ R = [x |-> n.x + w, y |-> n.y, w |-> n.w - w,
              h |-> IF n.w - w > n.h - h THEN n.h ELSE h]
      /\ B = [x |-> n.x, y |-> n.y + h, w |-> IF n.w - w > n.h - h THEN w ELSE n.w,
              h |-> n.h - h]
  BY DEF Node, Right, Below
<1> HIDE DEF I, R, B
<1>3. I \in Rect /\ R \in Rect /\ B \in Rect
  BY <1>1, <1>2 DEF Rect
<1>4. Within(I, n) /\ Within(R, n) /\ Within(B, n)
  BY <1>1, <1>2 DEF Within
<1>5. Disjoint(I, R) /\ Disjoint(I, B) /\ Disjoint(R, B)
  BY <1>1, <1>2 DEF Disjoint
<1>6. R.w = n.w - w /\ R.h > 0 /\ B.h = n.h - h /\ B.w > 0
  BY <1>1, <1>2
<1>7. ASSUME NEW t \in Texel, Covers(n, t)
      PROVE  Covers(I, t) \/ (n.w > w /\ Covers(R, t)) \/ (n.h > h /\ Covers(B, t))
  <2>1. t[1] \in Int /\ t[2] \in Int
    BY TextureAssumption DEF Texel
  <2> QED BY <1>1, <1>2, <1>7, <2>1 DEF Covers
<1> QED BY <1>3, <1>4, <1>5, <1>6, <1>7 DEF I, R, B

-----------------------------------------------------------------------------
(* Replacing an element of a sequence by several *)

Splice(s, k, c) == SubSeq(s, 1, k - 1) \o c \o SubSeq(s, k + 1, Len(s))

LEMMA SpliceProperties ==
  ASSUME NEW S, NEW s \in Seq(S), NEW k \in 1 .. Len(s), NEW c \in Seq(S)
  PROVE  /\ Splice(s, k, c) \in Seq(S)
         /\ Len(Splice(s, k, c)) = Len(s) - 1 + Len(c)
         /\ \A m \in 1 .. Len(s) - 1 + Len(c) :
              Splice(s, k, c)[m] = IF m < k THEN s[m]
                                   ELSE IF m < k + Len(c) THEN c[m - k + 1]
                                   ELSE s[m - Len(c) + 1]
<1>1. Len(s) \in Nat /\ Len(c) \in Nat
  OBVIOUS
<1> DEFINE a == SubSeq(s, 1, k - 1)
           b == SubSeq(s, k + 1, Len(s))
<1>2. a \in Seq(S) /\ Len(a) = k - 1 /\ \A m \in 1 .. k - 1 : a[m] = s[m]
  BY <1>1
<1>3. /\ b \in Seq(S) /\ Len(b) = Len(s) - k
      /\ \A m \in 1 .. Len(s) - k : b[m] = s[k + m]
  BY <1>1
<1> HIDE DEF a, b
<1> DEFINE d == a \o c
           r == d \o b
<1>4. /\ d \in Seq(S) /\ Len(d) = k - 1 + Len(c)
      /\ \A m \in 1 .. k - 1 + Len(c) :
           d[m] = IF m < k THEN s[m] ELSE c[m - k + 1]
  BY <1>1, <1>2, ConcatProperties
<1> HIDE DEF d
<1>5. /\ r \in Seq(S) /\ Len(r) = Len(s) - 1 + Len(c)
      /\ \A m \in 1 .. Len(d) + Len(b) :
           r[m] = IF m <= Len(d) THEN d[m] ELSE b[m - Len(d)]
  <2>1. /\ r \in Seq(S) /\ Len(r) = Len(d) + Len(b)
        /\ \A m \in 1 .. Len(d) + Len(b) :
             r[m] = IF m <= Len(d) THEN d[m] ELSE b[m - Len(d)]
    <3>1. d \in Seq(S) /\ b \in Seq(S)
      BY <1>3, <1>4
    <3> QED BY <3>1, ConcatProperties
  <2> QED BY <1>1, <1>3, <1>4, <2>1
<1>6. Splice(s, k, c) = r
  BY DEF Splice, a, b, d
<1> HIDE DEF r
<1>7. ASSUME NEW m \in 1 .. Len(s) - 1 + Len(c)
      PROVE  r[m] = IF m < k THEN s[m]
                    ELSE IF m < k + Len(c) THEN c[m - k + 1]
                    ELSE s[m - Len(c) + 1]
  <2>1. r[m] = IF m <= k - 1 + Len(c) THEN d[m] ELSE b[m - (k - 1 + Len(c))]
    BY <1>1, <1>3, <1>4, <1>5
  <2>2. CASE m <= k - 1 + Len(c)
    BY <1>1, <1>4, <2>1, <2>2
  <2>3. CASE m > k - 1 + Len(c)
    <3>1. b[m - (k - 1 + Len(c))] = s[k + (m - (k - 1 + Len(c)))]
      BY <1>1, <1>3, <2>3
    <3> QED BY <1>1, <2>1, <2>3, <3>1
  <2> QED BY <1>1, <2>2, <2>3
<1> QED BY <1>5, <1>6, <1>7

\* The child nodes InsertNode keeps: not empty, within the leaf, apart from the image
\* and from each other, and with the image they cover the leaf.
LEMMA ChildsProperties ==
  ASSUME NEW n \in Rect, NEW w \in Nat \ {0}, NEW h \in Nat \ {0}, n.w >= w, n.h >= h
  PROVE  LET I == Node(n.x, n.y, w, h)
             c == Childs(n, w, h)
         IN  /\ I \in Rect /\ Within(I, n)
             /\ c \in Seq(Rect) /\ Len(c) \in 0 .. 2
             /\ \A m \in 1 .. Len(c) : /\ c[m].w > 0 /\ c[m].h > 0
                                       /\ Within(c[m], n) /\ Disjoint(I, c[m])
             /\ Len(c) = 2 => Disjoint(c[1], c[2])
             /\ \A t \in Texel : Covers(n, t) =>
                  Covers(I, t) \/ \E m \in 1 .. Len(c) : Covers(c[m], t)
<1> DEFINE I == Node(n.x, n.y, w, h)
           R == Right(n, w, h)
           B == Below(n, w, h)
           c == Childs(n, w, h)
<1>1. /\ I \in Rect /\ R \in Rect /\ B \in Rect
      /\ Within(I, n) /\ Within(R, n) /\ Within(B, n)
      /\ Disjoint(I, R) /\ Disjoint(I, B) /\ Disjoint(R, B)
      /\ R.w = n.w - w /\ R.h > 0 /\ B.h = n.h - h /\ B.w > 0
      /\ \A t \in Texel : Covers(n, t) => \/ Covers(I, t)
                                          \/ n.w > w /\ Covers(R, t)
                                          \/ n.h > h /\ Covers(B, t)
  BY Split
<1>2. n.w \in Int /\ n.h \in Int
  BY DEF Rect
<1> DEFINE p == IF n.w > w THEN <<R>> ELSE <<>>
           q == IF n.h > h THEN <<B>> ELSE <<>>
<1>3. c = p \o q
  BY DEF Childs
<1> HIDE DEF I, R, B, c
<1>4. p \in Seq(Rect) /\ Len(p) = (IF n.w > w THEN 1 ELSE 0) /\ (n.w > w => p[1] = R)
  BY <1>1
<1>5. q \in Seq(Rect) /\ Len(q) = (IF n.h > h THEN 1 ELSE 0) /\ (n.h > h => q[1] = B)
  BY <1>1
<1> HIDE DEF p, q
<1>6. /\ c \in Seq(Rect) /\ Len(c) = Len(p) + Len(q)
      /\ \A m \in 1 .. Len(p) + Len(q) :
           c[m] = IF m <= Len(p) THEN p[m] ELSE q[m - Len(p)]
  <2>1. p \in Seq(Rect) /\ q \in Seq(Rect)
    BY <1>4, <1>5
  <2> QED BY <1>3, <2>1, ConcatProperties
<1>7. /\ Len(c) \in 0 .. 2
      /\ Len(c) = 2 => c[1] = R /\ c[2] = B
      /\ \A m \in 1 .. Len(c) : (n.w > w /\ c[m] = R) \/ (n.h > h /\ c[m] = B)
  BY <1>4, <1>5, <1>6
<1>8. n.w > w => 1 \in 1 .. Len(c) /\ c[1] = R
  BY <1>4, <1>5, <1>6
<1>9. n.h > h => Len(c) \in 1 .. Len(c) /\ c[Len(c)] = B
  BY <1>4, <1>5, <1>6
<1>10. \A m \in 1 .. Len(c) : /\ c[m].w > 0 /\ c[m].h > 0
                              /\ Within(c[m], n) /\ Disjoint(I, c[m])
  <2> SUFFICES ASSUME NEW m \in 1 .. Len(c)
               PROVE  /\ c[m].w > 0 /\ c[m].h > 0
                      /\ Within(c[m], n) /\ Disjoint(I, c[m])
    OBVIOUS
  <2>1. CASE n.w > w /\ c[m] = R
    <3>1. R.w > 0
      BY <1>1, <1>2, <2>1
    <3> QED BY <1>1, <2>1, <3>1
  <2>2. CASE n.h > h /\ c[m] = B
    <3>1. B.h > 0
      BY <1>1, <1>2, <2>2
    <3> QED BY <1>1, <2>2, <3>1
  <2> QED BY <1>7, <2>1, <2>2
<1>11. ASSUME NEW t \in Texel, Covers(n, t)
       PROVE  Covers(I, t) \/ \E m \in 1 .. Len(c) : Covers(c[m], t)
  BY <1>1, <1>8, <1>9, <1>11
<1> QED BY <1>1, <1>6, <1>7, <1>10, <1>11 DEF I, c

-----------------------------------------------------------------------------
(* The inductive invariant: leaves and images tile the texture *)

Typed ==
  /\ size \in [Images -> [w : Widths, h : Heights]]
  /\ leaves \in Seq(Rect)
  /\ place \in [Images -> Rect \cup {Nowhere}]
  /\ texture \in [Texel -> Images \cup {Blank}]
  /\ outcome \in {"packing", "no space", "packed"}

LeavesInside ==
  \A k \in 1 .. Len(leaves) : leaves[k].w > 0 /\ leaves[k].h > 0 /\ Inside(leaves[k])

ImagesInside ==
  \A i \in Placed : /\ place[i].w = size[i].w /\ place[i].h = size[i].h
                    /\ Inside(place[i])

LeavesApart ==
  \A j, k \in 1 .. Len(leaves) : j < k => Disjoint(leaves[j], leaves[k])

ImagesApart ==
  \A i, j \in Placed : i # j => Disjoint(place[i], place[j])

ImagesApartFromLeaves ==
  \A i \in Placed : \A k \in 1 .. Len(leaves) : Disjoint(place[i], leaves[k])

NothingLost ==
  \A t \in Texel : \/ \E k \in 1 .. Len(leaves) : Covers(leaves[k], t)
                   \/ \E i \in Placed : Covers(place[i], t)

Painted ==
  \A i \in Images : \A t \in Texel :
    texture[t] = i <=> i \in Placed /\ Covers(place[i], t)

IInv == /\ Typed /\ LeavesInside /\ ImagesInside
        /\ LeavesApart /\ ImagesApart /\ ImagesApartFromLeaves
        /\ NothingLost /\ Painted

\* The new tree: one leaf covering the cleared texture.
LEMMA InitInvariant == Init => IInv
<1> SUFFICES ASSUME Init PROVE IInv
  OBVIOUS
<1> DEFINE n == Node(0, 0, Width, Height)
<1>1. /\ leaves = <<n>> /\ n = [x |-> 0, y |-> 0, w |-> Width, h |-> Height]
      /\ Width \in Int /\ Height \in Int /\ Width > 0 /\ Height > 0
  BY TextureAssumption DEF Init, Node
<1> HIDE DEF n
<1>2. n \in Rect /\ n.x = 0 /\ n.y = 0 /\ n.w = Width /\ n.h = Height
  BY <1>1 DEF Rect
<1>3. Len(leaves) = 1 /\ leaves[1] = n /\ leaves \in Seq(Rect)
  BY <1>1, <1>2
<1>4. Placed = {}
  BY DEF Init, Placed
<1>5. Typed
  BY <1>3 DEF Init, Typed
<1>6. LeavesInside /\ LeavesApart
  BY <1>1, <1>2, <1>3 DEF LeavesInside, LeavesApart, Inside
<1>7. ImagesInside /\ ImagesApart /\ ImagesApartFromLeaves
  BY <1>4 DEF ImagesInside, ImagesApart, ImagesApartFromLeaves
<1>8. NothingLost
  <2> SUFFICES ASSUME NEW t \in Texel PROVE Covers(leaves[1], t)
    BY <1>3 DEF NothingLost
  <2>1. t[1] \in 0 .. Width - 1 /\ t[2] \in 0 .. Height - 1
    BY DEF Texel
  <2> QED BY <1>1, <1>2, <1>3, <2>1 DEF Covers
<1>9. Painted
  BY <1>4, BlankAssumption DEF Init, Painted
<1> QED BY <1>5, <1>6, <1>7, <1>8, <1>9 DEF IInv

\* Two increasing indices into a sequence of at most two elements.
LEMMA OneAndTwo ==
  ASSUME NEW j \in Int, NEW m \in Int, NEW k \in Int, NEW l \in 0 .. 2, j < m,
         j - k + 1 \in 1 .. l, m - k + 1 \in 1 .. l
  PROVE  l = 2 /\ j - k + 1 = 1 /\ m - k + 1 = 2
  OBVIOUS

\* AddNode: the leaf is replaced by its child nodes and the image.
LEMMA AddNodeInvariant ==
  ASSUME IInv, NEW i \in Images, AddNode(i)
  PROVE  IInv'
<1>1. PICK k \in DOMAIN leaves :
        /\ Reaches(k, i)
        /\ leaves' = Splice(leaves, k, Childs(leaves[k], size[i].w, size[i].h))
        /\ place' = [place EXCEPT ![i] = NodeOf(leaves[k], i)]
        /\ texture' = Blit(i, NodeOf(leaves[k], i))
  BY DEF AddNode, Splice
<1>2. /\ size' = size /\ outcome' = outcome /\ place[i] = Nowhere
      /\ leaves \in Seq(Rect) /\ Len(leaves) \in Nat /\ k \in 1 .. Len(leaves)
  BY LenProperties DEF AddNode, IInv, Typed
<1> DEFINE n == leaves[k]
           I == NodeOf(n, i)
           c == Childs(n, size[i].w, size[i].h)
<1>3. /\ n \in Rect /\ Inside(n)
      /\ size[i].w \in Nat \ {0} /\ size[i].h \in Nat \ {0}
      /\ n.w >= size[i].w /\ n.h >= size[i].h
  <2>1. n \in Rect
    BY <1>2, ElementOfSeq
  <2>2. Inside(n)
    BY <1>2 DEF IInv, LeavesInside
  <2>3. size[i].w \in Widths /\ size[i].h \in Heights
    BY DEF IInv, Typed
  <2>4. n.w >= size[i].w /\ n.h >= size[i].h
    BY <1>1 DEF Reaches, Fits
  <2> QED BY <2>1, <2>2, <2>3, <2>4, SizesAssumption
<1>4. /\ I \in Rect /\ Within(I, n)
      /\ I.w = size[i].w /\ I.h = size[i].h
      /\ c \in Seq(Rect) /\ Len(c) \in 0 .. 2
      /\ \A m \in 1 .. Len(c) : /\ c[m].w > 0 /\ c[m].h > 0
                                /\ Within(c[m], n) /\ Disjoint(I, c[m])
      /\ Len(c) = 2 => Disjoint(c[1], c[2])
      /\ \A t \in Texel : Covers(n, t) =>
           Covers(I, t) \/ \E m \in 1 .. Len(c) : Covers(c[m], t)
  BY <1>3, ChildsProperties DEF NodeOf, Node
<1>5. /\ leaves' \in Seq(Rect) /\ Len(leaves') = Len(leaves) - 1 + Len(c)
      /\ \A m \in 1 .. Len(leaves') :
           leaves'[m] = IF m < k THEN leaves[m]
                        ELSE IF m < k + Len(c) THEN c[m - k + 1]
                        ELSE leaves[m - Len(c) + 1]
  <2>1. leaves' = Splice(leaves, k, c)
    BY <1>1
  <2> HIDE DEF c
  <2>2. c \in Seq(Rect)
    BY <1>4
  <2>3. /\ leaves' \in Seq(Rect) /\ Len(leaves') = Len(leaves) - 1 + Len(c)
        /\ \A m \in 1 .. Len(leaves) - 1 + Len(c) :
             leaves'[m] = IF m < k THEN leaves[m]
                          ELSE IF m < k + Len(c) THEN c[m - k + 1]
                          ELSE leaves[m - Len(c) + 1]
    <3> DEFINE d == Splice(leaves, k, c)
    <3>1. /\ d \in Seq(Rect) /\ Len(d) = Len(leaves) - 1 + Len(c)
          /\ \A m \in 1 .. Len(leaves) - 1 + Len(c) :
               d[m] = IF m < k THEN leaves[m]
                      ELSE IF m < k + Len(c) THEN c[m - k + 1]
                      ELSE leaves[m - Len(c) + 1]
      BY <1>2, <2>2, SpliceProperties
    <3> HIDE DEF d
    <3> QED BY <2>1, <3>1 DEF d
  <2> QED BY <2>3
<1>6. place' = [place EXCEPT ![i] = I] /\ texture' = Blit(i, I) /\ I # Nowhere
  BY <1>1, <1>4, NowhereAssumption
<1> HIDE DEF n, I, c
<1>7. Placed' = Placed \cup {i} /\ i \notin Placed /\ place'[i] = I
      /\ \A j \in Placed : place'[j] = place[j] /\ place[j] \in Rect
  BY <1>2, <1>6 DEF IInv, Typed, Placed
\* Where a new leaf comes from.
<1>8. ASSUME NEW m \in 1 .. Len(leaves')
      PROVE  \/ m < k /\ m \in 1 .. Len(leaves) /\ leaves'[m] = leaves[m]
             \/ m >= k /\ m - k + 1 \in 1 .. Len(c) /\ leaves'[m] = c[m - k + 1]
             \/ /\ m >= k + Len(c) /\ m - Len(c) + 1 \in 1 .. Len(leaves)
                /\ m - Len(c) + 1 > k /\ leaves'[m] = leaves[m - Len(c) + 1]
  <2>1. /\ Len(leaves') = Len(leaves) - 1 + Len(c)
        /\ leaves'[m] = IF m < k THEN leaves[m]
                        ELSE IF m < k + Len(c) THEN c[m - k + 1]
                        ELSE leaves[m - Len(c) + 1]
    BY <1>5
  <2>2. /\ m \in Int /\ 1 <= m /\ m <= Len(leaves) - 1 + Len(c)
        /\ k \in Int /\ 1 <= k /\ k <= Len(leaves)
        /\ Len(leaves) \in Int /\ Len(c) \in 0 .. 2
    BY <1>2, <1>4, <2>1
  <2>3. CASE m < k
    <3>1. m \in 1 .. Len(leaves)
      BY <2>2, <2>3
    <3> QED BY <2>1, <2>3, <3>1
  <2>4. CASE ~(m < k) /\ m < k + Len(c)
    <3>1. m >= k /\ m - k + 1 \in 1 .. Len(c)
      BY <2>2, <2>4
    <3> QED BY <2>1, <2>4, <3>1
  <2>5. CASE ~(m < k) /\ ~(m < k + Len(c))
    <3>1. /\ m >= k + Len(c) /\ m - Len(c) + 1 \in 1 .. Len(leaves)
          /\ m - Len(c) + 1 > k
      BY <2>2, <2>5
    <3> QED BY <2>1, <2>5, <3>1
  <2> QED BY <2>3, <2>4, <2>5
<1>9. ASSUME NEW r \in Rect, Disjoint(n, r) \/ Disjoint(r, n)
      PROVE  /\ Disjoint(I, r) /\ Disjoint(r, I)
             /\ \A m \in 1 .. Len(c) : Disjoint(c[m], r) /\ Disjoint(r, c[m])
  <2>1. Disjoint(I, r) /\ Disjoint(r, I)
    BY <1>3, <1>4, <1>9, WithinDisjoint, TextureAssumption
  <2>2. ASSUME NEW m \in 1 .. Len(c) PROVE Disjoint(c[m], r) /\ Disjoint(r, c[m])
    <3>1. c[m] \in Rect /\ Within(c[m], n)
      BY <1>4, ElementOfSeq
    <3> QED BY <1>3, <1>9, <3>1, WithinDisjoint, TextureAssumption
  <2> QED BY <2>1, <2>2
<1>10. \A m \in 1 .. Len(leaves) : leaves[m] \in Rect
  BY <1>2, ElementOfSeq
<1>11. Typed'
  <2>1. texture' \in [Texel -> Images \cup {Blank}]
    BY <1>6 DEF Blit, IInv, Typed
  <2>2. place' \in [Images -> Rect \cup {Nowhere}]
    BY <1>4, <1>6 DEF IInv, Typed
  <2> QED BY <1>2, <1>5, <2>1, <2>2 DEF IInv, Typed
<1>12. LeavesInside'
  <2> SUFFICES ASSUME NEW m \in 1 .. Len(leaves')
               PROVE  leaves'[m].w > 0 /\ leaves'[m].h > 0 /\ Inside(leaves'[m])
    BY DEF LeavesInside
  <2>1. ASSUME NEW q \in 1 .. Len(c)
        PROVE  c[q].w > 0 /\ c[q].h > 0 /\ Inside(c[q])
    <3>1. c[q] \in Rect /\ Within(c[q], n) /\ c[q].w > 0 /\ c[q].h > 0
      BY <1>4, ElementOfSeq
    <3> QED BY <1>3, <3>1, WithinDisjoint, TextureAssumption
  <2> QED BY <1>8, <2>1 DEF IInv, LeavesInside
<1>13. ImagesInside'
  <2>1. Inside(I)
    BY <1>3, <1>4, WithinDisjoint, TextureAssumption
  <2> QED BY <1>2, <1>4, <1>7, <2>1 DEF IInv, ImagesInside
<1>14. LeavesApart'
  <2> SUFFICES ASSUME NEW j \in 1 .. Len(leaves'), NEW m \in 1 .. Len(leaves'), j < m
               PROVE  Disjoint(leaves'[j], leaves'[m])
    BY DEF LeavesApart
  <2>1. \A p, q \in 1 .. Len(leaves) : p < q => Disjoint(leaves[p], leaves[q])
    BY DEF IInv, LeavesApart
  <2>2. ASSUME NEW p \in 1 .. Len(leaves), NEW q \in 1 .. Len(c), p # k
        PROVE  Disjoint(leaves[p], c[q]) /\ Disjoint(c[q], leaves[p])
    <3>1. Disjoint(leaves[p], n) \/ Disjoint(n, leaves[p])
      BY <1>2, <2>1, <2>2 DEF n
    <3> QED BY <1>9, <1>10, <3>1
  <2>3. CASE j < k
    <3>1. j \in 1 .. Len(leaves) /\ leaves'[j] = leaves[j]
      BY <1>2, <1>4, <1>8, <2>3
    <3>2. CASE m < k
      <4>1. m \in 1 .. Len(leaves) /\ leaves'[m] = leaves[m]
        BY <1>2, <1>4, <1>8, <3>2
      <4> QED BY <2>1, <3>1, <4>1
    <3>3. CASE m - k + 1 \in 1 .. Len(c) /\ leaves'[m] = c[m - k + 1]
      BY <1>2, <2>2, <2>3, <3>1, <3>3
    <3>4. CASE /\ m - Len(c) + 1 \in 1 .. Len(leaves) /\ m - Len(c) + 1 > k
               /\ leaves'[m] = leaves[m - Len(c) + 1]
      <4>1. j < m - Len(c) + 1
        BY <1>2, <1>4, <2>3, <3>1, <3>4
      <4> QED BY <2>1, <3>1, <3>4, <4>1
    <3> QED BY <1>8, <3>2, <3>3, <3>4
  <2>4. CASE j >= k /\ j - k + 1 \in 1 .. Len(c) /\ leaves'[j] = c[j - k + 1]
    <3>1. CASE m < k
      BY <1>2, <2>4, <3>1
    <3>2. CASE m - k + 1 \in 1 .. Len(c) /\ leaves'[m] = c[m - k + 1]
      <4>1. Len(c) = 2 /\ j - k + 1 = 1 /\ m - k + 1 = 2
        <5>1. j - k + 1 \in 1 .. Len(c) /\ m - k + 1 \in 1 .. Len(c)
          BY <2>4, <3>2
        <5>2. j \in Int /\ m \in Int /\ k \in Int /\ Len(c) \in 0 .. 2
          BY <1>2, <1>4, <1>5
        <5> QED BY <5>1, <5>2, OneAndTwo
      <4> QED BY <1>4, <2>4, <3>2, <4>1
    <3>3. CASE /\ m - Len(c) + 1 \in 1 .. Len(leaves) /\ m - Len(c) + 1 > k
               /\ leaves'[m] = leaves[m - Len(c) + 1]
      <4>1. m - Len(c) + 1 # k
        BY <1>2, <1>4, <3>3
      <4> QED BY <2>2, <2>4, <3>3, <4>1
    <3> QED BY <1>8, <3>1, <3>2, <3>3
  <2>5. CASE /\ j >= k + Len(c) /\ j - Len(c) + 1 \in 1 .. Len(leaves)
             /\ leaves'[j] = leaves[j - Len(c) + 1]
    <3>1. /\ m >= k + Len(c) /\ m - Len(c) + 1 \in 1 .. Len(leaves)
          /\ leaves'[m] = leaves[m - Len(c) + 1]
      <4>1. ~(m < k) /\ ~(m - k + 1 \in 1 .. Len(c))
        BY <1>2, <1>4, <2>5
      <4> QED BY <1>8, <4>1
    <3>2. j - Len(c) + 1 < m - Len(c) + 1
      BY <1>2, <1>4
    <3> QED BY <2>1, <2>5, <3>1, <3>2
  <2> QED BY <1>8, <2>3, <2>4, <2>5
<1>15. \A j \in Placed : Disjoint(I, place[j]) /\ Disjoint(place[j], I)
  <2> SUFFICES ASSUME NEW j \in Placed
               PROVE  Disjoint(I, place[j]) /\ Disjoint(place[j], I)
    OBVIOUS
  <2>1. Disjoint(place[j], n)
    BY <1>2 DEF IInv, ImagesApartFromLeaves, n
  <2> QED BY <1>7, <1>9, <2>1
<1>16. ImagesApart'
  BY <1>7, <1>15 DEF IInv, ImagesApart
<1>17. ImagesApartFromLeaves'
  <2> SUFFICES ASSUME NEW j \in Placed', NEW m \in 1 .. Len(leaves')
               PROVE  Disjoint(place'[j], leaves'[m])
    BY DEF ImagesApartFromLeaves
  <2>1. ASSUME NEW p \in 1 .. Len(leaves), p # k PROVE Disjoint(I, leaves[p])
    <3>1. Disjoint(leaves[p], n) \/ Disjoint(n, leaves[p])
      BY <1>2, <2>1 DEF IInv, LeavesApart, n
    <3> QED BY <1>9, <1>10, <3>1
  <2>2. ASSUME NEW p \in Placed, NEW q \in 1 .. Len(c) PROVE Disjoint(place[p], c[q])
    <3>1. Disjoint(place[p], n)
      BY <1>2 DEF IInv, ImagesApartFromLeaves, n
    <3> QED BY <1>7, <1>9, <3>1
  <2>3. CASE j = i
    <3>1. place'[j] = I
      BY <1>7, <2>3
    <3>2. CASE m < k /\ m \in 1 .. Len(leaves) /\ leaves'[m] = leaves[m]
      BY <1>2, <2>1, <3>1, <3>2
    <3>3. CASE m - k + 1 \in 1 .. Len(c) /\ leaves'[m] = c[m - k + 1]
      BY <1>4, <3>1, <3>3
    <3>4. CASE /\ m - Len(c) + 1 \in 1 .. Len(leaves) /\ m - Len(c) + 1 > k
               /\ leaves'[m] = leaves[m - Len(c) + 1]
      <4>1. m - Len(c) + 1 # k
        BY <1>2, <1>4, <3>4
      <4> QED BY <2>1, <3>1, <3>4, <4>1
    <3> QED BY <1>8, <3>2, <3>3, <3>4
  <2>4. CASE j \in Placed
    <3>1. place'[j] = place[j] /\ \A p \in 1 .. Len(leaves) : Disjoint(place[j], leaves[p])
      BY <1>7, <2>4 DEF IInv, ImagesApartFromLeaves
    <3> QED BY <1>8, <2>2, <2>4, <3>1
  <2> QED BY <1>7, <2>3, <2>4
\* Where the old leaves and the child nodes go.
<1>18. ASSUME NEW p \in 1 .. Len(leaves), p # k
       PROVE  \E m \in 1 .. Len(leaves') : leaves'[m] = leaves[p]
  <2>1. CASE p < k
    <3>1. p \in 1 .. Len(leaves') /\ leaves'[p] = leaves[p]
      BY <1>2, <1>4, <1>5, <2>1
    <3> QED BY <3>1
  <2>2. CASE p > k
    <3> DEFINE m == p - 1 + Len(c)
    <3>1. m \in 1 .. Len(leaves')
      BY <1>2, <1>4, <1>5, <2>2
    <3>2. ~(m < k) /\ ~(m - k + 1 \in 1 .. Len(c)) /\ m - Len(c) + 1 = p
      BY <1>2, <1>4, <2>2
    <3> HIDE DEF m
    <3>3. leaves'[m] = leaves[p]
      BY <1>8, <3>1, <3>2
    <3> QED BY <3>1, <3>3
  <2> QED BY <1>2, <1>18, <2>1, <2>2
<1>19. ASSUME NEW q \in 1 .. Len(c)
       PROVE  \E m \in 1 .. Len(leaves') : leaves'[m] = c[q]
  <2> DEFINE m == k + q - 1
  <2>1. m \in 1 .. Len(leaves')
    BY <1>2, <1>4, <1>5
  <2>2. ~(m < k) /\ ~(m >= k + Len(c)) /\ m - k + 1 = q
    BY <1>2, <1>4
  <2> HIDE DEF m
  <2>3. leaves'[m] = c[q]
    BY <1>8, <2>1, <2>2
  <2> QED BY <2>1, <2>3
<1>20. NothingLost'
  <2> SUFFICES ASSUME NEW t \in Texel
               PROVE  \/ \E m \in 1 .. Len(leaves') : Covers(leaves'[m], t)
                      \/ \E j \in Placed' : Covers(place'[j], t)
    BY DEF NothingLost
  <2>1. CASE \E p \in 1 .. Len(leaves) : p # k /\ Covers(leaves[p], t)
    BY <1>18, <2>1
  <2>2. CASE Covers(n, t)
    BY <1>4, <1>7, <1>19, <2>2
  <2>3. CASE \E j \in Placed : Covers(place[j], t)
    BY <1>7, <2>3
  <2> QED BY <2>1, <2>2, <2>3 DEF IInv, NothingLost, n
<1>21. Painted'
  <2> SUFFICES ASSUME NEW j \in Images, NEW t \in Texel
               PROVE  texture'[t] = j <=> j \in Placed' /\ Covers(place'[j], t)
    BY DEF Painted
  <2>1. texture'[t] = IF Covers(I, t) THEN i ELSE texture[t]
    BY <1>6 DEF Blit
  <2>2. \A p \in Images : texture[t] = p <=> p \in Placed /\ Covers(place[p], t)
    BY DEF IInv, Painted
  <2>3. \A p \in Placed : ~(Covers(I, t) /\ Covers(place[p], t))
    BY <1>4, <1>7, <1>15, DisjointCovers
  <2>4. CASE j = i
    BY <1>7, <2>1, <2>2, <2>4
  <2>5. CASE j # i
    BY <1>7, <2>1, <2>2, <2>3, <2>5
  <2> QED BY <2>4, <2>5
<1> QED BY <1>11, <1>12, <1>13, <1>14, <1>16, <1>17, <1>20, <1>21 DEF IInv

\* Every step keeps the invariant.
LEMMA StepInvariant == IInv /\ [Next]_vars => IInv'
<1> SUFFICES ASSUME IInv, [Next]_vars PROVE IInv'
  OBVIOUS
<1>1. CASE \E i \in Images : AddNode(i)
  BY <1>1, AddNodeInvariant
<1>2. ASSUME UNCHANGED <<size, leaves, place, texture>>,
             outcome' \in {"packing", "no space", "packed"}
      PROVE  IInv'
  <2>1. Typed'
    BY <1>2 DEF IInv, Typed
  <2>2. (LeavesInside /\ ImagesInside /\ LeavesApart /\ ImagesApart)'
    BY <1>2 DEF IInv, LeavesInside, ImagesInside, LeavesApart, ImagesApart, Placed
  <2>3. (ImagesApartFromLeaves /\ NothingLost /\ Painted)'
    BY <1>2 DEF IInv, ImagesApartFromLeaves, NothingLost, Painted, Placed
  <2> QED BY <2>1, <2>2, <2>3 DEF IInv
<1>3. CASE \E i \in Images : Refuse(i)
  BY <1>2, <1>3 DEF Refuse
<1>4. CASE Finish
  BY <1>2, <1>4 DEF Finish
<1>5. CASE UNCHANGED vars
  BY <1>2, <1>5 DEF vars, IInv, Typed
<1> QED BY <1>1, <1>3, <1>4, <1>5 DEF Next

-----------------------------------------------------------------------------
(* Images of one size that tiles the texture *)

\* A length that is some number of image lengths.
Whole(d, w) == \E a \in Nat \ {0} : d = a * w

\* All images have the same size, and it divides the texture's.
OneSize(w, h) == /\ Width % w = 0 /\ Height % h = 0
                 /\ \A i \in Images : size[i] = [w |-> w, h |-> h]

\* Every leaf is then a rectangle of whole images, so that none is too small for one.
WholeLeaves ==
  \A w \in Widths, h \in Heights : OneSize(w, h) =>
    \A k \in 1 .. Len(leaves) : Whole(leaves[k].w, w) /\ Whole(leaves[k].h, h)

\* The conversion is given up for an image that no leaf has room for.
NoRoom ==
  outcome = "no space" => \E i \in Images : \A k \in 1 .. Len(leaves) : ~Fits(leaves[k], i)

TInv == WholeLeaves /\ NoRoom

LEMMA WholeDivides ==
  ASSUME NEW d \in Nat \ {0}, NEW w \in Nat \ {0}, d % w = 0
  PROVE  Whole(d, w)
<1> DEFINE a == d \div w
<1>1. a \in Int /\ d = w * a + (d % w)
  OBVIOUS
<1>2. d = a * w
  BY <1>1
<1> HIDE DEF a
<1>3. a \in Nat \ {0}
  <2>1. CASE a <= 0
    <3>1. a * w <= 0
      BY <1>1, <2>1
    <3> QED BY <1>2, <3>1
  <2>2. CASE a > 0
    BY <1>1, <2>2
  <2> QED BY <1>1, <2>1, <2>2
<1> QED BY <1>2, <1>3 DEF Whole

LEMMA WholeIsLarge ==
  ASSUME NEW w \in Nat \ {0}, NEW d \in Int, Whole(d, w)
  PROVE  d >= w
<1>1. PICK a \in Nat \ {0} : d = a * w
  BY DEF Whole
<1>2. a * w >= 1 * w
  BY <1>1
<1> QED BY <1>1, <1>2

\* What is left when one image length is taken off.
LEMMA WholeRest ==
  ASSUME NEW w \in Nat \ {0}, NEW d \in Int, Whole(d, w), d > w
  PROVE  Whole(d - w, w)
<1>1. PICK a \in Nat \ {0} : d = a * w
  BY DEF Whole
<1>2. a - 1 \in Nat /\ (a - 1) * w = a * w - w
  BY <1>1
<1>3. a - 1 # 0
  BY <1>1
<1> QED BY <1>1, <1>2, <1>3 DEF Whole

LEMMA WholeItself == ASSUME NEW w \in Nat \ {0} PROVE Whole(w, w)
<1>1. 1 \in Nat \ {0} /\ w = 1 * w
  OBVIOUS
<1> QED BY <1>1 DEF Whole

\* A split leaves whole parts of a whole leaf.
LEMMA WholeChilds ==
  ASSUME NEW n \in Rect, NEW w \in Nat \ {0}, NEW h \in Nat \ {0},
         Whole(n.w, w), Whole(n.h, h)
  PROVE  LET c == Childs(n, w, h)
         IN  /\ c \in Seq(Rect)
             /\ \A m \in 1 .. Len(c) : Whole(c[m].w, w) /\ Whole(c[m].h, h)
<1> DEFINE R == Right(n, w, h)
           B == Below(n, w, h)
           p == IF n.w > w THEN <<R>> ELSE <<>>
           q == IF n.h > h THEN <<B>> ELSE <<>>
           c == Childs(n, w, h)
<1>1. n.w \in Int /\ n.h \in Int /\ n.w >= w /\ n.h >= h
  BY WholeIsLarge DEF Rect
<1>2. Whole(w, w) /\ Whole(h, h)
  BY WholeItself
<1>3. R \in Rect /\ B \in Rect
  BY <1>1, Split
<1>4. R.w = n.w - w /\ (R.h = n.h \/ R.h = h) /\ B.h = n.h - h /\ (B.w = n.w \/ B.w = w)
  BY DEF Right, Below, Node
<1>5. c = p \o q
  BY DEF Childs
<1> HIDE DEF R, B, c
<1>6. /\ p \in Seq(Rect) /\ Len(p) = (IF n.w > w THEN 1 ELSE 0) /\ (n.w > w => p[1] = R)
      /\ q \in Seq(Rect) /\ Len(q) = (IF n.h > h THEN 1 ELSE 0) /\ (n.h > h => q[1] = B)
  BY <1>3
<1> HIDE DEF p, q
<1>7. /\ c \in Seq(Rect) /\ Len(c) = Len(p) + Len(q)
      /\ \A m \in 1 .. Len(p) + Len(q) :
           c[m] = IF m <= Len(p) THEN p[m] ELSE q[m - Len(p)]
  <2>1. p \in Seq(Rect) /\ q \in Seq(Rect)
    BY <1>6
  <2> QED BY <1>5, <2>1, ConcatProperties
<1>8. \A m \in 1 .. Len(c) : (n.w > w /\ c[m] = R) \/ (n.h > h /\ c[m] = B)
  BY <1>6, <1>7
<1>9. n.w > w => Whole(R.w, w) /\ Whole(R.h, h)
  BY <1>1, <1>2, <1>4, WholeRest
<1>10. n.h > h => Whole(B.w, w) /\ Whole(B.h, h)
  BY <1>1, <1>2, <1>4, WholeRest
<1> QED BY <1>7, <1>8, <1>9, <1>10 DEF c

LEMMA WholeInit == Init => TInv
<1> SUFFICES ASSUME Init PROVE TInv
  OBVIOUS
<1>1. Len(leaves) = 1 /\ leaves[1].w = Width /\ leaves[1].h = Height
  BY DEF Init, Node
<1>2. WholeLeaves
  BY <1>1, WholeDivides, TextureAssumption, SizesAssumption DEF WholeLeaves, OneSize
<1> QED BY <1>2 DEF Init, TInv, NoRoom

LEMMA WholeStep == IInv /\ TInv /\ [Next]_vars => TInv'
<1> SUFFICES ASSUME IInv, TInv, [Next]_vars PROVE TInv'
  OBVIOUS
<1>1. leaves \in Seq(Rect) /\ Len(leaves) \in Nat /\ DOMAIN leaves = 1 .. Len(leaves)
  BY LenProperties DEF IInv, Typed
<1>2. ASSUME NEW i \in Images, AddNode(i) PROVE TInv'
  <2>1. PICK k \in 1 .. Len(leaves) :
          leaves' = Splice(leaves, k, Childs(leaves[k], size[i].w, size[i].h))
    BY <1>1, <1>2 DEF AddNode, Splice
  <2>2. size' = size /\ outcome' = "packing"
    BY <1>2 DEF AddNode
  <2>3. WholeLeaves'
    <3> SUFFICES ASSUME NEW w \in Widths, NEW h \in Heights, OneSize(w, h),
                        NEW m \in 1 .. Len(leaves')
                 PROVE  Whole(leaves'[m].w, w) /\ Whole(leaves'[m].h, h)
      BY <2>2 DEF WholeLeaves, OneSize
    <3>1. w \in Nat \ {0} /\ h \in Nat \ {0} /\ size[i].w = w /\ size[i].h = h
      BY SizesAssumption DEF OneSize
    <3> DEFINE c == Childs(leaves[k], w, h)
    <3>2. leaves' = Splice(leaves, k, c)
      BY <2>1, <3>1
    <3>3. \A j \in 1 .. Len(leaves) : Whole(leaves[j].w, w) /\ Whole(leaves[j].h, h)
      BY DEF TInv, WholeLeaves
    <3>4. /\ c \in Seq(Rect)
          /\ \A j \in 1 .. Len(c) : Whole(c[j].w, w) /\ Whole(c[j].h, h)
      <4>1. leaves[k] \in Rect
        BY <1>1, ElementOfSeq
      <4> QED BY <3>1, <3>3, <4>1, WholeChilds
    <3> HIDE DEF c
    <3>5. /\ Len(leaves') = Len(leaves) - 1 + Len(c)
          /\ leaves'[m] = IF m < k THEN leaves[m]
                          ELSE IF m < k + Len(c) THEN c[m - k + 1]
                          ELSE leaves[m - Len(c) + 1]
      <4> DEFINE d == Splice(leaves, k, c)
      <4>1. /\ Len(d) = Len(leaves) - 1 + Len(c)
            /\ \A j \in 1 .. Len(leaves) - 1 + Len(c) :
                 d[j] = IF j < k THEN leaves[j]
                        ELSE IF j < k + Len(c) THEN c[j - k + 1]
                        ELSE leaves[j - Len(c) + 1]
        BY <1>1, <3>4, SpliceProperties
      <4> HIDE DEF d
      <4> QED BY <3>2, <4>1 DEF d
    <3>6. m \in Int /\ 1 <= m /\ m <= Len(leaves) - 1 + Len(c) /\ Len(c) \in Nat
      BY <1>1, <3>4, <3>5, LenProperties
    <3>7. CASE m < k
      BY <1>1, <3>3, <3>5, <3>6, <3>7
    <3>8. CASE ~(m < k) /\ m < k + Len(c)
      <4>1. m - k + 1 \in 1 .. Len(c)
        BY <3>6, <3>8
      <4> QED BY <3>4, <3>5, <3>8, <4>1
    <3>9. CASE ~(m < k) /\ ~(m < k + Len(c))
      <4>1. m - Len(c) + 1 \in 1 .. Len(leaves)
        BY <1>1, <3>6, <3>9
      <4> QED BY <3>3, <3>5, <3>9, <4>1
    <3> QED BY <3>7, <3>8, <3>9
  <2> QED BY <2>2, <2>3 DEF TInv, NoRoom
<1>3. ASSUME UNCHANGED <<size, leaves>>, NoRoom' PROVE TInv'
  BY <1>3 DEF TInv, WholeLeaves, OneSize
<1>4. CASE \E i \in Images : Refuse(i)
  <2>1. NoRoom'
    BY <1>1, <1>4 DEF Refuse, NoRoom, Fits
  <2> QED BY <1>3, <1>4, <2>1 DEF Refuse
<1>5. CASE Finish
  BY <1>3, <1>5 DEF Finish, NoRoom
<1>6. CASE UNCHANGED vars
  BY <1>3, <1>6 DEF vars, TInv, NoRoom, Fits
<1> QED BY <1>2, <1>4, <1>5, <1>6 DEF Next

\* A leaf of whole images has room for one.
LEMMA WholeFill == IInv /\ TInv => TilesFill
<1> SUFFICES ASSUME IInv, TInv, NEW w \in Widths, NEW h \in Heights, OneSize(w, h),
                    NEW i \in Images, \A k \in 1 .. Len(leaves) : ~Fits(leaves[k], i)
             PROVE  leaves = <<>>
  BY Zenon DEF TilesFill, OneSize, TInv, NoRoom
<1>1. leaves \in Seq(Rect) /\ Len(leaves) \in Nat
  BY LenProperties DEF IInv, Typed
<1>2. w \in Nat \ {0} /\ h \in Nat \ {0} /\ size[i].w = w /\ size[i].h = h
  BY SizesAssumption DEF OneSize
<1>3. ASSUME NEW k \in 1 .. Len(leaves) PROVE FALSE
  <2>1. leaves[k] \in Rect
    BY <1>1, ElementOfSeq
  <2>2. leaves[k].w \in Int /\ leaves[k].h \in Int
    BY <2>1 DEF Rect
  <2>3. Whole(leaves[k].w, w) /\ Whole(leaves[k].h, h)
    BY DEF TInv, WholeLeaves
  <2>4. leaves[k].w >= w /\ leaves[k].h >= h
    BY <1>2, <2>2, <2>3, WholeIsLarge
  <2> QED BY <1>2, <2>4 DEF Fits
<1>4. 1 \notin 1 .. Len(leaves)
  BY <1>3
<1>5. Len(leaves) = 0
  BY <1>1, <1>4
<1> QED BY <1>1, <1>5, EmptySeq

-----------------------------------------------------------------------------
(* Theorems *)

\* The invariant the others follow from.
THEOREM Invariance == Spec => []IInv
BY InitInvariant, StepInvariant, PTL DEF Spec

\* The packer's variables keep their types and no node is ever empty (TypeOK).
THEOREM TypeCorrect == Spec => []TypeOK
<1>1. IInv => TypeOK
  BY LenProperties DEF IInv, Typed, LeavesInside, TypeOK
<1> QED BY <1>1, Invariance, PTL

\* Each texel belongs to exactly one image or leaf (Partition), whatever the sizes of
\* the texture and the images and in whatever order they come.
THEOREM TexelsArePartitioned == Spec => []Partition
<1>1. ASSUME IInv PROVE Partition
  <2> SUFFICES ASSUME NEW t \in Texel
               PROVE  LET L == {k \in DOMAIN leaves : Covers(leaves[k], t)}
                          P == {i \in Placed : Covers(place[i], t)}
                      IN  \/ \E k \in DOMAIN leaves : L = {k} /\ P = {}
                          \/ \E i \in Placed : P = {i} /\ L = {}
    BY DEF Partition
  <2>1. DOMAIN leaves = 1 .. Len(leaves) /\ Len(leaves) \in Nat
    BY <1>1, LenProperties DEF IInv, Typed
  <2>2. /\ \A k \in 1 .. Len(leaves) : leaves[k] \in Rect
        /\ \A i \in Placed : place[i] \in Rect
    BY <1>1, ElementOfSeq DEF IInv, Typed, Placed
  <2>3. \A j, k \in 1 .. Len(leaves) :
          j # k => ~(Covers(leaves[j], t) /\ Covers(leaves[k], t))
    BY <1>1, <2>1, <2>2, DisjointCovers DEF IInv, LeavesApart
  <2>4. \A i, j \in Placed : i # j => ~(Covers(place[i], t) /\ Covers(place[j], t))
    BY <1>1, <2>2, DisjointCovers DEF IInv, ImagesApart
  <2>5. \A i \in Placed : \A k \in 1 .. Len(leaves) :
          ~(Covers(place[i], t) /\ Covers(leaves[k], t))
    BY <1>1, <2>2, DisjointCovers DEF IInv, ImagesApartFromLeaves
  <2>6. \/ \E k \in 1 .. Len(leaves) : Covers(leaves[k], t)
        \/ \E i \in Placed : Covers(place[i], t)
    BY <1>1 DEF IInv, NothingLost
  <2> QED BY <2>1, <2>3, <2>4, <2>5, <2>6
<1> QED BY <1>1, Invariance, PTL

\* No image is ever written over (ImagesIntact).
THEOREM ImagesStayIntact == Spec => []ImagesIntact
<1>1. IInv => ImagesIntact
  BY DEF IInv, Painted, ImagesIntact, Placed
<1> QED BY <1>1, Invariance, PTL

\* Images of one size that tiles the texture are refused only when no texel is left
\* (TilesFill): the leaves are made of whole images, and a leaf of whole images has room.
THEOREM TilesDoFill == Spec => []TilesFill
<1>1. Spec => []TInv
  BY WholeInit, WholeStep, Invariance, PTL DEF Spec
<1> QED BY <1>1, WholeFill, Invariance, PTL

\* The packer implements the atlas (IsAtlas).
THEOREM ImplementsAtlas == Spec => IsAtlas
<1>1. Init => Atlas!Init
  BY SizesAssumption DEF Init, Atlas!Init
<1>2. ASSUME IInv, IInv', [Next]_vars
      PROVE  [Atlas!Next]_(Atlas!vars)
  <2>1. ASSUME NEW i \in Images, AddNode(i) PROVE Atlas!Store(i)
    <3>1. /\ place[i] = Nowhere /\ size' = size
          /\ \E n \in Rect : place' = [place EXCEPT ![i] = n]
      <4>1. PICK k \in DOMAIN leaves : place' = [place EXCEPT ![i] = NodeOf(leaves[k], i)]
        BY <2>1 DEF AddNode
      <4>2. leaves[k] \in Rect /\ size[i].w \in Nat /\ size[i].h \in Nat
        <5>1. size[i].w \in Widths /\ size[i].h \in Heights
          BY <1>2 DEF IInv, Typed
        <5>2. k \in 1 .. Len(leaves) /\ leaves \in Seq(Rect)
          BY <1>2, LenProperties DEF IInv, Typed
        <5> QED BY <5>1, <5>2, SizesAssumption, ElementOfSeq
      <4>3. NodeOf(leaves[k], i) \in Rect
        BY <4>2 DEF NodeOf, Node, Rect
      <4> QED BY <2>1, <4>1, <4>3 DEF AddNode
    <3>2. /\ place'[i] \in Rect /\ place'[i] # Nowhere
          /\ place' = [place EXCEPT ![i] = place'[i]]
          /\ \A j \in Images : j # i => place'[j] = place[j]
      BY <1>2, <3>1, NowhereAssumption DEF IInv, Typed
    <3>3. Inside(place'[i]) /\ place'[i].w = size[i].w /\ place'[i].h = size[i].h
      BY <1>2, <3>1, <3>2 DEF IInv, ImagesInside, Placed
    <3>4. \A j \in Images : place[j] # Nowhere => Disjoint(place'[i], place[j])
      BY <1>2, <3>1, <3>2 DEF IInv, ImagesApart, Placed
    <3> QED BY <3>1, <3>2, <3>3, <3>4
            DEF Atlas!Store, Atlas!Rect, Atlas!Inside, Atlas!Disjoint, Rect, Inside, Disjoint
  <2>2. CASE UNCHANGED <<size, place>>
    BY <2>2 DEF Atlas!vars
  <2> QED BY <1>2, <2>1, <2>2 DEF Next, Refuse, Finish, vars, Atlas!Next
<1> QED BY <1>1, <1>2, Invariance, PTL DEF Spec, IsAtlas, Atlas!Spec
=============================================================================

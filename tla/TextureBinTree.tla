--------------------------- MODULE TextureBinTree ---------------------------
(***************************************************************************)
(* The texture packer (TextureBinTree in Texture.cpp) as the 3DO to S3O    *)
(* conversion uses it (Model::ConvertToS3O): the textures of the model are *)
(* added one by one, in the order of their addresses, and the first one    *)
(* that finds no room ends the conversion.                                 *)
(*                                                                         *)
(* InsertNode walks the tree depth first and only ever returns a leaf that *)
(* holds no image, so the tree is kept as the sequence of those leaves in  *)
(* that order.                                                             *)
(***************************************************************************)
EXTENDS Integers, Sequences

CONSTANTS
  Images,          \* the textures of the model
  Width, Height,   \* the size the user asked for
  Widths, Heights, \* the sizes a texture may have
  Blank,           \* a texel that no image was copied to
  Nowhere          \* AddNode was not called for the image, or returned 0

ASSUME TextureAssumption == Width \in Nat \ {0} /\ Height \in Nat \ {0}
ASSUME SizesAssumption   == Widths \subseteq Nat \ {0} /\ Heights \subseteq Nat \ {0}
ASSUME BlankAssumption   == Blank \notin Images

VARIABLES
  size,      \* the width and height of each image
  leaves,    \* the nodes that may still take an image, in InsertNode's order
  place,     \* the node of each image, with the size of the image
  texture,   \* which image was blitted to each texel
  outcome    \* of the conversion: "packing", "no space" or "packed"

vars == <<size, leaves, place, texture, outcome>>

Rect == [x : Int, y : Int, w : Int, h : Int]
ASSUME NowhereAssumption == Nowhere \notin Rect

Node(x, y, w, h) == [x |-> x, y |-> y, w |-> w, h |-> h]

\* StoreNode's node: the corner of the leaf, the size of the image.
NodeOf(n, i) == Node(n.x, n.y, size[i].w, size[i].h)

Texel == (0 .. Width - 1) \X (0 .. Height - 1)

Covers(r, t) == /\ r.x <= t[1] /\ t[1] < r.x + r.w
                /\ r.y <= t[2] /\ t[2] < r.y + r.h

Disjoint(r, s) ==
  \/ r.x + r.w <= s.x \/ s.x + s.w <= r.x
  \/ r.y + r.h <= s.y \/ s.y + s.h <= r.y

Inside(r) == /\ r.x >= 0 /\ r.x + r.w <= Width
             /\ r.y >= 0 /\ r.y + r.h <= Height

\* Mutants of Fits: the height is not looked at; an exact fit is no fit.
FitsWidth(n, i) == n.w >= size[i].w
FitsLoosely(n, i) == n.w > size[i].w /\ n.h > size[i].h

\* Does it fit?
Fits(n, i) == n.w >= size[i].w /\ n.h >= size[i].h

\* Mutants of Right and Below: both remainders get the full length; neither does.
RightFullHeight(n, w, h) == Node(n.x + w, n.y, n.w - w, n.h)
BelowImageOnly(n, w, h)  == Node(n.x, n.y + h, w, n.h - h)

\* The child nodes InsertNode makes of leaf n for a w * h image: right of the image
\* and below it, the wider remainder being the one that gets the full length.
Right(n, w, h) ==
  LET ow == n.w - w
      oh == n.h - h
  IN  Node(n.x + w, n.y, ow, IF ow > oh THEN n.h ELSE h)

Below(n, w, h) ==
  LET ow == n.w - w
      oh == n.h - h
  IN  Node(n.x, n.y + h, IF ow > oh THEN w ELSE n.w, oh)

\* Mutant of Childs: empty nodes are made as well.
EmptyChilds(n, w, h) == <<Right(n, w, h), Below(n, w, h)>>

\* Those of them that are not empty.
Childs(n, w, h) == (IF n.w > w THEN <<Right(n, w, h)>> ELSE <<>>) \o
                   (IF n.h > h THEN <<Below(n, w, h)>> ELSE <<>>)

\* Image::Blit to the place of an image.
Blit(i, r) == [t \in Texel |-> IF Covers(r, t) THEN i ELSE texture[t]]

\* InsertNode reaches leaf k: no leaf before it has room.
Reaches(k, i) == Fits(leaves[k], i) /\ \A j \in 1 .. k - 1 : ~Fits(leaves[j], i)

-----------------------------------------------------------------------------

Unplaced == {i \in Images : place[i] = Nowhere}

\* AddNode stores image i.
AddNode(i) ==
  /\ outcome = "packing" /\ place[i] = Nowhere
  /\ \E k \in DOMAIN leaves :
       /\ Reaches(k, i)
       /\ leaves' = SubSeq(leaves, 1, k - 1)
                      \o Childs(leaves[k], size[i].w, size[i].h)
                      \o SubSeq(leaves, k + 1, Len(leaves))
       /\ place' = [place EXCEPT ![i] = NodeOf(leaves[k], i)]
       /\ texture' = Blit(i, NodeOf(leaves[k], i))
  /\ UNCHANGED <<size, outcome>>

\* AddNode returns 0: the conversion is given up.
Refuse(i) ==
  /\ outcome = "packing" /\ place[i] = Nowhere
  /\ \A k \in DOMAIN leaves : ~Fits(leaves[k], i)
  /\ outcome' = "no space"
  /\ UNCHANGED <<size, leaves, place, texture>>

\* All textures are stored: GetResult is saved and becomes the model's texture.
Finish ==
  /\ outcome = "packing" /\ Unplaced = {}
  /\ outcome' = "packed"
  /\ UNCHANGED <<size, leaves, place, texture>>

Next == (\E i \in Images : AddNode(i) \/ Refuse(i)) \/ Finish

\* The root node is the whole texture; Alloc has cleared the texture.
Init ==
  /\ size \in [Images -> [w : Widths, h : Heights]]
  /\ leaves = <<Node(0, 0, Width, Height)>>
  /\ place = [i \in Images |-> Nowhere]
  /\ texture = [t \in Texel |-> Blank]
  /\ outcome = "packing"

Spec == Init /\ [][Next]_vars

-----------------------------------------------------------------------------
(* Properties *)

Placed == {i \in Images : place[i] # Nowhere}

\* Every variable has its type: nodes are never empty (Texture.h, Node).
TypeOK ==
  /\ size \in [Images -> [w : Widths, h : Heights]]
  /\ leaves \in Seq(Rect)
  /\ \A k \in DOMAIN leaves : leaves[k].w > 0 /\ leaves[k].h > 0
  /\ place \in [Images -> Rect \cup {Nowhere}]
  /\ texture \in [Texel -> Images \cup {Blank}]
  /\ outcome \in {"packing", "no space", "packed"}

\* No split loses a texel or hands it out twice: each belongs to exactly one image or
\* exactly one leaf (the two branches of InsertNode).
Partition ==
  \A t \in Texel :
    LET L == {k \in DOMAIN leaves : Covers(leaves[k], t)}
        P == {i \in Placed : Covers(place[i], t)}
    IN  \/ \E k \in DOMAIN leaves : L = {k} /\ P = {}
        \/ \E i \in Placed : P = {i} /\ L = {}

\* Every image stored so far is still in the texture, texel by texel: no later Blit
\* wrote over it. The texture coordinates of the polygons rely on it.
ImagesIntact ==
  \A i \in Placed : \A t \in Texel : Covers(place[i], t) <=> texture[t] = i

\* Images of one size that tiles the texture, as the one-texel colour textures of
\* ConvertToS3O do, are refused only when not a texel is left.
TilesFill ==
  \A w \in Widths, h \in Heights :
    /\ outcome = "no space" /\ Width % w = 0 /\ Height % h = 0
    /\ \A i \in Images : size[i] = [w |-> w, h |-> h]
    => leaves = <<>>

\* Packing is storing in a TextureAtlas: places are inside, apart, and final.
Atlas == INSTANCE TextureAtlas
IsAtlas == Atlas!Spec
=============================================================================

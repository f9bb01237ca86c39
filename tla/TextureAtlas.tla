---------------------------- MODULE TextureAtlas ----------------------------
(***************************************************************************)
(* What a texture atlas promises, with no mention of how it finds room:    *)
(* images get places inside the texture that nothing else covers, and they *)
(* never move.                                                             *)
(***************************************************************************)
EXTENDS Integers

CONSTANTS
  Images,          \* what is stored
  Width, Height,   \* the texture
  Nowhere          \* the place of an image that is not stored

VARIABLES
  size,    \* the width and height of each image
  place    \* where each image is stored

vars == <<size, place>>

Rect == [x : Int, y : Int, w : Int, h : Int]

\* No texel belongs to both.
Disjoint(r, s) ==
  \/ r.x + r.w <= s.x \/ s.x + s.w <= r.x
  \/ r.y + r.h <= s.y \/ s.y + s.h <= r.y

Inside(r) == /\ r.x >= 0 /\ r.x + r.w <= Width
             /\ r.y >= 0 /\ r.y + r.h <= Height

Init == /\ size \in [Images -> [w : Nat \ {0}, h : Nat \ {0}]]
        /\ place = [i \in Images |-> Nowhere]

Store(i) ==
  /\ place[i] = Nowhere
  /\ place'[i] \in Rect /\ Inside(place'[i])
  /\ place'[i].w = size[i].w /\ place'[i].h = size[i].h
  /\ \A j \in Images : place[j] # Nowhere => Disjoint(place'[i], place[j])
  /\ place' = [place EXCEPT ![i] = place'[i]]
  /\ UNCHANGED size

Next == \E i \in Images : Store(i)

Spec == Init /\ [][Next]_vars
=============================================================================

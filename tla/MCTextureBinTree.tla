-------------------------- MODULE MCTextureBinTree --------------------------
(* Values of TextureBinTree's constants for TLC. *)
EXTENDS TextureBinTree, TLC

CONSTANTS i1, i2, i3, i4, i5

UpTo2 == 1 .. 2
UpTo3 == 1 .. 3
One == {1}

Symmetry == Permutations(Images)
=============================================================================

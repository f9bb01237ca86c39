-------------------------- MODULE MCTextureHandler --------------------------
(* Values of TextureHandler's constants for TLC. *)
EXTENDS TextureHandler

CONSTANTS arm, arm00, col, none

ThreeNames == {arm, arm00, col}
WithZeros  == [n \in ThreeNames |-> IF n = arm THEN arm00 ELSE none]

\* Three archives: the numbered texture, the plain one, and a broken numbered one.
ThreeArchives == <<(arm00 :> TRUE), (arm :> TRUE), (arm00 :> FALSE)>>

\* States that behave alike and are told apart by no property are taken once: no action
\* reads the file that was written, and it does not matter whether the textures of the
\* model count as loaded when there is none left to load.
LoadedOrDone(m) == [m EXCEPT !.loaded = @ \/ Unresolved(m) = {}]
WhatMatters ==
  <<running, archives, textures, texname, groups, config, LoadedOrDone(mdl), backups,
    position, colours, settled>>
=============================================================================

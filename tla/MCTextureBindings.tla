------------------------- MODULE MCTextureBindings -------------------------
(* Values of TextureBindings' constants for TLC. *)
EXTENDS TextureBindings

CONSTANTS hull, dirhull, skin, none

TwoFiles == {dirhull, skin}
ThreeImages == {hull, dirhull, skin}
WithoutDirectory == [n \in ThreeImages \cup {none} |-> IF n = dirhull THEN hull ELSE n]

\* No action reads the file that was written, and what was given to a model in which
\* something was missing is not compared with anything.
Compared(m) == IF m.missing THEN <<m.binds>> ELSE <<m.binds, m.given>>
WhatMatters == <<Compared(model), [i \in DOMAIN versions |-> Compared(versions[i])], shown>>
=============================================================================

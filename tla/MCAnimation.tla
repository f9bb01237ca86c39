---------------------------- MODULE MCAnimation ----------------------------
(* Values of Animation's constants for TLC. *)
EXTENDS Animation

CONSTANTS p1

Values == 0 .. 2
FewValues == 0 .. 1

\* FloatController's interpolation, rounded down to a value.
FloatInterp(a, ta, b, tb, t) == (a * (tb - t) + b * (t - ta)) \div (tb - ta)
=============================================================================

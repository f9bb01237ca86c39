----------------------------- MODULE KeyFrames -----------------------------
(***************************************************************************)
(* What key frame animation promises, with no mention of sorted arrays:    *)
(* every property has values at some times; between them it is             *)
(* interpolated; setting a key touches the animation at one time only.     *)
(***************************************************************************)
EXTENDS Integers

CONSTANTS
  Properties,              \* what can be animated
  Time, Value,
  LinearInterp(_,_,_,_,_)  \* LinearInterp(a, ta, b, tb, t): between keys a and b

VARIABLES
  curve,   \* of each property: a function from the times that have a key to values
  pose,    \* the value of each property now
  at,      \* the time of the animation that the pose belongs to
  saved    \* a curve, pose and time that can be brought back

vars == <<curve, pose, at, saved>>

\* The value of curve c at time t; v where there is none.
Sample(c, t, v) ==
  LET before == {k \in DOMAIN c : k <= t}
      after  == {k \in DOMAIN c : k > t}
      last   == CHOOSE k \in before : \A j \in before : j <= k
      next   == CHOOSE k \in after : \A j \in after : k <= j
  IN  IF before = {} /\ after = {} THEN v
      ELSE IF before = {} THEN c[next]
      ELSE IF after = {} THEN c[last]
      ELSE LinearInterp(c[last], last, c[next], next, t)

\* The curve d is c, or c with another value at time t.
SameBut(d, c, t) ==
  /\ DOMAIN d \subseteq DOMAIN c \cup {t}
  /\ \A k \in DOMAIN c : k \in DOMAIN d /\ (k # t => d[k] = c[k])

Present == [curve |-> curve, pose |-> pose, at |-> at]

Init ==
  /\ curve = [p \in Properties |-> [t \in {} |-> 0]]
  /\ pose \in [Properties -> Value]
  /\ at \in Time
  /\ saved = Present

\* Another moment of the animation is shown.
Scrub ==
  /\ at' \in Time
  /\ pose' = [p \in Properties |-> Sample(curve[p], at', pose[p])]
  /\ UNCHANGED <<curve, saved>>

\* The user changes values. Nothing is animated by that.
Modify ==
  /\ pose' \in [Properties -> Value]
  /\ saved' \in {saved, Present'}
  /\ UNCHANGED <<curve, at>>

\* Keys are set at one time, so that the animation goes through the pose there. The
\* pose may have been changed right before: by the user, or because another moment of the
\* animation was shown (a drag of the slider with the auto-keying box ticked is one step).
KeyFrom(c) ==
  /\ at' \in Time
  /\ pose' \in [Properties -> Value]
  /\ DOMAIN curve' = Properties
  /\ \A p \in Properties : /\ SameBut(curve'[p], c[p], at')
                           /\ Sample(curve'[p], at', pose'[p]) = pose'[p]
  /\ saved' = Present'

\* What was saved is brought back.
Restore ==
  /\ Present' = saved
  /\ UNCHANGED saved

Next == Scrub \/ Modify \/ KeyFrom(curve) \/ KeyFrom(saved.curve) \/ Restore

Spec == Init /\ [][Next]_vars
=============================================================================

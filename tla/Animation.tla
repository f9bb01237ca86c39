----------------------------- MODULE Animation -----------------------------
(***************************************************************************)
(* Key frames over time (AnimProperty and AnimationInfo in Animation.cpp)  *)
(* and the timeline window that sets and plays them (Timeline.cpp).        *)
(*                                                                         *)
(* Times are counted in steps of the slider, 0.01 each, which is also the  *)
(* EPSILON within which InsertKey takes two times for the same. The keys   *)
(* of a property are a sequence, as in keyData.                            *)
(***************************************************************************)
EXTENDS Integers, Sequences

CONSTANTS
  Properties,              \* the animated properties of all objects
  MaxTime,                 \* the last time that is explored
  Value,                   \* the values of a property
  LinearInterp(_,_,_,_,_), \* the controller's; LinearInterp(a, ta, b, tb, t)
  StartLength,             \* the length of an animation, 10 seconds in the code
  Lengths,                 \* the lengths the user may set
  Ticks,                   \* the times that may pass between two calls of idle_cb; none
                           \* when nothing is ever played
  Rounded,                 \* the times t at which rounding makes InsertKey take a key at
                           \* t - 1 for one at t
  StrayKey,                \* may the memory before the keys look like a key at any time?
  Reloading                \* may an earlier backup be shown again?

Time == 0 .. MaxTime

ASSUME TimeAssumption   == MaxTime \in Nat /\ Rounded \subseteq Time /\ Ticks \subseteq Nat
ASSUME LengthAssumption == Lengths \cup {StartLength} \subseteq Time
ASSUME ModeAssumption   == StrayKey \in BOOLEAN /\ Reloading \in BOOLEAN
ASSUME InterpAssumption ==
  \A a, b \in Value : \A ta, tb, t \in Time : ta <= t /\ t < tb =>
    /\ LinearInterp(a, ta, b, tb, t) \in Value
    /\ LinearInterp(a, ta, b, tb, ta) = a

VARIABLES
  keys,        \* keyData of every property
  pose,        \* the present values of the properties
  slider,      \* timeSlider->value()
  maximum,     \* timeSlider->maximum()
  time,        \* TimelineUI::time
  isPlaying,
  autoKeying,  \* the auto-keying box
  recorded,    \* what the last backup point recorded
  at           \* history: the time that the pose was evaluated or keyed at, and the
               \* properties edited since

vars == <<keys, pose, slider, maximum, time, isPlaying, autoKeying, recorded, at>>

Key  == [time : Time, data : Value]
Keys == [Properties -> Seq(Key)]
Pose == [Properties -> Value]
At   == [time : Time, edited : SUBSET Properties]

-----------------------------------------------------------------------------
(* AnimProperty *)

NumKeys(ks) == Len(ks)

\* The index before the first key that is later than t; the last one if none is. (0
\* for the code's -1.)
GetKeyIndex(ks, t) ==
  CHOOSE i \in 0 .. Len(ks) :
    /\ \A j \in 1 .. i : ks[j].time <= t
    /\ i < Len(ks) => ks[i + 1].time > t

\* Mutant of Evaluate: the value of the last key holds until the next one.
EvaluateSteps(ks, t, v) ==
  IF ks = <<>> THEN v
  ELSE IF GetKeyIndex(ks, t) = 0 THEN ks[1].data ELSE ks[GetKeyIndex(ks, t)].data

\* The value at time t; v is left as it is when there are no keys.
Evaluate(ks, t, v) ==
  LET i == GetKeyIndex(ks, t)
  IN  IF ks = <<>> THEN v
      ELSE IF i = 0 THEN ks[1].data
      ELSE IF i < NumKeys(ks)
           THEN LinearInterp(ks[i].data, ks[i].time, ks[i + 1].data, ks[i + 1].time, t)
           ELSE ks[i].data

\* Does InsertKey take key i for one at time t? There is no key 0: its "time" is read
\* from the memory before the keys, and stray says what is found there.
SameTime(ks, i, t, stray) ==
  IF i = 0 THEN stray
  ELSE ks[i].time = t \/ (t \in Rounded /\ ks[i].time = t - 1)

\* Mutants of InsertKey: the new key is a step early; it goes before the key that was
\* found.
InsertKeyEarly(ks, v, t, stray) ==
  LET i == GetKeyIndex(ks, t)
  IN  IF ks # <<>> /\ SameTime(ks, i, t, stray)
      THEN IF i = 0 THEN ks ELSE [ks EXCEPT ![i].data = v]
      ELSE SubSeq(ks, 1, i) \o << [time |-> t - 1, data |-> v] >> \o SubSeq(ks, i + 1, Len(ks))

InsertKeyBefore(ks, v, t, stray) ==
  LET i == GetKeyIndex(ks, t)
  IN  IF ks # <<>> /\ SameTime(ks, i, t, stray)
      THEN [ks EXCEPT ![i].data = v]
      ELSE LET j == IF i = 0 THEN 0 ELSE i - 1
           IN  SubSeq(ks, 1, j) \o << [time |-> t, data |-> v] >> \o SubSeq(ks, j + 1, Len(ks))

\* A new key, or another value for the key at that time. The value of key 0 goes to
\* the memory before the keys.
InsertKey(ks, v, t, stray) ==
  LET i == GetKeyIndex(ks, t)
  IN  IF ks # <<>> /\ SameTime(ks, i, t, stray)
      THEN IF i = 0 THEN ks ELSE [ks EXCEPT ![i].data = v]
      ELSE SubSeq(ks, 1, i) \o << [time |-> t, data |-> v] >> \o SubSeq(ks, i + 1, Len(ks))

-----------------------------------------------------------------------------
(* AnimationInfo and the timeline *)

\* InsertKeyFrames: is value v at time t to get a key?
IsEdited(ks, v, t) ==
  \/ ks = <<>>
  \/ ks[1].time > t
  \/ ks[NumKeys(ks)].time < t
  \/ Evaluate(ks, t, v) # v

\* InsertKeyFrames over all objects. strays are the properties whose keys have
\* something like a key before them.
InsertKeyFrames(k, v, t, strays) ==
  [p \in Properties |-> IF IsEdited(k[p], v[p], t)
                        THEN InsertKey(k[p], v[p], t, p \in strays) ELSE k[p]]

Strays == IF StrayKey THEN SUBSET Properties ELSE {{}}

\* Mutants of UpdateAnimation: the slider is read before it is moved; the pose is not
\* evaluated at all before the views are redrawn.
UpdateAnimationLate(t) == [p \in Properties |-> Evaluate(keys[p], slider, pose[p])]

UpdateAnimationNever(t) == pose

UpdateAnimation(t) == [p \in Properties |-> Evaluate(keys[p], t, pose[p])]

\* The end of a handler that leaves keys k, pose v and the time now, with its backup
\* point made or not: EditorUI::Update, and through it TimelineUI::Update.
\* InsertKeys(true) reads the slider, also where the handler has just moved it, and
\* makes a backup point.
Update(k, v, now, backup, present) ==
  /\ pose' = v
  /\ IF autoKeying
     THEN /\ \E strays \in Strays : keys' = InsertKeyFrames(k, v, slider', strays)
          /\ time' = slider'
          /\ at' = [time |-> slider', edited |-> {}]
          /\ recorded' = [keys |-> keys', pose |-> v, at |-> at']
     ELSE /\ keys' = k
          /\ time' = now
          /\ at' = present
          /\ recorded' = backup

\* The pose of time t is shown, and RedrawViews, which is Update, follows.
ShowTime(t) ==
  Update(keys, UpdateAnimation(t), t, recorded, [time |-> t, edited |-> {}])

-----------------------------------------------------------------------------
(* Actions *)

\* The slider is dragged. During playback it moves and nothing else happens.
SliderCallback(t) ==
  /\ t <= maximum
  /\ slider' = t
  /\ IF isPlaying THEN UNCHANGED <<keys, pose, time, recorded, at>> ELSE ShowTime(t)
  /\ UNCHANGED <<maximum, isPlaying, autoKeying>>

\* Playback: the slider is set before the time wraps around, so that with the
\* auto-keying box ticked the time ends up past the maximum again.
Idle(dt) ==
  /\ isPlaying
  /\ time + dt \in Time
  /\ slider' = time + dt
  /\ ShowTime(IF time + dt > maximum THEN 0 ELSE time + dt)
  /\ UNCHANGED <<maximum, isPlaying, autoKeying>>

\* The play button starts from 0 and leaves the slider for idle_cb to set; it and
\* hiding the window stop.
PlayStop ==
  /\ Ticks # {}
  /\ isPlaying' = ~isPlaying
  /\ time' = IF isPlaying THEN time ELSE 0
  /\ UNCHANGED <<keys, pose, slider, maximum, autoKeying, recorded, at>>

Pause ==
  /\ Ticks # {}
  /\ isPlaying' = ~isPlaying
  /\ UNCHANGED <<keys, pose, slider, maximum, time, autoKeying, recorded, at>>

\* Keys past the end and the slider stay where they are.
SetLength(m) ==
  /\ maximum' = m
  /\ UNCHANGED <<keys, pose, slider, time, isPlaying, autoKeying, recorded, at>>

\* A command or tool changes a property, makes a backup point (only the rotator window
\* does not) and calls Update.
Edit(p, x) ==
  /\ UNCHANGED <<slider, maximum, isPlaying, autoKeying>>
  /\ LET v == [pose EXCEPT ![p] = x]
         present == [at EXCEPT !.edited = @ \cup {p}]
     IN  \E backup \in {recorded, [keys |-> keys, pose |-> v, at |-> present]} :
           Update(keys, v, time, backup, present)

\* A command that changes nothing, as a selection does.
Touch ==
  /\ UNCHANGED <<slider, maximum, isPlaying, autoKeying>>
  /\ Update(keys, pose, time, recorded, at)

\* The insert button: keys, then Update, which inserts once more with the box ticked,
\* and the backup point last.
InsertKeys ==
  /\ \E s1, s2 \in Strays :
       LET once == InsertKeyFrames(keys, pose, slider, s1)
       IN  keys' = IF autoKeying THEN InsertKeyFrames(once, pose, slider, s2) ELSE once
  /\ time' = slider
  /\ at' = [time |-> slider, edited |-> {}]
  /\ recorded' = [keys |-> keys', pose |-> pose, at |-> at']
  /\ UNCHANGED <<pose, slider, maximum, isPlaying, autoKeying>>

\* The last backup is shown again (a click on it in the undo buffer viewer, a failed
\* conversion): SetModel sets neither the slider nor the time.
Reload ==
  /\ Reloading
  /\ UNCHANGED <<slider, maximum, isPlaying, autoKeying>>
  /\ Update(recorded.keys, recorded.pose, time, recorded, recorded.at)

ToggleAutoKeying ==
  /\ autoKeying' = ~autoKeying
  /\ UNCHANGED <<keys, pose, slider, maximum, time, isPlaying, recorded, at>>

Next ==
  \/ \E t \in Time : SliderCallback(t)
  \/ \E dt \in Ticks : Idle(dt)
  \/ PlayStop
  \/ Pause
  \/ \E m \in Lengths : SetLength(m)
  \/ \E p \in Properties, x \in Value : Edit(p, x)
  \/ Touch
  \/ InsertKeys
  \/ Reload
  \/ ToggleAutoKeying

\* The window is made with the slider at 0 and a model without keys.
Init ==
  /\ keys = [p \in Properties |-> <<>>]
  /\ pose \in Pose
  /\ slider = 0 /\ time = 0 /\ maximum = StartLength
  /\ isPlaying = FALSE /\ autoKeying = FALSE
  /\ at = [time |-> 0, edited |-> {}]
  /\ recorded = [keys |-> keys, pose |-> pose, at |-> at]

Spec == Init /\ [][Next]_vars

-----------------------------------------------------------------------------
(* Properties *)

\* Every variable has its type (TimelineUI's members, AnimProperty's keyData).
TypeOK ==
  /\ keys \in Keys /\ pose \in Pose /\ at \in At
  /\ slider \in Time /\ maximum \in Time /\ time \in Time
  /\ isPlaying \in BOOLEAN /\ autoKeying \in BOOLEAN
  /\ recorded \in [keys : Keys, pose : Pose, at : At]

Sorted(ks) == \A i, j \in DOMAIN ks : i < j => ks[i].time < ks[j].time

\* The keys of a property are in the order of their times, no two at one time, in
\* whatever order and at whatever times they are inserted, and whatever InsertKey
\* takes for the same time (GetKeyIndex stops at the first later key, and Evaluate
\* divides by the distance of two keys).
KeysSorted == \A p \in Properties : Sorted(keys[p]) /\ Sorted(recorded.keys[p])

\* What is not edited is where the animation has it, at the time that the pose was
\* evaluated, keyed or recorded at (UpdateAnimation and InsertKeyFrames; "Calculate a
\* state of the properties at a specific time", Animation.h).
PoseIsAnimated ==
  \A p \in Properties \ at.edited : Evaluate(keys[p], at.time, pose[p]) = pose[p]

\* After "insert keys" the animation goes through what was on the screen ("a new key
\* should be added for it", Animation.cpp).
ModifiedAreKeyed ==
  [][InsertKeys => \A p \in Properties : Evaluate(keys'[p], slider, pose[p]) = pose[p]]_vars

\* In this step the animation of what has keys and is not in S stays as it is: at all
\* times of T it evaluates as before.
SameAnimation(S, T) ==
  \A p \in Properties \ S : keys[p] # <<>> =>
    \A t \in T : Evaluate(keys'[p], t, pose[p]) = Evaluate(keys[p], t, pose[p])

\* Commands that edit nothing leave the animation of what was not edited as it is
\* ("Insert keyframes for modified properties", Animation.h).
OnlyModifiedAreKeyed == [][Touch => SameAnimation(at.edited, Time)]_vars

\* The slider is dragged, or playback goes on without reaching the end.
Scrub == \/ \E t \in Time : SliderCallback(t)
         \/ \E dt \in Ticks : time + dt <= maximum /\ Idle(dt)

\* Playback passes the end and starts over.
PassEnd == \E dt \in Ticks : time + dt > maximum /\ Idle(dt)

\* The times up to the last key that the animation has before its end.
KeyedTimes(p) ==
  {t \in Time : \E i \in DOMAIN keys[p] : t <= keys[p][i].time /\ keys[p][i].time <= maximum}

\* Looking at an animation leaves it as it is ("Insert keyframes for modified properties",
\* Animation.h: none is). With the auto-keying box ticked dragging the slider and playing
\* insert keys, but up to the end none of them changes what any time evaluates to
\* (SliderCallback and idle_cb evaluate at the time before Update inserts keys there). When
\* playback starts over, the pose of time 0 is keyed past the end, where the slider was
\* left: that is not harmless, but changes nothing up to the last key before the end.
ScrubbingKeysNothing ==
  [][/\ Scrub => SameAnimation({}, Time)
     /\ PassEnd => \A p \in Properties : SameAnimation(Properties \ {p}, KeyedTimes(p))]_vars

\* Keys over time are key frames: inserting changes the animation at one time only.
Curve(ks) == [t \in {ks[i].time : i \in DOMAIN ks} |->
                ks[CHOOSE i \in DOMAIN ks : ks[i].time = t].data]
Curves(k) == [p \in Properties |-> Curve(k[p])]

Frames == INSTANCE KeyFrames WITH
  curve <- Curves(keys),
  at    <- at.time,
  saved <- [curve |-> Curves(recorded.keys), pose |-> recorded.pose, at |-> recorded.at.time]

IsKeyFrames == Frames!Spec
=============================================================================

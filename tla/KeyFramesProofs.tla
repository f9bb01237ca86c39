-------------------------- MODULE KeyFramesProofs --------------------------
(***************************************************************************)
(* Animation implements KeyFrames: the sorted arrays of keys are curves,   *)
(* and every handler of the timeline is a step of KeyFrames or none.       *)
(***************************************************************************)
EXTENDS AnimationProofs

-----------------------------------------------------------------------------
(* Arrays of keys as curves *)

LEMMA CurveOfKeys ==
  ASSUME NEW ks \in Seq(Key), Sorted(ks)
  PROVE  /\ DOMAIN Curve(ks) = {ks[i].time : i \in 1 .. Len(ks)}
         /\ \A i \in 1 .. Len(ks) : Curve(ks)[ks[i].time] = ks[i].data
<1>1. DOMAIN ks = 1 .. Len(ks) /\ Len(ks) \in Nat
  OBVIOUS
<1>2. \A i \in 1 .. Len(ks) : ks[i].time \in Int
  BY Elements
<1>3. \A i, j \in 1 .. Len(ks) : ks[i].time = ks[j].time => i = j
  BY <1>1, <1>2 DEF Sorted
<1>4. ASSUME NEW i \in 1 .. Len(ks)
      PROVE  (CHOOSE j \in DOMAIN ks : ks[j].time = ks[i].time) = i
  BY <1>1, <1>3
<1>5. ASSUME NEW i \in 1 .. Len(ks) PROVE Curve(ks)[ks[i].time] = ks[i].data
  <2>1. ks[i].time \in {ks[j].time : j \in DOMAIN ks}
    BY <1>1
  <2>2. Curve(ks)[ks[i].time] = ks[CHOOSE j \in DOMAIN ks : ks[j].time = ks[i].time].data
    BY <2>1 DEF Curve
  <2> QED BY <1>4, <2>2
<1>6. DOMAIN Curve(ks) = {ks[i].time : i \in 1 .. Len(ks)}
  BY <1>1 DEF Curve
<1> QED BY <1>5, <1>6

LEMMA LeastChosen ==
  ASSUME NEW T, T \subseteq Int, NEW m \in T, \A j \in T : m <= j
  PROVE  (CHOOSE k \in T : \A j \in T : k <= j) = m
<1>1. \A k \in T : (\A j \in T : k <= j) => k = m
  OBVIOUS
<1> QED BY <1>1

LEMMA GreatestChosen ==
  ASSUME NEW T, T \subseteq Int, NEW m \in T, \A j \in T : j <= m
  PROVE  (CHOOSE k \in T : \A j \in T : j <= k) = m
<1>1. \A k \in T : (\A j \in T : j <= k) => k = m
  OBVIOUS
<1> QED BY <1>1

\* Evaluate reads the curve off the array.
LEMMA EvaluateSamples ==
  ASSUME NEW ks \in Seq(Key), Sorted(ks), NEW t \in Time, NEW v
  PROVE  Frames!Sample(Curve(ks), t, v) = Evaluate(ks, t, v)
<1> DEFINE c == Curve(ks)
           g == GetKeyIndex(ks, t)
           before == {k \in DOMAIN c : k <= t}
           after  == {k \in DOMAIN c : k > t}
           last == CHOOSE k \in before : \A j \in before : j <= k
           next == CHOOSE k \in after : \A j \in after : k <= j
<1>1. /\ DOMAIN c = {ks[i].time : i \in 1 .. Len(ks)}
      /\ \A i \in 1 .. Len(ks) : c[ks[i].time] = ks[i].data
  BY CurveOfKeys
<1>2. /\ g \in 0 .. Len(ks) /\ \A j \in 1 .. g : ks[j].time <= t
      /\ g < Len(ks) => ks[g + 1].time > t
  BY KeyIndex
<1>3. /\ Len(ks) \in Nat /\ t \in Int
      /\ \A j \in 1 .. Len(ks) : ks[j].time \in Int
      /\ \A i, j \in 1 .. Len(ks) : i < j => ks[i].time < ks[j].time
  BY Elements, TimeAssumption DEF Time, Sorted
<1>4. Frames!Sample(c, t, v) =
        IF before = {} /\ after = {} THEN v
        ELSE IF before = {} THEN c[next]
        ELSE IF after = {} THEN c[last]
        ELSE LinearInterp(c[last], last, c[next], next, t)
  BY DEF Frames!Sample
<1> HIDE DEF c, g, before, after, last, next
<1>5. \A j \in 1 .. Len(ks) : ks[j].time <= t <=> j <= g
  <2> TAKE j \in 1 .. Len(ks)
  <2>1. CASE j <= g
    BY <1>2, <1>3, <2>1
  <2>2. CASE ~(j <= g)
    <3>1. g + 1 \in 1 .. Len(ks) /\ g < Len(ks) /\ (g + 1 = j \/ g + 1 < j)
      BY <1>2, <1>3, <2>2
    <3>2. ks[g + 1].time <= ks[j].time
      BY <1>3, <3>1
    <3> QED BY <1>2, <1>3, <2>2, <3>1, <3>2
  <2> QED BY <2>1, <2>2
<1>6. before = {ks[i].time : i \in 1 .. g}
  <2>1. ASSUME NEW x \in before PROVE x \in {ks[i].time : i \in 1 .. g}
    BY <1>1, <1>2, <1>3, <1>5, <2>1 DEF before
  <2>2. ASSUME NEW i \in 1 .. g PROVE ks[i].time \in before
    BY <1>1, <1>2, <1>3, <1>5 DEF before
  <2> QED BY <2>1, <2>2
<1>7. after = {ks[i].time : i \in g + 1 .. Len(ks)}
  <2>1. ASSUME NEW x \in after PROVE x \in {ks[i].time : i \in g + 1 .. Len(ks)}
    BY <1>1, <1>2, <1>3, <1>5, <2>1 DEF after
  <2>2. ASSUME NEW i \in g + 1 .. Len(ks) PROVE ks[i].time \in after
    BY <1>1, <1>2, <1>3, <1>5 DEF after
  <2> QED BY <2>1, <2>2
<1>8. g # 0 => before # {} /\ last = ks[g].time /\ c[last] = ks[g].data
  <2> HAVE g # 0
  <2>1. g \in 1 .. g /\ g \in 1 .. Len(ks)
    BY <1>2, <1>3
  <2>2. before \subseteq Int
    BY <1>2, <1>3, <1>6
  <2>3. ks[g].time \in before
    BY <1>6, <2>1
  <2>4. \A j \in before : j <= ks[g].time
    <3>1. \A i \in 1 .. g : ks[i].time <= ks[g].time
      BY <1>2, <1>3, <2>1
    <3> QED BY <1>6, <3>1
  <2>5. last = ks[g].time
    BY <2>2, <2>3, <2>4, GreatestChosen DEF last
  <2> QED BY <1>1, <2>1, <2>3, <2>5
<1>9. g < Len(ks) => after # {} /\ next = ks[g + 1].time /\ c[next] = ks[g + 1].data
  <2> HAVE g < Len(ks)
  <2>1. g + 1 \in g + 1 .. Len(ks) /\ g + 1 \in 1 .. Len(ks)
    BY <1>2, <1>3
  <2>2. after \subseteq Int
    BY <1>2, <1>3, <1>7
  <2>3. ks[g + 1].time \in after
    BY <1>7, <2>1
  <2>4. \A j \in after : ks[g + 1].time <= j
    <3>1. \A i \in g + 1 .. Len(ks) : ks[g + 1].time <= ks[i].time
      BY <1>2, <1>3, <2>1
    <3> QED BY <1>7, <3>1
  <2>5. next = ks[g + 1].time
    BY <2>2, <2>3, <2>4, LeastChosen DEF next
  <2> QED BY <1>1, <2>1, <2>3, <2>5
<1>10. (g = 0 => before = {}) /\ (~(g < Len(ks)) => after = {})
  BY <1>2, <1>3, <1>6, <1>7
<1>11. ks = <<>> <=> Len(ks) = 0
  BY <1>3
<1>12. Evaluate(ks, t, v) =
         IF ks = <<>> THEN v
         ELSE IF g = 0 THEN ks[1].data
         ELSE IF g < Len(ks)
              THEN LinearInterp(ks[g].data, ks[g].time, ks[g + 1].data, ks[g + 1].time, t)
              ELSE ks[g].data
  BY DEF Evaluate, NumKeys, g
<1>13. Frames!Sample(c, t, v) = Evaluate(ks, t, v)
  <2>1. CASE ks = <<>>
    BY <1>2, <1>3, <1>4, <1>10, <1>11, <1>12, <2>1
  <2>2. CASE ks # <<>> /\ g = 0
    <3>1. g < Len(ks) /\ g + 1 = 1
      BY <1>3, <1>11, <2>2
    <3> QED BY <1>4, <1>9, <1>10, <1>12, <2>2, <3>1
  <2>3. CASE ks # <<>> /\ g # 0 /\ g < Len(ks)
    BY <1>4, <1>8, <1>9, <1>12, <2>3
  <2>4. CASE ks # <<>> /\ g # 0 /\ ~(g < Len(ks))
    BY <1>4, <1>8, <1>10, <1>12, <2>4
  <2> QED BY <2>1, <2>2, <2>3, <2>4
<1> QED BY <1>13 DEF c

\* The keys n are those of ks, but at time t.
Alike(n, ks, t) ==
  /\ \A i \in 1 .. Len(n) : n[i].time = t \/ \E j \in 1 .. Len(ks) : n[i] = ks[j]
  /\ \A j \in 1 .. Len(ks) : \E i \in 1 .. Len(n) :
       n[i].time = ks[j].time /\ (ks[j].time # t => n[i] = ks[j])

\* InsertKey adds or changes the key at its time, and keeps all others.
LEMMA InsertKeyKeeps ==
  ASSUME NEW ks \in Seq(Key), NEW v \in Value, NEW t \in Time, Rounded = {}
  PROVE  Alike(InsertKey(ks, v, t, FALSE), ks, t)
<1> DEFINE i == GetKeyIndex(ks, t)
           k == [time |-> t, data |-> v]
<1>1. i \in 0 .. Len(ks)
  BY KeyIndex
<1>2. k \in Key /\ k.time = t
  BY DEF Key
<1>3. Len(ks) \in Nat /\ \A j \in 1 .. Len(ks) : ks[j] \in Key
  BY Elements
<1>4. CASE ks # <<>> /\ SameTime(ks, i, t, FALSE)
  <2> DEFINE n == [ks EXCEPT ![i].data = v]
  <2>1. i # 0 /\ ks[i].time = t
    BY <1>4 DEF SameTime
  <2>2. InsertKey(ks, v, t, FALSE) = n /\ i \in 1 .. Len(ks)
    BY <1>1, <1>3, <1>4, <2>1 DEF InsertKey
  <2>3. n \in Seq(Key) /\ Len(n) = Len(ks)
    BY <1>3, <2>2 DEF Key
  <2>4. n[i].time = ks[i].time
    BY <1>3, <2>2 DEF Key
  <2>5. \A j \in 1 .. Len(ks) : j # i => n[j] = ks[j]
    BY <1>3, <2>2
  <2> HIDE DEF n, i
  <2>6. Alike(n, ks, t)
    BY <2>1, <2>2, <2>3, <2>4, <2>5 DEF Alike
  <2> QED BY <2>2, <2>6
<1>5. CASE ~(ks # <<>> /\ SameTime(ks, i, t, FALSE))
  <2> DEFINE n == Spliced(ks, i, k)
  <2>1. InsertKey(ks, v, t, FALSE) = n
    BY <1>5 DEF InsertKey, Spliced
  <2>2. /\ Len(n) = Len(ks) + 1 /\ n[i + 1] = k
        /\ \A j \in 1 .. i : n[j] = ks[j]
        /\ \A j \in i + 2 .. Len(ks) + 1 : n[j] = ks[j - 1]
    BY <1>1, <1>2, Splice
  <2>3. i \in Int /\ Len(ks) \in Int /\ 0 <= i /\ i <= Len(ks)
    BY <1>1, <1>3
  <2> HIDE DEF n, i, k
  <2>4. ASSUME NEW l \in 1 .. Len(ks) + 1
        PROVE  n[l].time = t \/ \E j \in 1 .. Len(ks) : n[l] = ks[j]
    <3>1. CASE l <= i
      <4>1. l \in 1 .. i /\ l \in 1 .. Len(ks)
        BY <2>3, <3>1
      <4> QED BY <2>2, <4>1
    <3>2. CASE l = i + 1
      BY <1>2, <2>2, <3>2
    <3>3. CASE l > i + 1
      <4>1. l - 1 \in 1 .. Len(ks) /\ l \in i + 2 .. Len(ks) + 1
        BY <2>3, <3>3
      <4> QED BY <2>2, <4>1
    <3>4. l <= i \/ l = i + 1 \/ l > i + 1
      BY <2>3
    <3> QED BY <3>1, <3>2, <3>3, <3>4
  <2>5. ASSUME NEW j \in 1 .. Len(ks) PROVE \E l \in 1 .. Len(ks) + 1 : n[l] = ks[j]
    <3>1. CASE j <= i
      <4>1. j \in 1 .. i /\ j \in 1 .. Len(ks) + 1
        BY <2>3, <3>1
      <4> QED BY <2>2, <4>1
    <3>2. CASE j > i
      <4>1. j + 1 \in 1 .. Len(ks) + 1 /\ j + 1 \in i + 2 .. Len(ks) + 1 /\ (j + 1) - 1 = j
        BY <2>3, <3>2
      <4>2. n[j + 1] = ks[j]
        BY <2>2, <4>1
      <4> QED BY <4>1, <4>2
    <3>3. j <= i \/ j > i
      BY <2>3
    <3> QED BY <3>1, <3>2, <3>3
  <2>6. Alike(n, ks, t)
    BY <2>2, <2>4, <2>5 DEF Alike
  <2> QED BY <2>1, <2>6
<1> QED BY <1>4, <1>5

\* So the animation changes at that time only.
LEMMA InsertKeySameBut ==
  ASSUME NEW ks \in Seq(Key), Sorted(ks), NEW v \in Value, NEW t \in Time, Rounded = {}
  PROVE  Frames!SameBut(Curve(InsertKey(ks, v, t, FALSE)), Curve(ks), t)
<1> DEFINE n == InsertKey(ks, v, t, FALSE)
           c == Curve(ks)
           d == Curve(n)
<1>1. n \in Seq(Key) /\ Sorted(n)
  BY InsertKeySorts
<1>2. /\ DOMAIN c = {ks[i].time : i \in 1 .. Len(ks)}
      /\ \A i \in 1 .. Len(ks) : c[ks[i].time] = ks[i].data
  BY CurveOfKeys
<1>3. /\ DOMAIN d = {n[i].time : i \in 1 .. Len(n)}
      /\ \A i \in 1 .. Len(n) : d[n[i].time] = n[i].data
  BY <1>1, CurveOfKeys
<1>4. Alike(n, ks, t)
  BY InsertKeyKeeps
<1> HIDE DEF n, c, d
<1>5. ASSUME NEW x \in DOMAIN d PROVE x \in DOMAIN c \cup {t}
  <2>1. PICK i \in 1 .. Len(n) : x = n[i].time
    BY <1>3
  <2>2. x = t \/ \E j \in 1 .. Len(ks) : n[i] = ks[j]
    BY <1>4, <2>1 DEF Alike
  <2> QED BY <1>2, <2>1, <2>2
<1>6. ASSUME NEW x \in DOMAIN c PROVE x \in DOMAIN d /\ (x # t => d[x] = c[x])
  <2>1. PICK j \in 1 .. Len(ks) : x = ks[j].time
    BY <1>2
  <2>2. PICK i \in 1 .. Len(n) : n[i].time = x /\ (x # t => n[i] = ks[j])
    BY <1>4, <2>1 DEF Alike
  <2> QED BY <1>2, <1>3, <2>1, <2>2
<1>7. Frames!SameBut(d, c, t)
  BY <1>5, <1>6 DEF Frames!SameBut
<1> QED BY <1>7 DEF n, c, d

LEMMA SameButItself ==
  ASSUME NEW c, NEW t
  PROVE  Frames!SameBut(c, c, t)
BY DEF Frames!SameBut

LEMMA SameButTwice ==
  ASSUME NEW c, NEW d, NEW e, NEW t, Frames!SameBut(d, c, t), Frames!SameBut(e, d, t)
  PROVE  Frames!SameBut(e, c, t)
BY DEF Frames!SameBut

LEMMA InsertKeyFramesSameBut ==
  ASSUME Exact, NEW k \in Keys, NEW v \in Pose, NEW t \in Time, NEW strays \in Strays,
         NEW p \in Properties, Sorted(k[p])
  PROVE  Frames!SameBut(Curve(InsertKeyFrames(k, v, t, strays)[p]), Curve(k[p]), t)
<1>1. k[p] \in Seq(Key) /\ v[p] \in Value /\ (p \in strays) = FALSE
  BY DEF Keys, Pose, Strays, Exact
<1>2. InsertKeyFrames(k, v, t, strays)[p]
        = IF IsEdited(k[p], v[p], t) THEN InsertKey(k[p], v[p], t, FALSE) ELSE k[p]
  BY <1>1 DEF InsertKeyFrames
<1>3. Frames!SameBut(Curve(InsertKey(k[p], v[p], t, FALSE)), Curve(k[p]), t)
  BY <1>1, InsertKeySameBut DEF Exact
<1> QED BY <1>2, <1>3, SameButItself

-----------------------------------------------------------------------------
(* Steps *)

LEMMA UpdateIsKey ==
  ASSUME Exact, Inv', NEW k, NEW v, NEW now, NEW backup, NEW present,
         Given(k, v, now, backup, present), Update(k, v, now, backup, present), autoKeying
  PROVE  Frames!KeyFrom(Curves(k))
<1>1. k \in Keys /\ v \in Pose /\ slider' \in Time /\ \A p \in Properties : Sorted(k[p])
  BY DEF Given, Inv, TypeOK
<1>2. PICK strays \in Strays : keys' = InsertKeyFrames(k, v, slider', strays)
  BY DEF Update
<1>3. /\ pose' = v /\ at'.time = slider'
      /\ recorded'.keys = keys' /\ recorded'.pose = pose' /\ recorded'.at = at'
  BY DEF Update
<1>4. ASSUME NEW p \in Properties
      PROVE  /\ Frames!SameBut(Curves(keys')[p], Curves(k)[p], at'.time)
             /\ Frames!Sample(Curves(keys')[p], at'.time, pose'[p]) = pose'[p]
  <2>1. keys'[p] \in Seq(Key) /\ Sorted(keys'[p])
    BY DEF Inv, TypeOK, Keys, KeysSorted
  <2>2. Curves(keys')[p] = Curve(keys'[p]) /\ Curves(k)[p] = Curve(k[p])
    BY DEF Curves
  <2>3. Frames!SameBut(Curve(keys'[p]), Curve(k[p]), slider')
    BY <1>1, <1>2, InsertKeyFramesSameBut
  <2>4. Evaluate(keys'[p], slider', v[p]) = v[p]
    BY <1>1, <1>2, InsertKeyFramesFits
  <2>5. Frames!Sample(Curve(keys'[p]), slider', v[p]) = v[p]
    BY <1>1, <2>1, <2>4, EvaluateSamples
  <2> QED BY <1>3, <2>2, <2>3, <2>5
<1>5. DOMAIN Curves(keys') = Properties
  BY DEF Curves
<1>6. pose' \in [Properties -> Value] /\ at'.time \in Time
  BY <1>1, <1>3 DEF Pose
<1> QED BY <1>3, <1>4, <1>5, <1>6 DEF Frames!KeyFrom, Frames!Present

LEMMA ScrubIsScrub ==
  ASSUME Inv, NEW t \in Time, pose' = UpdateAnimation(t), at' = [time |-> t, edited |-> {}],
         UNCHANGED <<keys, recorded>>
  PROVE  Frames!Scrub
<1>1. ASSUME NEW p \in Properties
      PROVE  Evaluate(keys[p], t, pose[p]) = Frames!Sample(Curves(keys)[p], t, pose[p])
  <2>1. keys[p] \in Seq(Key) /\ Sorted(keys[p]) /\ Curves(keys)[p] = Curve(keys[p])
    BY DEF Inv, TypeOK, Keys, KeysSorted, Curves
  <2> QED BY <2>1, EvaluateSamples
<1>2. pose' = [p \in Properties |-> Frames!Sample(Curves(keys)[p], t, pose[p])]
  BY <1>1 DEF UpdateAnimation
<1>3. at'.time = t
  OBVIOUS
<1> QED BY <1>2, <1>3 DEF Frames!Scrub

\* Showing another moment is a scrub, or the key that follows it with the box ticked.
LEMMA ShowTimeIsStep ==
  ASSUME Exact, Inv, Inv', NEW t \in Time, ShowTime(t)
  PROVE  Frames!Next
<1>1. Given(keys, UpdateAnimation(t), t, recorded, [time |-> t, edited |-> {}])
  BY ShowTimeIsGiven
<1>2. CASE autoKeying
  BY <1>1, <1>2, UpdateIsKey DEF ShowTime, Frames!Next
<1>3. CASE ~autoKeying
  <2>1. /\ pose' = UpdateAnimation(t) /\ at' = [time |-> t, edited |-> {}]
        /\ UNCHANGED <<keys, recorded>>
    BY <1>3 DEF ShowTime, Update
  <2> QED BY <2>1, ScrubIsScrub DEF Frames!Next
<1> QED BY <1>2, <1>3

\* Nothing that KeyFrames knows of has changed.
LEMMA Stutter ==
  ASSUME UNCHANGED <<keys, pose, at, recorded>>
  PROVE  UNCHANGED Frames!vars
BY DEF Frames!vars

\* When neither rounding nor the memory before the keys misleads InsertKey, keys are key
\* frames: the timeline's handlers are steps of KeyFrames.
THEOREM ImplementsKeyFrames == ASSUME Exact PROVE Spec => IsKeyFrames
<1>1. Init => Frames!Init
  <2> SUFFICES ASSUME Init PROVE Frames!Init
    OBVIOUS
  <2>1. \A p \in Properties : keys[p] = <<>>
    BY DEF Init
  <2>2. Curve(<<>>) = [t \in {} |-> 0]
    <3>1. {<<>>[i].time : i \in DOMAIN <<>>} = {}
      OBVIOUS
    <3> QED BY <3>1 DEF Curve
  <2>3. Curves(keys) = [p \in Properties |-> [t \in {} |-> 0]]
    BY <2>1, <2>2 DEF Curves
  <2>4. /\ recorded.keys = keys /\ recorded.pose = pose /\ recorded.at = at
        /\ at.time \in Time /\ pose \in [Properties -> Value]
    BY TimeAssumption DEF Init, Pose, Time
  <2> QED BY <2>3, <2>4 DEF Frames!Init, Frames!Present
<1>2. Inv /\ Inv' /\ [Next]_vars => [Frames!Next]_(Frames!vars)
  <2> SUFFICES ASSUME Inv, Inv', [Next]_vars PROVE Frames!Next \/ UNCHANGED Frames!vars
    OBVIOUS
  <2>0. TypeOK /\ \A p \in Properties : Sorted(keys[p]) /\ Sorted(recorded.keys[p])
    BY DEF Inv, KeysSorted
  <2>1. ASSUME NEW t \in Time, SliderCallback(t) PROVE Frames!Next \/ UNCHANGED Frames!vars
    <3>1. CASE isPlaying
      BY <2>1, <3>1, Stutter DEF SliderCallback
    <3>2. CASE ~isPlaying
      BY <2>1, <3>2, ShowTimeIsStep DEF SliderCallback
    <3> QED BY <3>1, <3>2
  <2>2. ASSUME NEW dt \in Ticks, Idle(dt) PROVE Frames!Next \/ UNCHANGED Frames!vars
    BY <2>2, IdleTimes, ShowTimeIsStep
  <2>3. CASE PlayStop
    BY <2>3, Stutter DEF PlayStop
  <2>4. CASE Pause
    BY <2>4, Stutter DEF Pause
  <2>5. ASSUME NEW m \in Lengths, SetLength(m) PROVE Frames!Next \/ UNCHANGED Frames!vars
    BY <2>5, Stutter DEF SetLength
  <2>6. ASSUME NEW p \in Properties, NEW x \in Value, Edit(p, x)
        PROVE  Frames!Next \/ UNCHANGED Frames!vars
    <3> DEFINE v == [pose EXCEPT ![p] = x]
               present == [at EXCEPT !.edited = @ \cup {p}]
               new == [keys |-> keys, pose |-> v, at |-> present]
    <3>1. v \in Pose
      BY <2>0 DEF TypeOK, Pose
    <3>2. present \in At /\ present.time = at.time
      BY <2>0 DEF TypeOK, At
    <3>3. /\ new \in [keys : Keys, pose : Pose, at : At]
          /\ new.keys = keys /\ new.pose = v /\ new.at = present
      BY <2>0, <3>1, <3>2 DEF TypeOK
    <3>4. PICK backup \in {recorded, new} : Update(keys, v, time, backup, present)
      BY <2>6 DEF Edit
    <3> HIDE DEF v, present, new
    <3>5. Given(keys, v, time, backup, present)
      BY <2>0, <3>1, <3>2, <3>3, <3>4 DEF Given, TypeOK
    <3>6. CASE autoKeying
      BY <3>4, <3>5, <3>6, UpdateIsKey DEF Frames!Next
    <3>7. CASE ~autoKeying
      <4>1. keys' = keys /\ pose' = v /\ at' = present /\ recorded' = backup
        BY <3>4, <3>7 DEF Update
      <4>2. CASE backup = recorded
        BY <3>1, <3>2, <4>1, <4>2 DEF Frames!Modify, Frames!Next, Pose
      <4>3. CASE backup = new
        BY <3>1, <3>2, <3>3, <4>1, <4>3 DEF Frames!Modify, Frames!Next, Frames!Present, Pose
      <4> QED BY <3>4, <4>2, <4>3
    <3> QED BY <3>6, <3>7
  <2>7. CASE Touch
    <3>1. Given(keys, pose, time, recorded, at)
      BY <2>0 DEF Given, TypeOK
    <3>2. CASE autoKeying
      BY <2>7, <3>1, <3>2, UpdateIsKey DEF Touch, Frames!Next
    <3>3. CASE ~autoKeying
      BY <2>7, <3>3, Stutter DEF Touch, Update
    <3> QED BY <3>2, <3>3
  <2>8. CASE InsertKeys
    <3> DEFINE once(s) == InsertKeyFrames(keys, pose, slider, s)
    <3>1. PICK s1 \in Strays, s2 \in Strays :
            keys' = IF autoKeying THEN InsertKeyFrames(once(s1), pose, slider, s2) ELSE once(s1)
      BY <2>8 DEF InsertKeys
    <3>2. keys \in Keys /\ pose \in Pose /\ slider \in Time
      BY <2>0 DEF TypeOK
    <3>3. once(s1) \in Keys /\ \A p \in Properties : Sorted(once(s1)[p])
      BY <2>0, <3>2, InsertKeyFramesType
    <3>4. /\ pose' = pose /\ at'.time = slider
          /\ recorded'.keys = keys' /\ recorded'.pose = pose' /\ recorded'.at = at'
      BY <2>8 DEF InsertKeys
    <3>5. ASSUME NEW p \in Properties
          PROVE  /\ Frames!SameBut(Curves(keys')[p], Curves(keys)[p], at'.time)
                 /\ Frames!Sample(Curves(keys')[p], at'.time, pose'[p]) = pose'[p]
      <4>1. /\ Frames!SameBut(Curve(once(s1)[p]), Curve(keys[p]), slider)
            /\ Evaluate(once(s1)[p], slider, pose[p]) = pose[p]
        BY <2>0, <3>2, InsertKeyFramesSameBut, InsertKeyFramesFits
      <4> HIDE DEF once
      <4>2. LET twice == InsertKeyFrames(once(s1), pose, slider, s2)
            IN  /\ Frames!SameBut(Curve(twice[p]), Curve(once(s1)[p]), slider)
                /\ Evaluate(twice[p], slider, pose[p]) = pose[p]
        BY <3>2, <3>3, InsertKeyFramesSameBut, InsertKeyFramesFits
      <4>3. /\ Frames!SameBut(Curve(keys'[p]), Curve(keys[p]), slider)
            /\ Evaluate(keys'[p], slider, pose[p]) = pose[p]
        BY <3>1, <4>1, <4>2, SameButTwice
      <4>4. keys'[p] \in Seq(Key) /\ Sorted(keys'[p])
        BY DEF Inv, TypeOK, Keys, KeysSorted
      <4>5. Frames!Sample(Curve(keys'[p]), slider, pose[p]) = pose[p]
        BY <3>2, <4>3, <4>4, EvaluateSamples
      <4>6. Curves(keys')[p] = Curve(keys'[p]) /\ Curves(keys)[p] = Curve(keys[p])
        BY DEF Curves
      <4> QED BY <3>4, <4>3, <4>5, <4>6
    <3>6. DOMAIN Curves(keys') = Properties
      BY DEF Curves
    <3>7. pose' \in [Properties -> Value] /\ at'.time \in Time
      BY <3>2, <3>4 DEF Pose
    <3> QED BY <3>4, <3>5, <3>6, <3>7 DEF Frames!KeyFrom, Frames!Present, Frames!Next
  <2>9. CASE Reload
    <3>1. Given(recorded.keys, recorded.pose, time, recorded, recorded.at)
      BY <2>0 DEF Given, TypeOK
    <3>2. CASE autoKeying
      <4>1. Frames!KeyFrom(Curves(recorded.keys))
        BY <2>9, <3>1, <3>2, UpdateIsKey DEF Reload
      <4> QED BY <4>1 DEF Frames!Next
    <3>3. CASE ~autoKeying
      <4>1. /\ keys' = recorded.keys /\ pose' = recorded.pose /\ at' = recorded.at
            /\ recorded' = recorded
        BY <2>9, <3>3 DEF Reload, Update
      <4> QED BY <4>1 DEF Frames!Restore, Frames!Present, Frames!Next
    <3> QED BY <3>2, <3>3
  <2>10. CASE ToggleAutoKeying
    BY <2>10, Stutter DEF ToggleAutoKeying
  <2>11. CASE UNCHANGED vars
    BY <2>11, Stutter DEF vars
  <2> QED BY <2>1, <2>2, <2>3, <2>4, <2>5, <2>6, <2>7, <2>8, <2>9, <2>10, <2>11 DEF Next
<1> QED BY <1>1, <1>2, Invariance, PTL DEF Spec, IsKeyFrames, Frames!Spec
=============================================================================

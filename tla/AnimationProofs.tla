-------------------------- MODULE AnimationProofs --------------------------
(***************************************************************************)
(* Theorems about Animation, for any properties, values, interpolation,    *)
(* lengths and ticks.                                                      *)
(***************************************************************************)
EXTENDS Animation, TLAPS, WellFoundedInduction

-----------------------------------------------------------------------------
(* Searching and inserting *)

LEMMA LeastNat ==
  ASSUME NEW T, T \subseteq Nat, T # {}
  PROVE  \E x \in T : \A y \in T : x <= y
<1>1. PICK x \in T : \A y \in T : ~ (<<y, x>> \in OpToRel(<, Nat))
  BY WFMin, NatLessThanWellFounded
<1>2. ASSUME NEW y \in T PROVE x <= y
  <2>1. <<y, x>> \in Nat \X Nat /\ x \in Nat /\ y \in Nat
    OBVIOUS
  <2>2. ~(y < x)
    BY <1>1, <2>1 DEF OpToRel
  <2> QED BY <2>1, <2>2
<1> QED BY <1>2

LEMMA Elements ==
  ASSUME NEW ks \in Seq(Key)
  PROVE  /\ Len(ks) \in Nat
         /\ \A j \in 1 .. Len(ks) : /\ ks[j] \in Key
                                   /\ ks[j].time \in Time /\ ks[j].time \in Nat
                                   /\ ks[j].data \in Value
<1>1. Time \subseteq Nat
  BY TimeAssumption DEF Time
<1>2. \A k \in Key : k.time \in Time /\ k.data \in Value
  BY DEF Key
<1>3. Len(ks) \in Nat /\ \A j \in 1 .. Len(ks) : ks[j] \in Key
  OBVIOUS
<1> QED BY <1>1, <1>2, <1>3

\* What the loop of GetKeyIndex finds.
LEMMA KeyIndex ==
  ASSUME NEW ks \in Seq(Key), NEW t \in Time
  PROVE  /\ GetKeyIndex(ks, t) \in 0 .. Len(ks)
         /\ \A j \in 1 .. GetKeyIndex(ks, t) : ks[j].time <= t
         /\ GetKeyIndex(ks, t) < Len(ks) => ks[GetKeyIndex(ks, t) + 1].time > t
<1> DEFINE Found(i) == /\ \A j \in 1 .. i : ks[j].time <= t
                       /\ i < Len(ks) => ks[i + 1].time > t
           Later == {j \in 1 .. Len(ks) : ks[j].time > t}
<1>1. \E i \in 0 .. Len(ks) : Found(i)
  <2>0. /\ Len(ks) \in Nat /\ t \in Int
        /\ \A j \in 1 .. Len(ks) : ks[j].time \in Int
    BY Elements, TimeAssumption DEF Time
  <2>1. CASE Later = {}
    <3>1. \A j \in 1 .. Len(ks) : ks[j].time <= t
      BY <2>0, <2>1
    <3> QED BY <2>0, <3>1
  <2>2. CASE Later # {}
    <3>1. PICK x \in Later : \A y \in Later : x <= y
      <4>1. Later \subseteq Nat
        OBVIOUS
      <4> QED BY <2>2, <4>1, LeastNat
    <3>2. \A j \in 1 .. x - 1 : ks[j].time <= t
      BY <2>0, <3>1
    <3>3. x - 1 \in 0 .. Len(ks) /\ x - 1 + 1 = x
      BY <2>0
    <3> QED BY <2>0, <3>2, <3>3
  <2> QED BY <2>1, <2>2
<1>2. GetKeyIndex(ks, t) = CHOOSE i \in 0 .. Len(ks) : Found(i)
  BY DEF GetKeyIndex
<1> HIDE DEF Found
<1>3. GetKeyIndex(ks, t) \in 0 .. Len(ks) /\ Found(GetKeyIndex(ks, t))
  BY <1>1, <1>2
<1> QED BY <1>3 DEF Found

\* Nothing else has what it finds.
LEMMA KeyIndexUnique ==
  ASSUME NEW ks \in Seq(Key), NEW t \in Time, NEW i \in 0 .. Len(ks),
         \A j \in 1 .. i : ks[j].time <= t,
         i < Len(ks) => ks[i + 1].time > t
  PROVE  GetKeyIndex(ks, t) = i
<1> DEFINE g == GetKeyIndex(ks, t)
<1>1. /\ g \in 0 .. Len(ks) /\ \A j \in 1 .. g : ks[j].time <= t
      /\ g < Len(ks) => ks[g + 1].time > t
  BY KeyIndex
<1> HIDE DEF g
<1>2. Len(ks) \in Nat /\ t \in Int /\ \A j \in 1 .. Len(ks) : ks[j].time \in Int
  BY Elements, TimeAssumption DEF Time
<1>3. ~(g < i)
  BY <1>1, <1>2
<1>4. ~(i < g)
  BY <1>1, <1>2
<1>5. g = i
  BY <1>1, <1>2, <1>3, <1>4
<1> QED BY <1>5 DEF g

Spliced(ks, i, k) == SubSeq(ks, 1, i) \o << k >> \o SubSeq(ks, i + 1, Len(ks))

\* A sequence with one more element after the first i.
LEMMA Splice ==
  ASSUME NEW ks \in Seq(Key), NEW i \in 0 .. Len(ks), NEW k \in Key
  PROVE  /\ Spliced(ks, i, k) \in Seq(Key)
         /\ Len(Spliced(ks, i, k)) = Len(ks) + 1
         /\ \A j \in 1 .. i : Spliced(ks, i, k)[j] = ks[j]
         /\ Spliced(ks, i, k)[i + 1] = k
         /\ \A j \in i + 2 .. Len(ks) + 1 : Spliced(ks, i, k)[j] = ks[j - 1]
<1> DEFINE a == SubSeq(ks, 1, i)
           b == SubSeq(ks, i + 1, Len(ks))
<1>1. a \in Seq(Key) /\ Len(a) = i /\ \A j \in 1 .. i : a[j] = ks[j]
  OBVIOUS
<1>2. b \in Seq(Key) /\ Len(b) = Len(ks) - i /\ \A j \in 1 .. Len(ks) - i : b[j] = ks[i + j]
  OBVIOUS
<1>3. Spliced(ks, i, k) = (a \o <<k>>) \o b
  BY DEF Spliced
<1> HIDE DEF a, b
<1>4. /\ a \o <<k>> \in Seq(Key) /\ Len(a \o <<k>>) = i + 1
      /\ \A j \in 1 .. i : (a \o <<k>>)[j] = ks[j]
      /\ (a \o <<k>>)[i + 1] = k
  BY <1>1
<1> DEFINE c == a \o <<k>>
<1>5. c \in Seq(Key) /\ Len(c) = i + 1 /\ c[i + 1] = k /\ \A j \in 1 .. i : c[j] = ks[j]
  BY <1>4
<1> HIDE DEF c
<1>6. /\ c \o b \in Seq(Key) /\ Len(c \o b) = Len(ks) + 1
      /\ \A j \in 1 .. i + 1 : (c \o b)[j] = c[j]
      /\ \A j \in i + 2 .. Len(ks) + 1 : (c \o b)[j] = b[j - i - 1]
  BY <1>2, <1>5
<1>7. \A j \in i + 2 .. Len(ks) + 1 : b[j - i - 1] = ks[j - 1]
  <2> TAKE j \in i + 2 .. Len(ks) + 1
  <2>1. j - i - 1 \in 1 .. Len(ks) - i /\ i + (j - i - 1) = j - 1
    OBVIOUS
  <2> QED BY <1>2, <2>1
<1>8. \A j \in 1 .. i : (c \o b)[j] = ks[j]
  BY <1>5, <1>6
<1>9. (c \o b)[i + 1] = k
  BY <1>5, <1>6
<1>10. Spliced(ks, i, k) = c \o b
  BY <1>3 DEF c
<1> QED BY <1>6, <1>7, <1>8, <1>9, <1>10
\* InsertKey keeps the keys in order, whatever it takes for the same time.
LEMMA InsertKeySorts ==
  ASSUME NEW ks \in Seq(Key), Sorted(ks), NEW v \in Value, NEW t \in Time,
         NEW stray \in BOOLEAN
  PROVE  InsertKey(ks, v, t, stray) \in Seq(Key) /\ Sorted(InsertKey(ks, v, t, stray))
<1> DEFINE i == GetKeyIndex(ks, t)
           k == [time |-> t, data |-> v]
<1>1. /\ i \in 0 .. Len(ks) /\ \A j \in 1 .. i : ks[j].time <= t
      /\ i < Len(ks) => ks[i + 1].time > t
  BY KeyIndex
<1>2. k \in Key /\ k.time = t /\ t \in Nat
  BY TimeAssumption DEF Key, Time
<1>3. Len(ks) \in Nat /\ \A j \in 1 .. Len(ks) : ks[j] \in Key /\ ks[j].time \in Nat
  BY Elements
<1>4. \A j, l \in 1 .. Len(ks) : j < l => ks[j].time < ks[l].time
  BY DEF Sorted
<1>5. CASE ks # <<>> /\ SameTime(ks, i, t, stray) /\ i = 0
  BY <1>5 DEF InsertKey
<1>6. CASE ks # <<>> /\ SameTime(ks, i, t, stray) /\ i # 0
  <2> DEFINE n == [ks EXCEPT ![i].data = v]
  <2>1. i \in 1 .. Len(ks)
    BY <1>1, <1>3, <1>6
  <2>2. n \in Seq(Key) /\ Len(n) = Len(ks)
    BY <1>3, <2>1 DEF Key
  <2>3. \A j \in 1 .. Len(ks) : n[j].time = ks[j].time
    BY <1>3, <2>1 DEF Key
  <2>4. InsertKey(ks, v, t, stray) = n
    BY <1>6 DEF InsertKey
  <2> HIDE DEF n
  <2>5. Sorted(n)
    BY <1>4, <2>2, <2>3 DEF Sorted
  <2> QED BY <2>2, <2>4, <2>5
<1>7. CASE ~(ks # <<>> /\ SameTime(ks, i, t, stray))
  <2> DEFINE n == Spliced(ks, i, k)
  <2>1. InsertKey(ks, v, t, stray) = n
    BY <1>7 DEF InsertKey, Spliced
  <2>2. /\ n \in Seq(Key) /\ Len(n) = Len(ks) + 1
        /\ \A j \in 1 .. i : n[j] = ks[j]
        /\ n[i + 1] = k
        /\ \A j \in i + 2 .. Len(ks) + 1 : n[j] = ks[j - 1]
    BY <1>1, <1>2, Splice
  <2>3. \A j \in 1 .. i : ks[j].time < t
    <3> TAKE j \in 1 .. i
    <3>1. i \in 1 .. Len(ks) /\ j \in 1 .. Len(ks) /\ ks # <<>>
      BY <1>1, <1>3
    <3>2. ks[i].time # t
      BY <1>7, <3>1 DEF SameTime
    <3>3. ks[i].time < t
      BY <1>1, <1>2, <1>3, <3>1, <3>2
    <3>4. ks[j].time <= ks[i].time
      BY <1>3, <1>4, <3>1
    <3> QED BY <1>2, <1>3, <3>1, <3>3, <3>4
  <2>4. \A j \in i + 1 .. Len(ks) : ks[j].time > t
    <3> TAKE j \in i + 1 .. Len(ks)
    <3>1. i + 1 \in 1 .. Len(ks) /\ j \in 1 .. Len(ks) /\ i < Len(ks)
      BY <1>1, <1>3
    <3>2. ks[i + 1].time <= ks[j].time
      BY <1>3, <1>4, <3>1
    <3> QED BY <1>1, <1>2, <1>3, <3>1, <3>2
  <2> HIDE DEF n
  <2>5. ASSUME NEW j \in 1 .. Len(ks) + 1, NEW l \in 1 .. Len(ks) + 1, j < l
        PROVE  n[j].time < n[l].time
    <3>1. CASE l <= i
      BY <1>1, <1>3, <1>4, <2>2, <2>5, <3>1
    <3>2. CASE l = i + 1
      BY <1>1, <1>2, <1>3, <2>2, <2>3, <2>5, <3>2
    <3>3. CASE l > i + 1 /\ j <= i
      <4>1. n[l] = ks[l - 1] /\ l - 1 \in i + 1 .. Len(ks)
        BY <1>1, <1>3, <2>2, <3>3
      <4>2. n[j] = ks[j] /\ ks[j].time < t
        BY <1>1, <1>3, <2>2, <2>3, <3>3
      <4>3. j \in 1 .. Len(ks) /\ l - 1 \in 1 .. Len(ks)
        BY <1>1, <1>3, <3>3, <4>1
      <4>4. ks[l - 1].time > t
        BY <2>4, <4>1
      <4> QED BY <1>2, <1>3, <4>1, <4>2, <4>3, <4>4
    <3>4. CASE l > i + 1 /\ j = i + 1
      <4>1. n[l] = ks[l - 1] /\ l - 1 \in i + 1 .. Len(ks)
        BY <1>1, <1>3, <2>2, <3>4
      <4> QED BY <1>1, <1>2, <1>3, <2>2, <2>4, <3>4, <4>1
    <3>5. CASE l > i + 1 /\ j > i + 1
      <4>1. n[l] = ks[l - 1] /\ l - 1 \in 1 .. Len(ks)
        BY <1>1, <1>3, <2>2, <3>5
      <4>2. n[j] = ks[j - 1] /\ j - 1 \in 1 .. Len(ks) /\ j - 1 < l - 1
        BY <1>1, <1>3, <2>2, <2>5, <3>5
      <4> QED BY <1>4, <4>1, <4>2
    <3> QED BY <1>1, <1>3, <3>1, <3>2, <3>3, <3>4, <3>5
  <2>6. Sorted(n)
    BY <2>2, <2>5 DEF Sorted
  <2> QED BY <2>1, <2>2, <2>6
<1> QED BY <1>5, <1>6, <1>7

\* Evaluate answers a value, and v only where there are no keys.
LEMMA EvaluateType ==
  ASSUME NEW ks \in Seq(Key), NEW v \in Value, NEW t \in Time
  PROVE  /\ Evaluate(ks, t, v) \in Value
         /\ Evaluate(ks, t, Evaluate(ks, t, v)) = Evaluate(ks, t, v)
<1> DEFINE i == GetKeyIndex(ks, t)
<1>1. /\ i \in 0 .. Len(ks) /\ \A j \in 1 .. i : ks[j].time <= t
      /\ i < Len(ks) => ks[i + 1].time > t
  BY KeyIndex
<1>2. /\ Len(ks) \in Nat /\ \A j \in 1 .. Len(ks) : ks[j].time \in Time
      /\ \A j \in 1 .. Len(ks) : ks[j].data \in Value
  BY Elements
<1>3. ks # <<>> => Len(ks) # 0
  BY <1>2
<1>4. CASE ks = <<>>
  BY <1>4 DEF Evaluate
<1>5. CASE ks # <<>> /\ i = 0
  <2>1. \A w : Evaluate(ks, t, w) = ks[1].data
    BY <1>5 DEF Evaluate
  <2> QED BY <1>2, <1>3, <1>5, <2>1
<1>6. CASE ks # <<>> /\ i # 0 /\ i < Len(ks)
  <2>1. \A w : Evaluate(ks, t, w) = LinearInterp(ks[i].data, ks[i].time,
                                        ks[i + 1].data, ks[i + 1].time, t)
    BY <1>6 DEF Evaluate, NumKeys
  <2>2. i \in 1 .. Len(ks) /\ i + 1 \in 1 .. Len(ks)
    BY <1>1, <1>2, <1>6
  <2>3. \A x \in Time : x \in Int
    BY TimeAssumption DEF Time
  <2>4. ks[i].time <= t /\ t < ks[i + 1].time
    BY <1>1, <1>2, <1>6, <2>2, <2>3
  <2>5. LinearInterp(ks[i].data, ks[i].time, ks[i + 1].data, ks[i + 1].time, t) \in Value
    BY <1>2, <2>2, <2>4, InterpAssumption
  <2> QED BY <2>1, <2>5
<1>7. CASE ks # <<>> /\ i # 0 /\ ~(i < Len(ks))
  <2>1. \A w : Evaluate(ks, t, w) = ks[i].data
    BY <1>7 DEF Evaluate, NumKeys
  <2> QED BY <1>1, <1>2, <1>7, <2>1
<1> QED BY <1>4, <1>5, <1>6, <1>7

LEMMA InsertKeyFramesType ==
  ASSUME NEW k \in Keys, NEW v \in Pose, NEW t \in Time, NEW strays \in Strays,
         \A p \in Properties : Sorted(k[p])
  PROVE  /\ InsertKeyFrames(k, v, t, strays) \in Keys
         /\ \A p \in Properties : Sorted(InsertKeyFrames(k, v, t, strays)[p])
<1>1. ASSUME NEW p \in Properties
      PROVE  /\ InsertKeyFrames(k, v, t, strays)[p] \in Seq(Key)
             /\ Sorted(InsertKeyFrames(k, v, t, strays)[p])
  <2>1. k[p] \in Seq(Key) /\ v[p] \in Value /\ (p \in strays) \in BOOLEAN /\ Sorted(k[p])
    BY DEF Keys, Pose
  <2>2. /\ InsertKey(k[p], v[p], t, p \in strays) \in Seq(Key)
        /\ Sorted(InsertKey(k[p], v[p], t, p \in strays))
    BY <2>1, InsertKeySorts
  <2>3. InsertKeyFrames(k, v, t, strays)[p]
          = IF IsEdited(k[p], v[p], t) THEN InsertKey(k[p], v[p], t, p \in strays) ELSE k[p]
    BY DEF InsertKeyFrames
  <2> QED BY <2>1, <2>2, <2>3
<1>2. InsertKeyFrames(k, v, t, strays)
        = [p \in Properties |-> InsertKeyFrames(k, v, t, strays)[p]]
  BY DEF InsertKeyFrames
<1> QED BY <1>1, <1>2 DEF Keys

-----------------------------------------------------------------------------
(* Types and order *)

Inv == TypeOK /\ KeysSorted

\* What Update needs: the keys, the pose, the time and the backup it is given are in order.
Given(k, v, now, backup, present) ==
  /\ k \in Keys /\ v \in Pose /\ now \in Time /\ present \in At
  /\ backup \in [keys : Keys, pose : Pose, at : At]
  /\ \A p \in Properties : Sorted(k[p]) /\ Sorted(backup.keys[p])

LEMMA UpdateKeepsInv ==
  ASSUME Inv, NEW k, NEW v, NEW now, NEW backup, NEW present,
         Given(k, v, now, backup, present), Update(k, v, now, backup, present),
         slider' \in Time, UNCHANGED <<maximum, isPlaying, autoKeying>>
  PROVE  Inv'
<1>1. pose' = v /\ maximum' \in Time /\ isPlaying' \in BOOLEAN /\ autoKeying' \in BOOLEAN
  BY DEF Inv, TypeOK, Update
<1>2. k \in Keys /\ v \in Pose /\ now \in Time /\ \A p \in Properties : Sorted(k[p])
  BY DEF Given
<1>3. CASE autoKeying
  <2>1. PICK strays \in Strays : keys' = InsertKeyFrames(k, v, slider', strays)
    BY <1>3 DEF Update
  <2>2. keys' \in Keys /\ \A p \in Properties : Sorted(keys'[p])
    BY <1>2, <2>1, InsertKeyFramesType
  <2>3. /\ time' = slider' /\ at' = [time |-> slider', edited |-> {}]
        /\ recorded' = [keys |-> keys', pose |-> v, at |-> at']
    BY <1>3 DEF Update
  <2>4. at' \in At
    BY <2>3 DEF At
  <2>5. recorded' \in [keys : Keys, pose : Pose, at : At] /\ recorded'.keys = keys'
    BY <1>2, <2>2, <2>3, <2>4
  <2> QED BY <1>1, <1>2, <2>2, <2>3, <2>4, <2>5 DEF Inv, TypeOK, KeysSorted
<1>4. CASE ~autoKeying
  <2>1. keys' = k /\ at' = present /\ recorded' = backup /\ time' = now
    BY <1>4 DEF Update
  <2> QED BY <1>1, <1>2, <2>1 DEF Inv, TypeOK, KeysSorted, Given
<1> QED BY <1>3, <1>4

LEMMA UpdateAnimationType ==
  ASSUME Inv, NEW t \in Time
  PROVE  UpdateAnimation(t) \in Pose
<1>1. \A p \in Properties : keys[p] \in Seq(Key) /\ pose[p] \in Value
  BY DEF Inv, TypeOK, Keys, Pose
<1>2. \A p \in Properties : Evaluate(keys[p], t, pose[p]) \in Value
  BY <1>1, EvaluateType
<1> QED BY <1>2 DEF UpdateAnimation, Pose

\* ShowTime gives Update what it needs.
LEMMA ShowTimeIsGiven ==
  ASSUME Inv, NEW t \in Time
  PROVE  Given(keys, UpdateAnimation(t), t, recorded, [time |-> t, edited |-> {}])
<1>1. UpdateAnimation(t) \in Pose /\ [time |-> t, edited |-> {}] \in At
  BY UpdateAnimationType DEF At
<1> QED BY <1>1 DEF Given, Inv, TypeOK, KeysSorted

LEMMA IdleTimes ==
  ASSUME Inv, NEW dt \in Ticks, Idle(dt)
  PROVE  \E t \in Time : ShowTime(t) /\ (time + dt <= maximum => slider' = t)
<1>1. 0 \in Time /\ time + dt \in Time
  BY TimeAssumption DEF Idle, Time
<1>2. CASE time + dt > maximum
  <2>1. ShowTime(0)
    BY <1>2 DEF Idle
  <2>2. ~(time + dt <= maximum)
    BY <1>1, <1>2, TimeAssumption DEF Inv, TypeOK, Time
  <2> QED BY <1>1, <2>1, <2>2
<1>3. CASE ~(time + dt > maximum)
  BY <1>1, <1>3 DEF Idle
<1> QED BY <1>2, <1>3

\* Types are kept and keys stay in the order of their times, for any behaviour of the
\* memory before the keys and any rounding (InsertKey, GetKeyIndex).
THEOREM Invariance == Spec => []Inv
<1>1. Init => Inv
  <2> SUFFICES ASSUME Init PROVE Inv
    OBVIOUS
  <2>1. keys \in Keys /\ \A p \in Properties : keys[p] = <<>>
    BY DEF Init, Keys
  <2>2. 0 \in Time /\ maximum \in Time
    BY TimeAssumption, LengthAssumption DEF Init, Time
  <2>3. at \in At /\ pose \in Pose
    BY <2>2 DEF Init, At
  <2>4. recorded \in [keys : Keys, pose : Pose, at : At] /\ recorded.keys = keys
    BY <2>1, <2>3 DEF Init
  <2>5. Sorted(<<>>)
    BY DEF Sorted
  <2>6. KeysSorted
    BY <2>1, <2>4, <2>5 DEF KeysSorted
  <2> QED BY <2>1, <2>2, <2>3, <2>4, <2>6 DEF Init, Inv, TypeOK
<1>2. Inv /\ [Next]_vars => Inv'
  <2> SUFFICES ASSUME Inv, [Next]_vars PROVE Inv'
    OBVIOUS
  <2>0. TypeOK /\ KeysSorted /\ \A p \in Properties : Sorted(keys[p]) /\ Sorted(recorded.keys[p])
    BY DEF Inv, KeysSorted
  <2>1. ASSUME NEW t \in Time, SliderCallback(t) PROVE Inv'
    <3>1. UNCHANGED <<maximum, isPlaying, autoKeying>> /\ slider' \in Time
      BY <2>1 DEF SliderCallback
    <3>2. CASE isPlaying
      <4>1. UNCHANGED <<keys, pose, time, recorded, at>>
        BY <2>1, <3>2 DEF SliderCallback
      <4> QED BY <2>0, <3>1, <4>1 DEF Inv, TypeOK, KeysSorted
    <3>3. CASE ~isPlaying
      <4>1. ShowTime(t)
        BY <2>1, <3>3 DEF SliderCallback
      <4> QED BY <3>1, <4>1, ShowTimeIsGiven, UpdateKeepsInv DEF ShowTime
    <3> QED BY <3>2, <3>3
  <2>2. ASSUME NEW dt \in Ticks, Idle(dt) PROVE Inv'
    <3>1. UNCHANGED <<maximum, isPlaying, autoKeying>> /\ slider' \in Time
      BY <2>2 DEF Idle
    <3>2. PICK t \in Time : ShowTime(t)
      BY <2>2, IdleTimes
    <3> QED BY <3>1, <3>2, ShowTimeIsGiven, UpdateKeepsInv DEF ShowTime
  <2>3. CASE PlayStop
    <3>1. 0 \in Time
      BY TimeAssumption DEF Time
    <3> QED BY <2>0, <2>3, <3>1 DEF PlayStop, Inv, TypeOK, KeysSorted
  <2>4. CASE Pause
    BY <2>0, <2>4 DEF Pause, Inv, TypeOK, KeysSorted
  <2>5. ASSUME NEW m \in Lengths, SetLength(m) PROVE Inv'
    BY <2>0, <2>5, LengthAssumption DEF SetLength, Inv, TypeOK, KeysSorted
  <2>6. ASSUME NEW p \in Properties, NEW x \in Value, Edit(p, x) PROVE Inv'
    <3> DEFINE v == [pose EXCEPT ![p] = x]
               present == [at EXCEPT !.edited = @ \cup {p}]
               new == [keys |-> keys, pose |-> v, at |-> present]
    <3>1. v \in Pose
      BY <2>0 DEF TypeOK, Pose
    <3>2. present \in At
      BY <2>0 DEF TypeOK, At
    <3>3. new \in [keys : Keys, pose : Pose, at : At] /\ new.keys = keys
      BY <2>0, <3>1, <3>2 DEF TypeOK
    <3>4. PICK backup \in {recorded, new} : Update(keys, v, time, backup, present)
      BY <2>6 DEF Edit
    <3>5. slider' \in Time /\ UNCHANGED <<maximum, isPlaying, autoKeying>>
      BY <2>0, <2>6 DEF Edit, TypeOK
    <3> HIDE DEF v, present, new
    <3>6. Given(keys, v, time, backup, present)
      BY <2>0, <3>1, <3>2, <3>3, <3>4 DEF Given, TypeOK
    <3> QED BY <3>4, <3>5, <3>6, UpdateKeepsInv
  <2>7. CASE Touch
    <3>1. Given(keys, pose, time, recorded, at)
      BY <2>0 DEF Given, TypeOK
    <3> QED BY <2>0, <2>7, <3>1, UpdateKeepsInv DEF Touch, TypeOK
  <2>8. CASE InsertKeys
    <3> DEFINE once(s) == InsertKeyFrames(keys, pose, slider, s)
    <3>1. PICK s1 \in Strays, s2 \in Strays :
            keys' = IF autoKeying THEN InsertKeyFrames(once(s1), pose, slider, s2) ELSE once(s1)
      BY <2>8 DEF InsertKeys
    <3>2. keys \in Keys /\ pose \in Pose /\ slider \in Time
      BY <2>0 DEF TypeOK
    <3>3. once(s1) \in Keys /\ \A p \in Properties : Sorted(once(s1)[p])
      BY <2>0, <3>2, InsertKeyFramesType
    <3> HIDE DEF once
    <3>4. /\ InsertKeyFrames(once(s1), pose, slider, s2) \in Keys
          /\ \A p \in Properties : Sorted(InsertKeyFrames(once(s1), pose, slider, s2)[p])
      BY <3>2, <3>3, InsertKeyFramesType
    <3>5. keys' \in Keys /\ \A p \in Properties : Sorted(keys'[p])
      BY <3>1, <3>3, <3>4
    <3>6. /\ time' = slider /\ at' = [time |-> slider, edited |-> {}]
          /\ recorded' = [keys |-> keys', pose |-> pose, at |-> at']
          /\ UNCHANGED <<pose, slider, maximum, isPlaying, autoKeying>>
      BY <2>8 DEF InsertKeys
    <3>7. at' \in At
      BY <3>2, <3>6 DEF At
    <3>8. recorded' \in [keys : Keys, pose : Pose, at : At] /\ recorded'.keys = keys'
      BY <3>2, <3>5, <3>6, <3>7
    <3> QED BY <2>0, <3>2, <3>5, <3>6, <3>7, <3>8 DEF Inv, TypeOK, KeysSorted
  <2>9. CASE Reload
    <3>1. Given(recorded.keys, recorded.pose, time, recorded, recorded.at)
      BY <2>0 DEF Given, TypeOK
    <3> QED BY <2>0, <2>9, <3>1, UpdateKeepsInv DEF Reload, TypeOK
  <2>10. CASE ToggleAutoKeying
    BY <2>0, <2>10 DEF ToggleAutoKeying, Inv, TypeOK, KeysSorted
  <2>11. CASE UNCHANGED vars
    BY <2>0, <2>11 DEF vars, Inv, TypeOK, KeysSorted
  <2> QED BY <2>1, <2>2, <2>3, <2>4, <2>5, <2>6, <2>7, <2>8, <2>9, <2>10, <2>11 DEF Next
<1> QED BY <1>1, <1>2, PTL DEF Spec

\* Every variable keeps its type.
THEOREM TypeCorrect == Spec => []TypeOK
<1>1. Inv => TypeOK
  BY DEF Inv
<1> QED BY <1>1, Invariance, PTL

\* Keys are always in the order of their times, no two at one time.
THEOREM KeysStaySorted == Spec => []KeysSorted
<1>1. Inv => KeysSorted
  BY DEF Inv
<1> QED BY <1>1, Invariance, PTL
-----------------------------------------------------------------------------
(* The pose and the animation *)

\* At the time of a key the animation has the key's value.
LEMMA EvaluateAtKey ==
  ASSUME NEW ks \in Seq(Key), Sorted(ks), NEW i \in 1 .. Len(ks), NEW v
  PROVE  Evaluate(ks, ks[i].time, v) = ks[i].data
<1> DEFINE t == ks[i].time
<1>1. /\ Len(ks) \in Nat
      /\ \A j \in 1 .. Len(ks) : /\ ks[j].time \in Time /\ ks[j].time \in Nat
                                /\ ks[j].data \in Value
  BY Elements
<1>2. \A j, l \in 1 .. Len(ks) : j < l => ks[j].time < ks[l].time
  BY DEF Sorted
<1>3. t \in Time /\ i \in 0 .. Len(ks)
  BY <1>1
<1>4. \A j \in 1 .. i : ks[j].time <= t
  <2> TAKE j \in 1 .. i
  <2>1. j \in 1 .. Len(ks) /\ (j = i \/ j < i)
    BY <1>1
  <2> QED BY <1>1, <1>2, <2>1
<1>5. i < Len(ks) => ks[i + 1].time > t
  BY <1>1, <1>2
<1>6. GetKeyIndex(ks, t) = i
  BY <1>3, <1>4, <1>5, KeyIndexUnique
<1>7. ks # <<>> /\ i # 0
  BY <1>1
<1>8. CASE i < Len(ks)
  <2>1. i + 1 \in 1 .. Len(ks)
    BY <1>1, <1>8
  <2>2. LinearInterp(ks[i].data, t, ks[i + 1].data, ks[i + 1].time, t) = ks[i].data
    BY <1>1, <1>5, <1>8, <2>1, InterpAssumption
  <2> QED BY <1>6, <1>7, <1>8, <2>2 DEF Evaluate, NumKeys
<1>9. CASE ~(i < Len(ks))
  BY <1>6, <1>7, <1>9 DEF Evaluate, NumKeys
<1> QED BY <1>8, <1>9

\* After InsertKey there is a key at its time, with its value, unless a stray key or
\* rounding misled it.
LEMMA InsertKeyInserts ==
  ASSUME NEW ks \in Seq(Key), NEW v \in Value, NEW t \in Time, Rounded = {}
  PROVE  \E i \in 1 .. Len(InsertKey(ks, v, t, FALSE)) :
           InsertKey(ks, v, t, FALSE)[i] = [time |-> t, data |-> v]
<1> DEFINE i == GetKeyIndex(ks, t)
           k == [time |-> t, data |-> v]
           n == InsertKey(ks, v, t, FALSE)
<1>1. i \in 0 .. Len(ks)
  BY KeyIndex
<1>2. k \in Key
  BY DEF Key
<1>3. Len(ks) \in Nat /\ \A j \in 1 .. Len(ks) : ks[j] \in Key
  BY Elements
<1>4. CASE ks # <<>> /\ SameTime(ks, i, t, FALSE)
  <2>1. i # 0 /\ ks[i].time = t
    BY <1>4 DEF SameTime
  <2>2. n = [ks EXCEPT ![i].data = v] /\ i \in 1 .. Len(ks)
    BY <1>1, <1>3, <1>4, <2>1 DEF InsertKey
  <2> DEFINE e == [ks EXCEPT ![i].data = v]
  <2>3. e \in Seq(Key) /\ Len(e) = Len(ks)
    BY <1>3, <2>2 DEF Key
  <2>4. e[i].time = ks[i].time /\ e[i].data = v /\ e[i] \in Key
    BY <1>3, <2>2 DEF Key
  <2> HIDE DEF e
  <2>5. e[i] = k
    BY <2>1, <2>4 DEF Key
  <2>6. n = e /\ Len(n) = Len(ks)
    BY <2>2, <2>3 DEF e
  <2> QED BY <2>2, <2>5, <2>6
<1>5. CASE ~(ks # <<>> /\ SameTime(ks, i, t, FALSE))
  <2>1. n = Spliced(ks, i, k)
    BY <1>5 DEF InsertKey, Spliced
  <2>2. Len(Spliced(ks, i, k)) = Len(ks) + 1 /\ Spliced(ks, i, k)[i + 1] = k
    BY <1>1, <1>2, Splice
  <2>3. i + 1 \in 1 .. Len(ks) + 1
    BY <1>1, <1>3
  <2> QED BY <2>1, <2>2, <2>3
<1> QED BY <1>4, <1>5

Exact == Rounded = {} /\ ~StrayKey

\* So the animation goes through the pose afterwards.
LEMMA InsertKeyFramesFits ==
  ASSUME Exact, NEW k \in Keys, NEW v \in Pose, NEW t \in Time, NEW strays \in Strays,
         NEW p \in Properties, Sorted(k[p])
  PROVE  Evaluate(InsertKeyFrames(k, v, t, strays)[p], t, v[p]) = v[p]
<1>1. k[p] \in Seq(Key) /\ v[p] \in Value /\ (p \in strays) = FALSE
  BY DEF Keys, Pose, Strays, Exact
<1> DEFINE n == InsertKey(k[p], v[p], t, FALSE)
<1>2. InsertKeyFrames(k, v, t, strays)[p] = IF IsEdited(k[p], v[p], t) THEN n ELSE k[p]
  BY <1>1 DEF InsertKeyFrames
<1>3. CASE IsEdited(k[p], v[p], t)
  <2>1. n \in Seq(Key) /\ Sorted(n)
    BY <1>1, InsertKeySorts
  <2>2. PICK i \in 1 .. Len(n) : n[i] = [time |-> t, data |-> v[p]]
    BY <1>1, InsertKeyInserts DEF Exact
  <2>3. Evaluate(n, n[i].time, v[p]) = n[i].data
    BY <2>1, EvaluateAtKey
  <2> HIDE DEF n
  <2>4. n[i].time = t /\ n[i].data = v[p]
    BY <2>2
  <2>5. Evaluate(n, t, v[p]) = v[p]
    BY <2>3, <2>4
  <2> QED BY <1>2, <1>3, <2>5
<1>4. CASE ~IsEdited(k[p], v[p], t)
  BY <1>2, <1>4 DEF IsEdited
<1> QED BY <1>3, <1>4

\* What PoseIsAnimated says of any keys, pose and time.
Animated(k, v, a) ==
  \A p \in Properties \ a.edited : Evaluate(k[p], a.time, v[p]) = v[p]

AnimatedInv ==
  /\ Animated(keys, pose, at)
  /\ Animated(recorded.keys, recorded.pose, recorded.at)

LEMMA UpdateKeepsAnimated ==
  ASSUME Exact, NEW k, NEW v, NEW now, NEW backup, NEW present,
         Given(k, v, now, backup, present), slider' \in Time,
         Animated(k, v, present), Animated(backup.keys, backup.pose, backup.at),
         Update(k, v, now, backup, present)
  PROVE  AnimatedInv'
<1>1. k \in Keys /\ v \in Pose /\ \A p \in Properties : Sorted(k[p])
  BY DEF Given
<1>2. CASE autoKeying
  <2>1. PICK strays \in Strays : keys' = InsertKeyFrames(k, v, slider', strays)
    BY <1>2 DEF Update
  <2>2. \A p \in Properties : Evaluate(keys'[p], slider', v[p]) = v[p]
    BY <1>1, <2>1, InsertKeyFramesFits
  <2>3. /\ pose' = v /\ at' = [time |-> slider', edited |-> {}]
        /\ recorded' = [keys |-> keys', pose |-> v, at |-> at']
    BY <1>2 DEF Update
  <2>4. at'.time = slider' /\ recorded'.keys = keys' /\ recorded'.pose = v /\ recorded'.at = at'
    BY <2>3
  <2> QED BY <2>2, <2>3, <2>4 DEF AnimatedInv, Animated
<1>3. CASE ~autoKeying
  <2>1. keys' = k /\ pose' = v /\ at' = present /\ recorded' = backup
    BY <1>3 DEF Update
  <2> QED BY <2>1 DEF AnimatedInv, Animated
<1> QED BY <1>2, <1>3

LEMMA ShowTimeKeepsAnimated ==
  ASSUME Exact, Inv, AnimatedInv, NEW t \in Time, ShowTime(t), slider' \in Time
  PROVE  AnimatedInv'
<1> DEFINE v == UpdateAnimation(t)
           present == [time |-> t, edited |-> {}]
<1>1. Given(keys, v, t, recorded, present)
  BY ShowTimeIsGiven
<1>2. \A p \in Properties : keys[p] \in Seq(Key) /\ pose[p] \in Value
  BY DEF Inv, TypeOK, Keys, Pose
<1>3. \A p \in Properties : v[p] = Evaluate(keys[p], t, pose[p])
  BY DEF UpdateAnimation
<1>4. \A p \in Properties :
        Evaluate(keys[p], t, Evaluate(keys[p], t, pose[p])) = Evaluate(keys[p], t, pose[p])
  BY <1>2, EvaluateType
<1>5. Animated(keys, v, present)
  BY <1>3, <1>4 DEF Animated
<1>6. Update(keys, v, t, recorded, present)
  BY DEF ShowTime
<1>7. Animated(recorded.keys, recorded.pose, recorded.at)
  BY DEF AnimatedInv
<1> HIDE DEF v, present
<1> QED BY <1>1, <1>5, <1>6, <1>7, UpdateKeepsAnimated

\* When neither rounding nor what lies before the keys misleads InsertKey, the pose is
\* the animation's at the time it belongs to, in the editor and in the backup.
THEOREM PoseStaysAnimated == ASSUME Exact PROVE Spec => []PoseIsAnimated
<1>1. Init => AnimatedInv
  <2> SUFFICES ASSUME Init PROVE AnimatedInv
    OBVIOUS
  <2>1. \A p \in Properties : Evaluate(keys[p], 0, pose[p]) = pose[p]
    BY DEF Init, Evaluate
  <2>2. at.time = 0 /\ recorded.keys = keys /\ recorded.pose = pose /\ recorded.at = at
    BY DEF Init
  <2> QED BY <2>1, <2>2 DEF AnimatedInv, Animated
<1>2. Inv /\ AnimatedInv /\ [Next]_vars => AnimatedInv'
  <2> SUFFICES ASSUME Inv, AnimatedInv, [Next]_vars PROVE AnimatedInv'
    OBVIOUS
  <2>0. TypeOK /\ \A p \in Properties : Sorted(keys[p]) /\ Sorted(recorded.keys[p])
    BY DEF Inv, KeysSorted
  <2>1. ASSUME NEW t \in Time, SliderCallback(t) PROVE AnimatedInv'
    <3>1. CASE isPlaying
      BY <2>1, <3>1 DEF SliderCallback, AnimatedInv, Animated
    <3>2. CASE ~isPlaying
      BY <2>1, <3>2, ShowTimeKeepsAnimated DEF SliderCallback
    <3> QED BY <3>1, <3>2
  <2>2. ASSUME NEW dt \in Ticks, Idle(dt) PROVE AnimatedInv'
    <3>1. PICK t \in Time : ShowTime(t)
      BY <2>2, IdleTimes
    <3> QED BY <2>2, <3>1, ShowTimeKeepsAnimated DEF Idle
  <2>3. CASE PlayStop
    BY <2>3 DEF PlayStop, AnimatedInv, Animated
  <2>4. CASE Pause
    BY <2>4 DEF Pause, AnimatedInv, Animated
  <2>5. ASSUME NEW m \in Lengths, SetLength(m) PROVE AnimatedInv'
    BY <2>5 DEF SetLength, AnimatedInv, Animated
  <2>6. ASSUME NEW p \in Properties, NEW x \in Value, Edit(p, x) PROVE AnimatedInv'
    <3> DEFINE v == [pose EXCEPT ![p] = x]
               present == [at EXCEPT !.edited = @ \cup {p}]
               new == [keys |-> keys, pose |-> v, at |-> present]
    <3>1. v \in Pose /\ \A q \in Properties \ {p} : v[q] = pose[q]
      BY <2>0 DEF TypeOK, Pose
    <3>2. present \in At /\ present.time = at.time /\ present.edited = at.edited \cup {p}
      BY <2>0 DEF TypeOK, At
    <3>3. /\ new \in [keys : Keys, pose : Pose, at : At]
          /\ new.keys = keys /\ new.pose = v /\ new.at = present
      BY <2>0, <3>1, <3>2 DEF TypeOK
    <3>4. PICK backup \in {recorded, new} : Update(keys, v, time, backup, present)
      BY <2>6 DEF Edit
    <3> HIDE DEF v, present, new
    <3>5. Given(keys, v, time, backup, present)
      BY <2>0, <3>1, <3>2, <3>3, <3>4 DEF Given, TypeOK
    <3>6. Animated(keys, v, present)
      BY <3>1, <3>2 DEF AnimatedInv, Animated
    <3>7. Animated(backup.keys, backup.pose, backup.at)
      BY <3>3, <3>4, <3>6 DEF AnimatedInv
    <3>8. slider' \in Time
      BY <2>0, <2>6 DEF Edit, TypeOK
    <3> QED BY <3>4, <3>5, <3>6, <3>7, <3>8, UpdateKeepsAnimated
  <2>7. CASE Touch
    <3>1. Given(keys, pose, time, recorded, at)
      BY <2>0 DEF Given, TypeOK
    <3> QED BY <2>0, <2>7, <3>1, UpdateKeepsAnimated DEF Touch, TypeOK, AnimatedInv
  <2>8. CASE InsertKeys
    <3> DEFINE once(s) == InsertKeyFrames(keys, pose, slider, s)
    <3>1. PICK s1 \in Strays, s2 \in Strays :
            keys' = IF autoKeying THEN InsertKeyFrames(once(s1), pose, slider, s2) ELSE once(s1)
      BY <2>8 DEF InsertKeys
    <3>2. keys \in Keys /\ pose \in Pose /\ slider \in Time
      BY <2>0 DEF TypeOK
    <3>3. once(s1) \in Keys /\ \A p \in Properties : Sorted(once(s1)[p])
      BY <2>0, <3>2, InsertKeyFramesType
    <3>4. \A p \in Properties : Evaluate(once(s1)[p], slider, pose[p]) = pose[p]
      BY <2>0, <3>2, InsertKeyFramesFits
    <3> HIDE DEF once
    <3>5. \A p \in Properties :
            Evaluate(InsertKeyFrames(once(s1), pose, slider, s2)[p], slider, pose[p]) = pose[p]
      BY <3>2, <3>3, InsertKeyFramesFits
    <3>6. \A p \in Properties : Evaluate(keys'[p], slider, pose[p]) = pose[p]
      BY <3>1, <3>4, <3>5
    <3>7. /\ at' = [time |-> slider, edited |-> {}] /\ pose' = pose
          /\ recorded' = [keys |-> keys', pose |-> pose, at |-> at']
      BY <2>8 DEF InsertKeys
    <3>8. at'.time = slider /\ recorded'.keys = keys' /\ recorded'.pose = pose /\ recorded'.at = at'
      BY <3>7
    <3> QED BY <3>6, <3>7, <3>8 DEF AnimatedInv, Animated
  <2>9. CASE Reload
    <3>1. Given(recorded.keys, recorded.pose, time, recorded, recorded.at)
      BY <2>0 DEF Given, TypeOK
    <3> QED BY <2>0, <2>9, <3>1, UpdateKeepsAnimated DEF Reload, TypeOK, AnimatedInv
  <2>10. CASE ToggleAutoKeying
    BY <2>10 DEF ToggleAutoKeying, AnimatedInv, Animated
  <2>11. CASE UNCHANGED vars
    BY <2>11 DEF vars, AnimatedInv, Animated
  <2> QED BY <2>1, <2>2, <2>3, <2>4, <2>5, <2>6, <2>7, <2>8, <2>9, <2>10, <2>11 DEF Next
<1>3. AnimatedInv => PoseIsAnimated
  BY DEF AnimatedInv, Animated, PoseIsAnimated
<1> QED BY <1>1, <1>2, <1>3, Invariance, PTL DEF Spec

-----------------------------------------------------------------------------
(* Keys that scrubbing inserts                                              *)

\* Between two keys of one value the animation has that value.
FlatInterp ==
  \A a \in Value : \A ta, tb, t \in Time :
    ta <= t /\ t < tb => LinearInterp(a, ta, a, tb, t) = a

\* Evaluate by an index that has what GetKeyIndex looks for.
LEMMA EvaluateIs ==
  ASSUME NEW ks \in Seq(Key), NEW t \in Time, NEW i \in 0 .. Len(ks), NEW v, ks # <<>>,
         \A j \in 1 .. i : ks[j].time <= t,
         i < Len(ks) => ks[i + 1].time > t
  PROVE  Evaluate(ks, t, v) =
           IF i = 0 THEN ks[1].data
           ELSE IF i < Len(ks)
                THEN LinearInterp(ks[i].data, ks[i].time, ks[i + 1].data, ks[i + 1].time, t)
                ELSE ks[i].data
<1>1. GetKeyIndex(ks, t) = i
  BY KeyIndexUnique
<1> QED BY <1>1 DEF Evaluate, NumKeys

\* A key before all others with the value of the first one changes nothing.
LEMMA FirstKeyChangesNothing ==
  ASSUME FlatInterp, NEW ks \in Seq(Key), Sorted(ks), ks # <<>>, NEW t \in Time,
         ks[1].time > t, NEW u \in Time, NEW x
  PROVE  Evaluate(Spliced(ks, 0, [time |-> t, data |-> ks[1].data]), u, x) = Evaluate(ks, u, x)
<1> DEFINE k == [time |-> t, data |-> ks[1].data]
           n == Spliced(ks, 0, k)
           g == GetKeyIndex(ks, u)
<1>1. /\ Len(ks) \in Nat /\ Len(ks) # 0
      /\ \A j \in 1 .. Len(ks) : /\ ks[j].time \in Time /\ ks[j].time \in Nat
                                /\ ks[j].data \in Value
  BY Elements
<1>2. t \in Nat /\ u \in Nat
  BY TimeAssumption DEF Time
<1>3. /\ g \in 0 .. Len(ks) /\ \A j \in 1 .. g : ks[j].time <= u
      /\ g < Len(ks) => ks[g + 1].time > u
  BY KeyIndex
<1>4. k \in Key /\ k.time = t /\ k.data = ks[1].data
  BY <1>1 DEF Key
<1>5. /\ n \in Seq(Key) /\ Len(n) = Len(ks) + 1 /\ n[1] = k
      /\ \A j \in 2 .. Len(ks) + 1 : n[j] = ks[j - 1]
  <2>1. 0 \in 0 .. Len(ks) /\ 0 + 1 = 1 /\ 0 + 2 = 2
    BY <1>1
  <2>2. /\ n \in Seq(Key) /\ Len(n) = Len(ks) + 1 /\ n[0 + 1] = k
        /\ \A j \in 0 + 2 .. Len(ks) + 1 : n[j] = ks[j - 1]
    <3> HIDE DEF k
    <3> QED BY <1>4, <2>1, Splice
  <2> QED BY <2>1, <2>2
<1>6. Evaluate(ks, u, x) =
        IF g = 0 THEN ks[1].data
        ELSE IF g < Len(ks)
             THEN LinearInterp(ks[g].data, ks[g].time, ks[g + 1].data, ks[g + 1].time, u)
             ELSE ks[g].data
  BY DEF Evaluate, NumKeys
<1> HIDE DEF k, n, g
<1> SUFFICES Evaluate(n, u, x) = Evaluate(ks, u, x)
  BY DEF n, k
<1>7. n # <<>>
  BY <1>1, <1>5
<1>8. CASE u < t
  <2>1. g = 0
    BY <1>1, <1>2, <1>3, <1>8
  <2>2. n[0 + 1].time > u /\ 0 \in 0 .. Len(n)
    BY <1>1, <1>2, <1>4, <1>5, <1>8
  <2>3. \A j \in 1 .. 0 : n[j].time <= u
    OBVIOUS
  <2>4. Evaluate(n, u, x) = n[1].data
    BY <1>5, <1>7, <2>2, <2>3, EvaluateIs
  <2> QED BY <1>4, <1>5, <1>6, <2>1, <2>4
<1>9. CASE u >= t /\ g = 0
  <2>1. 1 < Len(n) /\ 1 \in 0 .. Len(n) /\ n[1 + 1] = ks[1]
    BY <1>1, <1>5
  <2>2. ks[1].time > u /\ \A j \in 1 .. 1 : n[j].time <= u
    BY <1>1, <1>2, <1>3, <1>4, <1>5, <1>9
  <2>3. Evaluate(n, u, x) = LinearInterp(k.data, k.time, ks[1].data, ks[1].time, u)
    BY <1>5, <1>7, <2>1, <2>2, EvaluateIs
  <2>4. 1 \in 1 .. Len(ks)
    BY <1>1
  <2>5. LinearInterp(ks[1].data, t, ks[1].data, ks[1].time, u) = ks[1].data
    BY <1>1, <1>2, <1>9, <2>2, <2>4 DEF FlatInterp
  <2> QED BY <1>4, <1>6, <1>9, <2>3, <2>5
<1>10. CASE u >= t /\ g # 0
  <2>1. g + 1 \in 0 .. Len(n) /\ g + 1 # 0 /\ n[g + 1] = ks[g]
    <3>1. g + 1 \in 2 .. Len(ks) + 1 /\ (g + 1) - 1 = g
      BY <1>1, <1>3, <1>10
    <3> QED BY <1>1, <1>5, <3>1
  <2>2. g + 1 < Len(n) <=> g < Len(ks)
    BY <1>1, <1>3, <1>5
  <2>3. g < Len(ks) => n[(g + 1) + 1] = ks[g + 1]
    <3> HAVE g < Len(ks)
    <3>1. (g + 1) + 1 \in 2 .. Len(ks) + 1 /\ ((g + 1) + 1) - 1 = g + 1
      BY <1>1, <1>3
    <3> QED BY <1>5, <3>1
  <2>4. \A j \in 1 .. g + 1 : n[j].time <= u
    <3> TAKE j \in 1 .. g + 1
    <3>1. CASE j = 1
      BY <1>2, <1>4, <1>5, <1>10, <3>1
    <3>2. CASE j # 1
      <4>1. j \in 2 .. Len(ks) + 1 /\ j - 1 \in 1 .. g
        BY <1>1, <1>3, <3>2
      <4> QED BY <1>3, <1>5, <4>1
    <3> QED BY <3>1, <3>2
  <2>5. g + 1 < Len(n) => n[(g + 1) + 1].time > u
    BY <1>3, <2>2, <2>3
  <2>6. Evaluate(n, u, x) =
          IF g + 1 < Len(n)
          THEN LinearInterp(n[g + 1].data, n[g + 1].time, n[(g + 1) + 1].data,
                            n[(g + 1) + 1].time, u)
          ELSE n[g + 1].data
    BY <1>5, <1>7, <2>1, <2>4, <2>5, EvaluateIs
  <2> QED BY <1>6, <1>10, <2>1, <2>2, <2>3, <2>6
<1> QED BY <1>2, <1>8, <1>9, <1>10

\* Neither does one after all others with the value of the last one.
LEMMA LastKeyChangesNothing ==
  ASSUME FlatInterp, NEW ks \in Seq(Key), Sorted(ks), ks # <<>>, NEW t \in Time,
         ks[Len(ks)].time < t, NEW u \in Time, NEW x
  PROVE  Evaluate(Spliced(ks, Len(ks), [time |-> t, data |-> ks[Len(ks)].data]), u, x)
           = Evaluate(ks, u, x)
<1> DEFINE k == [time |-> t, data |-> ks[Len(ks)].data]
           n == Spliced(ks, Len(ks), k)
           g == GetKeyIndex(ks, u)
<1>1. /\ Len(ks) \in Nat /\ Len(ks) # 0
      /\ \A j \in 1 .. Len(ks) : /\ ks[j].time \in Time /\ ks[j].time \in Nat
                                /\ ks[j].data \in Value
  BY Elements
<1>2. t \in Nat /\ u \in Nat
  BY TimeAssumption DEF Time
<1>3. /\ g \in 0 .. Len(ks) /\ \A j \in 1 .. g : ks[j].time <= u
      /\ g < Len(ks) => ks[g + 1].time > u
  BY KeyIndex
<1>4. k \in Key /\ k.time = t /\ k.data = ks[Len(ks)].data
  BY <1>1 DEF Key
<1>5. /\ n \in Seq(Key) /\ Len(n) = Len(ks) + 1 /\ n[Len(ks) + 1] = k
      /\ \A j \in 1 .. Len(ks) : n[j] = ks[j]
  <2>1. Len(ks) \in 0 .. Len(ks)
    BY <1>1
  <2> QED BY <1>4, <2>1, Splice
<1>6. Evaluate(ks, u, x) =
        IF g = 0 THEN ks[1].data
        ELSE IF g < Len(ks)
             THEN LinearInterp(ks[g].data, ks[g].time, ks[g + 1].data, ks[g + 1].time, u)
             ELSE ks[g].data
  BY DEF Evaluate, NumKeys
<1> HIDE DEF k, n, g
<1> SUFFICES Evaluate(n, u, x) = Evaluate(ks, u, x)
  BY DEF n, k
<1>7. n # <<>> /\ n[1] = ks[1]
  BY <1>1, <1>5
<1>8. \A j \in 1 .. g : n[j] = ks[j] /\ n[j].time <= u
  BY <1>1, <1>3, <1>5
<1>9. CASE g < Len(ks)
  <2>1. g \in 0 .. Len(n) /\ g < Len(n) /\ n[g + 1] = ks[g + 1]
    BY <1>1, <1>3, <1>5, <1>9
  <2>2. g # 0 => n[g] = ks[g]
    BY <1>1, <1>3, <1>5
  <2>3. Evaluate(n, u, x) =
          IF g = 0 THEN n[1].data
          ELSE LinearInterp(n[g].data, n[g].time, n[g + 1].data, n[g + 1].time, u)
    BY <1>3, <1>5, <1>7, <1>8, <1>9, <2>1, EvaluateIs
  <2> QED BY <1>6, <1>7, <1>9, <2>1, <2>2, <2>3
<1>10. CASE g = Len(ks) /\ u < t
  <2>1. g \in 0 .. Len(n) /\ g < Len(n) /\ n[g] = ks[g] /\ n[g + 1] = k /\ g # 0
    BY <1>1, <1>5, <1>10
  <2>2. Evaluate(n, u, x) = LinearInterp(ks[g].data, ks[g].time, k.data, k.time, u)
    <3>1. n[g + 1].time > u
      BY <1>2, <1>4, <1>10, <2>1
    <3>2. Evaluate(n, u, x) =
            LinearInterp(n[g].data, n[g].time, n[g + 1].data, n[g + 1].time, u)
      BY <1>5, <1>7, <1>8, <2>1, <3>1, EvaluateIs
    <3> QED BY <2>1, <3>2
  <2>3. g \in 1 .. Len(ks) /\ g \in 1 .. g
    BY <1>1, <1>10
  <2>4. LinearInterp(ks[g].data, ks[g].time, ks[g].data, t, u) = ks[g].data
    BY <1>1, <1>2, <1>3, <1>10, <2>3 DEF FlatInterp
  <2> QED BY <1>4, <1>6, <1>10, <2>1, <2>2, <2>4
<1>11. CASE g = Len(ks) /\ u >= t
  <2>1. g + 1 \in 0 .. Len(n) /\ ~(g + 1 < Len(n)) /\ g + 1 # 0 /\ g # 0 /\ n[g + 1] = k
    BY <1>1, <1>5, <1>11
  <2>2. \A j \in 1 .. g + 1 : n[j].time <= u
    <3> TAKE j \in 1 .. g + 1
    <3>1. CASE j = g + 1
      BY <1>2, <1>4, <1>11, <2>1, <3>1
    <3>2. CASE j # g + 1
      <4>1. j \in 1 .. g
        BY <1>1, <1>11, <3>2
      <4> QED BY <1>8, <4>1
    <3> QED BY <3>1, <3>2
  <2>3. Evaluate(n, u, x) = k.data
    BY <1>5, <1>7, <2>1, <2>2, EvaluateIs
  <2> QED BY <1>4, <1>6, <1>11, <2>1, <2>3
<1>12. g < Len(ks) \/ g = Len(ks)
  BY <1>1, <1>3
<1> QED BY <1>2, <1>9, <1>10, <1>11, <1>12

\* What Evaluate answers for a time outside the keys, and where InsertKey puts a key then.
LEMMA OutsideKeys ==
  ASSUME NEW ks \in Seq(Key), Sorted(ks), ks # <<>>, NEW t \in Time, NEW v, NEW w
  PROVE  /\ ks[1].time > t =>
              /\ Evaluate(ks, t, w) = ks[1].data
              /\ InsertKey(ks, v, t, FALSE) = Spliced(ks, 0, [time |-> t, data |-> v])
         /\ ks[Len(ks)].time < t /\ Rounded = {} =>
              /\ Evaluate(ks, t, w) = ks[Len(ks)].data
              /\ InsertKey(ks, v, t, FALSE) = Spliced(ks, Len(ks), [time |-> t, data |-> v])
<1>1. /\ Len(ks) \in Nat /\ Len(ks) # 0
      /\ \A j \in 1 .. Len(ks) : ks[j].time \in Nat
  BY Elements
<1>2. \A i, j \in 1 .. Len(ks) : i < j => ks[i].time < ks[j].time
  BY DEF Sorted
<1>3. t \in Nat
  BY TimeAssumption DEF Time
<1>4. ASSUME ks[1].time > t PROVE GetKeyIndex(ks, t) = 0
  <2>1. 0 \in 0 .. Len(ks) /\ 0 + 1 = 1
    BY <1>1
  <2> QED BY <1>4, <2>1, KeyIndexUnique
<1>5. ASSUME ks[Len(ks)].time < t PROVE GetKeyIndex(ks, t) = Len(ks)
  <2>1. ASSUME NEW j \in 1 .. Len(ks) PROVE ks[j].time <= t
    <3>1. j = Len(ks) \/ j < Len(ks)
      BY <1>1
    <3>2. Len(ks) \in 1 .. Len(ks)
      BY <1>1
    <3> QED BY <1>1, <1>2, <1>3, <1>5, <3>1, <3>2
  <2>2. Len(ks) \in 0 .. Len(ks) /\ ~(Len(ks) < Len(ks))
    BY <1>1
  <2> QED BY <2>1, <2>2, KeyIndexUnique
<1>6. ASSUME ks[1].time > t
      PROVE  /\ Evaluate(ks, t, w) = ks[1].data
             /\ InsertKey(ks, v, t, FALSE) = Spliced(ks, 0, [time |-> t, data |-> v])
  BY <1>4, <1>6 DEF Evaluate, InsertKey, SameTime, Spliced
<1>7. ASSUME ks[Len(ks)].time < t, Rounded = {}
      PROVE  /\ Evaluate(ks, t, w) = ks[Len(ks)].data
             /\ InsertKey(ks, v, t, FALSE) = Spliced(ks, Len(ks), [time |-> t, data |-> v])
  <2>1. Len(ks) \in 1 .. Len(ks) /\ ~(Len(ks) < Len(ks))
    BY <1>1
  <2>2. ks[Len(ks)].time # t
    BY <1>1, <1>3, <1>7, <2>1
  <2> QED BY <1>1, <1>5, <1>7, <2>1, <2>2 DEF Evaluate, NumKeys, InsertKey, SameTime, Spliced
<1> QED BY <1>6, <1>7

\* A key behind another one changes nothing up to that one.
LEMMA LaterKeyChangesNothing ==
  ASSUME NEW ks \in Seq(Key), Sorted(ks), Rounded = {}, NEW v \in Value, NEW t \in Time,
         NEW i \in 1 .. Len(ks), ks[i].time < t, NEW u \in Time, u <= ks[i].time, NEW x
  PROVE  Evaluate(InsertKey(ks, v, t, FALSE), u, x) = Evaluate(ks, u, x)
<1> DEFINE h == GetKeyIndex(ks, t)
           g == GetKeyIndex(ks, u)
           k == [time |-> t, data |-> v]
           n == InsertKey(ks, v, t, FALSE)
<1>1. /\ Len(ks) \in Nat /\ t \in Nat /\ u \in Nat
      /\ \A j \in 1 .. Len(ks) : ks[j] \in Key /\ ks[j].time \in Nat
  BY Elements, TimeAssumption DEF Time
<1>2. \A j, l \in 1 .. Len(ks) : j < l => ks[j].time < ks[l].time
  BY DEF Sorted
<1>3. h \in 0 .. Len(ks) /\ (h < Len(ks) => ks[h + 1].time > t)
  BY KeyIndex
<1>4. /\ g \in 0 .. Len(ks) /\ \A j \in 1 .. g : ks[j].time <= u
      /\ g < Len(ks) => ks[g + 1].time > u
  BY KeyIndex
<1>5. n \in Seq(Key) /\ Sorted(n)
  BY InsertKeySorts
<1> HIDE DEF h, g
<1>6. h >= i
  <2> SUFFICES ASSUME h < i PROVE FALSE
    BY <1>1, <1>3
  <2>1. h + 1 \in 1 .. Len(ks) /\ (h + 1 = i \/ h + 1 < i)
    BY <1>1, <1>3
  <2> QED BY <1>1, <1>2, <1>3, <2>1
<1>7. i <= Len(n) /\ \A j \in 1 .. i : n[j] = ks[j]
  <2>1. CASE ks # <<>> /\ SameTime(ks, h, t, FALSE)
    <3>1. h # 0 /\ ks[h].time = t
      BY <2>1 DEF SameTime
    <3>2. n = [ks EXCEPT ![h].data = v]
      BY <2>1, <3>1 DEF InsertKey, h
    <3>3. h # i
      BY <1>1, <3>1
    <3>4. h \in 1 .. Len(ks)
      BY <1>1, <1>3, <3>1
    <3> HIDE DEF n
    <3>5. Len(n) = Len(ks) /\ \A j \in 1 .. Len(ks) : j # h => n[j] = ks[j]
      BY <1>1, <3>2, <3>4 DEF Key
    <3> QED BY <1>1, <1>3, <1>6, <3>3, <3>5
  <2>2. CASE ~(ks # <<>> /\ SameTime(ks, h, t, FALSE))
    <3>1. n = Spliced(ks, h, k)
      BY <2>2 DEF InsertKey, Spliced, h
    <3>2. k \in Key
      BY DEF Key
    <3> HIDE DEF n, k
    <3>3. Len(n) = Len(ks) + 1 /\ \A j \in 1 .. h : n[j] = ks[j]
      BY <1>3, <3>1, <3>2, Splice
    <3> QED BY <1>1, <1>3, <1>6, <3>3
  <2> QED BY <2>1, <2>2
<1> HIDE DEF n
<1> SUFFICES Evaluate(n, u, x) = Evaluate(ks, u, x)
  BY DEF n
<1>8. Len(n) \in Nat
  BY <1>5, Elements
<1>9. g <= i
  <2> SUFFICES ASSUME g > i PROVE FALSE
    BY <1>1, <1>4
  <2>1. g \in 1 .. Len(ks) /\ g \in 1 .. g
    BY <1>1, <1>4
  <2> QED BY <1>1, <1>2, <1>4, <2>1
<1>10. CASE g = i
  <2>1. i \in 1 .. g
    BY <1>10
  <2>2. ks[i].time = u
    BY <1>1, <1>4, <2>1
  <2>3. n[i] = ks[i] /\ i \in 1 .. Len(n)
    BY <1>7, <1>8
  <2>4. Evaluate(ks, ks[i].time, x) = ks[i].data /\ Evaluate(n, n[i].time, x) = n[i].data
    BY <1>5, <2>3, EvaluateAtKey
  <2> QED BY <2>2, <2>3, <2>4
<1>11. CASE g < i
  <2>1. /\ g \in 0 .. Len(n) /\ g < Len(n) /\ g < Len(ks) /\ n # <<>> /\ ks # <<>>
        /\ n[g + 1] = ks[g + 1] /\ n[1] = ks[1] /\ (g # 0 => n[g] = ks[g])
        /\ \A j \in 1 .. g : n[j] = ks[j]
    BY <1>1, <1>4, <1>7, <1>8, <1>11
  <2>2. Evaluate(n, u, x) =
          IF g = 0 THEN n[1].data
          ELSE LinearInterp(n[g].data, n[g].time, n[g + 1].data, n[g + 1].time, u)
    BY <1>4, <1>5, <2>1, EvaluateIs
  <2>3. Evaluate(ks, u, x) =
          IF g = 0 THEN ks[1].data
          ELSE LinearInterp(ks[g].data, ks[g].time, ks[g + 1].data, ks[g + 1].time, u)
    BY <1>4, <2>1, EvaluateIs
  <2> QED BY <2>1, <2>2, <2>3
<1> QED BY <1>1, <1>4, <1>9, <1>10, <1>11

\* Keying what was just evaluated changes nothing at any time.
LEMMA KeyingWhatIsShown ==
  ASSUME Exact, FlatInterp, Inv, NEW t \in Time, NEW strays \in Strays,
         NEW p \in Properties, keys[p] # <<>>, NEW u \in Time, NEW x
  PROVE  Evaluate(InsertKeyFrames(keys, UpdateAnimation(t), t, strays)[p], u, x)
           = Evaluate(keys[p], u, x)
<1> DEFINE ks == keys[p]
           v == Evaluate(ks, t, pose[p])
<1>1. /\ ks \in Seq(Key) /\ Sorted(ks) /\ pose[p] \in Value /\ (p \in strays) = FALSE
      /\ UpdateAnimation(t)[p] = v
  BY DEF Inv, TypeOK, KeysSorted, Keys, Pose, Strays, Exact, UpdateAnimation
<1>2. InsertKeyFrames(keys, UpdateAnimation(t), t, strays)[p]
        = IF IsEdited(ks, v, t) THEN InsertKey(ks, v, t, FALSE) ELSE ks
  BY <1>1 DEF InsertKeyFrames
<1>3. Evaluate(ks, t, v) = v
  BY <1>1, EvaluateType
<1>4. Rounded = {} /\ ks # <<>>
  BY DEF Exact
<1> HIDE DEF ks, v
<1>5. CASE ks[1].time > t
  <2>1. v = ks[1].data /\ InsertKey(ks, v, t, FALSE) = Spliced(ks, 0, [time |-> t, data |-> v])
    BY <1>1, <1>4, <1>5, OutsideKeys DEF v
  <2>2. Evaluate(Spliced(ks, 0, [time |-> t, data |-> ks[1].data]), u, x) = Evaluate(ks, u, x)
    BY <1>1, <1>4, <1>5, FirstKeyChangesNothing
  <2> QED BY <1>2, <2>1, <2>2 DEF ks
<1>6. CASE ks[Len(ks)].time < t
  <2>1. /\ v = ks[Len(ks)].data
        /\ InsertKey(ks, v, t, FALSE) = Spliced(ks, Len(ks), [time |-> t, data |-> v])
    BY <1>1, <1>4, <1>6, OutsideKeys DEF v
  <2>2. Evaluate(Spliced(ks, Len(ks), [time |-> t, data |-> ks[Len(ks)].data]), u, x)
          = Evaluate(ks, u, x)
    BY <1>1, <1>4, <1>6, LastKeyChangesNothing
  <2> QED BY <1>2, <2>1, <2>2 DEF ks
<1>7. CASE ~(ks[1].time > t) /\ ~(ks[Len(ks)].time < t)
  <2>1. ~IsEdited(ks, v, t)
    BY <1>3, <1>4, <1>7 DEF IsEdited, NumKeys
  <2> QED BY <1>2, <2>1 DEF ks
<1> QED BY <1>5, <1>6, <1>7

\* Dragging the slider and playing up to the end leave the animation as it is at every
\* time, with the auto-keying box ticked or not, and playing past the end leaves it as it
\* is up to the last key before the end (ScrubbingKeysNothing), if times are told apart
\* exactly and interpolating between equal values gives that value.
THEOREM ScrubbingIsHarmless ==
  ASSUME Exact, FlatInterp PROVE Spec => ScrubbingKeysNothing
<1>1. ASSUME Inv, NEW t \in Time, ShowTime(t), slider' = t PROVE SameAnimation({}, Time)
  <2>1. CASE autoKeying
    <3>1. PICK strays \in Strays :
            keys' = InsertKeyFrames(keys, UpdateAnimation(t), t, strays)
      BY <1>1, <2>1 DEF ShowTime, Update
    <3> QED BY <1>1, <3>1, KeyingWhatIsShown DEF SameAnimation
  <2>2. CASE ~autoKeying
    <3>1. keys' = keys
      BY <1>1, <2>2 DEF ShowTime, Update
    <3> QED BY <3>1 DEF SameAnimation
  <2> QED BY <2>1, <2>2
<1>2. ASSUME Inv, NEW t \in Time, SliderCallback(t) PROVE SameAnimation({}, Time)
  <2>1. CASE isPlaying
    BY <1>2, <2>1 DEF SliderCallback, SameAnimation
  <2>2. CASE ~isPlaying
    BY <1>1, <1>2, <2>2 DEF SliderCallback
  <2> QED BY <2>1, <2>2
<1>3. ASSUME Inv, NEW dt \in Ticks, time + dt <= maximum, Idle(dt)
      PROVE  SameAnimation({}, Time)
  <2>1. PICK t \in Time : ShowTime(t) /\ slider' = t
    BY <1>3, IdleTimes
  <2> QED BY <1>1, <1>3, <2>1
<1>4. ASSUME Inv, PassEnd, NEW p \in Properties, NEW u \in KeyedTimes(p)
      PROVE  Evaluate(keys'[p], u, pose[p]) = Evaluate(keys[p], u, pose[p])
  <2>1. PICK dt \in Ticks : time + dt > maximum /\ Idle(dt)
    BY <1>4 DEF PassEnd
  <2>2. ShowTime(0) /\ slider' = time + dt /\ slider' \in Time /\ 0 \in Time
    BY <2>1, TimeAssumption DEF Idle, Time
  <2>3. PICK i \in DOMAIN keys[p] : u <= keys[p][i].time /\ keys[p][i].time <= maximum
    BY <1>4 DEF KeyedTimes
  <2>4. keys[p] \in Seq(Key) /\ Sorted(keys[p]) /\ maximum \in Nat /\ slider' \in Nat /\ u \in Time
    BY <1>4, <2>2, TimeAssumption DEF Inv, TypeOK, KeysSorted, Keys, KeyedTimes, Time
  <2>5. i \in 1 .. Len(keys[p]) /\ keys[p][i].time < slider'
    <3>1. i \in 1 .. Len(keys[p])
      BY <2>4
    <3> QED BY <2>1, <2>2, <2>3, <2>4, <3>1, Elements
  <2>6. CASE autoKeying
    <3> DEFINE w == UpdateAnimation(0)
    <3>1. PICK strays \in Strays : keys' = InsertKeyFrames(keys, w, slider', strays)
      BY <2>2, <2>6 DEF ShowTime, Update
    <3>2. w[p] \in Value /\ (p \in strays) = FALSE /\ Rounded = {}
      BY <1>4, <2>2, UpdateAnimationType DEF Pose, Strays, Exact
    <3> HIDE DEF w
    <3>3. keys'[p] = IF IsEdited(keys[p], w[p], slider')
                     THEN InsertKey(keys[p], w[p], slider', FALSE) ELSE keys[p]
      BY <3>1, <3>2 DEF InsertKeyFrames
    <3>4. Evaluate(InsertKey(keys[p], w[p], slider', FALSE), u, pose[p])
            = Evaluate(keys[p], u, pose[p])
      <4> DEFINE ks == keys[p]
                 t == slider'
                 x == pose[p]
                 y == w[p]
      <4>1. /\ ks \in Seq(Key) /\ Sorted(ks) /\ t \in Time /\ u \in Time
            /\ i \in 1 .. Len(ks) /\ ks[i].time < t /\ u <= ks[i].time
        BY <2>2, <2>3, <2>4, <2>5
      <4>2. y \in Value /\ Rounded = {}
        BY <3>2
      <4> HIDE DEF ks, t, x, y
      <4>3. Evaluate(InsertKey(ks, y, t, FALSE), u, x) = Evaluate(ks, u, x)
        BY <4>1, <4>2, LaterKeyChangesNothing, ZenonT(60)
      <4> QED BY <4>3 DEF ks, t, x, y
    <3> QED BY <3>3, <3>4
  <2>7. CASE ~autoKeying
    BY <2>2, <2>7 DEF ShowTime, Update
  <2> QED BY <2>6, <2>7
<1>5. ASSUME Inv, PassEnd
      PROVE  \A p \in Properties : SameAnimation(Properties \ {p}, KeyedTimes(p))
  BY <1>4, <1>5 DEF SameAnimation
<1>6. Inv /\ [Next]_vars
      => [/\ Scrub => SameAnimation({}, Time)
          /\ PassEnd => \A p \in Properties : SameAnimation(Properties \ {p}, KeyedTimes(p))]_vars
  BY <1>2, <1>3, <1>5 DEF Scrub
<1> QED BY <1>6, Invariance, PTL DEF Spec, ScrubbingKeysNothing
=============================================================================

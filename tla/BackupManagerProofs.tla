------------------------ MODULE BackupManagerProofs ------------------------
(***************************************************************************)
(* Proofs about BackupManager, for all values of its constants.            *)
(*                                                                         *)
(* Handlers are compositions of functions on the manager's state, so each  *)
(* function gets a lemma that says what it makes of a sound manager; the    *)
(* step theorems then only compose lemmas.                                 *)
(***************************************************************************)
EXTENDS BackupManager, Integers, SequenceTheorems, TLAPS

\* The position iterator is valid: it designates a backup whenever there is one.
PositionOK(b) == IF IsEmpty(b) THEN b.position = 1
                                ELSE b.position \in 1 .. Len(b.backups)

\* A manager between two calls.
Sound(b) == b \in Manager /\ PositionOK(b) /\ Len(b.backups) <= b.numBackups

Entries(b) == {b.backups[i] : i \in 1 .. Len(b.backups)}

\* The manager's backup at position is the model m, unless drift says otherwise. (With
\* Recycle a merge may edit other objects in the backup, so nothing is claimed.)
Synced(b, m) ==
  ~Recycle /\ ~IsEmpty(b) /\ ~b.drift => Shape(m) = Shape(b.backups[b.position].model)

\* What an empty list is, in terms of its length.
LEMMA EmptyLen == ASSUME NEW b \in Manager
                  PROVE  /\ IsEmpty(b) <=> Len(b.backups) = 0
                         /\ Len(b.backups) \in Nat
  BY EmptySeq DEF Manager, IsEmpty

\* What is left of a sequence without its first d elements.
LEMMA SuffixProperties ==
  ASSUME NEW S, NEW s \in Seq(S), NEW d \in 0 .. Len(s)
  PROVE  /\ SubSeq(s, d + 1, Len(s)) \in Seq(S)
         /\ Len(SubSeq(s, d + 1, Len(s))) = Len(s) - d
         /\ \A i \in 1 .. Len(s) - d : SubSeq(s, d + 1, Len(s))[i] = s[d + i]
<1>1. Len(s) \in Nat
  OBVIOUS
<1> QED BY <1>1

\* The first d elements of a sequence.
LEMMA PrefixProperties ==
  ASSUME NEW S, NEW s \in Seq(S), NEW d \in 0 .. Len(s)
  PROVE  /\ SubSeq(s, 1, d) \in Seq(S)
         /\ Len(SubSeq(s, 1, d)) = d
         /\ \A i \in 1 .. d : SubSeq(s, 1, d)[i] = s[i]
  OBVIOUS

\* SetNumBackups yields a sound manager whose backups are among the former ones
\* and whose backup at position, if it was kept, is still the one shown.
LEMMA SetNumBackupsSound ==
  ASSUME NEW b \in Manager, PositionOK(b), NEW n \in Nat,
         NEW r, r = SetNumBackups(b, n)
  PROVE  /\ Sound(r)
         /\ r.numBackups = n
         /\ Entries(r) \subseteq Entries(b)
         /\ \A m : Synced(b, m) => Synced(r, m)
<1> DEFINE size == Len(b.backups)
           d == IF size > n THEN size - n ELSE 0
<1>1. /\ size \in Nat /\ b.position \in Nat
      /\ b.drift \in BOOLEAN /\ b.backups \in Seq(Backup)
  BY EmptyLen DEF Manager
<1>2. /\ d \in 0 .. size /\ size - d <= n
      /\ r = [backups    |-> SubSeq(b.backups, d + 1, size),
              position   |-> IF b.position > d THEN b.position - d ELSE 1,
              numBackups |-> n,
              drift      |-> b.drift \/ b.position <= d]
  BY <1>1 DEF SetNumBackups
<1> HIDE DEF d
<1>3. /\ r.backups \in Seq(Backup)
      /\ Len(r.backups) = size - d
      /\ \A i \in 1 .. size - d : r.backups[i] = b.backups[d + i]
  BY <1>1, <1>2, SuffixProperties
<1>4. /\ r.position = IF b.position > d THEN b.position - d ELSE 1
      /\ r.numBackups = n
      /\ r.drift = (b.drift \/ b.position <= d)
  BY <1>2
<1>5. r \in Manager
  BY <1>1, <1>2, <1>3 DEF Manager
<1>6. /\ IsEmpty(r) <=> size - d = 0
      /\ IsEmpty(b) <=> size = 0
  BY <1>3, <1>5, EmptyLen
<1>7. PositionOK(r)
  <2>1. /\ size \in Int /\ b.position \in Int /\ d \in Int /\ 0 <= d /\ d <= size
        /\ size = 0 => b.position = 1
        /\ size # 0 => 1 <= b.position /\ b.position <= size
    BY <1>1, <1>2, <1>6 DEF PositionOK
  <2>2. CASE size - d = 0
    <3>1. r.position = 1
      BY <1>4, <2>1, <2>2
    <3> QED BY <1>6, <2>2, <3>1 DEF PositionOK
  <2>3. CASE size - d # 0
    <3>1. r.position \in 1 .. size - d
      BY <1>4, <2>1, <2>3
    <3> QED BY <1>3, <1>6, <2>3, <3>1 DEF PositionOK
  <2> QED BY <2>2, <2>3
<1>8. Len(r.backups) <= r.numBackups
  BY <1>1, <1>2, <1>3, <1>4
<1>9. Entries(r) \subseteq Entries(b)
  <2> SUFFICES ASSUME NEW i \in 1 .. Len(r.backups)
               PROVE  r.backups[i] \in Entries(b)
    BY DEF Entries
  <2>1. d + i \in 1 .. size /\ r.backups[i] = b.backups[d + i]
    BY <1>1, <1>2, <1>3
  <2> QED BY <2>1 DEF Entries
<1>10. ASSUME NEW m, Synced(b, m), ~IsEmpty(r), ~r.drift
       PROVE  ~Recycle => Shape(m) = Shape(r.backups[r.position].model)
  <2>1. ~b.drift /\ ~(b.position <= d)
    BY <1>4, <1>10
  <2>2. size - d # 0 /\ size # 0
    BY <1>1, <1>2, <1>6, <1>10
  <2>3. /\ ~IsEmpty(b)
        /\ r.position = b.position - d
        /\ b.position \in 1 .. size /\ b.position - d \in 1 .. size - d
    BY <1>1, <1>2, <1>4, <1>6, <2>1, <2>2 DEF PositionOK
  <2>4. r.backups[b.position - d] = b.backups[d + (b.position - d)]
    BY <1>3, <2>3
  <2>5. d + (b.position - d) = b.position
    BY <1>1, <1>2
  <2>6. r.backups[r.position] = b.backups[b.position]
    BY <2>3, <2>4, <2>5
  <2> QED BY <1>10, <2>1, <2>3, <2>6 DEF Synced
<1> QED BY <1>4, <1>5, <1>7, <1>8, <1>9, <1>10 DEF Sound, Synced

\* RemoveRedoBackups keeps what is at and before the position.
LEMMA RemoveRedoBackupsSound ==
  ASSUME NEW b, Sound(b), NEW r, r = RemoveRedoBackups(b)
  PROVE  /\ Sound(r)
         /\ r.numBackups = b.numBackups
         /\ r.position = b.position
         /\ r.drift = b.drift
         /\ IsEmpty(r) <=> IsEmpty(b)
         /\ ~IsEmpty(b) => /\ Len(r.backups) = b.position
                           /\ r.backups[b.position] = b.backups[b.position]
         /\ Entries(r) \subseteq Entries(b)
         /\ \A m : Synced(b, m) => Synced(r, m)
<1>1. /\ b \in Manager /\ Len(b.backups) \in Nat /\ b.backups \in Seq(Backup)
      /\ Len(b.backups) <= b.numBackups
  BY EmptyLen DEF Sound, Manager
<1>2. CASE IsEmpty(b)
  BY <1>1, <1>2, EmptyLen DEF RemoveRedoBackups, Sound
<1>3. CASE ~IsEmpty(b)
  <2>1. b.position \in 1 .. Len(b.backups)
    BY <1>3 DEF Sound, PositionOK
  <2>2. r = [b EXCEPT !.backups = SubSeq(b.backups, 1, b.position)]
    BY <1>3 DEF RemoveRedoBackups
  <2>3. /\ r.backups \in Seq(Backup)
        /\ Len(r.backups) = b.position
        /\ \A i \in 1 .. b.position : r.backups[i] = b.backups[i]
    BY <1>1, <2>1, <2>2, PrefixProperties DEF Manager
  <2>4. /\ r \in Manager
        /\ r.position = b.position /\ r.drift = b.drift
        /\ r.numBackups = b.numBackups
    BY <1>1, <2>2, <2>3 DEF Manager
  <2>5. ~IsEmpty(r)
    BY <2>1, <2>3, <2>4, EmptyLen
  <2>6. Sound(r)
    BY <1>1, <2>1, <2>3, <2>4, <2>5 DEF Sound, PositionOK, Manager
  <2>7. Entries(r) \subseteq Entries(b)
    BY <1>1, <2>1, <2>3 DEF Entries
  <2>8. r.backups[b.position] = b.backups[b.position]
    BY <2>1, <2>3
  <2> QED BY <1>3, <2>3, <2>4, <2>5, <2>6, <2>7, <2>8 DEF Synced
<1> QED BY <1>2, <1>3

-----------------------------------------------------------------------------
(* Models *)

\* A model of which only present objects are selected.
Good(m) == m \in Model /\ m.sel \subseteq m.objs

\* Editing objects leaves a good model good and does not change what is selected.
LEMMA EditObjectsGood ==
  ASSUME NEW m, Good(m), NEW S
  PROVE  Good(EditObjects(m, S)) /\ EditObjects(m, S).sel = m.sel
<1>1. m \in Model
  BY DEF Good
<1>2. \A o \in Objects : m.pose[o] \in Nat /\ (m.pose[o] + 1) % Poses \in 0 .. Poses - 1
  BY <1>1, PosesAssumption DEF Model, Pose
<1> DEFINE pose == [o \in Objects |-> IF o \in S THEN (m.pose[o] + 1) % Poses
                                                 ELSE m.pose[o]]
<1>3. pose \in [Objects -> Pose]
  BY <1>1, <1>2 DEF Model, Pose
<1>4. EditObjects(m, S) = [m EXCEPT !.pose = pose]
  BY DEF EditObjects
<1> HIDE DEF pose
<1> QED BY <1>1, <1>3, <1>4 DEF Good, Model

\* Removing objects removes them from the selection.
LEMMA RemoveObjectsGood ==
  ASSUME NEW m, Good(m), NEW S
  PROVE  Good(RemoveObjects(m, S))
<1> DEFINE pose == [o \in Objects |-> IF o \in S THEN 0 ELSE m.pose[o]]
           key  == [o \in Objects |-> IF o \in S THEN NoKey ELSE m.key[o]]
<1>1. m \in Model
  BY DEF Good
<1>2. pose \in [Objects -> Pose]
  BY <1>1, PosesAssumption DEF Model, Pose
<1>3. key \in [Objects -> Key]
  BY <1>1 DEF Model, Key
<1>4. RemoveObjects(m, S) = [objs |-> m.objs \ S, pose |-> pose, key |-> key,
                             sel |-> m.sel \ S]
  BY DEF RemoveObjects
<1> HIDE DEF pose, key
<1> QED BY <1>1, <1>2, <1>3, <1>4 DEF Good, Model

\* Inserting keys and following them change neither objects nor selection.
LEMMA KeysGood ==
  ASSUME NEW m, Good(m)
  PROVE  Good(InsertKeysHelper(m)) /\ Good(UpdateAnimation(m))
<1> DEFINE key  == [o \in Objects |-> IF o \in m.objs THEN m.pose[o] ELSE NoKey]
           pose == [o \in Objects |-> IF m.key[o] = NoKey THEN m.pose[o] ELSE m.key[o]]
<1>1. m \in Model
  BY DEF Good
<1>2. key \in [Objects -> Key]
  BY <1>1 DEF Model, Key
<1>3. pose \in [Objects -> Pose]
  BY <1>1 DEF Model, Key
<1>4. /\ InsertKeysHelper(m) = [m EXCEPT !.key = key]
      /\ UpdateAnimation(m) = [m EXCEPT !.pose = pose]
  BY DEF InsertKeysHelper, UpdateAnimation
<1> HIDE DEF key, pose
<1> QED BY <1>1, <1>2, <1>3, <1>4 DEF Good, Model

\* New models are good.
LEMMA FreshGood == ASSUME NEW S \in SUBSET Objects PROVE Good(Fresh(S))
<1> DEFINE pose == [o \in Objects |-> 0]
           key  == [o \in Objects |-> NoKey]
<1>1. pose \in [Objects -> Pose] /\ key \in [Objects -> Key]
  BY PosesAssumption DEF Pose, Key
<1>2. Fresh(S) = [objs |-> S, pose |-> pose, key |-> key, sel |-> {}]
  BY DEF Fresh
<1> HIDE DEF pose, key
<1> QED BY <1>1, <1>2 DEF Good, Model

-----------------------------------------------------------------------------
(* The inductive invariant *)

\* A merged backup's hash, as long as it mentions an address in use at blk, was
\* computed at blk from the objects the backup has selected. A hash of nothing
\* stands for an empty selection. (Without Recycle no address comes back.)
HashFits(e, blk) ==
  \/ Recycle \/ e.optype = Atomic
  \/ /\ e.compareData = {} => e.model.sel = {}
     /\ (\E o \in Objects : AddrOf[blk][o] \in e.compareData)
          => e.compareData = ObjectSelectionHash(blk, e.model)

\* The manager is sound and all its backups are good and fit the place in use.
Kept(b, blk) ==
  Sound(b) /\ \A e \in Entries(b) : Good(e.model) /\ HashFits(e, blk)

\* The editor is consistent: manager b, model m at place blk.
Consistent(b, m, blk) == Kept(b, blk) /\ Good(m) /\ Synced(b, m)

IInv == Consistent(bm, model, block) /\ block \in Blocks /\ autoKeying \in BOOLEAN

\* A new backup becomes the one shown.
LEMMA AddBackupKept ==
  ASSUME NEW b, NEW blk \in Blocks, Kept(b, blk), NEW m, Good(m),
         NEW op \in MergeOps \cup {Atomic}, NEW cmp \in Hash,
         HashFits([model |-> m, optype |-> op, compareData |-> cmp], blk)
  PROVE  Consistent(AddBackup(b, m, op, cmp), m, blk)
<1> DEFINE entry == [model |-> m, optype |-> op, compareData |-> cmp]
           s     == Append(b.backups, entry)
           c     == [b EXCEPT !.backups = s, !.position = Len(b.backups) + 1,
                              !.drift = FALSE]
           r     == AddBackup(b, m, op, cmp)
<1>1. /\ Sound(b) /\ b \in Manager /\ Len(b.backups) \in Nat
      /\ b.backups \in Seq(Backup) /\ b.numBackups \in Nat
  BY EmptyLen DEF Kept, Sound, Manager
<1>2. entry \in Backup
  BY DEF Good, Backup
<1>3. /\ s \in Seq(Backup) /\ Len(s) = Len(b.backups) + 1
      /\ s[Len(b.backups) + 1] = entry
      /\ \A i \in 1 .. Len(b.backups) : s[i] = b.backups[i]
  BY <1>1, <1>2, AppendProperties
<1>4. r = SetNumBackups(c, b.numBackups)
  BY DEF AddBackup
<1> HIDE DEF entry, s
<1>5. /\ c.backups = s /\ c.position = Len(b.backups) + 1 /\ c.drift = FALSE
      /\ c \in Manager
  <2>1. ASSUME NEW p \in Nat, NEW q,
               q = [b EXCEPT !.backups = s, !.position = p, !.drift = FALSE]
        PROVE  q.backups = s /\ q.position = p /\ q.drift = FALSE /\ q \in Manager
    BY <1>1, <1>3, <2>1 DEF Manager
  <2>2. Len(b.backups) + 1 \in Nat
    BY <1>1
  <2> QED BY <2>1, <2>2, Zenon
<1> HIDE DEF c
<1>6. PositionOK(c)
  BY <1>1, <1>3, <1>5, EmptyLen DEF PositionOK
<1>7. Entries(c) \subseteq Entries(b) \cup {entry}
  BY <1>1, <1>3, <1>5 DEF Entries
<1>8. Synced(c, m)
  BY <1>3, <1>5 DEF Synced, entry
<1> HIDE DEF r
<1>9. Sound(r) /\ Entries(r) \subseteq Entries(c) /\ Synced(r, m)
  BY <1>1, <1>4, <1>5, <1>6, <1>8, SetNumBackupsSound
<1>10. \A e \in Entries(r) : Good(e.model) /\ HashFits(e, blk)
  BY <1>7, <1>9 DEF Kept, entry
<1> QED BY <1>9, <1>10 DEF Consistent, Kept, r

\* AddBackupPoint brings the manager back in step with the model.
LEMMA AddBackupPointKept ==
  ASSUME NEW b, NEW blk \in Blocks, Kept(b, blk), NEW m, Good(m)
  PROVE  Consistent(AddBackupPoint(b, m), m, blk)
<1>1. CASE b.numBackups <= 1
  <2> DEFINE r == [b EXCEPT !.drift = TRUE]
  <2>1. AddBackupPoint(b, m) = r
    BY <1>1 DEF AddBackupPoint
  <2>2. /\ r.backups = b.backups /\ r.position = b.position
        /\ r.numBackups = b.numBackups /\ r.drift = TRUE /\ r \in Manager
    BY DEF Kept, Sound, Manager
  <2> HIDE DEF r
  <2>3. Sound(r) /\ Entries(r) = Entries(b) /\ Synced(r, m)
    BY <2>2 DEF Kept, Sound, PositionOK, IsEmpty, Entries, Synced
  <2> QED BY <2>1, <2>3 DEF Consistent, Kept
<1>2. CASE ~(b.numBackups <= 1)
  <2> DEFINE r == RemoveRedoBackups(b)
  <2>1. AddBackupPoint(b, m) = AddBackup(r, m, Atomic, {})
    BY <1>2 DEF AddBackupPoint
  <2> HIDE DEF r
  <2>2. Kept(r, blk)
    BY RemoveRedoBackupsSound DEF Kept, r
  <2>3. {} \in Hash /\ HashFits([model |-> m, optype |-> Atomic, compareData |-> {}], blk)
    BY DEF Hash, HashFits
  <2> QED BY <2>1, <2>2, <2>3, AddBackupKept
<1> QED BY <1>1, <1>2

\* What Update leaves behind is consistent when it is called in a consistent state.
LEMMA UpdateKept ==
  ASSUME autoKeying \in BOOLEAN,
         NEW b, NEW m, NEW blk \in Blocks, Consistent(b, m, blk)
  PROVE  Consistent(Noted(b, m), Keyed(m), blk)
<1>1. CASE autoKeying
  <2>1. Good(InsertKeysHelper(m))
    BY KeysGood DEF Consistent
  <2>2. Keyed(m) = InsertKeysHelper(m) /\ Noted(b, m) = AddBackupPoint(b, InsertKeysHelper(m))
    BY <1>1 DEF Keyed, Noted
  <2> QED BY <2>1, <2>2, AddBackupPointKept DEF Consistent
<1>2. CASE ~autoKeying
  BY <1>2 DEF Keyed, Noted
<1> QED BY <1>1, <1>2

\* A merged drag edits the last backup and the model in the editor alike; a drag that
\* is not merged makes a backup of its result.
LEMMA AddMergeableOperationKept ==
  ASSUME NEW b, NEW blk \in Blocks, NEW m, Consistent(b, m, blk), NEW op \in MergeOps,
         ~Recycle /\ CanMerge(b, op, ObjectSelectionHash(blk, m))
           => b.backups[b.position].model.sel = m.sel
  PROVE  Consistent(AddMergeableOperation(b, m, op, ObjectSelectionHash(blk, m)),
                    ApplyOp(m), blk)
<1> DEFINE cmp == ObjectSelectionHash(blk, m)
<1>1. /\ Good(m) /\ Good(ApplyOp(m)) /\ ApplyOp(m).sel = m.sel
  BY EditObjectsGood DEF Consistent, ApplyOp
<1>2. CASE CanMerge(b, op, cmp)
  <2> DEFINE k    == RemoveRedoBackups(b)
             p    == b.position
             last == k.backups[p]
             new  == [last EXCEPT !.model = ApplyOp(@)]
             s    == [k.backups EXCEPT ![p] = new]
             r    == MergeLast(b)
  <2>1. ~IsEmpty(b) /\ Sound(b) /\ AddMergeableOperation(b, m, op, cmp) = r
    BY <1>2 DEF CanMerge, AddMergeableOperation, Consistent, Kept
  <2>2. r = [k EXCEPT !.backups = s]
    BY DEF MergeLast
  <2>3. /\ Sound(k) /\ k \in Manager /\ k.backups \in Seq(Backup)
        /\ k.position = p /\ k.drift = b.drift /\ ~IsEmpty(k)
        /\ last = b.backups[p]
        /\ Entries(k) \subseteq Entries(b)
        /\ p \in 1 .. Len(k.backups) /\ Len(k.backups) \in Nat
    BY <2>1, RemoveRedoBackupsSound, EmptyLen DEF Sound, PositionOK, Manager
  <2> HIDE DEF k
  <2>4. last \in Entries(b) /\ last \in Backup
    <3>1. k.backups[p] \in Entries(k)
      BY <2>3 DEF Entries
    <3>2. k.backups[p] \in Backup
      BY <2>3, ElementOfSeq
    <3> QED BY <2>3, <3>1, <3>2
  <2>5. Good(last.model) /\ HashFits(last, blk)
    BY <2>4 DEF Consistent, Kept
  <2> HIDE DEF last
  <2>6. /\ new \in Backup /\ new.model = ApplyOp(last.model)
        /\ Good(new.model) /\ new.model.sel = last.model.sel
        /\ new.optype = last.optype /\ new.compareData = last.compareData
    <3>1. /\ Good(ApplyOp(last.model)) /\ ApplyOp(last.model).sel = last.model.sel
      BY <2>5, EditObjectsGood DEF ApplyOp
    <3> QED BY <2>4, <3>1 DEF Backup, Good
  <2> HIDE DEF new
  <2>7. HashFits(new, blk)
    BY <2>5, <2>6 DEF HashFits, ObjectSelectionHash
  <2>8. /\ s \in Seq(Backup) /\ Len(s) = Len(k.backups) /\ s[p] = new
        /\ \A i \in 1 .. Len(k.backups) : i # p => s[i] = k.backups[i]
    BY <2>3, <2>6, ExceptSeq
  <2> HIDE DEF s
  <2>9. /\ r \in Manager /\ r.backups = s /\ r.position = p
        /\ r.drift = b.drift /\ r.numBackups = k.numBackups
    BY <2>2, <2>3, <2>8 DEF Manager
  <2> HIDE DEF r
  <2>10. Sound(r)
    BY <2>3, <2>8, <2>9, EmptyLen DEF Sound, PositionOK
  <2>11. Entries(r) \subseteq Entries(b) \cup {new}
    BY <2>3, <2>8, <2>9 DEF Entries
  <2>12. Kept(r, blk)
    BY <2>6, <2>7, <2>10, <2>11 DEF Consistent, Kept
  <2>13. ASSUME ~Recycle, ~b.drift
         PROVE  Shape(ApplyOp(m)) = Shape(new.model)
    <3>1. Shape(m) = Shape(last.model)
      BY <2>1, <2>3, <2>13 DEF Consistent, Synced
    <3>2. /\ m.objs = last.model.objs /\ m.pose = last.model.pose
          /\ m.key = last.model.key
      BY <3>1 DEF Shape
    <3>3. m.sel = last.model.sel
      BY <1>2, <2>3, <2>13
    <3> QED BY <2>6, <3>2, <3>3 DEF Shape, ApplyOp, EditObjects
  <2> QED BY <1>1, <2>1, <2>8, <2>9, <2>12, <2>13 DEF Consistent, Synced
<1>3. CASE ~CanMerge(b, op, cmp)
  <2> DEFINE r == RemoveRedoBackups(b)
  <2>1. AddMergeableOperation(b, m, op, cmp) = AddBackup(r, ApplyOp(m), op, cmp)
    BY <1>3 DEF AddMergeableOperation
  <2> HIDE DEF r
  <2>2. Kept(r, blk)
    BY RemoveRedoBackupsSound DEF Consistent, Kept, r
  <2>3. cmp \in Hash
    BY <1>1 DEF Hash, ObjectSelectionHash, Good, Model
  <2>4. ASSUME NEW e, e.model.sel = m.sel, e.compareData = cmp
        PROVE  HashFits(e, blk)
    <3>1. cmp = {} => m.sel = {}
      BY DEF ObjectSelectionHash
    <3> QED BY <2>4, <3>1 DEF HashFits, ObjectSelectionHash
  <2>5. HashFits([model |-> ApplyOp(m), optype |-> op, compareData |-> cmp], blk)
    BY <1>1, <2>4
  <2> QED BY <1>1, <2>1, <2>2, <2>3, <2>5, AddBackupKept
<1> QED BY <1>2, <1>3

\* The empty manager of the constructor.
LEMMA EmptyKept ==
  ASSUME NEW blk \in Blocks
  PROVE  Kept([backups |-> <<>>, position |-> 1,
               numBackups |-> DefaultNumBackups, drift |-> FALSE], blk)
<1> DEFINE b == [backups |-> <<>>, position |-> 1,
                 numBackups |-> DefaultNumBackups, drift |-> FALSE]
<1>1. <<>> \in Seq(Backup) /\ Len(<<>>) = 0
  OBVIOUS
<1>2. b \in Manager /\ b.backups = <<>> /\ b.position = 1 /\ b.numBackups = DefaultNumBackups
  BY <1>1, SizeAssumption DEF Manager
<1> HIDE DEF b
<1>3. Sound(b) /\ Entries(b) = {}
  BY <1>1, <1>2, SizeAssumption DEF Sound, PositionOK, IsEmpty, Entries
<1> QED BY <1>3 DEF Kept, b

\* A model put at a new place: no hash mentions an address there.
LEMMA PlacementKept ==
  ASSUME Kept(bm, block), NEW blk \in Placements
  PROVE  Kept(bm, blk) /\ blk \in Blocks
<1>1. blk \in Blocks
  BY DEF Placements
<1>2. ASSUME NEW e \in Entries(bm), ~Recycle
      PROVE  HashFits(e, blk)
  <2>1. e.compareData \subseteq Remembered
    <3>1. PICK i \in 1 .. Len(bm.backups) : e = bm.backups[i]
      BY DEF Entries
    <3>2. i \in DOMAIN bm.backups
      BY LenProperties DEF Kept, Sound, Manager
    <3> QED BY <3>1, <3>2 DEF Remembered
  <2>2. \A o \in Objects : AddrOf[blk][o] \notin e.compareData
    BY <1>2, <2>1 DEF Placements
  <2>3. HashFits(e, block)
    BY DEF Kept
  <2> QED BY <1>2, <2>2, <2>3 DEF HashFits
<1> QED BY <1>1, <1>2 DEF Kept, HashFits

\* The invariant says what the properties say.
LEMMA InvariantImplies ==
  ASSUME IInv
  PROVE  /\ TypeOK /\ PositionValid
         /\ ~Recycle => ShownIsRecorded /\ MergeSelectsTheSame
<1>1. TypeOK
  BY DEF IInv, Consistent, Kept, Sound, Good, TypeOK
<1>2. PositionValid
  BY LenProperties DEF IInv, Consistent, Kept, Sound, PositionOK, Manager, PositionValid
<1>3. ~Recycle => ShownIsRecorded
  BY DEF IInv, Consistent, Synced, ShownIsRecorded, Last
<1>4. ASSUME ~Recycle, NEW op \in MergeOps,
             CanMerge(bm, op, ObjectSelectionHash(block, model))
      PROVE  Last.model.sel = model.sel
  <2> DEFINE e == bm.backups[bm.position]
  <2>1. e \in Entries(bm)
    BY <1>4 DEF IInv, Consistent, Kept, Sound, PositionOK, CanMerge, Entries
  <2>2. /\ e.optype = op /\ e.compareData = ObjectSelectionHash(block, model)
        /\ HashFits(e, block) /\ Good(e.model) /\ Good(model)
    BY <1>4, <2>1 DEF CanMerge, IInv, Consistent, Kept
  <2> HIDE DEF e
  <2>3. e.optype # Atomic
    BY <2>2, AtomicAssumption
  <2>4. CASE model.sel = {}
    BY <1>4, <2>2, <2>3, <2>4 DEF HashFits, ObjectSelectionHash, Last, e
  <2>5. CASE model.sel # {}
    <3>1. PICK o \in model.sel : o \in Objects
      BY <2>2, <2>5 DEF Good, Model
    <3>2. AddrOf[block][o] \in e.compareData
      BY <2>2, <3>1 DEF ObjectSelectionHash
    <3> DEFINE Addresses(S) == {AddrOf[block][p] : p \in S}
    <3>3. Addresses(e.model.sel) = Addresses(model.sel)
      BY <1>4, <2>2, <2>3, <3>1, <3>2 DEF HashFits, ObjectSelectionHash
    <3>4. e.model.sel \subseteq Objects /\ model.sel \subseteq Objects /\ block \in Blocks
      BY <2>2 DEF Good, Model, IInv
    <3>5. ASSUME NEW S \in SUBSET Objects, NEW T \in SUBSET Objects,
                 Addresses(S) \subseteq Addresses(T)
          PROVE  S \subseteq T
      <4> SUFFICES ASSUME NEW p \in S PROVE p \in T
        OBVIOUS
      <4>1. PICK q \in T : AddrOf[block][p] = AddrOf[block][q]
        BY <3>5
      <4> QED BY <3>4, <4>1, AddrAssumption
    <3> HIDE DEF Addresses
    <3>6. e.model.sel \subseteq model.sel /\ model.sel \subseteq e.model.sel
      BY <3>3, <3>4, <3>5
    <3> QED BY <3>6 DEF Last, e
  <2> QED BY <2>4, <2>5
<1> QED BY <1>1, <1>2, <1>3, <1>4 DEF MergeSelectsTheSame

\* The first backup point ("New model") establishes the invariant.
LEMMA InitInvariant == Init => IInv
<1> SUFFICES ASSUME Init PROVE IInv
  OBVIOUS
<1>1. Good(model)
  BY FreshGood DEF Init
<1>2. Consistent(bm, model, block)
  BY <1>1, EmptyKept, AddBackupPointKept DEF Init
<1> QED BY <1>2 DEF IInv, Init

-----------------------------------------------------------------------------
(* Every command keeps the invariant *)

\* A handler that ends with Update, at the place in use or at a new one.
LEMMA UpdateStep ==
  ASSUME NEW b, NEW m, IInv, Consistent(b, m, block'), Update(b, m),
         block' \in Blocks, autoKeying' \in BOOLEAN
  PROVE  IInv'
<1>1. Consistent(Noted(b, m), Keyed(m), block')
  BY UpdateKept DEF IInv
<1> QED BY <1>1 DEF Update, IInv

\* Edits that bypass the manager: the history flag says so.
LEMMA DriftConsistent ==
  ASSUME Kept(bm, block), NEW m, Good(m)
  PROVE  Consistent([bm EXCEPT !.drift = TRUE], m, block)
<1> DEFINE r == [bm EXCEPT !.drift = TRUE]
<1>1. /\ r.backups = bm.backups /\ r.position = bm.position
      /\ r.numBackups = bm.numBackups /\ r.drift = TRUE /\ r \in Manager
  BY DEF Kept, Sound, Manager
<1> HIDE DEF r
<1>2. Sound(r) /\ Entries(r) = Entries(bm) /\ Synced(r, m)
  BY <1>1 DEF Kept, Sound, PositionOK, IsEmpty, Entries, Synced
<1> QED BY <1>2 DEF Consistent, Kept, r

\* A clone of backup i is shown at a new place.
LEMMA ShowConsistent ==
  ASSUME Kept(bm, block), NEW i \in 1 .. Len(bm.backups), NEW blk \in Placements
  PROVE  Consistent([bm EXCEPT !.position = i, !.drift = FALSE], bm.backups[i].model, blk)
<1> DEFINE r == [bm EXCEPT !.position = i, !.drift = FALSE]
<1>1. /\ bm \in Manager /\ Len(bm.backups) \in Nat /\ Len(bm.backups) <= bm.numBackups
  BY EmptyLen DEF Kept, Sound
<1>2. /\ r.backups = bm.backups /\ r.position = i
      /\ r.numBackups = bm.numBackups /\ r \in Manager
  <2>1. i \in Nat
    BY <1>1
  <2> QED BY <1>1, <2>1 DEF Manager
<1> HIDE DEF r
<1>3. ~IsEmpty(r)
  BY <1>1, <1>2, EmptyLen
<1>4. Sound(r) /\ Entries(r) = Entries(bm) /\ Synced(r, bm.backups[i].model)
  BY <1>1, <1>2, <1>3 DEF Sound, PositionOK, Entries, Synced
<1>5. bm.backups[i] \in Entries(bm)
  BY DEF Entries
<1>6. Good(bm.backups[i].model) /\ Kept(bm, blk)
  BY <1>5, PlacementKept DEF Kept
<1> QED BY <1>4, <1>6 DEF Consistent, Kept, r

\* Undo, Redo and Goto: SetModel of a backup's clone.
LEMMA ShowStep ==
  ASSUME IInv, NEW i \in 1 .. Len(bm.backups), Show(i), UNCHANGED autoKeying
  PROVE  IInv'
<1> DEFINE b == [bm EXCEPT !.position = i, !.drift = FALSE]
<1>1. block' \in Placements /\ Update(b, b.backups[i].model)
  BY DEF Show
<1>2. b.backups = bm.backups
  BY DEF IInv, Consistent, Kept, Sound, Manager
<1>3. Consistent(b, bm.backups[i].model, block') /\ block' \in Blocks
  BY <1>1, ShowConsistent, PlacementKept DEF IInv, Consistent
<1> HIDE DEF b
<1> QED BY <1>1, <1>2, <1>3, UpdateStep DEF IInv

\* BACKUP_POINT and Update after an edit that leaves a good model.
LEMMA CommitStep ==
  ASSUME IInv, NEW m, Good(m), Commit(m), UNCHANGED <<block, autoKeying>>
  PROVE  IInv'
<1>1. Consistent(AddBackupPoint(bm, m), m, block)
  BY AddBackupPointKept DEF IInv, Consistent
<1> QED BY <1>1, UpdateStep DEF Commit, IInv

\* A model is replaced by one at a new place: SetModel with its Update.
LEMMA SetModelConsistent ==
  ASSUME IInv, NEW m, Good(m), NEW blk \in Placements
  PROVE  Consistent(AddBackupPoint(Noted(bm, m), Keyed(m)), Keyed(m), blk)
<1>1. Kept(bm, blk) /\ blk \in Blocks
  BY PlacementKept DEF IInv, Consistent
<1>2. Good(Keyed(m))
  BY KeysGood DEF Keyed
<1>3. Kept(Noted(bm, m), blk)
  BY <1>1, <1>2, AddBackupPointKept DEF Noted, Consistent
<1> QED BY <1>1, <1>2, <1>3, AddBackupPointKept

\* Every command keeps the invariant, one case per action.
LEMMA StepInvariant == IInv /\ [Next]_vars => IInv'
<1> SUFFICES ASSUME IInv, [Next]_vars PROVE IInv'
  OBVIOUS
<1>0. /\ Good(model) /\ Kept(bm, block) /\ Sound(bm) /\ Synced(bm, model)
      /\ Consistent(bm, model, block) /\ block \in Blocks /\ autoKeying \in BOOLEAN
  BY DEF IInv, Consistent, Kept
<1>1. ASSUME NEW S \in SUBSET Objects, Select(S) PROVE IInv'
  <2> DEFINE m == [model EXCEPT !.sel = S]
  <2>1. S \subseteq model.objs /\ Update(bm, m) /\ UNCHANGED <<block, autoKeying>>
    BY <1>1 DEF Select
  <2>2. Good(m) /\ Shape(m) = Shape(model)
    BY <1>0, <2>1 DEF Good, Model, Shape
  <2> HIDE DEF m
  <2>3. Consistent(bm, m, block)
    BY <1>0, <2>2 DEF Consistent, Synced
  <2> QED BY <1>0, <2>1, <2>3, UpdateStep
<1>2. ASSUME NEW op \in MergeOps, Drag(op) PROVE IInv'
  <2>1. ~Recycle /\ CanMerge(bm, op, ObjectSelectionHash(block, model))
          => bm.backups[bm.position].model.sel = model.sel
    BY InvariantImplies DEF MergeSelectsTheSame, Last
  <2>2. Consistent(AddMergeableOperation(bm, model, op, ObjectSelectionHash(block, model)),
                   ApplyOp(model), block)
    BY <1>0, <2>1, AddMergeableOperationKept
  <2> QED BY <1>0, <1>2, <2>2, UpdateStep DEF Drag
<1>3. CASE EditSelected
  BY <1>0, <1>3, EditObjectsGood, CommitStep DEF EditSelected
<1>4. ASSUME NEW S \in SUBSET Objects, Optimize(S) PROVE IInv'
  <2>1. Good(EditObjects(model, S))
    BY <1>0, EditObjectsGood
  <2> QED BY <1>0, <1>4, <2>1, AddBackupPointKept DEF Optimize, Quiet, IInv
<1>5. ASSUME NEW o \in Objects, AddObject(o) PROVE IInv'
  <2>1. Good([model EXCEPT !.objs = @ \cup {o}])
    BY <1>0 DEF Good, Model
  <2> QED BY <1>0, <1>5, <2>1, CommitStep DEF AddObject
<1>6. ASSUME NEW S \in SUBSET Objects, DeleteSelection(S) PROVE IInv'
  BY <1>0, <1>6, RemoveObjectsGood, CommitStep DEF DeleteSelection
<1>7. CASE New
  <2>1. Good(Fresh({}))
    BY FreshGood
  <2>2. block' \in Placements /\ block' \in Blocks
    BY <1>7 DEF New, Placements
  <2> QED BY <1>0, <1>7, <2>1, <2>2, SetModelConsistent DEF New, Quiet, IInv
<1>8. ASSUME NEW S \in (SUBSET Objects) \ {{}}, Load(S) PROVE IInv'
  <2>1. Good(Fresh(S))
    BY FreshGood
  <2>2. block' \in Placements /\ block' \in Blocks /\ autoKeying' = autoKeying
    BY <1>8 DEF Load, Placements
  <2>3. Consistent(AddBackupPoint(Noted(bm, Fresh(S)), Keyed(Fresh(S))), Keyed(Fresh(S)), block')
    BY <2>1, <2>2, SetModelConsistent
  <2> QED BY <1>0, <1>8, <2>2, <2>3, UpdateStep DEF Load
<1>9. ASSUME NEW i \in DOMAIN bm.backups, Show(i), UNCHANGED autoKeying PROVE IInv'
  <2>1. i \in 1 .. Len(bm.backups)
    BY <1>0, LenProperties DEF Sound, Manager
  <2> QED BY <1>9, <2>1, ShowStep
<1>10. CASE Undo
  <2>1. bm.position - 1 \in DOMAIN bm.backups
    BY <1>0, <1>10, LenProperties DEF Undo, HasUndo, Sound, PositionOK, Manager
  <2> QED BY <1>9, <1>10, <2>1 DEF Undo
<1>11. CASE Redo
  <2>1. bm.position + 1 \in DOMAIN bm.backups
    BY <1>0, <1>11, LenProperties DEF Redo, HasRedo, Sound, PositionOK, Manager
  <2> QED BY <1>9, <1>11, <2>1 DEF Redo
<1>12. ASSUME NEW i \in DOMAIN bm.backups, Goto(i) PROVE IInv'
  BY <1>9, <1>12 DEF Goto
<1>13. ASSUME NEW S \in SUBSET Objects, FailedConversion(S) PROVE IInv'
  <2>1. CASE IsEmpty(bm)
    BY <1>0, <1>13, <2>1, EditObjectsGood, DriftConsistent, UpdateStep DEF FailedConversion
  <2>2. CASE ~IsEmpty(bm)
    <3> DEFINE b == [bm EXCEPT !.drift = FALSE]
               m == b.backups[b.position].model
    <3>1. /\ bm.position \in 1 .. Len(bm.backups) /\ b.backups = bm.backups
          /\ b.position = bm.position /\ b = [bm EXCEPT !.position = bm.position, !.drift = FALSE]
      BY <1>0, <2>2 DEF Sound, PositionOK, Manager
    <3>2. block' \in Placements /\ Update(Noted(b, m), Keyed(m)) /\ autoKeying' = autoKeying
      BY <1>13, <2>2 DEF FailedConversion
    <3> HIDE DEF b
    <3>3. Consistent(b, m, block') /\ block' \in Blocks
      BY <1>0, <3>1, <3>2, ShowConsistent, PlacementKept
    <3>4. Consistent(Noted(b, m), Keyed(m), block')
      BY <1>0, <3>3, UpdateKept
    <3> QED BY <1>0, <3>2, <3>3, <3>4, UpdateStep
  <2> QED BY <2>1, <2>2
<1>14. ASSUME NEW n \in BufferSizes, SetBufferSize(n) PROVE IInv'
  <2>1. n \in Nat
    BY SizeAssumption
  <2>2. Sound(SetNumBackups(bm, n)) /\ Entries(SetNumBackups(bm, n)) \subseteq Entries(bm)
        /\ Synced(SetNumBackups(bm, n), model)
    BY <1>0, <2>1, SetNumBackupsSound DEF Sound
  <2>3. Consistent(SetNumBackups(bm, n), model, block)
    BY <1>0, <2>2 DEF Consistent, Kept
  <2> QED BY <1>0, <1>14, <2>3, UpdateStep DEF SetBufferSize
<1>15. CASE InsertKeys
  <2> DEFINE m == InsertKeysHelper(model)
             b == IF m.objs # {} THEN Noted(bm, m) ELSE bm
  <2>1. Good(m)
    BY <1>0, KeysGood
  <2>2. Good(Keyed(m))
    BY <2>1, KeysGood DEF Keyed
  <2> HIDE DEF m
  <2>3. Kept(b, block)
    BY <1>0, <2>2, AddBackupPointKept DEF Noted, Consistent
  <2> HIDE DEF b
  <2>4. Consistent(AddBackupPoint(b, m), m, block)
    BY <1>0, <2>1, <2>3, AddBackupPointKept
  <2> QED BY <1>0, <1>15, <2>4 DEF InsertKeys, Quiet, IInv, m, b
<1>16. CASE ToggleAutoKeying
  BY <1>0, <1>16, ModeAssumption DEF ToggleAutoKeying, IInv
<1>17. CASE Animate
  BY <1>0, <1>17, KeysGood, DriftConsistent, UpdateStep DEF Animate
<1>18. CASE Rotator
  BY <1>0, <1>18, EditObjectsGood, DriftConsistent, UpdateStep DEF Rotator
<1>19. CASE UNCHANGED vars
  BY <1>19 DEF vars, IInv
<1> QED BY <1>1, <1>2, <1>3, <1>4, <1>5, <1>6, <1>7, <1>8, <1>10, <1>11, <1>12, <1>13,
           <1>14, <1>15, <1>16, <1>17, <1>18, <1>19 DEF Next

-----------------------------------------------------------------------------
(* What the functions on the manager make of its list *)

\* The list of r is that of b without its d oldest backups and with entry at its end, where
\* the position is.
Appended(b, r, entry, d) ==
  /\ Len(r.backups) = Len(b.backups) + 1 - d
  /\ \A i \in 1 .. Len(b.backups) : i > d => r.backups[i - d] = b.backups[i]
  /\ Len(r.backups) > 0 =>
       r.position = Len(r.backups) /\ r.backups[r.position] = entry

\* A sound manager after one more backup: the oldest one went if the list was full.
LEMMA AddBackupIs ==
  ASSUME NEW b, Sound(b), NEW m \in Model, NEW op \in MergeOps \cup {Atomic}, NEW cmp \in Hash
  PROVE  /\ Sound(AddBackup(b, m, op, cmp))
         /\ AddBackup(b, m, op, cmp).numBackups = b.numBackups
         /\ \E d \in {0, 1} :
              /\ d = 1 => Len(b.backups) = b.numBackups
              /\ Appended(b, AddBackup(b, m, op, cmp),
                          [model |-> m, optype |-> op, compareData |-> cmp], d)
<1> DEFINE entry == [model |-> m, optype |-> op, compareData |-> cmp]
           s     == Append(b.backups, entry)
           size  == Len(b.backups) + 1
           n     == b.numBackups
           d     == IF size > n THEN size - n ELSE 0
           c     == [b EXCEPT !.backups = s, !.position = size, !.drift = FALSE]
           r     == AddBackup(b, m, op, cmp)
<1>1. /\ b \in Manager /\ Len(b.backups) \in Nat /\ Len(b.backups) <= n
      /\ b.backups \in Seq(Backup) /\ n \in Nat
  BY EmptyLen DEF Sound, Manager
<1>2. entry \in Backup
  BY DEF Backup
<1>3. /\ s \in Seq(Backup) /\ Len(s) = size /\ s[size] = entry
      /\ \A i \in 1 .. Len(b.backups) : s[i] = b.backups[i]
  BY <1>1, <1>2, AppendProperties
<1>4. r = SetNumBackups(c, n)
  BY DEF AddBackup
<1> HIDE DEF entry, s
<1>5. size \in Nat
  BY <1>1
<1>6. c.backups = s /\ c.position = size /\ c.numBackups = n /\ c.drift = FALSE /\ c \in Manager
  <2>1. ASSUME NEW p \in Nat, NEW q,
               q = [b EXCEPT !.backups = s, !.position = p, !.drift = FALSE]
        PROVE  /\ q.backups = s /\ q.position = p /\ q.numBackups = n
               /\ q.drift = FALSE /\ q \in Manager
    BY <1>1, <1>3, <2>1 DEF Manager
  <2> QED BY <1>5, <2>1, Zenon
<1> HIDE DEF c, r
<1>7. PositionOK(c)
  BY <1>1, <1>3, <1>6, EmptyLen DEF PositionOK
<1>8. Sound(r) /\ r.numBackups = n
  BY <1>1, <1>4, <1>6, <1>7, SetNumBackupsSound
<1>9. /\ r.backups = SubSeq(s, d + 1, size)
      /\ r.position = IF size > d THEN size - d ELSE 1
  <2>1. Len(c.backups) = size
    BY <1>3, <1>6
  <2>2. r = [backups    |-> SubSeq(c.backups, d + 1, Len(c.backups)),
             position   |-> IF c.position > d THEN c.position - d ELSE 1,
             numBackups |-> n,
             drift      |-> c.drift \/ c.position <= d]
    BY <1>4, <2>1 DEF SetNumBackups
  <2> HIDE DEF d
  <2>3. r.backups = SubSeq(c.backups, d + 1, Len(c.backups))
    BY <2>2
  <2>4. r.position = IF c.position > d THEN c.position - d ELSE 1
    BY <2>2
  <2> QED BY <1>6, <2>1, <2>3, <2>4
<1>10. d \in {0, 1} /\ d \in 0 .. size /\ (d = 1 => Len(b.backups) = n)
  BY <1>1
<1> HIDE DEF d
<1>11. /\ Len(r.backups) = size - d
       /\ \A i \in 1 .. size - d : r.backups[i] = s[d + i]
  BY <1>3, <1>9, <1>10, SuffixProperties
<1>12. ASSUME NEW i \in 1 .. Len(b.backups), i > d
       PROVE  r.backups[i - d] = b.backups[i]
  <2>1. i - d \in 1 .. size - d /\ d + (i - d) = i
    BY <1>1, <1>10, <1>12
  <2> QED BY <1>3, <1>11, <2>1
<1>13. ASSUME Len(r.backups) > 0
       PROVE  r.position = Len(r.backups) /\ r.backups[r.position] = entry
  <2>1. r.position = size - d /\ size - d \in 1 .. size - d /\ d + (size - d) = size
    BY <1>1, <1>9, <1>10, <1>11, <1>13
  <2> QED BY <1>3, <1>11, <2>1
<1>14. Appended(b, r, entry, d)
  <2>1. Len(r.backups) = Len(b.backups) + 1 - d
    BY <1>1, <1>10, <1>11
  <2> HIDE DEF size, n
  <2> QED BY <1>12, <1>13, <2>1 DEF Appended
<1> QED BY <1>8, <1>10, <1>14 DEF entry, r

\* The backups of b up to p, but for the d oldest ones, are before the position of r.
Shifted(b, r, p, d) ==
  \A i \in 1 .. Len(b.backups) :
    i <= p /\ i > d => i - d < r.position /\ r.backups[i - d] = b.backups[i]

\* A sound manager after a backup point, if there is room for one: the backups up to the
\* position are followed by the new one.
LEMMA AddBackupPointIs ==
  ASSUME NEW b, Sound(b), NEW m \in Model, NEW r, r = AddBackupPoint(b, m)
  PROVE  /\ Sound(r) /\ r.numBackups = b.numBackups
         /\ b.numBackups <= 1 => r.backups = b.backups /\ r.position = b.position
         /\ b.numBackups > 1 =>
              /\ ~IsEmpty(r) /\ r.position = Len(r.backups)
              /\ r.backups[r.position].model = m
              /\ \E d \in {0, 1} :
                   /\ Len(r.backups) = (IF IsEmpty(b) THEN 0 ELSE b.position) + 1 - d
                   /\ d = 1 => Len(r.backups) = r.numBackups
                   /\ Shifted(b, r, b.position, d)
<1>1. CASE b.numBackups <= 1
  <2>1. r = [b EXCEPT !.drift = TRUE] /\ b \in Manager
    BY <1>1 DEF AddBackupPoint, Sound
  <2>2. /\ r \in Manager /\ r.backups = b.backups /\ r.position = b.position
        /\ r.numBackups = b.numBackups
    BY <2>1 DEF Manager
  <2>3. b.numBackups \in Nat
    BY <2>1 DEF Manager
  <2> QED BY <1>1, <2>2, <2>3 DEF Sound, PositionOK, IsEmpty
<1>2. CASE ~(b.numBackups <= 1)
  <2> DEFINE k == RemoveRedoBackups(b)
  <2>1. r = AddBackup(k, m, Atomic, {}) /\ {} \in Hash
    BY <1>2 DEF AddBackupPoint, Hash
  <2>2. /\ Sound(k) /\ k.numBackups = b.numBackups /\ (IsEmpty(k) <=> IsEmpty(b))
        /\ ~IsEmpty(b) => Len(k.backups) = b.position
    BY RemoveRedoBackupsSound
  <2>3. ASSUME ~IsEmpty(b), NEW i \in 1 .. b.position
        PROVE  k.backups[i] = b.backups[i]
    <3>1. /\ b \in Manager /\ b.position \in 1 .. Len(b.backups) /\ b.backups \in Seq(Backup)
          /\ k = [b EXCEPT !.backups = SubSeq(b.backups, 1, b.position)]
      BY <2>3 DEF Sound, PositionOK, Manager, RemoveRedoBackups
    <3>2. k.backups = SubSeq(b.backups, 1, b.position)
      BY <3>1 DEF Manager
    <3> HIDE DEF k
    <3> QED BY <3>1, <3>2, PrefixProperties
  <2> HIDE DEF k
  <2> DEFINE entry == [model |-> m, optype |-> Atomic, compareData |-> {}]
  <2> DEFINE a == AddBackup(k, m, Atomic, {})
  <2>11. /\ Sound(a) /\ a.numBackups = k.numBackups
         /\ \E d \in {0, 1} : (d = 1 => Len(k.backups) = k.numBackups) /\ Appended(k, a, entry, d)
    <3>1. Atomic \in MergeOps \cup {Atomic}
      OBVIOUS
    <3> QED BY <2>1, <2>2, <3>1, AddBackupIs, Zenon
  <2>4. Sound(r) /\ r.numBackups = b.numBackups
    BY <2>1, <2>2, <2>11
  <2> HIDE DEF entry
  <2>5. PICK d \in {0, 1} : (d = 1 => Len(k.backups) = b.numBackups) /\ Appended(k, r, entry, d)
    BY <2>1, <2>2, <2>11
  <2>6. /\ Len(k.backups) \in Nat /\ Len(b.backups) \in Nat /\ b.numBackups \in Nat
        /\ IsEmpty(b) <=> Len(b.backups) = 0
        /\ IsEmpty(k) <=> Len(k.backups) = 0
        /\ IsEmpty(r) <=> Len(r.backups) = 0
    BY <2>2, <2>4, EmptyLen DEF Sound, Manager
  <2>7. Len(r.backups) > 0 /\ r.position = Len(r.backups) /\ r.backups[r.position].model = m
    BY <1>2, <2>5, <2>6 DEF Appended, entry
  <2>8. ASSUME NEW i \in 1 .. Len(b.backups), i <= b.position, i > d
        PROVE  i - d < r.position /\ r.backups[i - d] = b.backups[i]
    <3>1. ~IsEmpty(b) /\ Len(k.backups) = b.position /\ b.position \in Nat
      BY <2>2, <2>6 DEF Sound, Manager
    <3>2. i \in 1 .. b.position
      BY <2>6, <2>8, <3>1
    <3> QED BY <2>3, <2>5, <2>6, <2>7, <2>8, <3>1, <3>2 DEF Appended
  <2>9. /\ d = 1 => Len(r.backups) = r.numBackups
        /\ Len(r.backups) = (IF IsEmpty(b) THEN 0 ELSE b.position) + 1 - d
    BY <2>2, <2>4, <2>5, <2>6 DEF Appended
  <2>10. Shifted(b, r, b.position, d)
    BY <2>8 DEF Shifted
  <2> QED BY <1>2, <2>4, <2>6, <2>7, <2>9, <2>10
<1> QED BY <1>1, <1>2

-----------------------------------------------------------------------------
(* What a command leaves of the list *)

\* The list has no room, and its position is at its end.
FullAtEnd(c) == /\ Len(c.backups) = c.numBackups
                /\ IsEmpty(c) \/ c.position = Len(c.backups)

\* Manager c still has the backups before the position, but for oldest ones that it has
\* no room for.
StillHas(c) == \E d \in Nat : /\ d > 0 => FullAtEnd(c)
                              /\ Shifted(bm, c, bm.position - 1, d)

\* Managers that differ from bm by their flag, or by a later position.
LEMMA SameStillHas ==
  ASSUME Sound(bm), NEW c, Sound(c), c.backups = bm.backups, c.position >= bm.position
  PROVE  StillHas(c)
<1>1. bm.position \in Nat /\ c.position \in Nat /\ Len(bm.backups) \in Nat
  BY EmptyLen DEF Sound, Manager
<1>2. Shifted(bm, c, bm.position - 1, 0)
  BY <1>1 DEF Shifted
<1> QED BY <1>2 DEF StillHas

\* A backup point loses nothing but what there is no room for, also when it is not the
\* first one that a command makes.
LEMMA PointStillHas ==
  ASSUME Sound(bm), NEW b, Sound(b), StillHas(b), NEW m \in Model
  PROVE  Sound(AddBackupPoint(b, m)) /\ StillHas(AddBackupPoint(b, m))
<1> DEFINE r == AddBackupPoint(b, m)
<1>1. PICK d \in Nat : (d > 0 => FullAtEnd(b)) /\ Shifted(bm, b, bm.position - 1, d)
  BY DEF StillHas
<1>2. /\ Len(bm.backups) \in Nat /\ bm.position \in Nat
      /\ Len(b.backups) \in Nat /\ b.position \in Nat /\ b.numBackups \in Nat
      /\ IsEmpty(b) <=> Len(b.backups) = 0
      /\ PositionOK(b)
  BY EmptyLen DEF Sound, Manager
<1>3. Sound(r) /\ r.numBackups = b.numBackups
  BY AddBackupPointIs
<1>4. CASE b.numBackups <= 1
  <2>1. r.backups = b.backups /\ r.position = b.position
    BY <1>4, AddBackupPointIs
  <2> HIDE DEF r
  <2>2. Shifted(bm, r, bm.position - 1, d)
    BY <1>1, <2>1 DEF Shifted
  <2>3. d > 0 => FullAtEnd(r)
    BY <1>1, <1>3, <2>1 DEF FullAtEnd, IsEmpty
  <2> QED BY <1>3, <2>2, <2>3 DEF StillHas, r
<1>5. CASE ~(b.numBackups <= 1)
  <2>1. /\ ~IsEmpty(r) /\ r.position = Len(r.backups)
        /\ \E e \in {0, 1} :
             /\ Len(r.backups) = (IF IsEmpty(b) THEN 0 ELSE b.position) + 1 - e
             /\ e = 1 => Len(r.backups) = r.numBackups
             /\ Shifted(b, r, b.position, e)
    BY <1>2, <1>5, AddBackupPointIs
  <2> HIDE DEF r
  <2>2. PICK e \in {0, 1} :
             /\ Len(r.backups) = (IF IsEmpty(b) THEN 0 ELSE b.position) + 1 - e
             /\ e = 1 => Len(r.backups) = r.numBackups
             /\ Shifted(b, r, b.position, e)
    BY <2>1
  <2>3. Len(r.backups) <= r.numBackups /\ Len(r.backups) \in Nat /\ r.numBackups \in Nat
    BY <1>3, EmptyLen DEF Sound, Manager
  <2>4. d > 0 => e = 1
    BY <1>1, <1>2, <1>3, <1>5, <2>2, <2>3 DEF FullAtEnd
  <2>5. d + e > 0 => FullAtEnd(r)
    BY <2>1, <2>2, <2>4 DEF FullAtEnd
  <2>6. ASSUME NEW i \in 1 .. Len(bm.backups), i <= bm.position - 1, i > d + e
        PROVE  i - (d + e) < r.position /\ r.backups[i - (d + e)] = bm.backups[i]
    <3>1. i - d < b.position /\ b.backups[i - d] = bm.backups[i]
      BY <1>1, <1>2, <2>6 DEF Shifted
    <3>2. i - d \in 1 .. Len(b.backups) /\ i - d <= b.position /\ i - d > e
      BY <1>2, <2>6, <3>1 DEF PositionOK
    <3>3. (i - d) - e < r.position /\ r.backups[(i - d) - e] = b.backups[i - d]
      BY <2>2, <3>2 DEF Shifted
    <3>4. (i - d) - e = i - (d + e)
      BY <1>2
    <3> QED BY <3>1, <3>3, <3>4
  <2>7. Shifted(bm, r, bm.position - 1, d + e)
    BY <2>6 DEF Shifted
  <2>8. d + e \in Nat
    OBVIOUS
  <2>9. StillHas(r)
    BY <2>5, <2>7, <2>8 DEF StillHas
  <2> QED BY <1>3, <2>9 DEF r
<1> QED BY <1>4, <1>5

\* So does Update, whether it makes a backup point or not.
LEMMA NotedStillHas ==
  ASSUME Sound(bm), NEW b, Sound(b), StillHas(b), NEW m, Good(m)
  PROVE  Sound(Noted(b, m)) /\ StillHas(Noted(b, m)) /\ Good(Keyed(m))
<1>1. Good(Keyed(m))
  BY KeysGood DEF Keyed
<1> QED BY <1>1, PointStillHas DEF Noted, Good

\* A drag edits the backup at the position, or makes a new one.
LEMMA DragStillHas ==
  ASSUME Sound(bm), NEW m, Good(m), NEW op \in MergeOps, NEW cmp \in Hash,
         Sound(AddMergeableOperation(bm, m, op, cmp))
  PROVE  StillHas(AddMergeableOperation(bm, m, op, cmp))
<1> DEFINE k == RemoveRedoBackups(bm)
           p == bm.position
<1>1. /\ bm \in Manager /\ Len(bm.backups) \in Nat /\ p \in Nat /\ bm.backups \in Seq(Backup)
      /\ bm.numBackups \in Nat
      /\ IsEmpty(bm) <=> Len(bm.backups) = 0
      /\ PositionOK(bm)
  BY EmptyLen DEF Sound, Manager
<1>2. /\ Sound(k) /\ k.numBackups = bm.numBackups /\ k.position = p
      /\ IsEmpty(k) <=> IsEmpty(bm)
      /\ ~IsEmpty(bm) => Len(k.backups) = p
  BY RemoveRedoBackupsSound
<1>3. ASSUME NEW i \in 1 .. Len(bm.backups), i <= p
      PROVE  k.backups[i] = bm.backups[i]
  <2>1. ~IsEmpty(bm) /\ p \in 1 .. Len(bm.backups) /\ i \in 1 .. p
    BY <1>1, <1>3 DEF PositionOK
  <2>2. k.backups = SubSeq(bm.backups, 1, p)
    BY <1>1, <2>1 DEF RemoveRedoBackups, Manager
  <2> HIDE DEF k
  <2> QED BY <1>1, <2>1, <2>2, PrefixProperties
<1>4. CASE CanMerge(bm, op, cmp)
  <2> DEFINE r == MergeLast(bm)
             new == [k.backups[p] EXCEPT !.model = ApplyOp(@)]
             s == [k.backups EXCEPT ![p] = new]
  <2>1. AddMergeableOperation(bm, m, op, cmp) = r /\ r = [k EXCEPT !.backups = s]
    BY <1>4 DEF AddMergeableOperation, MergeLast
  <2>2. k \in Manager /\ k.backups \in Seq(Backup) /\ Len(k.backups) = p /\ p \in 1 .. p
    BY <1>1, <1>2, <1>4 DEF CanMerge, Sound, Manager, PositionOK
  <2> HIDE DEF k, new
  <2>3. \A i \in 1 .. p - 1 : s[i] = k.backups[i]
    BY <2>2
  <2> HIDE DEF s
  <2>4. r.backups = s /\ r.position = p
    BY <1>2, <2>1, <2>2 DEF Manager
  <2> HIDE DEF r
  <2>5. Shifted(bm, r, p - 1, 0)
    <3> SUFFICES ASSUME NEW i \in 1 .. Len(bm.backups), i <= p - 1
                 PROVE  i - 0 < r.position /\ r.backups[i - 0] = bm.backups[i]
      BY DEF Shifted
    <3>1. i \in 1 .. p - 1 /\ i <= p /\ i - 0 = i
      BY <1>1
    <3> QED BY <1>1, <1>3, <2>3, <2>4, <3>1
  <2> QED BY <2>1, <2>5 DEF StillHas
<1>5. CASE ~CanMerge(bm, op, cmp)
  <2> DEFINE r == AddBackup(k, ApplyOp(m), op, cmp)
             entry == [model |-> ApplyOp(m), optype |-> op, compareData |-> cmp]
  <2>1. AddMergeableOperation(bm, m, op, cmp) = r
    BY <1>5 DEF AddMergeableOperation
  <2>2. ApplyOp(m) \in Model
    BY EditObjectsGood DEF ApplyOp, Good
  <2> HIDE DEF k
  <2>3. /\ Sound(r) /\ r.numBackups = k.numBackups
        /\ \E d \in {0, 1} : (d = 1 => Len(k.backups) = k.numBackups) /\ Appended(k, r, entry, d)
    BY <1>2, <2>2, AddBackupIs
  <2> HIDE DEF r, entry
  <2>4. PICK d \in {0, 1} : (d = 1 => Len(k.backups) = k.numBackups) /\ Appended(k, r, entry, d)
    BY <2>3
  <2>5. /\ Len(r.backups) \in Nat /\ Len(k.backups) \in Nat
        /\ IsEmpty(r) <=> Len(r.backups) = 0
        /\ IsEmpty(k) <=> Len(k.backups) = 0
    BY <1>2, <2>3, EmptyLen DEF Sound
  <2>6. d > 0 => FullAtEnd(r)
    BY <2>3, <2>4, <2>5 DEF Appended, FullAtEnd
  <2>7. Shifted(bm, r, p - 1, d)
    <3> SUFFICES ASSUME NEW i \in 1 .. Len(bm.backups), i <= p - 1, i > d
                 PROVE  i - d < r.position /\ r.backups[i - d] = bm.backups[i]
      BY DEF Shifted
    <3>1. ~IsEmpty(bm) /\ Len(k.backups) = p /\ i \in 1 .. Len(k.backups) /\ i <= p
      BY <1>1, <1>2
    <3>2. Len(r.backups) = p + 1 - d /\ Len(r.backups) > 0 /\ i - d < Len(r.backups)
      BY <1>1, <2>4, <3>1 DEF Appended
    <3> QED BY <1>3, <2>4, <3>1, <3>2 DEF Appended
  <2> QED BY <2>1, <2>6, <2>7 DEF StillHas
<1> QED BY <1>4, <1>5

\* A command ends with Update, or makes a backup point as its last act; all that came
\* before it kept what can be undone.
Updates(b, m) == Sound(b) /\ StillHas(b) /\ Good(m) /\ Update(b, m)
Records(b, m) == Sound(b) /\ StillHas(b) /\ Good(m) /\ Quiet(AddBackupPoint(b, m), m)

\* Going back is set apart, as it is in PastIsKept.
GoesBack == Undo \/ \E i \in DOMAIN bm.backups : Goto(i)

\* What the commands other than Undo, Goto, SetBufferSize and the box come down to.
LEMMA CommandIs ==
  ASSUME IInv, Next, ~GoesBack, ~(\E n \in BufferSizes : SetBufferSize(n)), ~ToggleAutoKeying
  PROVE  \E b, m : Updates(b, m) \/ Records(b, m)
<1>1. /\ Sound(bm) /\ StillHas(bm) /\ Good(model) /\ Kept(bm, block) /\ block \in Blocks
      /\ Consistent(bm, model, block) /\ bm \in Manager /\ bm.position \in Nat
  BY SameStillHas DEF IInv, Consistent, Kept, Sound, Manager
<1>2. ASSUME NEW m, Good(m)
      PROVE  Sound(AddBackupPoint(bm, m)) /\ StillHas(AddBackupPoint(bm, m))
  BY <1>1, <1>2, PointStillHas DEF Good
<1>3. Sound([bm EXCEPT !.drift = TRUE]) /\ StillHas([bm EXCEPT !.drift = TRUE])
  <2> DEFINE r == [bm EXCEPT !.drift = TRUE]
  <2>1. /\ r.backups = bm.backups /\ r.position = bm.position
        /\ r.numBackups = bm.numBackups /\ r \in Manager
    BY <1>1 DEF Manager
  <2> HIDE DEF r
  <2>2. Sound(r)
    BY <1>1, <2>1 DEF Sound, PositionOK, IsEmpty
  <2>3. StillHas(r)
    BY <1>1, <2>1, <2>2, SameStillHas
  <2> QED BY <2>2, <2>3 DEF r
<1>4. ASSUME NEW i \in DOMAIN bm.backups, i >= bm.position
      PROVE  LET r == [bm EXCEPT !.position = i, !.drift = FALSE]
             IN  /\ Sound(r) /\ StillHas(r) /\ r.backups = bm.backups
                 /\ Good(bm.backups[i].model)
  <2> DEFINE r == [bm EXCEPT !.position = i, !.drift = FALSE]
  <2>1. /\ DOMAIN bm.backups = 1 .. Len(bm.backups) /\ Len(bm.backups) \in Nat
        /\ bm.backups # <<>>
    BY <1>1, <1>4, LenProperties, EmptySeq DEF Manager
  <2>2. i \in Nat /\ i \in 1 .. Len(bm.backups)
    BY <1>4, <2>1
  <2>3. /\ r.backups = bm.backups /\ r.position = i
        /\ r.numBackups = bm.numBackups /\ r \in Manager
    BY <1>1, <2>2 DEF Manager
  <2> HIDE DEF r
  <2>4. Sound(r)
    BY <1>1, <2>1, <2>2, <2>3 DEF Sound, PositionOK, IsEmpty
  <2>5. StillHas(r)
    BY <1>1, <1>4, <2>3, <2>4, SameStillHas
  <2>6. bm.backups[i] \in Entries(bm)
    BY <2>2 DEF Entries
  <2>7. Good(bm.backups[i].model)
    BY <1>1, <2>6 DEF Kept
  <2> QED BY <2>3, <2>4, <2>5, <2>7 DEF r
<1>5. ASSUME NEW S \in SUBSET Objects, Select(S)
      PROVE  \E b, m : Updates(b, m)
  <2>1. Good([model EXCEPT !.sel = S])
    BY <1>1, <1>5 DEF Select, Good, Model
  <2>2. Updates(bm, [model EXCEPT !.sel = S])
    BY <1>1, <1>5, <2>1 DEF Select, Updates
  <2> QED BY <2>2
<1>6. ASSUME NEW op \in MergeOps, Drag(op)
      PROVE  \E b, m : Updates(b, m)
  <2> DEFINE cmp == ObjectSelectionHash(block, model)
             b == AddMergeableOperation(bm, model, op, cmp)
  <2>1. ~Recycle /\ CanMerge(bm, op, cmp) => bm.backups[bm.position].model.sel = model.sel
    BY InvariantImplies DEF MergeSelectsTheSame, Last
  <2>2. Consistent(b, ApplyOp(model), block)
    BY <1>1, <2>1, AddMergeableOperationKept
  <2>3. cmp \in Hash
    BY <1>1 DEF Hash, ObjectSelectionHash, Good, Model
  <2>4. Sound(b) /\ Good(ApplyOp(model))
    BY <2>2 DEF Consistent, Kept
  <2> HIDE DEF cmp
  <2>5. StillHas(b)
    BY <1>1, <2>3, <2>4, DragStillHas
  <2>6. Update(b, ApplyOp(model))
    BY <1>6 DEF Drag, cmp
  <2> QED BY <2>4, <2>5, <2>6 DEF Updates
<1>7. ASSUME NEW m, Good(m), Commit(m)
      PROVE  \E b, x : Updates(b, x)
  BY <1>2, <1>7 DEF Commit, Updates
<1>8. CASE EditSelected
  BY <1>1, <1>7, <1>8, EditObjectsGood DEF EditSelected
<1>9. ASSUME NEW S \in SUBSET Objects, Optimize(S)
      PROVE  \E b, m : Records(b, m)
  BY <1>1, <1>9, EditObjectsGood DEF Optimize, Records
<1>10. ASSUME NEW o \in Objects, AddObject(o)
       PROVE  \E b, m : Updates(b, m)
  <2>1. Good([model EXCEPT !.objs = @ \cup {o}])
    BY <1>1 DEF Good, Model
  <2> QED BY <1>1, <1>7, <1>10, <2>1 DEF AddObject
<1>11. ASSUME NEW S \in SUBSET Objects, DeleteSelection(S)
       PROVE  \E b, m : Updates(b, m)
  BY <1>1, <1>7, <1>11, RemoveObjectsGood DEF DeleteSelection
<1>12. ASSUME NEW S \in SUBSET Objects
       PROVE  /\ Good(Fresh(S)) /\ Good(Keyed(Fresh(S)))
              /\ Sound(Noted(bm, Fresh(S))) /\ StillHas(Noted(bm, Fresh(S)))
              /\ Sound(AddBackupPoint(Noted(bm, Fresh(S)), Keyed(Fresh(S))))
              /\ StillHas(AddBackupPoint(Noted(bm, Fresh(S)), Keyed(Fresh(S))))
  <2>1. Good(Fresh(S))
    BY FreshGood
  <2>2. /\ Sound(Noted(bm, Fresh(S))) /\ StillHas(Noted(bm, Fresh(S)))
        /\ Good(Keyed(Fresh(S)))
    BY <1>1, <2>1, NotedStillHas
  <2> QED BY <1>1, <2>1, <2>2, PointStillHas DEF Good
<1>13. CASE New
  <2>1. Quiet(AddBackupPoint(Noted(bm, Fresh({})), Keyed(Fresh({}))), Keyed(Fresh({})))
    BY <1>13 DEF New
  <2> QED BY <1>12, <2>1 DEF Records
<1>14. ASSUME NEW S \in (SUBSET Objects) \ {{}}, Load(S)
       PROVE  \E b, m : Updates(b, m)
  <2>1. Update(AddBackupPoint(Noted(bm, Fresh(S)), Keyed(Fresh(S))), Keyed(Fresh(S)))
    BY <1>14 DEF Load
  <2> QED BY <1>12, <2>1 DEF Updates
<1>15. CASE Redo
  <2> DEFINE b == [bm EXCEPT !.position = bm.position + 1, !.drift = FALSE]
  <2>1. bm.position + 1 \in DOMAIN bm.backups /\ bm.position + 1 >= bm.position
    BY <1>1, <1>15, LenProperties DEF Redo, HasRedo, Sound, PositionOK, Manager
  <2>2. Update(b, b.backups[bm.position + 1].model)
    BY <1>15 DEF Redo, Show
  <2> HIDE DEF b
  <2>3. Sound(b) /\ StillHas(b) /\ Good(b.backups[bm.position + 1].model)
    BY <1>4, <2>1 DEF b
  <2> QED BY <2>2, <2>3 DEF Updates
<1>16. ASSUME NEW S \in SUBSET Objects, FailedConversion(S)
       PROVE  \E b, m : Updates(b, m)
  <2>1. CASE IsEmpty(bm)
    BY <1>1, <1>3, <1>16, <2>1, EditObjectsGood DEF FailedConversion, Updates
  <2>2. CASE ~IsEmpty(bm)
    <3> DEFINE b == [bm EXCEPT !.drift = FALSE]
               m == b.backups[b.position].model
    <3>1. /\ bm.position \in DOMAIN bm.backups /\ b.position = bm.position
          /\ b = [bm EXCEPT !.position = bm.position, !.drift = FALSE]
      BY <1>1, <2>2, LenProperties DEF Sound, PositionOK, Manager
    <3>2. Update(Noted(b, m), Keyed(m))
      BY <1>16, <2>2 DEF FailedConversion
    <3>3. bm.position >= bm.position
      BY <1>1
    <3>4. /\ Sound(b) /\ StillHas(b) /\ b.backups = bm.backups
          /\ Good(bm.backups[bm.position].model)
      BY <1>4, <3>1, <3>3
    <3> HIDE DEF b
    <3>5. Good(m)
      BY <3>1, <3>4
    <3> HIDE DEF m
    <3>6. Sound(Noted(b, m)) /\ StillHas(Noted(b, m)) /\ Good(Keyed(m))
      BY <1>1, <3>4, <3>5, NotedStillHas
    <3> QED BY <3>2, <3>6 DEF Updates
  <2> QED BY <2>1, <2>2
<1>17. CASE InsertKeys
  <2> DEFINE m == InsertKeysHelper(model)
             b == IF m.objs # {} THEN Noted(bm, m) ELSE bm
  <2>1. Good(m)
    BY <1>1, KeysGood
  <2>2. Quiet(AddBackupPoint(b, m), m)
    BY <1>17 DEF InsertKeys
  <2> HIDE DEF m
  <2>3. Sound(b) /\ StillHas(b)
    BY <1>1, <2>1, NotedStillHas
  <2> QED BY <2>1, <2>2, <2>3 DEF Records
<1>18. CASE Animate
  BY <1>1, <1>3, <1>18, KeysGood DEF Animate, Updates
<1>19. CASE Rotator
  BY <1>1, <1>3, <1>19, EditObjectsGood DEF Rotator, Updates
<1> QED BY <1>5, <1>6, <1>8, <1>9, <1>10, <1>11, <1>13, <1>14, <1>15, <1>16, <1>17, <1>18,
           <1>19 DEF Next, GoesBack

\* Undo and Goto show a backup, with the Update at the end of SetModel.
LEMMA GoesBackIs ==
  ASSUME IInv, GoesBack
  PROVE  \E b, m : Sound(b) /\ Good(m) /\ Update(b, m)
<1>1. /\ Kept(bm, block) /\ Sound(bm) /\ bm \in Manager
      /\ DOMAIN bm.backups = 1 .. Len(bm.backups) /\ Len(bm.backups) \in Nat
      /\ IsEmpty(bm) <=> Len(bm.backups) = 0
  BY EmptyLen, LenProperties DEF IInv, Consistent, Kept, Sound, Manager
<1>2. PICK i \in 1 .. Len(bm.backups) : Show(i)
  <2>1. CASE Undo
    <3>1. bm.position - 1 \in 1 .. Len(bm.backups)
      BY <1>1, <2>1 DEF Undo, HasUndo, Sound, PositionOK
    <3> QED BY <2>1, <3>1 DEF Undo
  <2>2. CASE \E i \in DOMAIN bm.backups : Goto(i)
    BY <1>1, <2>2 DEF Goto
  <2> QED BY <2>1, <2>2 DEF GoesBack
<1> DEFINE b == [bm EXCEPT !.position = i, !.drift = FALSE]
<1>3. Update(b, b.backups[i].model)
  BY <1>2 DEF Show
<1>4. i \in Nat
  OBVIOUS
<1>5. /\ b.backups = bm.backups /\ b.position = i
      /\ b.numBackups = bm.numBackups /\ b \in Manager
  BY <1>1, <1>4 DEF Manager
<1> HIDE DEF b
<1>6. Sound(b)
  BY <1>1, <1>5 DEF Sound, PositionOK, IsEmpty
<1>7. Good(b.backups[i].model)
  BY <1>1, <1>5 DEF Kept, Entries
<1> QED BY <1>3, <1>6, <1>7

\* What a backup point just recorded is the model, if there is room for backups.
LEMMA PointRecords ==
  ASSUME NEW b, Sound(b), NEW m, Good(m), bm' = AddBackupPoint(b, m), model' = m,
         bm'.numBackups > 1
  PROVE  ~IsEmpty(bm') /\ Shape(model') = Shape(bm'.backups[bm'.position].model)
BY AddBackupPointIs DEF Good

LEMMA UpdateRecords ==
  ASSUME NEW b, Sound(b), NEW m, Good(m), Update(b, m), autoKeying, bm'.numBackups > 1
  PROVE  ~IsEmpty(bm') /\ Shape(model') = Shape(bm'.backups[bm'.position].model)
<1>1. Good(Keyed(m)) /\ bm' = AddBackupPoint(b, Keyed(m)) /\ model' = Keyed(m)
  BY KeysGood DEF Update, Noted, Keyed
<1> QED BY <1>1, PointRecords

LEMMA StepRecords ==
  ASSUME IInv, [Next]_vars, autoKeying, UNCHANGED autoKeying, bm'.numBackups > 1, ~UNCHANGED vars
  PROVE  ~IsEmpty(bm') /\ Shape(model') = Shape(bm'.backups[bm'.position].model)
<1>1. CASE GoesBack
  BY <1>1, GoesBackIs, UpdateRecords
<1>2. ASSUME NEW n \in BufferSizes, SetBufferSize(n)
      PROVE  ~IsEmpty(bm') /\ Shape(model') = Shape(bm'.backups[bm'.position].model)
  <2>1. n \in Nat /\ bm \in Manager /\ PositionOK(bm) /\ Good(model)
    BY SizeAssumption DEF IInv, Consistent, Kept, Sound
  <2>2. Sound(SetNumBackups(bm, n))
    BY <2>1, SetNumBackupsSound
  <2> QED BY <1>2, <2>1, <2>2, UpdateRecords DEF SetBufferSize
<1>3. CASE ToggleAutoKeying
  BY <1>3 DEF ToggleAutoKeying
<1>4. CASE ~GoesBack /\ ~(\E n \in BufferSizes : SetBufferSize(n)) /\ ~ToggleAutoKeying
  <2>1. PICK b, m : Updates(b, m) \/ Records(b, m)
    BY <1>4, CommandIs
  <2>2. CASE Updates(b, m)
    BY <2>2, UpdateRecords DEF Updates
  <2>3. CASE Records(b, m)
    BY <2>3, PointRecords DEF Records, Quiet
  <2> QED BY <2>1, <2>2, <2>3
<1> QED BY <1>1, <1>2, <1>3, <1>4

-----------------------------------------------------------------------------
(* Another limit *)

\* How many backups SetNumBackups drops.
Dropped(b, n) == IF Len(b.backups) > n THEN Len(b.backups) - n ELSE 0

\* SetNumBackups shifts the list and the position by what it drops.
LEMMA SetNumBackupsIs ==
  ASSUME NEW b, Sound(b), NEW n \in Nat
  PROVE  LET r == SetNumBackups(b, n)
             d == Dropped(b, n)
         IN  /\ d \in 0 .. Len(b.backups)
             /\ r.backups = SubSeq(b.backups, d + 1, Len(b.backups))
             /\ Len(r.backups) = Len(b.backups) - d
             /\ \A i \in 1 .. Len(b.backups) - d : r.backups[i] = b.backups[d + i]
             /\ r.position = IF b.position > d THEN b.position - d ELSE 1
             /\ r.numBackups = n
<1> DEFINE size == Len(b.backups)
           d == Dropped(b, n)
           r == SetNumBackups(b, n)
<1>1. /\ size \in Nat /\ b.backups \in Seq(Backup)
  BY EmptyLen DEF Sound, Manager
<1>2. d \in 0 .. size
  BY <1>1 DEF Dropped
<1>3. r = [backups    |-> SubSeq(b.backups, d + 1, size),
           position   |-> IF b.position > d THEN b.position - d ELSE 1,
           numBackups |-> n,
           drift      |-> b.drift \/ b.position <= d]
  BY DEF SetNumBackups, Dropped
<1> HIDE DEF d, r
<1>4. r.backups = SubSeq(b.backups, d + 1, size)
  BY <1>3
<1>5. r.position = IF b.position > d THEN b.position - d ELSE 1
  BY <1>3
<1>6. r.numBackups = n
  BY <1>3
<1>7. Len(r.backups) = size - d /\ \A i \in 1 .. size - d : r.backups[i] = b.backups[d + i]
  BY <1>1, <1>2, <1>4, SuffixProperties
<1> QED BY <1>2, <1>4, <1>5, <1>6, <1>7 DEF d, r

\* The d oldest backups went, because of the limit, and what can be undone is kept.
KeptBut(d) == /\ d > 0 => \/ Len(bm'.backups) = bm'.numBackups
                          \/ d = Len(bm.backups) - bm'.numBackups
              /\ Shifted(bm, bm', bm.position - 1, d)

\* A new limit drops the oldest backups, and the backup point that the Update at its end
\* makes with auto-keying on may drop one more.
LEMMA SizeKeeps ==
  ASSUME IInv, NEW n \in BufferSizes, SetBufferSize(n)
  PROVE  \E d \in Nat : KeptBut(d)
<1> DEFINE c == SetNumBackups(bm, n)
           d == Dropped(bm, n)
           p == bm.position
<1>1. /\ n \in Nat /\ bm \in Manager /\ PositionOK(bm) /\ Sound(bm) /\ Good(model)
      /\ p \in Nat /\ Len(bm.backups) \in Nat
      /\ IsEmpty(bm) <=> Len(bm.backups) = 0
  BY SizeAssumption, EmptyLen DEF IInv, Consistent, Kept, Sound, Manager
<1>2. Sound(c)
  BY <1>1, SetNumBackupsSound
<1>3. /\ d \in 0 .. Len(bm.backups)
      /\ Len(c.backups) = Len(bm.backups) - d
      /\ \A i \in 1 .. Len(bm.backups) - d : c.backups[i] = bm.backups[d + i]
      /\ c.position = IF p > d THEN p - d ELSE 1
      /\ c.numBackups = n
  BY <1>1, SetNumBackupsIs
<1>4. d > 0 => d = Len(bm.backups) - n
  BY <1>1 DEF Dropped
<1>5. bm' = Noted(c, model) /\ Good(Keyed(model))
  BY <1>1, KeysGood DEF SetBufferSize, Update, Keyed
<1> HIDE DEF c, d
<1>6. ASSUME NEW i \in 1 .. Len(bm.backups), i <= p - 1, i > d
      PROVE  /\ i - d \in 1 .. Len(c.backups) /\ i - d < c.position
             /\ c.backups[i - d] = bm.backups[i]
  <2>1. i - d \in 1 .. Len(bm.backups) - d /\ d + (i - d) = i
    BY <1>1, <1>3, <1>6
  <2>2. i - d < c.position
    BY <1>1, <1>3, <1>6
  <2> QED BY <1>3, <2>1, <2>2
<1>7. CASE ~autoKeying \/ n <= 1
  <2>1. bm'.backups = c.backups /\ bm'.position = c.position /\ bm'.numBackups = n
    <3>1. CASE ~autoKeying
      BY <1>3, <1>5, <3>1 DEF Noted
    <3>2. CASE autoKeying /\ n <= 1
      <4>1. bm' = AddBackupPoint(c, Keyed(model)) /\ Keyed(model) \in Model
        BY <1>5, <3>2 DEF Noted, Good
      <4> QED BY <1>2, <1>3, <3>2, <4>1, AddBackupPointIs
    <3> QED BY <1>7, <3>1, <3>2
  <2>2. KeptBut(d)
    BY <1>4, <1>6, <2>1 DEF KeptBut, Shifted
  <2> QED BY <1>3, <2>2
<1>8. CASE autoKeying /\ ~(n <= 1)
  <2>1. bm' = AddBackupPoint(c, Keyed(model)) /\ Keyed(model) \in Model /\ n > 1
    BY <1>1, <1>5, <1>8 DEF Noted, Good
  <2>2. /\ bm'.numBackups = n
        /\ \E e \in {0, 1} : /\ e = 1 => Len(bm'.backups) = bm'.numBackups
                             /\ Shifted(c, bm', c.position, e)
    BY <1>2, <1>3, <2>1, AddBackupPointIs
  <2>3. PICK e \in {0, 1} : /\ e = 1 => Len(bm'.backups) = bm'.numBackups
                            /\ Shifted(c, bm', c.position, e)
    BY <2>2
  <2>4. ASSUME NEW i \in 1 .. Len(bm.backups), i <= p - 1, i > d + e
        PROVE  i - (d + e) < bm'.position /\ bm'.backups[i - (d + e)] = bm.backups[i]
    <3>1. i > d
      BY <1>3, <2>4
    <3>2. /\ i - d \in 1 .. Len(c.backups) /\ i - d < c.position
          /\ c.backups[i - d] = bm.backups[i]
      BY <1>6, <2>4, <3>1
    <3>3. i - d <= c.position /\ i - d > e /\ (i - d) - e = i - (d + e)
      <4>1. c.position \in Nat
        BY <1>2 DEF Sound, Manager
      <4> QED BY <1>3, <2>4, <3>2, <4>1
    <3> QED BY <2>3, <3>2, <3>3 DEF Shifted
  <2>5. KeptBut(d + e)
    <3>1. d + e > 0 => \/ Len(bm'.backups) = bm'.numBackups
                       \/ d + e = Len(bm.backups) - bm'.numBackups
      BY <1>3, <1>4, <2>2, <2>3
    <3> QED BY <2>4, <3>1 DEF KeptBut, Shifted
  <2>6. d + e \in Nat
    BY <1>3
  <2> QED BY <2>5, <2>6
<1> QED BY <1>7, <1>8

\* Any step but going back.
LEMMA StepKeeps ==
  ASSUME IInv, [Next]_vars, ~GoesBack
  PROVE  \E d \in Nat : KeptBut(d)
<1>1. /\ Sound(bm) /\ StillHas(bm)
      /\ bm.position \in Nat /\ bm.position >= bm.position
  BY SameStillHas DEF IInv, Consistent, Kept, Sound, Manager
<1>2. ASSUME NEW b, StillHas(b), bm' = b
      PROVE  \E d \in Nat : KeptBut(d)
  BY <1>2 DEF StillHas, FullAtEnd, KeptBut
<1>3. CASE UNCHANGED vars \/ ToggleAutoKeying
  BY <1>1, <1>2, <1>3 DEF vars, ToggleAutoKeying
<1>4. CASE \E n \in BufferSizes : SetBufferSize(n)
  BY <1>4, SizeKeeps
<1>5. CASE /\ Next /\ ~(\E n \in BufferSizes : SetBufferSize(n)) /\ ~ToggleAutoKeying
  <2>1. PICK b, m : Updates(b, m) \/ Records(b, m)
    BY <1>5, CommandIs
  <2>2. CASE Updates(b, m)
    BY <1>1, <1>2, <2>2, NotedStillHas DEF Updates, Update
  <2>3. CASE Records(b, m)
    BY <1>1, <1>2, <2>3, PointStillHas DEF Records, Quiet, Good
  <2> QED BY <2>1, <2>2, <2>3
<1> QED BY <1>3, <1>4, <1>5

-----------------------------------------------------------------------------
(* The undo buffer as an UndoHistory *)

Content == [objs : SUBSET Objects, pose : [Objects -> Pose], key : [Objects -> Key]]

\* The history of manager b, as KeepsHistory's mapping defines it.
Hist(b) == [i \in DOMAIN b.backups |-> Shape(b.backups[i].model)]

LEMMA ShapeIsContent == ASSUME NEW m \in Model PROVE Shape(m) \in Content
  BY DEF Shape, Content, Model

LEMMA HistIs ==
  ASSUME NEW b \in Manager
  PROVE  /\ Hist(b) \in Seq(Content)
         /\ Len(Hist(b)) = Len(b.backups)
         /\ \A i \in 1 .. Len(b.backups) : Hist(b)[i] = Shape(b.backups[i].model)
         /\ IsEmpty(b) <=> Hist(b) = <<>>
<1>1. b.backups \in Seq(Backup) /\ Len(b.backups) \in Nat /\ DOMAIN b.backups = 1 .. Len(b.backups)
  BY LenProperties DEF Manager
<1>2. ASSUME NEW i \in 1 .. Len(b.backups)
      PROVE  Shape(b.backups[i].model) \in Content
  <2>1. b.backups[i] \in Backup
    BY <1>1
  <2> QED BY <2>1, ShapeIsContent DEF Backup
<1>3. Hist(b) = [i \in 1 .. Len(b.backups) |-> Shape(b.backups[i].model)]
  BY <1>1 DEF Hist
<1>4. Hist(b) \in Seq(Content)
  BY <1>1, <1>2, <1>3, IsASeq
<1>5. Len(Hist(b)) = Len(b.backups)
  BY <1>1, <1>3
<1>6. IsEmpty(b) <=> Len(b.backups) = 0
  BY EmptyLen
<1> QED BY <1>3, <1>4, <1>5, <1>6, EmptySeq

\* The history of what RemoveRedoBackups leaves is what is remembered up to the cursor.
LEMMA HistUpTo ==
  ASSUME NEW b, Sound(b)
  PROVE  Hist(RemoveRedoBackups(b)) =
           IF Hist(b) = <<>> THEN <<>> ELSE SubSeq(Hist(b), 1, b.position)
<1> DEFINE k == RemoveRedoBackups(b)
<1>1. /\ b \in Manager /\ Len(b.backups) \in Nat /\ b.backups \in Seq(Backup) /\ PositionOK(b)
      /\ Sound(k) /\ k \in Manager
  BY EmptyLen, RemoveRedoBackupsSound DEF Sound, Manager
<1>2. CASE IsEmpty(b)
  <2>1. k = b /\ Hist(b) = <<>>
    BY <1>1, <1>2, HistIs DEF RemoveRedoBackups
  <2> QED BY <2>1
<1>3. CASE ~IsEmpty(b)
  <2>1. b.position \in 1 .. Len(b.backups) /\ b.position \in 0 .. Len(b.backups)
    BY <1>1, <1>3 DEF PositionOK
  <2>2. k.backups = SubSeq(b.backups, 1, b.position)
    BY <1>1, <1>3 DEF RemoveRedoBackups, Manager
  <2>3. /\ Len(k.backups) = b.position
        /\ \A i \in 1 .. b.position : k.backups[i] = b.backups[i]
    BY <1>1, <2>1, <2>2, PrefixProperties
  <2> HIDE DEF k
  <2> DEFINE t == SubSeq(Hist(b), 1, b.position)
  <2>4. /\ Hist(b) \in Seq(Content) /\ Len(Hist(b)) = Len(b.backups) /\ Hist(b) # <<>>
        /\ \A i \in 1 .. Len(b.backups) : Hist(b)[i] = Shape(b.backups[i].model)
    BY <1>1, <1>3, HistIs
  <2>5. /\ t \in Seq(Content) /\ Len(t) = b.position
        /\ \A i \in 1 .. b.position : t[i] = Hist(b)[i]
    BY <2>1, <2>4, PrefixProperties
  <2>6. /\ Hist(k) \in Seq(Content) /\ Len(Hist(k)) = b.position
        /\ \A i \in 1 .. b.position : Hist(k)[i] = Shape(k.backups[i].model)
    BY <1>1, <2>3, HistIs
  <2> HIDE DEF t
  <2>7. \A i \in 1 .. Len(t) : t[i] = Hist(k)[i]
    BY <2>1, <2>3, <2>4, <2>5, <2>6
  <2>8. Hist(k) = t
    BY <2>5, <2>6, <2>7, SeqEqual
  <2> QED BY <2>4, <2>8 DEF k, t
<1> QED BY <1>2, <1>3

\* One more backup is one more remembered content, the youngest ones being kept.
LEMMA HistAppended ==
  ASSUME NEW k, Sound(k), NEW r, Sound(r), r.numBackups = k.numBackups,
         NEW entry, entry.model \in Model, NEW d \in {0, 1},
         d = 1 => Len(k.backups) = k.numBackups, Appended(k, r, entry, d)
  PROVE  /\ Hist(r) = History!Youngest(Append(Hist(k), Shape(entry.model)), r.numBackups)
         /\ r.position = IF Hist(r) = <<>> THEN 1 ELSE Len(Hist(r))
<1> DEFINE s == Append(Hist(k), Shape(entry.model))
           n == r.numBackups
           size == Len(k.backups)
<1>1. /\ k \in Manager /\ size \in Nat /\ n \in Nat /\ size <= n
      /\ r \in Manager /\ Len(r.backups) \in Nat /\ Len(r.backups) <= n
      /\ IsEmpty(r) <=> Len(r.backups) = 0
      /\ PositionOK(r)
  BY EmptyLen DEF Sound, Manager
<1>2. /\ Len(r.backups) = size + 1 - d
      /\ \A i \in 1 .. size : i > d => r.backups[i - d] = k.backups[i]
      /\ Len(r.backups) > 0 => r.position = Len(r.backups) /\ r.backups[r.position] = entry
  BY DEF Appended
<1>3. /\ Hist(k) \in Seq(Content) /\ Len(Hist(k)) = size
      /\ \A i \in 1 .. size : Hist(k)[i] = Shape(k.backups[i].model)
  BY <1>1, HistIs
<1>4. /\ Hist(r) \in Seq(Content) /\ Len(Hist(r)) = size + 1 - d
      /\ \A i \in 1 .. size + 1 - d : Hist(r)[i] = Shape(r.backups[i].model)
      /\ IsEmpty(r) <=> Hist(r) = <<>>
  BY <1>1, <1>2, HistIs
<1>5. Shape(entry.model) \in Content
  BY ShapeIsContent
<1>6. /\ s \in Seq(Content) /\ Len(s) = size + 1 /\ s[size + 1] = Shape(entry.model)
      /\ \A i \in 1 .. size : s[i] = Hist(k)[i]
  BY <1>3, <1>5, AppendProperties
<1> HIDE DEF s
<1>7. ASSUME NEW i \in 1 .. size + 1 - d
      PROVE  Hist(r)[i] = s[d + i]
  <2>1. CASE d + i = size + 1
    <3>1. i = Len(r.backups) /\ r.position = i /\ r.backups[i] = entry
      BY <1>1, <1>2, <2>1
    <3> QED BY <1>4, <1>6, <2>1, <3>1
  <2>2. CASE d + i # size + 1
    <3>1. d + i \in 1 .. size /\ d + i > d /\ (d + i) - d = i
      BY <1>1, <2>2
    <3>2. r.backups[i] = k.backups[d + i]
      BY <1>2, <3>1
    <3> QED BY <1>3, <1>4, <1>6, <3>1, <3>2
  <2> QED BY <2>1, <2>2
<1>8. Hist(r) = History!Youngest(s, n)
  <2>1. CASE d = 0
    <3>1. Len(s) = Len(Hist(r)) /\ ~(Len(s) > n)
      BY <1>1, <1>2, <1>4, <1>6, <2>1
    <3>2. \A i \in 1 .. Len(s) : s[i] = Hist(r)[i]
      BY <1>1, <1>6, <1>7, <2>1
    <3>3. s = Hist(r)
      BY <1>4, <1>6, <3>1, <3>2, SeqEqual
    <3> QED BY <3>1, <3>3 DEF History!Youngest
  <2>2. CASE d = 1
    <3> DEFINE t == SubSeq(s, 1 + 1, Len(s))
    <3>1. Len(s) > n /\ Len(s) - n + 1 = 1 + 1 /\ 1 \in 0 .. Len(s)
      BY <1>1, <1>6, <2>2
    <3>2. /\ t \in Seq(Content) /\ Len(t) = Len(s) - 1
          /\ \A i \in 1 .. Len(s) - 1 : t[i] = s[1 + i]
      BY <1>6, <3>1, SuffixProperties
    <3>3. History!Youngest(s, n) = t
      BY <3>1 DEF History!Youngest
    <3> HIDE DEF t
    <3>4. Len(t) = Len(Hist(r)) /\ Len(t) = size + 1 - d
      BY <1>1, <1>4, <1>6, <2>2, <3>2
    <3>5. \A i \in 1 .. Len(t) : t[i] = Hist(r)[i]
      BY <1>7, <2>2, <3>2, <3>4
    <3>6. t = Hist(r)
      BY <1>4, <3>2, <3>4, <3>5, SeqEqual
    <3> QED BY <3>3, <3>6
  <2> QED BY <2>1, <2>2
<1>9. r.position = IF Hist(r) = <<>> THEN 1 ELSE Len(Hist(r))
  BY <1>1, <1>2, <1>4 DEF PositionOK
<1> QED BY <1>8, <1>9 DEF s

\* A backup point is a Record, or with no room for one a Drift.
LEMMA PointIsRecord ==
  ASSUME Sound(bm), NEW m, Good(m), bm' = AddBackupPoint(bm, m), model' = m
  PROVE  History!Record \/ History!Drift
<1>1. m \in Model /\ Shape(m) \in Content /\ Shape(model') = Shape(m) /\ bm \in Manager
      /\ bm.numBackups \in Nat
  BY ShapeIsContent DEF Good, Sound, Manager
<1>2. CASE bm.numBackups <= 1
  <2>1. /\ bm'.backups = bm.backups /\ bm'.position = bm.position
        /\ bm'.numBackups = bm.numBackups
    BY <1>1, <1>2, AddBackupPointIs
  <2> QED BY <1>1, <2>1 DEF History!Drift, Content
<1>3. CASE ~(bm.numBackups <= 1)
  <2> DEFINE k == RemoveRedoBackups(bm)
             entry == [model |-> m, optype |-> Atomic, compareData |-> {}]
             a == AddBackup(k, m, Atomic, {})
  <2>1. bm' = a
    BY <1>3 DEF AddBackupPoint
  <2>2. Sound(k) /\ k.numBackups = bm.numBackups
    BY RemoveRedoBackupsSound
  <2>3. Hist(k) = IF Hist(bm) = <<>> THEN <<>> ELSE SubSeq(Hist(bm), 1, bm.position)
    BY HistUpTo
  <2> HIDE DEF k
  <2>4. Atomic \in MergeOps \cup {Atomic} /\ {} \in Hash
    BY DEF Hash
  <2>5. /\ Sound(a) /\ a.numBackups = k.numBackups
        /\ \E d \in {0, 1} : (d = 1 => Len(k.backups) = k.numBackups) /\ Appended(k, a, entry, d)
    BY <1>1, <2>2, <2>4, AddBackupIs
  <2>6. entry.model = m
    OBVIOUS
  <2> HIDE DEF a, entry
  <2>7. /\ Hist(a) = History!Youngest(Append(Hist(k), Shape(m)), a.numBackups)
        /\ a.position = IF Hist(a) = <<>> THEN 1 ELSE Len(Hist(a))
    BY <1>1, <2>2, <2>5, <2>6, HistAppended
  <2> QED BY <1>1, <2>1, <2>2, <2>3, <2>5, <2>7
          DEF History!Record, History!UpToCursor, Hist, Content
<1> QED BY <1>2, <1>3

\* An operation edits models of the same shape and selection alike.
LEMMA ApplyModel == ASSUME NEW m \in Model PROVE ApplyOp(m) \in Model
<1> DEFINE pose == [o \in Objects |-> IF o \in m.sel THEN (m.pose[o] + 1) % Poses
                                                     ELSE m.pose[o]]
<1>1. pose \in [Objects -> Pose]
  BY PosesAssumption DEF Model, Pose
<1>2. ApplyOp(m) = [m EXCEPT !.pose = pose]
  BY DEF ApplyOp, EditObjects
<1> HIDE DEF pose
<1> QED BY <1>1, <1>2 DEF Model

LEMMA SameShape ==
  ASSUME NEW m \in Model, NEW n \in Model, Shape(m) = Shape(n), n.sel = m.sel
  PROVE  Shape(ApplyOp(m)) = Shape(ApplyOp(n))
<1>1. m.objs = n.objs /\ m.pose = n.pose /\ m.key = n.key
  BY DEF Shape
<1>2. m = n
  BY <1>1 DEF Model
<1> QED BY <1>2

\* A merged drag amends the content at the cursor, any other one is recorded.
LEMMA DragIsHistory ==
  ASSUME Sound(bm), Good(model), NEW op \in MergeOps, NEW cmp \in Hash,
         CanMerge(bm, op, cmp) => Last.model.sel = model.sel,
         bm' = AddMergeableOperation(bm, model, op, cmp), model' = ApplyOp(model)
  PROVE  History!Record \/ History!Amend
<1> DEFINE k == RemoveRedoBackups(bm)
           p == bm.position
<1>1. /\ model \in Model /\ ApplyOp(model) \in Model /\ Shape(model') \in Content
      /\ bm \in Manager /\ bm.backups \in Seq(Backup) /\ Len(bm.backups) \in Nat
      /\ IsEmpty(bm) <=> Len(bm.backups) = 0
      /\ PositionOK(bm) /\ p \in Nat
  BY EditObjectsGood, ShapeIsContent, EmptyLen DEF Good, ApplyOp, Sound, Manager
<1>2. /\ Sound(k) /\ k \in Manager /\ k.numBackups = bm.numBackups /\ k.position = p
      /\ ~IsEmpty(bm) => Len(k.backups) = p
  BY RemoveRedoBackupsSound DEF Sound
<1>3. Hist(k) = IF Hist(bm) = <<>> THEN <<>> ELSE SubSeq(Hist(bm), 1, p)
  BY HistUpTo
<1>4. CASE CanMerge(bm, op, cmp)
  <2> DEFINE new == [k.backups[p] EXCEPT !.model = ApplyOp(@)]
             s   == [k.backups EXCEPT ![p] = new]
             r   == [k EXCEPT !.backups = s]
  <2>1. bm' = r
    BY <1>4 DEF AddMergeableOperation, MergeLast
  <2>2. ~IsEmpty(bm) /\ p \in 1 .. Len(bm.backups) /\ Len(k.backups) = p /\ p \in 1 .. p
        /\ p \in 0 .. Len(bm.backups) /\ k.backups \in Seq(Backup)
    BY <1>1, <1>2, <1>4 DEF CanMerge, PositionOK, Manager
  <2>3. /\ Hist(bm) \in Seq(Content) /\ Len(Hist(bm)) = Len(bm.backups) /\ Hist(bm) # <<>>
        /\ \A i \in 1 .. Len(bm.backups) : Hist(bm)[i] = Shape(bm.backups[i].model)
    BY <1>1, <2>2, HistIs
  <2>4. /\ Hist(k) \in Seq(Content) /\ Len(Hist(k)) = p
        /\ \A i \in 1 .. p : Hist(k)[i] = Shape(k.backups[i].model)
    BY <1>2, <2>2, HistIs
  <2>5. k.backups = SubSeq(bm.backups, 1, p)
    BY <1>1, <2>2 DEF RemoveRedoBackups, Manager
  <2> HIDE DEF k
  <2>6. k.backups[p] = bm.backups[p] /\ bm.backups[p] \in Backup
    BY <1>1, <2>2, <2>5, PrefixProperties
  <2>7. /\ bm.backups[p].model \in Model /\ new \in Backup
        /\ new.model = ApplyOp(bm.backups[p].model)
    <3>1. bm.backups[p].model \in Model
      BY <2>6 DEF Backup
    <3>2. ApplyOp(bm.backups[p].model) \in Model
      BY <3>1, ApplyModel
    <3> QED BY <2>6, <3>1, <3>2 DEF Backup
  <2> HIDE DEF new
  <2>8. s \in Seq(Backup) /\ Len(s) = p /\ s[p] = new /\ \A i \in 1 .. p : i # p => s[i] = k.backups[i]
    BY <2>2, <2>7, ExceptSeq
  <2> HIDE DEF s
  <2>9. r.backups = s /\ r.position = p /\ r.numBackups = bm.numBackups /\ r \in Manager
    BY <1>2, <2>8 DEF Manager
  <2> HIDE DEF r
  <2>10. /\ Hist(r) \in Seq(Content) /\ Len(Hist(r)) = p
         /\ \A i \in 1 .. p : Hist(r)[i] = Shape(s[i].model)
    BY <2>8, <2>9, HistIs
  <2>11. \A i \in 1 .. p : i # p => Hist(r)[i] = Hist(k)[i]
    BY <2>4, <2>8, <2>10
  <2>12. Hist(r)[p] = Shape(ApplyOp(bm.backups[p].model)) /\ Hist(r)[p] \in Content
    BY <2>2, <2>7, <2>8, <2>10, ShapeIsContent, ApplyModel
  <2>13. Shape(model) = Hist(bm)[p] => Shape(model') = Hist(r)[p]
    <3>1. ASSUME Shape(model) = Hist(bm)[p]
          PROVE  Shape(ApplyOp(model)) = Shape(ApplyOp(bm.backups[p].model))
      <4>1. Shape(model) = Shape(bm.backups[p].model) /\ bm.backups[p].model.sel = model.sel
        BY <1>4, <2>2, <2>3, <3>1 DEF Last
      <4> QED BY <1>1, <2>7, <4>1, SameShape
    <3> QED BY <2>12, <3>1
  <2>14. SubSeq(Hist(r), 1, p - 1) = SubSeq(Hist(bm), 1, p - 1)
    <3> DEFINE t == SubSeq(Hist(r), 1, p - 1)
               u == SubSeq(Hist(bm), 1, p - 1)
    <3>1. p - 1 \in 0 .. Len(Hist(r)) /\ p - 1 \in 0 .. Len(Hist(bm))
      BY <1>1, <2>2, <2>3, <2>10
    <3>2. /\ t \in Seq(Content) /\ Len(t) = p - 1
          /\ \A i \in 1 .. p - 1 : t[i] = Hist(r)[i]
      BY <2>10, <3>1, PrefixProperties
    <3>3. /\ u \in Seq(Content) /\ Len(u) = p - 1
          /\ \A i \in 1 .. p - 1 : u[i] = Hist(bm)[i]
      BY <2>3, <3>1, PrefixProperties
    <3> HIDE DEF t, u
    <3>4. \A i \in 1 .. p : Hist(k)[i] = Hist(bm)[i]
      BY <1>3, <2>2, <2>3, PrefixProperties
    <3>5. ASSUME NEW i \in 1 .. Len(t)
          PROVE  t[i] = u[i]
      <4>1. i \in 1 .. p - 1 /\ i \in 1 .. p /\ i # p
        BY <1>1, <3>2
      <4>2. t[i] = Hist(r)[i] /\ u[i] = Hist(bm)[i]
        BY <3>2, <3>3, <4>1
      <4>3. Hist(r)[i] = Hist(k)[i] /\ Hist(k)[i] = Hist(bm)[i]
        BY <2>11, <3>4, <4>1
      <4> QED BY <4>2, <4>3
    <3>6. t = u
      BY <3>2, <3>3, <3>5, SeqEqual
    <3> QED BY <3>6 DEF t, u
  <2>15. p <= Len(Hist(bm))
    BY <2>2, <2>3
  <2> QED BY <1>1, <2>1, <2>9, <2>10, <2>12, <2>13, <2>14, <2>15
          DEF History!Amend, Hist, Content
<1>5. CASE ~CanMerge(bm, op, cmp)
  <2> DEFINE entry == [model |-> ApplyOp(model), optype |-> op, compareData |-> cmp]
             a == AddBackup(k, ApplyOp(model), op, cmp)
  <2>1. bm' = a
    BY <1>5 DEF AddMergeableOperation
  <2> HIDE DEF k
  <2>2. op \in MergeOps \cup {Atomic}
    OBVIOUS
  <2>3. /\ Sound(a) /\ a.numBackups = k.numBackups
        /\ \E d \in {0, 1} : (d = 1 => Len(k.backups) = k.numBackups) /\ Appended(k, a, entry, d)
    BY <1>1, <1>2, <2>2, AddBackupIs
  <2>4. entry.model = ApplyOp(model)
    OBVIOUS
  <2> HIDE DEF a, entry
  <2>5. /\ Hist(a) = History!Youngest(Append(Hist(k), Shape(model')), a.numBackups)
        /\ a.position = IF Hist(a) = <<>> THEN 1 ELSE Len(Hist(a))
    BY <1>1, <1>2, <2>3, <2>4, HistAppended
  <2> QED BY <1>1, <1>2, <1>3, <2>1, <2>3, <2>5
          DEF History!Record, History!UpToCursor, Hist, Content
<1> QED BY <1>4, <1>5

\* Showing a backup is to travel to it.
LEMMA ShowIsTravel ==
  ASSUME Sound(bm), NEW i \in DOMAIN bm.backups, model' = bm.backups[i].model,
         bm' = [bm EXCEPT !.position = i, !.drift = FALSE]
  PROVE  History!Travel
<1>1. /\ bm \in Manager /\ DOMAIN bm.backups = 1 .. Len(bm.backups) /\ i \in Nat
  BY LenProperties DEF Sound, Manager
<1>2. bm'.backups = bm.backups /\ bm'.position = i /\ bm'.numBackups = bm.numBackups
  BY <1>1 DEF Manager
<1> QED BY <1>2 DEF History!Travel

\* A change of the flag only, with whatever model.
LEMMA FlagIsDrift ==
  ASSUME NEW m, Good(m), model' = m,
         bm'.backups = bm.backups, bm'.position = bm.position, bm'.numBackups = bm.numBackups
  PROVE  History!Drift
<1>1. Shape(m) \in Content
  BY ShapeIsContent DEF Good
<1> QED BY <1>1 DEF History!Drift, Content

LEMMA DriftIs ==
  ASSUME Sound(bm)
  PROVE  LET r == [bm EXCEPT !.drift = TRUE]
         IN  r.backups = bm.backups /\ r.position = bm.position /\ r.numBackups = bm.numBackups
BY DEF Sound, Manager

\* A new size of the buffer.
LEMMA SizeIsResize ==
  ASSUME Sound(bm), NEW n \in Nat, bm' = SetNumBackups(bm, n), model' = model
  PROVE  History!Resize
<1> DEFINE r == SetNumBackups(bm, n)
           d == Dropped(bm, n)
           size == Len(bm.backups)
           s == Hist(bm)
<1>1. /\ bm \in Manager /\ size \in Nat /\ PositionOK(bm) /\ bm.position \in Nat
      /\ Sound(r) /\ r \in Manager
  BY EmptyLen, SetNumBackupsSound DEF Sound, Manager
<1>2. /\ d \in 0 .. size /\ Len(r.backups) = size - d
      /\ \A i \in 1 .. size - d : r.backups[i] = bm.backups[d + i]
      /\ r.position = IF bm.position > d THEN bm.position - d ELSE 1
      /\ r.numBackups = n
  BY SetNumBackupsIs
<1>3. d = IF size > n THEN size - n ELSE 0
  BY DEF Dropped
<1>4. /\ s \in Seq(Content) /\ Len(s) = size
      /\ \A i \in 1 .. size : s[i] = Shape(bm.backups[i].model)
  BY <1>1, HistIs
<1> HIDE DEF r, d
<1>5. /\ Hist(r) \in Seq(Content) /\ Len(Hist(r)) = size - d
      /\ \A i \in 1 .. size - d : Hist(r)[i] = Shape(r.backups[i].model)
  BY <1>1, <1>2, HistIs
<1> HIDE DEF s
<1>6. ASSUME NEW i \in 1 .. size - d
      PROVE  Hist(r)[i] = s[d + i]
  <2>1. d + i \in 1 .. size
    BY <1>1, <1>2
  <2> QED BY <1>2, <1>4, <1>5, <2>1
<1>7. Hist(r) = History!Youngest(s, n)
  <2>1. CASE size > n
    <3> DEFINE t == SubSeq(s, d + 1, Len(s))
    <3>1. Len(s) - n + 1 = d + 1 /\ d \in 0 .. Len(s)
      BY <1>1, <1>2, <1>3, <1>4, <2>1
    <3>2. History!Youngest(s, n) = t
      BY <1>4, <2>1, <3>1 DEF History!Youngest
    <3>3. /\ t \in Seq(Content) /\ Len(t) = size - d
          /\ \A i \in 1 .. size - d : t[i] = s[d + i]
      BY <1>4, <3>1, SuffixProperties
    <3> HIDE DEF t
    <3>4. \A i \in 1 .. Len(t) : t[i] = Hist(r)[i]
      BY <1>6, <3>3
    <3>5. t = Hist(r)
      BY <1>5, <3>3, <3>4, SeqEqual
    <3> QED BY <3>2, <3>5
  <2>2. CASE ~(size > n)
    <3>1. d = 0
      BY <1>3, <2>2
    <3>2. History!Youngest(s, n) = s
      BY <1>4, <2>2 DEF History!Youngest
    <3>3. \A i \in 1 .. Len(s) : s[i] = Hist(r)[i]
      BY <1>1, <1>4, <1>6, <3>1
    <3>4. Len(s) = Len(Hist(r))
      BY <1>1, <1>4, <1>5, <3>1
    <3>5. s = Hist(r)
      BY <1>4, <1>5, <3>3, <3>4, SeqEqual
    <3> QED BY <3>2, <3>5
  <2> QED BY <2>1, <2>2
<1>8. Len(s) - Len(Hist(r)) = d
  BY <1>1, <1>2, <1>4, <1>5
<1>9. Hist(bm') = History!Youngest(Hist(bm), bm'.numBackups)
  BY <1>2, <1>7 DEF r, s
<1>10. bm'.position = IF bm.position > Len(Hist(bm)) - Len(Hist(bm'))
                      THEN bm.position - (Len(Hist(bm)) - Len(Hist(bm'))) ELSE 1
  BY <1>2, <1>8 DEF r, s
<1>11. bm'.numBackups = n
  BY <1>2 DEF r
<1> HIDE DEF size
<1> QED BY <1>9, <1>10, <1>11 DEF History!Resize, Hist

\* With the auto-keying box off, Update adds nothing to what a handler did.
LEMMA PlainUpdate ==
  ASSUME NEW b, NEW m, Update(b, m), ~autoKeying
  PROVE  bm' = b /\ model' = m
BY DEF Update, Noted, Keyed

\* Every step with the auto-keying box off is one of UndoHistory's.
LEMMA StepIsHistory ==
  ASSUME IInv, ~Recycle, [Next]_vars, ~autoKeying
  PROVE  [History!Next]_(History!vars)
<1>1. /\ Sound(bm) /\ Good(model) /\ Kept(bm, block) /\ block \in Blocks
      /\ bm \in Manager /\ bm.position \in Nat /\ PositionOK(bm)
      /\ DOMAIN bm.backups = 1 .. Len(bm.backups) /\ Len(bm.backups) \in Nat
  BY LenProperties DEF IInv, Consistent, Kept, Sound, Manager
<1>2. ASSUME NEW m, Good(m), bm' = AddBackupPoint(bm, m), model' = m
      PROVE  History!Next
  BY <1>1, <1>2, PointIsRecord DEF History!Next
<1>3. ASSUME NEW m, Good(m), Commit(m)
      PROVE  History!Next
  BY <1>2, <1>3, PlainUpdate DEF Commit
<1>4. ASSUME NEW m, Good(m), model' = m, bm' = bm \/ bm' = [bm EXCEPT !.drift = TRUE]
      PROVE  History!Next
  BY <1>1, <1>4, FlagIsDrift, DriftIs DEF History!Next
<1>5. ASSUME NEW i \in DOMAIN bm.backups, Show(i)
      PROVE  History!Next
  <2> DEFINE b == [bm EXCEPT !.position = i, !.drift = FALSE]
  <2>1. Update(b, b.backups[i].model)
    BY <1>5 DEF Show
  <2>2. b.backups = bm.backups
    BY <1>1 DEF Manager
  <2>3. bm' = b /\ model' = b.backups[i].model
    BY <2>1, PlainUpdate
  <2>4. model' = bm.backups[i].model
    BY <2>2, <2>3
  <2> QED BY <1>1, <2>3, <2>4, ShowIsTravel DEF History!Next
<1>6. ASSUME NEW S \in SUBSET Objects, Select(S)
      PROVE  History!Next
  <2>1. Good([model EXCEPT !.sel = S])
    BY <1>1, <1>6 DEF Select, Good, Model
  <2> QED BY <1>4, <1>6, <2>1, PlainUpdate DEF Select
<1>7. ASSUME NEW op \in MergeOps, Drag(op)
      PROVE  History!Next
  <2> DEFINE cmp == ObjectSelectionHash(block, model)
  <2>1. CanMerge(bm, op, cmp) => Last.model.sel = model.sel
    BY InvariantImplies DEF MergeSelectsTheSame
  <2>2. cmp \in Hash
    BY <1>1 DEF Hash, ObjectSelectionHash, Good, Model
  <2>3. bm' = AddMergeableOperation(bm, model, op, cmp) /\ model' = ApplyOp(model)
    BY <1>7, PlainUpdate DEF Drag
  <2> HIDE DEF cmp
  <2> QED BY <1>1, <2>1, <2>2, <2>3, DragIsHistory DEF History!Next
<1>8. CASE EditSelected
  BY <1>1, <1>3, <1>8, EditObjectsGood DEF EditSelected
<1>9. ASSUME NEW S \in SUBSET Objects, Optimize(S)
      PROVE  History!Next
  BY <1>1, <1>2, <1>9, EditObjectsGood DEF Optimize, Quiet
<1>10. ASSUME NEW o \in Objects, AddObject(o)
       PROVE  History!Next
  <2>1. Good([model EXCEPT !.objs = @ \cup {o}])
    BY <1>1 DEF Good, Model
  <2> QED BY <1>1, <1>3, <1>10, <2>1 DEF AddObject
<1>11. ASSUME NEW S \in SUBSET Objects, DeleteSelection(S)
       PROVE  History!Next
  BY <1>1, <1>3, <1>11, RemoveObjectsGood DEF DeleteSelection
<1>12. CASE New
  <2>1. Keyed(Fresh({})) = Fresh({}) /\ Noted(bm, Fresh({})) = bm /\ Good(Fresh({}))
    BY FreshGood DEF Keyed, Noted
  <2> QED BY <1>2, <1>12, <2>1 DEF New, Quiet
<1>13. ASSUME NEW S \in (SUBSET Objects) \ {{}}, Load(S)
       PROVE  History!Next
  <2>1. Keyed(Fresh(S)) = Fresh(S) /\ Noted(bm, Fresh(S)) = bm /\ Good(Fresh(S))
    BY FreshGood DEF Keyed, Noted
  <2> QED BY <1>2, <1>13, <2>1, PlainUpdate DEF Load
<1>14. CASE Undo
  <2>1. bm.position - 1 \in DOMAIN bm.backups
    BY <1>1, <1>14 DEF Undo, HasUndo, PositionOK
  <2> QED BY <1>5, <1>14, <2>1 DEF Undo
<1>15. CASE Redo
  <2>1. bm.position + 1 \in DOMAIN bm.backups
    BY <1>1, <1>15 DEF Redo, HasRedo, PositionOK
  <2> QED BY <1>5, <1>15, <2>1 DEF Redo
<1>16. ASSUME NEW i \in DOMAIN bm.backups, Goto(i)
       PROVE  History!Next
  BY <1>5, <1>16 DEF Goto
<1>17. ASSUME NEW S \in SUBSET Objects, FailedConversion(S)
       PROVE  History!Next
  <2>1. CASE IsEmpty(bm)
    BY <1>1, <1>4, <1>17, <2>1, EditObjectsGood, PlainUpdate DEF FailedConversion
  <2>2. CASE ~IsEmpty(bm)
    <3> DEFINE b == [bm EXCEPT !.drift = FALSE]
               m == b.backups[b.position].model
    <3>1. /\ bm.position \in DOMAIN bm.backups
          /\ b.position = bm.position /\ b.backups = bm.backups
          /\ b = [bm EXCEPT !.position = bm.position, !.drift = FALSE]
      BY <1>1, <2>2 DEF PositionOK, Manager
    <3>2. Update(Noted(b, m), Keyed(m))
      BY <1>17, <2>2 DEF FailedConversion
    <3>3. bm' = b /\ model' = m
      BY <3>2, PlainUpdate DEF Noted, Keyed
    <3>4. model' = bm.backups[bm.position].model
      BY <3>1, <3>3
    <3> QED BY <1>1, <3>1, <3>3, <3>4, ShowIsTravel DEF History!Next
  <2> QED BY <2>1, <2>2
<1>18. ASSUME NEW n \in BufferSizes, SetBufferSize(n)
       PROVE  History!Next
  <2>1. n \in Nat /\ bm' = SetNumBackups(bm, n) /\ model' = model
    BY <1>18, SizeAssumption, PlainUpdate DEF SetBufferSize
  <2> QED BY <1>1, <2>1, SizeIsResize DEF History!Next
<1>19. CASE InsertKeys
  <2>1. Good(InsertKeysHelper(model)) /\ Noted(bm, InsertKeysHelper(model)) = bm
    BY <1>1, KeysGood DEF Noted
  <2> QED BY <1>2, <1>19, <2>1 DEF InsertKeys, Quiet
<1>20. CASE ToggleAutoKeying
  BY <1>20 DEF ToggleAutoKeying, History!vars
<1>21. CASE Animate
  BY <1>1, <1>4, <1>21, KeysGood, PlainUpdate DEF Animate
<1>22. CASE Rotator
  BY <1>1, <1>4, <1>22, EditObjectsGood, PlainUpdate DEF Rotator
<1>23. CASE UNCHANGED vars
  BY <1>23 DEF vars, History!vars
<1> QED BY <1>6, <1>7, <1>8, <1>9, <1>10, <1>11, <1>12, <1>13, <1>14, <1>15, <1>16, <1>17,
           <1>18, <1>19, <1>20, <1>21, <1>22, <1>23 DEF Next

-----------------------------------------------------------------------------
(* Merged drags *)

\* An edit leads different poses to different poses.
LEMMA NextPose ==
  ASSUME NEW x \in Pose, NEW y \in Pose
  PROVE  (x + 1) % Poses = (y + 1) % Poses <=> x = y
<1>1. Poses \in Nat /\ Poses > 0
  BY PosesAssumption
<1>2. ASSUME NEW z \in Pose
      PROVE  (z + 1) % Poses = IF z + 1 = Poses THEN 0 ELSE z + 1
  <2>1. z \in Nat /\ z + 1 <= Poses
    BY <1>1 DEF Pose
  <2>2. CASE z + 1 = Poses
    BY <1>1, <2>2
  <2>3. CASE z + 1 < Poses
    BY <1>1, <2>1, <2>3
  <2> QED BY <1>1, <2>1, <2>2, <2>3
<1>3. x \in Nat /\ y \in Nat
  BY DEF Pose
<1> QED BY <1>1, <1>2, <1>3

\* The operation moves the same objects in two models with the same selection.
LEMMA MovesAlike ==
  ASSUME NEW m \in Model, NEW n \in Model, m.sel = n.sel, NEW o \in Objects
  PROVE  ApplyOp(m).pose[o] = ApplyOp(n).pose[o] <=> m.pose[o] = n.pose[o]
<1>1. \A l \in Model : ApplyOp(l).pose[o] = IF o \in l.sel THEN (l.pose[o] + 1) % Poses
                                                          ELSE l.pose[o]
  BY DEF ApplyOp, EditObjects, Model
<1>2. m.pose[o] \in Pose /\ n.pose[o] \in Pose
  BY DEF Model
<1> QED BY <1>1, <1>2, NextPose

LEMMA MergedDrag ==
  ASSUME IInv, ~Recycle, ~autoKeying, NEW op \in MergeOps,
         CanMerge(bm, op, ObjectSelectionHash(block, model)), Drag(op)
  PROVE  Unrecorded' = Unrecorded
<1> DEFINE k == RemoveRedoBackups(bm)
           p == bm.position
<1>1. /\ Sound(bm) /\ Good(model) /\ model \in Model
      /\ bm \in Manager /\ bm.backups \in Seq(Backup) /\ Len(bm.backups) \in Nat
      /\ p \in 1 .. Len(bm.backups) /\ ~IsEmpty(bm)
  BY EmptyLen DEF IInv, Consistent, Kept, Sound, Manager, PositionOK, CanMerge, Good
<1>2. bm' = MergeLast(bm) /\ model' = ApplyOp(model)
  BY PlainUpdate DEF Drag, AddMergeableOperation
<1>3. Last.model.sel = model.sel
  BY InvariantImplies DEF MergeSelectsTheSame
<1>4. /\ k \in Manager /\ k.position = p /\ k.backups \in Seq(Backup)
      /\ Len(k.backups) = p /\ k.backups[p] = bm.backups[p]
  <2>1. k \in Manager /\ k.position = p /\ Len(k.backups) = p
    BY <1>1, RemoveRedoBackupsSound DEF Sound
  <2>2. k.backups = SubSeq(bm.backups, 1, p)
    BY <1>1 DEF RemoveRedoBackups, Manager
  <2> HIDE DEF k
  <2> QED BY <1>1, <2>1, <2>2, PrefixProperties DEF Manager
<1>5. bm.backups[p] \in Backup /\ bm.backups[p].model \in Model
  <2>1. bm.backups[p] \in Backup
    BY <1>1, ElementOfSeq
  <2> QED BY <2>1 DEF Backup
<1> HIDE DEF k
<1>6. bm'.position = p /\ bm'.backups[p].model = ApplyOp(bm.backups[p].model)
  <2>1. bm' = [k EXCEPT !.backups[p].model = ApplyOp(@)]
    BY <1>2 DEF MergeLast, k
  <2>2. p \in DOMAIN k.backups
    BY <1>1, <1>4, LenProperties
  <2>3. bm'.backups = [k.backups EXCEPT ![p].model = ApplyOp(@)] /\ bm'.position = p
    BY <1>4, <2>1 DEF Manager
  <2>4. bm'.backups[p] = [k.backups[p] EXCEPT !.model = ApplyOp(@)]
    BY <2>2, <2>3
  <2> QED BY <1>4, <1>5, <2>3, <2>4 DEF Backup
<1>7. ASSUME NEW o \in Objects
      PROVE  model'.pose[o] = Last'.model.pose[o] <=> model.pose[o] = Last.model.pose[o]
  BY <1>1, <1>2, <1>3, <1>5, <1>6, MovesAlike DEF Last
<1> QED BY <1>7 DEF Unrecorded

-----------------------------------------------------------------------------
(* Theorems *)

\* The invariant the others follow from: handlers always leave a sound manager, good
\* backups that fit the place in use, and a manager in step with the model.
THEOREM Invariance == Spec => []IInv
BY InitInvariant, StepInvariant, PTL DEF Spec

\* Every variable of the editor keeps its type (TypeOK), for any objects, poses,
\* addresses and sizes.
THEOREM TypeCorrect == Spec => []TypeOK
<1>1. IInv => TypeOK
  BY InvariantImplies
<1> QED BY <1>1, Invariance, PTL

\* The position iterator of the undo buffer is valid and the buffer within its limit
\* (PositionValid), whatever sizes are typed and in whatever order commands come.
THEOREM PositionAlwaysValid == Spec => []PositionValid
<1>1. IInv => PositionValid
  BY InvariantImplies
<1> QED BY <1>1, Invariance, PTL

\* As long as the allocator reuses no address that a hash was computed from, a drag is
\* only merged into a backup with the same objects selected (MergeSelectsTheSame).
THEOREM MergesAreFaithful == ASSUME ~Recycle PROVE Spec => []MergeSelectsTheSame
<1>1. IInv => MergeSelectsTheSame
  BY InvariantImplies
<1> QED BY <1>1, Invariance, PTL

\* Under the same condition the model in the editor remains the backup at the position
\* unless an edit bypassed the manager (ShownIsRecorded).
THEOREM ShownStaysRecorded == ASSUME ~Recycle PROVE Spec => []ShownIsRecorded
<1>1. IInv => ShownIsRecorded
  BY InvariantImplies
<1> QED BY <1>1, Invariance, PTL

\* Under the same condition a merged drag leaves alone what was changed without being
\* recorded (MergeKeepsUnrecorded): it moves the same objects in the model and the backup.
THEOREM MergesKeepUnrecorded == ASSUME ~Recycle PROVE Spec => MergeKeepsUnrecorded
<1>1. IInv /\ [Next]_vars =>
        [\A op \in MergeOps :
           /\ ~autoKeying
           /\ CanMerge(bm, op, ObjectSelectionHash(block, model))
           /\ Drag(op)
           => Unrecorded' = Unrecorded]_vars
  BY MergedDrag
<1> QED BY <1>1, Invariance, PTL DEF Spec, MergeKeepsUnrecorded

\* With auto-keying on and room for two backups every command is recorded when it returns
\* (AutoKeyingRecords), also the ones that make no backup point of their own.
THEOREM RecordsAutoKeyed == Spec => AutoKeyingRecords
<1>1. IInv /\ [Next]_vars =>
        [autoKeying /\ UNCHANGED autoKeying /\ bm'.numBackups > 1
           => ~IsEmpty(bm') /\ Shape(model') = Shape(bm'.backups[bm'.position].model)]_vars
  BY StepRecords
<1> QED BY <1>1, Invariance, PTL DEF Spec, AutoKeyingRecords

\* Backups older than the position are never rewritten, and evicted only oldest first
\* and for want of room (PastIsKept).
THEOREM PastStaysKept == Spec => PastIsKept
<1> DEFINE Keeps(d) ==
       /\ d > 0 => \/ Len(bm'.backups) = bm'.numBackups
                   \/ d = Len(bm.backups) - bm'.numBackups
       /\ \A i \in 1 .. bm.position - 1 :
            i > d => /\ i - d <= Len(bm'.backups)
                     /\ bm'.backups[i - d] = bm.backups[i]
<1>1. ASSUME IInv, [Next]_vars, ~Undo, ~(\E i \in DOMAIN bm.backups : Goto(i))
      PROVE  \E d \in 0 .. Len(bm.backups) : Keeps(d)
  <2>1. IInv'
    BY <1>1, StepInvariant
  <2>2. /\ Len(bm'.backups) \in Nat /\ bm'.position \in Nat /\ bm'.numBackups \in Nat
        /\ bm'.position <= Len(bm'.backups) \/ bm'.position = 1
        /\ bm' \in Manager
    BY <2>1, EmptyLen DEF IInv, Consistent, Kept, Sound, PositionOK, Manager
  <2>3. /\ Len(bm.backups) \in Nat /\ bm.position \in Nat
        /\ bm.position <= Len(bm.backups) \/ bm.position = 1
    BY <1>1, EmptyLen DEF IInv, Consistent, Kept, Sound, PositionOK, Manager
  <2>4. PICK d \in Nat : KeptBut(d)
    BY <1>1, StepKeeps DEF GoesBack
  <2>5. ASSUME NEW i \in 1 .. bm.position - 1, i > d
        PROVE  i - d <= Len(bm'.backups) /\ bm'.backups[i - d] = bm.backups[i]
    <3>1. i \in 1 .. Len(bm.backups) /\ i <= bm.position - 1
      BY <2>3
    <3>2. i - d < bm'.position /\ bm'.backups[i - d] = bm.backups[i]
      BY <2>4, <2>5, <3>1 DEF KeptBut, Shifted
    <3> QED BY <2>2, <2>5, <3>2
  <2>6. CASE d <= Len(bm.backups)
    <3>1. d \in 0 .. Len(bm.backups) /\ Keeps(d)
      BY <2>3, <2>4, <2>5, <2>6 DEF KeptBut
    <3> QED BY <3>1
  <2>7. CASE ~(d <= Len(bm.backups))
    <3>1. Len(bm'.backups) = bm'.numBackups
      BY <2>2, <2>3, <2>4, <2>7 DEF KeptBut
    <3>2. \A i \in 1 .. bm.position - 1 : ~(i > Len(bm.backups))
      BY <2>3
    <3>3. Keeps(Len(bm.backups))
      BY <3>1, <3>2
    <3>4. Len(bm.backups) \in 0 .. Len(bm.backups)
      BY <2>3
    <3> HIDE DEF Keeps
    <3> QED BY <3>3, <3>4
  <2> QED BY <2>6, <2>7
<1>2. IInv /\ [Next]_vars =>
        [~Undo /\ ~(\E i \in DOMAIN bm.backups : Goto(i)) =>
            \E d \in 0 .. Len(bm.backups) : Keeps(d)]_vars
  BY <1>1
<1> QED BY <1>2, Invariance, PTL DEF Spec, PastIsKept

\* As long as no address is reused, the undo buffer implements UndoHistory whenever
\* auto-keying is off (KeepsHistory): every command is one edit, one journey or one new
\* limit of the abstract history.
THEOREM ImplementsHistory == ASSUME ~Recycle PROVE Spec => KeepsHistory
<1>1. IInv /\ [Next]_vars => [autoKeying \/ History!Next]_(History!vars)
  BY StepIsHistory
<1> QED BY <1>1, Invariance, PTL DEF Spec, KeepsHistory
=============================================================================

--------------------------- MODULE BackupManager ---------------------------
(***************************************************************************)
(* The undo buffer (BackupManager.cpp) together with the editor commands   *)
(* that feed it: EditorUI's menu handlers, the mergeable drags of          *)
(* Tools.cpp, the selection, the timeline with its auto-keying box, the    *)
(* rotator window and the undo buffer viewer.                              *)
(*                                                                         *)
(* A model is abstracted to its objects, one pose per object (position,    *)
(* rotation, scale and geometry together), one animation key per object    *)
(* (the key at the time the slider stands at) and the selection. An edit   *)
(* of an object steps its pose through the cycle 0 .. Poses - 1.           *)
(***************************************************************************)
EXTENDS Naturals, FiniteSets, Sequences

CONSTANTS
  Objects,            \* the objects models are made of
  Poses,              \* number of distinct poses of an object
  MergeOps,           \* the mergeable OperationTypes: OT_Move, OT_Scale, ...
  Atomic,             \* OT_Atomic
  NoKey,              \* an object without an animation key
  Blocks,             \* the places where the allocator can put a model
  AddrOf,             \* AddrOf[b][o]: address of object o of the model at place b
  Recycle,            \* may a clone be given addresses a snapshot's hash mentions?
  KeyingModes,        \* the positions of the auto-keying box that are explored;
                      \* none of them when the timeline is left out altogether
  DefaultNumBackups,  \* 40 in the code
  BufferSizes         \* the sizes the user may type in the undo buffer viewer

Pose == 0 .. Poses - 1
Key  == Pose \cup {NoKey}

ASSUME PosesAssumption   == Poses \in Nat \ {0}
ASSUME AtomicAssumption  == Atomic \notin MergeOps
ASSUME NoKeyAssumption   == NoKey \notin Pose
ASSUME AddrAssumption    ==
  \A b \in Blocks : \A o, p \in Objects : AddrOf[b][o] = AddrOf[b][p] => o = p
ASSUME ModeAssumption    == Recycle \in BOOLEAN /\ KeyingModes \subseteq BOOLEAN
ASSUME SizeAssumption    == DefaultNumBackups \in Nat /\ BufferSizes \subseteq Nat

VARIABLES
  bm,          \* the BackupManager: backups, position, numBackups (and a history flag)
  model,       \* the model in the editor
  block,       \* where the objects of that model are allocated
  autoKeying   \* the auto-keying box of the timeline window

vars == <<bm, model, block, autoKeying>>

-----------------------------------------------------------------------------
(* Models *)

Model == [objs : SUBSET Objects, pose : [Objects -> Pose],
          key : [Objects -> Key], sel : SUBSET Objects]

\* What a user sees of a model: everything but the selection.
Shape(m) == [objs |-> m.objs, pose |-> m.pose, key |-> m.key]

\* A model with the objects S, untouched, unkeyed and unselected.
Fresh(S) == [objs |-> S, pose |-> [o \in Objects |-> 0],
             key |-> [o \in Objects |-> NoKey], sel |-> {}]

\* The objects S are edited.
EditObjects(m, S) ==
  [m EXCEPT !.pose = [o \in Objects |-> IF o \in S THEN (m.pose[o] + 1) % Poses
                                                   ELSE m.pose[o]]]

\* ApplyMoveOp, ApplyRotateOp, ApplyScaleOp, ApplyOriginMoveOp: the callback of a
\* mergeable operation edits what is selected in the model it is given.
ApplyOp(m) == EditObjects(m, m.sel)

\* Mutant of RemoveObjects: what is deleted stays selected.
RemoveObjectsStaySelected(m, S) ==
  [objs |-> m.objs \ S,
   pose |-> [o \in Objects |-> IF o \in S THEN 0 ELSE m.pose[o]],
   key  |-> [o \in Objects |-> IF o \in S THEN NoKey ELSE m.key[o]],
   sel  |-> m.sel]

\* The objects S leave the model.
RemoveObjects(m, S) ==
  [objs |-> m.objs \ S,
   pose |-> [o \in Objects |-> IF o \in S THEN 0 ELSE m.pose[o]],
   key  |-> [o \in Objects |-> IF o \in S THEN NoKey ELSE m.key[o]],
   sel  |-> m.sel \ S]

\* InsertKeysHelper: every object gets a key with its present pose.
InsertKeysHelper(m) ==
  [m EXCEPT !.key = [o \in Objects |-> IF o \in m.objs THEN m.pose[o] ELSE NoKey]]

\* UpdateAnimation: every object that has a key takes the pose of its key.
UpdateAnimation(m) ==
  [m EXCEPT !.pose = [o \in Objects |-> IF m.key[o] = NoKey THEN m.pose[o] ELSE m.key[o]]]

\* ObjectSelectionHash: folds the addresses of the selected objects. Distinct
\* sets of addresses are taken to have distinct hashes; the empty one hashes to 0.
ObjectSelectionHash(b, m) == {AddrOf[b][o] : o \in m.sel}

-----------------------------------------------------------------------------
(* The backup manager: functions on its state, so that handlers compose     *)

Hash == SUBSET {AddrOf[b][o] : b \in Blocks, o \in Objects}
Backup == [model : Model, optype : MergeOps \cup {Atomic}, compareData : Hash]

\* position = Len(backups) + 1 is backups.end(). The history flag drift says that
\* the model in the editor was changed since it last was the backup at position.
Manager == [backups : Seq(Backup), position : Nat, numBackups : Nat, drift : BOOLEAN]

IsEmpty(b) == b.backups = <<>>
HasUndo(b) == ~IsEmpty(b) /\ b.position # 1
HasRedo(b) == ~IsEmpty(b) /\ b.position < Len(b.backups)

\* Mutant of RemoveRedoBackups: what can be redone survives the next edit.
RedoSurvives(b) == b

RemoveRedoBackups(b) ==
  IF IsEmpty(b) THEN b ELSE [b EXCEPT !.backups = SubSeq(@, 1, b.position)]

\* Mutants of SetNumBackups: the position stays behind with an evicted backup; one
\* backup too many is evicted.
PositionIsEvicted(b, n) ==
  LET size    == Len(b.backups)
      dropped == IF size > n THEN size - n ELSE 0
  IN  [backups    |-> SubSeq(b.backups, dropped + 1, size),
       position   |-> b.position,
       numBackups |-> n,
       drift      |-> b.drift \/ b.position <= dropped]

EvictsOneMore(b, n) ==
  LET size    == Len(b.backups)
      dropped == IF size > n THEN IF n = 0 THEN size ELSE size - n + 1 ELSE 0
  IN  [backups    |-> SubSeq(b.backups, dropped + 1, size),
       position   |-> IF b.position > dropped THEN b.position - dropped ELSE 1,
       numBackups |-> n,
       drift      |-> b.drift \/ b.position <= dropped]

\* The oldest backups go; a position that goes with them moves to the oldest left.
SetNumBackups(b, n) ==
  LET size    == Len(b.backups)
      dropped == IF size > n THEN size - n ELSE 0
  IN  [backups    |-> SubSeq(b.backups, dropped + 1, size),
       position   |-> IF b.position > dropped THEN b.position - dropped ELSE 1,
       numBackups |-> n,
       drift      |-> b.drift \/ b.position <= dropped]

AddBackup(b, m, op, cmp) ==
  LET entry == [model |-> m, optype |-> op, compareData |-> cmp]
  IN  SetNumBackups([b EXCEPT !.backups  = Append(@, entry),
                              !.position = Len(b.backups) + 1,
                              !.drift    = FALSE],
                    b.numBackups)

\* With room for one backup or none, nothing is recorded.
AddBackupPoint(b, m) ==
  IF b.numBackups <= 1
  THEN [b EXCEPT !.drift = TRUE]
  ELSE AddBackup(RemoveRedoBackups(b), m, Atomic, {})

\* Mutant of CanMerge: the selection is not compared.
CanMergeAnySelection(b, op, cmp) ==
  ~IsEmpty(b) /\ b.backups[b.position].optype = op

\* The last backup is of the same operation on the same selection.
CanMerge(b, op, cmp) ==
  /\ ~IsEmpty(b)
  /\ b.backups[b.position].optype = op
  /\ b.backups[b.position].compareData = cmp

\* Mutant of MergeLast: the operation reaches the editor's model only.
MergeEditorOnly(b) == RemoveRedoBackups(b)

\* The operation is applied to the last backup as well.
MergeLast(b) ==
  LET kept == RemoveRedoBackups(b)
  IN  [kept EXCEPT !.backups[b.position].model = ApplyOp(@)]

AddMergeableOperation(b, m, op, cmp) ==
  IF CanMerge(b, op, cmp)
  THEN MergeLast(b)
  ELSE AddBackup(RemoveRedoBackups(b), ApplyOp(m), op, cmp)

-----------------------------------------------------------------------------
(* EditorUI::Update reaches TimelineUI::Update, which inserts keys and makes *)
(* a backup point when the auto-keying box is ticked.                        *)

Keyed(m)    == IF autoKeying THEN InsertKeysHelper(m) ELSE m

\* Mutant of Noted: the backup point is made before the keys are inserted.
NotedBeforeKeys(b, m) == IF autoKeying THEN AddBackupPoint(b, m) ELSE b

Noted(b, m) == IF autoKeying THEN AddBackupPoint(b, Keyed(m)) ELSE b

\* A handler that leaves manager b and model m ends with Update.
Update(b, m) ==
  /\ bm' = Noted(b, m)
  /\ model' = Keyed(m)

\* A handler that does not end with Update.
Quiet(b, m) == bm' = b /\ model' = m

\* BACKUP_POINT followed by Update: how nearly every command ends.
Commit(m) == Update(AddBackupPoint(bm, m), m)

\* The addresses some backup's compareData was computed from.
Remembered == UNION {bm.backups[i].compareData : i \in DOMAIN bm.backups}

\* Where a new model can be put: it is built before the old one is deleted.
Placements ==
  {b \in Blocks : \A o \in Objects :
     /\ \A p \in model.objs : AddrOf[b][o] # AddrOf[block][p]
     /\ Recycle \/ AddrOf[b][o] \notin Remembered}

\* The manager shows backup i: SetModel of a clone, which ends with Update.
Show(i) ==
  LET b == [bm EXCEPT !.position = i, !.drift = FALSE]
  IN  /\ block' \in Placements
      /\ Update(b, b.backups[i].model)

-----------------------------------------------------------------------------
(* Commands *)

\* Clicks in a view or in the object tree; SelectionUpdated ends with Update.
Select(S) ==
  /\ S \subseteq model.objs
  /\ Update(bm, [model EXCEPT !.sel = S])
  /\ UNCHANGED <<block, autoKeying>>

\* One drag event of the move, rotate, scale or origin-move tool.
Drag(op) ==
  /\ Update(AddMergeableOperation(bm, model, op, ObjectSelectionHash(block, model)),
            ApplyOp(model))
  /\ UNCHANGED <<block, autoKeying>>

\* The commands that edit the selected objects and make a backup point.
EditSelected ==
  /\ Commit(EditObjects(model, model.sel))
  /\ UNCHANGED <<block, autoKeying>>

\* The optimize commands: they make a backup point without an Update.
Optimize(S) ==
  /\ S \in {model.objs, model.sel}
  /\ LET m == EditObjects(model, S) IN Quiet(AddBackupPoint(bm, m), m)
  /\ UNCHANGED <<block, autoKeying>>

\* A new object needs a single selected parent, unless it becomes the root. When it
\* is refused the backup point is made all the same.
AddObject(o) ==
  /\ o \notin model.objs
  /\ IF model.objs = {} \/ Cardinality(model.sel) = 1
     THEN Commit([model EXCEPT !.objs = @ \cup {o}])
     ELSE Commit(model)
  /\ UNCHANGED <<block, autoKeying>>

\* The selected objects are deleted, and their descendants with them.
DeleteSelection(S) ==
  /\ model.sel \subseteq S /\ S \subseteq model.objs
  /\ model.sel = {} => S = {}
  /\ Commit(RemoveObjects(model, S))
  /\ UNCHANGED <<block, autoKeying>>

\* File / New: SetModel, then a backup point and no second Update.
New ==
  /\ block' \in Placements
  /\ LET m == Keyed(Fresh({}))
     IN  Quiet(AddBackupPoint(Noted(bm, Fresh({})), m), m)
  /\ UNCHANGED autoKeying

\* File / Load: SetModel (with its Update), a backup point, and Update again.
Load(S) ==
  /\ block' \in Placements
  /\ LET m == Keyed(Fresh(S))
     IN  Update(AddBackupPoint(Noted(bm, Fresh(S)), m), m)
  /\ UNCHANGED autoKeying

Undo == /\ HasUndo(bm)
        /\ Show(bm.position - 1)
        /\ UNCHANGED autoKeying

Redo == /\ HasRedo(bm)
        /\ Show(bm.position + 1)
        /\ UNCHANGED autoKeying

\* A click in the undo buffer viewer.
Goto(i) == /\ i \in DOMAIN bm.backups
           /\ Show(i)
           /\ UNCHANGED autoKeying

\* ConvertToS3O fails on the way: part of the model is already converted, and
\* ReloadLast is to bring the last backup back. Update follows in any case.
FailedConversion(S) ==
  /\ S \subseteq model.objs
  /\ IF IsEmpty(bm)
     THEN /\ Update([bm EXCEPT !.drift = TRUE], EditObjects(model, S))
          /\ UNCHANGED block
     ELSE LET b == [bm EXCEPT !.drift = FALSE]
              m == b.backups[b.position].model
          IN  /\ block' \in Placements
              /\ Update(Noted(b, m), Keyed(m))
  /\ UNCHANGED autoKeying

\* The undo buffer viewer sets another size.
SetBufferSize(n) ==
  /\ Update(SetNumBackups(bm, n), model)
  /\ UNCHANGED <<block, autoKeying>>

\* The "insert keys" button. Update comes before the backup point.
InsertKeys ==
  /\ KeyingModes # {}
  /\ LET m == InsertKeysHelper(model)
     IN  Quiet(AddBackupPoint(IF m.objs # {} THEN Noted(bm, m) ELSE bm, m), m)
  /\ UNCHANGED <<block, autoKeying>>

ToggleAutoKeying ==
  /\ autoKeying' \in KeyingModes \ {autoKeying}
  /\ UNCHANGED <<bm, model, block>>

\* The slider moves away and back, or an animation is played over the slider's
\* time: poses come from the keys and nothing is recorded.
Animate ==
  /\ KeyingModes # {}
  /\ Update([bm EXCEPT !.drift = TRUE], UpdateAnimation(model))
  /\ UNCHANGED <<block, autoKeying>>

\* The rotator window edits a single selected object and records nothing.
Rotator ==
  /\ Cardinality(model.sel) = 1
  /\ Update([bm EXCEPT !.drift = TRUE], EditObjects(model, model.sel))
  /\ UNCHANGED <<block, autoKeying>>

Next ==
  \/ \E S \in SUBSET Objects : Select(S)
  \/ \E op \in MergeOps : Drag(op)
  \/ EditSelected
  \/ \E S \in SUBSET Objects : Optimize(S)
  \/ \E o \in Objects : AddObject(o)
  \/ \E S \in SUBSET Objects : DeleteSelection(S)
  \/ New
  \/ \E S \in (SUBSET Objects) \ {{}} : Load(S)
  \/ Undo
  \/ Redo
  \/ \E i \in DOMAIN bm.backups : Goto(i)
  \/ \E S \in SUBSET Objects : FailedConversion(S)
  \/ \E n \in BufferSizes : SetBufferSize(n)
  \/ InsertKeys
  \/ ToggleAutoKeying
  \/ Animate
  \/ Rotator

\* The editor starts with an empty model; EditorUI::Initialize then makes the first
\* backup point ("New model").
Init ==
  /\ model = Fresh({})
  /\ block \in Blocks
  /\ autoKeying = FALSE
  /\ bm = AddBackupPoint([backups |-> <<>>, position |-> 1,
                          numBackups |-> DefaultNumBackups, drift |-> FALSE], model)

Spec == Init /\ [][Next]_vars

-----------------------------------------------------------------------------
(* Properties *)

Last == bm.backups[bm.position]

\* Every variable has its type and only objects of the model are selected
\* (BackupManager.h's members, EditorUI's model).
TypeOK ==
  /\ bm \in Manager
  /\ model \in Model
  /\ model.sel \subseteq model.objs
  /\ block \in Blocks
  /\ autoKeying \in BOOLEAN

\* The position iterator designates a backup whenever there is one, and the list
\* never outgrows its limit, whatever the order of undos, commands and new sizes
\* (AddBackup, RemoveRedoBackups and SetNumBackups dereference and erase at it).
PositionValid ==
  /\ Len(bm.backups) <= bm.numBackups
  /\ IF IsEmpty(bm) THEN bm.position = 1 ELSE bm.position \in DOMAIN bm.backups

\* Unless an edit bypassed the manager or its backup was dropped since, the model in
\* the editor is the backup at position: undoing and redoing lose nothing.
ShownIsRecorded ==
  ~IsEmpty(bm) /\ ~bm.drift => Shape(model) = Shape(Last.model)

\* When a drag is about to be merged into the last backup, the backup has the very
\* objects selected that the editor has: the callback edits the same objects in
\* both ("apply the operation to the editors version and to the end of the
\* backuplist", BackupManager.cpp).
MergeSelectsTheSame ==
  \A op \in MergeOps :
    CanMerge(bm, op, ObjectSelectionHash(block, model)) => Last.model.sel = model.sel

\* What the rotator window or the animation changed behind the manager's back stays as it
\* is through merged drags: the objects whose pose is not the backup's are the same
\* before and after ("apply the operation on both the mergeable backup and the active
\* model in the editor", BackupManager.h). (With auto-keying on the Update records them.)
Unrecorded == {o \in Objects : model.pose[o] # Last.model.pose[o]}

MergeKeepsUnrecorded ==
  [][\A op \in MergeOps :
       /\ ~autoKeying
       /\ CanMerge(bm, op, ObjectSelectionHash(block, model))
       /\ Drag(op)
       => Unrecorded' = Unrecorded]_vars

\* No command rewrites a backup older than the position: it may only be evicted,
\* oldest first, and only when the list is then full or as many as it is too long for a
\* new limit. (Going back is set apart: with auto-keying on the Update at its end also
\* records, which drops what could be redone.)
PastIsKept ==
  [][~Undo /\ ~(\E i \in DOMAIN bm.backups : Goto(i)) =>
     \E d \in 0 .. Len(bm.backups) :
       /\ d > 0 => \/ Len(bm'.backups) = bm'.numBackups
                   \/ d = Len(bm.backups) - bm'.numBackups
       /\ \A i \in 1 .. bm.position - 1 :
            i > d => /\ i - d <= Len(bm'.backups)
                     /\ bm'.backups[i - d] = bm.backups[i]]_vars

\* With auto-keying on and room for backups, whatever a command did is recorded when
\* it returns, the commands that make no backup point of their own included
\* (TimelineUI::Update inserts the keys and makes the point).
AutoKeyingRecords ==
  [][autoKeying /\ UNCHANGED autoKeying /\ bm'.numBackups > 1
       => ~IsEmpty(bm') /\ Shape(model') = Shape(bm'.backups[bm'.position].model)]_vars

\* The undo buffer keeps the promise of UndoHistory, with the selection and the
\* hashes hidden (BackupManager as a whole).
History == INSTANCE UndoHistory WITH
  Contents <- [objs : SUBSET Objects, pose : [Objects -> Pose], key : [Objects -> Key]],
  history  <- [i \in DOMAIN bm.backups |-> Shape(bm.backups[i].model)],
  cursor   <- bm.position,
  limit    <- bm.numBackups,
  shown    <- Shape(model)

\* After the first backup point every step taken with the auto-keying box off is one of
\* UndoHistory's. (With the box on a command may make several of its steps at once,
\* and going back forgets what it came from.)
KeepsHistory == [][autoKeying \/ History!Next]_(History!vars)
=============================================================================

# TLA+ models of the UpSpring model editor

UpSpring is an editor for the 3D models of the Spring engine. This directory holds
TLA+ models of its core: how the model under edit is changed, recorded, undone, and
turned into a game model. The modules are checked with TLC on small instances
(`*.cfg`), and the central ones are proved correct with TLAPS for every value of
their constants (`*Proofs.tla`). `PROJECT.json` maps every definition to the lines it
models, and lists the runs, the hazards, the findings and the theorems.

Paths below are relative to `src/src/upspring/` unless they start with `src/`.

## 1. The system

The program is a single-threaded FLTK application written in C++. All state changes
happen in callbacks of the event loop: menu and button handlers, mouse events of the
tools, and one idle callback (`TimelineUI::idle_cb`) that runs between any two events
while an animation is played, also while a modal dialog is open. The `Model` in the
editor is owned by `EditorUI`. Nearly every handler has the same shape: change the
model, make a backup point (`BACKUP_POINT`), call `EditorUI::Update`, which lets every
window look at the model again.

| component | code | state | operations |
|---|---|---|---|
| Undo buffer | `BackupManager.cpp/.h`, `BackupViewerUI.cpp` | list of cloned models with the kind of operation and a selection hash, a position iterator, a size limit | add a point, merge a drag into the last one, undo, redo, go to, reload, set the size |
| Editor commands | `Editor.cpp`, `EditorCB.h` | the model in the editor, the current tool, paths | menu handlers, selection, `SetModel`, `Update` |
| Editing tools | `Tools.cpp/.h` | drag state, copy buffer | mouse handlers, copy, cut, paste |
| Object hierarchy | `Model.cpp/.h`, `MdlObject.cpp` | objects linked by raw pointers both ways, root, selection | delete, link, swap, replace, merge, clone |
| Animation | `Animation.cpp/.h`, `Timeline.cpp` | keys per property, slider, playback time, auto-keying box | insert keys, evaluate, play, scrub, set the length |
| Track editor | `AnimTrackEditor.cpp`, its headers | a list of raw pointers to objects and their tracks, a key selection per track | refresh, display, draw, select keys |
| Texture packing | `Texture.cpp/.h` (`TextureBinTree`), `Model::ConvertToS3O` | a tree of rectangles, the target image | insert an image, refuse |
| Textures by name | `Texture.cpp/.h`, `TexGroupUI.cpp`, `TextureBrowser.cpp`, parts of `Editor.cpp`, `Tools.cpp`, `Model.cpp` and `FileIO/*` | textures by name, groups of raw pointers, the group file, the names and textures of polygons and bindings | load archives, look up, edit groups, draw, apply, save |
| Serializer | `creg/*`, `Model::SaveOPK`, `LoadOPK` | addresses to numbers, a queue of pending objects, pointers to be fixed | save and load an object graph |
| Reference counting | `Referenced.h`, `ptrvec.h` | counters, list of weak pointers | link, unlink |
| Views | `View*.cpp`, `IView.h`, `ViewsGroup.h`, `ModelDrawer.cpp` | view splits, selector list | draw, pick, split |
| Meshes, curves | `PolyMesh.cpp`, `CurvedSurface.cpp` | vertices, polygons | optimize, triangulate, transform |
| Config files | `CfgParser.cpp` | a tree of lists and literals | parse, write |
| File formats, archives, mathematics, dialogs | `FileIO/*`, `ZipFile.cpp`, `math/*`, ... | none that outlives a call | read, write, compute |

How they interact, and where it is hard:

- *Tools and commands → undo buffer.* A command makes a point. A drag calls
  `AddMergeableOperation` once per mouse event, which either applies the operation to
  the last backup *and* to the model in the editor, or to the editor and a new backup.
  Two copies have to stay equal over a long sequence of events, while the list they are
  in is cut at one end (new edits after undo) and at the other (the limit).
- *Undo buffer → editor.* Undo, redo, goto and reload show a clone (`SetModel`), which
  frees the model that was shown. Everything that remembers an address (selection
  hashes, the track editor) may meet it again in another object.
- *`Update` → timeline.* `Update` is not only a refresh: with the auto-keying box
  ticked it inserts keys and makes a backup point, also when it runs at the end of an
  undo, of a drag of the slider, or of a tick of the playback (`RedrawViews` is `Update`).
- *Object commands.* They move objects between owners (parent, root, copy buffer) by
  raw pointers, several at a time, over lists that were taken before the first move.
- *Conversion to S3O.* It can stop half way and is then rolled back from the undo
  buffer.

- *Models → textures.* A polygon has the name of its texture and a counted reference to
  it, a binding likewise; they are set in different places, at different times (loading,
  drawing, the texture tool, undo). Groups point to textures without counting them.
- *Program → files → program.* Groups and the archive list are files that the next run
  of the program reads; packages may be read by another version of it.

There are no threads and no messages. What survives a restart is the archive list, the
group file, and what the user saves: `TextureHandler` starts and leaves the program (and
lets it crash where the code reads what is not there), and `OutputSerializer` may stop
in the middle of a save.

*Fairness.* Every step of the editor answers an event, and nothing makes a user act, so
that the specifications of the editor state no fairness. Saving and loading a package
are loops inside one call, which run by themselves until they are done: `Package` states
weak fairness of `Save` and of `Load`, and none of opening a file or of a cut, and
`CallsEnd` says that the loops end. Where a system really stops (a conversion that is
finished, a heap after a fault, a package that was loaded) its configuration says so.

What makes each component correct:

- *Undo buffer*: the position designates a backup; what is shown is what is recorded
  there, unless an edit is known to have bypassed the buffer; travelling forgets
  nothing; edits forget only what was undone and what exceeds the limit; a merged drag
  moves the same objects in both copies.
- *Object hierarchy*: each object has one owner, links agree in both directions, every
  command frees or moves exactly what it is meant to, nothing freed is touched.
- *Packing*: texels belong to one image or to one free leaf; images are never
  overwritten; an image is refused only when no leaf holds it.
- *Animation*: keys are sorted by time, a key changes the animation at its own time
  only, the pose on the screen is the animation's at the slider's time.
- *Track editor*: what is drawn exists, and the selection of keys has one entry a key.
- *Textures by name*: groups point to textures that exist, and hold after a restart what
  they held before; the names that are saved find the textures that were shown.
- *Serializer*: a loaded graph has the shape and the data of the saved one; a file that
  is not whole is refused; both calls end.

## 2. Modules

| module | models | variables and actions |
|---|---|---|
| `UndoHistory` | nothing of the code: what an undo facility promises | a line of contents, a cursor, a limit, what is shown; record, amend, travel, drift, resize |
| `BackupManager` | `BackupManager.cpp` and everything that feeds it | `bm` (list, position, limit), `model`, `block` (the addresses), `autoKeying`; an action per command |
| `MCBackupManager` | values for TLC | |
| `BackupManagerProofs` | theorems | |
| `TextureAtlas` | nothing of the code: what an atlas promises | sizes and places; store |
| `TextureBinTree` | `TextureBinTree` and the loop of `Model::ConvertToS3O` | `leaves` in the order `InsertNode` visits them, `place`, `texture`, `outcome`; add, refuse, finish |
| `MCTextureBinTree`, `TextureBinTreeProofs` | values for TLC; theorems | |
| `KeyFrames` | nothing of the code: what key frame animation promises | a curve per property, the pose, the time it belongs to; scrub, modify, key, restore |
| `Animation` | `AnimProperty`, `AnimationInfo`, `Timeline.cpp` | `keys`, `pose`, `slider`, `maximum`, `time`, `isPlaying`, `autoKeying`, `recorded`, and the history variable `at`; an action per handler |
| `MCAnimation`, `AnimationProofs`, `KeyFramesProofs` | values and an interpolation for TLC; theorems | |
| `ObjectTree` | `MdlObject` links, `Model`'s restructuring, `CopyBuffer`, the menu handlers that use them | `heap`: live objects, `parent`, `childs`, `selected`, `root`, `buffer`, first `fault`; an action per command |
| `MCObjectTree`, `ObjectTreeProofs` | file hierarchies and the view for TLC; theorems | |
| `OutputSerializer` | `COutputStreamSerializer` | `ptrToID`, `objects`, `pending`, the pass `po`, the call stack `todo`, `stream`, `file`; a step per serialized field, `NextObject`, `NextPass`, `FinishSave`, `CutSave` |
| `InputSerializer` | `CInputStreamSerializer` and the checksum | `version`, `input`, `table`, the call stack `rtodo`, the instances `ins`, `unfixed`; `OpenPackage`, a step per member, `Garble`, `FinishLoad` |
| `Package` | `Model::SaveOPK` and `LoadOPK`: the composition of the two | |
| `ModelClasses`, `MCPackage` | the registered classes and the memory of models; values for TLC | |
| `PackageProofs` | theorems | |
| `TextureHandler` | `TextureHandler`, `TextureGroupHandler`, the group window, the texture and the colour tool, names in 3DO models | `textures`, `texname`, `groups`, `config` (the file), `archives` (the list), the model and its backups, the 3DO file; an action per handler, `Start`, `Exit` and three faults |
| `TextureBindings` | the texture slots of S3O models | `model` (bindings and the names given), `versions` and `shown` (the undo buffer), `s3o` (the file); an action per command |
| `TextureHandlerProofs`, `TextureBindingsProofs`, `MCTextureHandler`, `MCTextureBindings` | theorems; values and views for TLC | |

### Abstractions

*BackupManager.* A model is its objects, one pose per object (geometry included), one
animation key per object, and the selection. Poses cycle through `0 .. Poses - 1`, so
that every edit changes something. `position` is an index; `Len(backups) + 1` is
`end()`. The address of an object is `AddrOf[block][object]`: a clone is placed in a
block whose addresses differ from those of the model it replaces, since it is built
before the other is deleted. `ObjectSelectionHash` is the set of the addresses, that is
a hash without collisions. `Recycle` says whether a clone may get addresses that some
backup's hash was computed from. The flag `drift` is a history variable: the model in
the editor was changed since it was the backup at the position (rotator, playback, a
failed conversion with nothing to reload, an evicted position, a buffer too small to
record). Handlers are compositions of functions on the manager, in the order of the
calls in the code, `Update` with the timeline's auto-keying included.

*TextureBinTree.* The tree is kept as the sequence of leaves that can still take an
image, in depth-first order: `InsertNode` never returns anything else, an inner node
only leads to its childs, and a node that holds an image is never visited with success
again. The target texture is a function from texels to the image blitted there.

*Animation.* The properties of all objects are one set, since nothing relates them but
the time. Times count steps of the slider: 0.01, which is also `EPSILON`. In single
precision it depends on the two times whether neighbouring steps are less than
`EPSILON` apart, so `Rounded` lists the times at which they are, and `StrayKey` says
whether what lies in memory before the keys may look like a key (`InsertKey` reads it
for a time before the first key). Writing there is a step that leaves the keys alone;
what it destroys instead is outside the model. `lastkey` is left out: none of the
callers modelled here passes it. One backup, the last one recorded, stands for the
undo buffer: `Reload` shows it again as `SetModel` does. `at` remembers the time the
pose was evaluated or keyed at, and the properties edited since. `LinearInterp` is a
parameter of which only the type and the value at the first key are assumed. The
slider is dragged within its maximum; playback moves it past it, as the code does.
Every handler that ends in `RedrawViews` or `Update` has the auto-keying of
`TimelineUI::Update` in the same step (`Update`): keys are inserted at the slider's
time, the time is set to it, and a backup point is made. For a drag and a tick,
`ShowTime` evaluates the pose first.

*ObjectTree.* Objects are cells on a heap of `MaxObjects`; new objects get free cells
(`Addresses`), the same ones whenever the same are free, so that addresses are reused.
What the code does to a freed object or to a link that is not there is recorded as a
`fault`, and nothing is modelled after it. Files contribute the hierarchies in `Shapes`.
What a recursive traversal reaches is the least set closed under childs (`Below`), and
the list it makes is one of those that follow its order (`Visited`, `InOrder`): a parent
before its childs, and all below a child before what is below the next one. Where it meets
every object once there is just one such list. A replacement can leave an object
with two owners; the code then works through it twice, which the model does not follow:
commands on the selection, pastes, and undo and redo wait until no object is met twice.
`AfterReplace` says whether Object / Replace is taken and how many commands are followed
after it: it leaves links half set, so that most properties are stated for hierarchies
it has not touched (`Intact`); `since` counts those commands. The view of the run lists a
hierarchy by a recursive traversal (`Preorder`, in `MCObjectTree`).

*OutputSerializer, InputSerializer, Package.* Memory is a function from instances to
their class, address and fields; the stream is a sequence of tokens, one per field.
Members of base classes are among those of the class, static arrays and strings are
data, and vectors are their length and their elements. Saving is one step per field, in
the order of the recursion. A token of another kind than the reader expects is garbage,
after which nothing is modelled. The class that `LoadOPK` expects at the root, functions
and callbacks after a load, and `AnimationInfo::Serialize` are left out. `SaveOPK` does
not look at the stream when it is done, so that a full disk is no different from the end
of the program: the header is written last, and is missing. The order in which the
classes of a package are listed is that of addresses: `ClassOrders` are the lists that may
occur, and a package has any of them that lists just the classes of its objects. The checksum
is not a number here but the names that still have an influence on it: the code
multiplies by n at the n-th character, so that a name followed by names with 32 factors
of two in the factorials of their lengths leaves no trace in 32 bits. Packages are used
by scripts; the menus save S3O and 3DO files.

*TextureHandler.* Names are names up to case and without extension, as the code makes
them. A texture is identified by the archive and the entry it was read from. Archives on
disk do not change while they are listed or between runs of the program. One model has
the polygons `Polys`; names of groups, and the files that one group can be saved to,
are left out. The mapping of the model is no state: the chooser gives any model either
mapping and takes it back, without a backup point, so that a model may be drawn as 3DO
at any time (`Draw`). `OtherCommand` stands for every command that records the model and
leaves its textures alone. A visit to the (modal) group window with several edits is several visits,
and so is one to the archive list. The undo buffer is what `BackupManager` makes of it,
without merging and resizing; conversions that fail are there too. A crash (`Fault`)
loses everything but the files. Of what the code does with freed textures and null
pointers only the crash is modelled. `groups` and `settled` keep their values while the
program is down, for the properties to compare with.

*TextureBindings.* A binding is its name and the name of the texture it has. Whether an
image is found is chosen anew at every lookup. The fields `given` and `missing` are
history: the names that the file or the user gave, and whether a name was lost for a
reason the editor shows (an image that is not there, a typed name that was not loaded, a
file with a second texture only).

## 3. Runs

| run | question | result |
|---|---|---|
| `undo_buffer` | is the position valid, what is shown recorded, a drag merged only into a backup with the same objects selected and without touching what is not recorded, the past kept, every command recorded under auto-keying, and is the buffer an `UndoHistory` without it? | holds |
| `undo_address_reuse` | the question about drags when memory is reused | violated, finding 1 |
| `object_tree` | ownership, links, and the exact effect of every restructuring command; is the damage of a replacement limited, and does an undo and redo repair it? | holds |
| `object_replace` | do the assertions on parentless objects hold after a replacement? | violated, finding 2 |
| `anim_keys` | are keys sorted, is the pose the animation's, do dragging the slider and playing leave the animation alone although they insert keys (up to the last key before the end when playback starts over), and are sorted arrays of keys an implementation of `KeyFrames`? | holds, if times are told apart exactly |
| `anim_stray` | does the animation go through the pose that was inserted? | violated before the first key, finding 3 |
| `anim_reload` | does auto-keying leave alone what was not edited, after going back to a backup? | violated, finding 4 |
| `texture_packing` | partition, no overwriting, no needless refusal, refinement of `TextureAtlas` | holds |
| `package` | are objects written in the order in which they are read, is what the same version loads what was saved, is a cut file refused, do both calls end? | holds |
| `texture_groups` | do groups point to textures that exist and come back after a restart, and do saved names of polygons find their textures? | holds |
| `texture_bindings` | are the names that were given saved, each in its slot, if no image was missing? | holds |
| `texture_names` | are they saved if an image was missing? | violated, finding 5 |

Bounds, and why they are enough:

- `undo_buffer`: one object, two poses, a limit of three backups that the user changes
  to 0, 1 and 2. Three backups are the least with a backup on each side of the
  position; the sizes hit every branch of `SetNumBackups`. Blocks are symmetric: the
  code only compares addresses for equality, and with `OwnAddresses` a permutation of
  blocks maps behaviours to behaviours.
- `undo_address_reuse`: two objects, so that two selections of one object each exist;
  two backups. `b1` and `b3` are the same memory with
  the two objects the other way round, and no symmetry is used.
  In `undo_buffer` the auto-keying box is ticked and unticked at any time; the selections
  that differ are "none" and "the object", and for any number of objects merging is
  proved faithful (`MergesAreFaithful`).
- `object_tree`: five objects in the model and the copy buffer together: enough for a
  chain of three selected objects with siblings, and for a copy of a pair next to the
  pair. States are compared up to a renaming of the addresses (`UpToRenaming`): until
  an object was replaced no command compares addresses other than for equality, allocation
  order is the only thing that depends on them, and the properties do not name any; from
  then on states are compared as they are. The
  action properties relate a state to its successor with the names that state has,
  which is sound because TLC evaluates them on every step it generates, before it
  drops the successor as seen.
  Two commands are followed after a replacement (`AfterReplace`): the undo and the redo
  that repair it, or any others. `object_replace` follows four, with four objects, one
  file of a parent and a child, and no view.
- `anim_keys`: one property (properties do not interact), two values, times 0 to 2: a
  key may be before, at and after others, with a moment between two keys to
  interpolate. The length starts at 2 and can be set to 1, so that keys, slider and
  playback time get past the end; playback that would go past `MaxTime` is not followed.
  Ticks take 0 or 1: with a tick of 0 the model is evaluated at the time it has, which
  may be past the end.
  `Rounded` is empty here: that the keys stay sorted whatever is taken for the same
  time is proved (`KeysStaySorted`).
- `anim_stray`, `anim_reload`: three values, times 0 to 2, no playback; `StrayKey` and
  `Reloading` are switched on one at a time.
- `texture_packing`: every assignment of sizes up to 3 x 3 to five images, in every
  order, in a 4 x 4 texture. That includes exact fits, both split directions, equal
  remainders, and textures that fill up.

- `package`: all trees of three objects, each with or without a mesh, vertices in them,
  and smaller models with two texture bindings or vertices: every kind of member, a
  cycle of pointers, an object met twice, an address shared by two embedded instances,
  and several passes of the loop. `MaxStream` (60 tokens) is beyond the longest of these
  packages, and only there for the mutant that never ends. Loading versions have a
  member more at the start or the end of a class, or a class less; two orders of classes
  let the checksum see some of these changes and miss others.
- `texture_groups`: three names, one of them the numbered form of another, and three
  archives: the numbered texture, the plain one, and a broken numbered one; one group,
  one polygon, two backups, one colour. Every way in which a lookup can end is there:
  found, found under the numbered name (and renamed), hidden by a broken image. The view
  leaves out the file that was written, which no action reads, and whether a model
  without open names counts as loaded.
- `texture_bindings`, `texture_names`: two names to give, one with a directory, and both
  slots; two backups, the least for an undo. The view leaves out the file, and what was
  given to a model in which something was missing.

Not shown by these runs: behaviour of the undo buffer that needs more than two poses,
hash collisions, and the order in which several files are loaded.

## 4. Proofs

`BackupManagerProofs` proves, for any objects, poses, addresses, limits and sizes,

- `TypeCorrect` and `PositionAlwaysValid`: `Spec => []TypeOK`, `Spec => []PositionValid`;
- `MergesAreFaithful` and `ShownStaysRecorded`: if addresses are not reused (`~Recycle`),
  `Spec => []MergeSelectsTheSame` and `Spec => []ShownIsRecorded`;
- `MergesKeepUnrecorded`: under the same condition `Spec => MergeKeepsUnrecorded`;
- `PastStaysKept` and `RecordsAutoKeyed`: the action properties `PastIsKept` and
  `AutoKeyingRecords`;
- `ImplementsHistory`: if addresses are not reused, `Spec => KeepsHistory`, the
  refinement of `UndoHistory`.

`PositionValid` and the typing are inductive together, because every function on the
manager keeps a *sound* manager (position in range, list within the limit) sound;
there is one lemma per function, and the actions compose them. `MergeSelectsTheSame`
is not inductive: it speaks of the backup at the position only, while undo and redo
bring any backup there. The invariant `Consistent` therefore says of *every* backup
that its hash is the hash of the objects selected in it, taken at the addresses of some
block (`Good`), that a hash that could be computed on the present block can only come
from the present block (`HashFits`, kept because a new placement avoids remembered
addresses), and that an editor model that has not drifted is the backup at the position
(`Synced`). Its preservation is proved action by action in `Invariance`.

What a command does to the list is a shift: of the backups before the position, the `d`
oldest go and the others keep their order (`Shifted`). With auto-keying a command makes
two backup points or three, so that the argument is about any manager on the way
(`StillHas`: something is gone only if the list is full and the position at its end,
`FullAtEnd`), and a backup point keeps it (`PointStillHas`). `CommandIs` classifies the
commands by how they end: in an update of such a manager, or in a backup point of one;
travelling and new limits have lemmas of their own. `PastIsKept` was corrected by this proof: it used to
allow the loss of the oldest backup in a full list only, but a smaller limit drops several
backups at once, and the update that follows it with auto-keying drops one more
(`SizeKeeps`). For `ImplementsHistory` a backup stands for its content, without its hash
(`Hist`); each function on the manager is then a record, an amendment, a journey, a drift
or a resize of a line of contents (`HistAppended`, `DragIsHistory`, `ShowIsTravel`,
`SizeIsResize`), and `StepIsHistory` puts the commands together. A merged drag is an
amendment only because the backup and the model in the editor select the same objects,
which is why the theorem needs `~Recycle`. The same fact gives `MergesKeepUnrecorded`: the
operation is one-to-one on poses (`NextPose`), so that two models with one selection
differ in the same objects before and after it (`MovesAlike`).

`TextureBinTreeProofs` proves, for any texture and any sizes, `TypeCorrect`,
`TexelsArePartitioned` (`Partition`), `ImagesStayIntact` (`ImagesIntact`), `TilesDoFill`
(`TilesFill`) and `ImplementsAtlas` (`Spec => IsAtlas`). The inductive invariant states the geometry by
rectangles instead of texels: leaves and placed images are inside the texture, pairwise
disjoint, and cover it; the texture shows each image at its place. The step is the
lemma that `Right`, `Below` and the image split a leaf exactly, in both directions and
with empty remainders, and a lemma on replacing one element of a sequence by two others.
`TilesFill` has an invariant of its own (`TInv`): as long as all images have one size that
divides the texture, every leaf is a whole number of images wide and high, so that each
leaf that is left has room for one (`WholeIsLarge`), and none is refused before the
leaves are used up.

`AnimationProofs` proves, for any properties, values, interpolation, lengths, ticks and
any `Rounded` and `StrayKey`, `TypeCorrect` and `KeysStaySorted` (`Spec =>
[]KeysSorted`), and `PoseStaysAnimated` (`Spec => []PoseIsAnimated`) under the
assumption `Exact`, that no two times are mistaken for each other. Types and order of
keys are inductive together: where a key goes is decided by `GetKeyIndex`, whose result
exists (lemma `KeyIndex`, by the least index that is too late) and is unique once keys
are sorted, and `InsertKeySorts` shows that inserting behind it keeps the order in each
of the two outcomes of the comparison. `PoseIsAnimated` needs the same of the recorded
pose, since `Reload` brings that back, and two lemmas: after `InsertKey` the animation
goes through the key, and after `InsertKeyFrames` through the pose. All of it is proved
of `Update`, the end of nearly every handler, for any keys, pose and slider it is reached
with; a drag and a tick reach it with the pose they have just evaluated.

`ScrubbingIsHarmless` is `Spec => ScrubbingKeysNothing` under `Exact` and `FlatInterp`
(interpolating between two equal values gives that value): the pose that a drag or a
tick shows is the animation's own at the time it is keyed at, so that a key is inserted
only where there is none on one side. It has the value of the first or of the last key,
and one more key of that value before or behind all others changes no time
(`FirstKeyChangesNothing`, `LastKeyChangesNothing`). A property without keys gets its first
one, of which nothing is said. When playback starts over, the pose of time 0 is keyed past
the end; `LaterKeyChangesNothing` has that a key behind another one, new or replaced,
changes nothing up to that one.

`KeyFramesProofs` proves `ImplementsKeyFrames`: under `Exact`, `Spec => IsKeyFrames`.
An array of keys stands for its curve (`CurveOfKeys`), `Evaluate` samples that curve
(`EvaluateSamples`: the index `GetKeyIndex` finds splits the times of the curve into
those before and those after), and `InsertKey` leaves the curve alone at all other times
(`InsertKeySameBut`). Each handler is then a step of `KeyFrames` or a stutter. A handler
that changes the pose (an edit, a drag, a tick, a reload) and keys it in its `Update` is
one step `KeyFrom`, in which the pose may change before the keys are set.

`PackageProofs` proves three things for every memory that satisfies `HeapAssumption` and
all reading versions that satisfy `VersionsAssumption` (a class is a list of members of
five kinds, and the classes of embedded members are registered).
`WriteOrderIsReadOrder`: `Spec => []WrittenInReadOrder`. The invariant looks at the objects that
were written, those left of the pass, and those that the next pass will find as one
queue: it is sorted by number, has every object that is not embedded exactly once, and
is only ever appended to, because a pointer gives its object the next number at the
moment it puts it there. Embedded instances take numbers in between and change entries,
but only entries of embedded addresses; that is where the assumption is needed, that no
registered pointer leads to a member of an object and that no such member is at the
address of an object of its own. Were it not so, an object could be written twice.
`UnfinishedStaysRefused`: `Spec => []UnfinishedIsRefused`. As long as no save has
finished, the file has no header and no load is past `OpenPackage` (`Headerless`), in
particular not in the loop that would read objects. `TypeCorrect`: `Spec => []TypeOK`.
On the side of the loader, whose input may come from another version than the one that
reads it, the invariant `LoaderTyped` says what an open job, an instance and a pointer
left for later may be: every job is for an instance that exists, every table entry that is
not embedded has its instance, every pointer left has an id of the table. `Garble` takes
what does not fit.

`TextureBindingsProofs` proves `TypeCorrect` and `SavedNamesAreGiven` (`BindingsSpec =>
GivenNamesAreSaved`), for any names, directories and buffer size. The property speaks of
the model that is shown; inductive is that every version in the undo buffer either lost
a name knowingly or has in each slot the name it was given, but for the directory.
Showing a version then changes nothing, or counts as a loss.

`TextureHandlerProofs` proves, for any archives and any number of names, polygons, groups
and backups, through faults and restarts, `TypeCorrect`, `GroupsStayOwned` (`Spec =>
[]GroupsHoldOwned`), and the action properties `GroupsDoComeBack` (`GroupsComeBack`),
`SavedNamesDoResolve` (`SavedNamesResolve`) and `NamesAreSaved`
(`NamesAreLostOnlyIfMissing`).

`GroupsHoldOwned` is about the groups alone and is not inductive: `AddUnitTextures` takes
textures from the model, and undo brings back models of long ago. The invariant therefore
has that whatever the groups, the model or any backup refers to is owned, and that an
entry of the handler is under the name of its texture; `ArchiveList` keeps both because it
never replaces an entry that is there (`LoadedIs`).

The properties of names hold while the archive list is the one the program was started
with (`settled`), and rest on `NamesInv`: the handler holds just what `Load` makes of that
list, each texture is found under its name, each polygon of the model and of every backup
has a name that leads to its texture and is the one it was given, or lost its name
because nothing was found under it (`NameFits`), and while the program is down the names
in the file lead to the groups (`ComesBack`). A lookup under a name with the number `00`
renames what it finds, which is why `NameFits` is kept by a lookup (and not only by an
assignment) and why the assumptions on names matter: `NamesAssumption` has that numbering
a name is one-to-one, and that no archive has an
image with the name of a texture made of a colour (`Model.cpp:626` names those `Color`
and a number); with one, a polygon would get the image back instead of the colour.

`ObjectTreeProofs` proves, for any number of objects and any files, what each command
does to a hierarchy. The inductive invariant (`Invariance`) is that until an object is replaced
the heap is a *forest* (`Forest`): links agree in both directions, every nonempty set
of objects has one whose parent is not in it, the objects without a parent are the root
and the buffered ones, and there was no fault. From it follow `EveryObjectIsOwned`
(`OwnedOnce`), `BothDirectionsAgree` (`LinksAgree`), `NothingDangles` (`NoDangling`) and
`AssertionsHoldIntact` (`Intact => AssertionsHold`: only a replacement can break the
assertions of finding 2). That links agree is not inductive without the rest: which object
~MdlObject frees, or a loop of a command reaches, depends on the absence of loops.

The argument has three parts. `Below` is a least set, so that facts about it come from
closed sets and not from an induction over the depth (`BelowIsLeast`, `BelowInTrees`,
`TopDown`). The primitives (unlink, link, take out, delete, exchange childs, build) have a
lemma each that says what they leave of the links and of what is below the other objects.
A loop of a command passes a sequence of sets of heaps, one per round, in which what is
done so far is exact; `LoopRuns` needs of each round that it leads from one set to the
next (`ClearNext`, `DeleteNext`, `RoundsFollow`, `MergeNextKeeps`, `CutNext`). So the lists
that were made before the first change stay right to the end, and `Cut`, which
starts over after each object, comes to an end with nothing selected: the first selected
object exists (`SomeIsFirst`) and is below no other one (`EarlierIsNotBelow`). The action
properties follow: `DeletingIsExact`, `CuttingLosesNothing`, `SwappingExchangesPlaces` (all
three cases of `LinkSwapped`, by the parent of every object before and after),
`MergingKeepsAncestry`.

`ReplacingKeepsTheRest` (`Spec => ReplaceKeepsTheRest`) is about the step that leaves
links half set: what was below the replaced object is found by the childs alone, from the
root or the copy buffer, wherever its parent pointer leads. `TypeCorrectness` is `Spec =>
[](since <= 1 => TypeOK)`, up to and including that step. `UndoRedoHealsLinks` needs
no more of a heap than its type, whatever was done after a replacement (`Spec /\ [](heap
\in Heap) => UndoRedoRelinks`), and `UndoRedoHealsReplacing` has it with nothing assumed
for an undo and redo right after the replacement.

The assumptions are the named `ASSUME`s of the modules, which TLC evaluates on the
instances. Only model-checked are:

- `LoadedIsSaved`, what a loaded package contains: it compares two graphs field by field
  through the whole stream, an induction over data;
- `CallsEnd`, which is liveness;
- `TypeOK` of `ObjectTree` after further commands on a hierarchy in which an object was
  replaced: there an object may belong to the model and to the copy buffer, and how much a
  paste allocates depends on what it has pasted before, so that no bound on it is proved;
- the properties that are violated (section 5).

## 5. Findings

1. `undo_address_reuse` (`BackupManager.cpp:59`). A backup's selection hash is computed
   from addresses. After undo and redo the editor holds a clone; when the allocator
   gives another object the address of the one that was dragged, a drag of it is merged
   into the old backup, and the callback moves the *old* object there. From then on
   what is shown is not what is recorded, and an undo of the drag is lost.
2. `object_replace` (`Model.cpp:312`). A replaced object has no parent pointer; deleting
   or cutting it fails the assertion that parentless objects are the root. Swapping it
   can give an object two owners. `UndoRedoRelinks` shows that undo and redo repair the
   pointers, since `Clone` sets its own.
3. `anim_stray` (`Animation.cpp:226`). For a time before the first key `InsertKey`
   reads, and may write, a key that lies before the vector's memory.
4. `anim_reload` (`Editor.cpp:668`). Going back to a backup leaves the slider where it
   is; with auto-keying ticked, the restored pose of another time is keyed there by
   any later command, even a selection.
5. `texture_names` (`Editor.cpp:681`). A model that is shown without one of its images
   loses the image's name, and a save writes the file without it, although
   `src/readme.txt:151` has the names written even if textures are missing.

Observations from the modelling, without a run of their own:

- With auto-keying ticked, undo makes a backup point at its end, which erases what could
  be redone (`Timeline.cpp:192`; `BackupManager` has it, and `KeepsHistory` is stated
  without auto-keying for that reason).
- When playback passes the end, the slider is set past it, and the pose of time 0 is shown
  (`Timeline.cpp:104`). With auto-keying ticked the `Update` that follows keys that pose at
  the slider's time and sets the time back to it (`Timeline.cpp:207`). With keys of values
  1 and 2 at times 0 and 1 and an end at 2, a tick to 3 changes what is shown at 2; and
  playback does not start over, since each further tick keys the first pose a little later.
  `ScrubbingKeysNothing` says what is spared.
- The checksum of a package misses most changes (`creg/creg.cpp:217`), and the entry of a
  structure is taken over by its first member, so that the class `Vertex` is never listed
  (`creg/Serializer.cpp:108`): packages of another version are loaded, and the reader may
  lose its place (`Garble` is reached in `package`).
- A texture made of a colour that is put into a group is freed with the last model that
  has it, and then used at the exit at the latest (`Editor.cpp:297`). A broken image
  crashes the group window (`TextureBrowser.cpp:24`) or a lookup (`Texture.cpp:173`).
  By `GroupsHoldOwned`, no group brings a freed texture or none otherwise.
- Drawing clears the names that are not found in the archives (`MdlObject.cpp:268`),
  while `src/readme.txt:138` has them unchanged; `NamesAreLostOnlyIfMissing`
  says when. An S3O file with a second texture only is loaded into the first slot
  (`FileIO/S3O.cpp:174`).

## 6. What is not modelled, and the plan

- *Track editor*: raw pointers to objects and tracks that the window keeps while it is
  hidden, and its forward-only lookup. It would be next (a module `AnimTrackEditor`
  composed with the clones of the undo buffer); the hazards are listed without a property.
- *Texture coordinates* of a conversion, *meshes* and *curves*: floating-point geometry
  inside one command.
- *Config files*: a recursive parser and its writer; what the program keeps in them is
  modelled in `TextureHandler`.
- *Views*: drawing and picking are OpenGL, their layout is the toolkit's.
- *Reference counts*: `TextureHandler` has what they decide (`Alive`). The weak pointers
  of `Referenced.h` have no user.
- *Scripts, UV import and export, the camera and selection tools.*

A theorem to add would be the type of the heap for any commands after a replacement. It
needs an invariant for hierarchies whose parent pointers are stale: every object met at
most once from the root, and what the copy buffer shares with it.

Left out for good: OpenGL output, floating-point mathematics and curve fitting, binary
file formats, archives and images, dialogs, generated code (`EditorUI.cpp`,
`AnimationUI.cpp`, the SWIG wrapper) and vendored libraries (`fltk2`, `lib3ds`, `lua`):
together nearly all of the lines under `src/`.

-------------------------- MODULE TextureBindings --------------------------
(***************************************************************************)
(* The two textures of an S3O model. Model::texBindings holds for each its  *)
(* name and the texture itself, if the image was found; an S3O file has the *)
(* names only. Every time a model is shown (opened, undone, redone) the     *)
(* names are set anew from the textures.                                    *)
(***************************************************************************)
EXTENDS Naturals, Sequences

CONSTANTS
  Names,       \* names of images
  Files,       \* the names among them that the user and S3O files give
  NoName,      \* the empty name, and the name of no texture
  BaseName,    \* a name without its directory
  Converted,   \* the image that a conversion from 3DO saves
  NumBackups   \* the size of the undo buffer

AnyName == Names \cup {NoName}
Given   == Files \cup {NoName}
Slots   == {1, 2}

ASSUME BaseNameAssumption ==
  /\ NoName \notin Names /\ Converted \in Names /\ Files \subseteq Names
  /\ BaseName \in [AnyName -> AnyName]
  /\ BaseName[NoName] = NoName
  /\ \A n \in Names : BaseName[n] \in Names /\ BaseName[BaseName[n]] = BaseName[n]
ASSUME NumBackupsAssumption == NumBackups \in Nat \ {0, 1}

VARIABLES
  model,     \* its bindings, with the history: the names that the file or the user
             \* gave the slots, and whether an image was missing or a slot skipped
  versions,  \* the models in the undo buffer
  shown,     \* the position in it
  s3o        \* the names in the S3O file that was written last, if one was

bvars == <<model, versions, shown, s3o>>

\* tex is the name of the texture, which need not be the name of the binding.
Binding == [name : AnyName, tex : AnyName]
Bare    == [name |-> NoName, tex |-> NoName]

Bindings == {<<>>} \cup [1..1 -> Binding] \cup [1..2 -> Binding]
TexModel == [binds : Bindings, given : [Slots -> AnyName], missing : BOOLEAN]

NewTexModel == [binds |-> <<>>, given |-> [i \in Slots |-> NoName], missing |-> FALSE]

BindingsInit ==
  /\ model = NewTexModel
  /\ versions = <<NewTexModel>> /\ shown = 1
  /\ s3o = <<>>

-----------------------------------------------------------------------------
(* Model::SetTexture, SetTextureName, and the undo buffer                   *)

\* texBindings.resize, when slot i is beyond its end.
Resized(bs, i) ==
  [j \in 1..(IF i > Len(bs) THEN i ELSE Len(bs)) |-> IF j <= Len(bs) THEN bs[j] ELSE Bare]

\* Mutant of SetTexture: the name is left as it was.
SetTextureOnly(bs, i, tex) == [Resized(bs, i) EXCEPT ![i].tex = tex]

\* The binding gets the texture and its name, or none and the empty name.
SetTexture(bs, i, tex) == [Resized(bs, i) EXCEPT ![i] = [name |-> tex, tex |-> tex]]

SetTextureName(bs, i, name) == [Resized(bs, i) EXCEPT ![i].name = name]

\* EditorUI::SetModel: SetModelTexture for each binding.
SetModel(m) ==
  [m EXCEPT !.binds   = [i \in DOMAIN m.binds |-> SetTexture(m.binds, i, m.binds[i].tex)[i]],
            !.missing = m.missing \/ \E i \in DOMAIN m.binds : m.binds[i].name # m.binds[i].tex]

\* Mutant of AddVersion: the position is not moved when the oldest model goes.
AddVersionBehind(m) ==
  LET kept == Append(SubSeq(versions, 1, shown), m)
      new  == IF Len(kept) > NumBackups THEN Tail(kept) ELSE kept
  IN  versions' = new /\ shown' = Len(kept)

AddVersion(m) ==
  LET kept == Append(SubSeq(versions, 1, shown), m)
      new  == IF Len(kept) > NumBackups THEN Tail(kept) ELSE kept
  IN  versions' = new /\ shown' = Len(new)

Record(m) == model' = m /\ AddVersion(m) /\ UNCHANGED s3o

-----------------------------------------------------------------------------
(* Commands                                                                 *)

NewS3O == Record(NewTexModel)

\* Model::LoadS3O: a binding for each name in the file.
Loaded(file, found) ==
  LET used == (IF file[1] = NoName THEN <<>> ELSE <<1>>)
              \o (IF file[2] = NoName THEN <<>> ELSE <<2>>)
  IN  [k \in 1..Len(used) |-> [name |-> file[used[k]],
         tex |-> IF found[used[k]] THEN BaseName[file[used[k]]] ELSE NoName]]

\* An S3O file is opened; the images of some slots are found.
OpenS3O(file, found) ==
  LET loaded == [binds   |-> Loaded(file, found),
                 given   |-> file,
                 missing |-> \/ \E i \in Slots : file[i] # NoName /\ ~found[i]
                             \/ file[1] = NoName /\ file[2] # NoName]
      m == SetModel(loaded)
  IN  Record([m EXCEPT !.missing = loaded.missing])

\* Model::SaveS3O writes the names that are not empty, each in its slot.
SaveS3O ==
  /\ s3o' = [i \in Slots |-> IF i <= Len(model.binds) THEN model.binds[i].name ELSE NoName]
  /\ UNCHANGED <<model, versions, shown>>

\* A name is typed into the input of slot i: no texture is looked up and nothing is
\* recorded.
TypeName(i, name) ==
  /\ model' = [model EXCEPT !.binds = SetTextureName(@, i, name), !.given[i] = name]
  /\ UNCHANGED <<versions, shown, s3o>>

\* An image is chosen for slot i, which may turn out not to be one.
BrowseForTexture(i, name) ==
  Record([model EXCEPT !.binds = SetTexture(@, i, BaseName[name]), !.given[i] = BaseName[name]])

\* "Reload": the image of the name in slot i is looked up again.
ReloadTexture(i, found) ==
  LET bs   == Resized(model.binds, i)
      name == bs[i].name
      tex  == IF found THEN BaseName[name] ELSE NoName
  IN  Record([model EXCEPT !.binds   = SetTexture(bs, i, tex),
                           !.missing = @ \/ (name # NoName /\ ~found)])

\* ConvertToS3O puts the packed image into the first slot, under its whole path.
ConvertToS3O ==
  Record([model EXCEPT !.binds = SetTexture(@, 1, Converted), !.given[1] = Converted])

\* Any other command, and a choice of something that is no image.
OtherCommand == Record(model)

ShowVersion(i) ==
  /\ model' = SetModel(versions[i])
  /\ shown' = i
  /\ UNCHANGED <<versions, s3o>>

UndoS3O == shown > 1 /\ ShowVersion(shown - 1)
RedoS3O == shown < Len(versions) /\ ShowVersion(shown + 1)

BindingsNext ==
  \/ NewS3O
  \/ \E file \in [Slots -> Given], found \in [Slots -> BOOLEAN] : OpenS3O(file, found)
  \/ SaveS3O
  \/ \E i \in Slots, name \in Given : TypeName(i, name)
  \/ \E i \in Slots, name \in Files : BrowseForTexture(i, name)
  \/ \E i \in Slots, found \in BOOLEAN : ReloadTexture(i, found)
  \/ ConvertToS3O \/ OtherCommand \/ UndoS3O \/ RedoS3O

BindingsSpec == BindingsInit /\ [][BindingsNext]_bvars

-----------------------------------------------------------------------------
(* Properties                                                               *)

BindingsTypeOK ==
  /\ model \in TexModel
  /\ versions \in Seq(TexModel) /\ versions # <<>>
  /\ shown \in DOMAIN versions
  /\ s3o \in {<<>>} \cup [Slots -> AnyName]

\* As long as every image that was looked up was there, no typed name was shown again
\* before it was loaded, and no file had a second texture only, what is saved are the
\* names that were given, each in its slot, whatever was opened, undone and redone
\* in between (directories are dropped when an image is loaded).
GivenNamesAreSaved ==
  [][(SaveS3O /\ ~model.missing) =>
        \A i \in Slots : BaseName[s3o'[i]] = BaseName[model.given[i]]]_bvars

\* src/readme.txt:151, "names of textures will be written in S3O even if they are
\* missing": every name that was given is written, with or without its directory.
NamesAreWritten ==
  [][SaveS3O => \A i \in Slots :
        model.given[i] # NoName =>
          \E j \in Slots : BaseName[s3o'[j]] = BaseName[model.given[i]]]_bvars

=============================================================================

--------------------------- MODULE TextureHandler ---------------------------
(***************************************************************************)
(* The textures of 3DO models. TextureHandler keeps what the archives of    *)
(* the archive list hold, by name; TextureGroupHandler keeps groups of raw  *)
(* pointers to textures, written to a config file by name; the polygons of  *)
(* the model under edit have both a name and a counted reference. The       *)
(* program is started and left, so that names are all that survives.        *)
(***************************************************************************)
EXTENDS Naturals, SequencesExt

CONSTANTS
  Names,       \* names of textures, lower case and without extension
  NoName,      \* the empty name
  Numbered,    \* the name with "00" appended, where such a texture can exist
  ColourName,  \* the name of the texture that a conversion makes of a colour
  Contents,    \* for each archive, in the order of their file names, the names
               \* of its images and whether they can be read
  Polys,       \* the polygons of a model
  NumBackups,  \* the size of the undo buffer
  MaxGroups,   \* bound: texture groups
  MaxColours,  \* bound: conversions that make a colour texture, in one session
  Absent,      \* no entry under this name
  Null         \* no texture

Archives == DOMAIN Contents

\* No archive has an image that is named like a texture made of a colour ("Color255").
ASSUME NamesAssumption ==
  /\ NoName \notin Names /\ ColourName \in Names
  /\ Numbered \in [Names -> Names \cup {NoName}]
  /\ \A m, n \in Names : Numbered[m] = Numbered[n] => m = n \/ Numbered[m] = NoName
  /\ \A a \in Archives : /\ DOMAIN Contents[a] \subseteq Names
                          /\ DOMAIN Contents[a] \cap {ColourName, Numbered[ColourName]} = {}
                          /\ Contents[a] \in [DOMAIN Contents[a] -> BOOLEAN]
  /\ Archives \subseteq Nat
ASSUME BoundsAssumption == NumBackups \in Nat \ {0, 1} /\ MaxGroups \in Nat /\ MaxColours \in Nat

\* A texture read from an archive, and one made of a colour.
FromArchive(a, k) == [archive |-> a, key |-> k]
Colour(n)         == [colour |-> n]

Textures == UNION {{FromArchive(a, k) : k \in {n \in DOMAIN Contents[a] : Contents[a][n]}} :
                     a \in Archives}
Colours  == {Colour(n) : n \in 1..MaxColours}

ASSUME MarksAssumption ==
  /\ Absent \notin Textures \cup Colours /\ Null \notin Textures \cup Colours
  /\ Absent # Null

VARIABLES
  running,    \* "up", "down", or "faulted": it used what is not there
  archives,   \* the archive list, which is written whenever it changes
  textures,   \* TextureHandler::textures
  texname,    \* Texture::name
  groups,     \* TextureGroupHandler::groups
  config,     \* the file of texture groups
  mdl,        \* the model under edit
  backups, position,
  colours,    \* colour textures made so far
  tdo,        \* the names of textures in the 3DO file that was written last, if one was
  settled     \* history: the archive list was not changed since the program started

handler == <<textures, texname>>
buffer  == <<mdl, backups, position>>
hvars   == <<running, archives, textures, texname, groups, config, mdl, backups, position,
             colours, tdo, settled>>

AnyName == Names \cup {NoName}

\* The history field given is the name the file or the user gave the polygon.
Poly  == [texname : AnyName, texture : Textures \cup Colours \cup {Null}, given : AnyName]
Model == [polys : UNION {[S -> Poly] : S \in SUBSET Polys}, loaded : BOOLEAN]

NewModel == [polys |-> [p \in {} |-> NoName], loaded |-> FALSE]

-----------------------------------------------------------------------------
(* TextureHandler                                                           *)

\* Mutant of Loaded: what is loaded later replaces what is there.
LoadedReplacing(tx, S) ==
  [k \in Names |->
    LET holders == {a \in S : k \in DOMAIN Contents[a]}
    IN  IF holders = {} THEN tx[k]
        ELSE IF Contents[Max(holders)][k] THEN FromArchive(Max(holders), k) ELSE Null]

\* Load, for each archive of S in order: a name that has an entry keeps it, also
\* when the image behind it could not be read.
Loaded(tx, S) ==
  [k \in Names |->
    LET holders == {a \in S : k \in DOMAIN Contents[a]}
    IN  IF tx[k] # Absent \/ holders = {} THEN tx[k]
        ELSE IF Contents[Min(holders)][k] THEN FromArchive(Min(holders), k) ELSE Null]

\* There is no entry n, but one under its numbered name.
FallsBack(tx, n) ==
  tx[n] = Absent /\ Numbered[n] # NoName /\ tx[Numbered[n]] # Absent

\* GetTexture, the texture it returns.
GetTexture(tx, n) ==
  IF tx[n] \notin {Absent, Null} THEN tx[n]
  ELSE IF FallsBack(tx, n) THEN tx[Numbered[n]] ELSE Null

\* GetTexture renames the texture it falls back to, without looking whether there
\* is one behind the entry.
LooksBehindNull(tx, S) == \E n \in S : FallsBack(tx, n) /\ tx[Numbered[n]] = Null

\* The names of the textures after the names S were looked up.
Renamed(tx, names, S) ==
  [t \in Textures |->
    IF \E n \in S : FallsBack(tx, n) /\ tx[Numbered[n]] = t
    THEN CHOOSE n \in S : FallsBack(tx, n) /\ tx[Numbered[n]] = t
    ELSE names[t]]

NameOf(t) == IF t \in Colours THEN ColourName ELSE texname[t]

-----------------------------------------------------------------------------
(* TextureGroupHandler                                                      *)

\* Mutant of LoadGroup: it ends at the first name that is not found.
LoadGroupUntilMissing(tx, names) ==
  IF \E n \in names : GetTexture(tx, n) = Null THEN {} ELSE {GetTexture(tx, n) : n \in names}

\* A name that is not found is discarded.
LoadGroup(tx, names) == {GetTexture(tx, n) : n \in names} \ {Null}

MakeConfig(group) == {NameOf(t) : t \in group}

\* The colour textures that a polygon of the model or of a backup refers to.
TexturesOf(m) == {m.polys[p].texture : p \in DOMAIN m.polys} \ {Null}
Alive == Colours \cap (TexturesOf(mdl) \cup UNION {TexturesOf(backups[i]) : i \in DOMAIN backups})

\* A group holds a pointer to a texture that was freed, or to none at all.
Dangles(group) == Null \in group \/ (group \cap Colours) \ Alive # {}
AnyDangles == \E i \in DOMAIN groups : Dangles(groups[i])

-----------------------------------------------------------------------------
(* The undo buffer, as far as it keeps models and colour textures           *)

\* MdlObject::Clone makes new objects, whose textures count as not loaded.
Clone(m) == [m EXCEPT !.loaded = FALSE]

\* Mutant of AddBackupPoint: the position is not moved when the oldest backup goes.
AddBackupPointBehind(m) ==
  LET kept == Append(SubSeq(backups, 1, position), Clone(m))
      new  == IF Len(kept) > NumBackups THEN Tail(kept) ELSE kept
  IN  backups' = new /\ position' = Len(kept)

AddBackupPoint(m) ==
  LET kept == Append(SubSeq(backups, 1, position), Clone(m))
      new  == IF Len(kept) > NumBackups THEN Tail(kept) ELSE kept
  IN  backups' = new /\ position' = Len(new)

Commit(m) == mdl' = m /\ AddBackupPoint(m)

Show(i) == /\ mdl' = Clone(backups[i])
           /\ position' = i
           /\ UNCHANGED backups

-----------------------------------------------------------------------------
(* What happens when the program uses what is not there                     *)

\* The memory of the program is gone. (groups and settled keep their last values, for
\* the properties.)
Over == /\ mdl' = NewModel
        /\ backups' = <<>> /\ position' = 1
        /\ colours' = 0

Fault == /\ running' = "faulted"
         /\ Over
         /\ UNCHANGED <<archives, handler, groups, config, tdo, settled>>

\* A texture of a group that was freed is asked for its name or its image: by ~EditorUI,
\* the group window, the browser that shows a group, and the texture tool.
UseFreed == running = "up" /\ AnyDangles /\ Fault

\* The group window asks every entry of the texture handler for its name, also the
\* entries that have no texture.
ShowNull == running = "up" /\ (\E k \in Names : textures[k] = Null) /\ Fault

-----------------------------------------------------------------------------
(* The program                                                              *)

Init ==
  /\ running = "down"
  /\ archives \in SUBSET Archives
  /\ textures = [k \in Names |-> Absent]
  /\ texname = [t \in Textures |-> t.key]
  /\ groups = <<>> /\ config = <<>>
  /\ mdl = NewModel /\ backups = <<>> /\ position = 1
  /\ colours = 0
  /\ tdo = <<>>
  /\ settled = TRUE

\* EditorUI::Initialize: the archives are loaded, then the groups are looked up.
Start ==
  /\ running # "up"
  /\ LET tx    == Loaded([k \in Names |-> Absent], archives)
         names == UNION Range(config)
     IN  /\ textures' = tx
         /\ IF LooksBehindNull(tx, names)
            THEN /\ running' = "faulted"
                 /\ groups' = <<>>
                 /\ texname' = [t \in Textures |-> t.key]
            ELSE /\ running' = "up"
                 /\ groups' = [i \in DOMAIN config |-> LoadGroup(tx, config[i])]
                 /\ texname' = Renamed(tx, [t \in Textures |-> t.key], names)
  /\ mdl' = NewModel
  /\ backups' = <<NewModel>> /\ position' = 1
  /\ colours' = 0
  /\ settled' = TRUE
  /\ UNCHANGED <<archives, config, tdo>>

\* ~EditorUI writes the groups before it frees anything.
Exit ==
  /\ running = "up" /\ ~AnyDangles
  /\ running' = "down"
  /\ config' = [i \in DOMAIN groups |-> MakeConfig(groups[i])]
  /\ textures' = [k \in Names |-> Absent]
  /\ texname' = [t \in Textures |-> t.key]
  /\ Over
  /\ UNCHANGED <<archives, groups, tdo, settled>>

\* The archive list is edited: it is written, and all archives on it are loaded.
\* What was loaded from archives that are no longer on it stays. (A visit that changes
\* several archives is several visits: they are loaded in their order in any case.)
ArchiveList ==
  /\ running = "up"
  /\ \E a \in Archives : archives' \in {archives \cup {a}, archives \ {a}}
  /\ textures' = Loaded(textures, archives')
  /\ settled' = (settled /\ archives' = archives)
  /\ UNCHANGED <<running, texname, groups, config, buffer, colours, tdo>>

-----------------------------------------------------------------------------
(* The window of texture groups. It is modal; a visit with several edits is *)
(* several visits with one edit here.                                       *)

\* The window is closed with the groups gs: they are written.
CloseWindow(gs) ==
  /\ running = "up" /\ ~AnyDangles /\ \A k \in Names : textures[k] # Null
  /\ groups' = gs
  /\ config' = [i \in DOMAIN gs |-> MakeConfig(gs[i])]
  /\ UNCHANGED <<running, archives, handler, buffer, colours, tdo, settled>>

AddGroup == Len(groups) < MaxGroups /\ CloseWindow(Append(groups, {}))

RemoveGroup(i) == i \in DOMAIN groups /\ CloseWindow(RemoveAt(groups, i))

\* Textures are selected in a browser that shows all entries.
AddToGroup(i) ==
  /\ i \in DOMAIN groups
  /\ \E k \in Names : /\ textures[k] # Absent
                      /\ CloseWindow([groups EXCEPT ![i] = @ \cup {textures[k]}])

RemoveFromGroup(i) ==
  /\ i \in DOMAIN groups
  /\ \E t \in groups[i] : CloseWindow([groups EXCEPT ![i] = @ \ {t}])

\* "Add unit textures": the textures of the model are put into the current group,
\* which is then shown.
AddUnitTextures(i) ==
  /\ running = "up"
  /\ i \in DOMAIN groups /\ ~Dangles(groups[i])
  /\ DOMAIN mdl.polys # {}
  /\ groups' = [groups EXCEPT ![i] = @ \cup TexturesOf(mdl)]
  /\ UNCHANGED <<running, archives, handler, config, buffer, colours, tdo, settled>>

-----------------------------------------------------------------------------
(* The model                                                                *)

Untextured(name) == [texname |-> name, texture |-> Null, given |-> name]

\* A file with any names is loaded, also one that was saved before.
Open3DO(names) ==
  /\ running = "up"
  /\ Commit([polys |-> [p \in Polys |-> Untextured(names[p])], loaded |-> FALSE])
  /\ UNCHANGED <<running, archives, handler, groups, config, colours, tdo, settled>>

Save3DO ==
  /\ running = "up"
  /\ DOMAIN mdl.polys # {}
  /\ tdo' = [p \in Polys |-> mdl.polys[p].texname]
  /\ UNCHANGED <<running, archives, handler, groups, config, buffer, colours, settled>>

New3DO ==
  /\ running = "up"
  /\ Commit(NewModel)
  /\ UNCHANGED <<running, archives, handler, groups, config, colours, tdo, settled>>

\* Names that are looked up when the model is drawn.
Unresolved(m) == {m.polys[p].texname : p \in {q \in DOMAIN m.polys :
                    m.polys[q].texture = Null /\ m.polys[q].texname # NoName}}

\* Mutant of Resolve: a name counts as missing when it has no entry of its own.
ResolveOwnEntry(tx, poly) ==
  IF poly.texture # Null \/ poly.texname = NoName THEN poly
  ELSE IF tx[poly.texname] \in {Absent, Null} THEN [poly EXCEPT !.texname = NoName]
       ELSE [poly EXCEPT !.texture = tx[poly.texname]]

\* One polygon in Load3DOTextures: a name that is not found is cleared.
Resolve(tx, poly) ==
  IF poly.texture # Null \/ poly.texname = NoName THEN poly
  ELSE LET t == GetTexture(tx, poly.texname)
       IN  [poly EXCEPT !.texture = t, !.texname = IF t = Null THEN NoName ELSE @]

\* Drawing looks up a name behind which GetTexture finds an entry without a texture.
DrawNull ==
  /\ running = "up"
  /\ DOMAIN mdl.polys # {} /\ ~mdl.loaded
  /\ LooksBehindNull(textures, Unresolved(mdl))
  /\ Fault

\* A textured view is drawn with the mapping of 3DO: the first time, the textures are
\* looked up. (The chooser gives any model either mapping and takes it back, without a
\* backup point, so that the mapping is no state here.)
Draw ==
  /\ running = "up"
  /\ DOMAIN mdl.polys # {} /\ ~mdl.loaded
  /\ ~LooksBehindNull(textures, Unresolved(mdl))
  /\ mdl' = [mdl EXCEPT !.loaded = TRUE,
                        !.polys = [p \in DOMAIN @ |-> Resolve(textures, @[p])]]
  /\ texname' = Renamed(textures, texname, Unresolved(mdl))
  /\ UNCHANGED <<running, archives, textures, groups, config, backups, position, colours, tdo, settled>>

\* Mutant of Textured: the polygon keeps the name it had.
TexturedOldName(poly, t) == [poly EXCEPT !.texture = t, !.given = NameOf(t)]

Textured(poly, t) == [texname |-> NameOf(t), texture |-> t, given |-> NameOf(t)]

\* The texture tool: a texture of the group that is shown, for the selected polygons.
ApplyTexture(i) ==
  /\ running = "up"
  /\ i \in DOMAIN groups /\ DOMAIN mdl.polys # {}
  /\ \E t \in groups[i], S \in SUBSET Polys :
       /\ S # {} /\ ~Dangles({t})
       /\ Commit([mdl EXCEPT !.polys =
                    [p \in Polys |-> IF p \in S THEN Textured(@[p], t) ELSE @[p]]])
  /\ UNCHANGED <<running, archives, handler, groups, config, colours, tdo, settled>>

\* The colour tool: the selected polygons get a colour and lose their texture.
PolyColor ==
  /\ running = "up"
  /\ DOMAIN mdl.polys # {}
  /\ \E S \in (SUBSET Polys) \ {{}} :
       Commit([mdl EXCEPT !.polys =
                 [p \in Polys |-> IF p \in S THEN Untextured(NoName) ELSE @[p]]])
  /\ UNCHANGED <<running, archives, handler, groups, config, colours, tdo, settled>>

\* A command that is not about textures records the model as it was drawn.
OtherCommand ==
  /\ running = "up"
  /\ Commit(mdl)
  /\ UNCHANGED <<running, archives, handler, groups, config, colours, tdo, settled>>

\* ConvertToS3O: the polygons without a texture share one that is made of their
\* colour; the packing of the textures is in TextureBinTree. (An empty model is only
\* recorded.)
Convert ==
  /\ running = "up"
  /\ DOMAIN mdl.polys # {}
  /\ LET bare == {p \in Polys : mdl.polys[p].texture = Null}
         n    == colours + (IF bare = {} THEN 0 ELSE 1)
     IN  /\ n <= MaxColours
         /\ colours' = n
         /\ Commit([mdl EXCEPT !.polys =
                      [p \in Polys |-> IF p \in bare THEN [@[p] EXCEPT !.texture = Colour(n)]
                                                     ELSE @[p]]])
  /\ UNCHANGED <<running, archives, handler, groups, config, tdo, settled>>

Undo3DO ==
  /\ running = "up"
  /\ position > 1 /\ Show(position - 1)
  /\ UNCHANGED <<running, archives, handler, groups, config, colours, tdo, settled>>

Redo3DO ==
  /\ running = "up"
  /\ position < Len(backups) /\ Show(position + 1)
  /\ UNCHANGED <<running, archives, handler, groups, config, colours, tdo, settled>>

Next ==
  \/ Start \/ Exit \/ ArchiveList \/ UseFreed \/ ShowNull \/ DrawNull
  \/ AddGroup
  \/ \E i \in 1..MaxGroups : RemoveGroup(i) \/ AddToGroup(i) \/ RemoveFromGroup(i)
  \/ \E i \in 1..MaxGroups : AddUnitTextures(i) \/ ApplyTexture(i)
  \/ \E names \in [Polys -> AnyName] : Open3DO(names)
  \/ Save3DO \/ New3DO \/ Draw \/ PolyColor \/ Convert \/ OtherCommand
  \/ Undo3DO \/ Redo3DO

Spec == Init /\ [][Next]_hvars

-----------------------------------------------------------------------------
(* Properties                                                               *)

TypeOK ==
  /\ running \in {"up", "down", "faulted"}
  /\ archives \subseteq Archives
  /\ textures \in [Names -> Textures \cup {Absent, Null}]
  /\ texname \in [Textures -> Names]
  /\ groups \in Seq(SUBSET (Textures \cup Colours))
  /\ config \in Seq(SUBSET Names)
  /\ mdl \in Model
  /\ backups \in Seq(Model)
  /\ running = "up" => position \in DOMAIN backups
  /\ colours \in 0..MaxColours
  /\ tdo \in {<<>>} \cup [Polys -> AnyName]
  /\ settled \in BOOLEAN

\* The raw pointers of the texture groups point to textures that the texture handler
\* still owns, whatever archives were added and removed since; only colour textures,
\* which nobody but models owns, are an exception (TextureGroup::textures).
GroupsHoldOwned ==
  running = "up" => \A i \in DOMAIN groups : \A t \in groups[i] :
                       t \in Colours \/ textures[t.key] = t

\* After the program was left and started again with the same archive list, the groups
\* hold the textures they held, but for colours: writing names and looking them up
\* again, with the renaming that GetTexture does, finds the same textures.
GroupsComeBack ==
  [][(running = "down" /\ settled /\ Start) =>
        /\ running' = "up"
        /\ groups' = [i \in DOMAIN groups |-> groups[i] \ Colours]]_hvars

\* While the archive list stays as it is, the names in a saved 3DO find the textures
\* that the polygons had, through undo, renaming and the texture tool (Poly::texname and
\* Poly::texture, which are set in different places).
SavedNamesResolve ==
  [][(Save3DO /\ settled) => \A p \in Polys : LET t == mdl.polys[p].texture IN
        t \in Textures => GetTexture(textures, tdo'[p]) = t]_hvars

\* Saving writes the name a polygon was given by the file or by the texture tool, unless
\* no texture of this name was found (src/readme.txt:138 has them unchanged; Load3DOTextures
\* clears the ones it does not find).
NamesAreLostOnlyIfMissing ==
  [][(Save3DO /\ settled) => \A p \in Polys : LET name == mdl.polys[p].given IN
        \/ tdo'[p] = name
        \/ tdo'[p] = NoName /\ GetTexture(textures, name) = Null]_hvars

=============================================================================

------------------------ MODULE TextureHandlerProofs ------------------------
(***************************************************************************)
(* Proofs about TextureHandler, for any archives, names, groups, models and *)
(* undo buffer.                                                             *)
(*                                                                          *)
(* Owned textures: the groups alone are no invariant, for "Add unit         *)
(* textures" takes textures from the model, the model comes back from the   *)
(* undo buffer, and either got them from a lookup or from a group. So IInv  *)
(* says of every model in memory that its textures are owned; and it holds  *)
(* through changes of the archive list because an entry, once made, stays.  *)
(*                                                                          *)
(* Names: NamesInv says, as long as the archive list is as it was at the    *)
(* start, that names lead back to textures: those of the textures           *)
(* themselves, those in every model, and those in the file of groups.       *)
(***************************************************************************)
EXTENDS TextureHandler, SequenceTheorems, WellFoundedInduction, TLAPS

\* The textures that the handler owns, and those that a group or a polygon may hold.
Owned(tx) == {t \in Textures : tx[t.key] = t}
Held(tx)  == Owned(tx) \cup Colours

\* Every entry has the texture of its own name, or none.
Entries(tx) ==
  /\ tx \in [Names -> Textures \cup {Absent, Null}]
  /\ \A k \in Names : tx[k] \in Textures => tx[k].key = k

\* Models with all their polygons or (new ones) with none, whose textures are owned.
Models(tx) ==
  {m \in Model : /\ DOMAIN m.polys = Polys \/ DOMAIN m.polys = {}
                 /\ \A p \in DOMAIN m.polys : m.polys[p].texture \in Held(tx) \cup {Null}}

IInv ==
  /\ running \in {"up", "down", "faulted"}
  /\ archives \subseteq Archives
  /\ Entries(textures) /\ texname \in [Textures -> Names]
  /\ groups \in Seq(SUBSET (Textures \cup Colours)) /\ config \in Seq(SUBSET Names)
  /\ running = "up" => groups \in Seq(SUBSET Held(textures))
  /\ mdl \in Models(textures) /\ backups \in Seq(Models(textures))
  /\ running = "up" => position \in 1 .. Len(backups)
  /\ colours \in 0 .. MaxColours
  /\ tdo \in {<<>>} \cup [Polys -> AnyName]
  /\ settled \in BOOLEAN

-----------------------------------------------------------------------------
\* What is a sequence over a set is one over a larger set.
LEMMA SeqGrows ==
  ASSUME NEW S, NEW T, S \subseteq T, NEW s \in Seq(S)
  PROVE  s \in Seq(T)
<1>1. Len(s) \in Nat /\ s \in [1 .. Len(s) -> S]
  BY LenProperties
<1>2. s \in [1 .. Len(s) -> T]
  BY <1>1
<1> QED BY <1>1, <1>2, SeqDef

\* A sequence given by its elements.
LEMMA SeqByElements ==
  ASSUME NEW S, NEW n \in Nat, NEW f, f = [i \in 1 .. n |-> f[i]], \A i \in 1 .. n : f[i] \in S
  PROVE  f \in Seq(S) /\ Len(f) = n
<1>1. f \in [1 .. n -> S]
  OBVIOUS
<1> QED BY <1>1, SeqDef, LenProperties

\* A set of archives that is not empty has a first one.
LEMMA FirstArchive ==
  ASSUME NEW S \in SUBSET Archives, S # {}
  PROVE  Min(S) \in S
<1>1. S \subseteq Nat
  BY NamesAssumption
<1>2. PICK x \in S : \A y \in S : ~ (<<y, x>> \in OpToRel(<, Nat))
  BY <1>1, WFMin, NatLessThanWellFounded
<1>3. ASSUME NEW y \in S PROVE x =< y
  <2>1. <<y, x>> \in Nat \X Nat /\ x \in Nat /\ y \in Nat
    BY <1>1
  <2>2. ~(y < x)
    BY <1>2, <2>1 DEF OpToRel
  <2> QED BY <2>1, <2>2
<1> QED BY <1>3 DEF Min

-----------------------------------------------------------------------------
(* TextureHandler *)

LEMMA TextureIs ==
  ASSUME NEW a \in Archives, NEW k \in DOMAIN Contents[a], Contents[a][k]
  PROVE  FromArchive(a, k) \in Textures /\ FromArchive(a, k).key = k
BY DEF Textures, FromArchive

LEMMA KeyIsName == \A t \in Textures : t.key \in Names
BY NamesAssumption DEF Textures, FromArchive

\* Loading archives makes entries, and leaves every texture that is there in its place.
LEMMA LoadedIs ==
  ASSUME NEW tx, Entries(tx), NEW S \in SUBSET Archives
  PROVE  Entries(Loaded(tx, S)) /\ Held(tx) \subseteq Held(Loaded(tx, S))
<1> DEFINE new == Loaded(tx, S)
           holders(k) == {a \in S : k \in DOMAIN Contents[a]}
<1>1. DOMAIN new = Names
  BY DEF Loaded
<1>2. ASSUME NEW k \in Names
      PROVE  /\ new[k] \in Textures \cup {Absent, Null}
             /\ new[k] \in Textures => new[k].key = k
             /\ tx[k] # Absent => new[k] = tx[k]
  <2>1. CASE tx[k] # Absent \/ holders(k) = {}
    <3>1. new[k] = tx[k]
      BY <2>1 DEF Loaded
    <3> QED BY <3>1 DEF Entries
  <2>2. CASE tx[k] = Absent /\ holders(k) # {}
    <3> DEFINE a == Min(holders(k))
    <3>1. a \in S /\ k \in DOMAIN Contents[a]
      BY <2>2, FirstArchive
    <3>2. new[k] = IF Contents[a][k] THEN FromArchive(a, k) ELSE Null
      BY <2>2 DEF Loaded
    <3> HIDE DEF a
    <3>3. CASE Contents[a][k]
      BY <2>2, <3>1, <3>2, <3>3, TextureIs
    <3>4. CASE ~Contents[a][k]
      BY <2>2, <3>2, <3>4, MarksAssumption
    <3> QED BY <3>3, <3>4
  <2> QED BY <2>1, <2>2
<1>3. new = [k \in Names |-> new[k]]
  BY DEF Loaded
<1> HIDE DEF new
<1>4. Entries(new)
  BY <1>2, <1>3 DEF Entries
<1>5. Owned(tx) \subseteq Owned(new)
  BY <1>2, KeyIsName, MarksAssumption DEF Owned
<1> QED BY <1>4, <1>5 DEF Held, new

\* A lookup finds a texture that is owned, or none.
LEMMA GetTextureIs ==
  ASSUME NEW tx, Entries(tx), NEW n \in Names
  PROVE  GetTexture(tx, n) \in Owned(tx) \cup {Null}
<1>1. \A k \in Names : tx[k] \notin {Absent, Null} => tx[k] \in Owned(tx)
  BY DEF Entries, Owned
<1>2. CASE tx[n] \notin {Absent, Null}
  BY <1>1, <1>2 DEF GetTexture
<1>3. CASE FallsBack(tx, n)
  <2>1. Numbered[n] \in Names /\ tx[Numbered[n]] # Absent
    BY <1>3, NamesAssumption DEF FallsBack
  <2> QED BY <1>1, <1>2, <1>3, <2>1 DEF GetTexture
<1> QED BY <1>2, <1>3 DEF GetTexture

\* Looking names up gives textures names only.
LEMMA RenamedIs ==
  ASSUME NEW tx, NEW names \in [Textures -> Names], NEW S \in SUBSET Names
  PROVE  Renamed(tx, names, S) \in [Textures -> Names]
<1>1. ASSUME NEW t \in Textures PROVE Renamed(tx, names, S)[t] \in Names
  <2> DEFINE Finds(n) == FallsBack(tx, n) /\ tx[Numbered[n]] = t
  <2>1. CASE \E n \in S : Finds(n)
    <3>1. Renamed(tx, names, S)[t] = CHOOSE n \in S : Finds(n)
      BY <2>1 DEF Renamed
    <3> HIDE DEF Finds
    <3> QED BY <2>1, <3>1
  <2>2. CASE ~\E n \in S : Finds(n)
    BY <2>2 DEF Renamed
  <2> QED BY <2>1, <2>2
<1> QED BY <1>1 DEF Renamed

LEMMA NameOfIs ==
  ASSUME texname \in [Textures -> Names], NEW t \in Textures \cup Colours
  PROVE  NameOf(t) \in Names
BY NamesAssumption DEF NameOf

LEMMA FirstNames == [t \in Textures |-> t.key] \in [Textures -> Names]
BY KeyIsName

-----------------------------------------------------------------------------
(* Groups *)

LEMMA GroupsLoaded ==
  ASSUME NEW tx, Entries(tx), NEW cf \in Seq(SUBSET Names)
  PROVE  [i \in DOMAIN cf |-> LoadGroup(tx, cf[i])] \in Seq(SUBSET Owned(tx))
<1> DEFINE gs == [i \in 1 .. Len(cf) |-> LoadGroup(tx, cf[i])]
<1>1. Len(cf) \in Nat /\ DOMAIN cf = 1 .. Len(cf)
  BY LenProperties
<1>2. ASSUME NEW i \in 1 .. Len(cf) PROVE gs[i] \in SUBSET Owned(tx)
  <2>1. cf[i] \subseteq Names
    BY <1>1, ElementOfSeq
  <2>2. \A n \in cf[i] : GetTexture(tx, n) \in Owned(tx) \cup {Null}
    BY <2>1, GetTextureIs
  <2> QED BY <2>2 DEF LoadGroup
<1>3. gs \in [1 .. Len(cf) -> SUBSET Owned(tx)]
  BY <1>2
<1> HIDE DEF gs
<1>4. gs \in Seq(SUBSET Owned(tx))
  BY <1>1, <1>3, SeqDef
<1> QED BY <1>1, <1>4 DEF gs

LEMMA ConfigIs ==
  ASSUME texname \in [Textures -> Names], NEW gs \in Seq(SUBSET (Textures \cup Colours))
  PROVE  [i \in DOMAIN gs |-> MakeConfig(gs[i])] \in Seq(SUBSET Names)
<1> DEFINE cf == [i \in 1 .. Len(gs) |-> MakeConfig(gs[i])]
<1>1. Len(gs) \in Nat /\ DOMAIN gs = 1 .. Len(gs)
  BY LenProperties
<1>2. ASSUME NEW i \in 1 .. Len(gs) PROVE cf[i] \in SUBSET Names
  <2>1. gs[i] \subseteq Textures \cup Colours
    BY <1>1, ElementOfSeq
  <2>2. \A t \in gs[i] : NameOf(t) \in Names
    BY <2>1, NameOfIs
  <2> QED BY <2>2 DEF MakeConfig
<1>3. cf \in [1 .. Len(gs) -> SUBSET Names]
  BY <1>2
<1> HIDE DEF cf
<1>4. cf \in Seq(SUBSET Names)
  BY <1>1, <1>3, SeqDef
<1> QED BY <1>1, <1>4 DEF cf

LEMMA HeldAreTextures ==
  ASSUME NEW tx
  PROVE  Held(tx) \subseteq Textures \cup Colours
BY DEF Held, Owned

-----------------------------------------------------------------------------
(* Models *)

\* A model of all polygons is one of the models if their textures are owned.
LEMMA ModelIs ==
  ASSUME NEW tx, NEW ps \in [Polys -> Poly], NEW ld \in BOOLEAN,
         \A p \in Polys : ps[p].texture \in Held(tx) \cup {Null}
  PROVE  [polys |-> ps, loaded |-> ld] \in Models(tx)
<1> DEFINE m == [polys |-> ps, loaded |-> ld]
<1>1. m.polys = ps /\ DOMAIN ps = Polys
  OBVIOUS
<1>2. ps \in UNION {[S -> Poly] : S \in SUBSET Polys}
  OBVIOUS
<1>3. m \in Model
  BY <1>2 DEF Model
<1> HIDE DEF m
<1>4. m \in Models(tx)
  BY <1>1, <1>3 DEF Models
<1> QED BY <1>4 DEF m

LEMMA NewModelIs == \A tx : NewModel \in Models(tx)
<1> SUFFICES ASSUME NEW tx PROVE NewModel \in Models(tx)
  OBVIOUS
<1> DEFINE none == [p \in {} |-> NoName]
<1>1. none \in [{} -> Poly] /\ DOMAIN none = {}
  OBVIOUS
<1> HIDE DEF none
<1>2. none \in UNION {[S -> Poly] : S \in SUBSET Polys}
  BY <1>1
<1>3. NewModel = [polys |-> none, loaded |-> FALSE]
  BY DEF NewModel, none
<1>4. NewModel \in Model
  BY <1>2, <1>3 DEF Model
<1> QED BY <1>1, <1>3, <1>4 DEF Models

\* The parts of a model.
LEMMA ModelParts ==
  ASSUME NEW tx, NEW m \in Models(tx)
  PROVE  /\ m = [polys |-> m.polys, loaded |-> m.loaded]
         /\ m.loaded \in BOOLEAN
         /\ m.polys \in [DOMAIN m.polys -> Poly] /\ DOMAIN m.polys \subseteq Polys
         /\ DOMAIN m.polys # {} => m.polys \in [Polys -> Poly]
         /\ \A p \in DOMAIN m.polys : m.polys[p].texture \in Held(tx) \cup {Null}
<1>1. /\ m \in Model
      /\ DOMAIN m.polys = Polys \/ DOMAIN m.polys = {}
      /\ \A p \in DOMAIN m.polys : m.polys[p].texture \in Held(tx) \cup {Null}
  BY DEF Models
<1>2. /\ m = [polys |-> m.polys, loaded |-> m.loaded]
      /\ m.loaded \in BOOLEAN
      /\ m.polys \in UNION {[S -> Poly] : S \in SUBSET Polys}
  BY <1>1 DEF Model
<1>3. m.polys \in [DOMAIN m.polys -> Poly] /\ DOMAIN m.polys \subseteq Polys
  BY <1>2
<1> QED BY <1>1, <1>2, <1>3

LEMMA CloneIs ==
  ASSUME NEW tx, NEW m \in Models(tx)
  PROVE  Clone(m) \in Models(tx)
<1>1. m \in Model
  BY DEF Models
<1>2. /\ Clone(m).polys = m.polys
      /\ Clone(m) \in Model
  BY <1>1 DEF Clone, Model
<1> QED BY <1>2 DEF Models

\* With more textures owned, a model stays one.
LEMMA ModelsGrow ==
  ASSUME NEW tx, NEW ty, Held(tx) \subseteq Held(ty)
  PROVE  Models(tx) \subseteq Models(ty)
BY DEF Models

LEMMA TexturesHeld ==
  ASSUME NEW tx, NEW m \in Models(tx)
  PROVE  TexturesOf(m) \subseteq Held(tx)
BY DEF Models, TexturesOf

-----------------------------------------------------------------------------
(* The undo buffer *)

LEMMA AddBackupPointIs ==
  ASSUME NEW tx, NEW m \in Models(tx), AddBackupPoint(m),
         backups \in Seq(Models(tx)), position \in 1 .. Len(backups)
  PROVE  backups' \in Seq(Models(tx)) /\ position' \in 1 .. Len(backups')
<1> DEFINE old == SubSeq(backups, 1, position)
           kept == Append(old, Clone(m))
           new == IF Len(kept) > NumBackups THEN Tail(kept) ELSE kept
<1>1. Len(backups) \in Nat /\ position \in Nat /\ position >= 1 /\ position <= Len(backups)
  BY LenProperties
<1>2. old \in Seq(Models(tx)) /\ Len(old) = position
  <2>1. \A k \in 1 .. position : backups[k] \in Models(tx)
    BY <1>1, ElementOfSeq
  <2> QED BY <1>1, <2>1, SubSeqProperties
<1>3. backups' = new /\ position' = Len(new)
  BY DEF AddBackupPoint
<1> HIDE DEF old
<1>4. kept \in Seq(Models(tx)) /\ Len(kept) = position + 1
  BY <1>1, <1>2, CloneIs, AppendProperties
<1> HIDE DEF kept
<1>5. CASE Len(kept) > NumBackups
  <2>1. kept # <<>>
    BY <1>1, <1>4, EmptySeq
  <2>2. new = Tail(kept) /\ new \in Seq(Models(tx)) /\ Len(new) = position
    BY <1>1, <1>4, <1>5, <2>1, HeadTailProperties
  <2> HIDE DEF new
  <2> QED BY <1>1, <1>3, <2>2
<1>6. CASE ~(Len(kept) > NumBackups)
  BY <1>1, <1>3, <1>4, <1>6
<1> QED BY <1>5, <1>6

\* A command that makes the model m of the one under edit.
LEMMA CommitKeeps ==
  ASSUME IInv, running = "up", NEW m \in Models(textures), Commit(m), NEW n \in 0 .. MaxColours,
         UNCHANGED <<running, archives, handler, groups, config, tdo, settled>>, colours' = n
  PROVE  IInv'
<1>1. /\ mdl' = m
      /\ backups' \in Seq(Models(textures)) /\ position' \in 1 .. Len(backups')
  BY AddBackupPointIs DEF Commit, IInv
<1>2. textures' = textures /\ texname' = texname
  BY DEF handler
<1> QED BY <1>1, <1>2 DEF IInv

\* Undo and redo show a clone of a backup.
LEMMA ShowKeeps ==
  ASSUME IInv, running = "up", NEW i \in 1 .. Len(backups), Show(i),
         UNCHANGED <<running, archives, handler, groups, config, colours, tdo, settled>>
  PROVE  IInv'
<1>1. backups[i] \in Models(textures)
  BY ElementOfSeq DEF IInv
<1>2. mdl' \in Models(textures) /\ position' = i /\ backups' = backups
  BY <1>1, CloneIs DEF Show
<1>3. textures' = textures /\ texname' = texname
  BY DEF handler
<1> QED BY <1>2, <1>3 DEF IInv

-----------------------------------------------------------------------------
(* The program *)

LEMMA NoEntries == Entries([k \in Names |-> Absent])
BY MarksAssumption DEF Entries

LEMMA InitKeeps == Init => IInv
<1> SUFFICES ASSUME Init PROVE IInv
  OBVIOUS
<1>1. /\ running = "down" /\ archives \subseteq Archives
      /\ textures = [k \in Names |-> Absent]
      /\ texname = [t \in Textures |-> t.key]
      /\ groups = <<>> /\ config = <<>> /\ mdl = NewModel /\ backups = <<>>
      /\ colours = 0 /\ tdo = <<>> /\ settled = TRUE
  BY DEF Init
<1>2. Entries(textures) /\ texname \in [Textures -> Names]
  BY <1>1, NoEntries, FirstNames
<1>3. mdl \in Models(textures)
  BY <1>1, NewModelIs
<1>4. 0 \in 0 .. MaxColours
  BY BoundsAssumption
<1> QED BY <1>1, <1>2, <1>3, <1>4, EmptySeq DEF IInv

LEMMA FaultKeeps == ASSUME IInv, Fault PROVE IInv'
<1>1. /\ running' = "faulted" /\ mdl' = NewModel /\ backups' = <<>> /\ colours' = 0
      /\ textures' = textures /\ texname' = texname
      /\ UNCHANGED <<archives, groups, config, tdo, settled>>
  BY DEF Fault, Over, handler
<1>2. mdl' \in Models(textures)
  BY <1>1, NewModelIs
<1>3. 0 \in 0 .. MaxColours
  BY BoundsAssumption
<1> QED BY <1>1, <1>2, <1>3, EmptySeq DEF IInv

LEMMA StartKeeps == ASSUME IInv, Start PROVE IInv'
<1> DEFINE tx == Loaded([k \in Names |-> Absent], archives)
           names == UNION Range(config)
           first == [t \in Textures |-> t.key]
<1>1. /\ textures' = tx
      /\ IF LooksBehindNull(tx, names)
         THEN running' = "faulted" /\ groups' = <<>> /\ texname' = first
         ELSE /\ running' = "up"
              /\ groups' = [i \in DOMAIN config |-> LoadGroup(tx, config[i])]
              /\ texname' = Renamed(tx, first, names)
      /\ mdl' = NewModel /\ backups' = <<NewModel>> /\ position' = 1 /\ colours' = 0
      /\ settled' = TRUE
      /\ UNCHANGED <<archives, config, tdo>>
  BY DEF Start
<1>2. Entries(tx)
  BY LoadedIs, NoEntries DEF IInv
<1>3. names \subseteq Names
  <2>1. config \in Seq(SUBSET Names) /\ DOMAIN config = 1 .. Len(config)
    BY LenProperties DEF IInv
  <2>2. \A i \in DOMAIN config : config[i] \subseteq Names
    BY <2>1, ElementOfSeq
  <2> QED BY <2>2 DEF Range
<1>4. first \in [Textures -> Names]
  BY FirstNames
<1> HIDE DEF tx, names, first
<1>5. texname' \in [Textures -> Names]
  <2>1. Renamed(tx, first, names) \in [Textures -> Names]
    BY <1>3, <1>4, RenamedIs
  <2>2. texname' = first \/ texname' = Renamed(tx, first, names)
    BY <1>1
  <2> QED BY <1>4, <2>1, <2>2
<1>6. groups' \in Seq(SUBSET Owned(tx))
  BY <1>1, <1>2, GroupsLoaded, EmptySeq DEF IInv
<1>7. groups' \in Seq(SUBSET Held(tx)) /\ groups' \in Seq(SUBSET (Textures \cup Colours))
  <2>1. /\ SUBSET Owned(tx) \subseteq SUBSET Held(tx)
        /\ SUBSET Owned(tx) \subseteq SUBSET (Textures \cup Colours)
    BY DEF Held, Owned
  <2> QED BY <1>6, <2>1, SeqGrows
<1>8. mdl' \in Models(tx) /\ backups' \in Seq(Models(tx)) /\ position' \in 1 .. Len(backups')
  <2>1. NewModel \in Models(tx)
    BY NewModelIs
  <2> QED BY <1>1, <2>1
<1>9. colours' \in 0 .. MaxColours
  BY <1>1, BoundsAssumption
<1>10. running' \in {"up", "down", "faulted"}
  BY <1>1
<1> QED BY <1>1, <1>2, <1>5, <1>7, <1>8, <1>9, <1>10 DEF IInv

LEMMA ExitKeeps == ASSUME IInv, Exit PROVE IInv'
<1>1. /\ running' = "down" /\ mdl' = NewModel /\ backups' = <<>> /\ colours' = 0
      /\ config' = [i \in DOMAIN groups |-> MakeConfig(groups[i])]
      /\ textures' = [k \in Names |-> Absent] /\ texname' = [t \in Textures |-> t.key]
      /\ UNCHANGED <<archives, groups, tdo, settled>>
  BY DEF Exit, Over
<1>2. config' \in Seq(SUBSET Names)
  BY <1>1, ConfigIs DEF IInv
<1>3. mdl' \in Models(textures')
  BY <1>1, NewModelIs
<1>4. colours' \in 0 .. MaxColours
  BY <1>1, BoundsAssumption
<1>5. Entries(textures') /\ texname' \in [Textures -> Names]
  BY <1>1, NoEntries, FirstNames
<1> QED BY <1>1, <1>2, <1>3, <1>4, <1>5, EmptySeq DEF IInv

\* What was loaded stays, so that nobody who holds a texture is concerned.
LEMMA ArchiveListKeeps == ASSUME IInv, ArchiveList PROVE IInv'
<1>1. /\ running = "up" /\ archives' \subseteq Archives
      /\ textures' = Loaded(textures, archives')
      /\ settled' = (settled /\ archives' = archives)
      /\ UNCHANGED <<running, texname, groups, config, mdl, backups, position, colours, tdo>>
  BY DEF ArchiveList, IInv, buffer
<1>2. Entries(textures') /\ Held(textures) \subseteq Held(textures')
  BY <1>1, LoadedIs DEF IInv
<1>3. groups \in Seq(SUBSET Held(textures'))
  <2>1. SUBSET Held(textures) \subseteq SUBSET Held(textures')
    BY <1>2
  <2> QED BY <1>1, <2>1, SeqGrows DEF IInv
<1>4. Models(textures) \subseteq Models(textures')
  BY <1>2, ModelsGrow
<1>5. mdl \in Models(textures') /\ backups \in Seq(Models(textures'))
  BY <1>4, SeqGrows DEF IInv
<1>6. settled' \in BOOLEAN
  BY <1>1
<1> QED BY <1>1, <1>2, <1>3, <1>5, <1>6 DEF IInv

-----------------------------------------------------------------------------
(* The group window *)

LEMMA CloseWindowKeeps ==
  ASSUME IInv, NEW gs \in Seq(SUBSET Held(textures)), CloseWindow(gs)
  PROVE  IInv'
<1>1. /\ running = "up" /\ groups' = gs
      /\ config' = [i \in DOMAIN gs |-> MakeConfig(gs[i])]
      /\ textures' = textures /\ texname' = texname
      /\ UNCHANGED <<running, archives, mdl, backups, position, colours, tdo, settled>>
  BY DEF CloseWindow, handler, buffer
<1>2. gs \in Seq(SUBSET (Textures \cup Colours))
  <2>1. SUBSET Held(textures) \subseteq SUBSET (Textures \cup Colours)
    BY HeldAreTextures
  <2> QED BY <2>1, SeqGrows
<1>3. config' \in Seq(SUBSET Names)
  BY <1>1, <1>2, ConfigIs DEF IInv
<1> QED BY <1>1, <1>2, <1>3 DEF IInv

\* Replacing one group.
LEMMA GroupChanged ==
  ASSUME NEW gs \in Seq(SUBSET Held(textures)), NEW i \in DOMAIN gs,
         NEW g \in SUBSET Held(textures)
  PROVE  [gs EXCEPT ![i] = g] \in Seq(SUBSET Held(textures))
BY ExceptSeq

LEMMA GroupIs ==
  ASSUME IInv, running = "up", NEW i \in DOMAIN groups
  PROVE  groups \in Seq(SUBSET Held(textures)) /\ groups[i] \subseteq Held(textures)
<1>1. groups \in Seq(SUBSET Held(textures)) /\ DOMAIN groups = 1 .. Len(groups)
  BY LenProperties DEF IInv
<1> QED BY <1>1, ElementOfSeq

LEMMA WindowKeeps ==
  ASSUME IInv,
         AddGroup \/ \E i \in 1 .. MaxGroups : RemoveGroup(i) \/ AddToGroup(i) \/ RemoveFromGroup(i)
  PROVE  IInv'
<1>1. running = "up"
  BY DEF AddGroup, RemoveGroup, AddToGroup, RemoveFromGroup, CloseWindow
<1>2. groups \in Seq(SUBSET Held(textures)) /\ DOMAIN groups = 1 .. Len(groups)
      /\ Len(groups) \in Nat
  BY <1>1, LenProperties DEF IInv
<1>3. CASE AddGroup
  <2>1. Append(groups, {}) \in Seq(SUBSET Held(textures))
    BY <1>2, AppendProperties
  <2> QED BY <1>3, <2>1, CloseWindowKeeps DEF AddGroup
<1>4. ASSUME NEW i \in 1 .. MaxGroups, RemoveGroup(i) PROVE IInv'
  <2>1. i \in 1 .. Len(groups) /\ CloseWindow(RemoveAt(groups, i))
    BY <1>2, <1>4 DEF RemoveGroup
  <2>2. \A k \in 1 .. Len(groups) : groups[k] \in SUBSET Held(textures)
    BY <1>2, ElementOfSeq
  <2>3. /\ SubSeq(groups, 1, i - 1) \in Seq(SUBSET Held(textures))
        /\ SubSeq(groups, i + 1, Len(groups)) \in Seq(SUBSET Held(textures))
    BY <1>2, <2>1, <2>2, SubSeqProperties
  <2>4. RemoveAt(groups, i) \in Seq(SUBSET Held(textures))
    BY <2>3, ConcatProperties DEF RemoveAt
  <2> QED BY <2>1, <2>4, CloseWindowKeeps
<1>5. ASSUME NEW i \in 1 .. MaxGroups, AddToGroup(i) PROVE IInv'
  <2>1. PICK k \in Names : /\ textures[k] # Absent
                           /\ CloseWindow([groups EXCEPT ![i] = @ \cup {textures[k]}])
    BY <1>5 DEF AddToGroup
  <2>2. i \in DOMAIN groups /\ textures[k] # Null
    BY <1>5, <2>1 DEF AddToGroup, CloseWindow
  <2>3. textures[k] \in Held(textures)
    BY <2>1, <2>2 DEF IInv, Entries, Held, Owned
  <2>4. groups[i] \cup {textures[k]} \in SUBSET Held(textures)
    BY <1>1, <2>2, <2>3, GroupIs
  <2> QED BY <1>2, <2>1, <2>2, <2>4, GroupChanged, CloseWindowKeeps
<1>6. ASSUME NEW i \in 1 .. MaxGroups, RemoveFromGroup(i) PROVE IInv'
  <2>1. PICK t \in groups[i] : CloseWindow([groups EXCEPT ![i] = @ \ {t}])
    BY <1>6 DEF RemoveFromGroup
  <2>2. i \in DOMAIN groups
    BY <1>6 DEF RemoveFromGroup
  <2>3. groups[i] \ {t} \in SUBSET Held(textures)
    BY <1>1, <2>2, GroupIs
  <2> QED BY <1>2, <2>1, <2>2, <2>3, GroupChanged, CloseWindowKeeps
<1> QED BY <1>3, <1>4, <1>5, <1>6

\* The textures of the model are owned, whatever it went through.
LEMMA AddUnitTexturesKeeps ==
  ASSUME IInv, NEW i \in 1 .. MaxGroups, AddUnitTextures(i)
  PROVE  IInv'
<1>1. /\ running = "up" /\ i \in DOMAIN groups
      /\ groups' = [groups EXCEPT ![i] = @ \cup TexturesOf(mdl)]
      /\ textures' = textures /\ texname' = texname
      /\ UNCHANGED <<running, archives, config, mdl, backups, position, colours, tdo, settled>>
  BY DEF AddUnitTextures, handler, buffer
<1>2. groups[i] \cup TexturesOf(mdl) \in SUBSET Held(textures)
  BY <1>1, GroupIs, TexturesHeld DEF IInv
<1>3. groups' \in Seq(SUBSET Held(textures))
  BY <1>1, <1>2, GroupIs, GroupChanged
<1>4. groups' \in Seq(SUBSET (Textures \cup Colours))
  <2>1. SUBSET Held(textures) \subseteq SUBSET (Textures \cup Colours)
    BY HeldAreTextures
  <2> QED BY <1>3, <2>1, SeqGrows
<1> QED BY <1>1, <1>3, <1>4 DEF IInv

-----------------------------------------------------------------------------
(* The model *)

LEMMA UntexturedIs ==
  ASSUME NEW n \in AnyName
  PROVE  Untextured(n) \in Poly /\ Untextured(n).texture = Null
BY DEF Untextured, Poly

\* Opening a file, or a new model.
LEMMA OpenKeeps ==
  ASSUME IInv, New3DO \/ \E names \in [Polys -> AnyName] : Open3DO(names)
  PROVE  IInv'
<1>1. colours \in 0 .. MaxColours
  BY DEF IInv
<1>2. CASE New3DO
  <2>1. /\ running = "up" /\ Commit(NewModel)
        /\ UNCHANGED <<running, archives, handler, groups, config, tdo, settled>>
        /\ colours' = colours
    BY <1>2 DEF New3DO
  <2> QED BY <1>1, <2>1, NewModelIs, CommitKeeps
<1>3. ASSUME NEW names \in [Polys -> AnyName], Open3DO(names) PROVE IInv'
  <2> DEFINE ps == [p \in Polys |-> Untextured(names[p])]
             m == [polys |-> ps, loaded |-> FALSE]
  <2>1. /\ running = "up" /\ Commit(m)
        /\ UNCHANGED <<running, archives, handler, groups, config, tdo, settled>>
        /\ colours' = colours
    BY <1>3 DEF Open3DO
  <2>2. ps \in [Polys -> Poly] /\ \A p \in Polys : ps[p].texture \in Held(textures) \cup {Null}
    BY UntexturedIs
  <2> HIDE DEF ps
  <2>3. m \in Models(textures)
    BY <2>2, ModelIs
  <2> HIDE DEF m
  <2> QED BY <1>1, <2>1, <2>3, CommitKeeps
<1> QED BY <1>2, <1>3

\* The model under edit with other polygons, and with all of them.
LEMMA PolysIs ==
  ASSUME NEW tx, NEW m \in Models(tx), NEW ps \in [Polys -> Poly],
         \A p \in Polys : ps[p].texture \in Held(tx) \cup {Null}
  PROVE  [m EXCEPT !.polys = ps] \in Models(tx)
<1>1. /\ m = [polys |-> m.polys, loaded |-> m.loaded]
      /\ m.loaded \in BOOLEAN
  BY ModelParts
<1>2. [m EXCEPT !.polys = ps] = [polys |-> ps, loaded |-> m.loaded]
  BY <1>1
<1> DEFINE other == [polys |-> ps, loaded |-> m.loaded]
<1>3. other \in Models(tx)
  BY <1>1, ModelIs
<1>4. [m EXCEPT !.polys = ps] = other
  BY <1>2
<1> HIDE DEF other
<1> QED BY <1>3, <1>4

LEMMA SaveKeeps == ASSUME IInv, Save3DO PROVE IInv'
<1>1. /\ DOMAIN mdl.polys # {}
      /\ tdo' = [p \in Polys |-> mdl.polys[p].texname]
      /\ textures' = textures /\ texname' = texname
      /\ UNCHANGED <<running, archives, groups, config, mdl, backups, position, colours, settled>>
  BY DEF Save3DO, handler, buffer
<1>2. mdl.polys \in [Polys -> Poly]
  BY <1>1, ModelParts DEF IInv
<1>3. \A p \in Polys : mdl.polys[p].texname \in AnyName
  BY <1>2 DEF Poly
<1>4. tdo' \in [Polys -> AnyName]
  BY <1>1, <1>3
<1> QED BY <1>1, <1>4 DEF IInv

\* One polygon of a model that is drawn gets an owned texture, or loses its name.
LEMMA ResolveIs ==
  ASSUME NEW tx, Entries(tx), NEW poly \in Poly, poly.texture \in Held(tx) \cup {Null}
  PROVE  Resolve(tx, poly) \in Poly /\ Resolve(tx, poly).texture \in Held(tx) \cup {Null}
<1>1. CASE poly.texture # Null \/ poly.texname = NoName
  BY <1>1 DEF Resolve
<1>2. CASE ~(poly.texture # Null \/ poly.texname = NoName)
  <2> DEFINE t == GetTexture(tx, poly.texname)
             n == IF t = Null THEN NoName ELSE poly.texname
             new == [poly EXCEPT !.texture = t, !.texname = n]
  <2>1. poly.texname \in Names
    BY <1>2 DEF Poly, AnyName
  <2>2. t \in Held(tx) \cup {Null}
    BY <2>1, GetTextureIs DEF Held
  <2>3. Resolve(tx, poly) = new
    BY <1>2 DEF Resolve
  <2>4. n \in AnyName
    BY <2>1 DEF AnyName
  <2>5. t \in Textures \cup Colours \cup {Null}
    BY <2>2, HeldAreTextures
  <2> HIDE DEF t, n
  <2>6. new \in Poly /\ new.texture = t
    BY <2>4, <2>5 DEF Poly
  <2> QED BY <2>2, <2>3, <2>6
<1> QED BY <1>1, <1>2

LEMMA DrawKeeps == ASSUME IInv, Draw PROVE IInv'
<1> DEFINE ps == [p \in Polys |-> Resolve(textures, mdl.polys[p])]
<1>1. /\ running = "up" /\ DOMAIN mdl.polys # {} /\ textures' = textures
      /\ mdl' = [mdl EXCEPT !.loaded = TRUE,
                            !.polys = [p \in DOMAIN @ |-> Resolve(textures, @[p])]]
      /\ texname' = Renamed(textures, texname, Unresolved(mdl))
      /\ UNCHANGED <<running, archives, groups, config, backups, position, colours, tdo, settled>>
  BY DEF Draw
<1>2. /\ mdl \in Models(textures) /\ mdl.polys \in [Polys -> Poly]
      /\ \A p \in Polys : mdl.polys[p].texture \in Held(textures) \cup {Null}
  BY <1>1, ModelParts DEF IInv
<1>3. ps \in [Polys -> Poly] /\ \A p \in Polys : ps[p].texture \in Held(textures) \cup {Null}
  BY <1>2, ResolveIs DEF IInv
<1>4. mdl' = [polys |-> ps, loaded |-> TRUE]
  <2>1. /\ mdl = [polys |-> mdl.polys, loaded |-> mdl.loaded]
        /\ DOMAIN mdl.polys = Polys
    BY <1>2, ModelParts
  <2> QED BY <1>1, <2>1
<1> HIDE DEF ps
<1>5. mdl' \in Models(textures)
  BY <1>3, <1>4, ModelIs
<1>6. texname' \in [Textures -> Names]
  <2>1. Unresolved(mdl) \subseteq Names
    BY <1>2 DEF Unresolved, Poly, AnyName
  <2> QED BY <1>1, <2>1, RenamedIs DEF IInv
<1> QED BY <1>1, <1>5, <1>6 DEF IInv

LEMMA ApplyTextureKeeps ==
  ASSUME IInv, NEW i \in 1 .. MaxGroups, ApplyTexture(i)
  PROVE  IInv'
<1>1. /\ running = "up" /\ i \in DOMAIN groups /\ DOMAIN mdl.polys # {}
      /\ UNCHANGED <<running, archives, handler, groups, config, tdo, settled>>
      /\ colours' = colours /\ colours \in 0 .. MaxColours
  BY DEF ApplyTexture, IInv
<1>2. PICK t \in groups[i], S \in SUBSET Polys :
        Commit([mdl EXCEPT !.polys =
                  [p \in Polys |-> IF p \in S THEN Textured(@[p], t) ELSE @[p]]])
  BY DEF ApplyTexture
<1> DEFINE ps == [p \in Polys |-> IF p \in S THEN Textured(mdl.polys[p], t) ELSE mdl.polys[p]]
<1>3. t \in Held(textures)
  BY <1>1, GroupIs
<1>4. /\ mdl \in Models(textures) /\ mdl.polys \in [Polys -> Poly]
      /\ \A p \in Polys : mdl.polys[p].texture \in Held(textures) \cup {Null}
  BY <1>1, ModelParts DEF IInv
<1>5. \A poly : Textured(poly, t) \in Poly /\ Textured(poly, t).texture = t
  <2>1. t \in Textures \cup Colours
    BY <1>3, HeldAreTextures
  <2>2. NameOf(t) \in AnyName
    BY <2>1, NameOfIs DEF AnyName, IInv
  <2> QED BY <2>1, <2>2 DEF Textured, Poly
<1>6. ps \in [Polys -> Poly] /\ \A p \in Polys : ps[p].texture \in Held(textures) \cup {Null}
  BY <1>3, <1>4, <1>5
<1>7. Commit([mdl EXCEPT !.polys = ps])
  BY <1>2
<1> HIDE DEF ps
<1>8. [mdl EXCEPT !.polys = ps] \in Models(textures)
  BY <1>4, <1>6, PolysIs
<1> QED BY <1>1, <1>7, <1>8, CommitKeeps

LEMMA PolyColorKeeps == ASSUME IInv, PolyColor PROVE IInv'
<1>1. /\ running = "up" /\ DOMAIN mdl.polys # {}
      /\ UNCHANGED <<running, archives, handler, groups, config, tdo, settled>>
      /\ colours' = colours /\ colours \in 0 .. MaxColours
  BY DEF PolyColor, IInv
<1>2. PICK S \in SUBSET Polys :
        Commit([mdl EXCEPT !.polys =
                  [p \in Polys |-> IF p \in S THEN Untextured(NoName) ELSE @[p]]])
  BY DEF PolyColor
<1> DEFINE ps == [p \in Polys |-> IF p \in S THEN Untextured(NoName) ELSE mdl.polys[p]]
<1>3. /\ mdl \in Models(textures) /\ mdl.polys \in [Polys -> Poly]
      /\ \A p \in Polys : mdl.polys[p].texture \in Held(textures) \cup {Null}
  BY <1>1, ModelParts DEF IInv
<1>4. Untextured(NoName) \in Poly /\ Untextured(NoName).texture = Null
  BY UntexturedIs DEF AnyName
<1>5. ps \in [Polys -> Poly] /\ \A p \in Polys : ps[p].texture \in Held(textures) \cup {Null}
  BY <1>3, <1>4
<1>6. Commit([mdl EXCEPT !.polys = ps])
  BY <1>2
<1> HIDE DEF ps
<1>7. [mdl EXCEPT !.polys = ps] \in Models(textures)
  BY <1>3, <1>5, PolysIs
<1> QED BY <1>1, <1>6, <1>7, CommitKeeps

LEMMA ConvertKeeps == ASSUME IInv, Convert PROVE IInv'
<1> DEFINE bare == {p \in Polys : mdl.polys[p].texture = Null}
           n == colours + (IF bare = {} THEN 0 ELSE 1)
           Coloured(poly) == [poly EXCEPT !.texture = Colour(n)]
           ps == [p \in Polys |-> IF p \in bare THEN Coloured(mdl.polys[p]) ELSE mdl.polys[p]]
<1>1. /\ running = "up" /\ DOMAIN mdl.polys # {} /\ n <= MaxColours /\ colours' = n
      /\ Commit([mdl EXCEPT !.polys =
                   [p \in Polys |-> IF p \in bare THEN [@[p] EXCEPT !.texture = Colour(n)]
                                                  ELSE @[p]]])
      /\ UNCHANGED <<running, archives, handler, groups, config, tdo, settled>>
  BY DEF Convert
<1>2. /\ mdl \in Models(textures) /\ mdl.polys \in [Polys -> Poly]
      /\ \A p \in Polys : mdl.polys[p].texture \in Held(textures) \cup {Null}
  BY <1>1, ModelParts DEF IInv
<1>3. n \in 0 .. MaxColours /\ (bare # {} => n \in 1 .. MaxColours)
  BY <1>1 DEF IInv
<1>4. bare # {} => Colour(n) \in Colours
  BY <1>3 DEF Colours
<1>5. Commit([mdl EXCEPT !.polys = ps])
  BY <1>1
<1> HIDE DEF n
<1>7. ASSUME NEW p \in Polys, p \in bare
      PROVE  Coloured(mdl.polys[p]) \in Poly /\ Coloured(mdl.polys[p]).texture = Colour(n)
  BY <1>2, <1>4, <1>7 DEF Poly
<1>8. ps \in [Polys -> Poly] /\ \A p \in Polys : ps[p].texture \in Held(textures) \cup {Null}
  <2> HIDE DEF bare, Coloured
  <2>1. bare # {} => Colour(n) \in Held(textures)
    BY <1>4 DEF Held
  <2> QED BY <1>2, <1>7, <2>1
<1> HIDE DEF ps
<1>6. [mdl EXCEPT !.polys = ps] \in Models(textures)
  BY <1>2, <1>8, PolysIs
<1> QED BY <1>1, <1>3, <1>5, <1>6, CommitKeeps

\* A command that records the model as it is.
LEMMA OtherCommandKeeps == ASSUME IInv, OtherCommand PROVE IInv'
<1>1. /\ running = "up" /\ Commit(mdl)
      /\ UNCHANGED <<running, archives, handler, groups, config, tdo, settled>>
      /\ colours' = colours /\ colours \in 0 .. MaxColours /\ mdl \in Models(textures)
  BY DEF OtherCommand, IInv
<1> QED BY <1>1, CommitKeeps

LEMMA UndoRedoKeeps == ASSUME IInv, Undo3DO \/ Redo3DO PROVE IInv'
<1>1. /\ running = "up"
      /\ UNCHANGED <<running, archives, handler, groups, config, colours, tdo, settled>>
  BY DEF Undo3DO, Redo3DO
<1>2. position \in 1 .. Len(backups) /\ Len(backups) \in Nat
  BY <1>1, LenProperties DEF IInv
<1>3. CASE Undo3DO
  BY <1>1, <1>2, <1>3, ShowKeeps DEF Undo3DO
<1>4. CASE Redo3DO
  BY <1>1, <1>2, <1>4, ShowKeeps DEF Redo3DO
<1> QED BY <1>3, <1>4

-----------------------------------------------------------------------------
LEMMA StepKeeps == IInv /\ [Next]_hvars => IInv'
<1> SUFFICES ASSUME IInv, [Next]_hvars PROVE IInv'
  OBVIOUS
<1>1. CASE Start \/ Exit \/ ArchiveList
  BY <1>1, StartKeeps, ExitKeeps, ArchiveListKeeps
<1>2. CASE UseFreed \/ ShowNull \/ DrawNull
  BY <1>2, FaultKeeps DEF UseFreed, ShowNull, DrawNull
<1>3. CASE AddGroup \/ \E i \in 1..MaxGroups : RemoveGroup(i) \/ AddToGroup(i) \/ RemoveFromGroup(i)
  BY <1>3, WindowKeeps
<1>4. CASE \E i \in 1..MaxGroups : AddUnitTextures(i) \/ ApplyTexture(i)
  BY <1>4, AddUnitTexturesKeeps, ApplyTextureKeeps
<1>5. CASE New3DO \/ \E names \in [Polys -> AnyName] : Open3DO(names)
  BY <1>5, OpenKeeps
<1>6. CASE Save3DO \/ Draw \/ PolyColor \/ Convert \/ OtherCommand
  BY <1>6, SaveKeeps, DrawKeeps, PolyColorKeeps, ConvertKeeps, OtherCommandKeeps
<1>7. CASE Undo3DO \/ Redo3DO
  BY <1>7, UndoRedoKeeps
<1>8. CASE UNCHANGED hvars
  BY <1>8 DEF hvars, IInv
<1> QED BY <1>1, <1>2, <1>3, <1>4, <1>5, <1>6, <1>7, <1>8 DEF Next

-----------------------------------------------------------------------------
(* Names: while the archive list stays as it is, they lead back to textures *)

NoEntry == [k \in Names |-> Absent]

\* The names of polygon q lead to its texture; its name is the one it was given, or it
\* lost one that leads nowhere.
NameFits(tx, q) ==
  /\ q.texture \in Textures => GetTexture(tx, q.texname) = q.texture
  /\ \/ q.texname = q.given
     \/ q.texname = NoName /\ GetTexture(tx, q.given) = Null

Fits(tx, m) == \A p \in DOMAIN m.polys : NameFits(tx, m.polys[p])

\* Looking up the names in the file gives the groups again.
ComesBack(tx) == /\ ~LooksBehindNull(tx, UNION Range(config))
                 /\ DOMAIN config = DOMAIN groups
                 /\ \A i \in DOMAIN groups : LoadGroup(tx, config[i]) = groups[i] \ Colours

\* The textures are what the archive list says, each under a name that leads to it.
NamesLead == /\ textures = Loaded(NoEntry, archives)
             /\ \A t \in Owned(textures) : GetTexture(textures, texname[t]) = t

NamesInv ==
  /\ running = "up" /\ settled => /\ NamesLead
                                  /\ Fits(textures, mdl)
                                  /\ \A i \in 1 .. Len(backups) : Fits(textures, backups[i])
  /\ running = "down" /\ settled => ComesBack(Loaded(NoEntry, archives))

LEMMA NoColours == \A t \in Textures : t \notin Colours
<1> SUFFICES ASSUME NEW t \in Textures, NEW n \in 1 .. MaxColours, t = Colour(n) PROVE FALSE
  BY DEF Colours
<1>1. PICK a \in Archives : \E k \in DOMAIN Contents[a] : t = FromArchive(a, k)
  BY DEF Textures
<1>2. "archive" \in DOMAIN t
  BY <1>1 DEF FromArchive
<1>3. DOMAIN t = {"colour"}
  BY DEF Colour
<1>4. "archive" # "colour"
  OBVIOUS
<1> QED BY <1>2, <1>3, <1>4

\* Loading what is loaded already changes nothing.
LEMMA LoadedTwice ==
  ASSUME NEW S \in SUBSET Archives
  PROVE  Loaded(Loaded(NoEntry, S), S) = Loaded(NoEntry, S)
<1> DEFINE once == Loaded(NoEntry, S)
           twice == Loaded(once, S)
           holders(k) == {a \in S : k \in DOMAIN Contents[a]}
<1>1. ASSUME NEW k \in Names PROVE twice[k] = once[k]
  <2>1. CASE once[k] # Absent \/ holders(k) = {}
    BY <2>1 DEF Loaded
  <2>2. CASE holders(k) # {} /\ once[k] = Absent
    <3> DEFINE a == Min(holders(k))
    <3>1. a \in S /\ k \in DOMAIN Contents[a]
      BY <2>2, FirstArchive
    <3>2. once[k] = IF Contents[a][k] THEN FromArchive(a, k) ELSE Null
      BY <2>2 DEF Loaded, NoEntry
    <3> HIDE DEF a, once
    <3>3. FALSE
      BY <2>2, <3>1, <3>2, TextureIs, MarksAssumption
    <3> QED BY <3>3
  <2> QED BY <2>1, <2>2
<1>2. twice = [k \in Names |-> twice[k]] /\ once = [k \in Names |-> once[k]]
  BY DEF Loaded
<1> QED BY <1>1, <1>2

\* The name of a colour leads nowhere.
LEMMA ColourLeadsNowhere ==
  ASSUME NEW S \in SUBSET Archives
  PROVE  LET tx == Loaded(NoEntry, S)
         IN  GetTexture(tx, ColourName) = Null /\ ~FallsBack(tx, ColourName)
<1> DEFINE tx == Loaded(NoEntry, S)
<1>1. ASSUME NEW k \in Names, k = ColourName \/ k = Numbered[ColourName]
      PROVE  tx[k] = Absent
  <2>1. {a \in S : k \in DOMAIN Contents[a]} = {}
    BY <1>1, NamesAssumption
  <2> QED BY <2>1 DEF Loaded, NoEntry
<1>2. tx[ColourName] = Absent
  BY <1>1, NamesAssumption
<1>3. ~FallsBack(tx, ColourName)
  <2>1. Numbered[ColourName] # NoName => Numbered[ColourName] \in Names
    BY NamesAssumption
  <2> QED BY <1>1, <2>1 DEF FallsBack
<1> QED BY <1>2, <1>3 DEF GetTexture

\* A name under which a lookup finds a texture is not one that finds an empty entry.
LEMMA FoundIsThere ==
  ASSUME NEW tx, NEW n, GetTexture(tx, n) \in Textures
  PROVE  ~(FallsBack(tx, n) /\ tx[Numbered[n]] = Null)
<1> SUFFICES ASSUME FallsBack(tx, n), tx[Numbered[n]] = Null PROVE FALSE
  OBVIOUS
<1>1. GetTexture(tx, n) = Null
  BY DEF GetTexture, FallsBack
<1> QED BY <1>1, MarksAssumption

\* Lookups rename textures to names that lead to them.
LEMMA RenamedLead ==
  ASSUME NEW tx, Entries(tx), NEW names, NEW S \in SUBSET Names,
         \A t \in Owned(tx) : GetTexture(tx, names[t]) = t
  PROVE  \A t \in Owned(tx) : GetTexture(tx, Renamed(tx, names, S)[t]) = t
<1> SUFFICES ASSUME NEW t \in Owned(tx) PROVE GetTexture(tx, Renamed(tx, names, S)[t]) = t
  OBVIOUS
<1> DEFINE Finds(n) == FallsBack(tx, n) /\ tx[Numbered[n]] = t
<1>1. t \in Textures
  BY DEF Owned
<1>2. CASE \E n \in S : Finds(n)
  <2> DEFINE n == CHOOSE x \in S : Finds(x)
  <2>1. Renamed(tx, names, S)[t] = n
    BY <1>1, <1>2 DEF Renamed
  <2>2. Finds(n)
    BY <1>2
  <2> HIDE DEF n
  <2>3. GetTexture(tx, n) = t
    BY <2>2 DEF GetTexture, FallsBack
  <2> QED BY <2>1, <2>3
<1>3. CASE ~\E n \in S : Finds(n)
  <2>1. Renamed(tx, names, S)[t] = names[t]
    BY <1>1, <1>3 DEF Renamed
  <2> QED BY <2>1
<1> QED BY <1>2, <1>3

\* Every texture is first under its own name.
LEMMA FirstNamesLead ==
  ASSUME NEW tx
  PROVE  \A t \in Owned(tx) : GetTexture(tx, [x \in Textures |-> x.key][t]) = t
BY MarksAssumption DEF Owned, GetTexture

\* What the names of a group find is the group without its colours.
LEMMA GroupReads ==
  ASSUME IInv, NEW tx, NEW S \in SUBSET Archives, tx = Loaded(NoEntry, S),
         \A t \in Owned(tx) : GetTexture(tx, texname[t]) = t,
         NEW g \in SUBSET Held(tx)
  PROVE  /\ LoadGroup(tx, MakeConfig(g)) = g \ Colours
         /\ \A n \in MakeConfig(g) : ~(FallsBack(tx, n) /\ tx[Numbered[n]] = Null)
<1>1. ASSUME NEW t \in g
      PROVE  /\ t \in Colours => GetTexture(tx, NameOf(t)) = Null /\ ~FallsBack(tx, NameOf(t))
             /\ t \notin Colours => /\ t \in Textures /\ GetTexture(tx, NameOf(t)) = t
  <2>1. CASE t \in Colours
    BY <2>1, ColourLeadsNowhere DEF NameOf
  <2>2. CASE t \notin Colours
    BY <2>2 DEF NameOf, Held, Owned
  <2> QED BY <2>1, <2>2
<1>2. LoadGroup(tx, MakeConfig(g)) = g \ Colours
  <2>1. ASSUME NEW x \in LoadGroup(tx, MakeConfig(g)) PROVE x \in g \ Colours
    BY <1>1, <2>1 DEF LoadGroup, MakeConfig
  <2>2. ASSUME NEW x \in g \ Colours PROVE x \in LoadGroup(tx, MakeConfig(g))
    <3>1. x \in Textures /\ GetTexture(tx, NameOf(x)) = x /\ x # Null
      BY <1>1, MarksAssumption
    <3> QED BY <3>1 DEF LoadGroup, MakeConfig
  <2> QED BY <2>1, <2>2
<1>3. ASSUME NEW n \in MakeConfig(g), FallsBack(tx, n), tx[Numbered[n]] = Null PROVE FALSE
  <2>1. PICK t \in g : n = NameOf(t)
    BY DEF MakeConfig
  <2> QED BY <1>1, <1>3, <2>1, FoundIsThere
<1> QED BY <1>2, <1>3

LEMMA NewFits == \A tx : Fits(tx, NewModel)
<1> DEFINE none == [p \in {} |-> NoName]
<1>1. DOMAIN none = {}
  OBVIOUS
<1>2. NewModel.polys = none
  BY DEF NewModel
<1> HIDE DEF none
<1> QED BY <1>1, <1>2 DEF Fits

LEMMA CloneFits ==
  ASSUME NEW tx, NEW m \in Models(tx), Fits(tx, m)
  PROVE  Fits(tx, Clone(m))
<1>1. Clone(m).polys = m.polys
  BY DEF Clone, Models, Model
<1> QED BY <1>1 DEF Fits

\* A backup point of a model whose names lead to its textures.
LEMMA PointFits ==
  ASSUME NEW tx, NEW m \in Models(tx), Fits(tx, m), AddBackupPoint(m),
         backups \in Seq(Models(tx)), position \in 1 .. Len(backups),
         \A i \in 1 .. Len(backups) : Fits(tx, backups[i])
  PROVE  \A i \in 1 .. Len(backups') : Fits(tx, backups'[i])
<1> DEFINE old == SubSeq(backups, 1, position)
           kept == Append(old, Clone(m))
           new == IF Len(kept) > NumBackups THEN Tail(kept) ELSE kept
<1>1. Len(backups) \in Nat /\ position \in Nat /\ position >= 1 /\ position <= Len(backups)
  BY LenProperties
<1>2. /\ old \in Seq(Models(tx)) /\ Len(old) = position
      /\ \A i \in 1 .. position : old[i] = backups[i]
  <2>1. \A k \in 1 .. position : backups[k] \in Models(tx)
    BY <1>1, ElementOfSeq
  <2> QED BY <1>1, <2>1, SubSeqProperties
<1>3. backups' = new
  BY DEF AddBackupPoint
<1> HIDE DEF old
<1>4. /\ kept \in Seq(Models(tx)) /\ Len(kept) = position + 1
      /\ kept[position + 1] = Clone(m) /\ \A i \in 1 .. position : kept[i] = old[i]
  BY <1>1, <1>2, CloneIs, AppendProperties
<1> HIDE DEF kept
<1>5. ASSUME NEW i \in 1 .. position + 1 PROVE Fits(tx, kept[i])
  <2>1. CASE i = position + 1
    BY <1>4, <2>1, CloneFits
  <2>2. CASE i # position + 1
    <3>1. i \in 1 .. position /\ i \in 1 .. Len(backups)
      BY <1>1, <2>2
    <3> QED BY <1>2, <1>4, <3>1
  <2> QED BY <2>1, <2>2
<1>6. CASE Len(kept) > NumBackups
  <2>1. kept # <<>>
    BY <1>1, <1>4, EmptySeq
  <2>2. /\ new = Tail(kept) /\ Len(new) = position
        /\ \A i \in 1 .. position : new[i] = kept[i + 1]
    BY <1>1, <1>4, <1>6, <2>1, HeadTailProperties
  <2> HIDE DEF new
  <2>3. \A i \in 1 .. position : i + 1 \in 1 .. position + 1
    BY <1>1
  <2> QED BY <1>3, <1>5, <2>2, <2>3
<1>7. CASE ~(Len(kept) > NumBackups)
  BY <1>3, <1>4, <1>5, <1>7
<1> QED BY <1>6, <1>7

\* A command that makes the model m of the one under edit.
LEMMA CommitNames ==
  ASSUME IInv, IInv', NamesInv, running = "up", NEW m, Commit(m),
         settled => Fits(textures, m),
         UNCHANGED <<running, archives, handler, settled>>
  PROVE  NamesInv'
<1>1. textures' = textures /\ texname' = texname /\ running' = "up" /\ mdl' = m
  BY DEF handler, Commit
<1>2. ASSUME settled
      PROVE  \A i \in 1 .. Len(backups') : Fits(textures, backups'[i])
  <2>1. m \in Models(textures)
    BY <1>1 DEF IInv
  <2> QED BY <1>2, <2>1, PointFits DEF Commit, IInv, NamesInv
<1>3. "up" # "down"
  OBVIOUS
<1> QED BY <1>1, <1>2, <1>3 DEF NamesInv, NamesLead

\* Steps that leave the textures, their names and all models alone, the program running.
LEMMA QuietNames ==
  ASSUME NamesInv, running = "up",
         UNCHANGED <<running, archives, textures, texname, mdl, backups, settled>>
  PROVE  NamesInv'
<1>1. "up" # "down"
  OBVIOUS
<1> QED BY <1>1 DEF NamesInv, NamesLead

LEMMA ShowNames ==
  ASSUME IInv, NamesInv, running = "up", NEW i \in 1 .. Len(backups), Show(i),
         UNCHANGED <<running, archives, handler, settled>>
  PROVE  NamesInv'
<1>1. backups[i] \in Models(textures)
  BY ElementOfSeq DEF IInv
<1>2. settled => Fits(textures, Clone(backups[i]))
  BY <1>1, CloneFits DEF NamesInv
<1>3. /\ mdl' = Clone(backups[i]) /\ backups' = backups
      /\ textures' = textures /\ texname' = texname
  BY DEF Show, handler
<1>4. "up" # "down"
  OBVIOUS
<1> QED BY <1>2, <1>3, <1>4 DEF NamesInv, NamesLead

LEMMA StartNames == ASSUME IInv, Start PROVE NamesInv'
<1> DEFINE tx == Loaded([k \in Names |-> Absent], archives)
           names == UNION Range(config)
           first == [t \in Textures |-> t.key]
<1>1. /\ textures' = tx
      /\ running' = "faulted" \/ (running' = "up" /\ texname' = Renamed(tx, first, names))
      /\ mdl' = NewModel /\ backups' = <<NewModel>>
      /\ UNCHANGED <<archives, config>>
  BY DEF Start
<1>2. tx = Loaded(NoEntry, archives) /\ Entries(tx)
  BY LoadedIs, NoEntries DEF IInv, NoEntry
<1>3. names \subseteq Names
  <2>1. config \in Seq(SUBSET Names) /\ DOMAIN config = 1 .. Len(config)
    BY LenProperties DEF IInv
  <2>2. \A i \in DOMAIN config : config[i] \subseteq Names
    BY <2>1, ElementOfSeq
  <2> QED BY <2>2 DEF Range
<1>4. \A t \in Owned(tx) : GetTexture(tx, first[t]) = t
  BY FirstNamesLead
<1> HIDE DEF tx, names, first
<1>5. \A t \in Owned(tx) : GetTexture(tx, Renamed(tx, first, names)[t]) = t
  BY <1>2, <1>3, <1>4, RenamedLead
<1>6. Fits(tx, NewModel) /\ \A i \in 1 .. Len(<<NewModel>>) : Fits(tx, (<<NewModel>>)[i])
  BY NewFits
<1>7. "up" # "down" /\ "faulted" # "up" /\ "faulted" # "down"
  OBVIOUS
<1>8. CASE running' = "faulted"
  BY <1>7, <1>8 DEF NamesInv
<1>9. CASE running' = "up" /\ texname' = Renamed(tx, first, names)
  <2>1. NamesLead'
    BY <1>1, <1>2, <1>5, <1>9 DEF NamesLead
  <2>2. Fits(textures', mdl') /\ \A i \in 1 .. Len(backups') : Fits(textures', backups'[i])
    BY <1>1, <1>6
  <2> QED BY <1>7, <1>9, <2>1, <2>2 DEF NamesInv
<1> QED BY <1>1, <1>8, <1>9

LEMMA ExitNames == ASSUME IInv, NamesInv, Exit PROVE NamesInv'
<1>1. /\ running = "up" /\ running' = "down"
      /\ config' = [i \in DOMAIN groups |-> MakeConfig(groups[i])]
      /\ UNCHANGED <<archives, groups, settled>>
  BY DEF Exit
<1> DEFINE tx == Loaded(NoEntry, archives)
<1>2. ASSUME settled PROVE ComesBack(tx)'
  <2>1. /\ textures = tx /\ archives \subseteq Archives
        /\ \A t \in Owned(textures) : GetTexture(textures, texname[t]) = t
    BY <1>1, <1>2 DEF NamesInv, NamesLead, IInv
  <2>2. ASSUME NEW i \in DOMAIN groups
        PROVE  /\ LoadGroup(tx, MakeConfig(groups[i])) = groups[i] \ Colours
               /\ \A n \in MakeConfig(groups[i]) : ~(FallsBack(tx, n) /\ tx[Numbered[n]] = Null)
    <3>1. groups[i] \subseteq Held(tx)
      BY <1>1, <2>1, GroupIs
    <3> HIDE DEF tx
    <3> QED BY <2>1, <3>1, GroupReads DEF tx
  <2>3. DOMAIN config' = DOMAIN groups
    BY <1>1
  <2>4. \A i \in DOMAIN groups : config'[i] = MakeConfig(groups[i])
    BY <1>1
  <2>5. ~LooksBehindNull(tx, UNION Range(config'))
    BY <2>2, <2>3, <2>4 DEF LooksBehindNull, Range
  <2>6. tx' = tx
    BY <1>1 DEF NoEntry
  <2> HIDE DEF tx
  <2> QED BY <1>1, <2>2, <2>3, <2>4, <2>5, <2>6 DEF ComesBack
<1>3. "up" # "down"
  OBVIOUS
<1> QED BY <1>1, <1>2, <1>3 DEF NamesInv

LEMMA ArchiveListNames == ASSUME IInv, NamesInv, ArchiveList PROVE NamesInv'
<1>1. /\ running = "up" /\ running' = "up" /\ "up" # "down"
      /\ textures' = Loaded(textures, archives')
      /\ settled' = (settled /\ archives' = archives)
      /\ UNCHANGED <<texname, mdl, backups>>
  BY DEF ArchiveList, buffer
<1>2. CASE settled /\ archives' = archives
  <2>1. textures = Loaded(NoEntry, archives) /\ archives \subseteq Archives
    BY <1>1, <1>2 DEF NamesInv, NamesLead, IInv
  <2>2. textures' = textures
    BY <1>1, <1>2, <2>1, LoadedTwice
  <2> QED BY <1>1, <1>2, <2>2 DEF NamesInv, NamesLead
<1>3. CASE ~(settled /\ archives' = archives)
  BY <1>1, <1>3 DEF NamesInv
<1> QED BY <1>2, <1>3

\* A step that makes the polygons ps of those of the model under edit, and a backup point.
LEMMA PolysNames ==
  ASSUME IInv, IInv', NamesInv, running = "up",
         UNCHANGED <<running, archives, handler, settled>>,
         NEW m, Commit(m), NEW ps, DOMAIN ps = Polys, m.polys = ps,
         settled => \A p \in Polys : NameFits(textures, ps[p])
  PROVE  NamesInv'
BY CommitNames DEF Fits

\* The parts of the model under edit that the commands on its polygons need.
LEMMA EditedIs ==
  ASSUME IInv, DOMAIN mdl.polys # {}
  PROVE  /\ DOMAIN mdl.polys = Polys
         /\ mdl.polys \in [Polys -> Poly]
         /\ \A ps : [mdl EXCEPT !.polys = ps].polys = ps
         /\ \A ps : [mdl EXCEPT !.loaded = TRUE, !.polys = ps].polys = ps
<1>1. mdl = [polys |-> mdl.polys, loaded |-> mdl.loaded]
  BY ModelParts DEF IInv
<1>2. mdl.polys \in [Polys -> Poly]
  BY ModelParts DEF IInv
<1> QED BY <1>1, <1>2

LEMMA OpenNames ==
  ASSUME IInv, NamesInv, New3DO \/ \E names \in [Polys -> AnyName] : Open3DO(names)
  PROVE  NamesInv'
<1>1. IInv'
  BY OpenKeeps
<1>2. CASE New3DO
  BY <1>1, <1>2, NewFits, CommitNames DEF New3DO
<1>3. ASSUME NEW names \in [Polys -> AnyName], Open3DO(names) PROVE NamesInv'
  <2> DEFINE ps == [p \in Polys |-> Untextured(names[p])]
             m == [polys |-> ps, loaded |-> FALSE]
  <2>1. /\ running = "up" /\ Commit(m) /\ m.polys = ps /\ DOMAIN ps = Polys
        /\ UNCHANGED <<running, archives, handler, settled>>
    BY <1>3 DEF Open3DO
  <2>2. \A p \in Polys : NameFits(textures, ps[p])
    BY MarksAssumption DEF NameFits, Untextured
  <2> HIDE DEF ps, m
  <2> QED BY <1>1, <2>1, <2>2, PolysNames
<1> QED BY <1>2, <1>3

LEMMA ResolveFits ==
  ASSUME NEW tx, Entries(tx), NEW q \in Poly, NameFits(tx, q)
  PROVE  NameFits(tx, Resolve(tx, q))
<1>1. CASE q.texture # Null \/ q.texname = NoName
  BY <1>1 DEF Resolve
<1>2. CASE ~(q.texture # Null \/ q.texname = NoName)
  <2> DEFINE t == GetTexture(tx, q.texname)
             n == IF t = Null THEN NoName ELSE q.texname
             new == [q EXCEPT !.texture = t, !.texname = n]
  <2>1. q.texname = q.given
    BY <1>2 DEF NameFits
  <2>2. Resolve(tx, q) = new
    BY <1>2 DEF Resolve
  <2>3. t \in Textures => n = q.texname
    BY MarksAssumption
  <2>4. n = q.given \/ (n = NoName /\ GetTexture(tx, q.given) = Null)
    BY <2>1
  <2>5. t = GetTexture(tx, q.texname)
    OBVIOUS
  <2> HIDE DEF t, n
  <2>6. new.texture = t /\ new.texname = n /\ new.given = q.given
    BY DEF Poly
  <2> HIDE DEF new
  <2> QED BY <2>2, <2>3, <2>4, <2>5, <2>6 DEF NameFits
<1> QED BY <1>1, <1>2

LEMMA DrawNames == ASSUME IInv, NamesInv, Draw PROVE NamesInv'
<1> DEFINE ps == [p \in Polys |-> Resolve(textures, mdl.polys[p])]
<1>1. /\ running = "up" /\ DOMAIN mdl.polys # {} /\ textures' = textures
      /\ mdl' = [mdl EXCEPT !.loaded = TRUE,
                            !.polys = [p \in DOMAIN @ |-> Resolve(textures, @[p])]]
      /\ texname' = Renamed(textures, texname, Unresolved(mdl))
      /\ UNCHANGED <<running, archives, backups, settled>>
  BY DEF Draw
<1>2. /\ DOMAIN mdl.polys = Polys /\ mdl.polys \in [Polys -> Poly]
      /\ \A x : [mdl EXCEPT !.loaded = TRUE, !.polys = x].polys = x
  BY <1>1, EditedIs
<1>3. mdl' = [mdl EXCEPT !.loaded = TRUE, !.polys = ps]
  BY <1>1, <1>2
<1>4. mdl'.polys = ps /\ DOMAIN ps = Polys
  <2>1. DOMAIN ps = Polys
    OBVIOUS
  <2> HIDE DEF ps
  <2> QED BY <1>2, <1>3, <2>1
<1>5. ASSUME settled PROVE Fits(textures, mdl')
  <2>1. \A p \in Polys : NameFits(textures, ps[p])
    BY <1>1, <1>2, <1>5, ResolveFits DEF NamesInv, Fits, IInv
  <2> HIDE DEF ps
  <2> QED BY <1>4, <2>1 DEF Fits
<1>6. ASSUME settled PROVE \A t \in Owned(textures) : GetTexture(textures, texname'[t]) = t
  <2>1. Unresolved(mdl) \subseteq Names
    BY <1>2 DEF Unresolved, Poly, AnyName
  <2> QED BY <1>1, <1>6, <2>1, RenamedLead DEF NamesInv, NamesLead, IInv
<1>7. "up" # "down"
  OBVIOUS
<1> QED BY <1>1, <1>5, <1>6, <1>7 DEF NamesInv, NamesLead

LEMMA ApplyTextureNames ==
  ASSUME IInv, NamesInv, NEW i \in 1 .. MaxGroups, ApplyTexture(i)
  PROVE  NamesInv'
<1>1. /\ running = "up" /\ i \in DOMAIN groups /\ DOMAIN mdl.polys # {}
      /\ UNCHANGED <<running, archives, handler, settled>>
  BY DEF ApplyTexture
<1>2. PICK t \in groups[i], S \in SUBSET Polys :
        Commit([mdl EXCEPT !.polys =
                  [p \in Polys |-> IF p \in S THEN Textured(@[p], t) ELSE @[p]]])
  BY DEF ApplyTexture
<1> DEFINE ps == [p \in Polys |-> IF p \in S THEN Textured(mdl.polys[p], t) ELSE mdl.polys[p]]
           m == [mdl EXCEPT !.polys = ps]
<1>3. Commit(m)
  BY <1>2
<1>4. t \in Held(textures)
  BY <1>1, GroupIs
<1>5. ASSUME settled, NEW q PROVE NameFits(textures, Textured(q, t))
  <2>1. t \in Textures => GetTexture(textures, NameOf(t)) = t
    BY <1>1, <1>4, <1>5, NoColours DEF NamesInv, NamesLead, NameOf, Held
  <2> QED BY <2>1 DEF NameFits, Textured
<1>6. DOMAIN mdl.polys = Polys /\ \A x : [mdl EXCEPT !.polys = x].polys = x
  BY <1>1, EditedIs
<1>7. ASSUME settled PROVE \A p \in Polys : NameFits(textures, ps[p])
  BY <1>1, <1>5, <1>6, <1>7 DEF NamesInv, Fits
<1>8. DOMAIN ps = Polys /\ m.polys = ps
  BY <1>6
<1>9. IInv'
  BY ApplyTextureKeeps
<1> HIDE DEF ps, m
<1> QED BY <1>1, <1>3, <1>7, <1>8, <1>9, PolysNames

LEMMA PolyColorNames == ASSUME IInv, NamesInv, PolyColor PROVE NamesInv'
<1>1. /\ running = "up" /\ DOMAIN mdl.polys # {}
      /\ UNCHANGED <<running, archives, handler, settled>>
  BY DEF PolyColor
<1>2. PICK S \in SUBSET Polys :
        Commit([mdl EXCEPT !.polys =
                  [p \in Polys |-> IF p \in S THEN Untextured(NoName) ELSE @[p]]])
  BY DEF PolyColor
<1> DEFINE ps == [p \in Polys |-> IF p \in S THEN Untextured(NoName) ELSE mdl.polys[p]]
           m == [mdl EXCEPT !.polys = ps]
<1>3. Commit(m)
  BY <1>2
<1>4. NameFits(textures, Untextured(NoName))
  BY MarksAssumption DEF NameFits, Untextured
<1>5. DOMAIN mdl.polys = Polys /\ \A x : [mdl EXCEPT !.polys = x].polys = x
  BY <1>1, EditedIs
<1>6. ASSUME settled PROVE \A p \in Polys : NameFits(textures, ps[p])
  BY <1>1, <1>4, <1>5, <1>6 DEF NamesInv, Fits
<1>7. DOMAIN ps = Polys /\ m.polys = ps
  BY <1>5
<1>8. IInv'
  BY PolyColorKeeps
<1> HIDE DEF ps, m
<1> QED BY <1>1, <1>3, <1>6, <1>7, <1>8, PolysNames

LEMMA ConvertNames == ASSUME IInv, NamesInv, Convert PROVE NamesInv'
<1> DEFINE bare == {p \in Polys : mdl.polys[p].texture = Null}
           n == colours + (IF bare = {} THEN 0 ELSE 1)
           Coloured(q) == [q EXCEPT !.texture = Colour(n)]
           ps == [p \in Polys |-> IF p \in bare THEN Coloured(mdl.polys[p]) ELSE mdl.polys[p]]
           m == [mdl EXCEPT !.polys = ps]
<1>1. /\ running = "up" /\ DOMAIN mdl.polys # {} /\ n <= MaxColours
      /\ Commit(m)
      /\ UNCHANGED <<running, archives, handler, settled>>
  BY DEF Convert
<1>2. /\ DOMAIN mdl.polys = Polys /\ mdl.polys \in [Polys -> Poly]
      /\ \A x : [mdl EXCEPT !.polys = x].polys = x
  BY <1>1, EditedIs
<1>3. n \in 0 .. MaxColours /\ (bare # {} => n \in 1 .. MaxColours)
  BY <1>1 DEF IInv
<1>4. bare # {} => Colour(n) \notin Textures
  BY <1>3, NoColours DEF Colours
<1>5. IInv'
  BY ConvertKeeps
<1> HIDE DEF n
<1>6. ASSUME settled, NEW p \in Polys PROVE NameFits(textures, ps[p])
  <2>1. NameFits(textures, mdl.polys[p])
    BY <1>1, <1>2, <1>6 DEF NamesInv, Fits
  <2>2. CASE p \in bare
    <3>1. Coloured(mdl.polys[p]).texture = Colour(n)
      BY <1>2 DEF Poly
    <3>2. /\ Coloured(mdl.polys[p]).texname = mdl.polys[p].texname
          /\ Coloured(mdl.polys[p]).given = mdl.polys[p].given
      BY <1>2 DEF Poly
    <3>3. bare # {}
      BY <2>2
    <3> QED BY <1>4, <2>1, <2>2, <3>1, <3>2, <3>3 DEF NameFits
  <2>3. CASE p \notin bare
    BY <2>1, <2>3
  <2> QED BY <2>2, <2>3
<1>7. DOMAIN ps = Polys
  OBVIOUS
<1>8. m.polys = ps
  <2> HIDE DEF ps
  <2> QED BY <1>2
<1> HIDE DEF ps, m
<1> QED BY <1>1, <1>5, <1>6, <1>7, <1>8, PolysNames

LEMMA OtherCommandNames == ASSUME IInv, NamesInv, OtherCommand PROVE NamesInv'
<1>1. /\ running = "up" /\ Commit(mdl) /\ (settled => Fits(textures, mdl))
      /\ UNCHANGED <<running, archives, handler, settled>>
  BY DEF OtherCommand, NamesInv
<1> QED BY <1>1, OtherCommandKeeps, CommitNames

LEMMA UndoRedoNames == ASSUME IInv, NamesInv, Undo3DO \/ Redo3DO PROVE NamesInv'
<1>1. /\ running = "up"
      /\ UNCHANGED <<running, archives, handler, settled>>
  BY DEF Undo3DO, Redo3DO
<1>2. position \in 1 .. Len(backups) /\ Len(backups) \in Nat
  BY <1>1, LenProperties DEF IInv
<1>3. CASE Undo3DO
  BY <1>1, <1>2, <1>3, ShowNames DEF Undo3DO
<1>4. CASE Redo3DO
  BY <1>1, <1>2, <1>4, ShowNames DEF Redo3DO
<1> QED BY <1>3, <1>4

LEMMA InitNames == Init => NamesInv
<1> SUFFICES ASSUME Init PROVE NamesInv
  OBVIOUS
<1>1. running = "down" /\ groups = <<>> /\ config = <<>> /\ "up" # "down"
  BY DEF Init
<1>2. ComesBack(Loaded(NoEntry, archives))
  BY <1>1 DEF ComesBack, LooksBehindNull, Range
<1> QED BY <1>1, <1>2 DEF NamesInv

LEMMA StepNames == IInv /\ NamesInv /\ [Next]_hvars => NamesInv'
<1> SUFFICES ASSUME IInv, NamesInv, [Next]_hvars PROVE NamesInv'
  OBVIOUS
<1>1. CASE Start \/ Exit \/ ArchiveList
  BY <1>1, StartNames, ExitNames, ArchiveListNames
<1>2. CASE UseFreed \/ ShowNull \/ DrawNull
  <2>1. "faulted" # "up" /\ "faulted" # "down"
    OBVIOUS
  <2> QED BY <1>2, <2>1 DEF UseFreed, ShowNull, DrawNull, Fault, NamesInv
<1>3. CASE AddGroup \/ \E i \in 1..MaxGroups : RemoveGroup(i) \/ AddToGroup(i) \/ RemoveFromGroup(i)
  <2>1. \A gs : CloseWindow(gs) => NamesInv'
    BY QuietNames DEF CloseWindow, handler, buffer
  <2> QED BY <1>3, <2>1 DEF AddGroup, RemoveGroup, AddToGroup, RemoveFromGroup
<1>4. CASE \E i \in 1..MaxGroups : AddUnitTextures(i) \/ ApplyTexture(i)
  <2>1. ASSUME NEW i \in 1..MaxGroups, AddUnitTextures(i) PROVE NamesInv'
    BY <2>1, QuietNames DEF AddUnitTextures, handler, buffer
  <2> QED BY <1>4, <2>1, ApplyTextureNames
<1>5. CASE New3DO \/ \E names \in [Polys -> AnyName] : Open3DO(names)
  BY <1>5, OpenNames
<1>6. CASE Save3DO
  BY <1>6, QuietNames DEF Save3DO, handler, buffer
<1>7. CASE Draw \/ PolyColor \/ Convert \/ OtherCommand
  BY <1>7, DrawNames, PolyColorNames, ConvertNames, OtherCommandNames
<1>8. CASE Undo3DO \/ Redo3DO
  BY <1>8, UndoRedoNames
<1>9. CASE UNCHANGED hvars
  BY <1>9 DEF hvars, NamesInv, NamesLead, ComesBack
<1> QED BY <1>1, <1>2, <1>3, <1>4, <1>5, <1>6, <1>7, <1>8, <1>9 DEF Next

-----------------------------------------------------------------------------
(* Theorems *)

\* The inductive invariant: entries are under the names of their textures, and whatever a
\* group, the model or a backup of it holds is owned.
THEOREM Invariance == Spec => []IInv
BY InitKeeps, StepKeeps, PTL DEF Spec

\* Every variable keeps its type, through crashes and restarts (TextureHandler,
\* TextureGroupHandler and the models in memory).
THEOREM TypeCorrect == Spec => []TypeOK
<1>1. IInv => TypeOK
  <2> SUFFICES ASSUME IInv PROVE TypeOK
    OBVIOUS
  <2>1. Models(textures) \subseteq Model
    BY DEF Models
  <2>2. mdl \in Model /\ backups \in Seq(Model)
    BY <2>1, SeqGrows DEF IInv
  <2>3. DOMAIN backups = 1 .. Len(backups)
    BY <2>2, LenProperties
  <2> QED BY <2>2, <2>3 DEF IInv, TypeOK, Entries
<1> QED BY <1>1, Invariance, PTL

\* The pointers of texture groups are to textures that the handler owns, for any archives
\* and any number of groups, models and backups (TextureGroup::textures).
THEOREM GroupsStayOwned == Spec => []GroupsHoldOwned
<1>1. IInv => GroupsHoldOwned
  <2> SUFFICES ASSUME IInv, running = "up", NEW i \in DOMAIN groups, NEW t \in groups[i]
               PROVE  t \in Colours \/ textures[t.key] = t
    BY DEF GroupsHoldOwned
  <2>1. t \in Held(textures)
    BY GroupIs
  <2> QED BY <2>1 DEF Held, Owned
<1> QED BY <1>1, Invariance, PTL

\* While the archive list stays as it is, the name of every texture, and the names in the
\* model and its backups, lead to the textures they had; when the program is left, the
\* names in the file lead to the groups.
THEOREM NamesInvariance == Spec => []NamesInv
BY InitNames, StepNames, Invariance, PTL DEF Spec

\* After a restart with the same archive list the groups are what they were, but for the
\* textures made of colours (GroupsComeBack).
THEOREM GroupsDoComeBack == Spec => GroupsComeBack
<1>1. ASSUME IInv, NamesInv, running = "down", settled, Start
      PROVE  running' = "up" /\ groups' = [i \in DOMAIN groups |-> groups[i] \ Colours]
  <2> DEFINE tx == Loaded([k \in Names |-> Absent], archives)
             names == UNION Range(config)
  <2>1. /\ ~LooksBehindNull(tx, names) /\ DOMAIN config = DOMAIN groups
        /\ \A i \in DOMAIN groups : LoadGroup(tx, config[i]) = groups[i] \ Colours
    BY <1>1 DEF NamesInv, ComesBack, NoEntry
  <2>2. IF LooksBehindNull(tx, names)
        THEN running' = "faulted"
        ELSE /\ running' = "up"
             /\ groups' = [i \in DOMAIN config |-> LoadGroup(tx, config[i])]
    BY <1>1 DEF Start
  <2> HIDE DEF tx, names
  <2> QED BY <2>1, <2>2
<1>2. IInv /\ NamesInv /\ [Next]_hvars =>
        [(running = "down" /\ settled /\ Start) =>
           /\ running' = "up"
           /\ groups' = [i \in DOMAIN groups |-> groups[i] \ Colours]]_hvars
  BY <1>1
<1> QED BY <1>2, Invariance, NamesInvariance, PTL DEF Spec, GroupsComeBack

\* What a save finds in the model, by the invariant.
LEMMA SavedIs ==
  ASSUME IInv, NamesInv, Save3DO, settled, NEW p \in Polys
  PROVE  tdo'[p] = mdl.polys[p].texname /\ NameFits(textures, mdl.polys[p])
<1>1. /\ running = "up" /\ DOMAIN mdl.polys # {}
      /\ tdo' = [q \in Polys |-> mdl.polys[q].texname]
  BY DEF Save3DO
<1>2. DOMAIN mdl.polys = Polys
  BY <1>1, EditedIs
<1> QED BY <1>1, <1>2 DEF NamesInv, Fits

\* The names in a saved 3DO find the textures its polygons had (SavedNamesResolve), for any
\* number of polygons and backups, through undo, renaming and the texture tool.
THEOREM SavedNamesDoResolve == Spec => SavedNamesResolve
<1>1. IInv /\ NamesInv /\ [Next]_hvars =>
        [(Save3DO /\ settled) => \A p \in Polys : LET t == mdl.polys[p].texture IN
           t \in Textures => GetTexture(textures, tdo'[p]) = t]_hvars
  BY SavedIs DEF NameFits
<1> QED BY <1>1, Invariance, NamesInvariance, PTL DEF Spec, SavedNamesResolve

\* A save writes the names that the polygons were given, but for those under which no
\* texture was found (NamesAreLostOnlyIfMissing).
THEOREM NamesAreSaved == Spec => NamesAreLostOnlyIfMissing
<1>1. IInv /\ NamesInv /\ [Next]_hvars =>
        [(Save3DO /\ settled) => \A p \in Polys : LET name == mdl.polys[p].given IN
           \/ tdo'[p] = name
           \/ tdo'[p] = NoName /\ GetTexture(textures, name) = Null]_hvars
  BY SavedIs DEF NameFits
<1> QED BY <1>1, Invariance, NamesInvariance, PTL DEF Spec, NamesAreLostOnlyIfMissing
=============================================================================

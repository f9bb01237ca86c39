------------------------ MODULE TextureBindingsProofs ------------------------
(***************************************************************************)
(* Proof that the names of textures that were given to a model are the ones *)
(* that are saved, for any names, any directories and any size of the undo  *)
(* buffer.                                                                  *)
(*                                                                          *)
(* A model that lost nothing has in each slot the name that was given to    *)
(* it, but for the directory. This is inductive once it is said of every    *)
(* version in the undo buffer: showing a version either finds every texture *)
(* under the name of its binding, and then changes nothing, or counts as a  *)
(* loss.                                                                    *)
(***************************************************************************)
EXTENDS TextureBindings, SequenceTheorems, TLAPS

\* The name that is saved for a slot.
NameAt(bs, i) == IF i <= Len(bs) THEN bs[i].name ELSE NoName

\* The model lost no name.
Kept(m) ==
  ~m.missing => \A i \in Slots : BaseName[NameAt(m.binds, i)] = BaseName[m.given[i]]

Sound(m) == m \in TexModel /\ Kept(m)

IInv ==
  /\ Sound(model)
  /\ versions \in Seq(TexModel) /\ shown \in 1 .. Len(versions)
  /\ \A k \in 1 .. Len(versions) : Sound(versions[k])
  /\ s3o \in {<<>>} \cup [Slots -> AnyName]

-----------------------------------------------------------------------------
\* A name without its directory is a name, and has no directory.
LEMMA BaseNames ==
  ASSUME NEW n \in AnyName
  PROVE  BaseName[n] \in AnyName /\ BaseName[BaseName[n]] = BaseName[n]
BY BaseNameAssumption DEF AnyName

\* Bindings are a sequence of two at most.
LEMMA BindingsAre ==
  ASSUME NEW bs
  PROVE  bs \in Bindings <=> /\ bs \in Seq(Binding)
                            /\ Len(bs) \in {0, 1, 2}
<1>1. ASSUME bs \in Bindings
      PROVE  bs \in Seq(Binding) /\ Len(bs) \in {0, 1, 2}
  <2>1. CASE bs = <<>>
    BY <2>1
  <2>2. CASE bs \in [1..1 -> Binding]
    <3>1. bs \in Seq(Binding)
      BY <2>2, SeqDef
    <3> QED BY <2>2, <3>1, LenProperties
  <2>3. CASE bs \in [1..2 -> Binding]
    <3>1. bs \in Seq(Binding)
      BY <2>3, SeqDef
    <3> QED BY <2>3, <3>1, LenProperties
  <2> QED BY <1>1, <2>1, <2>2, <2>3 DEF Bindings
<1>2. ASSUME bs \in Seq(Binding), Len(bs) \in {0, 1, 2}
      PROVE  bs \in Bindings
  <2>1. bs \in [1..Len(bs) -> Binding]
    BY <1>2
  <2>2. CASE Len(bs) = 0
    BY <1>2, <2>2, EmptySeq DEF Bindings
  <2> QED BY <1>2, <2>1, <2>2 DEF Bindings
<1> QED BY <1>1, <1>2

\* Resizing keeps what is there and adds bare bindings.
LEMMA ResizedIs ==
  ASSUME NEW bs \in Bindings, NEW i \in Slots
  PROVE  /\ Resized(bs, i) \in Bindings
         /\ i \in 1 .. Len(Resized(bs, i))
         /\ \A j \in Slots : NameAt(Resized(bs, i), j) = NameAt(bs, j)
<1> DEFINE n == IF i > Len(bs) THEN i ELSE Len(bs)
           r == Resized(bs, i)
<1>1. bs \in Seq(Binding) /\ Len(bs) \in {0, 1, 2}
  BY BindingsAre
<1>2. n \in {1, 2} /\ i <= n /\ Len(bs) <= n
  BY <1>1 DEF Slots
<1>3. Bare \in Binding
  BY DEF Bare, Binding, AnyName
<1>4. r = [j \in 1 .. n |-> IF j <= Len(bs) THEN bs[j] ELSE Bare]
  BY DEF Resized
<1> HIDE DEF r, n
<1>5. \A j \in 1 .. n : j <= Len(bs) => bs[j] \in Binding
  BY <1>1, <1>2
<1>6. r \in [1 .. n -> Binding]
  BY <1>3, <1>4, <1>5
<1>7. r \in Bindings /\ Len(r) = n
  BY <1>2, <1>6 DEF Bindings
<1>8. ASSUME NEW j \in Slots PROVE NameAt(r, j) = NameAt(bs, j)
  <2>1. CASE j <= Len(bs)
    BY <1>1, <1>2, <1>4, <1>7, <2>1 DEF NameAt, Slots
  <2>2. CASE ~(j <= Len(bs)) /\ j <= n
    BY <1>1, <1>2, <1>4, <1>7, <2>2 DEF NameAt, Slots, Bare
  <2>3. CASE ~(j <= Len(bs)) /\ ~(j <= n)
    BY <1>7, <2>3 DEF NameAt
  <2> QED BY <2>1, <2>2, <2>3
<1>9. i \in 1 .. n
  BY <1>2 DEF Slots
<1> QED BY <1>7, <1>8, <1>9 DEF r

\* SetTexture names one slot after its texture.
LEMMA SetTextureIs ==
  ASSUME NEW bs \in Bindings, NEW i \in Slots, NEW tex \in AnyName
  PROVE  /\ SetTexture(bs, i, tex) \in Bindings
         /\ \A j \in Slots : NameAt(SetTexture(bs, i, tex), j) =
                              IF j = i THEN tex ELSE NameAt(bs, j)
<1> DEFINE r == Resized(bs, i)
           b == [name |-> tex, tex |-> tex]
           s == [r EXCEPT ![i] = b]
<1>1. /\ r \in Seq(Binding) /\ Len(r) \in {0, 1, 2} /\ i \in 1 .. Len(r)
      /\ \A j \in Slots : NameAt(r, j) = NameAt(bs, j)
  BY ResizedIs, BindingsAre
<1>2. b \in Binding /\ b.name = tex
  BY DEF Binding
<1>3. s = SetTexture(bs, i, tex)
  BY DEF SetTexture
<1> HIDE DEF r, b
<1>4. /\ s \in Seq(Binding) /\ Len(s) = Len(r)
      /\ \A j \in 1 .. Len(r) : s[j] = IF j = i THEN b ELSE r[j]
  BY <1>1, <1>2, ExceptSeq
<1> HIDE DEF s
<1>5. s \in Bindings
  BY <1>1, <1>4, BindingsAre
<1>6. ASSUME NEW j \in Slots
      PROVE  NameAt(s, j) = IF j = i THEN tex ELSE NameAt(r, j)
  BY <1>1, <1>2, <1>4 DEF NameAt, Slots
<1> QED BY <1>1, <1>3, <1>5, <1>6

\* SetTextureName does the same, and leaves the texture.
LEMMA SetTextureNameIs ==
  ASSUME NEW bs \in Bindings, NEW i \in Slots, NEW name \in AnyName
  PROVE  /\ SetTextureName(bs, i, name) \in Bindings
         /\ \A j \in Slots : NameAt(SetTextureName(bs, i, name), j) =
                              IF j = i THEN name ELSE NameAt(bs, j)
<1> DEFINE r == Resized(bs, i)
           b == [r[i] EXCEPT !.name = name]
           s == [r EXCEPT ![i] = b]
<1>1. /\ r \in Seq(Binding) /\ Len(r) \in {0, 1, 2} /\ i \in 1 .. Len(r)
      /\ \A j \in Slots : NameAt(r, j) = NameAt(bs, j)
  BY ResizedIs, BindingsAre
<1> HIDE DEF r
<1>2. b \in Binding /\ b.name = name
  <2>1. r[i] \in Binding
    BY <1>1, ElementOfSeq
  <2> QED BY <2>1 DEF Binding
<1>3. s = SetTextureName(bs, i, name)
  BY DEF SetTextureName, r
<1> HIDE DEF b
<1>4. /\ s \in Seq(Binding) /\ Len(s) = Len(r)
      /\ \A j \in 1 .. Len(r) : s[j] = IF j = i THEN b ELSE r[j]
  BY <1>1, <1>2, ExceptSeq
<1> HIDE DEF s
<1>5. s \in Bindings
  BY <1>1, <1>4, BindingsAre
<1>6. ASSUME NEW j \in Slots
      PROVE  NameAt(s, j) = IF j = i THEN name ELSE NameAt(r, j)
  BY <1>1, <1>2, <1>4 DEF NameAt, Slots
<1> QED BY <1>1, <1>3, <1>5, <1>6

\* Showing a model names every binding after its texture, and adds none.
LEMMA SetModelIs ==
  ASSUME NEW m \in TexModel
  PROVE  /\ SetModel(m) \in TexModel
         /\ SetModel(m).given = m.given
         /\ Len(SetModel(m).binds) = Len(m.binds)
         /\ \A i \in 1 .. Len(m.binds) : SetModel(m).binds[i].name = m.binds[i].tex
         /\ ~SetModel(m).missing =>
               ~m.missing /\ \A i \in 1 .. Len(m.binds) : m.binds[i].name = m.binds[i].tex
<1> DEFINE n == Len(m.binds)
           t(i) == m.binds[i].tex
           new == [i \in DOMAIN m.binds |-> SetTexture(m.binds, i, t(i))[i]]
<1>1. m.binds \in Seq(Binding) /\ n \in {0, 1, 2} /\ DOMAIN m.binds = 1 .. n
  BY BindingsAre, LenProperties DEF TexModel
<1>2. ASSUME NEW i \in 1 .. n
      PROVE  SetTexture(m.binds, i, t(i))[i] = [name |-> t(i), tex |-> t(i)] /\ t(i) \in AnyName
  <2>1. i \in Slots /\ m.binds[i] \in Binding
    BY <1>1, ElementOfSeq DEF Slots
  <2>2. i \in 1 .. Len(Resized(m.binds, i)) /\ DOMAIN Resized(m.binds, i) = 1 .. Len(Resized(m.binds, i))
    BY <2>1, ResizedIs, BindingsAre, LenProperties DEF TexModel
  <2> QED BY <2>1, <2>2 DEF SetTexture, Binding
<1>3. new \in [1 .. n -> Binding] /\ \A i \in 1 .. n : new[i].name = t(i)
  <2>1. \A i \in 1 .. n : new[i] = [name |-> t(i), tex |-> t(i)]
    BY <1>1, <1>2
  <2>2. \A i \in 1 .. n : [name |-> t(i), tex |-> t(i)] \in Binding
    BY <1>2 DEF Binding
  <2>3. new = [i \in 1 .. n |-> new[i]]
    BY <1>1
  <2> HIDE DEF new, t, n
  <2>4. \A i \in 1 .. n : new[i] \in Binding
    BY <2>1, <2>2
  <2>5. [i \in 1 .. n |-> new[i]] \in [1 .. n -> Binding]
    BY <2>4
  <2>6. ASSUME NEW i \in 1 .. n PROVE new[i].name = t(i)
    <3>1. new[i] = [name |-> t(i), tex |-> t(i)]
      BY <2>1
    <3> DEFINE x == t(i)
    <3>2. [name |-> x, tex |-> x].name = x
      OBVIOUS
    <3> QED BY <3>1, <3>2
  <2> QED BY <2>3, <2>5, <2>6
<1>4. new \in Bindings /\ Len(new) = n
  <2>1. new \in Seq(Binding)
    BY <1>1, <1>3, SeqDef
  <2>2. Len(new) = n
    BY <1>1, <1>3, <2>1, LenProperties
  <2> QED BY <1>1, <2>1, <2>2, BindingsAre
<1>5. SetModel(m) = [m EXCEPT !.binds = new,
                     !.missing = m.missing \/ \E i \in DOMAIN m.binds : m.binds[i].name # m.binds[i].tex]
  BY DEF SetModel
<1> HIDE DEF new
<1> QED BY <1>1, <1>3, <1>4, <1>5 DEF TexModel

LEMMA SetModelSound ==
  ASSUME NEW m, Sound(m)
  PROVE  Sound(SetModel(m))
<1>1. m \in TexModel /\ Kept(m)
  BY DEF Sound
<1>2. ASSUME ~SetModel(m).missing, NEW i \in Slots
      PROVE  NameAt(SetModel(m).binds, i) = NameAt(m.binds, i)
  <2>1. Len(m.binds) \in Nat
    BY <1>1, BindingsAre, LenProperties DEF TexModel
  <2> QED BY <1>1, <1>2, <2>1, SetModelIs DEF NameAt, Slots
<1> QED BY <1>1, <1>2, SetModelIs DEF Sound, Kept

\* A loaded file has a binding for each name in it; if all images were found and the
\* first name is not the one that is missing, the bindings are in the slots of the file.
LEMMA LoadedIs ==
  ASSUME NEW file \in [Slots -> Given], NEW found \in [Slots -> BOOLEAN]
  PROVE  /\ Loaded(file, found) \in Bindings
         /\ ~(file[1] = NoName /\ file[2] # NoName) =>
              \A i \in Slots :
                 /\ i <= Len(Loaded(file, found)) <=> file[i] # NoName
                 /\ (file[i] # NoName /\ found[i]) =>
                       Loaded(file, found)[i].tex = BaseName[file[i]]
<1> DEFINE bind(i) == [name |-> file[i], tex |-> IF found[i] THEN BaseName[file[i]] ELSE NoName]
           one == IF file[1] = NoName THEN <<>> ELSE <<1>>
           two == IF file[2] = NoName THEN <<>> ELSE <<2>>
           used == one \o two
<1>1. \A i \in Slots : file[i] \in AnyName
  BY BaseNameAssumption DEF Given, AnyName
<1>2. \A i \in Slots : bind(i) \in Binding
  BY <1>1, BaseNames DEF Binding, AnyName
<1>3. /\ one \in Seq(Slots) /\ two \in Seq(Slots)
      /\ Len(one) = IF file[1] = NoName THEN 0 ELSE 1
      /\ Len(two) = IF file[2] = NoName THEN 0 ELSE 1
      /\ file[1] # NoName => one[1] = 1
      /\ file[2] # NoName => two[1] = 2
  BY DEF Slots
<1> HIDE DEF one, two
<1>4. /\ used \in Seq(Slots) /\ Len(used) = Len(one) + Len(two)
      /\ \A i \in 1 .. Len(one) + Len(two) :
           used[i] = IF i <= Len(one) THEN one[i] ELSE two[i - Len(one)]
  BY <1>3, ConcatProperties
<1>5. Loaded(file, found) = [k \in 1 .. Len(used) |-> bind(used[k])]
  BY DEF Loaded, one, two
<1> HIDE DEF used
<1>6. Len(used) \in {0, 1, 2} /\ \A k \in 1 .. Len(used) : used[k] \in Slots
  BY <1>3, <1>4, ElementOfSeq
<1>7. Loaded(file, found) \in [1 .. Len(used) -> Binding]
  <2> HIDE DEF bind
  <2> QED BY <1>2, <1>5, <1>6
<1>8. Loaded(file, found) \in Seq(Binding) /\ Len(Loaded(file, found)) = Len(used)
  <2>1. Loaded(file, found) \in Seq(Binding)
    BY <1>6, <1>7, SeqDef
  <2> QED BY <1>6, <1>7, <2>1, LenProperties
<1>9. Loaded(file, found) \in Bindings
  BY <1>6, <1>8, BindingsAre
<1>10. ASSUME ~(file[1] = NoName /\ file[2] # NoName), NEW i \in Slots
       PROVE  /\ i <= Len(used) <=> file[i] # NoName
              /\ file[i] # NoName => used[i] = i /\ i \in 1 .. Len(used)
  <2>1. CASE i = 1
    BY <1>3, <1>4, <1>10, <2>1
  <2>2. CASE i = 2
    BY <1>3, <1>4, <1>10, <2>2
  <2> QED BY <2>1, <2>2 DEF Slots
<1>11. ASSUME ~(file[1] = NoName /\ file[2] # NoName), NEW i \in Slots,
              file[i] # NoName, found[i]
       PROVE  Loaded(file, found)[i].tex = BaseName[file[i]]
  <2>1. Loaded(file, found)[i] = bind(i)
    BY <1>5, <1>10, <1>11
  <2> QED BY <1>11, <2>1
<1> QED BY <1>8, <1>9, <1>10, <1>11

\* Recording a version keeps the versions before it and those alone.
LEMMA AddVersionSound ==
  ASSUME IInv, NEW m, Sound(m), AddVersion(m)
  PROVE  /\ versions' \in Seq(TexModel) /\ shown' \in 1 .. Len(versions')
         /\ \A k \in 1 .. Len(versions') : Sound(versions'[k])
<1> DEFINE old == SubSeq(versions, 1, shown)
           kept == Append(old, m)
           new == IF Len(kept) > NumBackups THEN Tail(kept) ELSE kept
<1>1. /\ versions \in Seq(TexModel) /\ shown \in 1 .. Len(versions) /\ Len(versions) \in Nat
      /\ \A k \in 1 .. Len(versions) : Sound(versions[k])
      /\ m \in TexModel
  BY LenProperties DEF IInv, Sound
<1>2. old \in Seq(TexModel) /\ Len(old) = shown /\ \A k \in 1 .. shown : old[k] = versions[k]
  <2>1. \A k \in 1 .. shown : versions[k] \in TexModel
    BY <1>1, ElementOfSeq
  <2> QED BY <1>1, <2>1, SubSeqProperties
<1>3. versions' = new /\ shown' = Len(new)
  BY DEF AddVersion
<1> HIDE DEF old
<1>4. /\ kept \in Seq(TexModel) /\ Len(kept) = shown + 1
      /\ \A k \in 1 .. shown : kept[k] = old[k]
      /\ kept[shown + 1] = m
  BY <1>1, <1>2, AppendProperties
<1>5. \A k \in 1 .. Len(kept) : Sound(kept[k])
  <2>1. \A k \in 1 .. shown : Sound(kept[k])
    BY <1>1, <1>2, <1>4
  <2> QED BY <1>1, <1>4, <2>1
<1> HIDE DEF kept
<1>6. CASE Len(kept) > NumBackups
  <2>1. kept # <<>>
    BY <1>1, <1>4, EmptySeq
  <2>2. /\ new = Tail(kept) /\ new \in Seq(TexModel) /\ Len(new) = shown
        /\ \A k \in 1 .. Len(new) : new[k] = kept[k + 1]
    BY <1>1, <1>4, <1>6, <2>1, HeadTailProperties
  <2> HIDE DEF new
  <2>3. \A k \in 1 .. Len(new) : k + 1 \in 1 .. Len(kept)
    BY <1>1, <1>4, <2>2
  <2> QED BY <1>1, <1>3, <1>5, <2>2, <2>3
<1>7. CASE ~(Len(kept) > NumBackups)
  BY <1>1, <1>3, <1>4, <1>5, <1>7
<1> QED BY <1>6, <1>7

LEMMA RecordSound ==
  ASSUME IInv, NEW m, Sound(m), Record(m)
  PROVE  IInv'
BY AddVersionSound DEF Record, IInv, Sound, Kept, NameAt

-----------------------------------------------------------------------------
LEMMA NewIsSound == Sound(NewTexModel)
<1>1. NewTexModel.binds = <<>> /\ NewTexModel.given = [i \in Slots |-> NoName]
      /\ NewTexModel.missing = FALSE
  BY DEF NewTexModel
<1>2. NewTexModel \in TexModel
  <2>1. <<>> \in Bindings
    BY DEF Bindings
  <2> QED BY <2>1 DEF NewTexModel, TexModel, AnyName
<1>3. \A i \in Slots : NameAt(<<>>, i) = NoName
  BY DEF NameAt, Slots
<1> QED BY <1>1, <1>2, <1>3 DEF Sound, Kept

LEMMA InitSound == BindingsInit => IInv
<1> SUFFICES ASSUME BindingsInit PROVE IInv
  OBVIOUS
<1>1. versions = <<NewTexModel>> /\ shown = 1 /\ model = NewTexModel /\ s3o = <<>>
  BY DEF BindingsInit
<1>2. NewTexModel \in TexModel
  BY NewIsSound DEF Sound
<1>3. versions \in Seq(TexModel) /\ Len(versions) = 1 /\ versions[1] = NewTexModel
  BY <1>1, <1>2
<1>4. \A k \in 1 .. Len(versions) : Sound(versions[k])
  BY <1>3, NewIsSound
<1> QED BY <1>1, <1>3, <1>4, NewIsSound DEF IInv

\* A model with a slot named as it was given, and nothing lost, is sound.
LEMMA GivenIsSound ==
  ASSUME NEW m, Sound(m), NEW bs \in Bindings, NEW i \in Slots, NEW name \in AnyName,
         NEW lost \in BOOLEAN, NEW g \in AnyName, m.missing => lost,
         \A j \in Slots : NameAt(bs, j) = IF j = i THEN name ELSE NameAt(m.binds, j),
         lost \/ BaseName[name] = BaseName[g]
  PROVE  Sound([m EXCEPT !.binds = bs, !.missing = lost, !.given[i] = g])
<1> DEFINE new == [m EXCEPT !.binds = bs, !.missing = lost, !.given[i] = g]
<1>1. m \in TexModel
  BY DEF Sound
<1>2. /\ new.binds = bs /\ new.missing = lost /\ new \in TexModel
      /\ \A j \in Slots : new.given[j] = IF j = i THEN g ELSE m.given[j]
  BY <1>1 DEF TexModel
<1> HIDE DEF new
<1>3. ASSUME ~lost, NEW j \in Slots
      PROVE  BaseName[NameAt(bs, j)] = BaseName[new.given[j]]
  <2>1. CASE j = i
    BY <1>2, <1>3, <2>1
  <2>2. CASE j # i
    BY <1>2, <1>3, <2>2 DEF Sound, Kept
  <2> QED BY <2>1, <2>2
<1>4. Sound(new)
  BY <1>2, <1>3 DEF Sound, Kept
<1> QED BY <1>4 DEF new

LEMMA OpenSound ==
  ASSUME IInv, NEW file \in [Slots -> Given], NEW found \in [Slots -> BOOLEAN],
         OpenS3O(file, found)
  PROVE  IInv'
<1> DEFINE miss == \/ \E i \in Slots : file[i] # NoName /\ ~found[i]
                   \/ file[1] = NoName /\ file[2] # NoName
           loaded == [binds |-> Loaded(file, found), given |-> file, missing |-> miss]
           m == SetModel(loaded)
           new == [m EXCEPT !.missing = miss]
<1>1. Record(new)
  BY DEF OpenS3O
<1>2. /\ loaded \in TexModel /\ loaded.binds = Loaded(file, found) /\ loaded.given = file
      /\ miss \in BOOLEAN
  BY LoadedIs, BaseNameAssumption DEF TexModel, Given, AnyName
<1> HIDE DEF loaded
<1>3. /\ m \in TexModel /\ m.given = file /\ Len(m.binds) = Len(Loaded(file, found))
      /\ \A i \in 1 .. Len(m.binds) : m.binds[i].name = Loaded(file, found)[i].tex
  BY <1>2, SetModelIs
<1>4. Len(m.binds) \in Nat
  BY <1>3, BindingsAre, LenProperties DEF TexModel
<1> HIDE DEF m
<1>5. /\ new \in TexModel /\ new.binds = m.binds /\ new.given = file
      /\ new.missing <=> miss
  BY <1>2, <1>3 DEF TexModel
<1>6. ASSUME ~miss, NEW i \in Slots
      PROVE  BaseName[NameAt(m.binds, i)] = BaseName[file[i]]
  <2>1. i <= Len(m.binds) <=> file[i] # NoName
    BY <1>3, <1>6, LoadedIs
  <2>2. CASE file[i] = NoName
    BY <2>1, <2>2 DEF NameAt
  <2>3. CASE file[i] # NoName
    <3>1. Loaded(file, found)[i].tex = BaseName[file[i]]
      BY <1>6, <2>3, LoadedIs
    <3>2. i \in 1 .. Len(m.binds)
      BY <1>4, <2>1, <2>3 DEF Slots
    <3>3. NameAt(m.binds, i) = BaseName[file[i]]
      BY <1>3, <3>1, <3>2 DEF NameAt
    <3>4. file[i] \in AnyName
      BY BaseNameAssumption DEF Given, AnyName
    <3> QED BY <3>3, <3>4, BaseNames
  <2> QED BY <2>2, <2>3
<1> HIDE DEF new, miss
<1>7. Sound(new)
  BY <1>5, <1>6 DEF Sound, Kept
<1> QED BY <1>1, <1>7, RecordSound

LEMMA TypeNameSound ==
  ASSUME IInv, NEW i \in Slots, NEW name \in Given, TypeName(i, name)
  PROVE  IInv'
<1> DEFINE bs == SetTextureName(model.binds, i, name)
           new == [model EXCEPT !.binds = bs, !.missing = model.missing, !.given[i] = name]
<1>1. Sound(model) /\ model \in TexModel /\ model.binds \in Bindings
      /\ model.missing \in BOOLEAN /\ name \in AnyName
  BY BaseNameAssumption DEF IInv, Sound, TexModel, Given, AnyName
<1>2. bs \in Bindings
      /\ \A j \in Slots : NameAt(bs, j) = IF j = i THEN name ELSE NameAt(model.binds, j)
  BY <1>1, SetTextureNameIs
<1>3. model' = new
  BY <1>1 DEF TypeName, TexModel
<1> HIDE DEF bs
<1>4. Sound(new)
  BY <1>1, <1>2, GivenIsSound
<1> HIDE DEF new
<1> QED BY <1>3, <1>4 DEF TypeName, IInv, Sound, Kept, NameAt

LEMMA BrowseSound ==
  ASSUME IInv, NEW i \in Slots, NEW name \in AnyName,
         Record([model EXCEPT !.binds = SetTexture(@, i, name), !.given[i] = name])
  PROVE  IInv'
<1> DEFINE bs == SetTexture(model.binds, i, name)
           new == [model EXCEPT !.binds = bs, !.missing = model.missing, !.given[i] = name]
<1>1. Sound(model) /\ model \in TexModel /\ model.binds \in Bindings
      /\ model.missing \in BOOLEAN
  BY DEF IInv, Sound, TexModel
<1>2. bs \in Bindings
      /\ \A j \in Slots : NameAt(bs, j) = IF j = i THEN name ELSE NameAt(model.binds, j)
  BY <1>1, SetTextureIs
<1>3. Record(new)
  <2>1. new = [model EXCEPT !.binds = SetTexture(@, i, name), !.given[i] = name]
    BY <1>1 DEF TexModel
  <2> QED BY <2>1
<1> HIDE DEF bs
<1>4. Sound(new)
  BY <1>1, <1>2, GivenIsSound
<1> HIDE DEF new
<1> QED BY <1>3, <1>4, RecordSound

LEMMA ReloadSound ==
  ASSUME IInv, NEW i \in Slots, NEW found \in BOOLEAN, ReloadTexture(i, found)
  PROVE  IInv'
<1> DEFINE rs == Resized(model.binds, i)
           name == rs[i].name
           tex == IF found THEN BaseName[name] ELSE NoName
           lost == model.missing \/ (name # NoName /\ ~found)
           bs == SetTexture(rs, i, tex)
           new == [model EXCEPT !.binds = bs, !.missing = lost, !.given[i] = model.given[i]]
<1>1. /\ Sound(model) /\ model \in TexModel /\ model.binds \in Bindings
      /\ model.missing \in BOOLEAN /\ model.given \in [Slots -> AnyName]
  BY DEF IInv, Sound, TexModel
<1>2. /\ rs \in Bindings /\ i \in 1 .. Len(rs)
      /\ \A j \in Slots : NameAt(rs, j) = NameAt(model.binds, j)
  BY <1>1, ResizedIs
<1>3. name = NameAt(model.binds, i) /\ name \in AnyName
  <2>1. rs \in Seq(Binding)
    BY <1>2, BindingsAre
  <2>2. rs[i] \in Binding
    BY <1>2, <2>1, ElementOfSeq
  <2>3. NameAt(rs, i) = name
    BY <1>2, <2>1, LenProperties DEF NameAt
  <2> QED BY <1>2, <2>2, <2>3 DEF Binding
<1> HIDE DEF name
<1>4. tex \in AnyName /\ lost \in BOOLEAN /\ (model.missing => lost)
      /\ (lost \/ BaseName[tex] = BaseName[model.given[i]])
  <2>1. tex \in AnyName
    BY <1>3, BaseNames DEF AnyName
  <2>2. ASSUME ~lost PROVE BaseName[tex] = BaseName[model.given[i]]
    <3>1. BaseName[name] = BaseName[model.given[i]]
      BY <1>1, <1>3, <2>2 DEF Sound, Kept
    <3> QED BY <1>3, <2>2, <3>1, BaseNames
  <2>3. lost \in BOOLEAN
    BY <1>1
  <2> QED BY <2>1, <2>2, <2>3
<1>5. Record(new)
  <2>1. new = [model EXCEPT !.binds = bs, !.missing = lost]
    BY <1>1 DEF TexModel
  <2>2. Record([model EXCEPT !.binds = bs, !.missing = lost])
    BY DEF ReloadTexture, name
  <2> QED BY <2>1, <2>2
<1>6. bs \in Bindings
      /\ \A j \in Slots : NameAt(bs, j) = IF j = i THEN tex ELSE NameAt(model.binds, j)
  BY <1>2, <1>4, SetTextureIs
<1> HIDE DEF bs, tex, lost, rs
<1>7. Sound(new)
  BY <1>1, <1>4, <1>6, GivenIsSound
<1> HIDE DEF new
<1> QED BY <1>5, <1>7, RecordSound

\* Undo and redo show a version, which loses no name unless it counts it as lost.
LEMMA ShowSound ==
  ASSUME IInv, NEW k \in 1 .. Len(versions), ShowVersion(k)
  PROVE  IInv'
<1>1. Sound(versions[k])
  BY DEF IInv
<1>2. Sound(SetModel(versions[k]))
  BY <1>1, SetModelSound
<1>3. model' = SetModel(versions[k]) /\ shown' = k /\ UNCHANGED <<versions, s3o>>
  BY DEF ShowVersion
<1> QED BY <1>2, <1>3 DEF IInv, Sound, Kept, NameAt

LEMMA SaveSound ==
  ASSUME IInv, SaveS3O
  PROVE  /\ IInv'
         /\ \A i \in Slots : s3o'[i] = NameAt(model.binds, i)
<1>1. model.binds \in Bindings /\ UNCHANGED <<model, versions, shown>>
  BY DEF SaveS3O, IInv, Sound, TexModel
<1>2. ASSUME NEW i \in Slots PROVE NameAt(model.binds, i) \in AnyName
  <2>1. CASE i <= Len(model.binds)
    <3>1. model.binds \in Seq(Binding) /\ i \in 1 .. Len(model.binds)
      BY <1>1, <2>1, BindingsAre DEF Slots
    <3>2. model.binds[i] \in Binding
      BY <3>1, ElementOfSeq
    <3> QED BY <2>1, <3>2 DEF NameAt, Binding
  <2>2. CASE ~(i <= Len(model.binds))
    BY <2>2 DEF NameAt, AnyName
  <2> QED BY <2>1, <2>2
<1>3. s3o' = [i \in Slots |-> NameAt(model.binds, i)]
  BY DEF SaveS3O, NameAt
<1>4. s3o' \in [Slots -> AnyName]
  BY <1>2, <1>3
<1> QED BY <1>1, <1>3, <1>4 DEF IInv, Sound, Kept, NameAt

LEMMA Steps == IInv /\ [BindingsNext]_bvars => IInv'
<1> SUFFICES ASSUME IInv, [BindingsNext]_bvars PROVE IInv'
  OBVIOUS
<1>1. CASE NewS3O
  BY <1>1, NewIsSound, RecordSound DEF NewS3O
<1>2. ASSUME NEW file \in [Slots -> Given], NEW found \in [Slots -> BOOLEAN],
             OpenS3O(file, found)
      PROVE  IInv'
  BY <1>2, OpenSound
<1>3. CASE SaveS3O
  BY <1>3, SaveSound
<1>4. ASSUME NEW i \in Slots, NEW name \in Given, TypeName(i, name)
      PROVE  IInv'
  BY <1>4, TypeNameSound
<1>5. ASSUME NEW i \in Slots, NEW name \in Files, BrowseForTexture(i, name)
      PROVE  IInv'
  <2>1. BaseName[name] \in AnyName
    BY BaseNameAssumption, BaseNames DEF AnyName
  <2> QED BY <1>5, <2>1, BrowseSound DEF BrowseForTexture
<1>6. ASSUME NEW i \in Slots, NEW found \in BOOLEAN, ReloadTexture(i, found)
      PROVE  IInv'
  BY <1>6, ReloadSound
<1>7. CASE ConvertToS3O
  <2>1. Converted \in AnyName /\ 1 \in Slots
    BY BaseNameAssumption DEF AnyName, Slots
  <2> QED BY <1>7, <2>1, BrowseSound DEF ConvertToS3O
<1>8. CASE OtherCommand
  BY <1>8, RecordSound DEF OtherCommand, IInv
<1>9. CASE UndoS3O
  <2>1. shown - 1 \in 1 .. Len(versions)
    BY <1>9, LenProperties DEF UndoS3O, IInv
  <2> QED BY <1>9, <2>1, ShowSound DEF UndoS3O
<1>10. CASE RedoS3O
  <2>1. shown + 1 \in 1 .. Len(versions)
    BY <1>10, LenProperties DEF RedoS3O, IInv
  <2> QED BY <1>10, <2>1, ShowSound DEF RedoS3O
<1>11. CASE UNCHANGED bvars
  BY <1>11 DEF bvars, IInv, Sound, Kept, NameAt
<1> QED
  BY <1>1, <1>2, <1>3, <1>4, <1>5, <1>6, <1>7, <1>8, <1>9, <1>10, <1>11 DEF BindingsNext

\* The inductive invariant holds: the model under edit and every version in the undo
\* buffer has lost a name knowingly, or has the names it was given (Model::texBindings).
THEOREM Invariance == BindingsSpec => []IInv
<1> QED BY InitSound, Steps, PTL DEF BindingsSpec

\* Types, and a position that designates a version, for any size of the undo buffer.
THEOREM TypeCorrect == BindingsSpec => []BindingsTypeOK
<1>1. IInv => BindingsTypeOK
  <2> SUFFICES ASSUME IInv PROVE BindingsTypeOK
    OBVIOUS
  <2>1. DOMAIN versions = 1 .. Len(versions) /\ versions # <<>>
    BY LenProperties, EmptySeq DEF IInv
  <2> QED BY <2>1 DEF IInv, BindingsTypeOK, Sound
<1> QED BY <1>1, Invariance, PTL

\* What SaveS3O writes are the names that were given, whatever was opened, loaded,
\* undone and redone since, as long as nothing was missing.
THEOREM SavedNamesAreGiven == BindingsSpec => GivenNamesAreSaved
<1>1. IInv => [(SaveS3O /\ ~model.missing) =>
                 \A i \in Slots : BaseName[s3o'[i]] = BaseName[model.given[i]]]_bvars
  BY SaveSound DEF IInv, Sound, Kept
<1> QED BY <1>1, Invariance, PTL DEF GivenNamesAreSaved

=============================================================================

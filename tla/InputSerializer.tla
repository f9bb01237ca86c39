--------------------------- MODULE InputSerializer ---------------------------
(***************************************************************************)
(* CInputStreamSerializer of creg/Serializer.cpp: LoadPackage creates all  *)
(* objects that are not embedded, then reads the fields of each in the     *)
(* order of the table, directed by the metadata of the classes of the      *)
(* program that loads, and so finds the end of one object and the start of *)
(* the next.  Nothing in the stream separates them.                        *)
(*                                                                         *)
(* A version of the program is a function from the classes it knows to     *)
(* their members, sequences of [name, kind, class, twos], the last one     *)
(* being the factors of two in what the name multiplies the checksum by.   *)
(* A vector is a member of kind "ptrs" or "insts", and its length is in    *)
(* the stream.  A loaded instance is <<id>> when LoadPackage created it    *)
(* and Append(owner, position) when it is inside another one, so that      *)
(* paths here and in the memory that was saved correspond.                 *)
(***************************************************************************)
EXTENDS Naturals, Sequences, SequencesExt

CONSTANTS
    Versions,    \* the programs that may load the package
    Layout       \* the version that saved it

(* What the members of a class may be, and that the class of an object     *)
(* inside another one is known where the class around it is.               *)
MemberKinds == {"data", "ptr", "inst", "ptrs", "insts"}

ASSUME VersionsAssumption ==
    \A v \in Versions : \A c \in DOMAIN v :
        /\ DOMAIN v[c] = 1 .. Len(v[c]) /\ Len(v[c]) \in Nat
        /\ \A i \in DOMAIN v[c] :
             /\ v[c][i].kind \in MemberKinds
             /\ v[c][i].kind \in {"inst", "insts"} => v[c][i].class \in DOMAIN v

VARIABLES
    loading,     \* "idle", "reading", "loaded", "failed", "garbled"
    version,     \* the program that loads
    input,       \* the tokens that are not read yet
    table,       \* objects: [obj, isEmbedded, class]
    nextObj,     \* the index of the loop over the table
    rtodo,       \* the members still to be read by the calls under way
    ins,         \* the instances: path -> [class, fields]
    unfixed      \* unfixedPointers: [owner, pos, id]

lvars == <<loading, version, input, table, nextObj, rtodo, ins, unfixed>>

NoObj == <<>>

LoadInit ==
    /\ loading = "idle"
    /\ version = Layout
    /\ input = <<>>
    /\ table = <<>>
    /\ nextObj = 1
    /\ rtodo = <<>>
    /\ ins = <<>>
    /\ unfixed = <<>>

(* Class::CalculateChecksum goes over the names of the members, not their  *)
(* types: the n-th character is added in and the sum multiplied by n.      *)
(* Each factor of two pushes a bit of what was summed up before out of the *)
(* 32 bits there are, so that a name leaves no trace once the names after  *)
(* it have 32 of them.  The sum is the names that left one, with the bits  *)
(* they have left; sums of other names that come out equal are left out.   *)
AddMember(sum, m) ==
    LET left == SelectSeq(sum, LAMBDA s : s.bits > m.twos)
    IN  Append([i \in DOMAIN left |-> [left[i] EXCEPT !.bits = @ - m.twos]],
               [name |-> m.name, bits |-> 32])

Checksum(v, refs) == FoldLeft(AddMember, <<>>, FlattenSeq([k \in DOMAIN refs |-> v[refs[k]]]))

(* The reasons for which LoadPackage throws.                               *)
Refuses(v, f) ==
    \/ ~f.header
    \/ ~(Range(f.classRefs) \subseteq DOMAIN v)
    \/ Checksum(v, f.classRefs) # Checksum(Layout, f.classRefs)

(* LoadPackage up to its loop: all objects that are not embedded are       *)
(* created, empty.                                                         *)
OpenPackage(f) ==
    /\ loading = "idle"
    /\ version' \in Versions
    /\ IF Refuses(version', f)
       THEN /\ loading' = "failed"
            /\ UNCHANGED <<input, table, ins>>
       ELSE /\ loading' = "reading"
            /\ input' = f.stream
            /\ table' = [n \in DOMAIN f.table |->
                            [obj |-> IF f.table[n].isEmbedded THEN NoObj ELSE <<n>>,
                             isEmbedded |-> f.table[n].isEmbedded,
                             class |-> f.table[n].class]]
            /\ ins' = [p \in {<<n>> : n \in {m \in DOMAIN f.table : ~f.table[m].isEmbedded}} |->
                          [class |-> f.table[p[1]].class, fields |-> <<>>]]
    /\ UNCHANGED <<nextObj, rtodo, unfixed>>

(* Class::SerializeInstance: the members of a class, to be read into the   *)
(* instance dest.                                                          *)
Members(c, dest) ==
    [i \in DOMAIN version[c] |->
        [kind |-> version[c][i].kind, class |-> version[c][i].class, dest |-> dest]]

(* The loop over the table skips what is embedded.                         *)
ReadObject ==
    /\ loading = "reading"
    /\ rtodo = <<>>
    /\ nextObj <= Len(table)
    /\ rtodo' = IF table[nextObj].isEmbedded THEN <<>>
                ELSE Members(table[nextObj].class, table[nextObj].obj)
    /\ nextObj' = nextObj + 1
    /\ UNCHANGED <<loading, version, input, table, ins, unfixed>>

-----------------------------------------------------------------------------
(* Whether the next member is of one of these kinds, and what the stream   *)
(* holds for it.  A token of another kind means that the bytes are taken   *)
(* for something they are not, after which anything may happen.            *)
AtMember(kinds) ==
    /\ loading = "reading"
    /\ rtodo # <<>>
    /\ Head(rtodo).kind \in kinds

Expected(kind) == input # <<>> /\ Head(input).kind = kind

Dest == Head(rtodo).dest

(* A field is read into its place.                                         *)
Put(field) == [ins EXCEPT ![Dest].fields = Append(@, field)]

ReadData ==
    /\ AtMember({"data"})
    /\ Expected("data")
    /\ ins' = Put(Head(input))
    /\ input' = Tail(input)
    /\ rtodo' = Tail(rtodo)
    /\ UNCHANGED <<loading, version, table, nextObj, unfixed>>

(* DynamicArrayType::Serialize resizes the vector to the length it reads   *)
(* and then reads that many elements.                                      *)
ReadVector ==
    /\ AtMember({"ptrs", "insts"})
    /\ Expected("len")
    /\ LET element == [Head(rtodo) EXCEPT !.kind = IF @ = "ptrs" THEN "ptr" ELSE "inst"]
       IN  rtodo' = [i \in 1 .. Head(input).val |-> element] \o Tail(rtodo)
    /\ ins' = Put(Head(input))
    /\ input' = Tail(input)
    /\ UNCHANGED <<loading, version, table, nextObj, unfixed>>

(* SerializeObjectPtr: a pointer to an object that does not exist yet is   *)
(* left for later.                                                         *)
ReadPtr ==
    /\ AtMember({"ptr"})
    /\ Expected("ptr")
    /\ LET n == Head(input).val
           obj == IF n = 0 THEN NoObj ELSE table[n].obj
       IN  /\ n <= Len(table)
           /\ ins' = Put([kind |-> "ptr", val |-> obj])
           /\ unfixed' = IF n # 0 /\ obj = NoObj
                         THEN Append(unfixed, [owner |-> Dest, id |-> n,
                                               pos |-> Len(ins[Dest].fields) + 1])
                         ELSE unfixed
    /\ input' = Tail(input)
    /\ rtodo' = Tail(rtodo)
    /\ UNCHANGED <<loading, version, table, nextObj>>

(* SerializeObjectInstance: the object inside another one becomes known    *)
(* under the id it was saved with.  The two conditions on it are asserted. *)
ReadInstance ==
    /\ AtMember({"inst"})
    /\ Expected("inst")
    /\ LET n == Head(input).val
           here == Append(Dest, Len(ins[Dest].fields) + 1)
           c == Head(rtodo).class
       IN  /\ n <= Len(table)
           /\ table[n].obj = NoObj
           /\ table[n].isEmbedded
           /\ table' = [table EXCEPT ![n].obj = here]
           /\ ins' = [p \in DOMAIN ins \union {here} |->
                         IF p = here THEN [class |-> c, fields |-> <<>>]
                         ELSE Put([kind |-> "inst", val |-> here])[p]]
           /\ rtodo' = Members(c, here) \o Tail(rtodo)
    /\ input' = Tail(input)
    /\ UNCHANGED <<loading, version, nextObj, unfixed>>

ReadMember == ReadData \/ ReadVector \/ ReadPtr \/ ReadInstance

(* What none of the four can read.                                         *)
Garble ==
    /\ loading = "reading"
    /\ rtodo # <<>>
    /\ ~ENABLED ReadMember
    /\ loading' = "garbled"
    /\ UNCHANGED <<version, input, table, nextObj, rtodo, ins, unfixed>>

-----------------------------------------------------------------------------
(* The value a pointer field gets when the pointers to embedded objects    *)
(* are fixed.                                                              *)
Fixed(p, i) ==
    LET late == {u \in DOMAIN unfixed : unfixed[u].owner = p /\ unfixed[u].pos = i}
    IN  IF late = {} THEN ins[p].fields[i]
        ELSE [kind |-> "ptr", val |-> table[unfixed[CHOOSE u \in late : TRUE].id].obj]

(* The end of LoadPackage: what is left in the stream is not looked at.    *)
FinishLoad ==
    /\ loading = "reading"
    /\ rtodo = <<>>
    /\ nextObj > Len(table)
    /\ ins' = [p \in DOMAIN ins |->
                  [ins[p] EXCEPT !.fields = [i \in DOMAIN @ |-> Fixed(p, i)]]]
    /\ loading' = "loaded"
    /\ UNCHANGED <<version, input, table, nextObj, rtodo, unfixed>>

LoadStep == ReadObject \/ ReadMember \/ Garble \/ FinishLoad

=============================================================================

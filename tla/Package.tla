------------------------------ MODULE Package ------------------------------
(***************************************************************************)
(* Saving a model to an OPK file and loading the file again, perhaps with  *)
(* another version of the editor, perhaps after a save that never ended:   *)
(* Model::SaveOPK and Model::LoadOPK, composed of the two serializers.     *)
(***************************************************************************)
EXTENDS OutputSerializer, InputSerializer

vars == <<svars, lvars>>

Init == SaveInit /\ LoadInit

Save == SaveStep /\ UNCHANGED lvars

Cut == CutSave /\ UNCHANGED lvars

(* Model::LoadOPK.                                                         *)
LoadOPK == saving # "saving" /\ OpenPackage(file) /\ UNCHANGED svars

Load == LoadStep /\ UNCHANGED svars

Next == Save \/ Cut \/ LoadOPK \/ Load

(* Both calls are loops that nothing interrupts.  A user need not load.    *)
Spec == Init /\ [][Next]_vars /\ WF_vars(Save) /\ WF_vars(Load)

-----------------------------------------------------------------------------
Kinds == {"data", "len", "ptr", "inst"}

(* Types of the two serializers.                                           *)
TypeOK ==
    /\ saving \in {"saving", "saved", "cut"}
    /\ loading \in {"idle", "reading", "loaded", "failed", "garbled"}
    /\ \A a \in DOMAIN ptrToID : ptrToID[a].id \in DOMAIN objects
    /\ \A n \in DOMAIN objects : objects[n] \in DOMAIN ptrToID
    /\ \A t \in Range(stream) : t.kind \in Kinds
    /\ \A p \in DOMAIN ins : ins[p].class \in DOMAIN version
    /\ \A u \in Range(unfixed) : u.owner \in DOMAIN ins /\ u.id \in DOMAIN table
    /\ nextObj \in 1 .. Len(table) + 1

(* The loaded instance that stands for a saved one: the n-th object that   *)
(* was written is the n-th one in the table that is not embedded, and the  *)
(* place of a member in its owner stays.                                   *)
Image(p) ==
    LET w == CHOOSE i \in DOMAIN written : written[i] = <<p[1]>>
        own == {n \in DOMAIN table : ~table[n].isEmbedded}
        n == CHOOSE m \in own : Len(SelectSeq([k \in 1 .. m |-> ~table[k].isEmbedded],
                                              LAMBDA e : e)) = w
    IN  <<n>> \o Tail(p)

(* A package loaded by the version that saved it gives back the model:     *)
(* every object once, of its class, with its data, and with every pointer  *)
(* to the copy of what it pointed to.  In particular the file is not       *)
(* refused and the reader never loses its place in the stream.             *)
LoadedIsSaved ==
    version = Layout =>
      /\ loading # "garbled"
      /\ loading = "failed" => saving = "cut"
      /\ loading = "loaded" =>
           /\ input = <<>>
           /\ table[1].obj = Image(Root)
           /\ DOMAIN ins = {Image(p) : p \in DOMAIN heap}
           /\ \A p \in DOMAIN heap :
                LET was == heap[p]
                    is == ins[Image(p)]
                IN  /\ is.class = was.class
                    /\ DOMAIN is.fields = DOMAIN was.fields
                    /\ \A i \in DOMAIN was.fields :
                         /\ is.fields[i].kind = was.fields[i].kind
                         /\ is.fields[i].val =
                              IF was.fields[i].kind \in {"ptr", "inst"} /\ was.fields[i].val # Null
                              THEN Image(was.fields[i].val)
                              ELSE was.fields[i].val

(* The header goes out last, so that nothing is ever read from the file of *)
(* a save that did not end.                                                *)
UnfinishedIsRefused == saving = "cut" => loading \in {"idle", "failed"}

(* Both calls end, although the pointers between the objects form cycles   *)
(* (childs and parent) and the file of another version may be garbage.     *)
CallsEnd ==
    /\ <>(saving # "saving")
    /\ (loading = "reading") ~> (loading \in {"loaded", "garbled"})

=============================================================================

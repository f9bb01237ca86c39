------------------------------ MODULE MCPackage ------------------------------
EXTENDS Package, ModelClasses

ModelRoot == <<"model">>

(* Models with up to three objects and one vertex in a mesh, and smaller   *)
(* ones with more vertices and texture bindings.                           *)
Models ==
    ModelsOf(<<>>, 0, 2) \union ModelsOf(<<"o1">>, 2, 1)
    \union ModelsOf(<<"o1", "o2">>, 1, 0) \union ModelsOf(<<"o1", "o2", "o3">>, 1, 0)

(* Versions of the editor that may load the file.  The first member of    *)
(* MdlObject, and a class before MdlObject, leave no trace in the checksum.*)
OtherVersions ==
    {ModelLayout, WithLast("MdlObject"), WithFirst("MdlObject"), WithLast("Vector3"),
     WithLast("Vertex"), Without("PolyMesh")}

Orders ==
    LET first == <<"Model", "MdlObject", "PolyMesh", "TextureBinding", "Vertex", "Vector3">>
    IN  {SelectSeq(order, LAMBDA c : c \in S) :
            order \in {first, Reverse(first)}, S \in SUBSET Range(first)}

=============================================================================

---------------------------- MODULE ModelClasses ----------------------------
(***************************************************************************)
(* The classes that a saved model is made of, with one member of every     *)
(* kind that Model.cpp registers for them, and the memory of the models    *)
(* that the editor builds from them.                                       *)
(***************************************************************************)
EXTENDS Naturals, Sequences, FiniteSets, Functions, SequencesExt

Member(n, k, c, t) == [name |-> n, kind |-> k, class |-> c, twos |-> t]

Plain(n, t) == Member(n, "data", "none", t)

(* The metadata: the members in the order in which they are registered.  A *)
(* name of n characters multiplies the checksum by the factorial of n, and *)
(* the factors of two of members that are left out are with the one that   *)
(* stands for them (rotation and scale with position, isSelected and       *)
(* isOpen with name, ikInfo and animInfo with parent, and so on).          *)
ModelLayout ==
    [ Model          |-> << Member("texBindings", "insts", "TextureBinding", 21),
                            Member("root", "ptr", "MdlObject", 3) >>,
      MdlObject      |-> << Member("childs", "ptrs", "MdlObject", 4),
                            Member("geometry", "ptr", "PolyMesh", 7),
                            Member("position", "inst", "Vector3", 17),
                            Plain("name", 15),
                            Member("parent", "ptr", "MdlObject", 15) >>,
      PolyMesh       |-> << Member("verts", "insts", "Vertex", 6) >>,
      Vertex         |-> << Member("pos", "inst", "Vector3", 5), Plain("tc", 1) >>,
      Vector3        |-> << Plain("x", 0) >>,
      TextureBinding |-> << Plain("name", 7) >> ]

-----------------------------------------------------------------------------
(* Fields of instances.                                                    *)
Length(n) == [kind |-> "len", val |-> n]
Datum(v)  == [kind |-> "data", val |-> v]
Ref(p)    == [kind |-> "ptr", val |-> p]
Inside(p) == [kind |-> "inst", val |-> p]

Instance(c, a, f) == [class |-> c, at |-> a, fields |-> f]

(* Rotation, scale and most plain members are left out; a point is the     *)
(* name of what it belongs to, so that no two are equal.                   *)
Vector(p, a) == p :> Instance("Vector3", a, <<Datum(p)>>)

(* The pointer to something that may not be there.                         *)
RefOrNull(exists, p) == Ref(IF exists THEN p ELSE <<>>)

(* A vertex is a structure without virtual functions, and its position is  *)
(* its first member: both have one address.                                *)
VertexAt(p) ==
    LET pos == Append(p, 1)
    IN  p :> Instance("Vertex", p, <<Inside(pos), Datum(p)>>) @@ Vector(pos, p)

Join(S, f(_)) == [x \in UNION {DOMAIN f(s) : s \in S} |->
                    f(CHOOSE s \in S : x \in DOMAIN f(s))[x]]

(* A mesh with its vertices.                                               *)
Mesh(m, nverts) ==
    LET vert(i) == VertexAt(<<m, i + 1>>)
    IN  <<m>> :> Instance("PolyMesh", <<m>>,
                    <<Length(nverts)>> \o [i \in 1 .. nverts |-> Inside(<<m, i + 1>>)])
        @@ Join(1 .. nverts, vert)

(* The position of an object is after its childs and its geometry.         *)
Object(o, childs, mesh, hasMesh, parent, hasParent) ==
    LET pos == <<o, Len(childs) + 3>>
    IN  <<o>> :> Instance("MdlObject", <<o>>,
                    <<Length(Len(childs))>>
                    \o [i \in DOMAIN childs |-> Ref(<<childs[i]>>)]
                    \o <<RefOrNull(hasMesh, <<mesh>>), Inside(pos), Datum(<<o>>),
                         RefOrNull(hasParent, <<parent>>)>>)
        @@ Vector(pos, pos)

(* The model itself, with its texture bindings and the root object.        *)
ModelInstance(ntex, root, hasRoot) ==
    LET tex(i) == <<"model", i + 1>> :> Instance("TextureBinding", <<"model", i + 1>>,
                                                 <<Datum(<<"tex", i>>)>>)
    IN  <<"model">> :> Instance("Model", <<"model">>,
                    <<Length(ntex)>> \o [i \in 1 .. ntex |-> Inside(<<"model", i + 1>>)]
                    \o <<RefOrNull(hasRoot, <<root>>)>>)
        @@ Join(1 .. ntex, tex)

(* A model: its objects, the parent of each one but the first, the number  *)
(* of vertices of their meshes (none for an object without a mesh), and    *)
(* the number of texture bindings.                                         *)
ModelHeap(objs, parent, verts, ntex) ==
    LET mesh(o) == "mesh of " \o o
        childs(o) == SelectSeq(objs, LAMBDA c : c \in DOMAIN parent /\ parent[c] = o)
        object(o) == Object(o, childs(o), mesh(o), o \in DOMAIN verts,
                            IF o \in DOMAIN parent THEN parent[o] ELSE o, o \in DOMAIN parent)
        geometry(o) == Mesh(mesh(o), verts[o])
    IN  ModelInstance(ntex, IF objs = <<>> THEN "none" ELSE objs[1], objs # <<>>)
        @@ Join(Range(objs), object)
        @@ Join(DOMAIN verts, geometry)

(* The trees over the objects of a sequence: the parent of an object comes *)
(* before it.                                                              *)
Trees(objs) ==
    {t \in [Range(Tail(objs)) -> Range(objs)] :
        \A i, j \in DOMAIN objs : objs[i] \in DOMAIN t /\ t[objs[i]] = objs[j] => j < i}

(* Models of the objects of a sequence and their meshes.                   *)
ModelsOf(objs, maxVerts, maxTex) ==
    LET trees == IF objs = <<>> THEN {<<>>} ELSE Trees(objs)
        meshes == UNION {[S -> 0 .. maxVerts] : S \in SUBSET Range(objs)}
    IN  {ModelHeap(objs, t, v, n) : t \in trees, v \in meshes, n \in 0 .. maxTex}

(* The same program with a member more at the end or the start of a class, *)
(* or without the class.                                                   *)
Added == Plain("added", 3)

WithLast(c) == [ModelLayout EXCEPT ![c] = Append(@, Added)]

WithFirst(c) == [ModelLayout EXCEPT ![c] = <<Added>> \o @]

Without(c) == Restrict(ModelLayout, DOMAIN ModelLayout \ {c})

=============================================================================

--------------------------- MODULE PackageProofs ---------------------------
(***************************************************************************)
(* Theorems about Generator that compare the package with the document it  *)
(* was made from: what the declarations keep of their schemas, and so what *)
(* is sent is without read-only properties and under the right tag, and    *)
(* what is received is decoded as what it is, and whole.                   *)
(***************************************************************************)
EXTENDS GeneratorProofs

----------------------------------------------------------------------------
(* What the declarations have to do with the document.                     *)

\* The properties that a struct has a field for, or stands for with its tag.
Kept(e) ==
    DOMAIN e.fields \cup
        (IF phase \in {"declare", "unions"} \/ e.dispatch = None THEN {}
         ELSE {e.dispatch.property})

Props(s) == doc.schemas[s].props

\* The struct of an object has its properties, as they are described.
OfObject(s, e) ==
    doc.schemas[s].kind = "object" =>
        /\ e.kind = "struct"
        /\ DOMAIN e.fields \subseteq DOMAIN Props(s)
        /\ DOMAIN Props(s) \subseteq Kept(e)
        /\ \A p \in DOMAIN e.fields :
              /\ e.fields[p].type = TypeOf(Props(s)[p].type)
              /\ e.fields[p].required = Props(s)[p].required
              /\ e.fields[p].readOnly = Props(s)[p].readOnly

\* The merged struct of a union has the properties of its members, and requires
\* none of them.
OfMerged(s, e) ==
    (doc.schemas[s].kind = "union" /\ e.kind = "struct") =>
        LET u == doc.schemas[s]
        IN  /\ RequiredOf(e) = {}
            /\ u.mapping # <<>> =>
                  \A i \in DOMAIN u.mapping : DOMAIN Props(u.mapping[i].schema) \subseteq Kept(e)
            /\ (u.mapping = <<>> /\ SameNames(s)) =>
                  \A i \in Branches(s) : DOMAIN Props(Branch(s, i)) \subseteq Kept(e)

\* An interface has the variants of its union: under the tags of the mapping, or
\* objects with the keys that only they require.
OfInterface(s, e) ==
    e.kind = "interface" =>
        LET u == doc.schemas[s]
        IN  /\ u.kind = "union"
            /\ u.mapping # <<>> =>
                  /\ e.property = u.property /\ u.property # None
                  /\ DOMAIN e.variants = DOMAIN u.mapping
                  /\ \A i \in DOMAIN u.mapping :
                        /\ e.variants[i].goName = doc.goName[u.mapping[i].schema]
                        /\ e.variants[i].tag = u.mapping[i].tag
            /\ u.mapping = <<>> =>
                  /\ e.property = None
                  /\ DOMAIN e.variants = Branches(s)
                  /\ \A i \in Branches(s) :
                        /\ e.variants[i].goName = doc.goName[Branch(s, i)]
                        /\ doc.schemas[Branch(s, i)].kind = "object"
                        /\ e.variants[i].probe = RequiredBy(Branch(s, i)) \ RequiredByOthers(s, i)
                        /\ e.variants[i].probe # {}

Describes(s, e) ==
    /\ doc.schemas[s].kind \in {"object", "union"}
    /\ OfObject(s, e) /\ OfMerged(s, e) /\ OfInterface(s, e)

\* Every declaration named after a schema is that schema's.
Mirrored ==
    UniqueNames =>
        \A s \in Spec : doc.goName[s] \in DOMAIN decls => Describes(s, decls[doc.goName[s]])

\* Every object the builder has come to is declared.
Declared ==
    \A i \in DOMAIN doc.order :
        LET s == doc.order[i]
        IN  (doc.schemas[s].kind = "object" /\ (phase = "declare" => i < next)) =>
                doc.goName[s] \in DOMAIN decls

\* Bodies go by the names of their schemas until the clones are made; then those
\* that are replies as well have no field that is read-only.
SharedBody(s) == s # None /\ doc.schemas[s].kind = "object" /\ \E o \in Op : doc.reply[o] = s

Stripped ==
    /\ phase \in {"unions", "readOnly"} => \A o \in Op : body[o] = TypeOf(doc.body[o])
    /\ phase # "declare" => \A o \in Op : doc.body[o] = None => body[o] = None
    /\ (phase \in {"promote", "generated"} /\ UniqueNames) =>
          \A o \in Op : SharedBody(doc.body[o]) =>
              /\ IsStruct(body[o])
              /\ \A p \in DOMAIN decls[body[o]].fields \cap DOMAIN Props(doc.body[o]) :
                    ~Props(doc.body[o])[p].readOnly

Provenance == Mirrored /\ Declared /\ Stripped

----------------------------------------------------------------------------
(* Where the links come from.                                              *)

\* The calls in progress are of unions that the walk reaches.
Walking ==
    \A k \in DOMAIN stack :
        /\ IsInterface(stack[k].union) /\ Begun(stack[k].union)
        /\ stack[k].union \in stack[k].markers

\* A link names a union that lists the struct, under the tag it has there.
LinkedBy(n, u) ==
    /\ u \in DOMAIN decls /\ IsInterface(u) /\ Begun(u) /\ decls[u].property # None
    /\ \E i \in DOMAIN decls[u].variants :
          /\ decls[u].variants[i].goName = n
          /\ decls[n].dispatch.property = decls[u].property
          /\ decls[n].dispatch.value = decls[u].variants[i].tag

LinksListed ==
    /\ phase = "declare" => \A n \in DOMAIN decls : decls[n].dispatch = None
    /\ \A n \in DOMAIN decls : decls[n].dispatch # None => LinkedBy(n, decls[n].dispatch.union)

\* Where the walk has been, what a tagged union lists is linked, or will be.
ListedLinked ==
    phase # "declare" =>
        \A u \in DOMAIN decls :
            (IsInterface(u) /\ Begun(u) /\ decls[u].property # None) =>
                \A i \in DOMAIN decls[u].variants :
                    LET n == decls[u].variants[i].goName
                    IN  IsStruct(n) => decls[n].dispatch # None \/ Pending(u, u, i)

\* Nothing has the tag of another type on it.
Links == Walking /\ LinksListed /\ ListedLinked /\ TagNamesTheVariant
----------------------------------------------------------------------------
(* What the builder makes of a schema has to do with it.                   *)

\* Outside the declarations the invariant speaks about the document alone.
LEMMA DocTyped ==
    ASSUME IInv
    PROVE  IsDocument(doc) /\ doc.goName \in [Spec -> Name]
BY DEF IInv, TypeOK, IsDocument

\* Different schemas are named differently.
LEMMA NamesApart ==
    ASSUME UniqueNames, NEW s \in Spec, NEW t \in Spec, doc.goName[s] = doc.goName[t]
    PROVE  s = t
BY DEF UniqueNames

\* A field is as its property is described.
LEMMA FieldIs ==
    ASSUME NEW d, NEW s, NEW q
    PROVE  /\ FieldOf(d, s, q).type = IF q.type = None THEN None ELSE d.goName[q.type]
           /\ FieldOf(d, s, q).required = q.required
           /\ FieldOf(d, s, q).readOnly = q.readOnly
BY DEF FieldOf

\* The struct of an object has a field for every property, made from it.
LEMMA ObjectFields ==
    ASSUME NEW d, NEW s
    PROVE  LET e == StructFromSchema(d, s)
               props == d.schemas[s].props
           IN  /\ e.kind = "struct"
               /\ DOMAIN e.fields = DOMAIN props
               /\ \A p \in DOMAIN props : e.fields[p] = FieldOf(d, s, props[p])
BY DEF StructFromSchema, Struct

\* The merged struct has a field for every property of its members that are
\* schemas, and none of them is required.
LEMMA MergedFields ==
    ASSUME NEW d, IsDocument(d), NEW s, NEW members
    PROVE  LET e == Flatten(d, s, members)
           IN  /\ e.kind = "struct"
               /\ RequiredOf(e) = {}
               /\ \A i \in DOMAIN members : members[i] \in Spec =>
                      DOMAIN d.schemas[members[i]].props \subseteq DOMAIN e.fields
<1> DEFINE found == {i \in DOMAIN members : members[i] \in Spec}
           Carriers(p) == {i \in found : p \in DOMAIN d.schemas[members[i]].props}
           First(p) == d.schemas[members[Min(Carriers(p))]].props[p]
           all == {q \in Prop : Carriers(q) # {}}
           fields == [p \in all |->
                         [FieldOf(d, s, First(p)) EXCEPT !.required = FALSE]]
           e == Flatten(d, s, members)
<1>1. e = Struct(fields)
  BY DEF Flatten
<1> HIDE DEF First
<1>2. e.kind = "struct" /\ e.fields = fields
  BY <1>1 DEF Struct
<1>3. \A p \in all : fields[p].required = FALSE
  BY DEF FieldOf
<1>4. ASSUME NEW i \in DOMAIN members, members[i] \in Spec,
             NEW p \in DOMAIN d.schemas[members[i]].props
      PROVE  p \in all
  <2>1. p \in Prop
    BY <1>4, SchemaTyped DEF Partial
  <2>2. i \in Carriers(p)
    BY <1>4
  <2> QED  BY <2>1, <2>2
<1>5. DOMAIN fields = all
  OBVIOUS
<1> HIDE DEF fields, all, e
<1> QED  BY <1>2, <1>3, <1>4, <1>5 DEF RequiredOf, e

\* An object is described by its struct.
LEMMA ObjectDescribed ==
    ASSUME IInv, NEW s \in Spec, doc.schemas[s].kind = "object"
    PROVE  Describes(s, StructFromSchema(doc, s))
<1> DEFINE e == StructFromSchema(doc, s)
<1>1. /\ e.kind = "struct" /\ DOMAIN e.fields = DOMAIN Props(s)
      /\ \A p \in DOMAIN Props(s) : e.fields[p] = FieldOf(doc, s, Props(s)[p])
  BY ObjectFields DEF Props
<1> HIDE DEF e
<1>2. \A p \in DOMAIN e.fields :
          /\ e.fields[p].type = TypeOf(Props(s)[p].type)
          /\ e.fields[p].required = Props(s)[p].required
          /\ e.fields[p].readOnly = Props(s)[p].readOnly
  <2> SUFFICES ASSUME NEW p \in DOMAIN Props(s)
               PROVE  /\ e.fields[p].type = TypeOf(Props(s)[p].type)
                      /\ e.fields[p].required = Props(s)[p].required
                      /\ e.fields[p].readOnly = Props(s)[p].readOnly
    BY <1>1
  <2> DEFINE q == Props(s)[p]
  <2>1. e.fields[p] = FieldOf(doc, s, q)
    BY <1>1
  <2>2. TypeOf(q.type) = IF q.type = None THEN None ELSE doc.goName[q.type]
    BY DEF TypeOf
  <2> HIDE DEF q
  <2>a. /\ FieldOf(doc, s, q).type = IF q.type = None THEN None ELSE doc.goName[q.type]
        /\ FieldOf(doc, s, q).required = q.required
        /\ FieldOf(doc, s, q).readOnly = q.readOnly
    BY FieldIs
  <2> HIDE DEF TypeOf
  <2>3. /\ e.fields[p].type = TypeOf(q.type)
        /\ e.fields[p].required = q.required
        /\ e.fields[p].readOnly = q.readOnly
    BY <2>1, <2>2, <2>a
  <2> QED  BY <2>3 DEF q
<1>3. DOMAIN Props(s) \subseteq Kept(e)
  BY <1>1 DEF Kept
<1> QED  BY <1>1, <1>2, <1>3 DEF Describes, OfObject, OfMerged, OfInterface, e

\* A union with a mapping is described by its interface, or its merged struct.
LEMMA DiscriminatedDescribed ==
    ASSUME IInv, NEW s \in Spec, doc.schemas[s].kind = "union",
           doc.schemas[s].mapping # <<>>
    PROVE  Describes(s, UnionFromDiscriminator(doc, s))
<1> DEFINE u == doc.schemas[s]
           e == UnionFromDiscriminator(doc, s)
           variants == [i \in DOMAIN u.mapping |->
                           [goName |-> doc.goName[u.mapping[i].schema],
                            tag |-> u.mapping[i].tag, probe |-> {}]]
           members == [i \in DOMAIN u.mapping |-> u.mapping[i].schema]
<1>1. CASE u.property # None /\ WireCompatible(doc, u)
  <2>1. e = Interface(variants, u.property)
    BY <1>1 DEF UnionFromDiscriminator
  <2>2. e.kind = "interface" /\ e.variants = variants /\ e.property = u.property
    BY <2>1 DEF Interface
  <2>3. /\ DOMAIN variants = DOMAIN u.mapping
        /\ \A i \in DOMAIN u.mapping :
              /\ variants[i].goName = doc.goName[u.mapping[i].schema]
              /\ variants[i].tag = u.mapping[i].tag
    BY Zenon
  <2> HIDE DEF e, variants
  <2> QED  BY <1>1, <2>2, <2>3 DEF Describes, OfObject, OfMerged, OfInterface, e
<1>2. CASE ~(u.property # None /\ WireCompatible(doc, u))
  <2>1. e = Flatten(doc, s, members)
    BY <1>2 DEF UnionFromDiscriminator
  <2>2. \A i \in DOMAIN u.mapping : members[i] = u.mapping[i].schema /\ members[i] \in Spec
    <3> SUFFICES ASSUME NEW i \in DOMAIN u.mapping
                 PROVE  members[i] = u.mapping[i].schema /\ u.mapping[i].schema \in Spec
      OBVIOUS
    <3>1. u.mapping \in Seq([tag : Tag, schema : Spec])
      BY DocTyped, SchemaTyped
    <3>2. u.mapping[i] \in [tag : Tag, schema : Spec]
      BY <3>1, ElementOf
    <3> QED  BY <3>2
  <2>3. DOMAIN members = DOMAIN u.mapping
    OBVIOUS
  <2> HIDE DEF members
  <2>4. /\ e.kind = "struct" /\ RequiredOf(e) = {}
        /\ \A i \in DOMAIN u.mapping : DOMAIN Props(u.mapping[i].schema) \subseteq DOMAIN e.fields
    BY <2>1, <2>2, <2>3, MergedFields, DocTyped DEF Props
  <2>5. \A i \in DOMAIN u.mapping : DOMAIN Props(u.mapping[i].schema) \subseteq Kept(e)
    BY <2>4 DEF Kept
  <2> HIDE DEF e
  <2> QED  BY <2>4, <2>5 DEF Describes, OfObject, OfMerged, OfInterface, e
<1> QED  BY <1>1, <1>2

\* The struct of a union's branch is an object's if it requires anything, and then
\* requires what the object does.
LEMMA BranchRequires ==
    ASSUME IInv, UniqueNames, Mirrored, phase = "declare", NEW b \in Spec,
           doc.goName[b] \in DOMAIN decls, decls[doc.goName[b]].kind = "struct",
           RequiredOf(decls[doc.goName[b]]) # {}
    PROVE  doc.schemas[b].kind = "object" /\ RequiredOf(decls[doc.goName[b]]) = RequiredBy(b)
<1> DEFINE e == decls[doc.goName[b]]
<1>1. Describes(b, e)
  BY DEF Mirrored
<1>2. doc.schemas[b].kind = "object"
  BY <1>1 DEF Describes, OfMerged
<1>3. DOMAIN e.fields = DOMAIN Props(b)
      /\ \A p \in DOMAIN e.fields : e.fields[p].required = Props(b)[p].required
  BY <1>1, <1>2 DEF Describes, OfObject, Kept
<1> QED  BY <1>2, <1>3 DEF RequiredOf, RequiredBy, Props

\* A union of references is described by its interface, or its merged struct.
LEMMA UntaggedDescribed ==
    ASSUME IInv, UniqueNames, Mirrored, phase = "declare", NEW s \in Spec,
           doc.schemas[s].kind = "union", doc.schemas[s].mapping = <<>>
    PROVE  Describes(s, UntaggedUnion(doc, decls, s))
<1> DEFINE u == doc.schemas[s]
           e == UntaggedUnion(doc, decls, s)
           names == [i \in DOMAIN u.branches |-> doc.goName[u.branches[i]]]
           variants == [i \in DOMAIN names |->
                           [goName |-> names[i], tag |-> None,
                            probe |-> Probe(decls, names, i)]]
<1>1. /\ DOMAIN names = Branches(s)
      /\ \A i \in Branches(s) : names[i] = doc.goName[Branch(s, i)] /\ Branch(s, i) \in Spec
  <2>1. u.branches \in Seq(Spec)
    BY DocTyped, SchemaTyped
  <2> QED  BY <2>1, ElementOf DEF Branches, Branch
<1>2. CASE Disjoint(decls, names)
  <2>1. e = Interface(variants, None)
    BY <1>2 DEF UntaggedUnion
  <2>2. e.kind = "interface" /\ e.variants = variants /\ e.property = None
    BY <2>1 DEF Interface
  <2> HIDE DEF names
  <2>3. ASSUME NEW i \in Branches(s)
        PROVE  /\ doc.schemas[Branch(s, i)].kind = "object"
               /\ RequiredOf(decls[names[i]]) = RequiredBy(Branch(s, i))
               /\ Probe(decls, names, i) # {}
    <3>1. names[i] \in DOMAIN decls /\ decls[names[i]].kind = "struct"
          /\ Probe(decls, names, i) # {}
      BY <1>1, <1>2 DEF Disjoint
    <3>2. RequiredOf(decls[names[i]]) # {}
      BY <3>1 DEF Probe
    <3> QED  BY <1>1, <3>1, <3>2, BranchRequires
  <2>4. ASSUME NEW i \in Branches(s)
        PROVE  Probe(decls, names, i) = RequiredBy(Branch(s, i)) \ RequiredByOthers(s, i)
    <3> DEFINE Others == {RequiredOf(decls[names[j]]) : j \in DOMAIN names \ {i}}
               Theirs == {RequiredBy(Branch(s, k)) : k \in Branches(s) \ {i}}
    <3>1. Others = Theirs
      BY <1>1, <2>3
    <3> HIDE DEF Others, Theirs
    <3>2. /\ Probe(decls, names, i) = RequiredOf(decls[names[i]]) \ UNION Others
          /\ RequiredByOthers(s, i) = UNION Theirs
      BY DEF Probe, RequiredByOthers, Others, Theirs
    <3> QED  BY <2>3, <3>1, <3>2
  <2>5. /\ DOMAIN variants = Branches(s)
        /\ \A i \in Branches(s) :
              /\ variants[i].goName = doc.goName[Branch(s, i)]
              /\ variants[i].probe = RequiredBy(Branch(s, i)) \ RequiredByOthers(s, i)
              /\ variants[i].probe # {}
    BY <1>1, <2>3, <2>4
  <2> HIDE DEF e, variants
  <2> QED  BY <2>2, <2>3, <2>5 DEF Describes, OfObject, OfMerged, OfInterface, e
<1>3. CASE ~Disjoint(decls, names)
  <2>1. e = Flatten(doc, s, names)
    BY <1>3 DEF UntaggedUnion
  <2>2. SameNames(s) => \A i \in Branches(s) : names[i] = Branch(s, i)
    BY <1>1 DEF SameNames
  <2> HIDE DEF names
  <2>3. /\ e.kind = "struct" /\ RequiredOf(e) = {}
        /\ SameNames(s) =>
              \A i \in Branches(s) : DOMAIN Props(Branch(s, i)) \subseteq DOMAIN e.fields
    BY <1>1, <2>1, <2>2, MergedFields, DocTyped DEF Props
  <2>4. SameNames(s) => \A i \in Branches(s) : DOMAIN Props(Branch(s, i)) \subseteq Kept(e)
    BY <2>3 DEF Kept
  <2> HIDE DEF e
  <2> QED  BY <2>3, <2>4 DEF Describes, OfObject, OfMerged, OfInterface, e
<1> QED  BY <1>2, <1>3

\* Whatever is declared describes its schema.
LEMMA FreshDescribes ==
    ASSUME IInv, UniqueNames, Mirrored, phase = "declare", NEW s \in Spec,
           DeclFromSchema(doc, decls, s) # None
    PROVE  Describes(s, DeclFromSchema(doc, decls, s))
<1> DEFINE u == doc.schemas[s]
<1>1. CASE u.kind = "object"
  <2>1. DeclFromSchema(doc, decls, s) = StructFromSchema(doc, s)
    BY <1>1 DEF DeclFromSchema
  <2> QED  BY <1>1, <2>1, ObjectDescribed
<1>2. CASE u.kind = "union" /\ u.mapping # <<>>
  <2>1. DeclFromSchema(doc, decls, s) = UnionFromDiscriminator(doc, s)
    BY <1>2 DEF DeclFromSchema
  <2> QED  BY <1>2, <2>1, DiscriminatedDescribed
<1>3. CASE u.kind = "union" /\ u.mapping = <<>> /\ u.branches # <<>>
  <2>1. DeclFromSchema(doc, decls, s) = UntaggedUnion(doc, decls, s)
    BY <1>3 DEF DeclFromSchema
  <2> QED  BY <1>3, <2>1, UntaggedDescribed
<1>4. CASE ~(u.kind = "object") /\ ~(u.kind = "union" /\ u.mapping # <<>>)
           /\ ~(u.kind = "union" /\ u.mapping = <<>> /\ u.branches # <<>>)
  BY <1>4 DEF DeclFromSchema
<1> QED  BY <1>1, <1>2, <1>3, <1>4

----------------------------------------------------------------------------
(* What the steps leave of a declaration.                                  *)

\* A step leaves under n what e is, and of its fields at least what no tag replaces.
Alike(n, e) ==
    /\ decls'[n].kind = e.kind
    /\ decls'[n].variants = e.variants
    /\ decls'[n].property = e.property
    /\ DOMAIN decls'[n].fields \subseteq DOMAIN e.fields
    /\ Kept(e) \subseteq Kept(decls[n])'
    /\ \A p \in DOMAIN decls'[n].fields :
          /\ decls'[n].fields[p].type = e.fields[p].type
          /\ decls'[n].fields[p].required = e.fields[p].required
          /\ decls'[n].fields[p].readOnly = e.fields[p].readOnly

\* Then it still describes its schema.
LEMMA StillDescribes ==
    ASSUME doc' = doc, NEW s \in Spec, NEW n, NEW e, Describes(s, e), Alike(n, e)
    PROVE  Describes(s, decls[n])'
<1> DEFINE f == decls[n]
<1>1. OfObject(s, f)'
  BY DEF Describes, OfObject, Alike, Props, TypeOf
<1>2. OfMerged(s, f)'
  <2> SUFFICES ASSUME doc.schemas[s].kind = "union", f'.kind = "struct"
               PROVE  OfMerged(s, f)'
    BY DEF OfMerged
  <2>1. RequiredOf(f)' = {}
    BY DEF Describes, OfMerged, RequiredOf, Alike
  <2>2. e.kind = "struct" /\ Kept(e) \subseteq Kept(f)'
    BY DEF Alike
  <2>3. SameNames(s)' = SameNames(s)
    BY DEF SameNames, Branches, Branch
  <2> HIDE DEF f
  <2> QED  BY <2>1, <2>2, <2>3 DEF Describes, OfMerged, Props, Branches, Branch
<1>3. OfInterface(s, f)'
  <2>1. Branches(s)' = Branches(s)
    BY DEF Branches
  <2>2. \A i : Branch(s, i)' = Branch(s, i)
    BY DEF Branch
  <2>3. \A i : RequiredBy(Branch(s, i))' = RequiredBy(Branch(s, i))
    BY DEF RequiredBy, Branch
  <2>4. \A i : RequiredByOthers(s, i)' = RequiredByOthers(s, i)
    BY DEF RequiredByOthers, RequiredBy, Branches, Branch
  <2>5. /\ f'.kind = e.kind /\ f'.variants = e.variants /\ f'.property = e.property
        /\ OfInterface(s, e)
    BY DEF Alike, Describes
  <2> HIDE DEF f
  <2> QED  BY <2>1, <2>2, <2>3, <2>4, <2>5 DEF OfInterface
<1> QED  BY <1>1, <1>2, <1>3 DEF Describes

\* And if all are left so, and no name of a schema is new, every declaration is still
\* that of its schema.
LEMMA StillMirrored ==
    ASSUME Mirrored, doc' = doc, doc.goName \in [Spec -> Name],
           \A n \in DOMAIN decls' \cap GoNames(doc) : n \in DOMAIN decls /\ Alike(n, decls[n])
    PROVE  Mirrored'
<1> SUFFICES ASSUME UniqueNames, NEW s \in Spec, doc.goName[s] \in DOMAIN decls'
             PROVE  Describes(s, decls[doc.goName[s]])'
  BY DEF Mirrored, UniqueNames
<1> DEFINE n == doc.goName[s]
<1>1. n \in GoNames(doc)
  BY DEF GoNames
<1>2. n \in DOMAIN decls /\ Alike(n, decls[n])
  BY <1>1
<1>3. Describes(s, decls[n])
  BY <1>2 DEF Mirrored
<1>4. ASSUME NEW m, m = n PROVE Describes(s, decls[m])'
  BY <1>2, <1>3, <1>4, StillDescribes
<1>5. n' = n
  OBVIOUS
<1> HIDE DEF n
<1> QED  BY <1>4, <1>5 DEF n

\* Steps that leave names, kinds, fields and variants alone keep the provenance of
\* all of them; while the unions are walked the links do not matter.
LEMMA SameProvenance ==
    ASSUME IInv, Provenance, UNCHANGED <<doc, phase, body>>,
           phase = "declare" => next' = next,
           DOMAIN decls' = DOMAIN decls,
           \A n \in DOMAIN decls :
              /\ decls'[n].kind = decls[n].kind
              /\ decls'[n].fields = decls[n].fields
              /\ decls'[n].variants = decls[n].variants
              /\ decls'[n].property = decls[n].property
              /\ phase # "unions" => decls'[n].dispatch = decls[n].dispatch
    PROVE  Provenance'
<1>1. ASSUME NEW n \in DOMAIN decls PROVE Alike(n, decls[n])
  <2>1. Kept(decls[n]) \subseteq Kept(decls[n])'
    BY DEF Kept
  <2> QED  BY <2>1 DEF Alike
<1>2. Mirrored'
  BY <1>1, StillMirrored, DocTyped DEF Provenance
<1>3. Declared'
  BY DEF Provenance, Declared
<1>4. Stripped'
  BY DEF Provenance, Stripped, SharedBody, IsStruct, Props, UniqueNames, TypeOf
<1> QED  BY <1>2, <1>3, <1>4 DEF Provenance

\* The provenance holds at the start, where nothing is declared.
LEMMA InitProvenance == ASSUME Init PROVE Provenance
<1>1. DOMAIN decls = {} /\ phase = "declare" /\ next = 1
  BY DEF Init
<1>2. Mirrored /\ Stripped
  BY <1>1 DEF Mirrored, Stripped
<1>3. doc.order \in Seq(Spec)
  BY GeneratorAssumption DEF Init, IsDocument
<1>4. Declared
  BY <1>1, <1>3 DEF Declared
<1> QED  BY <1>2, <1>4 DEF Provenance

\* A step of the builder declares the next schema, unless its name is taken or there
\* is nothing to declare.
LEMMA DeclareIs ==
    ASSUME IInv, Declare
    PROVE  LET s == doc.order[next]
               g == doc.goName[s]
               d == DeclFromSchema(doc, decls, s)
           IN  /\ phase = "declare" /\ s \in Spec /\ next \in DOMAIN doc.order
               /\ UNCHANGED <<doc, phase, stack, body, exchange>> /\ next' = next + 1
               /\ \/ (g \in DOMAIN decls \/ d = None) /\ decls' = decls
                  \/ /\ d # None /\ g \notin DOMAIN decls
                     /\ DOMAIN decls' = DOMAIN decls \cup {g}
                     /\ \A n \in DOMAIN decls' : decls'[n] = IF n = g THEN d ELSE decls[n]
<1> DEFINE s == doc.order[next]
           d == DeclFromSchema(doc, decls, s)
           g == doc.goName[s]
<1>1. next \in DOMAIN doc.order /\ s \in Spec
  <2>1. doc.order \in Seq(Spec) /\ next \in 1..Len(doc.order)
    BY DEF IInv, TypeOK, IsDocument, Declare
  <2> QED  BY <2>1
<1>2. /\ phase = "declare"
      /\ UNCHANGED <<doc, phase, stack, body, exchange>> /\ next' = next + 1
  BY DEF Declare
<1>3. IF g \in DOMAIN decls \/ d = None
      THEN decls' = decls
      ELSE decls' = [n \in DOMAIN decls \cup {g} |-> IF n = g THEN d ELSE decls[n]]
  BY DEF Declare
<1> HIDE DEF d, g, s
<1>4. \/ (g \in DOMAIN decls \/ d = None) /\ decls' = decls
      \/ /\ d # None /\ g \notin DOMAIN decls
         /\ DOMAIN decls' = DOMAIN decls \cup {g}
         /\ \A n \in DOMAIN decls' : decls'[n] = IF n = g THEN d ELSE decls[n]
  BY <1>3
<1> QED  BY <1>1, <1>2, <1>4 DEF d, g, s

\* What the builder declares is its schema's, and of an object it declares something.
LEMMA DeclareProvenance == ASSUME IInv, Provenance, Declare PROVE Provenance'
<1> DEFINE s == doc.order[next]
           g == doc.goName[s]
           d == DeclFromSchema(doc, decls, s)
<1>1. /\ phase = "declare" /\ s \in Spec /\ next \in DOMAIN doc.order
      /\ UNCHANGED <<doc, phase, stack, body, exchange>> /\ next' = next + 1
      /\ \/ (g \in DOMAIN decls \/ d = None) /\ decls' = decls
         \/ /\ d # None /\ g \notin DOMAIN decls
            /\ DOMAIN decls' = DOMAIN decls \cup {g}
            /\ \A n \in DOMAIN decls' : decls'[n] = IF n = g THEN d ELSE decls[n]
  BY DeclareIs
<1>2. ASSUME UniqueNames, d # None PROVE Describes(s, d)
  BY <1>1, <1>2, FreshDescribes DEF Provenance
<1>3. doc.schemas[s].kind = "object" => d # None
  <2>1. doc.schemas[s].kind = "object" => d = StructFromSchema(doc, s)
    BY DEF DeclFromSchema
  <2>2. StructFromSchema(doc, s) # None
    BY <1>1, GeneratorAssumption DEF IInv
  <2> QED  BY <2>1, <2>2
<1> HIDE DEF d, g
<1>a. g = doc.goName[s]
  BY DEF g
<1>4. ASSUME NEW n, NEW e, decls'[n] = e PROVE Alike(n, e)
  <2>1. Kept(e) \subseteq Kept(decls[n])'
    BY <1>1, <1>4 DEF Kept
  <2> QED  BY <1>4, <2>1 DEF Alike
<1>5. Mirrored'
  <2> SUFFICES ASSUME UniqueNames, NEW t \in Spec, doc.goName[t] \in DOMAIN decls'
               PROVE  Describes(t, decls[doc.goName[t]])'
    BY <1>1 DEF Mirrored, UniqueNames
  <2> DEFINE n == doc.goName[t]
  <2>1. CASE n \in DOMAIN decls
    <3>1. Describes(t, decls[n]) /\ decls'[n] = decls[n]
      BY <1>1, <2>1 DEF Provenance, Mirrored
    <3>2. ASSUME NEW m, m = n PROVE Describes(t, decls[m])'
      <4>1. Alike(m, decls[n]) /\ Describes(t, decls[n])
        BY <1>4, <3>1, <3>2
      <4> HIDE DEF n
      <4> QED  BY <1>1, <4>1, StillDescribes
    <3>3. n' = n
      BY <1>1
    <3> HIDE DEF n
    <3> QED  BY <3>2, <3>3 DEF n
  <2>2. CASE n \notin DOMAIN decls
    <3>1. n = g /\ decls'[n] = d /\ d # None
      BY <1>1, <2>2
    <3>2. t = s
      BY <1>1, <1>a, <3>1, NamesApart
    <3>3. ASSUME NEW m, m = n PROVE Describes(t, decls[m])'
      <4>1. Alike(m, d) /\ Describes(t, d)
        BY <1>2, <1>4, <3>1, <3>2, <3>3
      <4> HIDE DEF n
      <4> QED  BY <1>1, <4>1, StillDescribes
    <3>4. n' = n
      BY <1>1
    <3> HIDE DEF n
    <3> QED  BY <3>3, <3>4 DEF n
  <2> QED  BY <2>1, <2>2
<1>6. Declared'
  <2> SUFFICES ASSUME NEW i \in DOMAIN doc.order, i < next + 1,
                      doc.schemas[doc.order[i]].kind = "object"
               PROVE  doc.goName[doc.order[i]] \in DOMAIN decls'
    BY <1>1 DEF Declared
  <2>1. DOMAIN decls \subseteq DOMAIN decls'
    BY <1>1
  <2>2. CASE i < next
    BY <1>1, <2>1, <2>2 DEF Provenance, Declared
  <2>3. CASE ~(i < next)
    <3>1. doc.order \in Seq(Spec) /\ next \in Nat
      BY DEF IInv, TypeOK, IsDocument
    <3>2. i = next
      BY <2>3, <3>1
    <3> QED  BY <1>1, <1>3, <1>a, <3>2
  <2> QED  BY <2>2, <2>3
<1>7. Stripped'
  BY <1>1 DEF Stripped
<1> QED  BY <1>5, <1>6, <1>7 DEF Provenance

\* When the operations are built, a body goes by the name of its schema.
LEMMA BuildProvenance == ASSUME IInv, Provenance, BuildOperations PROVE Provenance'
<1>1. /\ UNCHANGED <<doc, decls, order, stack, exchange>> /\ phase = "declare"
      /\ phase' = "unions" /\ next > Len(doc.order) /\ body' = [o \in Op |-> TypeOf(doc.body[o])]
  BY DEF BuildOperations, Enter
<1>2. ASSUME NEW n \in DOMAIN decls PROVE Alike(n, decls[n])
  <2>1. Kept(decls[n]) \subseteq Kept(decls[n])'
    BY <1>1 DEF Kept
  <2> QED  BY <1>1, <2>1 DEF Alike
<1>3. Mirrored'
  BY <1>1, <1>2, StillMirrored, DocTyped DEF Provenance
<1>4. Declared'
  <2>1. doc.order \in Seq(Spec) /\ next \in Nat
    BY DEF IInv, TypeOK, IsDocument
  <2>2. \A i \in DOMAIN doc.order : i < next
    BY <1>1, <2>1
  <2> QED  BY <1>1, <2>2 DEF Provenance, Declared
<1>5. Stripped'
  BY <1>1 DEF Stripped, TypeOf
<1> QED  BY <1>3, <1>4, <1>5 DEF Provenance

\* A step of the walk marks the variant it is at, and links it if it is a struct.
LEMMA VisitIs ==
    ASSUME IInv, Visit
    PROVE  LET u == Top.union
               v == decls[u].variants[Top.at]
               n == v.goName
           IN  /\ UNCHANGED <<doc, phase, next, order, body, exchange>>
               /\ phase = "unions" /\ stack # <<>> /\ stack \in Seq(Frame)
               /\ u \in DOMAIN decls /\ Top.at \in DOMAIN decls[u].variants
               /\ n \in Name /\ Top.markers \in SUBSET Name
               /\ DOMAIN decls' = DOMAIN decls
               /\ \A x \in DOMAIN decls :
                     /\ decls'[x].kind = decls[x].kind
                     /\ decls'[x].fields = decls[x].fields
                     /\ decls'[x].variants = decls[x].variants
                     /\ decls'[x].property = decls[x].property
                     /\ decls[x].implements \subseteq decls'[x].implements
                     /\ x # n => decls'[x].implements = decls[x].implements
                     /\ decls'[x].dispatch =
                           IF x = n /\ decls[x].kind = "struct" THEN Link(u, v)
                           ELSE decls[x].dispatch
               /\ n \in DOMAIN decls => Top.markers \subseteq decls'[n].implements
               /\ stack' = IF IsInterface(n) THEN Call(n, Top.markers) \o Resumed ELSE Resumed
<1> DEFINE u == Top.union
           M == Top.markers
           v == decls[u].variants[Top.at]
           n == v.goName
<1>1. /\ UNCHANGED <<doc, phase, next, order, body, exchange>>
      /\ phase = "unions" /\ stack # <<>> /\ Top.at <= Len(decls[u].variants)
      /\ stack \in Seq(Frame) /\ 1 \in DOMAIN stack
  <2>1. /\ UNCHANGED <<doc, phase, next, order, body, exchange>>
        /\ phase = "unions" /\ stack # <<>> /\ Top.at <= Len(decls[u].variants)
    BY Zenon DEF Visit
  <2>2. stack \in Seq(Frame)
    BY DEF IInv, TypeOK
  <2> QED  BY <2>1, <2>2
<1>2. /\ u \in DOMAIN decls /\ u \in Name /\ M \in SUBSET Name /\ Top.at \in Nat \ {0}
  <2>1. Top \in Frame /\ Top = stack[1]
    BY <1>1, ResumedIs DEF Top
  <2> QED  BY <1>1, <2>1, FrameFields DEF IInv, Calls
<1>3. n \in Name /\ Top.at \in DOMAIN decls[u].variants
  <2>1. decls[u].variants \in Seq(Variant)
    BY <1>2 DEF IInv, TypeOK, IsDecl
  <2>2. Top.at \in DOMAIN decls[u].variants
    BY <1>1, <1>2, <2>1
  <2>3. v \in Variant
    BY <2>1, <2>2, ElementOf
  <2> QED  BY <2>2, <2>3 DEF Variant
<1>4. \/ n \notin DOMAIN decls /\ stack' = Resumed /\ decls' = decls
      \/ /\ n \in DOMAIN decls /\ decls[n].kind = "struct" /\ stack' = Resumed
         /\ decls' = [decls EXCEPT ![n].implements = @ \cup M, ![n].dispatch = Link(u, v)]
      \/ /\ n \in DOMAIN decls /\ decls[n].kind = "interface"
         /\ stack' = Call(n, M) \o Resumed
         /\ decls' = [decls EXCEPT ![n].implements = @ \cup M]
  BY Zenon DEF Visit, IsStruct, IsInterface
<1> HIDE DEF v, n, u, M
<1>5. stack' = IF IsInterface(n) THEN Call(n, M) \o Resumed ELSE Resumed
  BY <1>4 DEF IsInterface
<1> DEFINE Result(x) ==
               /\ decls'[x].kind = decls[x].kind
               /\ decls'[x].fields = decls[x].fields
               /\ decls'[x].variants = decls[x].variants
               /\ decls'[x].property = decls[x].property
               /\ decls[x].implements \subseteq decls'[x].implements
               /\ x # n => decls'[x].implements = decls[x].implements
               /\ decls'[x].dispatch =
                     IF x = n /\ decls[x].kind = "struct" THEN Link(u, v)
                     ELSE decls[x].dispatch
<1>6. /\ DOMAIN decls' = DOMAIN decls
      /\ \A x \in DOMAIN decls : Result(x)
      /\ n \in DOMAIN decls => M \subseteq decls'[n].implements
  <2>1. CASE n \notin DOMAIN decls
    BY <1>4, <2>1
  <2>2. CASE n \in DOMAIN decls
    <3>1. IsDecl(decls[n])
      BY <2>2 DEF IInv, TypeOK
    <3> DEFINE a == [decls[n] EXCEPT !.implements = @ \cup M]
               b == [decls[n] EXCEPT !.implements = @ \cup M, !.dispatch = Link(u, v)]
    <3>2. /\ a.kind = decls[n].kind /\ a.variants = decls[n].variants
          /\ a.fields = decls[n].fields /\ a.property = decls[n].property
          /\ a.implements = decls[n].implements \cup M
          /\ a.dispatch = decls[n].dispatch
          /\ b.kind = decls[n].kind /\ b.variants = decls[n].variants
          /\ b.fields = decls[n].fields /\ b.property = decls[n].property
          /\ b.implements = decls[n].implements \cup M
          /\ b.dispatch = Link(u, v)
      BY <3>1 DEF IsDecl
    <3>3. \/ decls' = [decls EXCEPT ![n] = a] /\ decls[n].kind = "interface"
          \/ decls' = [decls EXCEPT ![n] = b] /\ decls[n].kind = "struct"
      BY <1>4, <2>2
    <3> HIDE DEF a, b
    <3>4. DOMAIN decls' = DOMAIN decls
      BY <3>3
    <3>5. \A x \in DOMAIN decls : x # n => decls'[x] = decls[x]
      BY <3>3
    <3>6. \/ decls'[n] = a /\ decls[n].kind = "interface"
          \/ decls'[n] = b /\ decls[n].kind = "struct"
      BY <2>2, <3>3
    <3>7. Result(n) /\ M \subseteq decls'[n].implements
      BY <3>2, <3>6
    <3>8. ASSUME NEW x \in DOMAIN decls, x # n PROVE Result(x)
      BY <3>5, <3>8
    <3> HIDE DEF Result
    <3> QED  BY <3>4, <3>7, <3>8
  <2> QED  BY <2>1, <2>2
<1> QED  BY <1>1, <1>2, <1>3, <1>5, <1>6 DEF u, M, v, n

\* The walk leaves the provenance of the declarations alone.
LEMMA VisitProvenance == ASSUME IInv, Provenance, Visit PROVE Provenance'
<1>1. /\ UNCHANGED <<doc, phase, body>> /\ phase = "unions" /\ DOMAIN decls' = DOMAIN decls
      /\ \A x \in DOMAIN decls :
            /\ decls'[x].kind = decls[x].kind
            /\ decls'[x].fields = decls[x].fields
            /\ decls'[x].variants = decls[x].variants
            /\ decls'[x].property = decls[x].property
  BY VisitIs, Zenon
<1> QED  BY <1>1, SameProvenance

\* A field that goes when the walk is over is kept, by the link.
LEMMA DropProvenance == ASSUME IInv, Provenance, DropTagFields PROVE Provenance'
<1>1. /\ UNCHANGED <<doc, order, stack, body, exchange>>
      /\ phase = "unions" /\ phase' = "readOnly"
      /\ decls' = [n \in DOMAIN decls |-> WithoutTagField(decls[n])]
  BY DEF DropTagFields, Enter
<1>2. ASSUME NEW n \in DOMAIN decls PROVE Alike(n, decls[n])
  <2> DEFINE e == decls[n]
             f == [p \in DOMAIN e.fields \ {e.dispatch.property} |-> e.fields[p]]
             q == WithoutTagField(e)
  <2>1. IsDecl(e) /\ decls'[n] = q
    BY <1>1 DEF IInv, TypeOK
  <2>2. /\ q.kind = e.kind /\ q.variants = e.variants
        /\ q.property = e.property /\ q.dispatch = e.dispatch
    BY <2>1, WithoutTagTyped
  <2>3. q.fields = IF e.dispatch = None THEN e.fields ELSE f
    <3>1. e.dispatch # None => q = [e EXCEPT !.fields = f]
      BY DEF WithoutTagField
    <3> HIDE DEF f
    <3>2. [e EXCEPT !.fields = f].fields = f
      BY <2>1 DEF IsDecl
    <3>3. e.dispatch = None => q = e
      BY DEF WithoutTagField
    <3> QED  BY <3>1, <3>2, <3>3
  <2>4. /\ DOMAIN q.fields \subseteq DOMAIN e.fields
        /\ DOMAIN e.fields \subseteq
              DOMAIN q.fields \cup (IF e.dispatch = None THEN {} ELSE {e.dispatch.property})
        /\ \A p \in DOMAIN q.fields : q.fields[p] = e.fields[p]
    BY <2>3
  <2> HIDE DEF q, f
  <2>5. Kept(e) \subseteq Kept(decls[n])'
    <3>1. Kept(e) = DOMAIN e.fields
      BY <1>1 DEF Kept
    <3>2. Kept(decls[n])' = DOMAIN q.fields \cup (IF e.dispatch = None THEN {} ELSE {e.dispatch.property})
      BY <1>1, <2>1, <2>2 DEF Kept
    <3> QED  BY <2>4, <3>1, <3>2
  <2> QED  BY <2>1, <2>2, <2>4, <2>5 DEF Alike
<1>3. DOMAIN decls' = DOMAIN decls
  BY <1>1
<1>4. Mirrored'
  BY <1>1, <1>2, <1>3, StillMirrored, DocTyped DEF Provenance
<1>5. Declared' /\ Stripped'
  BY <1>1, <1>3 DEF Provenance, Declared, Stripped, TypeOf
<1> QED  BY <1>4, <1>5 DEF Provenance

\* The roots of a walk through the fields are among what it meets.
LEMMA RootsUsed ==
    ASSUME NEW roots
    PROVE  roots \subseteq Uses(roots)
BY DEF Uses

\* A body that is a reply as well has the struct of its object, which knows what is
\* read-only.
LEMMA SharedIs ==
    ASSUME IInv, Mirrored, Declared, UniqueNames, phase # "declare", NEW s, s \in Spec \cup {None},
           SharedBody(s), NEW n, n = TypeOf(s)
    PROVE  /\ s \in Spec /\ n = doc.goName[s] /\ IsStruct(n) /\ n \in Replies
           /\ \A p \in DOMAIN decls[n].fields \cap DOMAIN Props(s) :
                 Props(s)[p].readOnly = decls[n].fields[p].readOnly
<1>1. s \in Spec /\ doc.schemas[s].kind = "object" /\ n = doc.goName[s] /\ n \in Name
  BY DocTyped DEF SharedBody, TypeOf
<1>2. n \in Replies
  <2>1. PICK o \in Op : doc.reply[o] = s
    BY DEF SharedBody
  <2>2. n # None
    BY <1>1, GeneratorAssumption
  <2> QED  BY <2>1, <2>2 DEF Replies
<1>3. PICK i \in DOMAIN doc.order : doc.order[i] = s
  <2>1. {doc.order[i] : i \in DOMAIN doc.order} = Spec
    BY DocTyped DEF IsDocument
  <2> QED  BY <1>1, <2>1
<1>4. n \in DOMAIN decls
  BY <1>1, <1>3 DEF Declared
<1>5. OfObject(s, decls[n])
  BY <1>1, <1>4 DEF Mirrored, Describes
<1> QED  BY <1>1, <1>2, <1>4, <1>5 DEF OfObject, IsStruct

\* A clone has the fields that are not read-only.
LEMMA CloneIs ==
    ASSUME NEW e, IsDecl(e)
    PROVE  LET c == StripReadOnly(e)
           IN  /\ c.kind = "struct"
               /\ c.dispatch = None /\ c.implements = e.implements
               /\ \A p \in DOMAIN c.fields : p \in DOMAIN e.fields /\ ~e.fields[p].readOnly
<1> DEFINE f == [p \in {q \in DOMAIN e.fields : ~e.fields[q].readOnly} |-> e.fields[p]]
           c == StripReadOnly(e)
<1>1. c = [Struct(f) EXCEPT !.implements = e.implements]
  BY DEF StripReadOnly
<1>2. \A p \in DOMAIN f : p \in DOMAIN e.fields /\ ~e.fields[p].readOnly
  OBVIOUS
<1> HIDE DEF f, c
<1>3. /\ c.kind = "struct" /\ c.dispatch = None
      /\ c.implements = e.implements /\ c.fields = f
  BY <1>1 DEF Struct
<1> QED  BY <1>2, <1>3 DEF c

\* Clones are made for structs, under names that are no schema's and tell them apart.
LEMMA CloneSharedIs ==
    ASSUME IInv, CloneShared
    PROVE  /\ UNCHANGED <<doc, order, stack, exchange>>
           /\ phase = "readOnly" /\ phase' = "promote"
           /\ body' = [o \in Op |-> IF body[o] \in Shared THEN Input[body[o]] ELSE body[o]]
           /\ Shared \subseteq DOMAIN decls /\ DOMAIN decls \subseteq GoNames(doc)
           /\ DOMAIN decls' = DOMAIN decls \cup {Input[m] : m \in Shared}
           /\ \A n \in DOMAIN decls : decls'[n] = decls[n]
           /\ \A m \in Shared : /\ Input[m] \notin GoNames(doc)
                                /\ decls'[Input[m]] = StripReadOnly(decls[m])
<1> DEFINE original(n) == CHOOSE m \in Shared : Input[m] = n
<1>1. /\ UNCHANGED <<doc, order, stack, exchange>>
      /\ phase = "readOnly" /\ phase' = "promote"
      /\ decls' = [n \in DOMAIN decls \cup {Input[m] : m \in Shared} |->
                      IF n \in DOMAIN decls THEN decls[n]
                      ELSE StripReadOnly(decls[original(n)])]
      /\ body' = [o \in Op |-> IF body[o] \in Shared THEN Input[body[o]] ELSE body[o]]
  BY Zenon DEF CloneShared, Enter
<1>2. Shared \subseteq DOMAIN decls /\ DOMAIN decls \subseteq GoNames(doc)
  BY <1>1 DEF Shared, IsStruct, IInv, Named
<1>3. ASSUME NEW a \in GoNames(doc), NEW b \in GoNames(doc)
      PROVE  Input[a] # b /\ (Input[a] = Input[b] => a = b)
  <2>1. doc \in Documents
    BY DEF IInv
  <2> QED  BY <2>1, GeneratorAssumption DEF GoNames
<1>4. \A m \in Shared : Input[m] \notin GoNames(doc)
  BY <1>2, <1>3
<1>5. ASSUME NEW m \in Shared PROVE original(Input[m]) = m
  <2>1. original(Input[m]) \in Shared /\ Input[original(Input[m])] = Input[m]
    OBVIOUS
  <2> HIDE DEF original
  <2> QED  BY <1>2, <1>3, <2>1
<1> HIDE DEF original
<1>6. /\ DOMAIN decls' = DOMAIN decls \cup {Input[m] : m \in Shared}
      /\ \A n \in DOMAIN decls : decls'[n] = decls[n]
      /\ \A m \in Shared : Input[m] \notin DOMAIN decls =>
            decls'[Input[m]] = StripReadOnly(decls[original(Input[m])])
  BY <1>1
<1>7. \A m \in Shared : decls'[Input[m]] = StripReadOnly(decls[m])
  BY <1>2, <1>4, <1>5, <1>6
<1> QED  BY <1>1, <1>2, <1>4, <1>6, <1>7

\* What a request and a response share, the request has without what is read-only.
LEMMA CloneProvenance == ASSUME IInv, Provenance, CloneShared PROVE Provenance'
<1>1. /\ UNCHANGED <<doc, order, stack, exchange>>
      /\ phase = "readOnly" /\ phase' = "promote"
      /\ body' = [o \in Op |-> IF body[o] \in Shared THEN Input[body[o]] ELSE body[o]]
      /\ Shared \subseteq DOMAIN decls /\ DOMAIN decls \subseteq GoNames(doc)
      /\ DOMAIN decls' = DOMAIN decls \cup {Input[m] : m \in Shared}
      /\ \A n \in DOMAIN decls : decls'[n] = decls[n]
      /\ \A m \in Shared : /\ Input[m] \notin GoNames(doc)
                           /\ decls'[Input[m]] = StripReadOnly(decls[m])
  BY CloneSharedIs
<1>2. Mirrored'
  <2>1. ASSUME NEW n \in DOMAIN decls PROVE Alike(n, decls[n])
    <3>1. Kept(decls[n]) \subseteq Kept(decls[n])'
      BY <1>1 DEF Kept
    <3> QED  BY <1>1, <3>1 DEF Alike
  <2>2. \A n \in DOMAIN decls' \cap GoNames(doc) : n \in DOMAIN decls
    BY <1>1
  <2> QED  BY <1>1, <2>1, <2>2, StillMirrored, DocTyped DEF Provenance
<1>3. Declared'
  BY <1>1 DEF Provenance, Declared
<1>4. ASSUME NEW o \in Op, doc.body[o] = None PROVE body'[o] = None
  <2>1. body[o] = None
    BY <1>1, <1>4 DEF Provenance, Stripped
  <2>2. None \notin Shared
    BY <1>1, GeneratorAssumption DEF IInv, TypeOK
  <2> QED  BY <1>1, <2>1, <2>2
<1>5. Stripped'
  <2> SUFFICES ASSUME UniqueNames, NEW o \in Op, SharedBody(doc.body[o])
               PROVE  /\ IsStruct(body[o])'
                      /\ \A p \in DOMAIN decls'[body'[o]].fields \cap DOMAIN Props(doc.body[o]) :
                            ~Props(doc.body[o])[p].readOnly
    BY <1>1, <1>4 DEF Stripped, SharedBody, UniqueNames, Props
  <2> DEFINE s == doc.body[o]
             n == body[o]
  <2>1. n = TypeOf(s) /\ s \in Spec \cup {None}
    BY <1>1, DocTyped DEF Provenance, Stripped, IsDocument
  <2>2. /\ s \in Spec /\ n = doc.goName[s] /\ IsStruct(n) /\ n \in Replies
        /\ \A p \in DOMAIN decls[n].fields \cap DOMAIN Props(s) :
              Props(s)[p].readOnly = decls[n].fields[p].readOnly
    BY <1>1, <2>1, SharedIs DEF Provenance
  <2>3. n \in Uses(Bodies) \cap Uses(Replies)
    <3>1. n \in Bodies
      BY <2>2 DEF Bodies, Replies
    <3> QED  BY <2>2, <3>1, RootsUsed
  <2>4. CASE HasReadOnly(n)
    <3>1. n \in Shared
      BY <2>2, <2>3, <2>4 DEF Shared
    <3>2. body'[o] = Input[n] /\ decls'[Input[n]] = StripReadOnly(decls[n])
          /\ Input[n] \in DOMAIN decls'
      BY <1>1, <3>1
    <3>3. IsDecl(decls[n])
      BY <2>2 DEF IInv, TypeOK, IsStruct
    <3> HIDE DEF n, s
    <3>4. /\ StripReadOnly(decls[n]).kind = "struct"
          /\ \A p \in DOMAIN StripReadOnly(decls[n]).fields :
                p \in DOMAIN decls[n].fields /\ ~decls[n].fields[p].readOnly
      BY <3>3, CloneIs
    <3>5. IsStruct(body[o])'
      BY <3>2, <3>4 DEF IsStruct
    <3>6. \A p \in DOMAIN decls'[body'[o]].fields \cap DOMAIN Props(s) : ~Props(s)[p].readOnly
      BY <2>2, <3>2, <3>4
    <3> QED  BY <3>5, <3>6 DEF s
  <2>5. CASE ~HasReadOnly(n)
    <3>1. n \notin Shared
      BY <2>5 DEF Shared
    <3>2. body'[o] = n /\ n \in DOMAIN decls /\ decls'[n] = decls[n]
      BY <1>1, <2>2, <3>1 DEF IsStruct
    <3> HIDE DEF n, s
    <3>3. IsStruct(body[o])'
      BY <1>1, <2>2, <3>2 DEF IsStruct
    <3>4. \A p \in DOMAIN decls'[body'[o]].fields \cap DOMAIN Props(s) : ~Props(s)[p].readOnly
      BY <2>2, <2>5, <3>2 DEF HasReadOnly
    <3> QED  BY <3>3, <3>4 DEF s
  <2> QED  BY <2>4, <2>5
<1> QED  BY <1>2, <1>3, <1>5 DEF Provenance

\* A field that becomes a pointer is the field it was.
LEMMA PromoteProvenance == ASSUME IInv, Provenance, PromoteOptionalStructs PROVE Provenance'
<1>1. /\ UNCHANGED <<doc, order, stack, body, exchange>>
      /\ phase = "promote" /\ phase' = "generated"
      /\ decls' = [n \in DOMAIN decls |->
                      [decls[n] EXCEPT !.fields = [p \in DOMAIN @ |-> Promoted(@[p])]]]
  BY DEF PromoteOptionalStructs, Enter
<1>2. DOMAIN decls' = DOMAIN decls
  BY <1>1
<1>3. ASSUME NEW n \in DOMAIN decls
      PROVE  /\ decls'[n].kind = decls[n].kind
             /\ decls'[n].variants = decls[n].variants
             /\ decls'[n].property = decls[n].property
             /\ decls'[n].dispatch = decls[n].dispatch
             /\ DOMAIN decls'[n].fields = DOMAIN decls[n].fields
             /\ \A p \in DOMAIN decls[n].fields :
                   decls'[n].fields[p] = Promoted(decls[n].fields[p])
  <2>1. IsDecl(decls[n])
    BY DEF IInv, TypeOK
  <2>2. decls'[n] = [decls[n] EXCEPT !.fields = [p \in DOMAIN @ |-> Promoted(@[p])]]
    BY <1>1
  <2> QED  BY <2>1, <2>2, PromotedTyped
<1>4. ASSUME NEW n \in DOMAIN decls, NEW p \in DOMAIN decls[n].fields
      PROVE  /\ decls'[n].fields[p].type = decls[n].fields[p].type
             /\ decls'[n].fields[p].required = decls[n].fields[p].required
             /\ decls'[n].fields[p].readOnly = decls[n].fields[p].readOnly
  <2> DEFINE f == decls[n].fields[p]
  <2>1. f \in Field /\ decls'[n].fields[p] = Promoted(f)
    BY <1>3, FieldsTyped
  <2> HIDE DEF f
  <2>2. /\ Promoted(f).type = f.type /\ Promoted(f).required = f.required
        /\ Promoted(f).readOnly = f.readOnly
    BY <2>1 DEF Promoted, Field
  <2> QED  BY <2>1, <2>2 DEF f
<1>5. ASSUME NEW n \in DOMAIN decls PROVE Alike(n, decls[n])
  <2>1. Kept(decls[n]) \subseteq Kept(decls[n])'
    BY <1>1, <1>3 DEF Kept
  <2> QED  BY <1>3, <1>4, <2>1 DEF Alike
<1>6. Mirrored'
  BY <1>1, <1>2, <1>5, StillMirrored, DocTyped DEF Provenance
<1>7. Declared'
  BY <1>1, <1>2 DEF Provenance, Declared
<1>8. \A o \in Op : doc.body[o] = None => body[o] = None
  BY <1>1 DEF Provenance, Stripped
<1>9. Stripped'
  <2> SUFFICES ASSUME UniqueNames, NEW o \in Op, SharedBody(doc.body[o])
               PROVE  /\ IsStruct(body[o])'
                      /\ \A p \in DOMAIN decls'[body[o]].fields \cap DOMAIN Props(doc.body[o]) :
                            ~Props(doc.body[o])[p].readOnly
    BY <1>1, <1>8 DEF Stripped, SharedBody, UniqueNames, Props
  <2>1. /\ IsStruct(body[o])
        /\ \A p \in DOMAIN decls[body[o]].fields \cap DOMAIN Props(doc.body[o]) :
              ~Props(doc.body[o])[p].readOnly
    BY <1>1 DEF Provenance, Stripped
  <2>2. /\ body[o] \in DOMAIN decls
        /\ decls'[body[o]].kind = decls[body[o]].kind
        /\ DOMAIN decls'[body[o]].fields = DOMAIN decls[body[o]].fields
    BY <1>3, <2>1 DEF IsStruct
  <2> QED  BY <1>1, <1>2, <2>1, <2>2 DEF IsStruct
<1> QED  BY <1>6, <1>7, <1>9 DEF Provenance

\* Nothing else touches the declarations.
LEMMA NextProvenance == ASSUME IInv, Provenance, [Next]_vars PROVE Provenance'
<1>1. ASSUME \/ Seed \/ Return \/ UNCHANGED vars \/ Callback
             \/ \E o \in Op : Send(o) \/ Reply(o)
      PROVE  Provenance'
  <2>1. UNCHANGED <<doc, phase, decls, body>> /\ (phase = "declare" => next' = next)
    BY <1>1, Zenon DEF Seed, Return, vars, Callback, Send, Reply
  <2> QED  BY <2>1, SameProvenance
<1> QED  BY <1>1, DeclareProvenance, BuildProvenance, VisitProvenance, DropProvenance,
            CloneProvenance, PromoteProvenance DEF Next, Generate, Use

----------------------------------------------------------------------------
(* The links.                                                              *)

\* What the walk has come to it has come to.
LEMMA BegunStays ==
    ASSUME NEW u \in DOMAIN decls, Begun(u), IsVariant(u)' => IsVariant(u),
           decls[u].implements \subseteq decls'[u].implements,
           phase' = "unions" => /\ phase = "unions" /\ order' = order
                                /\ next \in Nat /\ next' \in {next, next + 1},
           order \in Seq(DOMAIN decls)
    PROVE  Begun(u)'
<1>1. CASE decls[u].implements # {}
  BY <1>1 DEF Begun
<1>2. CASE ~IsVariant(u) /\ (phase = "unions" => \E j \in DOMAIN order : j < next /\ order[j] = u)
  <2>1. ASSUME phase' = "unions" PROVE \E j \in DOMAIN order' : j < next' /\ order'[j] = u
    <3>1. PICK j \in DOMAIN order : j < next /\ order[j] = u
      BY <1>2, <2>1
    <3>2. j < next'
      BY <2>1, <3>1
    <3> QED  BY <2>1, <3>1, <3>2
  <2> QED  BY <1>2, <2>1 DEF Begun
<1> QED  BY <1>1, <1>2 DEF Begun

\* The variants are the same ones as long as nobody changes them.
LEMMA SameVariants ==
    ASSUME DOMAIN decls \subseteq DOMAIN decls',
           \A n \in DOMAIN decls : decls'[n].variants = decls[n].variants,
           \A n \in DOMAIN decls' \ DOMAIN decls : decls'[n].variants = <<>>,
           NEW u
    PROVE  IsVariant(u)' <=> IsVariant(u)
<1>1. ASSUME NEW x \in DOMAIN decls, NEW j \in DOMAIN decls[x].variants,
             decls[x].variants[j].goName = u
      PROVE  IsVariant(u)'
  <2>1. x \in DOMAIN decls' /\ decls'[x].variants = decls[x].variants
    OBVIOUS
  <2> QED  BY <1>1, <2>1 DEF IsVariant
<1>2. ASSUME NEW x \in DOMAIN decls', NEW j \in DOMAIN decls'[x].variants,
             decls'[x].variants[j].goName = u
      PROVE  IsVariant(u)
  <2>1. x \in DOMAIN decls /\ decls'[x].variants = decls[x].variants
    BY <1>2
  <2> QED  BY <1>2, <2>1 DEF IsVariant
<1> QED  BY <1>1, <1>2 DEF IsVariant

\* A link stays good.
LEMMA LinkStays ==
    ASSUME NEW n, NEW u, LinkedBy(n, u), Begun(u) => Begun(u)', u \in DOMAIN decls',
           decls'[u].kind = decls[u].kind, decls'[u].property = decls[u].property,
           decls'[u].variants = decls[u].variants,
           decls'[n].dispatch = decls[n].dispatch
    PROVE  LinkedBy(n, u)'
BY DEF LinkedBy, IsInterface

\* Steps that change no link, nor what it rests on, leave the links as listed.
LEMMA SameLinks ==
    ASSUME LinksListed, phase' = "declare" => phase = "declare",
           DOMAIN decls \subseteq DOMAIN decls',
           \A n \in DOMAIN decls :
              /\ decls'[n].kind = decls[n].kind
              /\ decls'[n].variants = decls[n].variants
              /\ decls'[n].property = decls[n].property
              /\ decls'[n].dispatch = decls[n].dispatch
              /\ Begun(n) => Begun(n)',
           \A n \in DOMAIN decls' \ DOMAIN decls : decls'[n].dispatch = None
    PROVE  LinksListed'
<1>1. ASSUME NEW n \in DOMAIN decls', decls'[n].dispatch # None,
             NEW u, u = decls'[n].dispatch.union
      PROVE  LinkedBy(n, u)'
  <2>1. n \in DOMAIN decls /\ decls'[n].dispatch = decls[n].dispatch
    BY <1>1
  <2>2. LinkedBy(n, u)
    BY <1>1, <2>1 DEF LinksListed
  <2>3. u \in DOMAIN decls
    BY <2>2 DEF LinkedBy
  <2> QED  BY <2>1, <2>2, <2>3, LinkStays
<1>2. phase' = "declare" => \A n \in DOMAIN decls' : decls'[n].dispatch = None
  BY DEF LinksListed
<1> QED  BY <1>1, <1>2 DEF LinksListed

\* And what is listed stays linked, if the walk comes to nothing new.
LEMMA SameListings ==
    ASSUME IInv, ListedLinked, phase # "declare", doc' = doc,
           DOMAIN decls' = DOMAIN decls,
           \A n \in DOMAIN decls :
              /\ decls'[n].kind = decls[n].kind
              /\ decls'[n].variants = decls[n].variants
              /\ decls'[n].property = decls[n].property
              /\ decls'[n].dispatch = decls[n].dispatch
              /\ IsInterface(n) /\ Begun(n)' => Begun(n)
              /\ \A i \in DOMAIN decls[n].variants : Pending(n, n, i) => Pending(n, n, i)'
    PROVE  ListedLinked'
<1> SUFFICES ASSUME NEW u \in DOMAIN decls, IsInterface(u)', Begun(u)',
                    decls[u].property # None, NEW i \in DOMAIN decls[u].variants,
                    NEW n, n = decls[u].variants[i].goName, IsStruct(n)'
             PROVE  decls'[n].dispatch # None \/ Pending(u, u, i)'
  BY DEF ListedLinked
<1>1. IsInterface(u) /\ IsStruct(n)
  BY DEF IsInterface, IsStruct
<1>2. Begun(u)
  BY <1>1
<1>3. decls[n].dispatch # None \/ Pending(u, u, i)
  BY <1>1, <1>2 DEF ListedLinked
<1> QED  BY <1>1, <1>3 DEF IsStruct

\* At the start there is nothing to link.
LEMMA InitLinks == ASSUME Init PROVE Links
BY DEF Init, Links, Walking, LinksListed, ListedLinked, TagNamesTheVariant

\* Before the package is there, nothing has been sent.
LEMMA UnsentYet ==
    ASSUME IInv, phase # "generated", exchange' = exchange
    PROVE  TagNamesTheVariant'
BY DEF IInv, Emitted, TagNamesTheVariant

\* Nothing that is declared is linked already.
LEMMA FreshUnlinked ==
    ASSUME NEW s, DeclFromSchema(doc, decls, s) # None
    PROVE  DeclFromSchema(doc, decls, s).dispatch = None
<1> DEFINE u == doc.schemas[s]
<1>1. /\ \A f : Struct(f).dispatch = None
      /\ \A v, p : Interface(v, p).dispatch = None
  BY DEF Struct, Interface
<1>2. StructFromSchema(doc, s).dispatch = None
  BY <1>1 DEF StructFromSchema
<1>3. \A m : Flatten(doc, s, m).dispatch = None
  BY <1>1, Zenon DEF Flatten
<1>4. UnionFromDiscriminator(doc, s).dispatch = None
  BY <1>1, <1>3, Zenon DEF UnionFromDiscriminator
<1>5. UntaggedUnion(doc, decls, s).dispatch = None
  BY <1>1, <1>3, Zenon DEF UntaggedUnion
<1> QED  BY <1>2, <1>4, <1>5 DEF DeclFromSchema

\* The builder links nothing.
LEMMA DeclareLinks == ASSUME IInv, Links, Declare PROVE Links'
<1> DEFINE g == doc.goName[doc.order[next]]
           d == DeclFromSchema(doc, decls, doc.order[next])
<1>1. /\ phase = "declare"
      /\ UNCHANGED <<doc, phase, stack, body, exchange>> /\ next' = next + 1
      /\ \/ (g \in DOMAIN decls \/ d = None) /\ decls' = decls
         \/ /\ d # None /\ g \notin DOMAIN decls
            /\ DOMAIN decls' = DOMAIN decls \cup {g}
            /\ \A n \in DOMAIN decls' : decls'[n] = IF n = g THEN d ELSE decls[n]
  BY DeclareIs
<1>2. d # None => d.dispatch = None
  BY FreshUnlinked
<1> HIDE DEF d, g
<1>3. \A n \in DOMAIN decls' : decls'[n].dispatch = None
  BY <1>1, <1>2 DEF Links, LinksListed
<1>4. stack' = <<>>
  BY <1>1 DEF IInv, Calls
<1> QED  BY <1>1, <1>3, <1>4, UnsentYet DEF Links, Walking, LinksListed, ListedLinked

\* The walk starts where it has been nowhere.
LEMMA BuildLinks == ASSUME IInv, Links, BuildOperations PROVE Links'
<1>1. UNCHANGED <<doc, decls, order, stack, exchange>> /\ phase = "declare"
      /\ phase' = "unions" /\ next' = 1
  BY DEF BuildOperations, Enter
<1>2. \A u \in DOMAIN decls : ~Begun(u)'
  <2>1. \A u \in DOMAIN decls : decls[u].implements = {}
    BY <1>1 DEF IInv, Named
  <2>2. order \in Seq(DOMAIN decls)
    BY DEF IInv, TypeOK
  <2> QED  BY <1>1, <2>1, <2>2 DEF Begun
<1>3. stack' = <<>>
  BY <1>1 DEF IInv, Calls
<1>4. LinksListed'
  BY <1>1 DEF Links, LinksListed
<1> QED  BY <1>1, <1>2, <1>3, <1>4, UnsentYet DEF Links, Walking, ListedLinked

\* A call for a top-level union has all its links still to set.
LEMMA SeedLinks == ASSUME IInv, Links, Seed PROVE Links'
<1> DEFINE u == order[next]
<1>1. /\ UNCHANGED <<doc, phase, decls, order, body, exchange>> /\ next' = next + 1
      /\ phase = "unions" /\ stack = <<>> /\ next \in DOMAIN order
      /\ order \in Seq(DOMAIN decls) /\ next \in Nat \ {0}
  BY DEF IInv, TypeOK, Seed
<1>2. u \in DOMAIN decls /\ u \in Name
  BY <1>1 DEF IInv, TypeOK
<1>3. stack' = IF IsInterface(u) /\ ~IsVariant(u) THEN Call(u, {}) ELSE <<>>
  BY DEF Seed
<1>a. \E j \in DOMAIN order : j < next + 1 /\ order[j] = u
  BY <1>1
<1>b. u' = order'[next']
  OBVIOUS
<1> HIDE DEF u
<1>4. \A n \in DOMAIN decls : Begun(n) => Begun(n)'
  <2> SUFFICES ASSUME NEW n \in DOMAIN decls, Begun(n) PROVE Begun(n)'
    OBVIOUS
  <2>1. IsVariant(n)' => IsVariant(n)
    BY <1>1 DEF IsVariant
  <2> QED  BY <1>1, <2>1, BegunStays
<1>5. ASSUME NEW n \in DOMAIN decls, n = u, IsInterface(n), ~IsVariant(n)
      PROVE  /\ Begun(n)' /\ stack' = Call(n, {})
             /\ stack' \in Seq(Frame) /\ DOMAIN stack' = {1} /\ stack'[1].union = n
             /\ n \in stack'[1].markers /\ stack'[1].at = 1
  <2>1. ~IsVariant(n)'
    BY <1>1, <1>5 DEF IsVariant
  <2>2. Begun(n)'
    BY <1>1, <1>a, <1>5, <2>1 DEF Begun
  <2>3. stack' = Call(n, {})
    BY <1>3, <1>5
  <2>4. /\ stack' \in Seq(Frame) /\ Len(stack') = 1 /\ stack'[1].union = n
        /\ n \in stack'[1].markers /\ stack'[1].at = 1
    BY <1>2, <1>5, <2>3, CallTyped
  <2> QED  BY <2>2, <2>3, <2>4
<1>6. Walking'
  <2> SUFFICES ASSUME NEW k \in DOMAIN stack', NEW w, w = stack'[k].union
               PROVE  IsInterface(w)' /\ Begun(w)' /\ w \in stack'[k].markers
    BY DEF Walking
  <2>1. IsInterface(u) /\ ~IsVariant(u)
    BY <1>3
  <2>2. k = 1 /\ w = u
    BY <1>2, <1>5, <2>1
  <2> QED  BY <1>1, <1>2, <1>5, <2>1, <2>2 DEF IsInterface
<1>7. LinksListed'
  BY <1>1, <1>4, SameLinks DEF Links
<1>8. ListedLinked'
  <2> SUFFICES ASSUME NEW w \in DOMAIN decls, IsInterface(w), Begun(w)',
                      decls[w].property # None, NEW i \in DOMAIN decls[w].variants,
                      NEW n, n = decls[w].variants[i].goName, IsStruct(n)
               PROVE  decls[n].dispatch # None \/ Pending(w, w, i)'
    BY <1>1 DEF ListedLinked, IsInterface, IsStruct
  <2>1. ~Pending(w, w, i)
    BY <1>1 DEF Pending
  <2>2. CASE Begun(w)
    BY <1>1, <2>1, <2>2 DEF Links, ListedLinked
  <2>3. CASE ~Begun(w)
    <3>1. decls[w].implements = {} /\ ~IsVariant(w)
      BY <1>1, <2>3 DEF Begun, IsVariant
    <3>2. w = u
      <4>1. PICK j \in DOMAIN order : j < next + 1 /\ order[j] = w
        BY <1>1, <3>1 DEF Begun
      <4>2. ~(j < next)
        BY <1>1, <2>3, <3>1, <4>1 DEF Begun
      <4> QED  BY <4>1, <4>2, <1>1 DEF u
    <3>3. 1 \in DOMAIN stack' /\ stack'[1].union = w /\ w \in stack'[1].markers
          /\ stack'[1].at = 1
      BY <1>5, <3>1, <3>2
    <3>4. decls[w].variants \in Seq(Variant)
      BY DEF IInv, TypeOK, IsDecl
    <3>5. 1 <= i
      BY <3>4
    <3> QED  BY <3>3, <3>5 DEF Pending
  <2> QED  BY <2>2, <2>3
<1> QED  BY <1>1, <1>6, <1>7, <1>8, UnsentYet DEF Links

\* A call that has seen its last variant has no link to set any more.
LEMMA ReturnLinks == ASSUME IInv, Links, Return PROVE Links'
<1>1. /\ UNCHANGED <<doc, phase, next, decls, order, body, exchange>>
      /\ phase = "unions" /\ stack # <<>> /\ stack' = Tail(stack)
      /\ Top.at > Len(decls[Top.union].variants)
  BY DEF Return, Below
<1>2. stack \in Seq(Frame)
  BY DEF IInv, TypeOK
<1>3. stack' \in Seq(Frame) /\ Len(stack') = Len(stack) - 1
      /\ \A k \in DOMAIN stack' : k + 1 \in DOMAIN stack /\ stack'[k] = stack[k + 1]
  BY <1>1, <1>2
<1>4. \A n : Begun(n)' <=> Begun(n)
  BY <1>1 DEF Begun, IsVariant
<1>5. Walking'
  <2> SUFFICES ASSUME NEW k \in DOMAIN stack', NEW w, w = stack'[k].union
               PROVE  IsInterface(w)' /\ Begun(w)' /\ w \in stack'[k].markers
    BY DEF Walking
  <2> QED  BY <1>1, <1>3, <1>4 DEF Links, Walking, IsInterface
<1>6. LinksListed'
  BY <1>1, <1>4, SameLinks DEF Links
<1>7. ASSUME NEW w \in DOMAIN decls, NEW i \in DOMAIN decls[w].variants, Pending(w, w, i)
      PROVE  Pending(w, w, i)'
  <2>1. PICK k \in DOMAIN stack : stack[k].union = w /\ w \in stack[k].markers /\ stack[k].at <= i
    BY <1>7 DEF Pending
  <2>2. decls[w].variants \in Seq(Variant)
    BY DEF IInv, TypeOK, IsDecl
  <2>3. k # 1
    <3>1. i <= Len(decls[w].variants) /\ i \in Nat /\ Len(decls[w].variants) \in Nat
      BY <2>2
    <3>2. Top \in Frame /\ Top.at \in Nat
      BY <1>1, <1>2, ResumedIs, FrameFields
    <3> QED  BY <1>1, <2>1, <3>1, <3>2 DEF Top
  <2>4. k - 1 \in DOMAIN stack' /\ stack'[k - 1] = stack[k]
    BY <1>1, <1>2, <1>3, <2>3
  <2> QED  BY <2>1, <2>4 DEF Pending
<1>8. ListedLinked'
  BY <1>1, <1>4, <1>7, SameListings DEF Links
<1> QED  BY <1>1, <1>5, <1>6, <1>8, UnsentYet DEF Links

\* A variant that is visited is linked if its union has a tag for it; one that is a
\* union is marked, so the walk has come to it, and its own links are still to set.
LEMMA VisitLinks == ASSUME IInv, Links, Visit PROVE Links'
<1> DEFINE u == Top.union
           M == Top.markers
           v == decls[u].variants[Top.at]
           n == v.goName
<1>1. /\ UNCHANGED <<doc, phase, next, order, body, exchange>>
      /\ phase = "unions" /\ stack # <<>> /\ stack \in Seq(Frame)
      /\ u \in DOMAIN decls /\ Top.at \in DOMAIN decls[u].variants
      /\ n \in Name /\ M \in SUBSET Name
      /\ DOMAIN decls' = DOMAIN decls
      /\ \A x \in DOMAIN decls :
            /\ decls'[x].kind = decls[x].kind
            /\ decls'[x].fields = decls[x].fields
            /\ decls'[x].variants = decls[x].variants
            /\ decls'[x].property = decls[x].property
            /\ decls[x].implements \subseteq decls'[x].implements
            /\ x # n => decls'[x].implements = decls[x].implements
            /\ decls'[x].dispatch =
                  IF x = n /\ decls[x].kind = "struct" THEN Link(u, v)
                  ELSE decls[x].dispatch
      /\ n \in DOMAIN decls => M \subseteq decls'[n].implements
      /\ stack' = IF IsInterface(n) THEN Call(n, M) \o Resumed ELSE Resumed
  BY VisitIs, Zenon
<1>2. 1 \in DOMAIN stack /\ Top = stack[1]
  <2>1. stack \in Seq(Frame) /\ stack # <<>>
    BY <1>1
  <2>2. 1 \in DOMAIN stack
    BY <2>1
  <2> QED  BY <2>2 DEF Top
<1>3. IsInterface(u) /\ Begun(u) /\ u \in M
  BY <1>2 DEF Links, Walking
<1>4. Link(u, v) = IF decls[u].property = None THEN decls[n].dispatch
                   ELSE [union |-> u, property |-> decls[u].property, value |-> v.tag]
  BY DEF Link
<1>5. decls[u].property # None =>
          [union |-> u, property |-> decls[u].property, value |-> v.tag] # None
  <2> SUFFICES ASSUME decls[u].property # None
               PROVE  [union |-> u, property |-> decls[u].property, value |-> v.tag] # None
    OBVIOUS
  <2>1. decls[u].property \in Prop /\ decls[u].variants \in Seq(Variant)
    BY <1>1 DEF IInv, TypeOK, IsDecl
  <2>2. v.tag \in Tag \cup {None}
    <3>1. v \in Variant
      BY <1>1, <2>1, ElementOf
    <3> QED  BY <3>1 DEF Variant
  <2>3. u \in Name
    BY <1>1 DEF IInv, TypeOK
  <2> HIDE DEF v, u
  <2>4. [union |-> u, property |-> decls[u].property, value |-> v.tag] \in UnionLink
    BY <2>1, <2>2, <2>3 DEF UnionLink
  <2> QED  BY <2>4, GeneratorAssumption
<1>a. v = decls[u].variants[Top.at] /\ n = v.goName
  OBVIOUS
<1>6. \A x : IsVariant(x)' <=> IsVariant(x)
  BY <1>1, SameVariants
<1>b. order \in Seq(DOMAIN decls) /\ next \in Nat
  BY DEF IInv, TypeOK
<1> HIDE DEF v, n, u, M
<1>7. \A x \in DOMAIN decls : Begun(x) => Begun(x)'
  <2> SUFFICES ASSUME NEW x \in DOMAIN decls, Begun(x) PROVE Begun(x)'
    OBVIOUS
  <2> QED  BY <1>1, <1>6, <1>b, BegunStays
<1>8. ASSUME NEW x \in DOMAIN decls, x = n PROVE Begun(x)'
  <2>1. u \in decls'[x].implements
    BY <1>1, <1>3, <1>8
  <2> QED  BY <2>1 DEF Begun
<1>9. \A k \in DOMAIN stack :
          Resumed[k].union = stack[k].union /\ Resumed[k].markers = stack[k].markers
  <2> SUFFICES ASSUME NEW k \in DOMAIN stack
               PROVE  Resumed[k].union = stack[k].union /\ Resumed[k].markers = stack[k].markers
    OBVIOUS
  <2>1. CASE k = 1
    BY <1>1, <1>2, <2>1, ResumedIs
  <2>2. CASE k # 1
    BY <1>1, <2>2, ResumedIs
  <2> QED  BY <2>1, <2>2
<1>10. Walking'
  <2> SUFFICES ASSUME NEW k \in DOMAIN stack', NEW w, w = stack'[k].union
               PROVE  IsInterface(w)' /\ Begun(w)' /\ w \in stack'[k].markers
    BY DEF Walking
  <2>1. ASSUME NEW j \in DOMAIN stack, stack'[k] = Resumed[j]
        PROVE  IsInterface(w)' /\ Begun(w)' /\ w \in stack'[k].markers
    <3>1. w = stack[j].union /\ stack'[k].markers = stack[j].markers
      BY <1>9, <2>1
    <3>2. IsInterface(w) /\ Begun(w) /\ w \in stack[j].markers
      BY <3>1 DEF Links, Walking
    <3> QED  BY <1>1, <1>7, <3>1, <3>2 DEF IsInterface
  <2>2. CASE ~IsInterface(n)
    <3>1. stack' = Resumed
      BY <1>1, <2>2
    <3>2. k \in DOMAIN stack
      BY <1>1, <3>1, ResumedIs
    <3> QED  BY <2>1, <3>1, <3>2
  <2>3. CASE IsInterface(n)
    <3>1. /\ stack' \in Seq(Frame) /\ Len(stack') = Len(stack) + 1
          /\ stack'[1].union = n /\ stack'[1].markers = M \cup {n}
          /\ \A j \in DOMAIN stack : stack'[j + 1] = Resumed[j]
      <4>1. stack' = Call(n, M) \o Resumed
        BY <1>1, <2>3
      <4>2. n \in Name /\ M \in SUBSET Name /\ stack \in Seq(Frame) /\ stack # <<>>
        BY <1>1
      <4> DEFINE called == Call(n, M) \o Resumed
      <4>3. /\ called \in Seq(Frame) /\ Len(called) = Len(stack) + 1
            /\ called[1].union = n /\ called[1].markers = M \cup {n}
            /\ \A j \in DOMAIN stack : called[j + 1] = Resumed[j]
        <5> HIDE DEF M
        <5> QED  BY <4>2, CalledIs
      <4> HIDE DEF called
      <4> QED  BY <4>1, <4>3 DEF called
    <3>2. CASE k = 1
      <4>1. w = n /\ w \in stack'[k].markers
        BY <3>1, <3>2
      <4>2. w \in DOMAIN decls /\ decls[w].kind = "interface"
        BY <2>3, <4>1 DEF IsInterface
      <4> QED  BY <1>1, <1>8, <4>1, <4>2 DEF IsInterface
    <3>3. CASE k # 1
      <4>1. k - 1 \in DOMAIN stack /\ k = (k - 1) + 1
        BY <1>1, <3>1, <3>3
      <4> QED  BY <2>1, <3>1, <4>1
    <3> QED  BY <3>2, <3>3
  <2> QED  BY <2>2, <2>3
<1>11. LinksListed'
  <2> SUFFICES ASSUME NEW x \in DOMAIN decls, decls'[x].dispatch # None,
                      NEW w, w = decls'[x].dispatch.union
               PROVE  LinkedBy(x, w)'
    BY <1>1 DEF LinksListed
  <2>1. CASE x = n /\ decls[x].kind = "struct" /\ decls[u].property # None
    <3>1. decls'[x].dispatch = [union |-> u, property |-> decls[u].property, value |-> v.tag]
      BY <1>1, <1>4, <2>1
    <3>2. w = u /\ decls'[x].dispatch.property = decls[u].property
          /\ decls'[x].dispatch.value = v.tag
      BY <3>1
    <3>3. w \in DOMAIN decls' /\ IsInterface(w)' /\ Begun(w)' /\ decls'[w].property # None
      BY <1>1, <1>3, <1>7, <2>1, <3>2 DEF IsInterface
    <3>4. /\ Top.at \in DOMAIN decls'[w].variants
          /\ decls'[w].variants[Top.at].goName = x
          /\ decls'[x].dispatch.property = decls'[w].property
          /\ decls'[x].dispatch.value = decls'[w].variants[Top.at].tag
      <4>1. decls'[w].variants = decls[u].variants /\ decls'[w].property = decls[u].property
        BY <1>1, <3>2
      <4>2. Top.at \in DOMAIN decls[u].variants /\ decls[u].variants[Top.at] = v /\ v.goName = x
        BY <1>1, <1>a, <2>1
      <4> QED  BY <3>2, <4>1, <4>2
    <3>5. \E i \in DOMAIN decls'[w].variants :
              /\ decls'[w].variants[i].goName = x
              /\ decls'[x].dispatch.property = decls'[w].property
              /\ decls'[x].dispatch.value = decls'[w].variants[i].tag
      BY <3>4, Zenon
    <3> QED  BY <3>3, <3>5 DEF LinkedBy
  <2>2. CASE ~(x = n /\ decls[x].kind = "struct" /\ decls[u].property # None)
    <3>1. decls'[x].dispatch = decls[x].dispatch
      BY <1>1, <1>4, <2>2
    <3>2. LinkedBy(x, w)
      BY <3>1 DEF Links, LinksListed
    <3>3. w \in DOMAIN decls
      BY <3>2 DEF LinkedBy
    <3> QED  BY <1>1, <1>7, <3>1, <3>2, <3>3, LinkStays
  <2> QED  BY <2>1, <2>2
<1>12. ListedLinked'
  <2> SUFFICES ASSUME NEW w \in DOMAIN decls, IsInterface(w), Begun(w)',
                      decls[w].property # None, NEW i \in DOMAIN decls[w].variants,
                      NEW y, y = decls[w].variants[i].goName, IsStruct(y)
               PROVE  decls'[y].dispatch # None \/ Pending(w, w, i)'
    BY <1>1 DEF ListedLinked, IsInterface, IsStruct
  <2>1. i \in Nat \ {0}
    <3>1. decls[w].variants \in Seq(Variant)
      BY DEF IInv, TypeOK, IsDecl
    <3> QED  BY <3>1
  <2>2. CASE Begun(w)
    <3>1. decls[y].dispatch # None \/ Pending(w, w, i)
      BY <1>1, <2>2 DEF Links, ListedLinked
    <3>2. CASE decls[y].dispatch # None
      BY <1>1, <1>4, <1>5, <3>2 DEF IsStruct
    <3>3. CASE Pending(w, w, i)
      <4>1. \/ stack' = Resumed
            \/ \E c \in Name, N \in SUBSET Name : stack' = Call(c, N) \o Resumed
        BY <1>1
      <4>2. Pending(w, w, i)' \/ (w = u /\ i = Top.at)
        BY <1>1, <2>1, <3>3, <4>1, PendingAfter DEF u
      <4>3. CASE w = u /\ i = Top.at
        <5>1. y = n
          BY <1>a, <4>3
        <5> QED  BY <1>1, <1>4, <1>5, <4>3, <5>1 DEF IsStruct
      <4> QED  BY <4>2, <4>3
    <3> QED  BY <3>1, <3>2, <3>3
  <2>3. CASE ~Begun(w)
    <3>1. w = n
      <4> SUFFICES ASSUME w # n PROVE FALSE
        OBVIOUS
      <4>1. decls'[w].implements = decls[w].implements
        BY <1>1
      <4> QED  BY <1>1, <1>6, <2>3, <4>1 DEF Begun
    <3>2. stack' = Call(n, M) \o Resumed
      BY <1>1, <3>1
    <3>3. /\ stack' \in Seq(Frame) /\ Len(stack') = Len(stack) + 1
          /\ stack'[1].union = n /\ stack'[1].markers = M \cup {n} /\ stack'[1].at = 1
      <4>1. n \in Name /\ M \in SUBSET Name /\ stack \in Seq(Frame) /\ stack # <<>>
        BY <1>1
      <4> QED  BY <3>2, <4>1, CalledIs
    <3>4. 1 \in DOMAIN stack' /\ stack'[1].at <= i
      BY <1>1, <2>1, <3>3
    <3> QED  BY <3>1, <3>3, <3>4 DEF Pending
  <2> QED  BY <2>2, <2>3
<1> QED  BY <1>1, <1>10, <1>11, <1>12, UnsentYet DEF Links

\* A pass over all declarations after the walk finds every union it reaches settled,
\* and settled they stay.
LEMMA PassLinks ==
    ASSUME IInv, Links,
           \/ phase = "unions" /\ stack = <<>> /\ next > Len(order)
           \/ phase \notin {"declare", "unions", "generated"},
           phase' \notin {"declare", "unions"},
           UNCHANGED <<doc, order, stack, exchange>>,
           DOMAIN decls \subseteq DOMAIN decls',
           \A n \in DOMAIN decls :
              /\ decls'[n].kind = decls[n].kind
              /\ decls'[n].variants = decls[n].variants
              /\ decls'[n].property = decls[n].property
              /\ decls'[n].implements = decls[n].implements
              /\ decls'[n].dispatch = decls[n].dispatch,
           \A n \in DOMAIN decls' \ DOMAIN decls :
              /\ n \notin GoNames(doc) /\ decls'[n].kind = "struct"
              /\ decls'[n].variants = <<>> /\ decls'[n].dispatch = None
    PROVE  Links'
<1>1. stack = <<>> /\ phase \notin {"declare", "generated"}
  BY DEF IInv, Calls
<1>2. order \in Seq(DOMAIN decls) /\ next \in Nat
  BY DEF IInv, TypeOK
<1>3. \A n : IsVariant(n)' <=> IsVariant(n)
  BY SameVariants
<1>4. \A n \in DOMAIN decls : Begun(n) => Begun(n)'
  <2> SUFFICES ASSUME NEW n \in DOMAIN decls, Begun(n) PROVE Begun(n)'
    OBVIOUS
  <2> QED  BY <1>2, <1>3, BegunStays
<1>5. ASSUME NEW n \in DOMAIN decls, Begun(n)' PROVE Begun(n)
  <2>1. decls[n].implements # {} \/ ~IsVariant(n)
    BY <1>3, <1>5 DEF Begun
  <2>2. phase = "unions" => \E j \in DOMAIN order : j < next /\ order[j] = n
    <3> SUFFICES ASSUME phase = "unions"
                 PROVE  \E j \in DOMAIN order : j < next /\ order[j] = n
      OBVIOUS
    <3>1. PICK j \in DOMAIN order : order[j] = n
      BY DEF IInv, Named
    <3> QED  BY <1>2, <3>1
  <2> QED  BY <2>1, <2>2 DEF Begun
<1>6. Walking'
  BY <1>1 DEF Walking
<1>7. LinksListed'
  BY <1>4, SameLinks DEF Links
<1>8. ListedLinked'
  <2> SUFFICES ASSUME NEW u \in DOMAIN decls', IsInterface(u)', Begun(u)',
                      decls'[u].property # None, NEW i \in DOMAIN decls'[u].variants,
                      NEW n, n = decls'[u].variants[i].goName, IsStruct(n)'
               PROVE  decls'[n].dispatch # None
    BY DEF ListedLinked
  <2>1. u \in DOMAIN decls
    BY DEF IsInterface
  <2>2. n \in GoNames(doc)
    BY <2>1 DEF IInv, Named
  <2>3. n \in DOMAIN decls /\ IsStruct(n)
    BY <2>2 DEF IsStruct
  <2>4. IsInterface(u) /\ Begun(u) /\ decls[u].property # None
        /\ i \in DOMAIN decls[u].variants /\ n = decls[u].variants[i].goName
    BY <1>5, <2>1 DEF IsInterface
  <2>5. decls[n].dispatch # None \/ Pending(u, u, i)
    BY <1>1, <2>1, <2>3, <2>4 DEF Links, ListedLinked
  <2>6. ~Pending(u, u, i)
    BY <1>1 DEF Pending
  <2> QED  BY <2>3, <2>5, <2>6
<1> QED  BY <1>1, <1>6, <1>7, <1>8, UnsentYet DEF Links

\* Dropping the fields of the tags leaves the links.
LEMMA DropLinks == ASSUME IInv, Links, DropTagFields PROVE Links'
<1>1. /\ UNCHANGED <<doc, order, stack, body, exchange>>
      /\ phase = "unions" /\ stack = <<>> /\ next > Len(order)
      /\ phase' = "readOnly"
      /\ decls' = [n \in DOMAIN decls |-> WithoutTagField(decls[n])]
  BY DEF DropTagFields, Enter
<1>2. \A n \in DOMAIN decls : IsDecl(decls[n])
  BY DEF IInv, TypeOK
<1>3. \A n \in DOMAIN decls :
          /\ decls'[n].kind = decls[n].kind
          /\ decls'[n].variants = decls[n].variants
          /\ decls'[n].property = decls[n].property
          /\ decls'[n].implements = decls[n].implements
          /\ decls'[n].dispatch = decls[n].dispatch
  BY <1>1, <1>2, WithoutTagTyped
<1>4. DOMAIN decls' = DOMAIN decls
  BY <1>1
<1> QED  BY <1>1, <1>3, <1>4, PassLinks

\* A clone is not linked, and no union lists it.
LEMMA CloneLinks == ASSUME IInv, Links, CloneShared PROVE Links'
<1>1. /\ UNCHANGED <<doc, order, stack, exchange>>
      /\ phase = "readOnly" /\ phase' = "promote"
      /\ Shared \subseteq DOMAIN decls
      /\ DOMAIN decls' = DOMAIN decls \cup {Input[m] : m \in Shared}
      /\ \A n \in DOMAIN decls : decls'[n] = decls[n]
      /\ \A m \in Shared : /\ Input[m] \notin GoNames(doc)
                           /\ decls'[Input[m]] = StripReadOnly(decls[m])
  BY CloneSharedIs
<1>2. ASSUME NEW m \in Shared
      PROVE  /\ Input[m] \notin GoNames(doc) /\ decls'[Input[m]].kind = "struct"
             /\ decls'[Input[m]].variants = <<>> /\ decls'[Input[m]].dispatch = None
  <2>1. IsDecl(decls[m])
    BY <1>1 DEF IInv, TypeOK
  <2> QED  BY <1>1, <2>1, CloneIs, StrippedTyped
<1>3. \A n \in DOMAIN decls' \ DOMAIN decls :
          /\ n \notin GoNames(doc) /\ decls'[n].kind = "struct"
          /\ decls'[n].variants = <<>> /\ decls'[n].dispatch = None
  BY <1>1, <1>2
<1> QED  BY <1>1, <1>3, PassLinks

\* Pointers change no link.
LEMMA PromoteLinks == ASSUME IInv, Links, PromoteOptionalStructs PROVE Links'
<1>1. /\ UNCHANGED <<doc, order, stack, body, exchange>>
      /\ phase = "promote" /\ phase' = "generated"
      /\ decls' = [n \in DOMAIN decls |->
                      [decls[n] EXCEPT !.fields = [p \in DOMAIN @ |-> Promoted(@[p])]]]
  BY DEF PromoteOptionalStructs, Enter
<1>2. DOMAIN decls' = DOMAIN decls
  BY <1>1
<1>3. ASSUME NEW n \in DOMAIN decls
      PROVE  /\ decls'[n].kind = decls[n].kind
             /\ decls'[n].variants = decls[n].variants
             /\ decls'[n].property = decls[n].property
             /\ decls'[n].implements = decls[n].implements
             /\ decls'[n].dispatch = decls[n].dispatch
  <2>1. IsDecl(decls[n])
    BY DEF IInv, TypeOK
  <2>2. decls'[n] = [decls[n] EXCEPT !.fields = [p \in DOMAIN @ |-> Promoted(@[p])]]
    BY <1>1
  <2> QED  BY <2>1, <2>2, PromotedTyped
<1> QED  BY <1>1, <1>2, <1>3, PassLinks

\* In the package, a tagged union's variants carry the tag of a union that lists them:
\* if there is only one such tag, it is that one.
LEMMA TagIsTheOne ==
    ASSUME IInv, Links, phase = "generated", NEW n, IsStruct(n),
           NEW l, Listings(n) = {l}
    PROVE  Injected(n) = [p \in {l.property} |-> l.tag]
<1>1. \A u : Reached(u) <=> IsInterface(u) /\ Begun(u)
  BY DEF Reached, Begun
<1>2. PICK u \in TaggedUnions : \E i \in DOMAIN decls[u].variants : decls[u].variants[i].goName = n
  <2>1. l \in Listings(n)
    OBVIOUS
  <2> QED  BY <2>1, Zenon DEF Listings
<1>3. u \in DOMAIN decls /\ IsInterface(u) /\ Begun(u) /\ decls[u].property # None
  BY <1>1, <1>2 DEF TaggedUnions
<1>4. PICK i \in DOMAIN decls[u].variants : decls[u].variants[i].goName = n
  BY <1>2
<1>5. ~Pending(u, u, i)
  BY DEF IInv, Calls, Pending
<1>6. decls[n].dispatch # None
  BY <1>3, <1>4, <1>5 DEF Links, ListedLinked
<1>7. LinkedBy(n, decls[n].dispatch.union)
  BY <1>6 DEF Links, LinksListed, IsStruct
<1> DEFINE w == decls[n].dispatch.union
<1>8. PICK j \in DOMAIN decls[w].variants :
          /\ decls[w].variants[j].goName = n
          /\ decls[n].dispatch.property = decls[w].property
          /\ decls[n].dispatch.value = decls[w].variants[j].tag
  BY <1>7 DEF LinkedBy
<1>9. w \in TaggedUnions
  BY <1>1, <1>7 DEF TaggedUnions, LinkedBy
<1> DEFINE m == [property |-> decls[w].property, tag |-> decls[w].variants[j].tag]
<1>10. m \in Listings(n)
  <2> DEFINE Here(v) == {[property |-> decls[v].property, tag |-> decls[v].variants[k].tag] :
                            k \in {x \in DOMAIN decls[v].variants : decls[v].variants[x].goName = n}}
  <2>1. j \in {x \in DOMAIN decls[w].variants : decls[w].variants[x].goName = n}
    BY <1>8
  <2>2. m \in Here(w)
    BY <2>1, Zenon
  <2>3. Listings(n) = UNION {Here(v) : v \in TaggedUnions}
    BY Zenon DEF Listings
  <2> HIDE DEF Here, m, w
  <2> QED  BY <1>9, <2>2, <2>3, Zenon
<1>11. m = l
  BY <1>10
<1>12. decls[n].dispatch.property = l.property /\ decls[n].dispatch.value = l.tag
  <2>1. m.property = decls[w].property /\ m.tag = decls[w].variants[j].tag
    OBVIOUS
  <2> HIDE DEF m
  <2> QED  BY <1>8, <1>11, <2>1
<1> QED  BY <1>6, <1>12 DEF Injected

\* What is sent carries the tag of its type.
LEMMA SendLinks == ASSUME IInv, Links, NEW o \in Op, Send(o) PROVE TagNamesTheVariant'
<1>1. /\ phase = "generated" /\ body[o] \in DOMAIN decls
      /\ UNCHANGED <<doc, phase, next, decls, order, stack, body>>
  BY Zenon DEF Send
<1>n. PICK n \in Accepted(body[o]) : \E set \in SUBSET OptionalOf(n) :
          exchange' = [kind |-> "sent", op |-> o, of |-> n, set |-> set,
                       keys |-> Written(n, set) \cup DOMAIN Injected(n),
                       tags |-> Injected(n), got |-> None]
  BY Zenon DEF Send
<1>2. PICK set \in SUBSET OptionalOf(n) :
          exchange' = [kind |-> "sent", op |-> o, of |-> n, set |-> set,
                       keys |-> Written(n, set) \cup DOMAIN Injected(n),
                       tags |-> Injected(n), got |-> None]
  BY <1>n
<1>3. IsStruct(n)
  BY DEF Accepted
<1>4. exchange'.of = n /\ exchange'.tags = Injected(n)
  BY <1>2
<1>5. Listings(n)' = Listings(n)
  BY <1>1 DEF Listings, TaggedUnions, Reached, IsInterface, IsVariant
<1>6. ASSUME NEW l, Listings(n) = {l} PROVE Injected(n) = [p \in {l.property} |-> l.tag]
  BY <1>1, <1>3, <1>6, TagIsTheOne
<1>7. ASSUME NEW x, x = exchange'.of, NEW l, Listings(x)' = {l}
      PROVE  exchange'.tags = [p \in {l.property} |-> l.tag]
  BY <1>4, <1>5, <1>6, <1>7
<1> QED  BY <1>7 DEF TagNamesTheVariant

\* Nothing else touches the links, nor what was sent.
LEMMA NextLinks == ASSUME IInv, Links, [Next]_vars PROVE Links'
<1>1. ASSUME \/ UNCHANGED vars \/ Callback
             \/ \E o \in Op : Send(o) \/ Reply(o)
      PROVE  Walking' /\ LinksListed' /\ ListedLinked'
  <2>1. UNCHANGED <<doc, phase, next, decls, order, stack>>
    BY <1>1, Zenon DEF vars, Callback, Send, Reply
  <2>2. \A u : Begun(u)' <=> Begun(u)
    BY <2>1 DEF Begun, IsVariant
  <2>3. Walking'
    <3> SUFFICES ASSUME NEW k \in DOMAIN stack, NEW w, w = stack[k].union
                 PROVE  IsInterface(w)' /\ Begun(w)' /\ w \in stack[k].markers
      BY <2>1 DEF Walking
    <3> QED  BY <2>1, <2>2 DEF Links, Walking, IsInterface
  <2>4. LinksListed'
    BY <2>1, <2>2, SameLinks DEF Links
  <2>5. ASSUME phase = "declare" PROVE ListedLinked'
    BY <2>1, <2>5 DEF ListedLinked
  <2>6. ASSUME phase # "declare" PROVE ListedLinked'
    <3>1. \A u, i : Pending(u, u, i)' <=> Pending(u, u, i)
      BY <2>1 DEF Pending
    <3> QED  BY <2>1, <2>2, <2>6, <3>1, SameListings DEF Links
  <2> QED  BY <2>3, <2>4, <2>5, <2>6
<1>2. ASSUME UNCHANGED vars PROVE TagNamesTheVariant'
  BY <1>2 DEF vars, Links, TagNamesTheVariant, Listings, TaggedUnions, Reached,
              IsInterface, IsVariant
<1>3. ASSUME Callback \/ \E o \in Op : Reply(o) PROVE TagNamesTheVariant'
  <2>1. exchange'.kind # "sent"
    <3>1. ASSUME Callback PROVE exchange'.kind = "callback"
      <4>1. PICK m : \E keys \in KeySets(m) :
                exchange' = [kind |-> "callback", op |-> None, of |-> m.schema, set |-> {},
                             keys |-> keys, tags |-> m.tags,
                             got |-> DecodeCallback(TypeOf(doc.callback), keys, m.tags)]
        BY <3>1, Zenon DEF Callback, Receive
      <4> QED  BY <4>1
    <3>2. ASSUME NEW o \in Op, Reply(o) PROVE exchange'.kind = "reply"
      <4>1. PICK m : \E keys \in KeySets(m) :
                exchange' = [kind |-> "reply", op |-> o, of |-> m.schema, set |-> {},
                             keys |-> keys, tags |-> m.tags,
                             got |-> DecodeReply(TypeOf(doc.reply[o]), keys)]
        BY <3>2, Zenon DEF Reply, Receive
      <4> QED  BY <4>1
    <3> QED  BY <1>3, <3>1, <3>2
  <2> QED  BY <2>1 DEF TagNamesTheVariant
<1>4. ASSUME UNCHANGED vars \/ Use PROVE Links'
  BY <1>1, <1>2, <1>3, <1>4, SendLinks DEF Links, Use
<1> QED  BY <1>4, DeclareLinks, BuildLinks, SeedLinks, VisitLinks, ReturnLinks, DropLinks,
            CloneLinks, PromoteLinks DEF Next, Generate

----------------------------------------------------------------------------
(* What is sent.                                                           *)

\* A step that sends sends a struct that is accepted, under its own tags.
LEMMA SendIs ==
    ASSUME NEW o \in Op, Send(o)
    PROVE  /\ phase = "generated" /\ body[o] \in DOMAIN decls
           /\ UNCHANGED <<doc, phase, next, decls, order, stack, body>>
           /\ exchange'.op = o /\ exchange'.kind = "sent"
           /\ \E n \in Accepted(body[o]) :
                 /\ exchange'.of = n /\ exchange'.tags = Injected(n)
                 /\ exchange'.keys \subseteq DOMAIN decls[n].fields \cup DOMAIN Injected(n)
<1>1. /\ phase = "generated" /\ body[o] \in DOMAIN decls
      /\ UNCHANGED <<doc, phase, next, decls, order, stack, body>>
  BY Zenon DEF Send
<1>n. PICK n \in Accepted(body[o]) : \E set \in SUBSET OptionalOf(n) :
          exchange' = [kind |-> "sent", op |-> o, of |-> n, set |-> set,
                       keys |-> Written(n, set) \cup DOMAIN Injected(n),
                       tags |-> Injected(n), got |-> None]
  BY Zenon DEF Send
<1>2. PICK set \in SUBSET OptionalOf(n) :
          exchange' = [kind |-> "sent", op |-> o, of |-> n, set |-> set,
                       keys |-> Written(n, set) \cup DOMAIN Injected(n),
                       tags |-> Injected(n), got |-> None]
  BY <1>n
<1>3. /\ exchange'.op = o /\ exchange'.kind = "sent"
      /\ exchange'.of = n /\ exchange'.tags = Injected(n)
      /\ exchange'.keys = Written(n, set) \cup DOMAIN Injected(n)
  BY <1>2
<1>4. Written(n, set) \subseteq DOMAIN decls[n].fields
  BY DEF Written
<1> QED  BY <1>1, <1>3, <1>4

\* So a body that is a reply too leaves without what is read-only.
LEMMA SendStripped == ASSUME IInv, Provenance, NEW o \in Op, Send(o) PROVE ReadOnlyIsNotSent'
<1>1. /\ phase = "generated" /\ body[o] \in DOMAIN decls
      /\ UNCHANGED <<doc, phase, next, decls, order, stack, body>>
      /\ exchange'.op = o /\ exchange'.kind = "sent"
  BY SendIs
<1>2. PICK n \in Accepted(body[o]) :
          /\ exchange'.of = n /\ exchange'.tags = Injected(n)
          /\ exchange'.keys \subseteq DOMAIN decls[n].fields \cup DOMAIN Injected(n)
  BY SendIs
<1> SUFFICES ASSUME UniqueNames, NEW s, s = doc.body[o], doc.schemas[s].kind = "object",
                    \E r \in Op : doc.reply[r] = s,
                    NEW p \in (exchange'.keys \ DOMAIN exchange'.tags) \cap DOMAIN Props(s)
             PROVE  ~Props(s)[p].readOnly
  BY <1>1 DEF ReadOnlyIsNotSent, UniqueNames, Props
<1>3. s # None
  <2>1. doc.body[o] = None => body[o] = None
    BY <1>1 DEF Provenance, Stripped
  <2>2. DOMAIN decls \subseteq Name
    BY DEF IInv, TypeOK
  <2> QED  BY <1>1, <2>1, <2>2, GeneratorAssumption
<1>4. SharedBody(doc.body[o])
  BY <1>3 DEF SharedBody
<1>5. /\ IsStruct(body[o])
      /\ \A q \in DOMAIN decls[body[o]].fields \cap DOMAIN Props(s) : ~Props(s)[q].readOnly
  BY <1>1, <1>4 DEF Provenance, Stripped
<1>6. n = body[o]
  BY <1>5 DEF Accepted
<1> QED  BY <1>2, <1>5, <1>6

----------------------------------------------------------------------------
(* What is received.                                                       *)

\* A payload is of a member of its schema, under the tag the schema lists it by.
LEMMA MembersAre ==
    ASSUME NEW s, NEW m \in Members(s)
    PROVE  LET u == doc.schemas[s]
           IN  /\ u.kind = "object" => m.schema = s /\ m.tags = <<>>
               /\ (u.kind # "object" /\ u.mapping # <<>>) =>
                     \E i \in DOMAIN u.mapping :
                         /\ m.schema = u.mapping[i].schema
                         /\ m.tags = Tags(u.property, u.mapping[i].tag)
               /\ (u.kind # "object" /\ u.mapping = <<>>) =>
                     \E i \in Branches(s) : m.schema = Branch(s, i) /\ m.tags = <<>>
<1> DEFINE u == doc.schemas[s]
<1>1. CASE u.kind = "object"
  <2>1. m \in {[schema |-> s, tags |-> <<>>]}
    BY <1>1 DEF Members
  <2>2. m.schema = s /\ m.tags = <<>>
    BY <2>1
  <2> QED  BY <1>1, <2>2
<1>2. CASE u.kind # "object" /\ u.mapping # <<>>
  <2>1. m \in {[schema |-> u.mapping[i].schema, tags |-> Tags(u.property, u.mapping[i].tag)] :
                   i \in DOMAIN u.mapping}
    BY <1>2 DEF Members
  <2>2. PICK i \in DOMAIN u.mapping :
            m = [schema |-> u.mapping[i].schema, tags |-> Tags(u.property, u.mapping[i].tag)]
    BY <2>1
  <2>3. m.schema = u.mapping[i].schema /\ m.tags = Tags(u.property, u.mapping[i].tag)
    BY <2>2
  <2> QED  BY <1>2, <2>3
<1>3. CASE u.kind # "object" /\ u.mapping = <<>>
  <2>1. m \in {[schema |-> u.branches[i], tags |-> <<>>] : i \in DOMAIN u.branches}
    BY <1>3 DEF Members
  <2>2. PICK i \in DOMAIN u.branches : m = [schema |-> u.branches[i], tags |-> <<>>]
    BY <2>1
  <2>3. i \in Branches(s) /\ m.schema = Branch(s, i) /\ m.tags = <<>>
    BY <2>2 DEF Branches, Branch
  <2> QED  BY <1>3, <2>3
<1> QED  BY <1>1, <1>2, <1>3

\* Its keys are the properties of that member, the required ones at least, and the tag.
LEMMA KeysAre ==
    ASSUME NEW m, NEW keys \in KeySets(m)
    PROVE  /\ keys \subseteq DOMAIN Props(m.schema) \cup DOMAIN m.tags
           /\ RequiredBy(m.schema) \cup DOMAIN m.tags \subseteq keys
BY DEF KeySets, Props, RequiredBy

\* In the package every object has its struct.
LEMMA ObjectsStruct ==
    ASSUME IInv, Provenance, UniqueNames, phase # "declare",
           NEW s \in Spec, doc.schemas[s].kind = "object"
    PROVE  IsStruct(doc.goName[s]) /\ OfObject(s, decls[doc.goName[s]])
<1>1. PICK i \in DOMAIN doc.order : doc.order[i] = s
  <2>1. {doc.order[i] : i \in DOMAIN doc.order} = Spec
    BY DocTyped DEF IsDocument
  <2> QED  BY <2>1
<1>2. doc.goName[s] \in DOMAIN decls
  BY <1>1 DEF Provenance, Declared
<1>3. OfObject(s, decls[doc.goName[s]])
  BY <1>2 DEF Provenance, Mirrored, Describes
<1> QED  BY <1>2, <1>3 DEF OfObject, IsStruct

\* The only number in a set of one is its least.
LEMMA LeastOfOne ==
    ASSUME NEW i \in Nat
    PROVE  Min({i}) = i
<1>1. {i} \in SUBSET Nat /\ {i} # {}
  OBVIOUS
<1>2. Min({i}) \in {i}
  BY <1>1, LeastIn
<1> QED  BY <1>2

\* A tag picks the variant that it stands for.
LEMMA TagFinds ==
    ASSUME IInv, Provenance, UniqueNames, NEW s \in Spec, IsInterface(doc.goName[s]),
           doc.schemas[s].mapping # <<>>, NEW m \in Members(s), NEW keys
    PROVE  DecodeCallback(doc.goName[s], keys, m.tags) = DecodeJSON(doc.goName[m.schema], keys)
<1> DEFINE u == doc.schemas[s]
           g == doc.goName[s]
           e == decls[g]
<1>1. g \in DOMAIN decls /\ e.kind = "interface"
  BY DEF IsInterface
<1>2. OfInterface(s, e)
  BY <1>1 DEF Provenance, Mirrored, Describes
<1>3. /\ u.kind = "union" /\ e.property = u.property /\ u.property # None
      /\ DOMAIN e.variants = DOMAIN u.mapping
      /\ \A i \in DOMAIN u.mapping :
            /\ e.variants[i].goName = doc.goName[u.mapping[i].schema]
            /\ e.variants[i].tag = u.mapping[i].tag
  BY <1>1, <1>2 DEF OfInterface
<1>4. PICK i \in DOMAIN u.mapping :
          m.schema = u.mapping[i].schema /\ m.tags = Tags(u.property, u.mapping[i].tag)
  BY <1>3, MembersAre
<1>5. /\ i \in Nat
      /\ \A j, k \in DOMAIN u.mapping : u.mapping[j].tag = u.mapping[k].tag => j = k
  <2>1. IsSchema(u)
    BY DocTyped DEF IsDocument
  <2>2. u.mapping \in Seq([tag : Tag, schema : Spec])
    BY <2>1 DEF IsSchema
  <2>3. i \in Nat
    BY <2>2
  <2> QED  BY <2>1, <2>3 DEF IsSchema
<1>6. m.tags = [p \in {u.property} |-> u.mapping[i].tag]
  BY <1>3, <1>4 DEF Tags
<1>7. u.property \in DOMAIN m.tags /\ m.tags[u.property] = u.mapping[i].tag
  BY <1>6
<1> HIDE DEF u, e, g
<1> DEFINE matching == {j \in DOMAIN decls[g].variants :
                           /\ decls[g].property \in DOMAIN m.tags
                           /\ decls[g].variants[j].tag = m.tags[decls[g].property]}
<1>8. matching = {i}
  BY <1>3, <1>4, <1>5, <1>7 DEF e
<1>9. Min(matching) = i /\ matching # {}
  BY <1>5, <1>8, LeastOfOne
<1>10. DecodeTagged(g, keys, m.tags) = DecodeJSON(decls[g].variants[Min(matching)].goName, keys)
  <2>1. DecodeTagged(g, keys, m.tags) =
            IF matching = {} THEN Failed
            ELSE DecodeJSON(decls[g].variants[Min(matching)].goName, keys)
    BY DEF DecodeTagged
  <2> HIDE DEF matching
  <2> QED  BY <1>9, <2>1
<1> HIDE DEF matching
<1>11. decls[g].variants[Min(matching)].goName = doc.goName[m.schema]
  BY <1>3, <1>4, <1>9 DEF e
<1>12. IsInterface(g) /\ decls[g].property # None
  BY <1>3 DEF e, g
<1>13. DecodeCallback(g, keys, m.tags) = DecodeTagged(g, keys, m.tags)
  BY <1>12 DEF DecodeCallback
<1> QED  BY <1>10, <1>11, <1>13 DEF g

\* Without tags, keys that no other branch can have pick the variant.
LEMMA ProbeFinds ==
    ASSUME IInv, Provenance, Unambiguous, NEW s \in Spec, IsInterface(doc.goName[s]),
           doc.schemas[s].mapping = <<>>, NEW m \in Members(s), NEW keys \in KeySets(m)
    PROVE  DecodeCallback(doc.goName[s], keys, m.tags) = DecodeJSON(doc.goName[m.schema], keys)
<1> DEFINE g == doc.goName[s]
           e == decls[g]
<1>1. g \in DOMAIN decls /\ e.kind = "interface"
  BY DEF IsInterface
<1>2. OfInterface(s, e)
  BY <1>1 DEF Unambiguous, Provenance, Mirrored, Describes
<1>3. /\ doc.schemas[s].kind = "union" /\ e.property = None
      /\ DOMAIN e.variants = Branches(s)
      /\ \A i \in Branches(s) :
            /\ e.variants[i].goName = doc.goName[Branch(s, i)]
            /\ e.variants[i].probe = RequiredBy(Branch(s, i)) \ RequiredByOthers(s, i)
            /\ e.variants[i].probe # {}
  BY <1>1, <1>2 DEF OfInterface
<1>4. PICK i \in Branches(s) : m.schema = Branch(s, i) /\ m.tags = <<>>
  BY <1>3, MembersAre
<1>5. /\ keys \subseteq DOMAIN Props(Branch(s, i))
      /\ RequiredBy(Branch(s, i)) \subseteq keys
  BY <1>4, KeysAre
<1>6. i \in Nat
  <2>1. doc.schemas[s].branches \in Seq(Spec)
    BY DocTyped, SchemaTyped
  <2> QED  BY <2>1 DEF Branches
<1> HIDE DEF e, g
<1>7. e.variants[i].probe \subseteq keys
  BY <1>3, <1>5
<1>8. ASSUME NEW j \in Branches(s), j # i PROVE ~(e.variants[j].probe \subseteq keys)
  <2>1. (RequiredBy(Branch(s, j)) \ RequiredByOthers(s, j))
            \cap DOMAIN Props(Branch(s, i)) = {}
    BY <1>8 DEF Unambiguous, Telling, Props
  <2> QED  BY <1>3, <1>5, <1>8, <2>1
<1> DEFINE present == {j \in DOMAIN decls[g].variants : decls[g].variants[j].probe \subseteq keys}
<1>9. present = {i}
  BY <1>3, <1>7, <1>8 DEF e
<1>10. Min(present) = i /\ present # {}
  BY <1>6, <1>9, LeastOfOne
<1>11. DecodeProbe(g, keys) = DecodeJSON(decls[g].variants[i].goName, keys)
  <2>1. DecodeProbe(g, keys) =
            DecodeJSON(decls[g].variants[IF present = {} THEN 1 ELSE Min(present)].goName, keys)
    BY DEF DecodeProbe
  <2> HIDE DEF present
  <2> QED  BY <1>10, <2>1
<1>12. decls[g].variants[i].goName = doc.goName[m.schema]
  BY <1>3, <1>4 DEF e
<1>13. IsInterface(g) /\ decls[g].property = None
  BY <1>3 DEF e, g
<1>14. DecodeCallback(g, keys, m.tags) = DecodeProbe(g, keys)
  BY <1>13 DEF DecodeCallback
<1> QED  BY <1>11, <1>12, <1>14 DEF g

\* Either way what is decoded is the struct of the member, unless one of its fields is
\* of a union type.
LEMMA CallbackFinds ==
    ASSUME IInv, Provenance, Unambiguous, phase = "generated", NEW s \in Spec,
           IsInterface(doc.goName[s]), NEW m \in Members(s), m.schema \in Spec,
           doc.schemas[m.schema].kind = "object", NEW keys \in KeySets(m)
    PROVE  LET got == DecodeCallback(doc.goName[s], keys, m.tags)
           IN  \/ got = doc.goName[m.schema]
               \/ /\ got = Failed
                  /\ \E p \in keys \cap DOMAIN Props(m.schema) :
                        IsInterface(TypeOf(Props(m.schema)[p].type))
<1> DEFINE n == doc.goName[m.schema]
<1>1. DecodeCallback(doc.goName[s], keys, m.tags) = DecodeJSON(n, keys)
  BY TagFinds, ProbeFinds DEF Unambiguous
<1>2. IsStruct(n) /\ OfObject(m.schema, decls[n])
  BY ObjectsStruct DEF Unambiguous
<1>3. CASE \A p \in keys \cap DOMAIN decls[n].fields : ~IsInterface(decls[n].fields[p].type)
  <2>1. DecodeJSON(n, keys) = n
    BY <1>2, <1>3 DEF DecodeJSON
  <2> QED  BY <1>1, <2>1
<1>4. CASE \E p \in keys \cap DOMAIN decls[n].fields : IsInterface(decls[n].fields[p].type)
  <2>1. DecodeJSON(n, keys) = Failed
    BY <1>4, Zenon DEF DecodeJSON
  <2>2. PICK p \in keys \cap DOMAIN decls[n].fields : IsInterface(decls[n].fields[p].type)
    BY <1>4
  <2>3. p \in DOMAIN Props(m.schema)
        /\ decls[n].fields[p].type = TypeOf(Props(m.schema)[p].type)
    BY <1>2 DEF OfObject
  <2> QED  BY <1>1, <2>1, <2>2, <2>3
<1> QED  BY <1>3, <1>4

\* In the package a property is kept in a field, or by the tag.
LEMMA KeptIs ==
    ASSUME phase = "generated", NEW n
    PROVE  Kept(decls[n]) = DOMAIN decls[n].fields \cup DOMAIN Injected(n)
<1>1. CASE decls[n].dispatch = None
  BY <1>1 DEF Kept, Injected
<1>2. CASE decls[n].dispatch # None
  <2>1. DOMAIN Injected(n) = {decls[n].dispatch.property}
    BY <1>2 DEF Injected
  <2> QED  BY <1>2, <2>1 DEF Kept
<1> QED  BY <1>1, <1>2

\* A payload decoded straight into the struct of its schema has a place there for all
\* its keys.
LEMMA StraightKeeps ==
    ASSUME IInv, Provenance, UniqueNames, phase = "generated", NEW s \in Spec, SameNames(s),
           NEW m \in Members(s), NEW keys \in KeySets(m), NEW got,
           got = DecodeJSON(doc.goName[s], keys), got # Failed
    PROVE  keys \subseteq DOMAIN decls[got].fields \cup DOMAIN m.tags \cup DOMAIN Injected(got)
<1>1. IsStruct(got) /\ got = doc.goName[s]
  BY Zenon DEF DecodeJSON
<1>2. Describes(s, decls[got]) /\ decls[got].kind = "struct"
  BY <1>1 DEF Provenance, Mirrored, IsStruct
<1>3. DOMAIN Props(m.schema) \subseteq Kept(decls[got])
  <2>1. CASE doc.schemas[s].kind = "object"
    BY <1>2, <2>1, MembersAre DEF Describes, OfObject
  <2>2. CASE doc.schemas[s].kind = "union" /\ doc.schemas[s].mapping # <<>>
    <3>1. PICK i \in DOMAIN doc.schemas[s].mapping : m.schema = doc.schemas[s].mapping[i].schema
      BY <2>2, MembersAre
    <3> QED  BY <1>2, <2>2, <3>1 DEF Describes, OfMerged
  <2>3. CASE doc.schemas[s].kind = "union" /\ doc.schemas[s].mapping = <<>>
    <3>1. PICK i \in Branches(s) : m.schema = Branch(s, i)
      BY <2>3, MembersAre
    <3> QED  BY <1>2, <2>3, <3>1 DEF Describes, OfMerged
  <2> QED  BY <1>2, <2>1, <2>2, <2>3 DEF Describes
<1> QED  BY <1>3, KeptIs, KeysAre

\* So does one decoded into the variant it was made from.
LEMMA VariantKeeps ==
    ASSUME IInv, Provenance, UniqueNames, phase = "generated",
           NEW m, m.schema \in Spec, doc.schemas[m.schema].kind = "object",
           NEW keys \in KeySets(m), NEW got, got = doc.goName[m.schema]
    PROVE  keys \subseteq DOMAIN decls[got].fields \cup DOMAIN m.tags \cup DOMAIN Injected(got)
<1>1. DOMAIN Props(m.schema) \subseteq Kept(decls[got])
  BY ObjectsStruct DEF OfObject
<1> QED  BY <1>1, KeptIs, KeysAre

\* What the properties say of the document and the declarations stays so in use.
LEMMA TestsStay ==
    ASSUME UNCHANGED <<doc, decls>>
    PROVE  /\ UniqueNames' <=> UniqueNames
           /\ Unambiguous' <=> Unambiguous
           /\ \A s : SameNames(s)' <=> SameNames(s)
           /\ \A s : Props(s)' = Props(s)
           /\ \A s : TypeOf(s)' = TypeOf(s)
           /\ \A n : IsInterface(n)' <=> IsInterface(n)
           /\ \A n : Injected(n)' = Injected(n)
<1>1. UniqueNames' <=> UniqueNames
  BY DEF UniqueNames
<1>2. \A s : Telling(s)' <=> Telling(s)
  BY DEF Telling, Branches, Branch, RequiredBy, RequiredByOthers
<1>3. Unambiguous' <=> Unambiguous
  BY <1>1, <1>2 DEF Unambiguous
<1>4. \A s : SameNames(s)' <=> SameNames(s)
  BY DEF SameNames, Branches, Branch
<1>5. \A s : Props(s)' = Props(s) /\ TypeOf(s)' = TypeOf(s)
  BY DEF Props, TypeOf
<1>6. \A n : (IsInterface(n)' <=> IsInterface(n)) /\ Injected(n)' = Injected(n)
  BY DEF IsInterface, Injected
<1> QED  BY <1>1, <1>3, <1>4, <1>5, <1>6

\* A reply is decoded whole.
LEMMA ReplyKeeps == ASSUME IInv, Provenance, NEW o \in Op, Reply(o) PROVE NothingIsLost'
<1>1. /\ phase = "generated" /\ doc.reply[o] # None
      /\ UNCHANGED <<doc, phase, next, decls, order, stack, body>>
  BY Zenon DEF Reply
<1> DEFINE s == doc.reply[o]
<1>2. s \in Spec /\ TypeOf(s) = doc.goName[s]
  BY <1>1, DocTyped DEF IsDocument, TypeOf
<1>3. PICK m \in Members(s) : \E keys \in KeySets(m) :
          exchange' = [kind |-> "reply", op |-> o, of |-> m.schema, set |-> {},
                       keys |-> keys, tags |-> m.tags,
                       got |-> DecodeReply(TypeOf(s), keys)]
  BY Zenon DEF Reply, Receive
<1>4. PICK keys \in KeySets(m) :
          exchange' = [kind |-> "reply", op |-> o, of |-> m.schema, set |-> {},
                       keys |-> keys, tags |-> m.tags,
                       got |-> DecodeReply(TypeOf(s), keys)]
  BY <1>3
<1>5. /\ exchange'.kind = "reply" /\ exchange'.op = o /\ exchange'.keys = keys
      /\ exchange'.tags = m.tags /\ exchange'.got = DecodeJSON(doc.goName[s], keys)
  BY <1>2, <1>4 DEF DecodeReply
<1> HIDE DEF s
<1>6. ASSUME UniqueNames, SameNames(s), NEW got, got = DecodeJSON(doc.goName[s], keys), got # Failed
      PROVE  keys \subseteq DOMAIN decls[got].fields \cup DOMAIN m.tags \cup DOMAIN Injected(got)
  BY <1>1, <1>2, <1>6, StraightKeeps
<1> SUFFICES ASSUME Unambiguous', NEW t, t = doc'.reply[exchange'.op], SameNames(t)',
                    NEW got, got = exchange'.got, got # Failed
             PROVE  exchange'.keys \subseteq
                        DOMAIN decls'[got].fields \cup DOMAIN exchange'.tags \cup DOMAIN Injected(got)'
  BY <1>5 DEF NothingIsLost
<1>7. t = s
  BY <1>1, <1>5 DEF s
<1>8. UniqueNames /\ SameNames(s) /\ DOMAIN Injected(got)' = DOMAIN Injected(got)
  BY <1>1, <1>7, TestsStay DEF Unambiguous
<1> QED  BY <1>1, <1>5, <1>6, <1>8

\* A step that receives a callback decodes what a member of its schema may be.
LEMMA CallbackIs ==
    ASSUME IInv, Callback
    PROVE  LET s == doc.callback
           IN  /\ phase = "generated" /\ s \in Spec /\ TypeOf(s) = doc.goName[s]
               /\ UNCHANGED <<doc, phase, next, decls, order, stack, body>>
               /\ \E m \in Members(s) : \E keys \in KeySets(m) :
                     /\ m.schema \in Spec /\ doc.schemas[m.schema].kind = "object"
                     /\ exchange'.kind = "callback" /\ exchange'.of = m.schema
                     /\ exchange'.keys = keys /\ exchange'.tags = m.tags
                     /\ exchange'.got = DecodeCallback(doc.goName[s], keys, m.tags)
<1> DEFINE s == doc.callback
<1>1. /\ phase = "generated" /\ doc.callback # None
      /\ UNCHANGED <<doc, phase, next, decls, order, stack, body>>
  BY Zenon DEF Callback
<1>2. s \in Spec /\ TypeOf(s) = doc.goName[s]
  BY <1>1, DocTyped DEF IsDocument, TypeOf
<1>3. PICK m \in {x \in Members(s) : doc.schemas[x.schema].kind = "object"} :
          \E keys \in KeySets(m) :
              exchange' = [kind |-> "callback", op |-> None, of |-> m.schema, set |-> {},
                           keys |-> keys, tags |-> m.tags,
                           got |-> DecodeCallback(TypeOf(s), keys, m.tags)]
  BY Zenon DEF Callback, Receive
<1>4. PICK keys \in KeySets(m) :
          exchange' = [kind |-> "callback", op |-> None, of |-> m.schema, set |-> {},
                       keys |-> keys, tags |-> m.tags,
                       got |-> DecodeCallback(TypeOf(s), keys, m.tags)]
  BY <1>3
<1>5. /\ exchange'.kind = "callback" /\ exchange'.of = m.schema
      /\ exchange'.keys = keys /\ exchange'.tags = m.tags
      /\ exchange'.got = DecodeCallback(doc.goName[s], keys, m.tags)
  BY <1>2, <1>4
<1>6. m.schema \in Spec /\ doc.schemas[m.schema].kind = "object"
  BY <1>2, <1>3, MembersTyped
<1> QED  BY <1>1, <1>2, <1>5, <1>6

\* A callback is decoded into the variant it was made from, and whole.
LEMMA CallbackKeeps ==
    ASSUME IInv, Provenance, Callback
    PROVE  CallbackFindsItsVariant' /\ NothingIsLost'
<1> DEFINE s == doc.callback
           g == doc.goName[s]
<1>1. /\ phase = "generated" /\ s \in Spec /\ TypeOf(s) = g
      /\ UNCHANGED <<doc, phase, next, decls, order, stack, body>>
  BY CallbackIs
<1>2. PICK m \in Members(s) : \E keys \in KeySets(m) :
          /\ m.schema \in Spec /\ doc.schemas[m.schema].kind = "object"
          /\ exchange'.kind = "callback" /\ exchange'.of = m.schema
          /\ exchange'.keys = keys /\ exchange'.tags = m.tags
          /\ exchange'.got = DecodeCallback(g, keys, m.tags)
  BY CallbackIs
<1>3. PICK keys \in KeySets(m) :
          /\ m.schema \in Spec /\ doc.schemas[m.schema].kind = "object"
          /\ exchange'.kind = "callback" /\ exchange'.of = m.schema
          /\ exchange'.keys = keys /\ exchange'.tags = m.tags
          /\ exchange'.got = DecodeCallback(g, keys, m.tags)
  BY <1>2
<1>4. ASSUME Unambiguous, IsInterface(g), NEW got, got = DecodeCallback(g, keys, m.tags)
      PROVE  \/ got = doc.goName[m.schema]
             \/ /\ got = Failed
                /\ \E p \in keys \cap DOMAIN Props(m.schema) :
                      IsInterface(TypeOf(Props(m.schema)[p].type))
  BY <1>1, <1>3, <1>4, CallbackFinds
<1>5. ASSUME Unambiguous, SameNames(s),
             NEW got, got = DecodeCallback(g, keys, m.tags), got # Failed
      PROVE  keys \subseteq DOMAIN decls[got].fields \cup DOMAIN m.tags \cup DOMAIN Injected(got)
  <2>1. CASE IsInterface(g)
    <3>1. got = doc.goName[m.schema]
      BY <1>4, <1>5, <2>1
    <3> QED  BY <1>1, <1>3, <1>5, <3>1, VariantKeeps DEF Unambiguous
  <2>2. CASE ~IsInterface(g)
    <3>1. got = DecodeJSON(g, keys)
      BY <1>5, <2>2 DEF DecodeCallback
    <3> QED  BY <1>1, <1>5, <3>1, StraightKeeps DEF Unambiguous
  <2> QED  BY <2>1, <2>2
<1>6. /\ Unambiguous' <=> Unambiguous
      /\ \A x : SameNames(x)' <=> SameNames(x)
      /\ \A x : Props(x)' = Props(x)
      /\ \A x : TypeOf(x)' = TypeOf(x)
      /\ \A x : IsInterface(x)' <=> IsInterface(x)
      /\ \A x : Injected(x)' = Injected(x)
  BY <1>1, TestsStay
<1>7. CallbackFindsItsVariant'
  <2> SUFFICES ASSUME Unambiguous', IsInterface(TypeOf(doc.callback))'
               PROVE  \/ exchange'.got = doc'.goName[exchange'.of]
                      \/ /\ exchange'.got = Failed
                         /\ \E p \in exchange'.keys \cap DOMAIN doc'.schemas[exchange'.of].props :
                               IsInterface(TypeOf(doc.schemas[exchange.of].props[p].type))'
    BY DEF CallbackFindsItsVariant
  <2>1. IsInterface(g) /\ Unambiguous
    BY <1>1, <1>6 DEF IsInterface, TypeOf
  <2> HIDE DEF s, g
  <2>2. CASE exchange'.got = doc.goName[m.schema]
    BY <1>1, <1>3, <2>2
  <2>3. CASE /\ exchange'.got = Failed
             /\ \E p \in keys \cap DOMAIN Props(m.schema) :
                   IsInterface(TypeOf(Props(m.schema)[p].type))
    <3>1. PICK p \in keys \cap DOMAIN Props(m.schema) :
              IsInterface(TypeOf(Props(m.schema)[p].type))
      BY <2>3
    <3>2. p \in exchange'.keys \cap DOMAIN doc'.schemas[exchange'.of].props
      BY <1>1, <1>3, <3>1 DEF Props
    <3>3. IsInterface(TypeOf(doc.schemas[exchange.of].props[p].type))'
      BY <1>1, <1>3, <3>1 DEF Props, TypeOf, IsInterface
    <3> QED  BY <2>3, <3>2, <3>3
  <2> QED  BY <1>3, <1>4, <2>1, <2>2, <2>3
<1>8. NothingIsLost'
  <2> SUFFICES ASSUME Unambiguous', NEW t, t = doc'.callback, SameNames(t)',
                      NEW got, got = exchange'.got, got # Failed
               PROVE  exchange'.keys \subseteq
                        DOMAIN decls'[got].fields \cup DOMAIN exchange'.tags \cup DOMAIN Injected(got)'
    BY <1>3 DEF NothingIsLost
  <2>1. t = s
    BY <1>1
  <2> HIDE DEF s, g
  <2>2. Unambiguous /\ SameNames(s) /\ Injected(got)' = Injected(got)
    BY <1>6, <2>1
  <2> QED  BY <1>1, <1>3, <1>5, <2>2
<1> QED  BY <1>7, <1>8

----------------------------------------------------------------------------
(* The package in use.                                                     *)

\* What is true of every exchange.
Exchanged == ReadOnlyIsNotSent /\ CallbackFindsItsVariant /\ NothingIsLost

\* It is true of every next one.
LEMMA NextExchanged == ASSUME IInv, Provenance, Exchanged, [Next]_vars PROVE Exchanged'
<1>1. CASE Generate
  <2>1. phase # "generated" /\ exchange' = exchange
    BY <1>1, Zenon DEF Generate, Declare, BuildOperations, Seed, Visit, Return,
                       DropTagFields, CloneShared, PromoteOptionalStructs
  <2>2. exchange' = None
    BY <2>1 DEF IInv, Emitted
  <2> QED  BY <2>2 DEF Exchanged, ReadOnlyIsNotSent, CallbackFindsItsVariant, NothingIsLost
<1>2. ASSUME NEW o \in Op, Send(o) PROVE Exchanged'
  <2>1. exchange'.kind = "sent"
    BY <1>2, SendIs
  <2>2. ReadOnlyIsNotSent'
    BY <1>2, SendStripped
  <2>3. CallbackFindsItsVariant'
    BY <2>1 DEF CallbackFindsItsVariant
  <2>4. NothingIsLost'
    BY <2>1 DEF NothingIsLost
  <2> QED  BY <2>2, <2>3, <2>4 DEF Exchanged
<1>3. ASSUME NEW o \in Op, Reply(o) PROVE Exchanged'
  <2>1. exchange'.kind = "reply"
    <3>1. PICK m : \E keys \in KeySets(m) :
              exchange' = [kind |-> "reply", op |-> o, of |-> m.schema, set |-> {},
                           keys |-> keys, tags |-> m.tags,
                           got |-> DecodeReply(TypeOf(doc.reply[o]), keys)]
      BY <1>3, Zenon DEF Reply, Receive
    <3> QED  BY <3>1
  <2>2. ReadOnlyIsNotSent'
    BY <2>1 DEF ReadOnlyIsNotSent
  <2>3. CallbackFindsItsVariant'
    BY <2>1 DEF CallbackFindsItsVariant
  <2>4. NothingIsLost'
    BY <1>3, ReplyKeeps
  <2> QED  BY <2>2, <2>3, <2>4 DEF Exchanged
<1>4. CASE Callback
  <2>1. exchange'.kind = "callback"
    BY <1>4, CallbackIs
  <2>2. ReadOnlyIsNotSent'
    BY <2>1 DEF ReadOnlyIsNotSent
  <2> QED  BY <1>4, <2>2, CallbackKeeps DEF Exchanged
<1>5. CASE UNCHANGED vars
  <2>1. UNCHANGED <<doc, decls, exchange>>
    BY <1>5 DEF vars
  <2>2. ReadOnlyIsNotSent'
    BY <2>1 DEF Exchanged, ReadOnlyIsNotSent, UniqueNames
  <2>3. UNCHANGED <<doc, decls>>
    BY <2>1
  <2>4. CallbackFindsItsVariant'
    <3>1. Unambiguous' <=> Unambiguous
      BY <2>3, TestsStay
    <3> HIDE DEF Unambiguous
    <3> QED  BY <2>1, <3>1, Zenon DEF Exchanged, CallbackFindsItsVariant, IsInterface, TypeOf
  <2>5. NothingIsLost'
    <3>1. Unambiguous' <=> Unambiguous
      BY <2>3, TestsStay
    <3>2. \A s : SameNames(s)' <=> SameNames(s)
      BY <2>1, Zenon DEF SameNames, Branches, Branch
    <3>3. \A n : Injected(n)' = Injected(n)
      BY <2>1 DEF Injected
    <3> HIDE DEF Unambiguous
    <3> QED  BY <2>1, <3>1, <3>2, <3>3, Zenon DEF Exchanged, NothingIsLost
  <2> QED  BY <2>2, <2>4, <2>5 DEF Exchanged
<1> QED  BY <1>1, <1>2, <1>3, <1>4, <1>5 DEF Next, Use

\* Nothing is exchanged at the start.
LEMMA InitExchanged == ASSUME Init PROVE Exchanged
BY DEF Init, Exchanged, ReadOnlyIsNotSent, CallbackFindsItsVariant, NothingIsLost

\* Every declaration is its schema's, from the builder to the last pass, however the
\* names of properties, tags and unions overlap.
THEOREM DeclarationsMirrorSchemas == GeneratorSpec => [](IInv /\ Provenance)
<1>1. Init => IInv /\ Provenance
  BY InitIInv, InitProvenance
<1>2. (IInv /\ Provenance) /\ [Next]_vars => (IInv /\ Provenance)'
  BY NextIInv, NextProvenance
<1> QED  BY <1>1, <1>2, PTL DEF GeneratorSpec

\* Every exchange of every package is as it should be.
LEMMA AllExchanged == GeneratorSpec => []Exchanged
<1>1. Init => Exchanged
  BY InitExchanged
<1>2. IInv /\ Provenance /\ Exchanged /\ [Next]_vars => Exchanged'
  BY NextExchanged
<1> QED  BY <1>1, <1>2, DeclarationsMirrorSchemas, PTL DEF GeneratorSpec

\* The clones are made, and the bodies switched to them, wherever a body is a reply
\* too: what only the server may set is in no request of a package.
THEOREM ReadOnlyStays == GeneratorSpec => []ReadOnlyIsNotSent
<1>1. Exchanged => ReadOnlyIsNotSent  BY DEF Exchanged
<1> QED  BY <1>1, AllExchanged, PTL

\* Tags and probes are decisive in any document that is unambiguous: the decoder of a
\* callback takes the variant that was sent, or fails at a field of a union type.
THEOREM VariantsAreFound == GeneratorSpec => []CallbackFindsItsVariant
<1>1. Exchanged => CallbackFindsItsVariant  BY DEF Exchanged
<1> QED  BY <1>1, AllExchanged, PTL

\* What is decoded has a place for all that was sent, whichever of the passes made it:
\* a struct, a merged union or a variant.
THEOREM DecodedWhole == GeneratorSpec => []NothingIsLost
<1>1. Exchanged => NothingIsLost  BY DEF Exchanged
<1> QED  BY <1>1, AllExchanged, PTL

\* However the unions nest and share their variants, what is sent has the tag of its
\* type, where the unions agree on one.
THEOREM TagsAreTrue == GeneratorSpec => []TagNamesTheVariant
<1>1. Init => Links
  BY InitLinks
<1>2. IInv /\ Links /\ [Next]_vars => Links'
  BY NextLinks
<1>3. Links => TagNamesTheVariant  BY DEF Links
<1> QED  BY <1>1, <1>2, <1>3, Inductive, PTL DEF GeneratorSpec
=============================================================================

-------------------------- MODULE GeneratorProofs --------------------------
(***************************************************************************)
(* Theorems about Generator, for any documents: whatever the schemas refer *)
(* to, in whatever order, the declarations are well formed, the markers    *)
(* reach every variant, and nothing unset is sent.                         *)
(***************************************************************************)
EXTENDS Generator, WellFoundedInduction, SequenceTheorems, TLAPS

GoNames(d) == {d.goName[s] : s \in Spec}

AreDecls(ds) == \A n \in DOMAIN ds : IsDecl(ds[n])

----------------------------------------------------------------------------
(* The declarations made of schemas are well formed.                       *)

\* A set of numbers has its least in it.
LEMMA LeastIn ==
    ASSUME NEW S \in SUBSET Nat, S # {}
    PROVE  Min(S) \in S
<1>1. PICK x \in S : \A y \in S : ~(<<y, x>> \in OpToRel(<, Nat))
  BY NatLessThanWellFounded, WFMin
<1>2. \A y \in S : ~(y < x)
  BY <1>1, Zenon DEF OpToRel
<1>3. \A y \in S : x =< y
  BY <1>2
<1> QED  BY <1>3 DEF Min

\* The empty function is partial from and to anything.
LEMMA EmptyPartial ==
    ASSUME NEW D, NEW R
    PROVE  Partial(<<>>, D, R)
<1>1. DOMAIN <<>> = {}
  OBVIOUS
<1>2. <<>> \in [{} -> R]
  OBVIOUS
<1> QED  BY <1>1, <1>2 DEF Partial

\* The field made of a property is one.
LEMMA FieldTyped ==
    ASSUME NEW d, IsDocument(d), NEW s, NEW p \in Property
    PROVE  FieldOf(d, s, p) \in Field
<1>1. d.goName \in [Spec -> Name]
  BY DEF IsDocument
<1>2. (IF p.type = None THEN None ELSE d.goName[p.type]) \in Name \cup {None}
  BY <1>1 DEF Property
<1>3. p.required \in BOOLEAN /\ p.readOnly \in BOOLEAN
  BY DEF Property
<1> QED  BY <1>2, <1>3 DEF FieldOf, Field

\* A struct of such fields is a declaration.
LEMMA StructTyped ==
    ASSUME NEW f, Partial(f, Prop, Field)
    PROVE  IsDecl(Struct(f))
<1>1. <<>> \in Seq(Variant)
  OBVIOUS
<1> QED  BY <1>1 DEF IsDecl, Struct

\* So is an interface of variants.
LEMMA InterfaceTyped ==
    ASSUME NEW vs \in Seq(Variant), NEW p \in Prop \cup {None}
    PROVE  IsDecl(Interface(vs, p))
  BY EmptyPartial DEF IsDecl, Interface

\* What a document has in each of its schemas.
LEMMA SchemaTyped ==
    ASSUME NEW d, IsDocument(d), NEW s \in Spec
    PROVE  /\ Partial(d.schemas[s].props, Prop, Property)
           /\ d.schemas[s].property \in Prop \cup {None}
           /\ d.schemas[s].mapping \in Seq([tag : Tag, schema : Spec])
           /\ d.schemas[s].branches \in Seq(Spec)
           /\ d.schemas[s].kind \in {"object", "union", "array"}
  BY DEF IsDocument, IsSchema

\* The struct of an object is a declaration.
LEMMA StructFromSchemaTyped ==
    ASSUME NEW d, IsDocument(d), NEW s \in Spec
    PROVE  IsDecl(StructFromSchema(d, s)) /\ StructFromSchema(d, s).variants = <<>>
<1> DEFINE props == d.schemas[s].props
           fields == [p \in DOMAIN props |-> FieldOf(d, s, props[p])]
<1>1. \A p \in DOMAIN props : props[p] \in Property
  BY SchemaTyped DEF Partial
<1>2. \A p \in DOMAIN props : fields[p] \in Field
  BY <1>1, FieldTyped
<1>3. Partial(fields, Prop, Field)
  BY <1>2, SchemaTyped DEF Partial
<1>4. StructFromSchema(d, s) = Struct(fields)
  BY DEF StructFromSchema
<1>5. Struct(fields).variants = <<>>
  BY DEF Struct
<1> QED  BY <1>3, <1>4, <1>5, StructTyped

\* So is the merged struct of any members, whether they name schemas or not.
LEMMA FlattenTyped ==
    ASSUME NEW d, IsDocument(d), NEW s, NEW T, NEW members \in Seq(T)
    PROVE  IsDecl(Flatten(d, s, members)) /\ Flatten(d, s, members).variants = <<>>
<1> DEFINE found == {i \in DOMAIN members : members[i] \in Spec}
           Carriers(p) == {i \in found : p \in DOMAIN d.schemas[members[i]].props}
           First(p) == d.schemas[members[Min(Carriers(p))]].props[p]
           all == {q \in Prop : Carriers(q) # {}}
           fields == [p \in all |->
                         [FieldOf(d, s, First(p)) EXCEPT !.required = FALSE]]
<1>1. ASSUME NEW p \in all PROVE First(p) \in Property
  <2>1. Carriers(p) \in SUBSET Nat
    BY DEF Carriers, found
  <2>2. Carriers(p) # {}
    OBVIOUS
  <2> HIDE DEF Carriers
  <2>3. Min(Carriers(p)) \in Carriers(p)
    BY <2>1, <2>2, LeastIn
  <2> DEFINE i == Min(Carriers(p))
  <2>4. members[i] \in Spec /\ p \in DOMAIN d.schemas[members[i]].props
    BY <2>3 DEF Carriers
  <2> QED  BY <2>4, SchemaTyped DEF Partial
<1> HIDE DEF First
<1>2. \A p \in all : fields[p] \in Field
  <2> SUFFICES ASSUME NEW p \in all PROVE fields[p] \in Field
    OBVIOUS
  <2>1. FieldOf(d, s, First(p)) \in Field
    BY <1>1, FieldTyped
  <2> QED  BY <2>1 DEF Field
<1>3. Partial(fields, Prop, Field)
  BY <1>2 DEF Partial
<1>4. Flatten(d, s, members) = Struct(fields)
  BY DEF Flatten, First
<1>5. Struct(fields).variants = <<>>
  BY DEF Struct
<1> QED  BY <1>3, <1>4, <1>5, StructTyped

\* The elements of a sequence over a set are in it.
LEMMA ElementOf ==
    ASSUME NEW S, NEW q \in Seq(S), NEW i \in DOMAIN q
    PROVE  q[i] \in S
OBVIOUS

\* A function on the first n numbers into a set is a sequence over it.
LEMMA FunctionIsSeq ==
    ASSUME NEW S, NEW n \in Nat, NEW f, DOMAIN f = 1..n, f = [i \in 1..n |-> f[i]],
           \A i \in 1..n : f[i] \in S
    PROVE  f \in Seq(S)
OBVIOUS

\* A declaration just made: its variants are schemas, and no pass was there.
Fresh(d, e) ==
    /\ IsDecl(e)
    /\ \A i \in DOMAIN e.variants : e.variants[i].goName \in GoNames(d)
    /\ e.implements = {}

\* What an untagged union becomes is a fresh declaration, either way.
LEMMA UntaggedTyped ==
    ASSUME NEW d, IsDocument(d), NEW ds, AreDecls(ds), NEW s \in Spec
    PROVE  Fresh(d, UntaggedUnion(d, ds, s))
<1> DEFINE u == d.schemas[s]
           names == [i \in DOMAIN u.branches |-> d.goName[u.branches[i]]]
           variants == [i \in DOMAIN names |->
                           [goName |-> names[i], tag |-> None, probe |-> Probe(ds, names, i)]]
<1>1. u.branches \in Seq(Spec) /\ d.goName \in [Spec -> Name]
  BY SchemaTyped DEF IsDocument
<1>2. names \in Seq(Name) /\ \A i \in DOMAIN names : names[i] \in GoNames(d)
  BY <1>1 DEF GoNames
<1>3. CASE Disjoint(ds, names)
  <2>1. \A i \in DOMAIN names : Probe(ds, names, i) \subseteq Prop
    <3> SUFFICES ASSUME NEW i \in DOMAIN names PROVE Probe(ds, names, i) \subseteq Prop
      OBVIOUS
    <3>1. IsDecl(ds[names[i]])
      BY <1>3 DEF Disjoint, AreDecls
    <3> QED  BY <3>1 DEF Probe, RequiredOf, IsDecl, Partial
  <2>a. DOMAIN names = 1..Len(names) /\ Len(names) \in Nat
        /\ \A i \in DOMAIN names : names[i] \in Name
    BY <1>2
  <2> HIDE DEF names
  <2>2. \A i \in DOMAIN names : variants[i] \in Variant /\ variants[i].goName = names[i]
    BY <2>1, <2>a DEF Variant
  <2>3. variants \in Seq(Variant) /\ DOMAIN variants = DOMAIN names
    <3>1. DOMAIN variants = 1..Len(names) /\ variants = [i \in 1..Len(names) |-> variants[i]]
      BY <2>a
    <3> HIDE DEF variants
    <3> QED  BY <3>1, <2>a, <2>2, FunctionIsSeq
  <2>4. IsDecl(Interface(variants, None))
    BY <2>3, InterfaceTyped
  <2>5. /\ Interface(variants, None).variants = variants
        /\ Interface(variants, None).implements = {}
    BY DEF Interface
  <2>6. UntaggedUnion(d, ds, s) = Interface(variants, None)
    BY <1>3 DEF UntaggedUnion, names
  <2> HIDE DEF variants
  <2> QED  BY <2>2, <2>3, <2>4, <2>5, <2>6, <1>2 DEF Fresh
<1>4. CASE ~Disjoint(ds, names)
  <2>1. UntaggedUnion(d, ds, s) = Flatten(d, s, names)
    BY <1>4 DEF UntaggedUnion
  <2>2. Flatten(d, s, names).implements = {}
    BY DEF Flatten, Struct
  <2> HIDE DEF names
  <2> QED  BY <2>1, <2>2, <1>2, FlattenTyped DEF Fresh
<1> QED  BY <1>3, <1>4

\* And so is what a union with a discriminator becomes.
LEMMA DiscriminatedTyped ==
    ASSUME NEW d, IsDocument(d), NEW s \in Spec
    PROVE  Fresh(d, UnionFromDiscriminator(d, s))
<1> DEFINE u == d.schemas[s]
           variants == [i \in DOMAIN u.mapping |->
                           [goName |-> d.goName[u.mapping[i].schema],
                            tag |-> u.mapping[i].tag, probe |-> {}]]
           members == [i \in DOMAIN u.mapping |-> u.mapping[i].schema]
<1>1. /\ u.mapping \in Seq([tag : Tag, schema : Spec])
      /\ u.property \in Prop \cup {None}
      /\ d.goName \in [Spec -> Name]
  BY SchemaTyped DEF IsDocument
<1>2. \A i \in DOMAIN u.mapping : u.mapping[i].tag \in Tag /\ u.mapping[i].schema \in Spec
  <2> SUFFICES ASSUME NEW i \in DOMAIN u.mapping
               PROVE  u.mapping[i].tag \in Tag /\ u.mapping[i].schema \in Spec
    OBVIOUS
  <2>1. u.mapping[i] \in [tag : Tag, schema : Spec]
    BY <1>1, ElementOf
  <2> QED  BY <2>1
<1>a. DOMAIN u.mapping = 1..Len(u.mapping) /\ Len(u.mapping) \in Nat
  BY <1>1
<1>3. CASE u.property # None /\ WireCompatible(d, u)
  <2>1. \A i \in DOMAIN u.mapping :
            variants[i] \in Variant /\ variants[i].goName \in GoNames(d)
    BY <1>1, <1>2 DEF Variant, GoNames
  <2>2. variants \in Seq(Variant) /\ DOMAIN variants = DOMAIN u.mapping
    <3>1. /\ DOMAIN variants = 1..Len(u.mapping)
          /\ variants = [i \in 1..Len(u.mapping) |-> variants[i]]
      BY <1>a
    <3> HIDE DEF variants
    <3> QED  BY <3>1, <1>a, <2>1, FunctionIsSeq
  <2>3. IsDecl(Interface(variants, u.property))
    BY <2>2, <1>1, InterfaceTyped
  <2>4. /\ Interface(variants, u.property).variants = variants
        /\ Interface(variants, u.property).implements = {}
    BY DEF Interface
  <2>5. UnionFromDiscriminator(d, s) = Interface(variants, u.property)
    BY <1>3 DEF UnionFromDiscriminator
  <2> HIDE DEF variants
  <2> QED  BY <2>1, <2>2, <2>3, <2>4, <2>5 DEF Fresh
<1>4. CASE ~(u.property # None /\ WireCompatible(d, u))
  <2>1. UnionFromDiscriminator(d, s) = Flatten(d, s, members)
    BY <1>4 DEF UnionFromDiscriminator
  <2>2. Flatten(d, s, members).implements = {}
    BY DEF Flatten, Struct
  <2>3. members \in Seq(Spec)
    BY <1>1, <1>2
  <2> HIDE DEF members
  <2> QED  BY <2>1, <2>2, <2>3, FlattenTyped DEF Fresh
<1> QED  BY <1>3, <1>4

\* Whatever the builder declares of a schema is a declaration.
LEMMA DeclTyped ==
    ASSUME NEW d, IsDocument(d), NEW ds, AreDecls(ds), NEW s \in Spec,
           DeclFromSchema(d, ds, s) # None
    PROVE  Fresh(d, DeclFromSchema(d, ds, s))
<1> DEFINE u == d.schemas[s]
<1>1. CASE u.kind = "object"
  <2>1. DeclFromSchema(d, ds, s) = StructFromSchema(d, s)
    BY <1>1 DEF DeclFromSchema
  <2>2. StructFromSchema(d, s).implements = {}
    BY DEF StructFromSchema, Struct
  <2> QED  BY <2>1, <2>2, StructFromSchemaTyped DEF Fresh
<1>2. CASE u.kind = "union" /\ u.mapping # <<>>
  BY <1>2, DiscriminatedTyped DEF DeclFromSchema
<1>3. CASE u.kind = "union" /\ u.mapping = <<>> /\ u.branches # <<>>
  BY <1>3, UntaggedTyped DEF DeclFromSchema
<1>4. CASE ~(u.kind = "object") /\ ~(u.kind = "union" /\ u.mapping # <<>>)
           /\ ~(u.kind = "union" /\ u.mapping = <<>> /\ u.branches # <<>>)
  BY <1>4 DEF DeclFromSchema
<1> QED  BY <1>1, <1>2, <1>3, <1>4

----------------------------------------------------------------------------
(* What the passes make of a declaration is one.                           *)

\* More markers and another link leave a declaration one.
LEMMA MarkedTyped ==
    ASSUME NEW e, IsDecl(e), NEW M \in SUBSET Name, NEW l \in UnionLink \cup {None}
    PROVE  /\ IsDecl([e EXCEPT !.implements = @ \cup M])
           /\ IsDecl([e EXCEPT !.implements = @ \cup M, !.dispatch = l])
BY DEF IsDecl

\* So do fewer fields.
LEMMA RestrictedTyped ==
    ASSUME NEW e, IsDecl(e), NEW S, S \subseteq DOMAIN e.fields
    PROVE  Partial([p \in S |-> e.fields[p]], Prop, Field)
BY DEF IsDecl, Partial

\* And other fields.
LEMMA WithFieldsTyped ==
    ASSUME NEW e, IsDecl(e), NEW f, Partial(f, Prop, Field)
    PROVE  IsDecl([e EXCEPT !.fields = f])
<1>1. /\ [e EXCEPT !.fields = f].fields = f
      /\ [e EXCEPT !.fields = f] \in
            [kind : {"struct", "interface"}, fields : {f}, variants : Seq(Variant),
             property : Prop \cup {None}, implements : SUBSET Name,
             dispatch : UnionLink \cup {None}]
  BY DEF IsDecl
<1> QED  BY <1>1 DEF IsDecl

\* Dropping the field of the tag changes nothing but the fields.
LEMMA WithoutTagTyped ==
    ASSUME NEW e, IsDecl(e)
    PROVE  /\ IsDecl(WithoutTagField(e))
           /\ WithoutTagField(e).kind = e.kind
           /\ WithoutTagField(e).variants = e.variants
           /\ WithoutTagField(e).implements = e.implements
           /\ WithoutTagField(e).property = e.property
           /\ WithoutTagField(e).dispatch = e.dispatch
<1> DEFINE f == [p \in DOMAIN e.fields \ {e.dispatch.property} |-> e.fields[p]]
<1>1. Partial(f, Prop, Field)
  BY RestrictedTyped
<1> HIDE DEF f
<1>2. IsDecl([e EXCEPT !.fields = f])
  BY <1>1, WithFieldsTyped
<1>3. WithoutTagField(e) = IF e.dispatch = None THEN e ELSE [e EXCEPT !.fields = f]
  BY DEF WithoutTagField, f
<1>4. /\ [e EXCEPT !.fields = f].kind = e.kind
      /\ [e EXCEPT !.fields = f].variants = e.variants
      /\ [e EXCEPT !.fields = f].implements = e.implements
      /\ [e EXCEPT !.fields = f].property = e.property
      /\ [e EXCEPT !.fields = f].dispatch = e.dispatch
  BY DEF IsDecl
<1> QED  BY <1>2, <1>3, <1>4

\* A clone without read-only fields is a struct.
LEMMA StrippedTyped ==
    ASSUME NEW e, IsDecl(e)
    PROVE  /\ IsDecl(StripReadOnly(e))
           /\ StripReadOnly(e).kind = "struct"
           /\ StripReadOnly(e).variants = <<>>
<1> DEFINE f == [p \in {q \in DOMAIN e.fields : ~e.fields[q].readOnly} |-> e.fields[p]]
<1>1. Partial(f, Prop, Field)
  BY RestrictedTyped
<1> HIDE DEF f
<1>2. IsDecl(Struct(f))
  BY <1>1, StructTyped
<1>3. StripReadOnly(e) = [Struct(f) EXCEPT !.implements = e.implements]
  BY DEF StripReadOnly, f
<1>4. IsDecl([Struct(f) EXCEPT !.implements = e.implements])
  BY <1>2 DEF IsDecl
<1> QED  BY <1>3, <1>4 DEF Struct

\* Making fields pointers changes nothing else.
LEMMA PromotedTyped ==
    ASSUME NEW e, IsDecl(e)
    PROVE  LET q == [e EXCEPT !.fields = [p \in DOMAIN @ |-> Promoted(@[p])]]
           IN  /\ IsDecl(q)
               /\ q.kind = e.kind /\ q.variants = e.variants
               /\ q.implements = e.implements /\ q.dispatch = e.dispatch
               /\ q.property = e.property
               /\ DOMAIN q.fields = DOMAIN e.fields
               /\ \A p \in DOMAIN e.fields : q.fields[p] = Promoted(e.fields[p])
<1> DEFINE f == [p \in DOMAIN e.fields |-> Promoted(e.fields[p])]
           q == [e EXCEPT !.fields = [p \in DOMAIN @ |-> Promoted(@[p])]]
<1>1. \A p \in DOMAIN e.fields : e.fields[p] \in Field
  BY DEF IsDecl, Partial
<1>2. \A p \in DOMAIN e.fields : Promoted(e.fields[p]) \in Field
  <2> SUFFICES ASSUME NEW p \in DOMAIN e.fields PROVE Promoted(e.fields[p]) \in Field
    OBVIOUS
  <2>1. (e.fields[p].pointer \/ ShouldPromote(e.fields[p])) \in BOOLEAN
    BY <1>1, Zenon DEF ShouldPromote
  <2> HIDE DEF f
  <2> QED  BY <1>1, <2>1 DEF Promoted, Field
<1>3. Partial(f, Prop, Field)
  BY <1>2 DEF IsDecl, Partial
<1>4. q = [e EXCEPT !.fields = f]
  BY DEF IsDecl
<1>5. DOMAIN f = DOMAIN e.fields /\ \A p \in DOMAIN e.fields : f[p] = Promoted(e.fields[p])
  OBVIOUS
<1> HIDE DEF f
<1>6. IsDecl([e EXCEPT !.fields = f])
  BY <1>3, WithFieldsTyped
<1>7. /\ [e EXCEPT !.fields = f].kind = e.kind
      /\ [e EXCEPT !.fields = f].variants = e.variants
      /\ [e EXCEPT !.fields = f].implements = e.implements
      /\ [e EXCEPT !.fields = f].dispatch = e.dispatch
      /\ [e EXCEPT !.fields = f].property = e.property
      /\ [e EXCEPT !.fields = f].fields = f
  BY DEF IsDecl
<1> HIDE DEF q
<1>8. IsDecl(q) /\ q.kind = e.kind /\ q.variants = e.variants
      /\ q.implements = e.implements /\ q.dispatch = e.dispatch
      /\ q.property = e.property /\ q.fields = f
  BY <1>4, <1>6, <1>7
<1> QED  BY <1>5, <1>8 DEF q

----------------------------------------------------------------------------
(* The invariant.                                                          *)

\* Until the clones are made, the declarations are named after schemas, and
\* the variants always are; while the unions are walked, each one is in order.
Named ==
    /\ \A n \in DOMAIN decls :
          \A i \in DOMAIN decls[n].variants : decls[n].variants[i].goName \in GoNames(doc)
    /\ phase \in {"declare", "unions", "readOnly"} => DOMAIN decls \subseteq GoNames(doc)
    /\ phase \in {"declare", "unions"} =>
          \A n \in DOMAIN decls : \E j \in DOMAIN order : order[j] = n
    /\ phase = "declare" => \A n \in DOMAIN decls : decls[n].implements = {}

Calls ==
    /\ phase # "unions" => stack = <<>>
    /\ \A k \in DOMAIN stack : stack[k].union \in DOMAIN decls

\* The walk has come to the union u, from above or from the list.
Begun(u) ==
    \/ decls[u].implements # {}
    \/ /\ ~IsVariant(u)
       /\ phase = "unions" => \E j \in DOMAIN order : j < next /\ order[j] = u

\* A call in progress has still to give the marker m to the variant i of u.
Pending(u, m, i) ==
    \E k \in DOMAIN stack :
        stack[k].union = u /\ m \in stack[k].markers /\ stack[k].at <= i

\* Where the walk has been, the markers are on the variants or on their way.
Closed ==
    phase # "declare" =>
        \A u \in DOMAIN decls : (decls[u].kind = "interface" /\ Begun(u)) =>
            \A i \in DOMAIN decls[u].variants :
                \A m \in decls[u].implements \cup {u} :
                    LET n == decls[u].variants[i].goName
                    IN  n \in DOMAIN decls => m \in decls[n].implements \/ Pending(u, m, i)

\* Nothing is exchanged before the package is there, and then no optional
\* struct is left by value.
Emitted ==
    /\ exchange # None => phase = "generated"
    /\ phase = "generated" =>
          \A n \in DOMAIN decls : \A p \in DOMAIN decls[n].fields :
              LET f == decls[n].fields[p]
              IN  f.required \/ f.pointer \/ ~IsStruct(f.type)
    /\ NothingUnsetIsSent

IInv == TypeOK /\ doc \in Documents /\ Named /\ Calls /\ Closed /\ Emitted

----------------------------------------------------------------------------

\* The strengthening holds at the start, where nothing is declared.
LEMMA InitIInv == ASSUME Init PROVE IInv
<1>1. TypeOK
  <2>1. DOMAIN decls = {} /\ decls = [n \in DOMAIN decls |-> decls[n]]
    BY DEF Init
  <2>2. IsDocument(doc)
    BY GeneratorAssumption DEF Init
  <2>3. order \in Seq(DOMAIN decls) /\ stack \in Seq(Frame)
    BY DEF Init
  <2>4. body \in [Op -> Name \cup {None}]
    BY DEF Init
  <2> QED  BY <2>1, <2>2, <2>3, <2>4 DEF Init, TypeOK, Phases
<1>2. doc \in Documents /\ DOMAIN decls = {} /\ stack = <<>> /\ exchange = None
      /\ phase = "declare"
  BY DEF Init
<1>3. Named /\ Calls /\ Closed /\ Emitted
  BY <1>2 DEF Named, Calls, Closed, Emitted, NothingUnsetIsSent
<1> QED  BY <1>1, <1>2, <1>3 DEF IInv

\* A declaration made of the next schema is fresh, in order, and the last one.
LEMMA DeclareStep == ASSUME IInv, Declare PROVE IInv'
<1> DEFINE s == doc.order[next]
           d == DeclFromSchema(doc, decls, s)
           g == doc.goName[s]
<1>1. s \in Spec /\ g \in Name /\ g \in GoNames(doc)
  <2>1. doc.order \in Seq(Spec) /\ next \in 1..Len(doc.order) /\ doc.goName \in [Spec -> Name]
    BY DEF IInv, TypeOK, IsDocument, Declare
  <2> QED  BY <2>1 DEF GoNames
<1>2. CASE g \in DOMAIN decls \/ d = None
  <2>1. UNCHANGED <<doc, phase, decls, order, stack, body, exchange>> /\ next' = next + 1
        /\ phase = "declare"
    BY <1>2 DEF Declare
  <2>2. TypeOK' /\ (doc \in Documents)'
    BY <2>1 DEF IInv, TypeOK
  <2>3. Named' /\ Calls' /\ Closed' /\ Emitted'
    BY <2>1 DEF IInv, Named, Calls, Closed, Emitted, NothingUnsetIsSent, IsStruct
  <2> QED  BY <2>2, <2>3 DEF IInv
<1>3. CASE ~(g \in DOMAIN decls \/ d = None)
  <2>1. /\ UNCHANGED <<doc, phase, stack, body, exchange>> /\ next' = next + 1
        /\ phase = "declare"
        /\ decls' = [n \in DOMAIN decls \cup {g} |-> IF n = g THEN d ELSE decls[n]]
        /\ order' = Append(order, g)
    BY <1>3 DEF Declare
  <2>2. Fresh(doc, d)
    BY <1>1, <1>3, DeclTyped DEF IInv, TypeOK, AreDecls
  <2> HIDE DEF d, g, s
  <2>3. DOMAIN decls' = DOMAIN decls \cup {g}
        /\ \A n \in DOMAIN decls' : decls'[n] = IF n = g THEN d ELSE decls[n]
    BY <2>1
  <2>4. TypeOK'
    <3>1. order \in Seq(DOMAIN decls)
      BY DEF IInv, TypeOK
    <3>2. order' \in Seq(DOMAIN decls')
      BY <3>1, <2>1, <2>3
    <3>3. \A n \in DOMAIN decls' : IsDecl(decls'[n])
      BY <2>2, <2>3 DEF IInv, TypeOK, Fresh
    <3>4. decls' = [n \in DOMAIN decls' |-> decls'[n]]
      BY <2>1
    <3>5. /\ IsDocument(doc') /\ phase' \in Phases /\ next' \in Nat \ {0}
          /\ stack' \in Seq(Frame) /\ body' \in [Op -> Name \cup {None}]
          /\ (exchange' # None => IsPayload(exchange'))
      BY <2>1 DEF IInv, TypeOK
    <3>6. DOMAIN decls' \subseteq Name
      BY <2>3, <1>1 DEF IInv, TypeOK
    <3> QED  BY <3>2, <3>3, <3>4, <3>5, <3>6 DEF TypeOK
  <2>5. Named'
    <3>1. \A n \in DOMAIN decls' : \A i \in DOMAIN decls'[n].variants :
              decls'[n].variants[i].goName \in GoNames(doc')
      BY <2>1, <2>2, <2>3 DEF IInv, Named, Fresh
    <3>2. \A n \in DOMAIN decls' : \E j \in DOMAIN order' : order'[j] = n
      <4>1. order \in Seq(DOMAIN decls)
        BY DEF IInv, TypeOK
      <4>2. order'[Len(order) + 1] = g /\ Len(order) + 1 \in DOMAIN order'
        BY <4>1, <2>1
      <4>3. \A j \in DOMAIN order : j \in DOMAIN order' /\ order'[j] = order[j]
        BY <4>1, <2>1
      <4>4. \A n \in DOMAIN decls : \E j \in DOMAIN order : order[j] = n
        BY <2>1 DEF IInv, Named
      <4> QED  BY <4>2, <4>3, <4>4, <2>3
    <3>3. \A n \in DOMAIN decls' : decls'[n].implements = {}
      BY <2>1, <2>2, <2>3 DEF IInv, Named, Fresh
    <3>4. DOMAIN decls' \subseteq GoNames(doc')
      BY <2>1, <2>3, <1>1 DEF IInv, Named
    <3> QED  BY <3>1, <3>2, <3>3, <3>4 DEF Named
  <2>6. Calls' /\ Closed' /\ Emitted' /\ (doc \in Documents)'
    BY <2>1 DEF IInv, Calls, Closed, Emitted, NothingUnsetIsSent
  <2> QED  BY <2>4, <2>5, <2>6 DEF IInv
<1> QED  BY <1>2, <1>3

\* When the walk of the unions begins it has been nowhere.
LEMMA BuildOperationsStep == ASSUME IInv, BuildOperations PROVE IInv'
<1>1. UNCHANGED <<doc, decls, order, stack, exchange>> /\ phase = "declare"
      /\ phase' = "unions" /\ next' = 1 /\ body' = [o \in Op |-> TypeOf(doc.body[o])]
  BY DEF BuildOperations, Enter
<1>2. \A o \in Op : TypeOf(doc.body[o]) \in Name \cup {None}
  BY DEF IInv, TypeOK, IsDocument, TypeOf
<1>3. TypeOK'
  BY <1>1, <1>2 DEF IInv, TypeOK, Phases
<1>4. Closed'
  <2>1. \A u \in DOMAIN decls : decls[u].implements = {}
    BY <1>1 DEF IInv, Named
  <2>2. order \in Seq(DOMAIN decls)
    BY DEF IInv, TypeOK
  <2>3. \A u \in DOMAIN decls : ~Begun(u)'
    BY <1>1, <2>1, <2>2 DEF Begun
  <2> QED  BY <1>1, <2>3 DEF Closed
<1>5. Named' /\ Calls' /\ Emitted' /\ (doc \in Documents)'
  BY <1>1 DEF IInv, Named, Calls, Emitted, NothingUnsetIsSent
<1> QED  BY <1>3, <1>4, <1>5 DEF IInv

----------------------------------------------------------------------------
(* The walk of the unions.                                                 *)

\* The parts of a call in progress.
LEMMA FrameFields ==
    ASSUME NEW f \in Frame
    PROVE  f.union \in Name /\ f.markers \in SUBSET Name /\ f.at \in Nat \ {0}
BY DEF Frame

\* One element on top of a sequence moves the others up by one.
LEMMA OnTop ==
    ASSUME NEW S, NEW c \in Seq(S), Len(c) = 1, NEW q \in Seq(S)
    PROVE  /\ c \o q \in Seq(S) /\ Len(c \o q) = Len(q) + 1 /\ (c \o q)[1] = c[1]
           /\ \A k \in DOMAIN q : (c \o q)[k + 1] = q[k]
<1>1. Len(q) \in Nat /\ 1 \in 1..(Len(c) + Len(q))
      /\ \A k \in DOMAIN q : k + 1 \in 1..(Len(c) + Len(q)) /\ ~(k + 1 <= Len(c))
                            /\ (k + 1) - Len(c) = k
  OBVIOUS
<1>2. c \o q \in Seq(S) /\ Len(c \o q) = Len(c) + Len(q)
  BY ConcatProperties
<1>3. \A j \in 1..(Len(c) + Len(q)) :
          (c \o q)[j] = IF j <= Len(c) THEN c[j] ELSE q[j - Len(c)]
  BY ConcatProperties
<1>4. Len(c \o q) = Len(q) + 1 /\ (c \o q)[1] = c[1]
  BY <1>1, <1>2, <1>3
<1>5. \A k \in DOMAIN q : (c \o q)[k + 1] = q[k]
  BY <1>1, <1>3
<1> QED  BY <1>2, <1>4, <1>5

\* A new call is at its first variant, with the marker of its union.
LEMMA CallTyped ==
    ASSUME NEW u \in Name, NEW M \in SUBSET Name
    PROVE  /\ Call(u, M) \in Seq(Frame) /\ Len(Call(u, M)) = 1
           /\ Call(u, M)[1] \in Frame
           /\ Call(u, M)[1].union = u /\ Call(u, M)[1].markers = M \cup {u}
           /\ Call(u, M)[1].at = 1
<1> DEFINE f == [union |-> u, markers |-> M \cup {u}, at |-> 1]
<1>1. f \in Frame /\ f.union = u /\ f.markers = M \cup {u} /\ f.at = 1
  BY DEF Frame
<1>2. Call(u, M) = <<f>>
  BY DEF Call
<1> HIDE DEF f
<1> QED  BY <1>1, <1>2

\* The call on top goes on with its next variant, the others stay where they are.
LEMMA ResumedIs ==
    ASSUME stack \in Seq(Frame), stack # <<>>
    PROVE  /\ Top \in Frame
           /\ Resumed \in Seq(Frame) /\ Len(Resumed) = Len(stack) /\ Len(stack) \in Nat \ {0}
           /\ Resumed[1].union = Top.union /\ Resumed[1].markers = Top.markers
           /\ Resumed[1].at = Top.at + 1
           /\ \A k \in DOMAIN stack : k # 1 => Resumed[k] = stack[k]
<1> DEFINE r == [Top EXCEPT !.at = @ + 1]
<1>1. Top \in Frame
  BY DEF Top
<1>a. Top.union \in Name /\ Top.markers \in SUBSET Name /\ Top.at \in Nat \ {0}
  BY <1>1, FrameFields
<1>b. r = [union |-> Top.union, markers |-> Top.markers, at |-> Top.at + 1]
  BY <1>1 DEF Frame
<1>2. r \in Frame /\ r.union = Top.union /\ r.markers = Top.markers /\ r.at = Top.at + 1
  <2>1. Top.at + 1 \in Nat \ {0}
    BY <1>a
  <2> QED  BY <1>a, <1>b, <2>1, Zenon DEF Frame
<1>3. Resumed = <<r>> \o Tail(stack)
  BY DEF Resumed, Below
<1> HIDE DEF r
<1>4. Tail(stack) \in Seq(Frame) /\ Len(Tail(stack)) = Len(stack) - 1
      /\ \A k \in 1..(Len(stack) - 1) : Tail(stack)[k] = stack[k + 1]
  OBVIOUS
<1>5. Resumed \in Seq(Frame) /\ Len(Resumed) = Len(stack) /\ Resumed[1] = r
  BY <1>2, <1>3, <1>4
<1>6. ASSUME NEW k \in DOMAIN stack, k # 1 PROVE Resumed[k] = stack[k]
  <2>1. Resumed[k] = Tail(stack)[k - 1]
    BY <1>3, <1>4, <1>6
  <2> QED  BY <2>1, <1>4, <1>6
<1> QED  BY <1>1, <1>2, <1>5, <1>6

\* A call made from there is on top of it.
LEMMA CalledIs ==
    ASSUME stack \in Seq(Frame), stack # <<>>, NEW u \in Name, NEW M \in SUBSET Name
    PROVE  LET called == Call(u, M) \o Resumed
           IN  /\ called \in Seq(Frame) /\ Len(called) = Len(stack) + 1
               /\ called[1].union = u /\ called[1].markers = M \cup {u} /\ called[1].at = 1
               /\ \A k \in DOMAIN stack : called[k + 1] = Resumed[k]
<1>1. Len(stack) \in Nat /\ DOMAIN stack = 1..Len(stack)
  OBVIOUS
<1>2. Resumed \in Seq(Frame) /\ Len(Resumed) = Len(stack)
  BY ResumedIs
<1>3. DOMAIN Resumed = DOMAIN stack
  BY <1>1, <1>2
<1> QED  BY <1>2, <1>3, CallTyped, OnTop

\* What steps of the walk leave alone keeps its part of the invariant.
LEMMA WalkKeeps ==
    ASSUME IInv, phase = "unions",
           UNCHANGED <<doc, phase, order, body, exchange>>,
           DOMAIN decls' = DOMAIN decls,
           \A n \in DOMAIN decls : decls'[n].variants = decls[n].variants
    PROVE  Named' /\ Emitted' /\ (doc \in Documents)'
<1>1. Named'
  BY DEF IInv, Named
<1>2. Emitted'
  BY DEF IInv, Emitted, NothingUnsetIsSent
<1> QED  BY <1>1, <1>2 DEF IInv

\* A call for a top-level union has all its markers still to give.
LEMMA SeedStep == ASSUME IInv, Seed PROVE IInv'
<1> DEFINE u == order[next]
<1>1. /\ UNCHANGED <<doc, phase, decls, order, body, exchange>> /\ next' = next + 1
      /\ phase = "unions" /\ stack = <<>> /\ next \in DOMAIN order
      /\ order \in Seq(DOMAIN decls) /\ next \in Nat \ {0}
  BY DEF IInv, TypeOK, Seed
<1>2. u \in DOMAIN decls /\ u \in Name
  BY <1>1 DEF IInv, TypeOK
<1>3. stack' = IF decls[u].kind = "interface" /\ ~IsVariant(u) THEN Call(u, {}) ELSE <<>>
  BY <1>2 DEF Seed, IsInterface
<1> HIDE DEF u
<1>4. /\ stack' \in Seq(Frame)
      /\ \A k \in DOMAIN stack' : k = 1 /\ stack'[k].union = u
  BY <1>2, <1>3, CallTyped
<1>5. TypeOK'
  BY <1>1, <1>4 DEF IInv, TypeOK
<1>6. Named' /\ Emitted' /\ (doc \in Documents)'
  BY <1>1, WalkKeeps
<1>7. Calls'
  BY <1>1, <1>2, <1>4 DEF Calls
<1>8. Closed'
  <2> SUFFICES ASSUME NEW w \in DOMAIN decls, decls[w].kind = "interface", Begun(w)',
                      NEW i \in DOMAIN decls[w].variants,
                      NEW m \in decls[w].implements \cup {w},
                      decls[w].variants[i].goName \in DOMAIN decls
               PROVE  \/ m \in decls[decls[w].variants[i].goName].implements
                      \/ Pending(w, m, i)'
    BY <1>1 DEF Closed
  <2>1. ~\E v, l, j : Pending(v, l, j)
    BY <1>1 DEF Pending
  <2>2. CASE Begun(w)
    BY <1>1, <2>1, <2>2 DEF IInv, Closed
  <2>3. CASE ~Begun(w)
    <3>1. decls[w].implements = {} /\ ~IsVariant(w)
      BY <1>1, <2>3 DEF Begun, IsVariant
    <3>2. w = u
      <4>1. PICK j \in DOMAIN order : j < next + 1 /\ order[j] = w
        BY <1>1, <3>1 DEF Begun
      <4>2. ~(j < next)
        BY <1>1, <2>3, <3>1, <4>1 DEF Begun
      <4> QED  BY <4>1, <4>2, <1>1 DEF u
    <3>3. stack' = Call(u, {})
      BY <1>3, <3>1, <3>2
    <3>4. 1 \in DOMAIN stack' /\ stack'[1].union = w /\ w \in stack'[1].markers
          /\ stack'[1].at = 1
      BY <1>2, <3>2, <3>3, CallTyped
    <3>5. 1 <= i
      <4>1. decls[w].variants \in Seq(Variant)
        BY DEF IInv, TypeOK, IsDecl
      <4> QED  BY <4>1
    <3> QED  BY <3>1, <3>4, <3>5 DEF Pending
  <2> QED  BY <2>2, <2>3
<1> QED  BY <1>5, <1>6, <1>7, <1>8 DEF IInv

\* A call that has seen its last variant has nothing to give any more.
LEMMA ReturnStep == ASSUME IInv, Return PROVE IInv'
<1>1. /\ UNCHANGED <<doc, phase, next, decls, order, body, exchange>>
      /\ phase = "unions" /\ stack # <<>> /\ stack' = Tail(stack)
      /\ Top.at > Len(decls[Top.union].variants)
  BY DEF Return, Below
<1>2. stack \in Seq(Frame)
  BY DEF IInv, TypeOK
<1>3. stack' \in Seq(Frame) /\ Len(stack') = Len(stack) - 1
      /\ \A k \in DOMAIN stack' : k + 1 \in DOMAIN stack /\ stack'[k] = stack[k + 1]
  BY <1>1, <1>2
<1>4. TypeOK'
  BY <1>1, <1>3 DEF IInv, TypeOK
<1>5. Named' /\ Emitted' /\ (doc \in Documents)'
  BY <1>1, WalkKeeps
<1>6. Calls'
  BY <1>1, <1>3 DEF IInv, Calls
<1>7. Closed'
  <2> SUFFICES ASSUME NEW w \in DOMAIN decls, decls[w].kind = "interface", Begun(w)',
                      NEW i \in DOMAIN decls[w].variants,
                      NEW m \in decls[w].implements \cup {w},
                      decls[w].variants[i].goName \in DOMAIN decls,
                      Pending(w, m, i)
               PROVE  Pending(w, m, i)'
    <3>1. \A w \in DOMAIN decls : Begun(w)' => Begun(w)
      BY <1>1 DEF Begun, IsVariant
    <3> QED  BY <1>1, <3>1 DEF IInv, Closed
  <2>1. PICK k \in DOMAIN stack : stack[k].union = w /\ m \in stack[k].markers /\ stack[k].at <= i
    BY DEF Pending
  <2>2. decls[w].variants \in Seq(Variant)
    BY DEF IInv, TypeOK, IsDecl
  <2>3. k # 1
    <3>1. i <= Len(decls[w].variants) /\ i \in Nat /\ Len(decls[w].variants) \in Nat
      BY <2>2
    <3>2. Top \in Frame /\ Top.at \in Nat
      BY <1>1, <1>2, ResumedIs, FrameFields
    <3> QED  BY <1>1, <2>1, <3>1, <3>2 DEF Top
  <2>4. k - 1 \in DOMAIN stack' /\ stack'[k - 1] = stack[k]
    BY <1>1, <1>2, <1>3, <2>3
  <2> QED  BY <2>1, <2>4 DEF Pending
<1> QED  BY <1>4, <1>5, <1>6, <1>7 DEF IInv

\* A step forward of the top call settles one variant; the rest stays pending.
LEMMA PendingAfter ==
    ASSUME stack \in Seq(Frame), stack # <<>>, NEW w, NEW m, NEW i \in Nat,
           Pending(w, m, i),
           \/ stack' = Resumed
           \/ \E u \in Name, M \in SUBSET Name : stack' = Call(u, M) \o Resumed
    PROVE  Pending(w, m, i)' \/ (w = Top.union /\ m \in Top.markers /\ i = Top.at)
<1>1. PICK k \in DOMAIN stack : stack[k].union = w /\ m \in stack[k].markers /\ stack[k].at <= i
  BY DEF Pending
<1>2. k \in 1..Len(stack) /\ Len(stack) \in Nat
  OBVIOUS
<1>3. CASE k = 1 /\ i = Top.at
  BY <1>1, <1>3 DEF Top
<1>4. CASE ~(k = 1 /\ i = Top.at)
  <2>1. Resumed[k].union = w /\ m \in Resumed[k].markers /\ Resumed[k].at <= i
    <3>1. CASE k = 1
      <4>1. Top = stack[1]
        BY DEF Top
      <4>2. Top.at \in Nat /\ Top.at <= i /\ i # Top.at
        BY <1>1, <1>4, <3>1, <4>1, ResumedIs, FrameFields
      <4> QED  BY <1>1, <3>1, <4>1, <4>2, ResumedIs
    <3>2. CASE k # 1
      BY <1>1, <3>2, ResumedIs
    <3> QED  BY <3>1, <3>2
  <2>2. CASE stack' = Resumed
    <3>1. k \in DOMAIN stack'
      BY <1>2, <2>2, ResumedIs
    <3> QED  BY <2>1, <2>2, <3>1 DEF Pending
  <2>3. ASSUME NEW u \in Name, NEW M \in SUBSET Name, stack' = Call(u, M) \o Resumed
        PROVE  Pending(w, m, i)'
    <3>1. stack' \in Seq(Frame) /\ Len(stack') = Len(stack) + 1 /\ stack'[k + 1] = Resumed[k]
      BY <1>1, <2>3, CalledIs
    <3>2. k + 1 \in DOMAIN stack'
      BY <1>2, <3>1
    <3> QED  BY <2>1, <3>1, <3>2 DEF Pending
  <2> QED  BY <2>2, <2>3
<1> QED  BY <1>3, <1>4

\* A variant that is visited gets all the call's markers; one that is a union passes
\* them on in a call of its own.
LEMMA VisitStep == ASSUME IInv, Visit PROVE IInv'
<1> DEFINE u == Top.union
           M == Top.markers
           v == decls[u].variants[Top.at]
           n == v.goName
<1>1. /\ UNCHANGED <<doc, phase, next, order, body, exchange>>
      /\ phase = "unions" /\ stack # <<>> /\ Top.at <= Len(decls[u].variants)
      /\ stack \in Seq(Frame) /\ 1 \in DOMAIN stack
  <2>1. /\ UNCHANGED <<doc, phase, next, order, body, exchange>>
        /\ phase = "unions" /\ stack # <<>> /\ Top.at <= Len(decls[u].variants)
    BY DEF Visit
  <2>2. stack \in Seq(Frame)
    BY DEF IInv, TypeOK
  <2> QED  BY <2>1, <2>2
<1>2. /\ Top \in Frame /\ Top = stack[1] /\ u \in DOMAIN decls
      /\ u \in Name /\ M \in SUBSET Name /\ Top.at \in Nat \ {0}
  <2>1. Top \in Frame /\ Top = stack[1]
    BY <1>1, ResumedIs DEF Top
  <2> QED  BY <1>1, <2>1, FrameFields DEF IInv, Calls
<1>3. v \in Variant /\ n \in Name
  <2>1. decls[u].variants \in Seq(Variant)
    BY <1>2 DEF IInv, TypeOK, IsDecl
  <2>2. Top.at \in DOMAIN decls[u].variants
    BY <1>1, <1>2, <2>1
  <2>3. v \in Variant
    BY <2>1, <2>2, ElementOf
  <2> QED  BY <2>3 DEF Variant
<1>4. n \in DOMAIN decls => Link(u, v) \in UnionLink \cup {None}
  <2> SUFFICES ASSUME n \in DOMAIN decls PROVE Link(u, v) \in UnionLink \cup {None}
    OBVIOUS
  <2>1. decls[n].dispatch \in UnionLink \cup {None}
    BY DEF IInv, TypeOK, IsDecl
  <2>2. decls[u].property \in Prop \cup {None} /\ v.tag \in Tag \cup {None}
    BY <1>2, <1>3 DEF IInv, TypeOK, IsDecl, Variant
  <2> HIDE DEF v, u
  <2>3. decls[u].property # None =>
            [union |-> u, property |-> decls[u].property, value |-> v.tag] \in UnionLink
    BY <1>2, <2>2 DEF UnionLink
  <2> QED  BY <2>1, <2>3 DEF Link, n
<1>5. \/ n \notin DOMAIN decls /\ stack' = Resumed /\ decls' = decls
      \/ /\ n \in DOMAIN decls /\ decls[n].kind = "struct" /\ stack' = Resumed
         /\ decls' = [decls EXCEPT ![n].implements = @ \cup M, ![n].dispatch = Link(u, v)]
      \/ /\ n \in DOMAIN decls /\ decls[n].kind = "interface"
         /\ stack' = Call(n, M) \o Resumed
         /\ decls' = [decls EXCEPT ![n].implements = @ \cup M]
  BY Zenon DEF Visit, IsStruct, IsInterface
<1> HIDE DEF v, n, u, M
<1>6. /\ DOMAIN decls' = DOMAIN decls
      /\ decls' = [x \in DOMAIN decls' |-> decls'[x]]
      /\ \A x \in DOMAIN decls : IsDecl(decls'[x])
      /\ \A x \in DOMAIN decls :
            /\ decls'[x].kind = decls[x].kind /\ decls'[x].variants = decls[x].variants
            /\ decls'[x].implements =
                  IF x = n THEN decls[x].implements \cup M ELSE decls[x].implements
  <2>1. CASE decls' = decls /\ n \notin DOMAIN decls
    BY <2>1 DEF IInv, TypeOK
  <2>2. ASSUME NEW e, n \in DOMAIN decls, decls' = [decls EXCEPT ![n] = e], IsDecl(e),
               e.kind = decls[n].kind, e.variants = decls[n].variants,
               e.implements = decls[n].implements \cup M
        PROVE  /\ DOMAIN decls' = DOMAIN decls
               /\ decls' = [x \in DOMAIN decls' |-> decls'[x]]
               /\ \A x \in DOMAIN decls : IsDecl(decls'[x])
               /\ \A x \in DOMAIN decls :
                     /\ decls'[x].kind = decls[x].kind
                     /\ decls'[x].variants = decls[x].variants
                     /\ decls'[x].implements =
                           IF x = n THEN decls[x].implements \cup M
                           ELSE decls[x].implements
    BY <2>2 DEF IInv, TypeOK
  <2>3. CASE n \in DOMAIN decls
    <3>1. IsDecl(decls[n])
      BY <2>3 DEF IInv, TypeOK
    <3> DEFINE a == [decls[n] EXCEPT !.implements = @ \cup M]
               b == [decls[n] EXCEPT !.implements = @ \cup M, !.dispatch = Link(u, v)]
    <3>2. IsDecl(a) /\ IsDecl(b)
      BY <1>2, <1>4, <2>3, <3>1, MarkedTyped
    <3>3. /\ a.kind = decls[n].kind /\ a.variants = decls[n].variants
          /\ a.implements = decls[n].implements \cup M
          /\ b.kind = decls[n].kind /\ b.variants = decls[n].variants
          /\ b.implements = decls[n].implements \cup M
      BY <3>1 DEF IsDecl
    <3>4. decls' = [decls EXCEPT ![n] = a] \/ decls' = [decls EXCEPT ![n] = b]
      <4>1. \/ decls' = [decls EXCEPT ![n].implements = @ \cup M, ![n].dispatch = Link(u, v)]
            \/ decls' = [decls EXCEPT ![n].implements = @ \cup M]
        BY <1>5, <2>3
      <4> QED  BY <4>1, <2>3
    <3> HIDE DEF a, b
    <3> QED  BY <2>2, <2>3, <3>2, <3>3, <3>4
  <2> QED  BY <1>5, <2>1, <2>3
<1>7. /\ stack' \in Seq(Frame)
      /\ \A k \in DOMAIN stack' : stack'[k].union \in DOMAIN decls
  <2>1. \A k \in DOMAIN stack : Resumed[k].union \in DOMAIN decls
    <3>1. \A k \in DOMAIN stack : stack[k].union \in DOMAIN decls
      BY DEF IInv, Calls
    <3>2. ASSUME NEW k \in DOMAIN stack PROVE Resumed[k].union \in DOMAIN decls
      <4>1. CASE k = 1  BY <1>1, <1>2, <4>1, ResumedIs DEF u
      <4>2. CASE k # 1  BY <1>1, <3>1, <4>2, ResumedIs
      <4> QED  BY <4>1, <4>2
    <3> QED  BY <3>2
  <2>2. CASE stack' = Resumed
    <3>1. DOMAIN stack' = DOMAIN stack /\ stack' \in Seq(Frame)
      BY <1>1, <2>2, ResumedIs
    <3> QED  BY <2>1, <2>2, <3>1
  <2>3. CASE n \in DOMAIN decls /\ stack' = Call(n, M) \o Resumed
    <3>1. /\ stack' \in Seq(Frame) /\ Len(stack') = Len(stack) + 1
          /\ stack'[1].union = n /\ \A k \in DOMAIN stack : stack'[k + 1] = Resumed[k]
      <4>1. n \in Name /\ M \in SUBSET Name /\ stack \in Seq(Frame) /\ stack # <<>>
        BY <1>1, <1>2, <1>3
      <4> QED  BY <2>3, <4>1, CalledIs
    <3>2. ASSUME NEW k \in DOMAIN stack', k # 1 PROVE stack'[k].union \in DOMAIN decls
      <4>1. k - 1 \in DOMAIN stack /\ k = (k - 1) + 1
        BY <1>1, <3>1, <3>2
      <4>2. stack'[k] = Resumed[k - 1]
        BY <3>1, <4>1
      <4> QED  BY <2>1, <4>1, <4>2
    <3> QED  BY <2>3, <3>1, <3>2
  <2> QED  BY <1>5, <2>2, <2>3
<1>8. TypeOK'
  <2>1. DOMAIN decls' \subseteq Name
    BY <1>6 DEF IInv, TypeOK
  <2>2. \A x \in DOMAIN decls' : IsDecl(decls'[x])
    BY <1>6
  <2>3. order' \in Seq(DOMAIN decls')
    BY <1>1, <1>6 DEF IInv, TypeOK
  <2>4. /\ IsDocument(doc') /\ phase' \in Phases /\ next' \in Nat \ {0}
        /\ body' \in [Op -> Name \cup {None}] /\ (exchange' # None => IsPayload(exchange'))
    BY <1>1 DEF IInv, TypeOK
  <2> QED  BY <2>1, <2>2, <2>3, <2>4, <1>6, <1>7 DEF TypeOK
<1>9. Named' /\ Emitted' /\ (doc \in Documents)'
  BY <1>1, <1>6, WalkKeeps
<1>10. Calls'
  BY <1>1, <1>6, <1>7 DEF Calls
<1>11. Closed'
  <2> SUFFICES ASSUME NEW w \in DOMAIN decls, decls[w].kind = "interface", Begun(w)',
                      NEW i \in DOMAIN decls[w].variants,
                      NEW m \in decls'[w].implements \cup {w},
                      decls[w].variants[i].goName \in DOMAIN decls
               PROVE  \/ m \in decls'[decls[w].variants[i].goName].implements
                      \/ Pending(w, m, i)'
    BY <1>6 DEF Closed
  <2> DEFINE t == decls[w].variants[i].goName
  <2>1. i \in Nat \ {0} /\ decls[w].variants \in Seq(Variant)
    <3>1. decls[w].variants \in Seq(Variant)
      BY DEF IInv, TypeOK, IsDecl
    <3> QED  BY <3>1
  <2>2. ASSUME Begun(w), m \in decls[w].implements \cup {w}
        PROVE  m \in decls'[t].implements \/ Pending(w, m, i)'
    <3>1. m \in decls[t].implements \/ Pending(w, m, i)
      BY <1>1, <2>2 DEF IInv, Closed
    <3>2. CASE m \in decls[t].implements
      BY <1>6, <3>2
    <3>3. CASE Pending(w, m, i)
      <4>1. Pending(w, m, i)' \/ (w = u /\ m \in M /\ i = Top.at)
        BY <1>1, <1>2, <1>3, <1>5, <2>1, <3>3, PendingAfter DEF u, M
      <4>2. CASE w = u /\ m \in M /\ i = Top.at
        BY <1>6, <4>2 DEF n, v
      <4> QED  BY <4>1, <4>2
    <3> QED  BY <3>1, <3>2, <3>3
  <2>3. CASE w = n /\ m \in M \cup {n}
    <3>1. stack' = Call(n, M) \o Resumed
      BY <1>5, <2>3
    <3>2. /\ stack' \in Seq(Frame) /\ Len(stack') = Len(stack) + 1
          /\ stack'[1].union = n /\ stack'[1].markers = M \cup {n} /\ stack'[1].at = 1
      BY <1>1, <1>2, <1>3, <3>1, CalledIs
    <3>3. 1 \in DOMAIN stack' /\ stack'[1].at <= i
      BY <1>1, <2>1, <3>2
    <3> QED  BY <2>3, <3>2, <3>3 DEF Pending
  <2>4. CASE w = n /\ m \notin M \cup {n}
    <3>1. m \in decls[w].implements
      BY <1>6, <2>4
    <3>2. Begun(w)
      BY <3>1 DEF Begun
    <3> QED  BY <2>2, <3>1, <3>2
  <2>5. CASE w # n
    <3>1. decls'[w].implements = decls[w].implements
      BY <1>6, <2>5
    <3>2. IsVariant(w) => IsVariant(w)'
      <4> SUFFICES ASSUME NEW x \in DOMAIN decls, NEW j \in DOMAIN decls[x].variants,
                          decls[x].variants[j].goName = w
                   PROVE  IsVariant(w)'
        BY DEF IsVariant
      <4>1. x \in DOMAIN decls' /\ decls'[x].variants = decls[x].variants
        BY <1>6
      <4> QED  BY <4>1 DEF IsVariant
    <3>3. Begun(w)
      BY <1>1, <3>1, <3>2 DEF Begun
    <3> QED  BY <2>2, <3>1, <3>3
  <2> QED  BY <2>3, <2>4, <2>5
<1> QED  BY <1>8, <1>9, <1>10, <1>11 DEF IInv

----------------------------------------------------------------------------
(* The passes over all declarations.                                       *)

\* Once the walk is over, every union has been reached, and nothing pends.
LEMMA WalkOver ==
    ASSUME IInv, \/ phase = "unions" /\ stack = <<>> /\ next > Len(order)
                 \/ phase \notin {"declare", "unions"}
    PROVE  \A u \in DOMAIN decls : Reached(u) =>
               \A i \in DOMAIN decls[u].variants : \A m \in decls[u].implements \cup {u} :
                   decls[u].variants[i].goName \in DOMAIN decls =>
                       m \in decls[decls[u].variants[i].goName].implements
<1>1. stack = <<>> /\ phase # "declare"
  BY DEF IInv, Calls
<1>2. ~\E w, m, i : Pending(w, m, i)
  BY <1>1 DEF Pending
<1>3. ASSUME phase = "unions", next > Len(order), NEW u \in DOMAIN decls
      PROVE  \E j \in DOMAIN order : j < next /\ order[j] = u
  <2>1. PICK j \in DOMAIN order : order[j] = u
    BY <1>3 DEF IInv, Named
  <2>2. order \in Seq(DOMAIN decls) /\ next \in Nat
    BY DEF IInv, TypeOK
  <2> QED  BY <1>3, <2>1, <2>2
<1>4. \A u \in DOMAIN decls : Reached(u) => decls[u].kind = "interface" /\ Begun(u)
  BY <1>3 DEF Reached, IsInterface, Begun
<1> QED  BY <1>1, <1>2, <1>4 DEF IInv, Closed

\* A pass that leaves kinds, variants and markers alone keeps Closed.
LEMMA PassKeepsClosed ==
    ASSUME IInv, \/ phase = "unions" /\ stack = <<>> /\ next > Len(order)
                 \/ phase \notin {"declare", "unions"},
           phase' \notin {"declare", "unions"},
           DOMAIN decls' = DOMAIN decls,
           \A n \in DOMAIN decls :
              /\ decls'[n].kind = decls[n].kind
              /\ decls'[n].variants = decls[n].variants
              /\ decls'[n].implements = decls[n].implements
    PROVE  Closed'
<1>1. ASSUME NEW u \in DOMAIN decls, decls[u].kind = "interface", Begun(u)'
      PROVE  Reached(u)
  <2>1. IsVariant(u) => IsVariant(u)'
    <3> SUFFICES ASSUME NEW x \in DOMAIN decls, NEW j \in DOMAIN decls[x].variants,
                        decls[x].variants[j].goName = u
                 PROVE  IsVariant(u)'
      BY DEF IsVariant
    <3>1. x \in DOMAIN decls' /\ decls'[x].variants = decls[x].variants
      OBVIOUS
    <3> QED  BY <3>1 DEF IsVariant
  <2> QED  BY <1>1, <2>1 DEF Begun, Reached, IsInterface
<1>2. \A u \in DOMAIN decls : (decls[u].kind = "interface" /\ Begun(u)') => Reached(u)
  BY <1>1
<1> QED  BY <1>2, WalkOver DEF Closed

\* The walk being over, the fields of the tags go, and the markers stay.
LEMMA DropTagFieldsStep == ASSUME IInv, DropTagFields PROVE IInv'
<1>1. /\ UNCHANGED <<doc, order, stack, body, exchange>>
      /\ phase = "unions" /\ stack = <<>> /\ next > Len(order)
      /\ phase' = "readOnly" /\ next' = 1
      /\ decls' = [n \in DOMAIN decls |-> WithoutTagField(decls[n])]
  BY DEF DropTagFields, Enter
<1>2. \A n \in DOMAIN decls :
          /\ IsDecl(decls'[n])
          /\ decls'[n].kind = decls[n].kind
          /\ decls'[n].variants = decls[n].variants
          /\ decls'[n].implements = decls[n].implements
  BY <1>1, WithoutTagTyped DEF IInv, TypeOK
<1>3. DOMAIN decls' = DOMAIN decls /\ decls' = [n \in DOMAIN decls' |-> decls'[n]]
  BY <1>1
<1>4. TypeOK'
  <2>1. DOMAIN decls' \subseteq Name /\ order' \in Seq(DOMAIN decls')
        /\ \A n \in DOMAIN decls' : IsDecl(decls'[n])
    BY <1>1, <1>2, <1>3 DEF IInv, TypeOK
  <2>2. /\ IsDocument(doc') /\ phase' \in Phases /\ next' \in Nat \ {0}
        /\ stack' \in Seq(Frame) /\ body' \in [Op -> Name \cup {None}]
        /\ (exchange' # None => IsPayload(exchange'))
    BY <1>1 DEF IInv, TypeOK, Phases
  <2> QED  BY <1>3, <2>1, <2>2 DEF TypeOK
<1>5. Named' /\ Calls'
  BY <1>1, <1>2, <1>3 DEF IInv, Named, Calls
<1>6. Closed'
  BY <1>1, <1>2, <1>3, PassKeepsClosed
<1>7. Emitted' /\ (doc \in Documents)'
  BY <1>1 DEF IInv, Emitted, NothingUnsetIsSent
<1> QED  BY <1>4, <1>5, <1>6, <1>7 DEF IInv

\* Clones are new structs; no declaration made before changes.
LEMMA CloneSharedStep == ASSUME IInv, CloneShared PROVE IInv'
<1> DEFINE Clones == {Input[m] : m \in Shared}
           original(n) == CHOOSE m \in Shared : Input[m] = n
<1>1. /\ UNCHANGED <<doc, order, stack, exchange>>
      /\ phase = "readOnly" /\ phase' = "promote" /\ next' = 1
      /\ decls' = [n \in DOMAIN decls \cup Clones |->
                      IF n \in DOMAIN decls THEN decls[n]
                      ELSE StripReadOnly(decls[original(n)])]
      /\ body' = [o \in Op |-> IF body[o] \in Shared THEN Input[body[o]] ELSE body[o]]
  BY Zenon DEF CloneShared, Enter
<1>2. Shared \subseteq DOMAIN decls /\ DOMAIN decls \subseteq GoNames(doc)
      /\ DOMAIN decls \subseteq Name
  BY <1>1 DEF Shared, IsStruct, IInv, Named, TypeOK
<1>3. Clones \subseteq Name /\ \A m \in Shared : Input[m] \in Name
  BY <1>2, GeneratorAssumption
<1>4. Clones \cap GoNames(doc) = {}
  <2>1. doc \in Documents
    BY DEF IInv
  <2> QED  BY <1>2, <2>1, GeneratorAssumption DEF GoNames
<1>5. \A n \in Clones : original(n) \in Shared
  OBVIOUS
<1> HIDE DEF original
<1>6. /\ DOMAIN decls' = DOMAIN decls \cup Clones
      /\ decls' = [n \in DOMAIN decls' |-> decls'[n]]
      /\ \A n \in DOMAIN decls : decls'[n] = decls[n]
      /\ \A n \in Clones : n \notin DOMAIN decls
                           /\ decls'[n] = StripReadOnly(decls[original(n)])
  BY <1>1, <1>2, <1>4
<1> HIDE DEF Clones
<1>7. \A n \in Clones : /\ IsDecl(decls'[n]) /\ decls'[n].kind = "struct"
                        /\ decls'[n].variants = <<>>
  BY <1>2, <1>5, <1>6, StrippedTyped DEF IInv, TypeOK
<1>8. TypeOK'
  <2>1. DOMAIN decls' \subseteq Name /\ \A n \in DOMAIN decls' : IsDecl(decls'[n])
    BY <1>2, <1>3, <1>6, <1>7 DEF IInv, TypeOK
  <2>2. order' \in Seq(DOMAIN decls')
    <3>1. order \in Seq(DOMAIN decls) /\ DOMAIN decls \subseteq DOMAIN decls'
      BY <1>6 DEF IInv, TypeOK
    <3> QED  BY <1>1, <3>1
  <2>3. body' \in [Op -> Name \cup {None}]
    BY <1>1, <1>3 DEF IInv, TypeOK
  <2>4. /\ IsDocument(doc') /\ phase' \in Phases /\ next' \in Nat \ {0}
        /\ stack' \in Seq(Frame) /\ (exchange' # None => IsPayload(exchange'))
    BY <1>1 DEF IInv, TypeOK, Phases
  <2> QED  BY <1>6, <2>1, <2>2, <2>3, <2>4 DEF TypeOK
<1>9. Named'
  BY <1>1, <1>6, <1>7 DEF IInv, Named
<1>10. Calls' /\ Emitted' /\ (doc \in Documents)'
  BY <1>1, <1>6 DEF IInv, Calls, Emitted, NothingUnsetIsSent
<1>11. Closed'
  <2> SUFFICES ASSUME NEW u \in DOMAIN decls', decls'[u].kind = "interface", Begun(u)',
                      NEW i \in DOMAIN decls'[u].variants,
                      NEW m \in decls'[u].implements \cup {u},
                      decls'[u].variants[i].goName \in DOMAIN decls'
               PROVE  m \in decls'[decls'[u].variants[i].goName].implements
    BY DEF Closed
  <2>1. u \in DOMAIN decls /\ decls'[u] = decls[u]
    BY <1>6, <1>7
  <2>2. decls[u].variants[i].goName \in GoNames(doc)
    BY <2>1 DEF IInv, Named
  <2>3. decls[u].variants[i].goName \in DOMAIN decls
    BY <1>4, <1>6, <2>1, <2>2
  <2>4. IsVariant(u) => IsVariant(u)'
    <3> SUFFICES ASSUME NEW x \in DOMAIN decls, NEW j \in DOMAIN decls[x].variants,
                        decls[x].variants[j].goName = u
                 PROVE  IsVariant(u)'
      BY DEF IsVariant
    <3>1. x \in DOMAIN decls' /\ decls'[x].variants = decls[x].variants
      BY <1>6
    <3> QED  BY <3>1 DEF IsVariant
  <2>5. Reached(u)
    BY <1>1, <2>1, <2>4 DEF Begun, Reached, IsInterface
  <2> QED  BY <1>1, <1>6, <2>1, <2>3, <2>5, WalkOver
<1> QED  BY <1>8, <1>9, <1>10, <1>11 DEF IInv

\* After the last pass no optional struct is left by value.
LEMMA PromoteStep == ASSUME IInv, PromoteOptionalStructs PROVE IInv'
<1>1. /\ UNCHANGED <<doc, order, stack, body, exchange>>
      /\ phase = "promote" /\ phase' = "generated" /\ next' = 1
      /\ decls' = [n \in DOMAIN decls |->
                      [decls[n] EXCEPT !.fields = [p \in DOMAIN @ |-> Promoted(@[p])]]]
  BY DEF PromoteOptionalStructs, Enter
<1>2. \A n \in DOMAIN decls :
          /\ IsDecl(decls'[n])
          /\ decls'[n].kind = decls[n].kind
          /\ decls'[n].variants = decls[n].variants
          /\ decls'[n].implements = decls[n].implements
          /\ DOMAIN decls'[n].fields = DOMAIN decls[n].fields
          /\ \A p \in DOMAIN decls[n].fields :
                decls'[n].fields[p] = Promoted(decls[n].fields[p])
  <2> SUFFICES ASSUME NEW n \in DOMAIN decls
               PROVE  /\ IsDecl(decls'[n])
                      /\ decls'[n].kind = decls[n].kind
                      /\ decls'[n].variants = decls[n].variants
                      /\ decls'[n].implements = decls[n].implements
                      /\ DOMAIN decls'[n].fields = DOMAIN decls[n].fields
                      /\ \A p \in DOMAIN decls[n].fields :
                            decls'[n].fields[p] = Promoted(decls[n].fields[p])
    OBVIOUS
  <2>1. IsDecl(decls[n])
    BY DEF IInv, TypeOK
  <2>2. decls'[n] = [decls[n] EXCEPT !.fields = [p \in DOMAIN @ |-> Promoted(@[p])]]
    BY <1>1
  <2> QED  BY <2>1, <2>2, PromotedTyped
<1>3. DOMAIN decls' = DOMAIN decls /\ decls' = [n \in DOMAIN decls' |-> decls'[n]]
  BY <1>1
<1>4. TypeOK'
  <2>1. DOMAIN decls' \subseteq Name /\ order' \in Seq(DOMAIN decls')
        /\ \A n \in DOMAIN decls' : IsDecl(decls'[n])
    BY <1>1, <1>2, <1>3 DEF IInv, TypeOK
  <2>2. /\ IsDocument(doc') /\ phase' \in Phases /\ next' \in Nat \ {0}
        /\ stack' \in Seq(Frame) /\ body' \in [Op -> Name \cup {None}]
        /\ (exchange' # None => IsPayload(exchange'))
    BY <1>1 DEF IInv, TypeOK, Phases
  <2> QED  BY <1>3, <2>1, <2>2 DEF TypeOK
<1>5. Named' /\ Calls'
  <2>1. \A n \in DOMAIN decls' : \A i \in DOMAIN decls'[n].variants :
            decls'[n].variants[i].goName \in GoNames(doc')
    <3>1. \A n \in DOMAIN decls' : n \in DOMAIN decls /\ decls'[n].variants = decls[n].variants
      BY <1>2, <1>3
    <3>2. doc' = doc
      BY <1>1
    <3> QED  BY <3>1, <3>2 DEF IInv, Named
  <2>2. phase' = "generated" /\ stack' = <<>>
    BY <1>1 DEF IInv, Calls
  <2> QED  BY <2>1, <2>2 DEF Named, Calls
<1>6. Closed'
  BY <1>1, <1>2, <1>3, PassKeepsClosed
<1>7. Emitted' /\ (doc \in Documents)'
  <2>1. exchange' = None /\ (doc \in Documents)'
    BY <1>1 DEF IInv, Emitted
  <2>2. ASSUME NEW n \in DOMAIN decls, NEW p \in DOMAIN decls[n].fields
        PROVE  LET f == decls'[n].fields[p]
               IN  \/ f.required \/ f.pointer
                   \/ ~(f.type \in DOMAIN decls' /\ decls'[f.type].kind = "struct")
    <3> DEFINE f == decls[n].fields[p]
    <3>1. f \in Field
      BY DEF IInv, TypeOK, IsDecl, Partial
    <3>2. decls'[n].fields[p] = Promoted(f)
      BY <1>2
    <3> HIDE DEF f
    <3>3. /\ Promoted(f).required = f.required /\ Promoted(f).type = f.type
          /\ Promoted(f).pointer = (f.pointer \/ ShouldPromote(f))
      BY <3>1 DEF Promoted, Field
    <3>4. (f.type \in DOMAIN decls' /\ decls'[f.type].kind = "struct") => IsStruct(f.type)
      BY <1>2, <1>3 DEF IsStruct
    <3> QED  BY <3>2, <3>3, <3>4, Zenon DEF ShouldPromote
  <2> QED  BY <1>2, <1>3, <2>1, <2>2 DEF Emitted, NothingUnsetIsSent, IsStruct
<1> QED  BY <1>4, <1>5, <1>6, <1>7 DEF IInv

----------------------------------------------------------------------------
(* The package in use.                                                     *)

\* An exchange changes nothing else.
LEMMA ExchangeKeeps ==
    ASSUME IInv, phase = "generated",
           UNCHANGED <<doc, phase, next, decls, order, stack, body>>,
           exchange' # None => IsPayload(exchange'), NothingUnsetIsSent'
    PROVE  IInv'
<1>1. TypeOK'
  BY DEF IInv, TypeOK
<1>2. Named' /\ Calls' /\ (doc \in Documents)'
  BY DEF IInv, Named, Calls
<1>3. Closed'
  BY DEF IInv, Closed, Begun, IsVariant, Pending
<1>4. Emitted'
  BY DEF IInv, Emitted, IsStruct
<1> QED  BY <1>1, <1>2, <1>3, <1>4 DEF IInv

\* The fields of a declaration.
LEMMA FieldsTyped ==
    ASSUME IInv, NEW n \in DOMAIN decls
    PROVE  /\ DOMAIN decls[n].fields \subseteq Prop
           /\ \A p \in DOMAIN decls[n].fields : decls[n].fields[p] \in Field
BY DEF IInv, TypeOK, IsDecl, Partial

\* The tags that a value is sent with.
LEMMA InjectedTyped ==
    ASSUME IInv, NEW n \in DOMAIN decls
    PROVE  Partial(Injected(n), Prop, Tag \cup {None})
<1> DEFINE link == decls[n].dispatch
<1>1. link \in UnionLink \cup {None}
  BY DEF IInv, TypeOK, IsDecl
<1>2. CASE link = None
  BY <1>2, EmptyPartial DEF Injected
<1>3. CASE link # None
  <2>1. link.property \in Prop /\ link.value \in Tag \cup {None}
    BY <1>1, <1>3 DEF UnionLink
  <2>2. Injected(n) = [p \in {link.property} |-> link.value]
    BY <1>3 DEF Injected
  <2> HIDE DEF link
  <2> QED  BY <2>1, <2>2 DEF Partial
<1> QED  BY <1>2, <1>3

\* Of what is sent every key is required, set, or a tag.
LEMMA SendStep ==
    ASSUME IInv, NEW o \in Op, Send(o)
    PROVE  IInv'
<1>1. /\ phase = "generated" /\ body[o] \in DOMAIN decls
      /\ UNCHANGED <<doc, phase, next, decls, order, stack, body>>
  BY Zenon DEF Send
<1>n. PICK n \in Accepted(body[o]) : \E set \in SUBSET OptionalOf(n) :
          exchange' = [kind |-> "sent", op |-> o, of |-> n, set |-> set,
                       keys |-> Written(n, set) \cup DOMAIN Injected(n),
                       tags |-> Injected(n), got |-> None]
  BY Zenon DEF Send
<1>2. PICK set \in SUBSET OptionalOf(n) :
          exchange' = [kind |-> "sent", op |-> o, of |-> n, set |-> set,
                       keys |-> Written(n, set) \cup DOMAIN Injected(n),
                       tags |-> Injected(n), got |-> None]
  BY <1>n
<1>3. n \in DOMAIN decls /\ n \in Name
  BY <1>1 DEF Accepted, IInv, TypeOK
<1>4. OptionalOf(n) \subseteq Prop /\ Written(n, set) \subseteq Prop
  BY <1>3, FieldsTyped DEF OptionalOf, Written
<1>5. Partial(Injected(n), Prop, Tag \cup {None}) /\ DOMAIN Injected(n) \subseteq Prop
  BY <1>3, InjectedTyped DEF Partial
<1> DEFINE keys == Written(n, set) \cup DOMAIN Injected(n)
<1>6. keys \subseteq Prop /\ set \subseteq Prop
  BY <1>4, <1>5
<1>7. keys \subseteq RequiredOf(decls[n]) \cup set \cup DOMAIN Injected(n)
  <2>1. Written(n, set) \subseteq RequiredOf(decls[n]) \cup set
    BY <1>1, <1>3, Zenon DEF IInv, Emitted, Written, RequiredOf
  <2> QED  BY <2>1
<1> DEFINE tags == Injected(n)
<1>8. exchange' = [kind |-> "sent", op |-> o, of |-> n, set |-> set, keys |-> keys,
                   tags |-> tags, got |-> None]
  BY <1>2
<1>9. Partial(tags, Prop, Tag \cup {None}) /\ keys \subseteq RequiredOf(decls[n]) \cup set \cup DOMAIN tags
  BY <1>5, <1>7
<1> HIDE DEF keys, tags
<1>10. IsPayload(exchange')
  BY <1>3, <1>6, <1>8, <1>9 DEF IsPayload
<1>11. NothingUnsetIsSent'
  <2>1. /\ exchange'.kind = "sent" /\ exchange'.of = n /\ exchange'.keys = keys
        /\ exchange'.set = set /\ exchange'.tags = tags
    BY <1>8
  <2>2. RequiredOf(decls'[exchange'.of]) = RequiredOf(decls[n])
    BY <1>1, <2>1
  <2> QED  BY <1>9, <2>1, <2>2 DEF NothingUnsetIsSent
<1> QED  BY <1>1, <1>10, <1>11, ExchangeKeeps

\* Whatever is decoded is a struct of the package, or it failed.
LEMMA DecodedTyped ==
    ASSUME IInv, NEW n, NEW keys, NEW tags
    PROVE  /\ DecodeJSON(n, keys) \in Name \cup {Failed}
           /\ DecodeReply(n, keys) \in Name \cup {Failed}
           /\ DecodeCallback(n, keys, tags) \in Name \cup {Failed}
<1>1. \A m : DecodeJSON(m, keys) \in Name \cup {Failed}
  BY DEF IInv, TypeOK, DecodeJSON, IsStruct
<1>2. DecodeTagged(n, keys, tags) \in Name \cup {Failed}
  BY <1>1, Zenon DEF DecodeTagged
<1>3. DecodeProbe(n, keys) \in Name \cup {Failed}
  BY <1>1, Zenon DEF DecodeProbe
<1> QED  BY <1>1, <1>2, <1>3, Zenon DEF DecodeReply, DecodeCallback

\* The members of a union are schemas, under tags.
LEMMA MembersTyped ==
    ASSUME IInv, NEW s \in Spec, NEW m \in Members(s)
    PROVE  m.schema \in Spec /\ Partial(m.tags, Prop, Tag \cup {None})
<1> DEFINE u == doc.schemas[s]
<1>1. IsDocument(doc)
  BY DEF IInv, TypeOK
<1>2. /\ u.mapping \in Seq([tag : Tag, schema : Spec])
      /\ u.branches \in Seq(Spec) /\ u.property \in Prop \cup {None}
  BY <1>1, SchemaTyped
<1>3. CASE m = [schema |-> s, tags |-> <<>>]
  BY <1>3, EmptyPartial
<1>4. ASSUME NEW i \in DOMAIN u.mapping,
             m = [schema |-> u.mapping[i].schema,
                  tags |-> Tags(u.property, u.mapping[i].tag)]
      PROVE  m.schema \in Spec /\ Partial(m.tags, Prop, Tag \cup {None})
  <2>1. u.mapping[i] \in [tag : Tag, schema : Spec]
    BY <1>2, ElementOf
  <2>2. u.mapping[i].tag \in Tag /\ u.mapping[i].schema \in Spec
    BY <2>1
  <2>3. m.schema = u.mapping[i].schema /\ m.tags = Tags(u.property, u.mapping[i].tag)
    BY <1>4
  <2> HIDE DEF u
  <2>4. Partial(Tags(u.property, u.mapping[i].tag), Prop, Tag \cup {None})
    <3>1. CASE u.property = None
      BY <3>1, EmptyPartial DEF Tags
    <3>2. CASE u.property # None
      <4>1. Tags(u.property, u.mapping[i].tag) = [p \in {u.property} |-> u.mapping[i].tag]
        BY <3>2 DEF Tags
      <4> QED  BY <1>2, <2>2, <3>2, <4>1 DEF Partial
    <3> QED  BY <3>1, <3>2
  <2> QED  BY <2>2, <2>3, <2>4
<1>5. ASSUME NEW i \in DOMAIN u.branches, m = [schema |-> u.branches[i], tags |-> <<>>]
      PROVE  m.schema \in Spec /\ Partial(m.tags, Prop, Tag \cup {None})
  <2>1. u.branches[i] \in Spec
    BY <1>2, ElementOf
  <2> QED  BY <1>5, <2>1, EmptyPartial
<1> QED  BY <1>3, <1>4, <1>5, Zenon DEF Members

\* The keys of a payload are properties.
LEMMA KeySetsTyped ==
    ASSUME IInv, NEW m, m.schema \in Spec, Partial(m.tags, Prop, Tag \cup {None}),
           NEW keys \in KeySets(m)
    PROVE  keys \subseteq Prop
<1>1. Partial(doc.schemas[m.schema].props, Prop, Property)
  BY SchemaTyped DEF IInv, TypeOK
<1> QED  BY <1>1 DEF KeySets, Partial

\* Whatever is received is well formed, and nothing that is sent.
LEMMA ReceivedTyped ==
    ASSUME IInv, phase = "generated",
           UNCHANGED <<doc, phase, next, decls, order, stack, body>>,
           NEW s \in Spec, NEW kind \in {"reply", "callback"}, NEW o \in Op \cup {None},
           NEW m \in Members(s), NEW keys \in KeySets(m), NEW got \in Name \cup {Failed},
           exchange' = [kind |-> kind, op |-> o, of |-> m.schema, set |-> {},
                        keys |-> keys, tags |-> m.tags, got |-> got]
    PROVE  IInv'
<1>1. m.schema \in Name /\ Partial(m.tags, Prop, Tag \cup {None}) /\ keys \subseteq Prop
  BY MembersTyped, KeySetsTyped, GeneratorAssumption
<1> DEFINE tags == m.tags
           of == m.schema
<1>2. exchange' = [kind |-> kind, op |-> o, of |-> of, set |-> {}, keys |-> keys,
                   tags |-> tags, got |-> got]
  OBVIOUS
<1>3. of \in Name /\ Partial(tags, Prop, Tag \cup {None})
  BY <1>1
<1> HIDE DEF tags, of
<1>4. IsPayload(exchange')
  BY <1>1, <1>2, <1>3 DEF IsPayload
<1>5. NothingUnsetIsSent'
  BY <1>2 DEF NothingUnsetIsSent
<1> QED  BY <1>4, <1>5, ExchangeKeeps

\* A reply is received.
LEMMA ReplyStep ==
    ASSUME IInv, NEW o \in Op, Reply(o)
    PROVE  IInv'
<1>1. /\ phase = "generated" /\ doc.reply[o] # None
      /\ UNCHANGED <<doc, phase, next, decls, order, stack, body>>
  BY Zenon DEF Reply
<1>2. doc.reply[o] \in Spec
  BY <1>1 DEF IInv, TypeOK, IsDocument
<1>3. PICK m \in Members(doc.reply[o]) : \E keys \in KeySets(m) :
          exchange' = [kind |-> "reply", op |-> o, of |-> m.schema, set |-> {},
                       keys |-> keys, tags |-> m.tags,
                       got |-> DecodeReply(TypeOf(doc.reply[o]), keys)]
  BY Zenon DEF Reply, Receive
<1>4. PICK keys \in KeySets(m) :
          exchange' = [kind |-> "reply", op |-> o, of |-> m.schema, set |-> {},
                       keys |-> keys, tags |-> m.tags,
                       got |-> DecodeReply(TypeOf(doc.reply[o]), keys)]
  BY <1>3
<1> QED  BY <1>1, <1>2, <1>4, DecodedTyped, ReceivedTyped

\* And so is a callback.
LEMMA CallbackStep == ASSUME IInv, Callback PROVE IInv'
<1>1. /\ phase = "generated" /\ doc.callback # None
      /\ UNCHANGED <<doc, phase, next, decls, order, stack, body>>
  BY Zenon DEF Callback
<1>2. doc.callback \in Spec
  BY <1>1 DEF IInv, TypeOK, IsDocument
<1>3. PICK m \in Members(doc.callback) : \E keys \in KeySets(m) :
          exchange' = [kind |-> "callback", op |-> None, of |-> m.schema, set |-> {},
                       keys |-> keys, tags |-> m.tags,
                       got |-> DecodeCallback(TypeOf(doc.callback), keys, m.tags)]
  BY Zenon DEF Callback, Receive
<1>4. PICK keys \in KeySets(m) :
          exchange' = [kind |-> "callback", op |-> None, of |-> m.schema, set |-> {},
                       keys |-> keys, tags |-> m.tags,
                       got |-> DecodeCallback(TypeOf(doc.callback), keys, m.tags)]
  BY <1>3
<1> QED  BY <1>1, <1>2, <1>4, DecodedTyped, ReceivedTyped

\* The strengthening is inductive.
LEMMA NextIInv == ASSUME IInv, [Next]_vars PROVE IInv'
<1>1. CASE Generate
  BY <1>1, DeclareStep, BuildOperationsStep, SeedStep, VisitStep, ReturnStep,
     DropTagFieldsStep, CloneSharedStep, PromoteStep DEF Generate
<1>2. CASE Use
  BY <1>2, SendStep, ReplyStep, CallbackStep DEF Use
<1>3. CASE UNCHANGED vars
  <2>1. UNCHANGED <<doc, phase, next, decls, order, stack, body, exchange>>
    BY <1>3 DEF vars
  <2>2. TypeOK'
    BY <2>1 DEF IInv, TypeOK
  <2>3. Named' /\ Calls' /\ (doc \in Documents)'
    BY <2>1 DEF IInv, Named, Calls
  <2>4. Closed'
    BY <2>1 DEF IInv, Closed, Begun, IsVariant, Pending
  <2>5. Emitted'
    BY <2>1 DEF IInv, Emitted, IsStruct, NothingUnsetIsSent
  <2> QED  BY <2>2, <2>3, <2>4, <2>5 DEF IInv
<1> QED  BY <1>1, <1>2, <1>3 DEF Next

----------------------------------------------------------------------------

\* The strengthening, in every reachable state.
THEOREM Inductive == GeneratorSpec => []IInv
BY InitIInv, NextIInv, PTL DEF GeneratorSpec

\* Every declaration the builder makes of a document, and every one the passes
\* make of it, is well formed; so are the payloads.
THEOREM Typing == GeneratorSpec => []TypeOK
<1>1. IInv => TypeOK  BY DEF IInv
<1> QED  BY <1>1, Inductive, PTL

\* Whatever unions contain, share and nest in which order: when the walk is
\* over, every variant has the markers of all unions above it.
THEOREM MarkersReach == GeneratorSpec => []VariantsImplementTheirUnion
<1>1. ASSUME IInv PROVE VariantsImplementTheirUnion
  BY <1>1, WalkOver DEF VariantsImplementTheirUnion
<1> QED  BY <1>1, Inductive, PTL

\* No payload has a key the caller did not set, nor the schema require.
THEOREM NothingUnset == GeneratorSpec => []NothingUnsetIsSent
<1>1. IInv => NothingUnsetIsSent  BY DEF IInv, Emitted
<1> QED  BY <1>1, Inductive, PTL
=============================================================================

------------------------------ MODULE Schemas ------------------------------
(***************************************************************************)
(* What revogen reads and what it declares from it: the component schemas  *)
(* of an OpenAPI document (objects and unions), and the Go declaration     *)
(* that cmd/revogen/build makes of one schema, given the declarations it   *)
(* made of the schemas before it.  Constant-level: Generator.tla holds the *)
(* program that walks the schemas and everything after it.                 *)
(*                                                                         *)
(* A schema is its properties and its references; allOf merging, inline    *)
(* schemas, enums and primitive aliases are left out.  Of an array there   *)
(* is only that it declares nothing.                                       *)
(***************************************************************************)
EXTENDS Integers, Sequences, FiniteSets, FiniteSetsExt

CONSTANTS
    Spec,       \* names of component schemas
    Name,       \* Go identifiers; a spec name may be one
    Prop,       \* names of JSON properties
    Tag,        \* values of a discriminator
    Op,         \* operations of the API
    None        \* no reference, no discriminator, no declaration

(* f is a partial function from D to R. *)
Partial(f, D, R) == DOMAIN f \subseteq D /\ f \in [DOMAIN f -> R]

----------------------------------------------------------------------------
(* The document, as the loader hands it to the builder.                    *)

\* A property: a scalar (type None) or a $ref, and the enum of its values.
Property == [type : Spec \cup {None}, required : BOOLEAN, readOnly : BOOLEAN,
             enum : SUBSET Tag]

\* An object has properties.  A union has a mapping in the order of its sorted
\* tags, with the property the tags are values of (None when the document
\* gives only the mapping), or the $refs of its oneOf / anyOf, or both.
IsSchema(u) ==
    /\ u \in [kind : {"object", "union", "array"}, props : {u.props},
             property : Prop \cup {None}, mapping : Seq([tag : Tag, schema : Spec]),
             branches : Seq(Spec)]
    /\ Partial(u.props, Prop, Property)
    /\ \A i, j \in DOMAIN u.mapping : u.mapping[i].tag = u.mapping[j].tag => i = j

\* goName is what names.TypeName makes of each name, with the suffix of a
\* reserved one; order is the sorted order of the schema names, all of them.
IsDocument(d) ==
    /\ d \in [schemas : {d.schemas}, goName : [Spec -> Name], order : Seq(Spec),
             body : [Op -> Spec \cup {None}], reply : [Op -> Spec \cup {None}],
             callback : Spec \cup {None}]
    /\ {d.order[i] : i \in DOMAIN d.order} = Spec
    /\ DOMAIN d.schemas = Spec
    /\ \A s \in Spec : IsSchema(d.schemas[s])

----------------------------------------------------------------------------
(* The declarations.                                                       *)

Field == [type : Name \cup {None}, pointer : BOOLEAN,
          required : BOOLEAN, readOnly : BOOLEAN]
Variant == [goName : Name, tag : Tag \cup {None}, probe : SUBSET Prop]
UnionLink == [union : Name, property : Prop, value : Tag \cup {None}]
IsDecl(d) ==
    /\ d \in [kind : {"struct", "interface"}, fields : {d.fields}, variants : Seq(Variant),
             property : Prop \cup {None}, implements : SUBSET Name,
             dispatch : UnionLink \cup {None}]
    /\ Partial(d.fields, Prop, Field)

Struct(fields) ==
    [kind |-> "struct", fields |-> fields, variants |-> <<>>, property |-> None,
     implements |-> {}, dispatch |-> None]

Interface(variants, property) ==
    [kind |-> "interface", fields |-> <<>>, variants |-> variants,
     property |-> property, implements |-> {}, dispatch |-> None]

(* The field of a property met while the declaration of `building` is made: *)
(* a reference to that very schema becomes a pointer.                       *)
FieldOf(doc, building, p) ==
    [type |-> IF p.type = None THEN None ELSE doc.goName[p.type],
     pointer |-> p.type # None /\ p.type = building,
     required |-> p.required,
     readOnly |-> p.readOnly]

(* An object keeps its properties, each with its own `required`. *)
StructFromSchema(doc, s) ==
    LET props == doc.schemas[s].props
    IN  Struct([p \in DOMAIN props |-> FieldOf(doc, s, props[p])])

(* The values the schema of the discriminator property admits, as its first *)
(* branch that has the property declares them; none when it is free-form.   *)
WireEnum(doc, u) ==
    LET PropsOf(i) == doc.schemas[u.branches[i]].props
        having == {i \in DOMAIN u.branches : u.property \in DOMAIN PropsOf(i)}
    IN  IF having = {} THEN {} ELSE PropsOf(Min(having))[u.property].enum

(* The tags can appear on the wire: the property is free, or shares a value. *)
WireCompatible(doc, u) ==
    \/ WireEnum(doc, u) = {}
    \/ \E i \in DOMAIN u.mapping : u.mapping[i].tag \in WireEnum(doc, u)

\* Fault: only the properties that every member has.
Flatten_Common(doc, building, members) ==
    LET found == {i \in DOMAIN members : members[i] \in Spec}
        First(p) == doc.schemas[members[Min(found)]].props[p]
        common == {p \in Prop : \A i \in found : p \in DOMAIN doc.schemas[members[i]].props}
    IN  Struct([p \in common |-> [FieldOf(doc, building, First(p)) EXCEPT !.required = FALSE]])

(* The merged struct of the members: every property of theirs, optional, with *)
(* the type of the first that has it.  A member that names no schema of the   *)
(* document is passed over, and a union has no properties of its own.         *)
Flatten(doc, building, members) ==
    LET found == {i \in DOMAIN members : members[i] \in Spec}
        Carriers(p) == {i \in found : p \in DOMAIN doc.schemas[members[i]].props}
        First(p) == doc.schemas[members[Min(Carriers(p))]].props[p]
    IN  Struct([p \in {q \in Prop : Carriers(q) # {}} |->
                    [FieldOf(doc, building, First(p)) EXCEPT !.required = FALSE]])

RequiredOf(decl) == {p \in DOMAIN decl.fields : decl.fields[p].required}

(* The required properties of a variant that no other variant requires. *)
Probe(decls, names, i) ==
    RequiredOf(decls[names[i]])
        \ UNION {RequiredOf(decls[names[j]]) : j \in DOMAIN names \ {i}}

(* Every variant is declared already, is a struct, and has a probe. *)
Disjoint(decls, names) ==
    /\ \A i \in DOMAIN names :
          names[i] \in DOMAIN decls /\ decls[names[i]].kind = "struct"
    /\ \A i \in DOMAIN names : Probe(decls, names, i) # {}

(* An untagged union of $refs: an interface when probes tell its variants    *)
(* apart, else a merged struct -- whose members are looked up by Go name.    *)
UntaggedUnion(doc, decls, s) ==
    LET u == doc.schemas[s]
        names == [i \in DOMAIN u.branches |-> doc.goName[u.branches[i]]]
    IN  IF Disjoint(decls, names)
        THEN Interface([i \in DOMAIN names |->
                 [goName |-> names[i], tag |-> None, probe |-> Probe(decls, names, i)]], None)
        ELSE Flatten(doc, s, names)

(* A discriminated union: an interface when its tags are on the wire, else *)
(* editorial grouping, and a merged struct.                                *)
UnionFromDiscriminator(doc, s) ==
    LET u == doc.schemas[s]
    IN  IF u.property # None /\ WireCompatible(doc, u)
        THEN Interface([i \in DOMAIN u.mapping |->
                 [goName |-> doc.goName[u.mapping[i].schema], tag |-> u.mapping[i].tag,
                  probe |-> {}]], u.property)
        ELSE Flatten(doc, s, [i \in DOMAIN u.mapping |-> u.mapping[i].schema])

(* The declaration of a schema, None when there is none to make. *)
DeclFromSchema(doc, decls, s) ==
    LET u == doc.schemas[s]
    IN  CASE u.kind = "object"                      -> StructFromSchema(doc, s)
          [] u.kind = "union" /\ u.mapping # <<>>   -> UnionFromDiscriminator(doc, s)
          [] u.kind = "union" /\ u.mapping = <<>>
                              /\ u.branches # <<>>  -> UntaggedUnion(doc, decls, s)
          [] OTHER                                  -> None
=============================================================================

----------------------------- MODULE Generator -----------------------------
(***************************************************************************)
(* revogen, from the component schemas of a document to the methods of the *)
(* generated package: the builder walks the schemas in order and declares  *)
(* what each one is (cmd/revogen/build), the lowering passes rewrite the   *)
(* declarations in a fixed order (cmd/revogen/lower), and the code emitted *)
(* for them encodes request bodies and decodes replies and callbacks       *)
(* (cmd/revogen/emit).  The generator is one sequential program; the       *)
(* package then exchanges any payload the document allows, one at a time.  *)
(*                                                                         *)
(* A payload is the set of its top-level keys and the values of its        *)
(* discriminators.  The map of the read-only pass is visited in no order,  *)
(* which nothing here tells apart.  Go names are taken not to collide with *)
(* a clone's, so the pass that renames duplicates finds none.  What the    *)
(* emitted methods check of a body before they send it is left out.        *)
(***************************************************************************)
EXTENDS Schemas

CONSTANTS
    Documents,  \* the documents the generator may be run on
    Input,      \* the Go name of the clone of a declaration
    Failed      \* a decoding that returned an error

ASSUME GeneratorAssumption ==
    /\ \A d \in Documents : IsDocument(d)
    /\ Spec \subseteq Name
    /\ Input \in [Name -> Name]
    /\ \A d \in Documents : \A s, t \in Spec :
          /\ Input[d.goName[s]] # d.goName[t]
          /\ Input[d.goName[s]] = Input[d.goName[t]] => d.goName[s] = d.goName[t]
    /\ None \notin Spec \cup Name \cup Prop \cup Tag \cup UnionLink
    /\ \A d \in Documents : \A s \in Spec : StructFromSchema(d, s) # None
    /\ Failed \notin Name \cup {None}

VARIABLES
    doc,        \* the document
    phase,      \* what the generator does next
    next,       \* position in the list the phase walks
    decls,      \* the declarations, by Go name
    order,      \* their names, in the order they were registered
    stack,      \* calls of propagate in progress
    body,       \* the type of each operation's request body
    exchange    \* the last payload sent or received by the package

vars == <<doc, phase, next, decls, order, stack, body, exchange>>

Phases == {"declare", "unions", "readOnly", "promote", "generated"}
Frame == [union : Name, markers : SUBSET Name, at : Nat \ {0}]
IsPayload(x) ==
    /\ x \in [kind : {"sent", "reply", "callback"}, op : Op \cup {None},
             of : Name, set : SUBSET Prop, keys : SUBSET Prop,
             tags : {x.tags}, got : Name \cup {None, Failed}]
    /\ Partial(x.tags, Prop, Tag \cup {None})

TypeOK ==
    /\ IsDocument(doc)
    /\ phase \in Phases
    /\ next \in Nat \ {0}
    /\ DOMAIN decls \subseteq Name
    /\ decls = [n \in DOMAIN decls |-> decls[n]]
    /\ \A n \in DOMAIN decls : IsDecl(decls[n])
    /\ order \in Seq(DOMAIN decls)
    /\ stack \in Seq(Frame)
    /\ body \in [Op -> Name \cup {None}]
    /\ exchange # None => IsPayload(exchange)

Init ==
    /\ doc \in Documents
    /\ phase = "declare"
    /\ next = 1
    /\ decls = <<>>
    /\ order = <<>>
    /\ stack = <<>>
    /\ body = [o \in Op |-> None]
    /\ exchange = None

Enter(p) == phase' = p /\ next' = 1

IsStruct(n) == n \in DOMAIN decls /\ decls[n].kind = "struct"
IsInterface(n) == n \in DOMAIN decls /\ decls[n].kind = "interface"

----------------------------------------------------------------------------
(* build: one declaration per schema, in sorted order.                     *)

\* Fault: a schema that declares nothing is not stepped over.
Declare_Stays ==
    /\ phase = "declare" /\ next <= Len(doc.order)
    /\ LET s == doc.order[next]
           d == DeclFromSchema(doc, decls, s)
       IN  /\ ~(doc.goName[s] \in DOMAIN decls \/ d = None)
           /\ decls' = [n \in DOMAIN decls \cup {doc.goName[s]} |->
                            IF n = doc.goName[s] THEN d ELSE decls[n]]
           /\ order' = Append(order, doc.goName[s])
    /\ next' = next + 1
    /\ UNCHANGED <<doc, phase, stack, body, exchange>>

Declare ==
    /\ phase = "declare" /\ next <= Len(doc.order)
    /\ LET s == doc.order[next]
           d == DeclFromSchema(doc, decls, s)
       IN  \* the first schema with a Go name wins; some declare nothing
           IF doc.goName[s] \in DOMAIN decls \/ d = None
           THEN UNCHANGED <<decls, order>>
           ELSE /\ decls' = [n \in DOMAIN decls \cup {doc.goName[s]} |->
                                IF n = doc.goName[s] THEN d ELSE decls[n]]
                /\ order' = Append(order, doc.goName[s])
    /\ next' = next + 1
    /\ UNCHANGED <<doc, phase, stack, body, exchange>>

TypeOf(s) == IF s = None THEN None ELSE doc.goName[s]

BuildOperations ==
    /\ phase = "declare" /\ next > Len(doc.order)
    /\ body' = [o \in Op |-> TypeOf(doc.body[o])]
    /\ Enter("unions")
    /\ UNCHANGED <<doc, decls, order, stack, exchange>>

----------------------------------------------------------------------------
(* lower/unions.go: propagate, called for every top-level interface, gives *)
(* each variant the markers collected on the way down, and each struct of  *)
(* a tagged union the link its MarshalJSON injects.  Both are gathered in  *)
(* maps and attached at the end; nothing reads a struct's before that.     *)

IsVariant(n) ==
    \E u \in DOMAIN decls :
        \E i \in DOMAIN decls[u].variants : decls[u].variants[i].goName = n

\* Faults: the markers collected on the way down are left behind; the list of
\* variants is taken to start at zero.
Call_Forgets(u, markers) == <<[union |-> u, markers |-> {u}, at |-> 1]>>
Call_FromZero(u, markers) == <<[union |-> u, markers |-> markers \cup {u}, at |-> 0]>>

Call(u, markers) == <<[union |-> u, markers |-> markers \cup {u}, at |-> 1]>>

Seed ==
    /\ phase = "unions" /\ stack = <<>> /\ next <= Len(order)
    /\ stack' = IF IsInterface(order[next]) /\ ~IsVariant(order[next])
                THEN Call(order[next], {})
                ELSE <<>>
    /\ next' = next + 1
    /\ UNCHANGED <<doc, phase, decls, order, body, exchange>>

Top == stack[1]
Below == Tail(stack)
Resumed == <<[Top EXCEPT !.at = @ + 1]>> \o Below

\* Fault: a union without a discriminator takes the link of a variant away.
Link_Reset(u, v) ==
    IF decls[u].property = None THEN None
    ELSE [union |-> u, property |-> decls[u].property, value |-> v.tag]

Link(u, v) ==
    IF decls[u].property = None THEN decls[v.goName].dispatch
    ELSE [union |-> u, property |-> decls[u].property, value |-> v.tag]

Visit ==
    /\ phase = "unions" /\ stack # <<>> /\ Top.at <= Len(decls[Top.union].variants)
    /\ LET v == decls[Top.union].variants[Top.at]
           n == v.goName
       IN  \/ /\ n \notin DOMAIN decls
              /\ stack' = Resumed
              /\ UNCHANGED decls
           \/ /\ IsStruct(n)
              /\ decls' = [decls EXCEPT ![n].implements = @ \cup Top.markers,
                                        ![n].dispatch = Link(Top.union, v)]
              /\ stack' = Resumed
           \/ /\ IsInterface(n)
              /\ decls' = [decls EXCEPT ![n].implements = @ \cup Top.markers]
              /\ stack' = Call(n, Top.markers) \o Resumed
    /\ UNCHANGED <<doc, phase, next, order, body, exchange>>

Return ==
    /\ phase = "unions" /\ stack # <<>> /\ Top.at > Len(decls[Top.union].variants)
    /\ stack' = Below
    /\ UNCHANGED <<doc, phase, next, decls, order, body, exchange>>

(* The field that a tag stands for goes: the emitted code writes the tag. *)
WithoutTagField(d) ==
    IF d.dispatch = None THEN d
    ELSE [d EXCEPT !.fields =
             [p \in DOMAIN d.fields \ {d.dispatch.property} |-> d.fields[p]]]

DropTagFields ==
    /\ phase = "unions" /\ stack = <<>> /\ next > Len(order)
    /\ decls' = [n \in DOMAIN decls |-> WithoutTagField(decls[n])]
    /\ Enter("readOnly")
    /\ UNCHANGED <<doc, order, stack, body, exchange>>

----------------------------------------------------------------------------
(* lower/readonly.go: a struct that requests and responses share, and that *)
(* has read-only fields, gets a clone without them for the requests.       *)

FieldTypes(n) ==
    IF IsStruct(n)
    THEN {decls[n].fields[p].type : p \in DOMAIN decls[n].fields} \ {None}
    ELSE {}

\* The types met walking from the roots through the fields of structs: those in
\* every set that has the roots and is closed under the fields of its members.
Uses(roots) ==
    LET types == roots \cup UNION {FieldTypes(n) : n \in DOMAIN decls}
        Closed(S) == roots \subseteq S /\ \A n \in S : FieldTypes(n) \subseteq S
    IN  {t \in types : \A S \in SUBSET types : Closed(S) => t \in S}

Bodies == {body[o] : o \in Op} \ {None}
Replies == {TypeOf(doc.reply[o]) : o \in Op} \ {None}

HasReadOnly(n) == \E p \in DOMAIN decls[n].fields : decls[n].fields[p].readOnly

Shared == {n \in Uses(Bodies) \cap Uses(Replies) : IsStruct(n) /\ HasReadOnly(n)}

\* The clone keeps the markers; it is given no dispatch.
StripReadOnly(d) ==
    [Struct([p \in {q \in DOMAIN d.fields : ~d.fields[q].readOnly} |-> d.fields[p]])
        EXCEPT !.implements = d.implements]

\* Fault: the clones are made and no body is switched to them.
CloneShared_Unused ==
    /\ phase = "readOnly"
    /\ decls' = [n \in DOMAIN decls \cup {Input[m] : m \in Shared} |->
                    IF n \in DOMAIN decls THEN decls[n]
                    ELSE StripReadOnly(decls[CHOOSE m \in Shared : Input[m] = n])]
    /\ Enter("promote")
    /\ UNCHANGED <<doc, order, stack, body, exchange>>

\* Only the top-level types of request bodies are switched to the clones.
CloneShared ==
    /\ phase = "readOnly"
    /\ decls' = [n \in DOMAIN decls \cup {Input[m] : m \in Shared} |->
                    IF n \in DOMAIN decls THEN decls[n]
                    ELSE StripReadOnly(decls[CHOOSE m \in Shared : Input[m] = n])]
    /\ body' = [o \in Op |-> IF body[o] \in Shared THEN Input[body[o]] ELSE body[o]]
    /\ Enter("promote")
    /\ UNCHANGED <<doc, order, stack, exchange>>

(* lower/optionalstructs.go: an optional field of a struct type, clones'   *)
(* included, becomes a pointer, which omitempty can leave out.             *)
\* Fault: only the fields that are required are looked at.
ShouldPromote_Required(f) == f.required /\ ~f.pointer /\ IsStruct(f.type)

ShouldPromote(f) == ~f.required /\ ~f.pointer /\ IsStruct(f.type)

Promoted(f) == [f EXCEPT !.pointer = @ \/ ShouldPromote(f)]

PromoteOptionalStructs ==
    /\ phase = "promote"
    /\ decls' = [n \in DOMAIN decls |->
                    [decls[n] EXCEPT !.fields = [p \in DOMAIN @ |-> Promoted(@[p])]]]
    /\ Enter("generated")
    /\ UNCHANGED <<doc, order, stack, body, exchange>>

----------------------------------------------------------------------------
(* The emitted code.  Encoding: a required field is always written, an     *)
(* optional one when set -- but omitempty never leaves a struct value out. *)

OptionalOf(n) == {p \in DOMAIN decls[n].fields : ~decls[n].fields[p].required}

Written(n, set) ==
    {p \in DOMAIN decls[n].fields :
        LET f == decls[n].fields[p]
        IN  f.required \/ p \in set \/ (~f.pointer /\ IsStruct(f.type))}

\* MarshalJSON of a tagged variant writes the tag beside the fields.
Injected(n) ==
    LET link == decls[n].dispatch
    IN  IF link = None THEN <<>> ELSE [p \in {link.property} |-> link.value]

\* The structs Go accepts where a type is asked for.
Accepted(t) ==
    IF IsStruct(t) THEN {t}
    ELSE {n \in DOMAIN decls : IsStruct(n) /\ t \in decls[n].implements}

Send(o) ==
    /\ phase = "generated" /\ body[o] \in DOMAIN decls
    /\ \E n \in Accepted(body[o]) : \E set \in SUBSET OptionalOf(n) :
          exchange' = [kind |-> "sent", op |-> o, of |-> n, set |-> set,
                       keys |-> Written(n, set) \cup DOMAIN Injected(n),
                       tags |-> Injected(n), got |-> None]
    /\ UNCHANGED <<doc, phase, next, decls, order, stack, body>>

(* Decoding.  encoding/json fills a struct whatever keys there are, but     *)
(* cannot fill an interface: neither as the target nor as a field of it.    *)
DecodeJSON(n, keys) ==
    IF /\ IsStruct(n)
       /\ \A p \in keys \cap DOMAIN decls[n].fields : ~IsInterface(decls[n].fields[p].type)
    THEN n ELSE Failed

\* The helper emitted for a tagged union reads the tag.
DecodeTagged(u, keys, tags) ==
    LET matching == {i \in DOMAIN decls[u].variants :
                        /\ decls[u].property \in DOMAIN tags
                        /\ decls[u].variants[i].tag = tags[decls[u].property]}
    IN  IF matching = {} THEN Failed
        ELSE DecodeJSON(decls[u].variants[Min(matching)].goName, keys)

\* Fault: a variant is taken that lacks a key of its probe.
DecodeProbe_Lacking(u, keys) ==
    LET lacking == {i \in DOMAIN decls[u].variants : ~(decls[u].variants[i].probe \subseteq keys)}
    IN  DecodeJSON(decls[u].variants[IF lacking = {} THEN 1 ELSE Min(lacking)].goName, keys)

\* The one for an untagged union takes the first whose probe is there, and
\* falls back to the first variant.
DecodeProbe(u, keys) ==
    LET present == {i \in DOMAIN decls[u].variants : decls[u].variants[i].probe \subseteq keys}
    IN  DecodeJSON(decls[u].variants[IF present = {} THEN 1 ELSE Min(present)].goName, keys)

\* A callback's decoder uses the helper of a union.
DecodeCallback(n, keys, tags) ==
    IF ~IsInterface(n) THEN DecodeJSON(n, keys)
    ELSE IF decls[n].property # None THEN DecodeTagged(n, keys, tags)
    ELSE DecodeProbe(n, keys)

\* A reply's kind is chosen by its shape alone: no method uses the helpers.
DecodeReply(n, keys) == DecodeJSON(n, keys)

(* The payloads of a schema, as the document describes them: of an object,  *)
(* every required property and any optional; of a union, those of an object *)
(* among its members, under its tag.                                        *)
Tags(property, tag) == IF property = None THEN <<>> ELSE [p \in {property} |-> tag]

Members(s) ==
    LET u == doc.schemas[s]
    IN  IF u.kind = "object" THEN {[schema |-> s, tags |-> <<>>]}
        ELSE IF u.mapping # <<>>
        THEN {[schema |-> u.mapping[i].schema, tags |-> Tags(u.property, u.mapping[i].tag)] :
                  i \in DOMAIN u.mapping}
        ELSE {[schema |-> u.branches[i], tags |-> <<>>] : i \in DOMAIN u.branches}

KeySets(m) ==
    LET props == doc.schemas[m.schema].props
        required == {p \in DOMAIN props : props[p].required} \cup DOMAIN m.tags
    IN  {required \cup set : set \in SUBSET DOMAIN props}

Receive(s, kind, o, Decoded(_, _)) ==
    \E m \in {x \in Members(s) : doc.schemas[x.schema].kind = "object"} :
        \E keys \in KeySets(m) :
            exchange' = [kind |-> kind, op |-> o, of |-> m.schema, set |-> {},
                         keys |-> keys, tags |-> m.tags, got |-> Decoded(keys, m.tags)]

Reply(o) ==
    /\ phase = "generated" /\ doc.reply[o] # None
    /\ Receive(doc.reply[o], "reply", o,
               LAMBDA keys, tags : DecodeReply(TypeOf(doc.reply[o]), keys))
    /\ UNCHANGED <<doc, phase, next, decls, order, stack, body>>

Callback ==
    /\ phase = "generated" /\ doc.callback # None
    /\ Receive(doc.callback, "callback", None,
               LAMBDA keys, tags : DecodeCallback(TypeOf(doc.callback), keys, tags))
    /\ UNCHANGED <<doc, phase, next, decls, order, stack, body>>

----------------------------------------------------------------------------

Generate ==
    \/ Declare \/ BuildOperations
    \/ Seed \/ Visit \/ Return \/ DropTagFields
    \/ CloneShared \/ PromoteOptionalStructs

Use == (\E o \in Op : Send(o) \/ Reply(o)) \/ Callback

Next == Generate \/ Use

GeneratorSpec == Init /\ [][Next]_vars /\ WF_vars(Generate)

----------------------------------------------------------------------------
(* What the documents have to be like for some of the properties.          *)

\* Different schemas have different Go names, and no property of a branch of
\* an untagged union is required by exactly one other branch.
UniqueNames == \A s, t \in Spec : doc.goName[s] = doc.goName[t] => s = t

RequiredBy(s) ==
    {p \in DOMAIN doc.schemas[s].props : doc.schemas[s].props[p].required}

Branches(u) == DOMAIN doc.schemas[u].branches
Branch(u, i) == doc.schemas[u].branches[i]
RequiredByOthers(u, i) == UNION {RequiredBy(Branch(u, k)) : k \in Branches(u) \ {i}}

Telling(u) ==
    \A i, j \in Branches(u) :
        i # j => (RequiredBy(Branch(u, i)) \ RequiredByOthers(u, i))
                     \cap DOMAIN doc.schemas[Branch(u, j)].props = {}

Unambiguous == UniqueNames /\ \A u \in Spec : Telling(u)

\* The Go names of the members of a union are their names in the document.
SameNames(s) == \A i \in Branches(s) : doc.goName[Branch(s, i)] = Branch(s, i)

----------------------------------------------------------------------------
(* Properties.                                                             *)

Reached(u) == IsInterface(u) /\ (~IsVariant(u) \/ decls[u].implements # {})

(* The decoder of a union returns each of its variants as the union, and a  *)
(* value of the union may be passed on as any union it is nested in: every  *)
(* variant of an interface has the marker of the interface and all markers  *)
(* the interface itself demands, at any depth -- or the package does not    *)
(* compile.                                                                 *)
VariantsImplementTheirUnion ==
    phase \notin {"declare", "unions"} =>
        \A u \in DOMAIN decls : Reached(u) =>
            \A i \in DOMAIN decls[u].variants :
                LET n == decls[u].variants[i].goName
                IN  n \in DOMAIN decls =>
                        decls[u].implements \cup {u} \subseteq decls[n].implements

(* A caller who leaves an optional field alone sends nothing for it: no     *)
(* struct, clone or merged union included, is left with an optional struct  *)
(* by value, which omitempty would write out empty.                         *)
NothingUnsetIsSent ==
    (exchange # None /\ exchange.kind = "sent") =>
        exchange.keys \subseteq
            RequiredOf(decls[exchange.of]) \cup exchange.set \cup DOMAIN exchange.tags

(* A request body whose schema is also a reply carries none of the          *)
(* properties that only the server may set.                                 *)
ReadOnlyIsNotSent ==
    (exchange # None /\ exchange.kind = "sent" /\ UniqueNames) =>
        LET s == doc.body[exchange.op]
            props == doc.schemas[s].props
        IN  (doc.schemas[s].kind = "object" /\ \E o \in Op : doc.reply[o] = s) =>
                \A p \in (exchange.keys \ DOMAIN exchange.tags) \cap DOMAIN props :
                    ~props[p].readOnly

\* The tags under which the unions that the walk reaches list n, each with the
\* property it is in.
TaggedUnions == {u \in DOMAIN decls : Reached(u) /\ decls[u].property # None}

Listings(n) ==
    UNION {{[property |-> decls[u].property, tag |-> decls[u].variants[i].tag] :
                i \in {j \in DOMAIN decls[u].variants : decls[u].variants[j].goName = n}} :
               u \in TaggedUnions}

(* The tag that goes out with a value is the one under which the unions     *)
(* list its type, whenever they agree on it: nesting, the order in which    *)
(* the unions were met and the passes in between do not change it.          *)
TagNamesTheVariant ==
    (exchange # None /\ exchange.kind = "sent") =>
        \A l \in Listings(exchange.of) :
            Listings(exchange.of) = {l} =>
                exchange.tags = [p \in {l.property} |-> l.tag]

(* A callback whose payload is a union is decoded into the variant it was   *)
(* made from: by its tag, or by keys no other branch can have.  A field of  *)
(* a union type is where it fails.                                          *)
CallbackFindsItsVariant ==
    (/\ exchange # None /\ exchange.kind = "callback" /\ Unambiguous
     /\ IsInterface(TypeOf(doc.callback))) =>
        \/ exchange.got = doc.goName[exchange.of]
        \/ /\ exchange.got = Failed
           /\ \E p \in exchange.keys \cap DOMAIN doc.schemas[exchange.of].props :
                 IsInterface(TypeOf(doc.schemas[exchange.of].props[p].type))

(* What is decoded is decoded whole: every property the server sent has its *)
(* field, in the struct, in the merged union or in the variant found, save  *)
(* the tags that the type itself stands for.                                *)
NothingIsLost ==
    (exchange # None /\ exchange.kind # "sent" /\ Unambiguous) =>
        LET s == IF exchange.kind = "reply" THEN doc.reply[exchange.op] ELSE doc.callback
        IN  (SameNames(s) /\ exchange.got # Failed) =>
                exchange.keys \subseteq
                    DOMAIN decls[exchange.got].fields \cup DOMAIN exchange.tags
                        \cup DOMAIN Injected(exchange.got)

(* The passes end: no document keeps the generator from its output unless a *)
(* union that the walk reaches is inside itself.                            *)
GeneratorEnds == <>(phase = "generated")

(* A reply that is what the document says it is reaches the caller.         *)
EveryReplyDecodes ==
    (/\ exchange # None /\ exchange.kind = "reply"
     /\ TypeOf(doc.reply[exchange.op]) \in DOMAIN decls) => exchange.got # Failed
=============================================================================

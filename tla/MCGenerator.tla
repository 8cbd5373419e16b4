---------------------------- MODULE MCGenerator ----------------------------
(***************************************************************************)
(* Generator for TLC: two objects, A and B, and two more schemas, U and W, *)
(* each a union of the others, an object or an array, in orders that put a *)
(* union before and after its members, and an operation for each use.      *)
(***************************************************************************)
EXTENDS Generator

MCSpec == {"A", "B", "U", "W"}
GoNames == MCSpec \cup {"GoB"}
Clones == [n \in GoNames |-> n \o "Input"]
MCName == GoNames \cup {Clones[n] : n \in GoNames}
MCInput == [n \in MCName |-> IF n \in GoNames THEN Clones[n] ELSE n]

Scalar == [type |-> None, required |-> FALSE, readOnly |-> FALSE, enum |-> {}]
Required(p) == [p EXCEPT !.required = TRUE]
ReadOnly(p) == [p EXCEPT !.readOnly = TRUE]
Values(p, enum) == [p EXCEPT !.enum = enum]
Ref(s) == [Scalar EXCEPT !.type = s]

ObjectOf(props) == [kind |-> "object", props |-> props, property |-> None,
                    mapping |-> <<>>, branches |-> <<>>]
UnionOf(property, mapping, branches) ==
    [kind |-> "union", props |-> <<>>, property |-> property,
     mapping |-> mapping, branches |-> branches]
Array == [UnionOf(None, <<>>, <<>>) EXCEPT !.kind = "array"]
Under(t, s) == [tag |-> t, schema |-> s]

\* A: identified by a, with a tag of its own or without, and optionally an
\* object, itself or a union inside.
ObjectsA ==
    {ObjectOf([a |-> Required(Scalar), b |-> Scalar,
               k |-> Required(Values(Scalar, {"ta", "tb"}))]),
     ObjectOf([a |-> Required(Scalar), k |-> Values(Scalar, {"other"}), b |-> Ref("B")]),
     ObjectOf([a |-> ReadOnly(Required(Scalar)), c |-> Ref("A")]),
     ObjectOf([a |-> Required(Scalar), k |-> Required(Scalar), b |-> Ref("U")])}

ObjectsB ==
    {ObjectOf([b |-> Required(Scalar), k |-> Required(Values(Scalar, {"ta", "tb"}))]),
     ObjectOf([b |-> Required(Scalar), c |-> ReadOnly(Ref("A"))])}

SchemasU ==
    {UnionOf("k", <<Under("ta", "A"), Under("tb", "B")>>, <<"A", "B">>),
     UnionOf("k", <<Under("ta", "B"), Under("tb", "B")>>, <<"B">>),
     UnionOf("k", <<Under("ta", "A"), Under("tb", "W")>>, <<"A", "W">>),
     UnionOf(None, <<Under("ta", "A"), Under("tb", "B")>>, <<>>),
     UnionOf(None, <<>>, <<"B", "A">>),
     Array}

SchemasW ==
    {UnionOf("k", <<Under("ta", "U"), Under("tb", "B")>>, <<"U", "B">>),
     UnionOf("c", <<Under("tb", "B"), Under("tc", "A")>>, <<"B", "A">>),
     UnionOf(None, <<>>, <<"U", "A">>),
     UnionOf(None, <<>>, <<"A", "B">>),
     Array,
     ObjectOf([a |-> Ref("A"), c |-> Ref("U")])}

Orders == {<<"A", "B", "U", "W">>, <<"W", "U", "B", "A">>, <<"A", "U", "B", "W">>}

\* As they are; B under another name in Go; B under A's.
GoNaming ==
    {[s \in MCSpec |-> s],
     [s \in MCSpec |-> IF s = "B" THEN "GoB" ELSE s],
     [s \in MCSpec |-> IF s = "B" THEN "A" ELSE s]}

\* One operation takes a union and answers with another, one has the same
\* object both ways.
Directions == {[body |-> "U", reply |-> "W"], [body |-> "W", reply |-> "U"]}

MCDocuments ==
    {[schemas |-> [s \in MCSpec |->
                      CASE s = "A" -> a [] s = "B" -> b [] s = "U" -> u [] s = "W" -> w],
      goName |-> names, order |-> list,
      body |-> [o \in Op |-> IF o = "call" THEN use.body ELSE "A"],
      reply |-> [o \in Op |-> IF o = "call" THEN use.reply ELSE "A"],
      callback |-> "U"] :
        a \in ObjectsA, b \in ObjectsB, u \in SchemasU, w \in SchemasW,
        names \in GoNaming, list \in Orders, use \in Directions}
=============================================================================

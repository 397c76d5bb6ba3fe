-------------------------- MODULE MCSchemaDialects --------------------------
(***************************************************************************)
(* Objects of up to two keys in either order over every kind of leaf, and  *)
(* objects and arrays that nest one of them.                               *)
(***************************************************************************)
EXTENDS SchemaDialects

\* A tree from its root and its branches, a sequence of <<step, tree>>.
Tree(root, branches) ==
  FoldLeft(LAMBDA t, b : t @@ [p \in {<<b[1]>> \o q : q \in DOMAIN b[2]} |-> b[2][Tail(p)]],
           <<>> :> root, branches)

Leaf(root) == Tree(root, <<>>)

\* Schemas

Str(x) == [kind |-> "string", text |-> x]

Leaves ==
  { Leaf([type |-> <<"string">>]),
    Leaf([type |-> <<"string", "null">>]),
    Leaf([type |-> <<"string">>, enum |-> <<Str("x")>>]),
    Leaf([type |-> <<"string", "null">>, enum |-> <<Str("x")>>]),
    Leaf([enum |-> <<Str("x")>>]) }

Refusable ==
  { Leaf([type |-> <<"string">>, pattern |-> "x"]),
    Leaf([type |-> <<"string">>, required |-> <<"a">>]) }

Orders(L) ==
  {<<>>} \cup {<<<<"a", x>>>> : x \in L} \cup
  {<<<<"a", x>>, <<"b", y>>>> : x, y \in L} \cup {<<<<"b", x>>, <<"a", y>>>> : x, y \in L}

Object(p) == [type |-> <<"object">>, properties |-> [i \in DOMAIN p |-> p[i][1]]]

\* Extra keys: allowed, not allowed, or of a schema.
Extras == {<<"true", <<>>>>, <<"false", <<>>>>, <<"schema", <<<<Extra, Leaf([type |-> <<"string">>])>>>>>>}

ObjectsOver(P, R, E) ==
  {Tree(Object(p), p) : p \in P} \cup
  {Tree(Object(p) @@ [required |-> r], p) : p \in P, r \in R} \cup
  {Tree(Object(p) @@ [required |-> r, additionalProperties |-> e[1]], p \o e[2]) :
     p \in P, r \in R, e \in E}

Flat == ObjectsOver(Orders(Leaves), {<<"a">>, <<"b">>, <<"a", "b">>}, Extras)

Small ==
  ObjectsOver({<<<<"a", x>>>> : x \in Leaves \cup Refusable}, {<<"a">>, <<>>}, {<<"false", <<>>>>})

Arrays ==
  {Tree([type |-> <<"array">>, items |-> "schema"], <<<<Items, x>>>>) : x \in Small \cup Leaves}

Nested ==
  ObjectsOver({<<<<"a", x>>>> : x \in Small \cup Arrays \cup Refusable}, {<<"a">>, <<>>}, {<<"true", <<>>>>})

MCSchemas == Flat \cup Nested \cup Leaves

\* Replies

MCKeys == {"a", "b"}
MCIndexes == {"0"}

Scalars == {Leaf(Null), Leaf(Str("x")), Leaf(Str("y"))}

Objects(V) ==
  {Tree([kind |-> "object"], <<>>)} \cup
  {Tree([kind |-> "object"], <<<<k, x>>>>) : k \in MCKeys, x \in V}

FlatValues ==
  Objects(Scalars) \cup {Tree([kind |-> "object"], <<<<"a", x>>, <<"b", y>>>>) : x, y \in Scalars}

ArrayValues ==
  {Tree([kind |-> "array"], b) : b \in {<<>>} \cup {<<<<"0", x>>>> : x \in FlatValues \cup Scalars}}

MCValues ==
  Scalars \cup FlatValues \cup
  {Tree([kind |-> "object"], <<<<"a", x>>>>) : x \in FlatValues \cup ArrayValues}
=============================================================================

--------------------------- MODULE SchemaDialects ---------------------------
(***************************************************************************)
(* The conversion of a canonical reply schema to a dialect (to_dialect of  *)
(* schema.py), and what the schemas mean before and after it.              *)
(*                                                                         *)
(* A schema is a tree of dicts, and the code calls a node by its path:     *)
(* "a.b[]{}" is below the key a, its key b, the items of that array and    *)
(* the schema of their extra keys.  Here a schema is the function from the *)
(* paths of its nodes to the nodes.  A node has the keywords it has: type  *)
(* (a sequence of type names), enum (a sequence of scalars), properties    *)
(* and required (sequences of keys, for a dict keeps its order), items     *)
(* ("schema": it is below), additionalProperties ("true", "false" or       *)
(* "schema"), or a keyword no dialect takes.                               *)
(*                                                                         *)
(* A reply is a function from paths too, of keys and of array indexes.     *)
(***************************************************************************)
EXTENDS SchemaForms, Naturals, SequencesExt

CONSTANTS
  Keys,     \* the keys of objects
  Indexes,  \* the indexes of arrays
  Schemas,  \* the schemas that are converted
  Values    \* the replies their meaning is told by

\* The steps of a path that are no key.
Items == "[]"
Extra == "{}"

Has(node, keyword) == keyword \in DOMAIN node
Get(node, keyword) == IF Has(node, keyword) THEN node[keyword] ELSE <<>>

Properties(node) == ToSet(Get(node, "properties"))
Required(node) == ToSet(Get(node, "required"))
Optional(node) == Properties(node) \ Required(node)
HasExtraSchema(node) == Has(node, "additionalProperties") /\ node.additionalProperties = "schema"

\* The steps to the nodes below a node.
Below(node) ==
  Properties(node)
    \cup {step \in {Items} : Has(node, "items")}
    \cup {step \in {Extra} : HasExtraSchema(node)}

\* What a node says is of its kind.
NodeTyped(node) ==
  /\ node = [keyword \in DOMAIN node |-> node[keyword]]
  /\ \A keyword \in {"type", "enum"} : Get(node, keyword) \in Seq(ToSet(Get(node, keyword)))
  /\ \A keyword \in {"properties", "required"} : Get(node, keyword) \in Seq(Keys)

\* A tree: every node but the root is below another, and nothing below is missing.
IsSchema(s) ==
  /\ s = [p \in DOMAIN s |-> s[p]]
  /\ DOMAIN s \subseteq Seq(Keys \cup {Items, Extra})
  /\ <<>> \in DOMAIN s
  /\ \A p \in DOMAIN s :
       /\ NodeTyped(s[p])
       /\ \A step \in Below(s[p]) : Append(p, step) \in DOMAIN s
       /\ p # <<>> => Front(p) \in DOMAIN s /\ Last(p) \in Below(s[Front(p)])

\* A reply stands at paths of keys and indexes, and there is one null.
Null == [kind |-> "null"]

IsReply(v) ==
  /\ DOMAIN v \subseteq Seq(Keys \cup Indexes)
  /\ \A q \in DOMAIN v : v[q].kind = "null" => v[q] = Null

ASSUME StepsAssumption == Keys \cap Indexes = {} /\ {Items, Extra} \cap (Keys \cup Indexes) = {}
ASSUME SchemasAssumption == \A s \in Schemas : IsSchema(s)
ASSUME ValuesAssumption == \A v \in Values : IsReply(v)

VARIABLES
  schema,  \* the argument of to_dialect
  dialect, \* and its dialect
  sent     \* <<>>, or <<r>> where r is what to_dialect returned

vars == <<schema, dialect, sent>>

Keyword == {"type", "properties", "required", "items", "enum", "additionalProperties"}

ValueError == <<>>   \* no schema: not even a root

----------------------------------------------------------------------------
(* The conversion *)

IsObject(node) == "object" \in ToSet(Get(node, "type"))

\* _check: the whole tree has no keyword but those every dialect takes.
Taken(s) == \A p \in DOMAIN s : DOMAIN s[p] \subseteq Keyword

\* Mutant: the enum is not widened with null.
Nullable_typeOnly(node) ==
  [k \in DOMAIN node |->
     IF k = "type" /\ "null" \notin ToSet(node.type) THEN Append(node.type, "null") ELSE node[k]]

\* _nullable, where the node has a type.
Nullable(node) ==
  [k \in DOMAIN node |->
     IF k = "type" /\ "null" \notin ToSet(node.type) THEN Append(node.type, "null")
     ELSE IF k = "enum" /\ Null \notin ToSet(node.enum) THEN Append(node.enum, Null)
     ELSE node[k]]

\* Mutant: any additionalProperties is refused.
StrictSayable_openOnly(s) ==
  \A p \in DOMAIN s :
    IF IsObject(s[p])
    THEN /\ ~Has(s[p], "additionalProperties")
         /\ Required(s[p]) \subseteq Properties(s[p])
         /\ \A k \in Optional(s[p]) : Has(s[Append(p, k)], "type")
    ELSE DOMAIN s[p] \cap {"properties", "required", "additionalProperties"} = {}

\* _strict does not raise: no object keywords on a non-object, no schema for extra
\* keys, no required key without a property, no optional key without type.  It meets
\* every node, for where it would not go down it has raised.
StrictSayable(s) ==
  \A p \in DOMAIN s :
    IF IsObject(s[p])
    THEN /\ ~HasExtraSchema(s[p])
         /\ Required(s[p]) \subseteq Properties(s[p])
         /\ \A k \in Optional(s[p]) : Has(s[Append(p, k)], "type")
    ELSE DOMAIN s[p] \cap {"properties", "required", "additionalProperties"} = {}

\* An object closed, with every key required, in the order of properties.
Closed(node) ==
  [k \in DOMAIN node \cup {"properties", "required", "additionalProperties"} |->
     IF k \in {"properties", "required"} THEN Get(node, "properties")
     ELSE IF k = "additionalProperties" THEN "false"
     ELSE node[k]]

\* Node p is that of a key the object above it may leave out.
MayBeLeftOut(s, p) == p # <<>> /\ Last(p) \in Optional(s[Front(p)])

\* Mutant: the keys that were required are the ones widened.
Strict_swapped(s) ==
  [p \in DOMAIN s |->
     LET node == IF IsObject(s[p]) THEN Closed(s[p]) ELSE s[p]
     IN IF p # <<>> /\ Last(p) \in Required(s[Front(p)]) THEN Nullable(node) ELSE node]

\* _strict: every object closed, and a key that was optional becomes type | null.
Strict(s) ==
  [p \in DOMAIN s |->
     LET node == IF IsObject(s[p]) THEN Closed(s[p]) ELSE s[p]
     IN IF MayBeLeftOut(s, p) THEN Nullable(node) ELSE node]

ToDialect(s, d) ==
  IF d \notin SchemaDialectName \/ ~Taken(s) \/ ~IsObject(s[<<>>]) THEN ValueError
  ELSE IF d # "openai_strict" THEN s
  ELSE IF StrictSayable(s) THEN Strict(s) ELSE ValueError

----------------------------------------------------------------------------
(* What a schema means *)

\* The step down the schema that a step down a reply is.
Step(node, x) ==
  IF x \in Indexes THEN Items ELSE IF x \in Properties(node) THEN x ELSE Extra

\* The nodes that say what stands at q in a reply: one or none.
Governing(s, q) ==
  {p \in DOMAIN s :
     /\ Len(p) = Len(q)
     /\ \A i \in DOMAIN q : p[i] = Step(s[SubSeq(p, 1, i - 1)], q[i])}

KeysAt(v, q) == {k \in Keys : Append(q, k) \in DOMAIN v}

Conforms(node, v, q) ==
  /\ Has(node, "type") => v[q].kind \in ToSet(node.type)
  /\ Has(node, "enum") => v[q] \in ToSet(node.enum)
  /\ v[q].kind = "object" =>
       /\ Required(node) \subseteq KeysAt(v, q)
       /\ Has(node, "additionalProperties") /\ node.additionalProperties = "false" =>
            KeysAt(v, q) \subseteq Properties(node)

Accepts(s, v) == \A q \in DOMAIN v : \A p \in Governing(s, q) : Conforms(s[p], v, q)

OptionalAt(s, q) == UNION {Optional(s[p]) : p \in Governing(s, q)}

\* A strict reply read by the canonical schema: null in an optional key is the
\* key left out.
LeftOut(s, v) ==
  {q \in DOMAIN v : q # <<>> /\ v[q] = Null /\ Last(q) \in OptionalAt(s, Front(q))}

Unfilled(s, v) == [q \in DOMAIN v \ LeftOut(s, v) |-> v[q]]

\* And the other way: what the canonical schema accepts, with null for every
\* optional key it leaves out.
Missing(s, v) ==
  (UNION {{Append(q, k) : k \in OptionalAt(s, q)} : q \in {r \in DOMAIN v : v[r].kind = "object"}})
    \ DOMAIN v

Filled(s, v) == [q \in DOMAIN v \cup Missing(s, v) |-> IF q \in DOMAIN v THEN v[q] ELSE Null]

\* The reply names no key the schema does not, at any depth.
Declared(s, v) ==
  \A q \in DOMAIN v : \A p \in Governing(s, q) :
    v[q].kind = "object" => KeysAt(v, q) \subseteq Properties(s[p])

----------------------------------------------------------------------------
Init ==
  /\ schema \in Schemas
  /\ dialect \in SchemaAnnouncement
  /\ sent = <<>>

Convert ==
  /\ sent = <<>>
  /\ sent' = <<ToDialect(schema, dialect)>>
  /\ UNCHANGED <<schema, dialect>>

\* What was sent is itself converted.
Reconvert ==
  /\ sent # <<>>
  /\ sent[1] # ValueError
  /\ schema' = sent[1]
  /\ sent' = <<>>
  /\ UNCHANGED dialect

Next == Convert \/ Reconvert

Spec == Init /\ [][Next]_vars

----------------------------------------------------------------------------
(* Properties *)

Converted == sent # <<>> /\ sent[1] # ValueError

\* A reply that conforms to the strict form conforms to the canonical schema
\* once the nulls of its optional keys are left out: strict never lets through
\* what the stage did not ask for.
StrictAsksNoLess ==
  Converted => \A v \in Values : Accepts(sent[1], v) =>
    Accepts(schema, IF dialect = "openai_strict" THEN Unfilled(schema, v) ELSE v)

\* A reply the canonical schema accepts, with no undeclared key, can be said in
\* the strict form: no optional key, enum or nested object becomes unsayable.
StrictLosesNoReply ==
  Converted => \A v \in Values : Accepts(schema, v) /\ Declared(schema, v) =>
    Accepts(sent[1], IF dialect = "openai_strict" THEN Filled(schema, v) ELSE v)

\* The conversion is idempotent (schema.py:222): what was sent converts to itself.
Idempotent == Converted => ToDialect(sent[1], dialect) = sent[1]
=============================================================================

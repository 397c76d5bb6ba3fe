------------------------ MODULE SchemaDialectsProofs ------------------------
(***************************************************************************)
(* Proofs about SchemaDialects, for schemas of any size and depth over any *)
(* keys, and any replies.                                                  *)
(***************************************************************************)
EXTENDS SchemaDialects, TLAPS, SequenceTheorems, WellFoundedInduction

----------------------------------------------------------------------------
(* Nodes *)

\* One more member of a sequence.
LEMMA ToSetAppend ==
  ASSUME NEW S, NEW f \in Seq(S), NEW x
  PROVE  ToSet(Append(f, x)) = ToSet(f) \cup {x}
<1> DEFINE t == Append(f, x)
<1>1. /\ Len(f) \in Nat /\ DOMAIN f = 1..Len(f) /\ DOMAIN t = 1..(Len(f) + 1)
      /\ t[Len(f) + 1] = x /\ \A i \in 1..Len(f) : t[i] = f[i]
  OBVIOUS
<1> HIDE DEF t
<1>2. \A i \in 1..(Len(f) + 1) : i = Len(f) + 1 \/ i \in 1..Len(f)
  BY <1>1
<1>3. 1..Len(f) \subseteq 1..(Len(f) + 1) /\ Len(f) + 1 \in 1..(Len(f) + 1)
  BY <1>1
<1>4. ToSet(t) = ToSet(f) \cup {x}
  BY <1>1, <1>2, <1>3 DEF ToSet
<1>5. QED
  BY <1>4 DEF t

LEMMA InToSet ==
  ASSUME NEW S, NEW f \in Seq(S)
  PROVE  f \in Seq(ToSet(f)) /\ ToSet(f) \subseteq S
<1>1. /\ f \in [1..Len(f) -> S] /\ Len(f) \in Nat
  OBVIOUS
<1>2. \A i \in 1..Len(f) : f[i] \in ToSet(f)
  BY <1>1 DEF ToSet
<1>3. f \in [1..Len(f) -> ToSet(f)]
  BY <1>1, <1>2
<1>4. f \in Seq(ToSet(f))
  BY <1>1, <1>3
<1>5. ToSet(f) \subseteq S
  BY <1>1 DEF ToSet
<1>6. QED
  BY <1>4, <1>5

\* What stays of a node that is closed.
LEMMA ClosedIs ==
  ASSUME NEW node, NodeTyped(node)
  PROVE  LET c == Closed(node)
         IN /\ NodeTyped(c)
            /\ DOMAIN c = DOMAIN node \cup {"properties", "required", "additionalProperties"}
            /\ \A k \in {"type", "enum", "items"} : Has(c, k) = Has(node, k) /\ Get(c, k) = Get(node, k)
            /\ \A k \in {"properties", "required"} : c[k] = Get(node, "properties")
            /\ c.additionalProperties = "false"
            /\ \A k \in DOMAIN node \ {"properties", "required", "additionalProperties"} : c[k] = node[k]
<1> DEFINE c == Closed(node)
<1>1. /\ DOMAIN c = DOMAIN node \cup {"properties", "required", "additionalProperties"}
      /\ c = [k \in DOMAIN c |-> c[k]]
      /\ c["properties"] = Get(node, "properties") /\ c["required"] = Get(node, "properties")
      /\ c["additionalProperties"] = "false"
      /\ \A k \in DOMAIN node \ {"properties", "required", "additionalProperties"} : c[k] = node[k]
  BY DEF Closed
<1> HIDE DEF c
<1>2. \A k \in {"type", "enum", "items"} : Has(c, k) = Has(node, k) /\ Get(c, k) = Get(node, k)
  BY <1>1 DEF Has, Get
<1>3. Get(c, "properties") = Get(node, "properties") /\ Get(c, "required") = Get(node, "properties")
  BY <1>1 DEF Has, Get
<1>4. NodeTyped(c)
  BY <1>1, <1>2, <1>3 DEF NodeTyped
<1>5. QED
  BY <1>1, <1>2, <1>4 DEF c

\* What stays of a node that is widened with null.
LEMMA NullableIs ==
  ASSUME NEW node, NodeTyped(node), Has(node, "type")
  PROVE  LET c == Nullable(node)
         IN /\ NodeTyped(c)
            /\ DOMAIN c = DOMAIN node
            /\ ToSet(c.type) = ToSet(node.type) \cup {"null"}
            /\ Has(node, "enum") => ToSet(c.enum) = ToSet(node.enum) \cup {Null}
            /\ \A k \in DOMAIN node \ {"type", "enum"} : c[k] = node[k]
            /\ \A k \in {"properties", "required", "items", "additionalProperties"} :
                 Has(c, k) = Has(node, k) /\ Get(c, k) = Get(node, k)
<1> DEFINE c == Nullable(node)
<1>1. /\ DOMAIN c = DOMAIN node /\ c = [k \in DOMAIN c |-> c[k]]
      /\ \A k \in DOMAIN node \ {"type", "enum"} : c[k] = node[k]
      /\ c["type"] = IF "null" \in ToSet(node.type) THEN node.type ELSE Append(node.type, "null")
      /\ Has(node, "enum") =>
           c["enum"] = IF Null \in ToSet(node.enum) THEN node.enum ELSE Append(node.enum, Null)
  BY DEF Nullable, Has
<1> HIDE DEF c
<1>2. node.type \in Seq(ToSet(node.type)) /\ (Has(node, "enum") => node.enum \in Seq(ToSet(node.enum)))
  BY DEF NodeTyped, Get, Has
<1>3. ToSet(c.type) = ToSet(node.type) \cup {"null"} /\ c.type \in Seq(ToSet(node.type) \cup {"null"})
  <2>1. node.type \in Seq(ToSet(node.type) \cup {"null"})
    BY <1>2
  <2>2. CASE "null" \in ToSet(node.type)
    BY <1>1, <2>1, <2>2
  <2>3. CASE "null" \notin ToSet(node.type)
    <3>1. c.type = Append(node.type, "null")
      BY <1>1, <2>3
    <3>2. ToSet(c.type) = ToSet(node.type) \cup {"null"}
      BY <1>2, <3>1, ToSetAppend
    <3>3. c.type \in Seq(ToSet(node.type) \cup {"null"})
      BY <2>1, <3>1
    <3>4. QED
      BY <3>2, <3>3
  <2>4. QED
    BY <2>2, <2>3
<1>4. Has(node, "enum") =>
        ToSet(c.enum) = ToSet(node.enum) \cup {Null} /\ c.enum \in Seq(ToSet(node.enum) \cup {Null})
  <2> SUFFICES ASSUME Has(node, "enum")
               PROVE  ToSet(c.enum) = ToSet(node.enum) \cup {Null} /\ c.enum \in Seq(ToSet(node.enum) \cup {Null})
    OBVIOUS
  <2>1. node.enum \in Seq(ToSet(node.enum) \cup {Null})
    BY <1>2
  <2>2. CASE Null \in ToSet(node.enum)
    BY <1>1, <2>1, <2>2
  <2>3. CASE Null \notin ToSet(node.enum)
    <3>1. c.enum = Append(node.enum, Null)
      BY <1>1, <2>3
    <3>2. ToSet(c.enum) = ToSet(node.enum) \cup {Null}
      BY <1>2, <3>1, ToSetAppend
    <3>3. c.enum \in Seq(ToSet(node.enum) \cup {Null})
      BY <2>1, <3>1
    <3>4. QED
      BY <3>2, <3>3
  <2>4. QED
    BY <2>2, <2>3
<1>5. \A k \in {"properties", "required", "items", "additionalProperties"} :
        Has(c, k) = Has(node, k) /\ Get(c, k) = Get(node, k)
  BY <1>1 DEF Has, Get
<1>6. /\ Get(c, "type") = c.type
      /\ Get(c, "enum") = IF Has(node, "enum") THEN c.enum ELSE <<>>
  BY <1>1 DEF Has, Get
<1>7. \A keyword \in {"type", "enum"} : Get(c, keyword) \in Seq(ToSet(Get(c, keyword)))
  <2>1. <<>> \in Seq(ToSet(<<>>))
    OBVIOUS
  <2>2. QED
    BY <1>3, <1>4, <1>6, <2>1
<1>8. NodeTyped(c)
  BY <1>1, <1>5, <1>7 DEF NodeTyped
<1>9. QED
  BY <1>1, <1>3, <1>4, <1>5, <1>8 DEF c

----------------------------------------------------------------------------
(* Paths *)

LEMMA Least ==
  ASSUME NEW T, T \subseteq Nat, T # {}
  PROVE  \E j \in T : \A k \in T : j <= k
<1>1. PICK j \in T : \A k \in T : <<k, j>> \notin OpToRel(<, Nat)
  BY NatLessThanWellFounded, WFMin
<1>2. \A k \in T : ~ (k < j)
  BY <1>1 DEF OpToRel
<1>3. QED
  BY <1>2

Place == Keys \cup {Items, Extra}

LEMMA FrontIs ==
  ASSUME NEW S, NEW p \in Seq(S), p # <<>>
  PROVE  /\ Front(p) \in Seq(S) /\ Len(Front(p)) = Len(p) - 1 /\ Len(p) \in Nat /\ Len(p) > 0
         /\ Last(p) = p[Len(p)] /\ Last(p) \in S
         /\ \A i \in 1..(Len(p) - 1) : Front(p)[i] = p[i]
<1>1. Len(p) \in Nat /\ Len(p) > 0 /\ \A i \in 1..Len(p) : p[i] \in S
  OBVIOUS
<1>2. Last(p) = p[Len(p)] /\ Last(p) \in S
  BY <1>1 DEF Last
<1>3. Len(p) - 1 \in Nat /\ Len(p) - 1 <= Len(p) /\ \A i \in 1..(Len(p) - 1) : i \in 1..Len(p)
  BY <1>1
<1>4. Front(p) \in Seq(S) /\ Len(Front(p)) = Len(p) - 1
  <2> DEFINE l == Len(p) - 1
  <2>1. Front(p) = SubSeq(p, 1, l) /\ l \in Nat /\ l <= Len(p)
    BY <1>3 DEF Front
  <2> HIDE DEF l
  <2>2. SubSeq(p, 1, l) \in Seq(S) /\ Len(SubSeq(p, 1, l)) = l
    BY <1>1, <2>1
  <2>3. QED
    BY <2>1, <2>2 DEF l
<1>5. \A i \in 1..(Len(p) - 1) : Front(p)[i] = p[i]
  BY <1>1, <1>3 DEF Front
<1>6. QED
  BY <1>1, <1>2, <1>4, <1>5

LEMMA AppendIs ==
  ASSUME NEW S, NEW p \in Seq(S), NEW x \in S
  PROVE  /\ Append(p, x) \in Seq(S) /\ Append(p, x) # <<>>
         /\ Front(Append(p, x)) = p /\ Last(Append(p, x)) = x
<1>1. /\ Append(p, x) \in Seq(S) /\ Len(Append(p, x)) = Len(p) + 1 /\ Len(p) \in Nat
      /\ Append(p, x)[Len(p) + 1] = x
      /\ \A i \in 1..Len(p) : Append(p, x)[i] = p[i]
  OBVIOUS
<1>2. Append(p, x) # <<>> /\ Last(Append(p, x)) = x
  BY <1>1 DEF Last
<1>3. Front(Append(p, x)) = SubSeq(Append(p, x), 1, Len(p))
  BY <1>1 DEF Front
<1>4. SubSeq(Append(p, x), 1, Len(p)) = p
  OBVIOUS
<1>5. QED
  BY <1>1, <1>2, <1>3, <1>4

LEMMA FrontAndLast ==
  ASSUME NEW S, NEW p \in Seq(S), p # <<>>
  PROVE  p = Append(Front(p), Last(p))
<1>1. /\ Front(p) \in Seq(S) /\ Len(Front(p)) = Len(p) - 1 /\ Len(p) \in Nat /\ Len(p) > 0
      /\ Last(p) = p[Len(p)] /\ Last(p) \in S
      /\ \A i \in 1..(Len(p) - 1) : Front(p)[i] = p[i]
  BY FrontIs
<1> DEFINE f == Front(p)
           x == Last(p)
<1> HIDE DEF f, x
<1>2. /\ Append(f, x) \in Seq(S) /\ Len(Append(f, x)) = Len(p)
      /\ \A i \in 1..Len(p) : Append(f, x)[i] = p[i]
  BY <1>1 DEF f, x
<1>3. Append(f, x) = p
  BY <1>1, <1>2, SeqEqual
<1>4. QED
  BY <1>3 DEF f, x

\* Front of the beginning of a path.
LEMMA FrontOfSubSeq ==
  ASSUME NEW S, NEW p \in Seq(S), NEW n \in 1..Len(p)
  PROVE  /\ SubSeq(p, 1, n) \in Seq(S) /\ SubSeq(p, 1, n) # <<>>
         /\ Front(SubSeq(p, 1, n)) = SubSeq(p, 1, n - 1)
<1> DEFINE b == SubSeq(p, 1, n)
<1>1. Len(p) \in Nat /\ n \in Nat /\ n <= Len(p) /\ n > 0
  OBVIOUS
<1>2. b \in Seq(S) /\ Len(b) = n /\ \A i \in 1..n : b[i] = p[i]
  BY <1>1
<1>3. SubSeq(p, 1, n - 1) \in Seq(S) /\ Len(SubSeq(p, 1, n - 1)) = n - 1
      /\ \A i \in 1..(n - 1) : SubSeq(p, 1, n - 1)[i] = p[i]
  BY <1>1
<1> HIDE DEF b
<1>4. b # <<>>
  BY <1>1, <1>2
<1>5. Front(b) \in Seq(S) /\ Len(Front(b)) = n - 1 /\ \A i \in 1..(n - 1) : Front(b)[i] = b[i]
  BY <1>2, <1>4, FrontIs
<1>6. \A i \in 1..(n - 1) : i \in 1..n
  BY <1>1
<1>7. Front(b) = SubSeq(p, 1, n - 1)
  BY <1>2, <1>3, <1>5, <1>6, SeqEqual
<1>8. QED
  BY <1>2, <1>4, <1>7 DEF b

\* Every beginning of the path of a node is the path of a node.
LEMMA Beginnings ==
  ASSUME NEW s, IsSchema(s), NEW p \in DOMAIN s, NEW n \in 0..Len(p)
  PROVE  SubSeq(p, 1, n) \in DOMAIN s
<1> DEFINE T == {m \in 0..Len(p) : SubSeq(p, 1, Len(p) - m) \notin DOMAIN s}
<1>1. p \in Seq(Place) /\ Len(p) \in Nat
  BY DEF IsSchema, Place
<1>2. T = {}
  <2> SUFFICES ASSUME T # {} PROVE FALSE
    OBVIOUS
  <2>1. T \subseteq Nat
    BY <1>1
  <2>2. PICK m \in T : \A k \in T : m <= k
    BY <2>1, Least
  <2>3. m \in 0..Len(p) /\ SubSeq(p, 1, Len(p) - m) \notin DOMAIN s
    BY <2>2
  <2>4. m # 0
    <3>1. SubSeq(p, 1, Len(p)) = p
      BY <1>1
    <3>2. SubSeq(p, 1, Len(p)) \in DOMAIN s
      BY <3>1
    <3>3. Len(p) - 0 = Len(p)
      BY <1>1
    <3>4. QED
      BY <2>3, <3>2, <3>3
  <2> DEFINE l == Len(p) - (m - 1)
  <2>5. l \in 1..Len(p) /\ l - 1 = Len(p) - m /\ m - 1 \in 0..Len(p) /\ ~ (m <= m - 1)
    BY <1>1, <2>3, <2>4
  <2>6. SubSeq(p, 1, l) \in DOMAIN s
    BY <2>2, <2>5
  <2> HIDE DEF l
  <2>7. SubSeq(p, 1, l) # <<>> /\ Front(SubSeq(p, 1, l)) = SubSeq(p, 1, l - 1)
    BY <1>1, <2>5, FrontOfSubSeq
  <2>8. SubSeq(p, 1, l - 1) \in DOMAIN s
    BY <2>6, <2>7 DEF IsSchema
  <2>9. QED
    BY <2>3, <2>5, <2>8
<1>3. Len(p) - n \in 0..Len(p) /\ Len(p) - (Len(p) - n) = n
  BY <1>1
<1>4. Len(p) - n \notin T
  BY <1>2
<1>5. QED
  BY <1>3, <1>4

----------------------------------------------------------------------------
(* What governs what *)

\* At most one node says what stands at a place of a reply.
LEMMA OneGoverns ==
  ASSUME NEW s, IsSchema(s), NEW q \in Seq(Keys \cup Indexes),
         NEW p \in Governing(s, q), NEW r \in Governing(s, q)
  PROVE  p = r
<1> DEFINE T == {i \in DOMAIN q : p[i] # r[i]}
<1>1. /\ p \in Seq(Place) /\ r \in Seq(Place) /\ Len(p) = Len(q) /\ Len(r) = Len(q)
      /\ DOMAIN q = 1..Len(q) /\ Len(q) \in Nat
      /\ \A i \in DOMAIN q : p[i] = Step(s[SubSeq(p, 1, i - 1)], q[i])
      /\ \A i \in DOMAIN q : r[i] = Step(s[SubSeq(r, 1, i - 1)], q[i])
  BY DEF Governing, IsSchema, Place
<1>2. T = {}
  <2> SUFFICES ASSUME T # {} PROVE FALSE
    OBVIOUS
  <2>1. T \subseteq Nat
    BY <1>1
  <2>2. PICK i \in T : \A k \in T : i <= k
    BY <2>1, Least
  <2>3. i \in 1..Len(q) /\ p[i] # r[i] /\ i - 1 \in Nat /\ i - 1 < Len(q)
    BY <1>1, <2>2
  <2>4. \A k \in 1..(i - 1) : k \in DOMAIN q /\ ~ (i <= k)
    BY <1>1, <2>3
  <2>5. \A k \in 1..(i - 1) : p[k] = r[k]
    BY <2>2, <2>4
  <2>6. /\ SubSeq(p, 1, i - 1) \in Seq(Place) /\ Len(SubSeq(p, 1, i - 1)) = i - 1
        /\ SubSeq(r, 1, i - 1) \in Seq(Place) /\ Len(SubSeq(r, 1, i - 1)) = i - 1
        /\ \A k \in 1..(i - 1) : SubSeq(p, 1, i - 1)[k] = p[k] /\ SubSeq(r, 1, i - 1)[k] = r[k]
    BY <1>1, <2>3
  <2>7. SubSeq(p, 1, i - 1) = SubSeq(r, 1, i - 1)
    BY <2>5, <2>6, SeqEqual
  <2>8. QED
    BY <1>1, <2>3, <2>7
<1>3. \A i \in 1..Len(q) : p[i] = r[i]
  BY <1>1, <1>2
<1>4. QED
  BY <1>1, <1>3, SeqEqual

\* What governs a place is below what governs the place above it.
LEMMA GovernsAbove ==
  ASSUME NEW s, IsSchema(s), NEW q \in Seq(Keys \cup Indexes), q # <<>>, NEW p \in Governing(s, q)
  PROVE  /\ p # <<>> /\ Front(p) \in Governing(s, Front(q))
         /\ Last(p) = Step(s[Front(p)], Last(q)) /\ Last(p) \in Below(s[Front(p)])
<1>1. /\ p \in DOMAIN s /\ p \in Seq(Place) /\ Len(p) = Len(q)
      /\ DOMAIN q = 1..Len(q) /\ Len(q) \in Nat
      /\ \A i \in DOMAIN q : p[i] = Step(s[SubSeq(p, 1, i - 1)], q[i])
  BY DEF Governing, IsSchema, Place
<1>2. /\ Front(q) \in Seq(Keys \cup Indexes) /\ Len(Front(q)) = Len(q) - 1 /\ Len(q) > 0
      /\ Last(q) = q[Len(q)] /\ \A i \in 1..(Len(q) - 1) : Front(q)[i] = q[i]
  BY FrontIs
<1>3. p # <<>>
  BY <1>1, <1>2
<1>4. /\ Front(p) \in Seq(Place) /\ Len(Front(p)) = Len(q) - 1
      /\ Last(p) = p[Len(q)] /\ \A i \in 1..(Len(q) - 1) : Front(p)[i] = p[i]
  BY <1>1, <1>3, FrontIs
<1>5. Front(p) \in DOMAIN s /\ Last(p) \in Below(s[Front(p)])
  BY <1>1, <1>3 DEF IsSchema
<1>6. Front(p) = SubSeq(p, 1, Len(q) - 1)
  BY <1>1 DEF Front
<1>7. Last(p) = Step(s[Front(p)], Last(q))
  BY <1>1, <1>2, <1>4, <1>6
<1>8. ASSUME NEW i \in 1..(Len(q) - 1)
      PROVE  Front(p)[i] = Step(s[SubSeq(Front(p), 1, i - 1)], Front(q)[i])
  <2>1. i \in DOMAIN q /\ i - 1 \in Nat /\ i - 1 <= Len(q) - 1
    BY <1>1, <1>2
  <2>2. /\ SubSeq(Front(p), 1, i - 1) \in Seq(Place) /\ Len(SubSeq(Front(p), 1, i - 1)) = i - 1
        /\ \A k \in 1..(i - 1) : SubSeq(Front(p), 1, i - 1)[k] = Front(p)[k]
    BY <1>4, <2>1
  <2>3. /\ SubSeq(p, 1, i - 1) \in Seq(Place) /\ Len(SubSeq(p, 1, i - 1)) = i - 1
        /\ \A k \in 1..(i - 1) : SubSeq(p, 1, i - 1)[k] = p[k]
    BY <1>1, <2>1
  <2>4. \A k \in 1..(i - 1) : k \in 1..(Len(q) - 1)
    BY <1>2, <2>1
  <2>5. SubSeq(Front(p), 1, i - 1) = SubSeq(p, 1, i - 1)
    BY <1>4, <2>2, <2>3, <2>4, SeqEqual
  <2>6. QED
    BY <1>1, <1>2, <1>4, <2>1, <2>5
<1>9. DOMAIN Front(q) = 1..(Len(q) - 1)
  BY <1>2
<1>10. Front(p) \in Governing(s, Front(q))
  BY <1>2, <1>4, <1>5, <1>8, <1>9 DEF Governing
<1>11. QED
  BY <1>3, <1>5, <1>7, <1>10

\* And what is below it governs what is below the place.
LEMMA GovernsBelow ==
  ASSUME NEW s, IsSchema(s), NEW q \in Seq(Keys \cup Indexes), NEW p \in Governing(s, q),
         NEW x \in Keys \cup Indexes, Step(s[p], x) \in Below(s[p])
  PROVE  Append(p, Step(s[p], x)) \in Governing(s, Append(q, x))
<1> DEFINE y == Step(s[p], x)
           b == Append(p, y)
           a == Append(q, x)
<1>1. /\ p \in DOMAIN s /\ p \in Seq(Place) /\ Len(p) = Len(q)
      /\ DOMAIN q = 1..Len(q) /\ Len(q) \in Nat
      /\ \A i \in DOMAIN q : p[i] = Step(s[SubSeq(p, 1, i - 1)], q[i])
  BY DEF Governing, IsSchema, Place
<1>2. b \in DOMAIN s /\ b \in Seq(Place)
  BY <1>1 DEF IsSchema, Place
<1> HIDE DEF y
<1>3. /\ Len(b) = Len(q) + 1 /\ b[Len(q) + 1] = y
      /\ \A i \in 1..Len(q) : b[i] = p[i]
  BY <1>1
<1>4. /\ Len(a) = Len(q) + 1 /\ a[Len(q) + 1] = x /\ DOMAIN a = 1..(Len(q) + 1)
      /\ \A i \in 1..Len(q) : a[i] = q[i]
  BY <1>1
<1> HIDE DEF a, b
<1>5. ASSUME NEW i \in 1..(Len(q) + 1)
      PROVE  b[i] = Step(s[SubSeq(b, 1, i - 1)], a[i])
  <2>1. i - 1 \in Nat /\ i - 1 <= Len(q) /\ i - 1 <= Len(b)
    BY <1>1, <1>3
  <2>2. /\ SubSeq(b, 1, i - 1) \in Seq(Place) /\ Len(SubSeq(b, 1, i - 1)) = i - 1
        /\ \A k \in 1..(i - 1) : SubSeq(b, 1, i - 1)[k] = b[k]
    BY <1>2, <2>1
  <2>3. /\ SubSeq(p, 1, i - 1) \in Seq(Place) /\ Len(SubSeq(p, 1, i - 1)) = i - 1
        /\ \A k \in 1..(i - 1) : SubSeq(p, 1, i - 1)[k] = p[k]
    BY <1>1, <2>1
  <2>4. \A k \in 1..(i - 1) : k \in 1..Len(q)
    BY <1>1, <2>1
  <2>5. SubSeq(b, 1, i - 1) = SubSeq(p, 1, i - 1)
    BY <1>3, <2>2, <2>3, <2>4, SeqEqual
  <2>6. CASE i \in 1..Len(q)
    BY <1>1, <1>3, <1>4, <2>5, <2>6
  <2>7. CASE i = Len(q) + 1
    <3>1. i - 1 = Len(p)
      BY <1>1, <2>7
    <3>2. SubSeq(p, 1, Len(p)) = p
      BY <1>1
    <3>3. SubSeq(b, 1, i - 1) = p
      BY <2>5, <3>1, <3>2
    <3>4. QED
      BY <1>3, <1>4, <2>7, <3>3 DEF y
  <2>8. QED
    BY <1>1, <2>6, <2>7
<1>6. b \in Governing(s, a)
  BY <1>2, <1>3, <1>4, <1>5 DEF Governing
<1>7. QED
  BY <1>6 DEF a, b, y

----------------------------------------------------------------------------
(* The strict form *)

LEMMA EmptySet == ToSet(<<>>) = {}
BY DEF ToSet

AsClosed(s, p) == IF IsObject(s[p]) THEN Closed(s[p]) ELSE s[p]

ObjectKeyword == {"properties", "required", "additionalProperties"}

\* A node on its way to the strict form, closed and not yet widened.
LEMMA ClosedNode ==
  ASSUME NEW s, IsSchema(s), StrictSayable(s), NEW p \in DOMAIN s
  PROVE  LET c == AsClosed(s, p)
         IN /\ NodeTyped(s[p]) /\ NodeTyped(c)
            /\ \A k \in {"type", "enum", "items"} : Has(c, k) = Has(s[p], k) /\ Get(c, k) = Get(s[p], k)
            /\ \A k \in {"properties", "required"} : Get(c, k) = Get(s[p], "properties")
            /\ ~HasExtraSchema(s[p]) /\ ~HasExtraSchema(c)
            /\ IsObject(s[p]) => ObjectKeyword \subseteq DOMAIN c /\ c.additionalProperties = "false"
            /\ ~IsObject(s[p]) => DOMAIN s[p] \cap ObjectKeyword = {} /\ DOMAIN c \cap ObjectKeyword = {}
            /\ DOMAIN c \subseteq DOMAIN s[p] \cup ObjectKeyword
<1> DEFINE n == s[p]
           c == AsClosed(s, p)
<1>1. NodeTyped(n)
  BY DEF IsSchema
<1>2. CASE IsObject(n)
  <2>1. c = Closed(n)
    BY <1>2 DEF AsClosed
  <2>2. ~HasExtraSchema(n)
    BY <1>2 DEF StrictSayable
  <2> HIDE DEF n, c
  <2>3. /\ NodeTyped(c)
        /\ DOMAIN c = DOMAIN n \cup ObjectKeyword
        /\ \A k \in {"type", "enum", "items"} : Has(c, k) = Has(n, k) /\ Get(c, k) = Get(n, k)
        /\ \A k \in {"properties", "required"} : c[k] = Get(n, "properties")
        /\ c.additionalProperties = "false"
    BY <1>1, <2>1, ClosedIs DEF ObjectKeyword
  <2>4. \A k \in {"properties", "required"} : Get(c, k) = Get(n, "properties")
    BY <2>3 DEF Get, Has, ObjectKeyword
  <2>5. ~HasExtraSchema(c)
    BY <2>3 DEF HasExtraSchema
  <2>6. QED
    BY <1>1, <1>2, <2>2, <2>3, <2>4, <2>5 DEF n, c
<1>3. CASE ~IsObject(n)
  <2>1. c = n
    BY <1>3 DEF AsClosed
  <2>2. DOMAIN n \cap ObjectKeyword = {}
    BY <1>3 DEF StrictSayable, ObjectKeyword
  <2> HIDE DEF n, c
  <2>3. \A k \in {"properties", "required"} : Get(n, k) = <<>>
    BY <2>2 DEF Get, Has, ObjectKeyword
  <2>4. ~HasExtraSchema(n)
    BY <2>2 DEF HasExtraSchema, Has, ObjectKeyword
  <2>5. QED
    BY <1>1, <1>3, <2>1, <2>2, <2>3, <2>4 DEF n, c
<1>4. QED
  BY <1>2, <1>3

\* A key that may be left out has a type, and its object is one.
LEMMA LeftOutHasType ==
  ASSUME NEW s, IsSchema(s), StrictSayable(s), NEW p \in DOMAIN s, NEW k \in Optional(s[p])
  PROVE  /\ IsObject(s[p]) /\ k \in Keys /\ k \in Below(s[p])
         /\ Append(p, k) \in DOMAIN s /\ Has(s[Append(p, k)], "type") /\ MayBeLeftOut(s, Append(p, k))
<1>1. k \in Properties(s[p]) /\ NodeTyped(s[p]) /\ p \in Seq(Place)
  BY DEF Optional, IsSchema, Place
<1>2. k \in Keys
  <2>1. Get(s[p], "properties") \in Seq(Keys)
    BY <1>1 DEF NodeTyped
  <2>2. QED
    BY <1>1, <2>1, InToSet DEF Properties
<1>3. IsObject(s[p])
  <2> SUFFICES ASSUME ~IsObject(s[p]) PROVE FALSE
    OBVIOUS
  <2>1. Get(s[p], "properties") = <<>>
    BY DEF StrictSayable, Get, Has
  <2>2. QED
    BY <1>1, <2>1, EmptySet DEF Properties
<1>4. k \in Below(s[p])
  BY <1>1 DEF Below
<1>5. Append(p, k) \in DOMAIN s
  BY <1>4 DEF IsSchema
<1>6. Has(s[Append(p, k)], "type")
  BY <1>3 DEF StrictSayable
<1>7. Append(p, k) # <<>> /\ Front(Append(p, k)) = p /\ Last(Append(p, k)) = k
  <2>1. k \in Place
    BY <1>2 DEF Place
  <2>2. QED
    BY <1>1, <2>1, AppendIs
<1>8. MayBeLeftOut(s, Append(p, k))
  BY <1>7 DEF MayBeLeftOut
<1>9. QED
  BY <1>2, <1>3, <1>4, <1>5, <1>6, <1>8

LEMMA WidenedHasType ==
  ASSUME NEW s, IsSchema(s), StrictSayable(s), NEW p \in DOMAIN s, MayBeLeftOut(s, p)
  PROVE  Has(s[p], "type")
<1>1. p \in Seq(Place) /\ p # <<>> /\ Last(p) \in Optional(s[Front(p)]) /\ Front(p) \in DOMAIN s
  BY DEF MayBeLeftOut, IsSchema, Place
<1>2. p = Append(Front(p), Last(p))
  BY <1>1, FrontAndLast
<1>3. Has(s[Append(Front(p), Last(p))], "type")
  BY <1>1, LeftOutHasType
<1>4. QED
  BY <1>2, <1>3

\* A node of the strict form.
LEMMA StrictNode ==
  ASSUME NEW s, IsSchema(s), StrictSayable(s), NEW p \in DOMAIN s
  PROVE  LET n == s[p]
             t == Strict(s)[p]
         IN /\ NodeTyped(t)
            /\ \A k \in {"type", "enum", "items"} : Has(t, k) = Has(n, k)
            /\ \A k \in {"type", "enum"} : ToSet(Get(n, k)) \subseteq ToSet(Get(t, k))
            /\ MayBeLeftOut(s, p) =>
                 /\ ToSet(Get(t, "type")) = ToSet(Get(n, "type")) \cup {"null"}
                 /\ Has(n, "enum") => ToSet(Get(t, "enum")) = ToSet(Get(n, "enum")) \cup {Null}
            /\ ~MayBeLeftOut(s, p) => \A k \in {"type", "enum"} : Get(t, k) = Get(n, k)
            /\ \A k \in {"properties", "required"} : Get(t, k) = Get(n, "properties")
            /\ ~HasExtraSchema(n) /\ ~HasExtraSchema(t)
            /\ IsObject(n) => ObjectKeyword \subseteq DOMAIN t /\ t.additionalProperties = "false"
            /\ ~IsObject(n) => DOMAIN t \cap ObjectKeyword = {}
            /\ DOMAIN t \subseteq DOMAIN n \cup ObjectKeyword
<1> DEFINE n == s[p]
           c == AsClosed(s, p)
           t == Strict(s)[p]
<1>1. t = IF MayBeLeftOut(s, p) THEN Nullable(c) ELSE c
  BY DEF Strict, AsClosed
<1>2. /\ NodeTyped(n) /\ NodeTyped(c)
      /\ \A k \in {"type", "enum", "items"} : Has(c, k) = Has(n, k) /\ Get(c, k) = Get(n, k)
      /\ \A k \in {"properties", "required"} : Get(c, k) = Get(n, "properties")
      /\ ~HasExtraSchema(n) /\ ~HasExtraSchema(c)
      /\ IsObject(n) => ObjectKeyword \subseteq DOMAIN c /\ c.additionalProperties = "false"
      /\ ~IsObject(n) => DOMAIN c \cap ObjectKeyword = {}
      /\ DOMAIN c \subseteq DOMAIN n \cup ObjectKeyword
  BY ClosedNode
<1>3. MayBeLeftOut(s, p) => Has(n, "type")
  BY WidenedHasType
<1> HIDE DEF n, c, t
<1>4. CASE ~MayBeLeftOut(s, p)
  BY <1>1, <1>2, <1>4 DEF n, t
<1>5. CASE MayBeLeftOut(s, p)
  <2>1. t = Nullable(c) /\ Has(c, "type") /\ NodeTyped(c)
    BY <1>1, <1>2, <1>3, <1>5
  <2>2. /\ NodeTyped(t)
        /\ DOMAIN t = DOMAIN c
        /\ ToSet(t.type) = ToSet(c.type) \cup {"null"}
        /\ Has(c, "enum") => ToSet(t.enum) = ToSet(c.enum) \cup {Null}
        /\ \A k \in DOMAIN c \ {"type", "enum"} : t[k] = c[k]
        /\ \A k \in {"properties", "required", "items", "additionalProperties"} :
             Has(t, k) = Has(c, k) /\ Get(t, k) = Get(c, k)
    BY <2>1, NullableIs
  <2>3. \A k \in {"type", "enum", "items"} : Has(t, k) = Has(n, k)
    BY <1>2, <2>2 DEF Has
  <2>4. /\ Get(t, "type") = t.type /\ Get(n, "type") = c.type
        /\ Has(n, "enum") => Get(t, "enum") = t.enum /\ Get(n, "enum") = c.enum
        /\ ~Has(n, "enum") => Get(t, "enum") = <<>> /\ Get(n, "enum") = <<>>
    BY <1>2, <2>1, <2>3 DEF Get
  <2>5. /\ ToSet(Get(t, "type")) = ToSet(Get(n, "type")) \cup {"null"}
        /\ Has(n, "enum") => ToSet(Get(t, "enum")) = ToSet(Get(n, "enum")) \cup {Null}
    BY <1>2, <2>2, <2>4
  <2>6. \A k \in {"type", "enum"} : ToSet(Get(n, k)) \subseteq ToSet(Get(t, k))
    BY <2>4, <2>5
  <2>7. ~HasExtraSchema(t)
    BY <1>2, <2>2 DEF HasExtraSchema, Has
  <2>8. IsObject(n) => t.additionalProperties = "false"
    BY <1>2, <2>2 DEF ObjectKeyword
  <2>9. \A k \in {"properties", "required"} : Get(t, k) = Get(n, "properties")
    BY <1>2, <2>2
  <2>10. QED
    BY <1>2, <1>5, <2>2, <2>3, <2>5, <2>6, <2>7, <2>8, <2>9 DEF n, t
<1>6. QED
  BY <1>4, <1>5

\* The strict form has the same nodes, the same kinds and the same keys, all required.
LEMMA StrictShape ==
  ASSUME NEW s, IsSchema(s), StrictSayable(s)
  PROVE  LET t == Strict(s)
         IN /\ DOMAIN t = DOMAIN s /\ IsSchema(t)
            /\ \A p \in DOMAIN s :
                 /\ Properties(t[p]) = Properties(s[p]) /\ Required(t[p]) = Properties(s[p])
                 /\ Optional(t[p]) = {} /\ IsObject(t[p]) = IsObject(s[p]) /\ Below(t[p]) = Below(s[p])
<1> DEFINE t == Strict(s)
<1>1. DOMAIN t = DOMAIN s /\ t = [p \in DOMAIN t |-> t[p]]
  BY DEF Strict
<1>2. ASSUME NEW p \in DOMAIN s
      PROVE  /\ Properties(t[p]) = Properties(s[p]) /\ Required(t[p]) = Properties(s[p])
             /\ Optional(t[p]) = {} /\ IsObject(t[p]) = IsObject(s[p]) /\ Below(t[p]) = Below(s[p])
             /\ NodeTyped(t[p])
  <2> DEFINE n == s[p]
             c == t[p]
  <2>1. /\ NodeTyped(c)
        /\ \A k \in {"type", "enum", "items"} : Has(c, k) = Has(n, k)
        /\ \A k \in {"type", "enum"} : ToSet(Get(n, k)) \subseteq ToSet(Get(c, k))
        /\ MayBeLeftOut(s, p) => ToSet(Get(c, "type")) = ToSet(Get(n, "type")) \cup {"null"}
        /\ ~MayBeLeftOut(s, p) => \A k \in {"type", "enum"} : Get(c, k) = Get(n, k)
        /\ \A k \in {"properties", "required"} : Get(c, k) = Get(n, "properties")
        /\ ~HasExtraSchema(n) /\ ~HasExtraSchema(c)
    BY StrictNode
  <2> HIDE DEF t, n, c
  <2>2. Properties(c) = Properties(n) /\ Required(c) = Properties(n)
    BY <2>1 DEF Properties, Required
  <2>3. Optional(c) = {}
    BY <2>2 DEF Optional
  <2>4. IsObject(c) = IsObject(n)
    <3>1. ("object" \in ToSet(Get(c, "type"))) = ("object" \in ToSet(Get(n, "type")))
      BY <2>1
    <3>2. QED
      BY <3>1 DEF IsObject
  <2>5. Has(c, "items") = Has(n, "items")
    BY <2>1
  <2>6. Below(c) = Below(n)
    BY <2>1, <2>2, <2>5 DEF Below
  <2>7. QED
    BY <2>1, <2>2, <2>3, <2>4, <2>6 DEF n, c
<1> HIDE DEF t
<1>3. IsSchema(t)
  BY <1>1, <1>2 DEF IsSchema
<1>4. QED
  BY <1>1, <1>2, <1>3 DEF t

\* The strict form is sayable, and it is its own strict form.
LEMMA StrictTwice ==
  ASSUME NEW s, IsSchema(s), StrictSayable(s)
  PROVE  StrictSayable(Strict(s)) /\ Strict(Strict(s)) = Strict(s)
<1> DEFINE t == Strict(s)
<1>1. /\ DOMAIN t = DOMAIN s /\ IsSchema(t)
      /\ \A p \in DOMAIN s :
           /\ Properties(t[p]) = Properties(s[p]) /\ Required(t[p]) = Properties(s[p])
           /\ Optional(t[p]) = {} /\ IsObject(t[p]) = IsObject(s[p]) /\ Below(t[p]) = Below(s[p])
  BY StrictShape
<1>2. \A p \in DOMAIN s :
        /\ \A k \in {"properties", "required"} : Get(t[p], k) = Get(s[p], "properties")
        /\ ~HasExtraSchema(t[p])
        /\ IsObject(s[p]) => ObjectKeyword \subseteq DOMAIN t[p] /\ t[p].additionalProperties = "false"
        /\ ~IsObject(s[p]) => DOMAIN t[p] \cap ObjectKeyword = {}
  BY StrictNode
<1> HIDE DEF t
<1>3. StrictSayable(t)
  <2>1. ASSUME NEW p \in DOMAIN t, IsObject(t[p])
        PROVE  /\ ~HasExtraSchema(t[p]) /\ Required(t[p]) \subseteq Properties(t[p])
               /\ \A k \in Optional(t[p]) : Has(t[Append(p, k)], "type")
    BY <1>1, <1>2
  <2>2. ASSUME NEW p \in DOMAIN t, ~IsObject(t[p])
        PROVE  DOMAIN t[p] \cap {"properties", "required", "additionalProperties"} = {}
    BY <1>1, <1>2, <2>2 DEF ObjectKeyword
  <2>3. QED
    BY <2>1, <2>2 DEF StrictSayable
<1>4. ASSUME NEW p \in DOMAIN t
      PROVE  Strict(t)[p] = t[p]
  <2>1. ~MayBeLeftOut(t, p)
    <3>1. p # <<>> => Front(p) \in DOMAIN t
      BY <1>1 DEF IsSchema
    <3>2. p # <<>> => Optional(t[Front(p)]) = {}
      BY <1>1, <3>1
    <3>3. QED
      BY <3>2 DEF MayBeLeftOut
  <2>2. Strict(t)[p] = IF IsObject(t[p]) THEN Closed(t[p]) ELSE t[p]
    BY <2>1 DEF Strict
  <2>3. ASSUME IsObject(t[p]) PROVE Closed(t[p]) = t[p]
    <3> DEFINE c == t[p]
    <3>1. /\ Get(c, "properties") = Get(c, "required") /\ c.additionalProperties = "false"
          /\ ObjectKeyword \subseteq DOMAIN c
      BY <1>1, <1>2, <2>3
    <3>2. c = [k \in DOMAIN c |-> c[k]]
      BY <1>1 DEF IsSchema, NodeTyped
    <3> HIDE DEF c
    <3>3. DOMAIN c = DOMAIN c \cup {"properties", "required", "additionalProperties"}
      BY <3>1 DEF ObjectKeyword
    <3>4. c["properties"] = Get(c, "properties") /\ c["required"] = Get(c, "properties")
      BY <3>1 DEF Get, Has, ObjectKeyword
    <3>5. \A k \in DOMAIN c :
            c[k] = IF k \in {"properties", "required"} THEN Get(c, "properties")
                   ELSE IF k = "additionalProperties" THEN "false" ELSE c[k]
      BY <3>1, <3>4
    <3>6. Closed(c) = c
      BY <3>2, <3>3, <3>5 DEF Closed
    <3>7. QED
      BY <3>6 DEF c
  <2>4. QED
    BY <2>2, <2>3
<1>5. Strict(t) = [p \in DOMAIN t |-> Strict(t)[p]] /\ t = [p \in DOMAIN t |-> t[p]]
  <2>1. Strict(t) = [p \in DOMAIN t |-> Strict(t)[p]]
    BY DEF Strict
  <2>2. QED
    BY <1>1, <2>1 DEF IsSchema
<1>6. Strict(t) = t
  BY <1>4, <1>5
<1>7. QED
  BY <1>3, <1>6 DEF t

\* The strict form has no keyword no dialect takes.
LEMMA StrictTaken ==
  ASSUME NEW s, IsSchema(s), StrictSayable(s), Taken(s)
  PROVE  Taken(Strict(s))
<1>1. DOMAIN Strict(s) = DOMAIN s
  BY DEF Strict
<1>2. \A p \in DOMAIN s : DOMAIN Strict(s)[p] \subseteq DOMAIN s[p] \cup ObjectKeyword
  BY StrictNode
<1>3. \A p \in DOMAIN s : DOMAIN s[p] \subseteq Keyword
  BY DEF Taken
<1>4. ObjectKeyword \subseteq Keyword
  BY DEF ObjectKeyword, Keyword
<1>5. QED
  BY <1>1, <1>2, <1>3, <1>4 DEF Taken

\* The same nodes govern the same places.
LEMMA StrictGoverns ==
  ASSUME NEW s, IsSchema(s), StrictSayable(s), NEW q \in Seq(Keys \cup Indexes)
  PROVE  Governing(Strict(s), q) = Governing(s, q)
<1> DEFINE t == Strict(s)
<1>1. /\ DOMAIN t = DOMAIN s
      /\ \A p \in DOMAIN s : Properties(t[p]) = Properties(s[p])
  BY StrictShape
<1> HIDE DEF t
<1>2. \A p \in DOMAIN s : \A x : Step(t[p], x) = Step(s[p], x)
  BY <1>1 DEF Step
<1>3. ASSUME NEW p \in DOMAIN s, Len(p) = Len(q), NEW i \in DOMAIN q
      PROVE  Step(t[SubSeq(p, 1, i - 1)], q[i]) = Step(s[SubSeq(p, 1, i - 1)], q[i])
  <2>1. i - 1 \in 0..Len(p)
    BY <1>3
  <2> DEFINE j == i - 1
  <2>2. j \in 0..Len(p)
    BY <2>1
  <2> HIDE DEF j
  <2>3. SubSeq(p, 1, j) \in DOMAIN s
    BY <2>2, Beginnings
  <2>4. QED
    BY <1>2, <2>3 DEF j
<1>4. \A p \in DOMAIN s : Len(p) = Len(q) =>
        ((\A i \in DOMAIN q : p[i] = Step(t[SubSeq(p, 1, i - 1)], q[i]))
          <=> (\A i \in DOMAIN q : p[i] = Step(s[SubSeq(p, 1, i - 1)], q[i])))
  BY <1>3
<1>5. Governing(t, q) = Governing(s, q)
  BY <1>1, <1>4 DEF Governing
<1>6. QED
  BY <1>5 DEF t

----------------------------------------------------------------------------
(* A reply in the strict form, and in the canonical one *)

\* The place of a key that may be left out is one of the object above it.
LEMMA LeftOutPlace ==
  ASSUME NEW s, IsSchema(s), StrictSayable(s), NEW q \in Seq(Keys \cup Indexes),
         NEW p \in Governing(s, q), MayBeLeftOut(s, p)
  PROVE  q # <<>> /\ Last(q) \in OptionalAt(s, Front(q))
<1>1. p # <<>> /\ Last(p) \in Optional(s[Front(p)]) /\ p \in DOMAIN s /\ p \in Seq(Place) /\ Len(p) = Len(q)
  BY DEF MayBeLeftOut, Governing, IsSchema, Place
<1>2. q # <<>>
  BY <1>1
<1>3. Front(p) \in Governing(s, Front(q)) /\ Last(p) = Step(s[Front(p)], Last(q))
  BY <1>2, GovernsAbove
<1>4. Front(p) \in DOMAIN s
  BY <1>3 DEF Governing
<1>5. Last(p) \in Keys
  BY <1>1, <1>4, LeftOutHasType
<1>6. Last(p) = Last(q)
  BY <1>3, <1>5, StepsAssumption DEF Step
<1>7. QED
  BY <1>1, <1>2, <1>3, <1>6 DEF OptionalAt

\* The keys an object at a place may leave out are those of the one node that governs it.
LEMMA OptionalAtIs ==
  ASSUME NEW s, IsSchema(s), NEW q \in Seq(Keys \cup Indexes), NEW p \in Governing(s, q)
  PROVE  OptionalAt(s, q) = Optional(s[p])
<1>1. \A r \in Governing(s, q) : r = p
  BY OneGoverns
<1>2. QED
  BY <1>1 DEF OptionalAt

LEMMA RequiredIsProperty ==
  ASSUME NEW s, IsSchema(s), StrictSayable(s), NEW p \in DOMAIN s
  PROVE  Required(s[p]) \subseteq Properties(s[p])
<1>1. CASE IsObject(s[p])
  BY <1>1 DEF StrictSayable
<1>2. CASE ~IsObject(s[p])
  <2>1. Get(s[p], "required") = <<>>
    BY <1>2 DEF StrictSayable, Get, Has
  <2>2. QED
    BY <2>1, EmptySet DEF Required
<1>3. QED
  BY <1>1, <1>2

\* What the strict form accepts, the canonical schema accepts without the nulls of its
\* optional keys.
LEMMA ReadBack ==
  ASSUME NEW s, IsSchema(s), StrictSayable(s), NEW v, IsReply(v), Accepts(Strict(s), v)
  PROVE  Accepts(s, Unfilled(s, v))
<1> DEFINE t == Strict(s)
           u == Unfilled(s, v)
<1>1. DOMAIN u = DOMAIN v \ LeftOut(s, v) /\ \A q \in DOMAIN u : u[q] = v[q]
  BY DEF Unfilled
<1>2. \A q \in DOMAIN v : \A p \in Governing(t, q) : Conforms(t[p], v, q)
  BY DEF Accepts
<1>3. ASSUME NEW q \in DOMAIN u, NEW p \in Governing(s, q)
      PROVE  Conforms(s[p], u, q)
  <2> DEFINE n == s[p]
             c == t[p]
  <2>1. /\ q \in DOMAIN v /\ q \notin LeftOut(s, v) /\ u[q] = v[q] /\ p \in DOMAIN s
        /\ q \in Seq(Keys \cup Indexes) /\ (v[q].kind = "null" => v[q] = Null)
    BY <1>1 DEF IsReply, Governing
  <2>2. Conforms(c, v, q)
    BY <1>2, <2>1, StrictGoverns
  <2>3. /\ \A k \in {"type", "enum", "items"} : Has(c, k) = Has(n, k)
        /\ MayBeLeftOut(s, p) =>
             /\ ToSet(Get(c, "type")) = ToSet(Get(n, "type")) \cup {"null"}
             /\ Has(n, "enum") => ToSet(Get(c, "enum")) = ToSet(Get(n, "enum")) \cup {Null}
        /\ ~MayBeLeftOut(s, p) => \A k \in {"type", "enum"} : Get(c, k) = Get(n, k)
        /\ IsObject(n) => ObjectKeyword \subseteq DOMAIN c /\ c.additionalProperties = "false"
    BY <2>1, StrictNode
  <2>4. Properties(c) = Properties(n) /\ Required(c) = Properties(n)
    BY <2>1, StrictShape
  <2>5. MayBeLeftOut(s, p) => v[q] # Null
    <3>1. MayBeLeftOut(s, p) => q # <<>> /\ Last(q) \in OptionalAt(s, Front(q))
      BY <2>1, LeftOutPlace
    <3>2. QED
      BY <2>1, <3>1 DEF LeftOut
  <2>6. IsObject(n) \/ ~Has(n, "additionalProperties")
    BY <2>1 DEF StrictSayable, Has
  <2>7. Required(n) \subseteq Properties(n)
    BY <2>1, RequiredIsProperty
  <2>8. OptionalAt(s, q) = Optional(n)
    BY <2>1, OptionalAtIs
  <2>9. Has(n, "type") => v[q].kind \in ToSet(n.type)
    <3>1. Has(n, "type") => n.type = Get(n, "type") /\ c.type = Get(c, "type") /\ Has(c, "type")
      BY <2>3 DEF Get
    <3>2. Has(n, "type") => v[q].kind \in ToSet(Get(c, "type"))
      BY <2>2, <3>1 DEF Conforms
    <3>3. QED
      BY <2>1, <2>3, <2>5, <3>1, <3>2
  <2>10. Has(n, "enum") => v[q] \in ToSet(n.enum)
    <3>1. Has(n, "enum") => n.enum = Get(n, "enum") /\ c.enum = Get(c, "enum") /\ Has(c, "enum")
      BY <2>3 DEF Get
    <3>2. Has(n, "enum") => v[q] \in ToSet(Get(c, "enum"))
      BY <2>2, <3>1 DEF Conforms
    <3>3. QED
      BY <2>1, <2>3, <2>5, <3>1, <3>2
  <2>11. KeysAt(u, q) \subseteq KeysAt(v, q)
    BY <1>1 DEF KeysAt
  <2>12. v[q].kind = "object" => Required(n) \subseteq KeysAt(u, q)
    <3> SUFFICES ASSUME v[q].kind = "object", NEW k \in Required(n) PROVE k \in KeysAt(u, q)
      OBVIOUS
    <3>1. k \in KeysAt(v, q)
      BY <2>2, <2>4, <2>7 DEF Conforms
    <3>2. k \in Keys /\ Append(q, k) \in DOMAIN v
      BY <3>1 DEF KeysAt
    <3>3. Front(Append(q, k)) = q /\ Last(Append(q, k)) = k
      BY <2>1, <3>2, AppendIs
    <3>4. k \notin OptionalAt(s, q)
      BY <2>8 DEF Optional
    <3>5. Append(q, k) \notin LeftOut(s, v)
      BY <3>3, <3>4 DEF LeftOut
    <3>6. QED
      BY <1>1, <3>2, <3>5 DEF KeysAt
  <2>13. v[q].kind = "object" /\ Has(n, "additionalProperties") => KeysAt(u, q) \subseteq Properties(n)
    <3>1. Has(n, "additionalProperties") => Has(c, "additionalProperties") /\ c.additionalProperties = "false"
      BY <2>3, <2>6 DEF Has, ObjectKeyword
    <3>2. QED
      BY <2>2, <2>4, <2>11, <3>1 DEF Conforms
  <2> HIDE DEF n, c, u
  <2>14. QED
    BY <2>1, <2>9, <2>10, <2>12, <2>13 DEF Conforms, n
<1>4. QED
  BY <1>3 DEF Accepts

\* What the canonical schema accepts, with no undeclared key, the strict form accepts
\* with null for every optional key left out.
LEMMA FillIn ==
  ASSUME NEW s, IsSchema(s), StrictSayable(s), NEW v, IsReply(v), Accepts(s, v), Declared(s, v)
  PROVE  Accepts(Strict(s), Filled(s, v))
<1> DEFINE t == Strict(s)
           f == Filled(s, v)
<1>1. /\ DOMAIN f = DOMAIN v \cup Missing(s, v)
      /\ \A q \in DOMAIN v : f[q] = v[q]
      /\ \A q \in DOMAIN f : q \notin DOMAIN v => f[q] = Null
  BY DEF Filled
<1>2. \A q \in DOMAIN v : q \in Seq(Keys \cup Indexes)
  BY DEF IsReply
<1>3. \A q \in DOMAIN v : \A p \in Governing(s, q) : Conforms(s[p], v, q)
  BY DEF Accepts
<1>4. ASSUME NEW q \in DOMAIN v, NEW p \in Governing(t, q)
      PROVE  Conforms(t[p], f, q)
  <2> DEFINE n == s[p]
             c == t[p]
  <2>1. /\ p \in Governing(s, q) /\ p \in DOMAIN s /\ q \in Seq(Keys \cup Indexes) /\ f[q] = v[q]
        /\ Conforms(n, v, q)
    <3>1. p \in Governing(s, q)
      BY <1>2, StrictGoverns
    <3>2. QED
      BY <1>1, <1>2, <1>3, <3>1 DEF Governing
  <2>2. /\ NodeTyped(n)
        /\ \A k \in {"type", "enum", "items"} : Has(c, k) = Has(n, k)
        /\ \A k \in {"type", "enum"} : ToSet(Get(n, k)) \subseteq ToSet(Get(c, k))
    <3>1. NodeTyped(n)
      BY <2>1 DEF IsSchema
    <3>2. QED
      BY <2>1, <3>1, StrictNode
  <2>3. Properties(c) = Properties(n) /\ Required(c) = Properties(n)
    BY <2>1, StrictShape
  <2>4. OptionalAt(s, q) = Optional(n)
    BY <2>1, OptionalAtIs
  <2>5. Has(c, "type") => v[q].kind \in ToSet(c.type)
    <3>1. Has(c, "type") => n.type = Get(n, "type") /\ c.type = Get(c, "type") /\ Has(n, "type")
      BY <2>2 DEF Get
    <3>2. QED
      BY <2>1, <2>2, <3>1 DEF Conforms
  <2>6. Has(c, "enum") => v[q] \in ToSet(c.enum)
    <3>1. Has(c, "enum") => n.enum = Get(n, "enum") /\ c.enum = Get(c, "enum") /\ Has(n, "enum")
      BY <2>2 DEF Get
    <3>2. QED
      BY <2>1, <2>2, <3>1 DEF Conforms
  <2>7. Properties(n) \subseteq Keys
    <3>1. Get(n, "properties") \in Seq(Keys)
      BY <2>2 DEF NodeTyped
    <3>2. QED
      BY <3>1, InToSet DEF Properties
  <2>8. v[q].kind = "object" => Properties(n) \subseteq KeysAt(f, q)
    <3> SUFFICES ASSUME v[q].kind = "object", NEW k \in Properties(n) PROVE k \in KeysAt(f, q)
      OBVIOUS
    <3>1. CASE k \in Required(n)
      <4>1. k \in KeysAt(v, q)
        BY <2>1, <3>1 DEF Conforms
      <4>2. QED
        BY <1>1, <4>1 DEF KeysAt
    <3>2. CASE k \notin Required(n)
      <4>1. k \in OptionalAt(s, q)
        BY <2>4, <3>2 DEF Optional
      <4>2. Append(q, k) \in DOMAIN v \cup Missing(s, v)
        BY <4>1 DEF Missing
      <4>3. QED
        BY <1>1, <2>7, <4>2 DEF KeysAt
    <3>3. QED
      BY <3>1, <3>2
  <2>9. v[q].kind = "object" => KeysAt(f, q) \subseteq Properties(n)
    <3> SUFFICES ASSUME v[q].kind = "object", NEW k \in KeysAt(f, q) PROVE k \in Properties(n)
      OBVIOUS
    <3>1. k \in Keys /\ Append(q, k) \in DOMAIN v \cup Missing(s, v)
      BY <1>1 DEF KeysAt
    <3>2. CASE Append(q, k) \in DOMAIN v
      BY <2>1, <3>1, <3>2 DEF Declared, KeysAt
    <3>3. CASE Append(q, k) \in Missing(s, v)
      <4> PICK r \in DOMAIN v : \E j \in OptionalAt(s, r) : Append(q, k) = Append(r, j)
        BY <3>3 DEF Missing
      <4>1. PICK j \in OptionalAt(s, r) : Append(q, k) = Append(r, j)
        OBVIOUS
      <4>2. r \in Seq(Keys \cup Indexes) /\ j \in Keys
        <5>1. PICK m \in Governing(s, r) : j \in Optional(s[m])
          BY <4>1 DEF OptionalAt
        <5>2. m \in DOMAIN s
          BY <5>1 DEF Governing
        <5>3. QED
          BY <1>2, <5>1, <5>2, LeftOutHasType
      <4>3. /\ Front(Append(q, k)) = q /\ Last(Append(q, k)) = k
            /\ Front(Append(r, j)) = r /\ Last(Append(r, j)) = j
        BY <2>1, <3>1, <4>2, AppendIs
      <4>4. k \in OptionalAt(s, q)
        BY <4>1, <4>3
      <4>5. QED
        BY <2>4, <4>4 DEF Optional
    <3>4. QED
      BY <3>1, <3>2, <3>3
  <2> HIDE DEF n, c, f, t
  <2>10. QED
    BY <2>1, <2>3, <2>5, <2>6, <2>8, <2>9 DEF Conforms, c
<1>5. ASSUME NEW q \in DOMAIN f, q \notin DOMAIN v, NEW p \in Governing(t, q)
      PROVE  Conforms(t[p], f, q)
  <2> PICK r \in DOMAIN v : \E k \in OptionalAt(s, r) : q = Append(r, k)
    BY <1>1, <1>5 DEF Missing
  <2>1. PICK k \in OptionalAt(s, r) : q = Append(r, k)
    OBVIOUS
  <2>2. PICK m \in Governing(s, r) : k \in Optional(s[m])
    BY <2>1 DEF OptionalAt
  <2>3. m \in DOMAIN s
    BY <2>2 DEF Governing
  <2>4. /\ k \in Keys /\ k \in Below(s[m]) /\ Has(s[Append(m, k)], "type")
        /\ MayBeLeftOut(s, Append(m, k)) /\ Append(m, k) \in DOMAIN s
    BY <2>2, <2>3, LeftOutHasType
  <2>5. r \in Seq(Keys \cup Indexes) /\ q \in Seq(Keys \cup Indexes)
    BY <1>2, <2>1, <2>4
  <2>6. Step(s[m], k) = k
    BY <2>2, <2>4, StepsAssumption DEF Step, Optional
  <2>7. Append(m, k) \in Governing(s, q)
    BY <2>1, <2>2, <2>4, <2>5, <2>6, GovernsBelow
  <2>8. p \in Governing(s, q)
    BY <2>5, StrictGoverns
  <2>9. p = Append(m, k)
    BY <2>5, <2>7, <2>8, OneGoverns
  <2> DEFINE n == s[p]
             c == t[p]
  <2>10. /\ \A x \in {"type", "enum", "items"} : Has(c, x) = Has(n, x)
         /\ ToSet(Get(c, "type")) = ToSet(Get(n, "type")) \cup {"null"}
         /\ Has(n, "enum") => ToSet(Get(c, "enum")) = ToSet(Get(n, "enum")) \cup {Null}
    BY <2>4, <2>9, StrictNode
  <2>11. f[q] = Null
    BY <1>1, <1>5
  <2>12. Null.kind = "null"
    BY DEF Null
  <2> HIDE DEF c, n, f
  <2>13. Has(c, "type") => "null" \in ToSet(c.type)
    BY <2>10 DEF Get
  <2>14. Has(c, "enum") => Null \in ToSet(c.enum)
    BY <2>10 DEF Get
  <2>15. QED
    BY <2>11, <2>12, <2>13, <2>14 DEF Conforms, c
<1>6. QED
  BY <1>4, <1>5 DEF Accepts

----------------------------------------------------------------------------
(* The invariant *)

SchemaInv ==
  /\ IsSchema(schema)
  /\ dialect \in SchemaAnnouncement
  /\ sent \in {<<>>, <<ToDialect(schema, dialect)>>}

\* What is sent is the schema as it is, or its strict form.
LEMMA SentIs ==
  ASSUME NEW s, IsSchema(s), NEW d, ToDialect(s, d) # ValueError
  PROVE  /\ d \in SchemaDialectName /\ Taken(s) /\ IsObject(s[<<>>])
         /\ d # "openai_strict" => ToDialect(s, d) = s
         /\ d = "openai_strict" => StrictSayable(s) /\ ToDialect(s, d) = Strict(s)
BY DEF ToDialect

\* What is sent is a schema.
LEMMA SentIsSchema ==
  ASSUME NEW s, IsSchema(s), NEW d, ToDialect(s, d) # ValueError
  PROVE  IsSchema(ToDialect(s, d))
<1>1. ToDialect(s, d) = s \/ (StrictSayable(s) /\ ToDialect(s, d) = Strict(s))
  BY SentIs
<1>2. StrictSayable(s) => IsSchema(Strict(s))
  BY StrictShape
<1>3. QED
  BY <1>1, <1>2

\* What is converted, and what was sent, is a schema in every state.
THEOREM Invariance == Spec => []SchemaInv
<1>1. Init => SchemaInv
  BY SchemasAssumption DEF Init, SchemaInv
<1>2. ASSUME SchemaInv, [Next]_vars PROVE SchemaInv'
  <2>1. CASE Convert
    BY <1>2, <2>1 DEF SchemaInv, Convert
  <2>2. CASE Reconvert
    <3>1. sent # <<>> /\ sent[1] # ValueError /\ schema' = sent[1] /\ sent' = <<>> /\ dialect' = dialect
      BY <2>2 DEF Reconvert
    <3>2. sent[1] = ToDialect(schema, dialect)
      BY <1>2, <3>1 DEF SchemaInv
    <3>3. IsSchema(schema')
      BY <1>2, <3>1, <3>2, SentIsSchema DEF SchemaInv
    <3>4. QED
      BY <1>2, <3>1, <3>3 DEF SchemaInv
  <2>3. CASE UNCHANGED vars
    BY <1>2, <2>3 DEF SchemaInv, vars
  <2>4. QED
    BY <1>2, <2>1, <2>2, <2>3 DEF Next
<1>3. QED
  BY <1>1, <1>2, PTL DEF Spec

LEMMA ConvertedIs ==
  ASSUME SchemaInv, Converted
  PROVE  IsSchema(schema) /\ sent[1] = ToDialect(schema, dialect) /\ ToDialect(schema, dialect) # ValueError
BY DEF SchemaInv, Converted

----------------------------------------------------------------------------
(* Theorems *)

\* to_dialect asks no less than the stage did, for schemas of any size and replies of any
\* depth: what conforms to what it returned conforms to what it was given, once the null
\* of a key that was optional is the key left out.
THEOREM StrictSound == Spec => []StrictAsksNoLess
<1>1. SchemaInv => StrictAsksNoLess
  <2> SUFFICES ASSUME SchemaInv, Converted, NEW v \in Values, Accepts(sent[1], v)
               PROVE  Accepts(schema, IF dialect = "openai_strict" THEN Unfilled(schema, v) ELSE v)
    BY DEF StrictAsksNoLess
  <2>1. IsSchema(schema) /\ sent[1] = ToDialect(schema, dialect) /\ ToDialect(schema, dialect) # ValueError
    BY ConvertedIs
  <2>2. IsReply(v)
    BY ValuesAssumption
  <2>3. CASE dialect # "openai_strict"
    BY <2>1, <2>3, SentIs
  <2>4. CASE dialect = "openai_strict"
    <3>1. StrictSayable(schema) /\ sent[1] = Strict(schema)
      BY <2>1, <2>4, SentIs
    <3>2. Accepts(schema, Unfilled(schema, v))
      BY <2>1, <2>2, <3>1, ReadBack
    <3>3. QED
      BY <2>4, <3>2
  <2>5. QED
    BY <2>3, <2>4
<1>2. QED
  BY <1>1, Invariance, PTL

\* And it makes nothing unsayable: what the stage's schema accepts, with no key it does
\* not declare, can be said in the strict form, with null in the optional keys left out.
THEOREM StrictComplete == Spec => []StrictLosesNoReply
<1>1. SchemaInv => StrictLosesNoReply
  <2> SUFFICES ASSUME SchemaInv, Converted, NEW v \in Values, Accepts(schema, v), Declared(schema, v)
               PROVE  Accepts(sent[1], IF dialect = "openai_strict" THEN Filled(schema, v) ELSE v)
    BY DEF StrictLosesNoReply
  <2>1. IsSchema(schema) /\ sent[1] = ToDialect(schema, dialect) /\ ToDialect(schema, dialect) # ValueError
    BY ConvertedIs
  <2>2. IsReply(v)
    BY ValuesAssumption
  <2>3. CASE dialect # "openai_strict"
    BY <2>1, <2>3, SentIs
  <2>4. CASE dialect = "openai_strict"
    <3>1. StrictSayable(schema) /\ sent[1] = Strict(schema)
      BY <2>1, <2>4, SentIs
    <3>2. Accepts(Strict(schema), Filled(schema, v))
      BY <2>1, <2>2, <3>1, FillIn
    <3>3. QED
      BY <2>4, <3>1, <3>2
  <2>5. QED
    BY <2>3, <2>4
<1>2. QED
  BY <1>1, Invariance, PTL

\* to_dialect is idempotent (schema.py:222): what it returned it returns again.
THEOREM Idempotence == Spec => []Idempotent
<1>1. SchemaInv => Idempotent
  <2> SUFFICES ASSUME SchemaInv, Converted
               PROVE  ToDialect(sent[1], dialect) = sent[1]
    BY DEF Idempotent
  <2>1. IsSchema(schema) /\ sent[1] = ToDialect(schema, dialect) /\ ToDialect(schema, dialect) # ValueError
    BY ConvertedIs
  <2>2. dialect \in SchemaDialectName /\ Taken(schema) /\ IsObject(schema[<<>>])
    BY <2>1, SentIs
  <2>3. CASE dialect # "openai_strict"
    <3>1. sent[1] = schema
      BY <2>1, <2>3, SentIs
    <3>2. QED
      BY <2>1, <3>1
  <2>4. CASE dialect = "openai_strict"
    <3>1. StrictSayable(schema) /\ sent[1] = Strict(schema)
      BY <2>1, <2>4, SentIs
    <3>2. Taken(Strict(schema)) /\ StrictSayable(Strict(schema)) /\ Strict(Strict(schema)) = Strict(schema)
      BY <2>1, <2>2, <3>1, StrictTaken, StrictTwice
    <3>3. IsObject(Strict(schema)[<<>>])
      <4>1. <<>> \in DOMAIN schema
        BY <2>1 DEF IsSchema
      <4>2. IsObject(Strict(schema)[<<>>]) = IsObject(schema[<<>>])
        BY <2>1, <3>1, <4>1, StrictShape
      <4>3. QED
        BY <2>2, <4>2
    <3>4. ToDialect(Strict(schema), dialect) = Strict(schema)
      BY <2>2, <2>4, <3>2, <3>3 DEF ToDialect
    <3>5. QED
      BY <3>1, <3>4
  <2>5. QED
    BY <2>3, <2>4
<1>2. QED
  BY <1>1, Invariance, PTL
=============================================================================

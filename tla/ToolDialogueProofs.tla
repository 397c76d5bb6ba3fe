-------------------------- MODULE ToolDialogueProofs --------------------------
(***************************************************************************)
(* Proofs about ToolDialogue, for any providers, functions, offers and     *)
(* answers, and conversations of any length.                               *)
(*                                                                         *)
(* Inv is about the conversation alone: who may speak after whom, where    *)
(* calls and results stand.  A request is the conversion of the            *)
(* conversation as it stands; what is true of the conversion is then       *)
(* shown message by message.  Good holds of the turns after each           *)
(* message, and what the turns say is what the messages said.              *)
(* Statements about every step of a recursive function are proved by the   *)
(* least step at which they would fail (Least).                            *)
(***************************************************************************)
EXTENDS ToolDialogue, TLAPS, FiniteSetTheorems, SequenceTheorems, WellFoundedInduction

(* The places of a set, in order *)

LEMMA Least ==
  ASSUME NEW T, T \subseteq Nat, T # {}
  PROVE  \E j \in T : \A k \in T : j <= k
<1>1. PICK j \in T : \A k \in T : <<k, j>> \notin OpToRel(<, Nat)
  BY NatLessThanWellFounded, WFMin
<1>2. \A k \in T : ~ (k < j)
  BY <1>1 DEF OpToRel
<1>3. QED
  BY <1>2

Rank(S, i) == Cardinality({j \in S : j <= i})

\* No two members of a set have one rank, and none has a rank beyond their number.
LEMMA Ranks ==
  ASSUME NEW l \in Nat, NEW S \in SUBSET (1..l)
  PROVE  /\ IsFiniteSet(S) /\ Cardinality(S) \in Nat
         /\ \A i \in S : Rank(S, i) \in 1..Cardinality(S)
         /\ \A i, j \in S : Rank(S, i) = Rank(S, j) => i = j
<1> DEFINE upto(i) == {j \in S : j <= i}
<1>1. IsFiniteSet(S) /\ Cardinality(S) \in Nat /\ S \subseteq Nat
  <2>1. IsFiniteSet(1..l)
    BY FS_Interval
  <2>2. IsFiniteSet(S)
    BY <2>1, FS_Subset
  <2>3. Cardinality(S) \in Nat
    BY <2>2, FS_CardinalityType
  <2>4. S \subseteq Nat
    OBVIOUS
  <2>5. QED
    BY <2>2, <2>3, <2>4
<1>2. ASSUME NEW i \in S
      PROVE  IsFiniteSet(upto(i)) /\ Rank(S, i) \in 1..Cardinality(S)
  <2>1. upto(i) \in SUBSET S /\ i \in upto(i)
    BY <1>1
  <2>2. IsFiniteSet(upto(i)) /\ Cardinality(upto(i)) <= Cardinality(S)
    BY <1>1, <2>1, FS_Subset
  <2>3. Cardinality(upto(i)) \in Nat /\ Cardinality(upto(i)) # 0
    BY <2>1, <2>2, FS_CardinalityType, FS_EmptySet
  <2>4. QED
    BY <1>1, <2>2, <2>3 DEF Rank
<1>3. ASSUME NEW i \in S, NEW j \in S, i < j
      PROVE  Rank(S, i) < Rank(S, j)
  <2>1. upto(i) \in SUBSET (upto(j) \ {j}) /\ j \in upto(j)
    <3>1. i \in Nat /\ j \in Nat /\ \A k \in S : k \in Nat
      BY <1>1
    <3>2. \A k \in S : k <= i => k <= j /\ k # j
      BY <1>3, <3>1
    <3>3. \A k \in upto(i) : k \in upto(j) \ {j}
      BY <3>2
    <3>4. j \in upto(j)
      BY <3>1
    <3> HIDE DEF upto
    <3>5. QED
      BY <3>3, <3>4
  <2>2. IsFiniteSet(upto(j)) /\ IsFiniteSet(upto(i)) /\ Cardinality(upto(j)) \in Nat /\ Cardinality(upto(i)) \in Nat
    BY <1>2, FS_CardinalityType
  <2>3. IsFiniteSet(upto(j) \ {j}) /\ Cardinality(upto(j) \ {j}) = Cardinality(upto(j)) - 1
    BY <2>1, <2>2, FS_RemoveElement
  <2>4. Cardinality(upto(i)) <= Cardinality(upto(j) \ {j})
    BY <2>1, <2>3, FS_Subset
  <2>5. QED
    BY <2>2, <2>3, <2>4 DEF Rank
<1>4. ASSUME NEW i \in S, NEW j \in S, Rank(S, i) = Rank(S, j)
      PROVE  i = j
  <2>1. Rank(S, i) \in Nat
    <3>1. Rank(S, i) \in 1..Cardinality(S)
      BY <1>2
    <3>2. QED
      BY <1>1, <3>1
  <2>4. ~(i < j) /\ ~(j < i)
    <3>1. ~(Rank(S, i) < Rank(S, j)) /\ ~(Rank(S, j) < Rank(S, i))
      BY <1>4, <2>1
    <3>2. QED
      BY <1>3, <3>1
  <2>2. i \in Nat /\ j \in Nat
    BY <1>1
  <2>3. QED
    BY <2>2, <2>4
<1>5. QED
  BY <1>1, <1>2, <1>4

\* Every rank is somebody's: the sequence names each member once.
LEMMA InOrderIs ==
  ASSUME NEW l \in Nat, NEW S \in SUBSET (1..l)
  PROVE  /\ IsFiniteSet(S) /\ Cardinality(S) \in Nat
         /\ InOrder(S) \in Seq(S) /\ Len(InOrder(S)) = Cardinality(S)
         /\ DOMAIN InOrder(S) = 1..Cardinality(S)
         /\ \A k \in 1..Cardinality(S) : InOrder(S)[k] \in S
         /\ \A j, k \in 1..Cardinality(S) : InOrder(S)[j] = InOrder(S)[k] => j = k
<1> DEFINE n == Cardinality(S)
           rank == [i \in S |-> Rank(S, i)]
           o == InOrder(S)
<1>1. /\ IsFiniteSet(S) /\ n \in Nat
      /\ \A i \in S : Rank(S, i) \in 1..n
      /\ \A i, j \in S : Rank(S, i) = Rank(S, j) => i = j
  BY Ranks
<1>2. IsFiniteSet(1..n) /\ Cardinality(1..n) = n
  <2>1. n \in Nat /\ n \in Int /\ 1 \in Int
    BY <1>1
  <2> HIDE DEF n
  <2>2. IsFiniteSet(1..n) /\ Cardinality(1..n) = IF 1 > n THEN 0 ELSE n - 1 + 1
    BY <2>1, FS_Interval
  <2>3. QED
    BY <2>1, <2>2
<1>3. rank \in Injection(S, 1..n)
  BY <1>1 DEF Injection, IsInjective
<1>4. rank \in Surjection(S, 1..n)
  <2> HIDE DEF rank
  <2>1. Cardinality(S) = Cardinality(1..n)
    BY <1>2
  <2>2. QED
    BY <1>1, <1>2, <1>3, <2>1, FS_Injection
<1>5. \A k \in 1..n : \E i \in S : Rank(S, i) = k
  BY <1>4 DEF Surjection
<1>6. o = [k \in 1..n |-> CHOOSE i \in S : Rank(S, i) = k]
  BY DEF InOrder, Rank
<1>7. \A k \in 1..n : o[k] \in S /\ Rank(S, o[k]) = k
  BY <1>5, <1>6
<1>8. o \in [1..n -> S]
  BY <1>6, <1>7
<1> HIDE DEF o, n
<1>9. o \in Seq(S) /\ Len(o) = n /\ DOMAIN o = 1..n
  BY <1>1, <1>8
<1>10. \A j, k \in 1..n : o[j] = o[k] => j = k
  BY <1>7
<1>11. QED
  BY <1>1, <1>7, <1>9, <1>10 DEF o, n

----------------------------------------------------------------------------
(* The invariant *)

Id == Seq(Nat)
Place == Nat \X Nat
Call == [id : Id, fn : Functions, of : Place]

Message ==
  [role : {"system", "user", "assistant"}, text : Nat, calls : Seq(Call)]
    \cup [role : {"tool"}, id : Id, of : Place, calls : {<<>>}]

Request == [by : Provider, turns : {Turns(p) : p \in Provider}, offer : Offers]

TypeOK ==
  /\ messages \in Seq(Message)
  /\ request \in Request \cup {NoRequest}
  /\ answered \in [parts : Answers, offer : Offers] \cup {NoAnswer}

\* Who may speak after whom.
Turn(was, role) ==
  \/ role = "user" /\ was \in {"system", "assistant"}
  \/ role = "assistant" /\ was \in {"user", "tool"}
  \/ role = "tool" /\ was \in {"assistant", "tool"}

Ordered ==
  \A i \in DOMAIN messages :
    IF i = 1 THEN messages[i].role \in {"system", "user"}
    ELSE Turn(messages[i - 1].role, messages[i].role)

\* Only the assistant calls, and the user says something.
Spoke ==
  \A i \in DOMAIN messages :
    /\ messages[i].role # "assistant" => messages[i].calls = <<>>
    /\ messages[i].role = "user" => messages[i].text # Empty

\* A call knows its place, and has an id of its own among the calls of its message.
Placed ==
  \A i \in DOMAIN messages :
    /\ \A k \in DOMAIN messages[i].calls : messages[i].calls[k].of = <<i, k>>
    /\ \A j, k \in DOMAIN messages[i].calls :
         messages[i].calls[j].id = messages[i].calls[k].id => j = k

\* Message i is the result of a call of message a, with nothing but results between.
ResultFor(i, a) ==
  /\ a < i
  /\ \A j \in (a + 1)..i : messages[j].role = "tool"
  /\ \E k \in DOMAIN messages[a].calls :
       messages[i].of = <<a, k>> /\ messages[i].id = messages[a].calls[k].id

Traced ==
  \A i \in DOMAIN messages :
    messages[i].role = "tool" => \E a \in DOMAIN messages : ResultFor(i, a)

\* Nobody speaks after a call until it has its result.
Awaited ==
  \A a, b \in DOMAIN messages :
    a < b /\ messages[b].role # "tool" =>
      \A k \in DOMAIN messages[a].calls :
        \E j \in (a + 1)..(b - 1) : messages[j].role = "tool" /\ messages[j].of = <<a, k>>

\* A request is for the conversation as it stands, and comes when all calls have results.
Requested ==
  request # NoRequest =>
    /\ request.by \in Provider /\ request.turns = Turns(request.by)
    /\ LastRole \in {"user", "tool"}
    /\ Unresolved = {}

Conversation == Ordered /\ Spoke /\ Placed /\ Traced /\ Awaited

Inv == TypeOK /\ Conversation /\ Requested

----------------------------------------------------------------------------
(* What an answer becomes *)

LEMMA WrittenParts ==
  ASSUME NEW parts \in Seq(Part), NEW i \in DOMAIN parts, parts[i].kind \in {"call"} \cup Written
  PROVE  parts[i].fn \in Functions
<1>1. parts[i] \in Part
  OBVIOUS
<1>2. QED
  BY <1>1 DEF Part, Written

\* Places of an answer's parts, each once.
Places(parts, s) ==
  /\ s \in Seq(Nat)
  /\ \A k \in DOMAIN s : s[k] \in DOMAIN parts
  /\ \A j, k \in DOMAIN s : s[j] = s[k] => j = k

LEMMA PlacesInOrder ==
  ASSUME NEW parts \in Seq(Part), NEW S, S \subseteq DOMAIN parts
  PROVE  Places(parts, InOrder(S)) /\ \A k \in DOMAIN InOrder(S) : InOrder(S)[k] \in S
<1>1. Len(parts) \in Nat /\ S \in SUBSET (1..Len(parts)) /\ DOMAIN parts = 1..Len(parts)
  OBVIOUS
<1>2. /\ InOrder(S) \in Seq(S) /\ DOMAIN InOrder(S) = 1..Cardinality(S)
      /\ \A k \in 1..Cardinality(S) : InOrder(S)[k] \in S
      /\ \A j, k \in 1..Cardinality(S) : InOrder(S)[j] = InOrder(S)[k] => j = k
  BY <1>1, InOrderIs
<1>3. S \subseteq Nat
  BY <1>1
<1>4. InOrder(S) \in Seq(Nat)
  BY <1>2, <1>3
<1>5. QED
  BY <1>1, <1>2, <1>4 DEF Places

\* A written call is taken from the first format that has one of an offered tool.
LEMMA RescuedIs ==
  ASSUME NEW parts \in Seq(Part), NEW offer
  PROVE  /\ Places(parts, Rescued(parts, offer))
         /\ \A k \in DOMAIN Rescued(parts, offer) :
              /\ Rescued(parts, offer)[k] \in At(parts, Written)
              /\ parts[Rescued(parts, offer)[k]].fn \in offer
<1> DEFINE found(f) == {i \in At(parts, Formats[f]) : parts[i].fn \in offer}
           hit == {f \in DOMAIN Formats : found(f) # {}}
           first == CHOOSE f \in hit : \A g \in hit : f <= g
<1>1. DOMAIN Formats = 1..3 /\ \A f \in 1..3 : Formats[f] \subseteq Written
  <2>1. Formats[1] \subseteq Written /\ Formats[2] \subseteq Written /\ Formats[3] \subseteq Written
    BY DEF Formats, Written
  <2>2. DOMAIN Formats = 1..3
    BY DEF Formats
  <2>3. \A f \in 1..3 : f = 1 \/ f = 2 \/ f = 3
    OBVIOUS
  <2>4. QED
    BY <2>1, <2>2, <2>3
<1>2. CASE hit = {}
  <2>1. Rescued(parts, offer) = <<>>
    BY <1>2 DEF Rescued
  <2>2. QED
    BY <2>1 DEF Places
<1>3. CASE hit # {}
  <2>1. hit \subseteq Nat
    BY <1>1
  <2>2. \E f \in hit : \A g \in hit : f <= g
    <3> HIDE DEF hit
    <3>1. QED
      BY <1>3, <2>1, Least
  <2>3. first \in hit
    <3> HIDE DEF hit
    <3>1. QED
      BY <2>2
  <2>4. first \in 1..3
    BY <1>1, <2>3
  <2>5. Rescued(parts, offer) = InOrder(found(first))
    BY <1>3 DEF Rescued
  <2>6. found(first) \subseteq At(parts, Written) /\ \A i \in found(first) : parts[i].fn \in offer
    BY <1>1, <2>4 DEF At
  <2>7. found(first) \subseteq DOMAIN parts
    BY DEF At
  <2> HIDE DEF first, hit, found
  <2>8. Places(parts, InOrder(found(first)))
        /\ \A k \in DOMAIN InOrder(found(first)) : InOrder(found(first))[k] \in found(first)
    BY <2>7, PlacesInOrder
  <2>9. QED
    BY <2>5, <2>6, <2>8
<1>4. QED
  BY <1>2, <1>3

\* The calls of a new message, made at places of an answer.
CallsAt(calls, parts, s) ==
  /\ calls \in Seq(Call) /\ DOMAIN calls = DOMAIN s
  /\ \A k \in DOMAIN calls :
       calls[k].of = <<Len(messages) + 1, k>> /\ calls[k].fn = parts[s[k]].fn
  /\ \A j, k \in DOMAIN calls : calls[j].id = calls[k].id => j = k

LEMMA CalledIs ==
  ASSUME NEW p, NEW parts, NEW s, Places(parts, s), Len(messages) \in Nat,
         \A k \in DOMAIN s : parts[s[k]].fn \in Functions
  PROVE  CallsAt(Called(p, parts, s), parts, s)
<1> DEFINE n == Len(messages) + 1
           c == Called(p, parts, s)
<1>1. n \in Nat /\ s \in Seq(Nat)
  BY DEF Places
<1>2. c = [k \in DOMAIN s |-> [id |-> IdOf(p, s[k]), fn |-> parts[s[k]].fn, of |-> <<n, k>>]]
  BY DEF Called
<1>3. \A i \in Nat : IdOf(p, i) = IF p = "gemini" THEN <<i>> ELSE <<n, i>>
  BY DEF IdOf
<1> HIDE DEF n, c
<1>4. \A i \in Nat : IdOf(p, i) \in Id
  <2>1. \A i \in Nat : <<i>> \in Seq(Nat) /\ <<n, i>> \in Seq(Nat)
    BY <1>1
  <2>2. QED
    BY <1>3, <2>1 DEF Id
<1>5. \A i, j \in Nat : IdOf(p, i) = IdOf(p, j) => i = j
  <2> SUFFICES ASSUME NEW i \in Nat, NEW j \in Nat, IdOf(p, i) = IdOf(p, j) PROVE i = j
    OBVIOUS
  <2>1. CASE p = "gemini"
    BY <1>3, <2>1
  <2>2. CASE p # "gemini"
    BY <1>3, <2>2
  <2>3. QED
    BY <2>1, <2>2
<1>6. \A k \in DOMAIN s : s[k] \in Nat /\ k \in Nat
  BY <1>1
<1>7. \A k \in DOMAIN s : c[k] \in Call
  <2> SUFFICES ASSUME NEW k \in DOMAIN s PROVE c[k] \in Call
    OBVIOUS
  <2>1. IdOf(p, s[k]) \in Id /\ parts[s[k]].fn \in Functions /\ <<n, k>> \in Place
    BY <1>1, <1>4, <1>6 DEF Place
  <2>2. QED
    BY <1>2, <2>1 DEF Call
<1>8. c \in Seq(Call) /\ DOMAIN c = DOMAIN s
  <2>1. Len(s) \in Nat /\ DOMAIN s = 1..Len(s)
    BY <1>1
  <2>2. DOMAIN c = DOMAIN s /\ c = [k \in 1..Len(s) |-> c[k]]
    BY <1>2, <2>1
  <2>3. c \in [1..Len(s) -> Call]
    BY <1>7, <2>1, <2>2
  <2>4. QED
    BY <2>1, <2>2, <2>3
<1>9. \A k \in DOMAIN s : c[k].of = <<n, k>> /\ c[k].fn = parts[s[k]].fn /\ c[k].id = IdOf(p, s[k])
  BY <1>2
<1>10. \A j, k \in DOMAIN s : c[j].id = c[k].id => j = k
  <2>1. \A j, k \in DOMAIN s : c[j].id = c[k].id => s[j] = s[k]
    BY <1>5, <1>6, <1>9
  <2>2. QED
    BY <2>1 DEF Places
<1>11. QED
  BY <1>8, <1>9, <1>10 DEF CallsAt, c, n

\* The reply calls at the structured calls of the answer or, without any, at those
\* written in its text.
CallPlaces(parts, offer) ==
  IF At(parts, {"call"}) = {} THEN Rescued(parts, offer) ELSE InOrder(At(parts, {"call"}))

LEMMA ReplyIs ==
  ASSUME NEW p, NEW parts \in Seq(Part), NEW offer, Len(messages) \in Nat
  PROVE  LET m == Reply(p, parts, offer)
         IN /\ m \in Message /\ m.role = "assistant"
            /\ CallsAt(m.calls, parts, CallPlaces(parts, offer))
            /\ Places(parts, CallPlaces(parts, offer))
<1> DEFINE S == At(parts, {"call"})
           s == CallPlaces(parts, offer)
           m == Reply(p, parts, offer)
<1>1. S \subseteq DOMAIN parts
  BY DEF At
<1>2. /\ Places(parts, InOrder(S)) /\ \A k \in DOMAIN InOrder(S) : InOrder(S)[k] \in S
      /\ (S = {} <=> InOrder(S) = <<>>)
  <2> HIDE DEF S
  <2>1. Places(parts, InOrder(S)) /\ \A k \in DOMAIN InOrder(S) : InOrder(S)[k] \in S
    BY <1>1, PlacesInOrder
  <2>2. IsFiniteSet(S) /\ Len(InOrder(S)) = Cardinality(S) /\ InOrder(S) \in Seq(S)
    <3>1. Len(parts) \in Nat /\ S \in SUBSET (1..Len(parts))
      BY <1>1
    <3>2. QED
      BY <3>1, InOrderIs
  <2>3. Cardinality(S) = 0 <=> S = {}
    BY <2>2, FS_EmptySet
  <2>4. QED
    BY <2>1, <2>2, <2>3
<1>3. Places(parts, s) /\ \A k \in DOMAIN s : parts[s[k]].kind \in {"call"} \cup Written
  <2>1. CASE S = {}
    <3>1. s = Rescued(parts, offer)
      BY <2>1 DEF CallPlaces
    <3>2. QED
      BY <3>1, RescuedIs DEF At
  <2>2. CASE S # {}
    <3>1. s = InOrder(S)
      BY <2>2 DEF CallPlaces
    <3>2. QED
      BY <1>2, <3>1 DEF At
  <2>3. QED
    BY <2>1, <2>2
<1>4. \A k \in DOMAIN s : parts[s[k]].fn \in Functions
  BY <1>3, WrittenParts DEF Places
<1>5. CallsAt(Called(p, parts, s), parts, s) /\ CallsAt(Called("rescue", parts, s), parts, s)
  <2> HIDE DEF s
  <2>1. QED
    BY <1>3, <1>4, CalledIs
<1>6. /\ m.role = "assistant" /\ m.text \in Nat
      /\ m.calls = IF InOrder(S) # <<>> THEN Called(p, parts, InOrder(S))
                   ELSE Called("rescue", parts, Rescued(parts, offer))
      /\ m = [role |-> m.role, text |-> m.text, calls |-> m.calls]
  BY DEF Reply, Empty
<1>7. CallsAt(m.calls, parts, s)
  <2> HIDE DEF m
  <2>1. CASE S = {}
    <3>1. s = Rescued(parts, offer)
      BY <2>1 DEF CallPlaces
    <3>2. QED
      BY <1>2, <1>5, <1>6, <2>1, <3>1
  <2>2. CASE S # {}
    <3>1. s = InOrder(S)
      BY <2>2 DEF CallPlaces
    <3>2. QED
      BY <1>2, <1>5, <1>6, <2>2, <3>1
  <2>3. QED
    BY <2>1, <2>2
<1>8. m \in Message
  <2> HIDE DEF m
  <2>1. m.calls \in Seq(Call)
    BY <1>7 DEF CallsAt
  <2>2. QED
    BY <1>6, <2>1 DEF Message
<1>9. QED
  BY <1>3, <1>6, <1>7, <1>8

----------------------------------------------------------------------------
(* A message is added *)

LEMMA MessageFacts ==
  ASSUME NEW m \in Message
  PROVE  /\ m.calls \in Seq(Call)
         /\ m.role \in {"system", "user", "assistant", "tool"}
         /\ m.role = "tool" => m.id \in Id /\ m.of \in Place /\ m.calls = <<>>
         /\ m.role # "tool" => m.text \in Nat
<1>1. CASE m \in [role : {"system", "user", "assistant"}, text : Nat, calls : Seq(Call)]
  BY <1>1
<1>2. CASE m \in [role : {"tool"}, id : Id, of : Place, calls : {<<>>}]
  <2>1. m.role = "tool" /\ m.id \in Id /\ m.of \in Place /\ m.calls = <<>>
    BY <1>2
  <2>2. <<>> \in Seq(Call)
    OBVIOUS
  <2>3. QED
    BY <2>1, <2>2
<1>3. QED
  BY <1>1, <1>2 DEF Message

LEMMA Grown ==
  ASSUME messages \in Seq(Message), NEW m \in Message, messages' = Append(messages, m)
  PROVE  /\ messages' \in Seq(Message) /\ Len(messages) \in Nat
         /\ Len(messages') = Len(messages) + 1
         /\ DOMAIN messages = 1..Len(messages) /\ DOMAIN messages' = 1..(Len(messages) + 1)
         /\ \A i \in DOMAIN messages : messages'[i] = messages[i] /\ messages[i] \in Message
         /\ messages'[Len(messages) + 1] = m
OBVIOUS

\* Every call of a conversation whose calls all have results was answered after it.
LEMMA AllAnswered ==
  ASSUME messages \in Seq(Message), Placed, Traced, Unresolved = {},
         NEW a \in DOMAIN messages, NEW k \in DOMAIN messages[a].calls
  PROVE  \E j \in (a + 1)..Len(messages) : messages[j].role = "tool" /\ messages[j].of = <<a, k>>
<1> DEFINE c == messages[a].calls[k]
<1>1. Len(messages) \in Nat /\ DOMAIN messages = 1..Len(messages)
  OBVIOUS
<1>2. c \in Calls /\ c.of = <<a, k>>
  BY DEF Calls, ToSet, Placed
<1>3. c.of \in Resolved
  BY <1>2 DEF Unresolved
<1>4. PICK j \in DOMAIN messages : messages[j].role = "tool" /\ messages[j].of = <<a, k>>
  BY <1>2, <1>3 DEF Resolved
<1>5. PICK b \in DOMAIN messages : ResultFor(j, b)
  BY <1>4 DEF Traced
<1>6. b < j /\ \E l \in DOMAIN messages[b].calls : messages[j].of = <<b, l>>
  BY <1>5 DEF ResultFor
<1>7. b = a
  BY <1>4, <1>6
<1>8. j \in (a + 1)..Len(messages)
  BY <1>1, <1>6, <1>7
<1>9. QED
  BY <1>4, <1>8

LEMMA SaysIs ==
  ASSUME NEW role \in {"system", "user"}, NEW text \in Nat
  PROVE  Says(role, text) \in Message
<1>1. <<>> \in Seq(Call)
  OBVIOUS
<1>2. [role |-> role, text |-> text, calls |-> <<>>]
        \in [role : {"system", "user", "assistant"}, text : Nat, calls : Seq(Call)]
  BY <1>1
<1>3. QED
  BY <1>2 DEF Says, Message

\* What a new message must be for the conversation to stay one.
Fits(m, n) ==
  /\ IF n = 1 THEN m.role \in {"system", "user"} ELSE Turn(messages[n - 1].role, m.role)
  /\ m.role # "assistant" => m.calls = <<>>
  /\ m.role = "user" => m.text # Empty
  /\ \A k \in DOMAIN m.calls : m.calls[k].of = <<n, k>>
  /\ \A j, k \in DOMAIN m.calls : m.calls[j].id = m.calls[k].id => j = k
  /\ m.role = "tool" =>
       \E a \in DOMAIN messages :
         /\ \A j \in (a + 1)..(n - 1) : messages[j].role = "tool"
         /\ \E k \in DOMAIN messages[a].calls :
              m.of = <<a, k>> /\ m.id = messages[a].calls[k].id
  /\ m.role # "tool" => Unresolved = {}

LEMMA ConversationGrows ==
  ASSUME messages \in Seq(Message), Conversation,
         NEW m \in Message, messages' = Append(messages, m), Fits(m, Len(messages) + 1)
  PROVE  messages' \in Seq(Message) /\ Conversation'
<1> DEFINE n == Len(messages) + 1
<1>1. /\ messages' \in Seq(Message) /\ Len(messages) \in Nat
      /\ DOMAIN messages = 1..Len(messages) /\ DOMAIN messages' = 1..n
      /\ \A i \in DOMAIN messages : messages'[i] = messages[i]
      /\ messages'[n] = m
  BY Grown
<1>2. n \in Nat /\ n # 0 /\ n - 1 = Len(messages) /\ \A i \in 1..n : i = n \/ (i # n /\ i \in DOMAIN messages)
  BY <1>1
<1>3. DOMAIN messages \subseteq DOMAIN messages' /\ n \in DOMAIN messages' /\ n \notin DOMAIN messages
  BY <1>1
<1> HIDE DEF n
<1>4. Ordered'
  <2> SUFFICES ASSUME NEW i \in DOMAIN messages'
               PROVE  IF i = 1 THEN messages'[i].role \in {"system", "user"}
                      ELSE Turn(messages'[i - 1].role, messages'[i].role)
    BY DEF Ordered, Turn
  <2>1. i # 1 => i - 1 \in DOMAIN messages
    BY <1>1, <1>2
  <2>2. CASE i = n
    <3>1. IF n = 1 THEN m.role \in {"system", "user"} ELSE Turn(messages[n - 1].role, m.role)
      BY DEF Fits, n
    <3>2. QED
      BY <1>1, <2>1, <2>2, <3>1
  <2>3. CASE i # n
    <3>1. i \in DOMAIN messages
      BY <1>1, <1>2, <2>3
    <3>2. IF i = 1 THEN messages[i].role \in {"system", "user"}
          ELSE Turn(messages[i - 1].role, messages[i].role)
      BY <3>1 DEF Conversation, Ordered
    <3>3. QED
      BY <1>1, <2>1, <3>1, <3>2
  <2>4. QED
    BY <2>2, <2>3
<1>5. Spoke'
  BY <1>1, <1>2 DEF Conversation, Spoke, Fits, n
<1>6. Placed'
  <2> SUFFICES ASSUME NEW i \in DOMAIN messages'
               PROVE  /\ \A k \in DOMAIN messages'[i].calls : messages'[i].calls[k].of = <<i, k>>
                      /\ \A j, k \in DOMAIN messages'[i].calls :
                           messages'[i].calls[j].id = messages'[i].calls[k].id => j = k
    BY DEF Placed
  <2>1. CASE i = n
    <3>1. /\ \A k \in DOMAIN m.calls : m.calls[k].of = <<n, k>>
          /\ \A j, k \in DOMAIN m.calls : m.calls[j].id = m.calls[k].id => j = k
      BY DEF Fits, n
    <3>2. QED
      BY <1>1, <2>1, <3>1
  <2>2. CASE i # n
    BY <1>1, <1>2, <2>2 DEF Conversation, Placed
  <2>3. QED
    BY <2>1, <2>2
<1>7. Traced'
  <2> SUFFICES ASSUME NEW i \in DOMAIN messages', messages'[i].role = "tool"
               PROVE  \E a \in DOMAIN messages' : ResultFor(i, a)'
    BY DEF Traced
  <2>1. CASE i = n
    <3>1. m.role = "tool"
      BY <1>1, <2>1
    <3>2. PICK a \in DOMAIN messages :
            /\ \A j \in (a + 1)..(n - 1) : messages[j].role = "tool"
            /\ \E k \in DOMAIN messages[a].calls :
                 m.of = <<a, k>> /\ m.id = messages[a].calls[k].id
      BY <3>1 DEF Fits, n
    <3>3. a < n /\ \A j \in (a + 1)..n : j = n \/ (j \in (a + 1)..(n - 1) /\ j \in DOMAIN messages)
      BY <1>1, <1>2
    <3>4. \A j \in (a + 1)..n : messages'[j].role = "tool"
      BY <1>1, <3>1, <3>2, <3>3
    <3>5. ResultFor(i, a)'
      BY <1>1, <2>1, <3>2, <3>3, <3>4 DEF ResultFor
    <3>6. QED
      BY <1>3, <3>5
  <2>2. CASE i # n
    <3>1. i \in DOMAIN messages /\ messages[i].role = "tool"
      BY <1>1, <1>2, <2>2
    <3>2. PICK a \in DOMAIN messages : ResultFor(i, a)
      BY <3>1 DEF Conversation, Traced
    <3>3. \A j \in (a + 1)..i : j \in DOMAIN messages
      BY <1>1, <3>1
    <3>4. ResultFor(i, a)'
      BY <1>1, <3>1, <3>2, <3>3 DEF ResultFor
    <3>5. QED
      BY <1>3, <3>4
  <2>3. QED
    BY <2>1, <2>2
<1>8. Awaited'
  <2> SUFFICES ASSUME NEW a \in DOMAIN messages', NEW b \in DOMAIN messages',
                      a < b, messages'[b].role # "tool",
                      NEW k \in DOMAIN messages'[a].calls
               PROVE  \E j \in (a + 1)..(b - 1) :
                        messages'[j].role = "tool" /\ messages'[j].of = <<a, k>>
    BY DEF Awaited
  <2>1. a \in DOMAIN messages /\ \A j \in (a + 1)..(b - 1) : j \in DOMAIN messages
    BY <1>1, <1>2
  <2>2. messages'[a] = messages[a] /\ k \in DOMAIN messages[a].calls
    BY <1>1, <2>1
  <2>3. CASE b = n
    <3>1. Unresolved = {}
      BY <1>1, <2>3 DEF Fits, n
    <3>2. PICK j \in (a + 1)..Len(messages) : messages[j].role = "tool" /\ messages[j].of = <<a, k>>
      BY <2>1, <2>2, <3>1, AllAnswered DEF Conversation
    <3>3. j \in (a + 1)..(b - 1)
      BY <1>2, <2>3
    <3>4. QED
      BY <1>1, <2>1, <3>2, <3>3
  <2>4. CASE b # n
    <3>1. b \in DOMAIN messages /\ messages[b].role # "tool"
      BY <1>1, <1>2, <2>4
    <3>2. PICK j \in (a + 1)..(b - 1) : messages[j].role = "tool" /\ messages[j].of = <<a, k>>
      BY <2>1, <2>2, <3>1 DEF Conversation, Awaited
    <3>3. QED
      BY <1>1, <2>1, <3>2
  <2>5. QED
    BY <2>3, <2>4
<1>9. QED
  BY <1>1, <1>4, <1>5, <1>6, <1>7, <1>8 DEF Conversation

LEMMA Same ==
  ASSUME messages' = messages, NEW p
  PROVE  Turns(p)' = Turns(p)
BY DEF Turns, Converted, After, Joins, Results, Listed, Blocks, ResultOf, NamedResult, NameOf, Calls, Result, Uses, Text, AnthropicBlocks, BedrockBlocks, GeminiBlocks, AddBlock

\* Nothing of the conversation changes: a request for it stays one.
LEMMA Unchanged ==
  ASSUME Conversation, messages \in Seq(Message), messages' = messages
  PROVE  Conversation' /\ messages' \in Seq(Message)
BY DEF Conversation, Ordered, Turn, Spoke, Placed, Traced, ResultFor, Awaited

LEMMA AnswerTypes ==
  /\ NoAnswer' = NoAnswer /\ NoRequest' = NoRequest
  /\ \A p \in Provider, offer \in Offers :
       [by |-> p, turns |-> Turns(p), offer |-> offer] \in Request
BY DEF NoAnswer, NoRequest, Request

LEMMA ProvidersNamed == Providers \subseteq Provider /\ NoRequest.by \notin Provider
BY ProvidersAssumption DEF Provider, NoRequest

----------------------------------------------------------------------------
(* The invariant is inductive *)

LEMMA InitInv == Init => Inv
<1> SUFFICES ASSUME Init PROVE Inv
  OBVIOUS
<1>1. request = NoRequest /\ answered = NoAnswer
  BY DEF Init
<1>2. CASE messages = <<>>
  <2>1. messages \in Seq(Message) /\ DOMAIN messages = {}
    BY <1>2
  <2>2. Conversation
    BY <2>1 DEF Conversation, Ordered, Spoke, Placed, Traced, Awaited
  <2>3. QED
    BY <1>1, <2>1, <2>2 DEF Inv, TypeOK, Requested
<1>3. CASE messages = <<Says("system", 1)>>
  <2> DEFINE m == Says("system", 1)
  <2>1. m = [role |-> "system", text |-> 1, calls |-> <<>>]
    BY DEF Says
  <2>2. m \in Message
    BY SaysIs
  <2>3. messages \in Seq(Message) /\ DOMAIN messages = {1} /\ messages[1] = m
    BY <1>3, <2>2
  <2>4. m.role = "system" /\ m.calls = <<>>
    BY <2>1
  <2> HIDE DEF m
  <2>5. Conversation
    BY <2>3, <2>4 DEF Conversation, Ordered, Spoke, Placed, Traced, Awaited
  <2>6. QED
    BY <1>1, <2>3, <2>5 DEF Inv, TypeOK, Requested
<1>4. QED
  BY <1>2, <1>3 DEF Init

LEMMA UserSaysInv == Inv /\ UserSays => Inv'
<1> SUFFICES ASSUME Inv, UserSays PROVE Inv'
  OBVIOUS
<1> DEFINE n == Len(messages) + 1
           m == Says("user", n)
<1>1. messages \in Seq(Message) /\ Conversation
  BY DEF Inv, TypeOK
<1>2. /\ request = NoRequest /\ request' = request /\ answered' = NoAnswer
      /\ messages' = Append(messages, m) /\ Unresolved = {}
      /\ LastRole \in {"nobody", "system", "assistant"}
  BY DEF UserSays, MayGrow
<1>3. m = [role |-> "user", text |-> n, calls |-> <<>>] /\ n \in Nat /\ n # 0
  BY <1>1 DEF Says
<1>4. m \in Message
  <2> HIDE DEF n
  <2>1. QED
    BY <1>3, SaysIs
<1>5. m.role = "user" /\ m.text = n /\ m.calls = <<>>
  BY <1>3
<1>6. IF n = 1 THEN m.role \in {"system", "user"} ELSE Turn(messages[n - 1].role, m.role)
  <2>1. n # 1 => n - 1 = Len(messages) /\ messages # <<>>
    BY <1>1
  <2> HIDE DEF n
  <2>2. n # 1 => messages[n - 1].role = LastRole /\ messages[n - 1] \in Message
    BY <1>1, <2>1 DEF LastRole, Last
  <2>3. n # 1 => messages[n - 1].role \in {"system", "assistant"}
    BY <1>2, <2>2, MessageFacts
  <2>4. QED
    BY <1>5, <2>3 DEF Turn
<1>7. Fits(m, n)
  <2> HIDE DEF m, n
  <2>1. QED
    BY <1>2, <1>3, <1>5, <1>6 DEF Fits, Empty
<1>8. messages' \in Seq(Message) /\ Conversation'
  <2> HIDE DEF m
  <2>1. QED
    BY <1>1, <1>2, <1>4, <1>7, ConversationGrows
<1>9. QED
  BY <1>2, <1>8, AnswerTypes DEF Inv, TypeOK, Requested

LEMMA ToolEndsInv == Inv /\ ToolEnds => Inv'
<1> SUFFICES ASSUME Inv, ToolEnds PROVE Inv'
  OBVIOUS
<1>1. messages \in Seq(Message) /\ Conversation
  BY DEF Inv, TypeOK
<1>2. request = NoRequest /\ request' = request /\ answered' = NoAnswer
  BY DEF ToolEnds, MayGrow
<1>3. PICK c \in Unresolved :
        messages' = Append(messages, [role |-> "tool", id |-> c.id, of |-> c.of, calls |-> <<>>])
  BY DEF ToolEnds
<1> DEFINE n == Len(messages) + 1
           m == [role |-> "tool", id |-> c.id, of |-> c.of, calls |-> <<>>]
<1>4. PICK a \in DOMAIN messages : \E k \in DOMAIN messages[a].calls : c = messages[a].calls[k]
  BY DEF Unresolved, Calls, ToSet
<1>5. PICK k \in DOMAIN messages[a].calls : c = messages[a].calls[k]
  BY <1>4
<1>6. Len(messages) \in Nat /\ DOMAIN messages = 1..Len(messages) /\ messages[a] \in Message
  BY <1>1
<1>7. c \in Call
  <2>1. messages[a].calls \in Seq(Call)
    BY <1>6, MessageFacts
  <2>2. QED
    BY <1>5, <2>1
<1>8. m \in Message
  BY <1>7 DEF Call, Message
<1>9. m.role = "tool" /\ m.id = c.id /\ m.of = c.of /\ m.calls = <<>>
  OBVIOUS
<1>10. c.of = <<a, k>> /\ messages[a].calls # <<>>
  <2>1. c.of = <<a, k>>
    BY <1>1, <1>5 DEF Conversation, Placed
  <2>2. QED
    BY <1>5, <2>1
<1>11. messages[a].role = "assistant"
  BY <1>1, <1>10 DEF Conversation, Spoke
<1>12. \A j \in (a + 1)..(n - 1) : messages[j].role = "tool"
  <2> SUFFICES ASSUME NEW j \in (a + 1)..(n - 1), messages[j].role # "tool" PROVE FALSE
    OBVIOUS
  <2>1. j \in DOMAIN messages /\ a < j
    BY <1>6
  <2>2. PICK i \in (a + 1)..(j - 1) : messages[i].role = "tool" /\ messages[i].of = <<a, k>>
    BY <1>1, <1>5, <2>1 DEF Conversation, Awaited
  <2>3. i \in DOMAIN messages
    BY <1>6, <2>1
  <2>4. c.of \in Resolved
    BY <1>10, <2>2, <2>3 DEF Resolved
  <2>5. QED
    BY <2>4 DEF Unresolved
<1>13. IF n = 1 THEN m.role \in {"system", "user"} ELSE Turn(messages[n - 1].role, m.role)
  <2>1. n # 1 /\ n - 1 \in DOMAIN messages /\ (n - 1 = a \/ n - 1 \in (a + 1)..(n - 1))
    BY <1>6
  <2> HIDE DEF n
  <2>2. messages[n - 1].role \in {"assistant", "tool"}
    BY <1>11, <1>12, <2>1
  <2>3. QED
    BY <1>9, <2>1, <2>2 DEF Turn
<1> HIDE DEF m, n
<1>14. Fits(m, n)
  BY <1>5, <1>9, <1>10, <1>12, <1>13 DEF Fits
<1>15. messages' \in Seq(Message) /\ Conversation'
  BY <1>1, <1>3, <1>8, <1>14, ConversationGrows DEF m, n
<1>16. QED
  BY <1>2, <1>15, AnswerTypes DEF Inv, TypeOK, Requested

LEMMA ChatInv == Inv /\ (\E p \in Providers : ChatWithTools(p)) => Inv'
<1> SUFFICES ASSUME Inv, NEW p \in Providers, ChatWithTools(p) PROVE Inv'
  OBVIOUS
<1>1. PICK offer \in Offers : request' = [by |-> p, turns |-> Turns(p), offer |-> offer]
  BY DEF ChatWithTools
<1>2. /\ LastRole \in {"user", "tool"} /\ Unresolved = {}
      /\ messages' = messages /\ answered' = NoAnswer /\ p \in Provider
  BY ProvidersNamed DEF ChatWithTools
<1>3. messages' \in Seq(Message) /\ Conversation'
  BY <1>2, Unchanged DEF Inv, TypeOK
<1>4. LastRole' = LastRole /\ Unresolved' = Unresolved
  BY <1>2 DEF LastRole, Unresolved, Calls, Resolved
<1>5. Turns(p)' = Turns(p)
  BY <1>2, Same
<1>6. request'.by = p /\ request'.turns = Turns(p)
  BY <1>1
<1>7. request' \in Request'
  BY <1>1, <1>2, <1>5 DEF Request
<1>8. Requested'
  BY <1>2, <1>4, <1>5, <1>6 DEF Requested
<1>9. QED
  BY <1>2, <1>3, <1>7, <1>8, AnswerTypes DEF Inv, TypeOK

LEMMA AnsweredInv == Inv /\ Answered => Inv'
<1> SUFFICES ASSUME Inv, Answered PROVE Inv'
  OBVIOUS
<1>1. messages \in Seq(Message) /\ Conversation
  BY DEF Inv, TypeOK
<1>2. /\ request \in Request /\ LastRole \in {"user", "tool"} /\ Unresolved = {}
      /\ request' = NoRequest
  BY DEF Inv, TypeOK, Requested, Answered
<1>3. PICK parts \in Answers :
        /\ messages' = Append(messages, Reply(request.by, parts, request.offer))
        /\ answered' = [parts |-> parts, offer |-> request.offer]
  BY DEF Answered
<1> DEFINE n == Len(messages) + 1
           m == Reply(request.by, parts, request.offer)
           s == CallPlaces(parts, request.offer)
<1>4. Len(messages) \in Nat /\ DOMAIN messages = 1..Len(messages)
  BY <1>1
<1>5. m \in Message /\ m.role = "assistant" /\ CallsAt(m.calls, parts, s)
  BY <1>4, AnswersAssumption, ReplyIs
<1>6. request.offer \in Offers
  BY <1>2 DEF Request
<1> HIDE DEF m, s
<1>7. IF n = 1 THEN m.role \in {"system", "user"} ELSE Turn(messages[n - 1].role, m.role)
  <2>1. messages # <<>> /\ LastRole = messages[Len(messages)].role
    BY <1>2 DEF LastRole, Last
  <2>2. n # 1 /\ n - 1 = Len(messages)
    BY <1>1, <1>4, <2>1
  <2>3. QED
    BY <1>2, <1>5, <2>1, <2>2 DEF Turn
<1>8. Fits(m, n)
  BY <1>2, <1>5, <1>7 DEF Fits, CallsAt
<1>9. messages' \in Seq(Message) /\ Conversation'
  BY <1>1, <1>3, <1>5, <1>8, ConversationGrows DEF m
<1>10. answered' \in [parts : Answers, offer : Offers]
  BY <1>3, <1>6
<1>11. QED
  BY <1>2, <1>9, <1>10, AnswerTypes DEF Inv, TypeOK, Requested

LEMMA RaisesInv == Inv /\ Raises => Inv'
<1> SUFFICES ASSUME Inv, Raises PROVE Inv'
  OBVIOUS
<1>1. messages' = messages /\ request' = NoRequest /\ answered' = NoAnswer
  BY DEF Raises
<1>2. messages' \in Seq(Message) /\ Conversation'
  BY <1>1, Unchanged DEF Inv, TypeOK
<1>3. QED
  BY <1>1, <1>2, AnswerTypes DEF Inv, TypeOK, Requested

LEMMA StutterInv == Inv /\ UNCHANGED vars => Inv'
<1> SUFFICES ASSUME Inv, UNCHANGED vars PROVE Inv'
  OBVIOUS
<1>1. messages' = messages /\ request' = request /\ answered' = answered
  BY DEF vars
<1>2. messages' \in Seq(Message) /\ Conversation'
  BY <1>1, Unchanged DEF Inv, TypeOK
<1>3. \A p \in Provider : Turns(p)' = Turns(p)
  BY <1>1, Same
<1>4. LastRole' = LastRole /\ Unresolved' = Unresolved
  BY <1>1 DEF LastRole, Unresolved, Calls, Resolved
<1>5. request' \in (Request \cup {NoRequest})'
  <2>1. request \in Request \cup {NoRequest}
    BY DEF Inv, TypeOK
  <2>2. Request' = Request
    BY <1>3 DEF Request
  <2>3. QED
    BY <1>1, <2>1, <2>2, AnswerTypes
<1>6. Requested'
  <2>1. request # NoRequest => /\ request.by \in Provider /\ request.turns = Turns(request.by)
                               /\ LastRole \in {"user", "tool"} /\ Unresolved = {}
    BY DEF Inv, Requested
  <2>2. Turns(request.by)' = Turns(request.by)
    <3>1. \A p \in {request.by} : Turns(p)' = Turns(p)
      BY <1>1, Same
    <3>2. QED
      BY <1>1, <3>1
  <2>3. QED
    BY <1>1, <1>4, <2>1, <2>2, AnswerTypes DEF Requested
<1>7. answered' \in [parts : Answers, offer : Offers] \cup {NoAnswer}
  BY <1>1 DEF Inv, TypeOK
<1>8. QED
  BY <1>2, <1>5, <1>6, <1>7, AnswerTypes DEF Inv, TypeOK

\* The conversation is well formed and a request is for the conversation as it
\* stands, with every call of it answered.
THEOREM Invariance == Spec => []Inv
<1>1. Init => Inv
  BY InitInv
<1>2. Inv /\ [Next]_vars => Inv'
  BY UserSaysInv, ToolEndsInv, ChatInv, AnsweredInv, RaisesInv, StutterInv DEF Next
<1>3. QED
  BY <1>1, <1>2, PTL DEF Spec

----------------------------------------------------------------------------
(* Calls written in a text *)

LEMMA OnceEach ==
  ASSUME NEW parts \in Seq(Part), NEW offer, NEW calls, At(parts, {"call"}) = {},
         CallsAt(calls, parts, CallPlaces(parts, offer))
  PROVE  /\ \A k \in DOMAIN calls : calls[k].fn \in offer
         /\ \A f \in Functions :
              Cardinality({k \in DOMAIN calls : calls[k].fn = f})
                <= Cardinality({i \in At(parts, Written) : parts[i].fn = f})
<1> DEFINE s == Rescued(parts, offer)
<1>1. CallPlaces(parts, offer) = s
  BY DEF CallPlaces
<1>2. /\ Places(parts, s)
      /\ \A k \in DOMAIN s : s[k] \in At(parts, Written) /\ parts[s[k]].fn \in offer
  BY RescuedIs
<1> HIDE DEF s
<1>3. DOMAIN calls = DOMAIN s /\ \A k \in DOMAIN calls : calls[k].fn = parts[s[k]].fn
  BY <1>1 DEF CallsAt
<1>4. ASSUME NEW f \in Functions
      PROVE  Cardinality({k \in DOMAIN calls : calls[k].fn = f})
               <= Cardinality({i \in At(parts, Written) : parts[i].fn = f})
  <2> DEFINE K == {k \in DOMAIN calls : calls[k].fn = f}
             I == {i \in At(parts, Written) : parts[i].fn = f}
             to == [k \in K |-> s[k]]
  <2>1. IsFiniteSet(I)
    <3>1. I \subseteq 1..Len(parts) /\ Len(parts) \in Nat
      BY DEF At
    <3> HIDE DEF I
    <3>2. IsFiniteSet(1..Len(parts))
      BY <3>1, FS_Interval
    <3>3. QED
      BY <3>1, <3>2, FS_Subset
  <2>2. to \in Injection(K, I)
    <3>1. \A k \in K : k \in DOMAIN s /\ to[k] \in I
      BY <1>2, <1>3
    <3>2. \A j, k \in K : to[j] = to[k] => j = k
      BY <1>2, <1>3 DEF Places
    <3>3. to \in [K -> I]
      BY <3>1
    <3> HIDE DEF K, I, to
    <3>4. QED
      BY <3>2, <3>3 DEF Injection, IsInjective
  <2> HIDE DEF K, I, to
  <2>3. Cardinality(K) <= Cardinality(I)
    BY <2>1, <2>2, FS_Injection
  <2>4. QED
    BY <2>3 DEF K, I
<1>5. QED
  BY <1>2, <1>3, <1>4

LEMMA AnsweredRescues == Inv /\ Answered => RescuedOnce'
<1> SUFFICES ASSUME Inv, Answered, At(answered'.parts, {"call"}) = {}
             PROVE  /\ \A k \in DOMAIN Last(messages').calls : Last(messages').calls[k].fn \in answered'.offer
                    /\ \A f \in Functions :
                         Cardinality({k \in DOMAIN Last(messages').calls : Last(messages').calls[k].fn = f})
                           <= Cardinality({i \in At(answered'.parts, Written) : answered'.parts[i].fn = f})
  BY DEF RescuedOnce, At
<1>1. messages \in Seq(Message) /\ Len(messages) \in Nat
  BY DEF Inv, TypeOK
<1>2. PICK parts \in Answers :
        /\ messages' = Append(messages, Reply(request.by, parts, request.offer))
        /\ answered' = [parts |-> parts, offer |-> request.offer]
  BY DEF Answered
<1> DEFINE m == Reply(request.by, parts, request.offer)
<1>3. parts \in Seq(Part)
  BY AnswersAssumption
<1>4. m \in Message /\ CallsAt(m.calls, parts, CallPlaces(parts, request.offer))
  BY <1>1, <1>3, ReplyIs
<1> HIDE DEF m
<1>5. Last(messages') = m
  <2>1. messages' = Append(messages, m)
    BY <1>2 DEF m
  <2>2. QED
    BY <1>1, <1>4, <2>1, Grown DEF Last
<1>6. answered'.parts = parts /\ answered'.offer = request.offer
  BY <1>2
<1>7. QED
  BY <1>3, <1>4, <1>5, <1>6, OnceEach

\* A reply without a structured call has only calls of offered tools, each written
\* once in its text and made once (tool_parsing.py:58-126).
THEOREM WrittenCalls == Spec => []RescuedOnce
<1>1. Init => RescuedOnce
  BY DEF Init, RescuedOnce
<1>2. Inv /\ RescuedOnce /\ [Next]_vars => RescuedOnce'
  <2> SUFFICES ASSUME Inv, RescuedOnce, [Next]_vars PROVE RescuedOnce'
    OBVIOUS
  <2>1. CASE answered' = NoAnswer
    BY <2>1, AnswerTypes DEF RescuedOnce
  <2>2. CASE Answered
    BY <2>2, AnsweredRescues
  <2>3. CASE UNCHANGED vars
    BY <2>3, AnswerTypes DEF RescuedOnce, vars, At
  <2>4. QED
    BY <2>1, <2>2, <2>3 DEF Next, UserSays, ToolEnds, Raises, ChatWithTools
<1>3. QED
  BY <1>1, <1>2, Invariance, PTL DEF Spec

----------------------------------------------------------------------------
(* The conversion, message by message *)

\* The turns after each of the first l messages.
Converting(f, p, l) ==
  f = [n \in 0..l |-> IF n = 0 THEN <<>> ELSE After(p, f[n - 1], messages[n])]

LEMMA ConversionIs ==
  ASSUME NEW p, Len(messages) \in Nat
  PROVE  \E f : Converting(f, p, Len(messages)) /\ Converted(p) = f[Len(messages)]
<1>1. \A l \in Nat : \E f : Converting(f, p, l)
  <2> DEFINE T == {l \in Nat : ~ \E f : Converting(f, p, l)}
  <2> SUFFICES ASSUME T # {} PROVE FALSE
    OBVIOUS
  <2>1. PICK l \in T : \A k \in T : l <= k
    <3>1. T \subseteq Nat
      OBVIOUS
    <3>2. QED
      BY <3>1, Least
  <2>2. CASE l = 0
    <3>1. Converting([n \in 0..0 |-> <<>>], p, 0)
      BY DEF Converting
    <3>2. QED
      BY <2>2, <3>1
  <2>3. CASE l # 0
    <3>1. l - 1 \in Nat /\ l \in Nat /\ l - 1 \notin T
      BY <2>1, <2>3
    <3>2. PICK f : Converting(f, p, l - 1)
      BY <3>1
    <3> DEFINE g == [n \in 0..l |-> IF n < l THEN f[n] ELSE After(p, f[n - 1], messages[n])]
    <3>3. \A n \in 0..(l - 1) : f[n] = IF n = 0 THEN <<>> ELSE After(p, f[n - 1], messages[n])
      BY <3>2 DEF Converting
    <3>4. \A n \in 0..l : n # 0 => n - 1 \in 0..(l - 1) /\ g[n - 1] = f[n - 1]
      BY <3>1
    <3>5. \A n \in 0..l : g[n] = IF n = 0 THEN <<>> ELSE After(p, g[n - 1], messages[n])
      <4> SUFFICES ASSUME NEW n \in 0..l
                   PROVE  g[n] = IF n = 0 THEN <<>> ELSE After(p, g[n - 1], messages[n])
        OBVIOUS
      <4>1. CASE n < l
        <5>1. n \in 0..(l - 1) /\ g[n] = f[n]
          BY <3>1, <4>1
        <5> HIDE DEF g
        <5>2. QED
          BY <3>3, <3>4, <5>1
      <4>2. CASE ~(n < l)
        <5>1. n = l /\ n # 0
          BY <2>3, <3>1, <4>2
        <5>2. g[n] = After(p, f[n - 1], messages[n])
          BY <4>2
        <5> HIDE DEF g
        <5>3. QED
          BY <3>4, <5>1, <5>2
      <4>3. QED
        BY <4>1, <4>2
    <3>6. g = [n \in 0..l |-> g[n]]
      OBVIOUS
    <3> HIDE DEF g
    <3>7. Converting(g, p, l)
      BY <3>5, <3>6 DEF Converting
    <3>8. QED
      BY <3>7
  <2>4. QED
    BY <2>2, <2>3
<1>2. \E f : Converting(f, p, Len(messages))
  BY <1>1
<1> DEFINE after == CHOOSE f : Converting(f, p, Len(messages))
<1>3. Converting(after, p, Len(messages))
  BY <1>2
<1>4. Converted(p) = after[Len(messages)]
  BY DEF Converted, Converting
<1>5. QED
  BY <1>3, <1>4

Block ==
  [type : {"text", "string"}, text : Nat]
    \cup [type : {"use"}, id : Id, fn : Functions, of : Place]
    \cup [type : {"result"}, id : Id, of : Place]
    \cup [type : {"result"}, fn : Functions, of : Place]

TurnRecord == [role : {"user", "assistant"}, blocks : Seq(Block)]

UseOf(c) == [type |-> "use", id |-> c.id, fn |-> c.fn, of |-> c.of]

LEMMA UsesIs ==
  ASSUME NEW m \in Message
  PROVE  /\ Uses(m) \in Seq(Block) /\ DOMAIN Uses(m) = DOMAIN m.calls
         /\ (Uses(m) = <<>> <=> m.calls = <<>>)
         /\ \A k \in DOMAIN m.calls : Uses(m)[k] = UseOf(m.calls[k]) /\ Uses(m)[k].type = "use"
<1>1. m.calls \in Seq(Call)
  BY MessageFacts
<1>2. Uses(m) = [k \in 1..Len(m.calls) |-> UseOf(m.calls[k])]
  BY <1>1 DEF Uses, UseOf
<1>3. \A k \in 1..Len(m.calls) : UseOf(m.calls[k]) \in Block
  <2> SUFFICES ASSUME NEW k \in 1..Len(m.calls) PROVE UseOf(m.calls[k]) \in Block
    OBVIOUS
  <2>1. m.calls[k] \in Call
    BY <1>1
  <2>2. UseOf(m.calls[k]) \in [type : {"use"}, id : Id, fn : Functions, of : Place]
    BY <2>1 DEF UseOf, Call
  <2>3. QED
    BY <2>2 DEF Block
<1>4. Uses(m) \in Seq(Block) /\ DOMAIN Uses(m) = DOMAIN m.calls /\ Len(Uses(m)) = Len(m.calls)
  BY <1>1, <1>2, <1>3
<1>5. \A k \in DOMAIN m.calls : Uses(m)[k] = UseOf(m.calls[k]) /\ UseOf(m.calls[k]).type = "use"
  BY <1>1, <1>2 DEF UseOf
<1>6. Uses(m) = <<>> <=> m.calls = <<>>
  BY <1>1, <1>4
<1>7. QED
  BY <1>4, <1>5, <1>6

Silent(m) == m.text = Empty /\ m.calls = <<>>

\* The blocks of a message are its text, its calls or both.
LEMMA BlocksIs ==
  ASSUME NEW p, NEW m \in Message, m.role # "tool", m.role # "assistant" => m.calls = <<>>
  PROVE  /\ Blocks(p, m) \in Seq(Block)
         /\ \A k \in DOMAIN Blocks(p, m) : Blocks(p, m)[k].type # "result"
         /\ {b \in ToSet(Blocks(p, m)) : b.type = "use"} = ToSet(Uses(m))
         /\ Blocks(p, m) = <<>> <=> m.role = "system" \/ (p = "bedrock" /\ Silent(m))
<1> DEFINE bs == Blocks(p, m)
           t == Text(m)
           s == [type |-> "string", text |-> m.text]
           u == Uses(m)
<1>1. /\ u \in Seq(Block) /\ (u = <<>> <=> m.calls = <<>>)
      /\ \A k \in DOMAIN u : u[k].type = "use"
  BY UsesIs
<1>2. t \in Block /\ s \in Block /\ t.type = "text" /\ s.type = "string"
  <2>1. m.text \in Nat
    BY MessageFacts
  <2>2. t \in [type : {"text", "string"}, text : Nat] /\ s \in [type : {"text", "string"}, text : Nat]
    BY <2>1 DEF Text
  <2>3. QED
    BY <2>2 DEF Block, Text
<1>3. \/ bs = <<>> /\ m.role = "system"
      \/ bs = u /\ m.role # "system" /\ m.calls # <<>>
      \/ bs = u /\ m.role # "system" /\ p = "bedrock" /\ m.text = Empty
      \/ bs = <<t>> /\ m.calls = <<>> /\ m.role # "system" /\ (p = "bedrock" => m.text # Empty)
      \/ bs = <<s>> /\ m.calls = <<>> /\ m.role # "system" /\ p # "bedrock"
      \/ bs = <<t>> \o u /\ m.role # "system" /\ (p = "bedrock" => m.text # Empty)
  <2>1. CASE p = "anthropic"
    BY <2>1 DEF Blocks, AnthropicBlocks
  <2>2. CASE p = "bedrock"
    BY <2>2 DEF Blocks, BedrockBlocks
  <2>3. CASE p # "anthropic" /\ p # "bedrock"
    BY <2>3 DEF Blocks, GeminiBlocks
  <2>4. QED
    BY <2>1, <2>2, <2>3
<1>4. m.role = "system" => u = <<>>
  BY <1>1
<1> HIDE DEF bs, t, s, u
<1>5. CASE bs = <<>> /\ m.role = "system"
  BY <1>4, <1>5 DEF bs, u, ToSet
<1>6. CASE bs = u /\ m.role # "system" /\ (m.calls # <<>> \/ (p = "bedrock" /\ m.text = Empty))
  <2>1. {b \in ToSet(bs) : b.type = "use"} = ToSet(u)
    BY <1>1, <1>6 DEF ToSet
  <2>2. bs \in Seq(Block) /\ \A k \in DOMAIN bs : bs[k].type # "result"
    BY <1>1, <1>6
  <2>3. bs = <<>> <=> p = "bedrock" /\ Silent(m)
    BY <1>1, <1>6 DEF Silent
  <2>4. QED
    BY <1>6, <2>1, <2>2, <2>3 DEF bs, u
<1>7. CASE (bs = <<t>> \/ (bs = <<s>> /\ p # "bedrock")) /\ m.calls = <<>> /\ m.role # "system"
           /\ (p = "bedrock" => m.text # Empty)
  <2>1. bs \in Seq(Block) /\ bs # <<>> /\ DOMAIN bs = {1} /\ bs[1].type # "result" /\ bs[1].type # "use"
    <3>1. PICK x \in {t, s} : bs = <<x>>
      BY <1>7
    <3>2. x \in Block /\ x.type # "result" /\ x.type # "use"
      BY <1>2
    <3>3. QED
      BY <3>1, <3>2
  <2>2. u = <<>>
    BY <1>1, <1>7
  <2>3. {b \in ToSet(bs) : b.type = "use"} = ToSet(u)
    BY <2>1, <2>2 DEF ToSet
  <2>4. QED
    BY <1>7, <2>1, <2>3 DEF bs, u, Silent
<1>8. CASE bs = <<t>> \o u /\ m.role # "system" /\ (p = "bedrock" => m.text # Empty)
  <2>1. /\ bs \in Seq(Block) /\ Len(bs) = Len(u) + 1 /\ Len(u) \in Nat /\ bs[1] = t
        /\ \A k \in DOMAIN u : bs[k + 1] = u[k]
    BY <1>1, <1>2, <1>8
  <2>2. DOMAIN bs = 1..(Len(u) + 1) /\ DOMAIN u = 1..Len(u)
    BY <1>1, <2>1
  <2>3. \A k \in DOMAIN bs : k = 1 \/ (k - 1 \in DOMAIN u /\ bs[k] = u[k - 1])
    BY <2>1, <2>2
  <2>4. \A k \in DOMAIN u : k + 1 \in DOMAIN bs
    BY <2>1, <2>2
  <2>5. \A k \in DOMAIN bs : bs[k].type # "result"
    BY <1>1, <1>2, <2>1, <2>3
  <2>6. {b \in ToSet(bs) : b.type = "use"} = ToSet(u)
    BY <1>1, <1>2, <2>1, <2>3, <2>4 DEF ToSet
  <2>7. bs # <<>>
    BY <2>1
  <2>8. QED
    BY <1>8, <2>1, <2>5, <2>6, <2>7 DEF bs, u, Silent
<1>9. QED
  BY <1>3, <1>5, <1>6, <1>7, <1>8

\* One more message adds a block to the last turn, a turn, or nothing.
LEMMA AfterIs ==
  ASSUME NEW p, NEW turns \in Seq(TurnRecord), NEW m \in Message,
         m.role # "assistant" => m.calls = <<>>,
         m.role = "tool" => ResultOf(p, m) \in Block
  PROVE  LET t == After(p, turns, m)
             l == Len(turns)
             joins == turns # <<>> /\ Joins(p, turns[l])
         IN /\ t \in Seq(TurnRecord)
            /\ \/ /\ m.role = "tool" /\ joins /\ Len(t) = l
                  /\ \A i \in 1..(l - 1) : t[i] = turns[i]
                  /\ t[l].role = turns[l].role
                  /\ t[l].blocks = Append(turns[l].blocks, ResultOf(p, m))
               \/ /\ m.role = "tool" /\ ~joins
                  /\ t = Append(turns, [role |-> "user", blocks |-> <<ResultOf(p, m)>>])
               \/ m.role # "tool" /\ Blocks(p, m) = <<>> /\ t = turns
               \/ /\ m.role # "tool" /\ Blocks(p, m) # <<>>
                  /\ t = Append(turns, [role |-> m.role, blocks |-> Blocks(p, m)])
<1> DEFINE t == After(p, turns, m)
           l == Len(turns)
           b == ResultOf(p, m)
           joins == turns # <<>> /\ Joins(p, turns[l])
<1>1. l \in Nat /\ DOMAIN turns = 1..l
  OBVIOUS
<1>2. m.role \in {"system", "user", "assistant", "tool"}
  BY MessageFacts
<1>3. CASE m.role = "tool" /\ joins
  <2>1. t = AddBlock(turns, b)
    BY <1>3 DEF After, Last
  <2>2. t = [turns EXCEPT ![l].blocks = Append(@, b)]
    BY <2>1 DEF AddBlock
  <2>3. l \in 1..l /\ turns[l] \in TurnRecord /\ b \in Block
    BY <1>1, <1>3
  <2> DEFINE r == [turns[l] EXCEPT !.blocks = Append(turns[l].blocks, b)]
  <2>4. t = [turns EXCEPT ![l] = r]
    BY <2>2, <2>3
  <2>5. r.role = turns[l].role /\ r.blocks = Append(turns[l].blocks, b) /\ r \in TurnRecord
    <3>1. Append(turns[l].blocks, b) \in Seq(Block)
      BY <2>3 DEF TurnRecord
    <3>2. QED
      BY <2>3, <3>1 DEF TurnRecord
  <2> HIDE DEF t, r, l, b
  <2>6. t \in Seq(TurnRecord) /\ Len(t) = l /\ t[l] = r /\ \A i \in 1..(l - 1) : t[i] = turns[i]
    <3>1. turns \in [1..l -> TurnRecord]
      BY <1>1 DEF l
    <3>2. t \in [1..l -> TurnRecord] /\ t[l] = r
      BY <2>3, <2>4, <2>5, <3>1
    <3>3. \A i \in 1..(l - 1) : i \in 1..l /\ i # l
      BY <1>1
    <3>4. \A i \in 1..(l - 1) : t[i] = turns[i]
      BY <2>4, <3>1, <3>3
    <3>5. t \in Seq(TurnRecord) /\ Len(t) = l
      BY <1>1, <3>2
    <3>6. QED
      BY <3>2, <3>4, <3>5
  <2>7. QED
    BY <1>3, <2>5, <2>6 DEF t, l, b
<1>4. CASE m.role = "tool" /\ ~joins
  <2>1. t = Append(turns, [role |-> "user", blocks |-> <<b>>])
    BY <1>4 DEF After, Last
  <2>2. [role |-> "user", blocks |-> <<b>>] \in TurnRecord
    BY <1>4 DEF TurnRecord
  <2> HIDE DEF t, b
  <2>3. t \in Seq(TurnRecord)
    BY <2>1, <2>2
  <2>4. QED
    BY <1>4, <2>1, <2>3 DEF t, b
<1>5. CASE m.role # "tool" /\ Blocks(p, m) = <<>>
  BY <1>5 DEF After
<1>6. CASE m.role # "tool" /\ Blocks(p, m) # <<>>
  <2>1. t = Append(turns, [role |-> m.role, blocks |-> Blocks(p, m)])
    BY <1>6 DEF After
  <2>2. m.role \in {"user", "assistant"} /\ Blocks(p, m) \in Seq(Block)
    BY <1>2, <1>6, BlocksIs
  <2>3. [role |-> m.role, blocks |-> Blocks(p, m)] \in TurnRecord
    BY <2>2 DEF TurnRecord
  <2> HIDE DEF t
  <2>4. t \in Seq(TurnRecord)
    BY <2>1, <2>3
  <2>5. QED
    BY <1>6, <2>1, <2>4 DEF t
<1>7. QED
  BY <1>3, <1>4, <1>5, <1>6

\* Gemini's name of an id: that of its call in the latest message that has one.
LEMMA NameOfIs ==
  ASSUME messages \in Seq(Message), Placed, NEW c \in Calls
  PROVE  \E d \in Calls : /\ d.id = c.id /\ NameOf(c.id) = d.fn
                          /\ \A e \in Calls : e.id = c.id => e.of[1] <= d.of[1]
<1> DEFINE l == Len(messages)
           named == {e \in Calls : e.id = c.id}
           T == {l - e.of[1] : e \in named}
<1>1. l \in Nat /\ DOMAIN messages = 1..l
  OBVIOUS
<1>2. \A e \in Calls : e.of[1] \in 1..l
  <2> SUFFICES ASSUME NEW e \in Calls PROVE e.of[1] \in 1..l
    OBVIOUS
  <2>1. PICK i \in DOMAIN messages : \E k \in DOMAIN messages[i].calls : e = messages[i].calls[k]
    BY DEF Calls, ToSet
  <2>2. PICK k \in DOMAIN messages[i].calls : e = messages[i].calls[k]
    BY <2>1
  <2>3. e.of = <<i, k>>
    BY <2>2 DEF Placed
  <2>4. QED
    BY <1>1, <2>3
<1>3. T \subseteq Nat /\ T # {}
  BY <1>1, <1>2
<1>4. PICK x \in T : \A y \in T : x <= y
  <2> HIDE DEF T
  <2>1. QED
    BY <1>3, Least
<1>5. PICK d \in named : x = l - d.of[1]
  OBVIOUS
<1>6. \A e \in named : e.of[1] <= d.of[1]
  <2> SUFFICES ASSUME NEW e \in named PROVE e.of[1] <= d.of[1]
    OBVIOUS
  <2>1. l - d.of[1] <= l - e.of[1]
    BY <1>4, <1>5
  <2>2. e.of[1] \in 1..l /\ d.of[1] \in 1..l
    BY <1>2
  <2> HIDE DEF l
  <2>3. QED
    BY <1>1, <2>1, <2>2
<1> DEFINE best == CHOOSE e \in named : \A g \in named : g.of[1] <= e.of[1]
<1>7. best \in named /\ \A g \in named : g.of[1] <= best.of[1]
  <2> HIDE DEF named
  <2>1. QED
    BY <1>5, <1>6
<1>8. NameOf(c.id) = best.fn
  BY DEF NameOf
<1> HIDE DEF best
<1>9. QED
  BY <1>7, <1>8

\* A result is that of a call.
LEMMA ResultOfACall ==
  ASSUME messages \in Seq(Message), Conversation,
         NEW i \in DOMAIN messages, messages[i].role = "tool"
  PROVE  \E c \in Calls : c.id = messages[i].id /\ c.of = messages[i].of
<1>1. PICK a \in DOMAIN messages : ResultFor(i, a)
  BY DEF Conversation, Traced
<1>2. PICK k \in DOMAIN messages[a].calls :
        messages[i].of = <<a, k>> /\ messages[i].id = messages[a].calls[k].id
  BY <1>1 DEF ResultFor
<1>3. messages[a].calls[k] \in Calls /\ messages[a].calls[k].of = <<a, k>>
  BY DEF Calls, ToSet, Conversation, Placed
<1>4. QED
  BY <1>2, <1>3

LEMMA ResultsAreBlocks ==
  ASSUME messages \in Seq(Message), Conversation, NEW p,
         NEW i \in DOMAIN messages, messages[i].role = "tool"
  PROVE  ResultOf(p, messages[i]) \in Block /\ ResultOf(p, messages[i]).type = "result"
<1> DEFINE m == messages[i]
<1>1. m.id \in Id /\ m.of \in Place
  <2>1. m \in Message
    OBVIOUS
  <2>2. QED
    BY <2>1, MessageFacts
<1>2. NameOf(m.id) \in Functions
  <2>1. PICK c \in Calls : c.id = m.id
    BY ResultOfACall
  <2>2. PICK d \in Calls : NameOf(c.id) = d.fn
    BY <2>1, NameOfIs DEF Conversation
  <2>3. PICK j \in DOMAIN messages : \E k \in DOMAIN messages[j].calls : d = messages[j].calls[k]
    BY DEF Calls, ToSet
  <2>4. messages[j] \in Message
    OBVIOUS
  <2>5. messages[j].calls \in Seq(Call)
    BY <2>4, MessageFacts
  <2>6. d \in Call
    BY <2>3, <2>5
  <2>7. QED
    BY <2>1, <2>2, <2>6 DEF Call
<1>3. [type |-> "result", id |-> m.id, of |-> m.of] \in [type : {"result"}, id : Id, of : Place]
  BY <1>1
<1>4. [type |-> "result", fn |-> NameOf(m.id), of |-> m.of] \in [type : {"result"}, fn : Functions, of : Place]
  BY <1>1, <1>2
<1>5. QED
  BY <1>3, <1>4 DEF ResultOf, Result, NamedResult, Block

\* A conversion goes through sequences of turns.
LEMMA TurnsTyped ==
  ASSUME messages \in Seq(Message), Conversation, NEW p, NEW f,
         Converting(f, p, Len(messages))
  PROVE  /\ f[0] = <<>>
         /\ \A n \in 0..Len(messages) : f[n] \in Seq(TurnRecord)
         /\ \A n \in 1..Len(messages) :
              /\ f[n] = After(p, f[n - 1], messages[n]) /\ n - 1 \in 0..Len(messages)
              /\ messages[n] \in Message
              /\ messages[n].role # "assistant" => messages[n].calls = <<>>
              /\ messages[n].role = "tool" => ResultOf(p, messages[n]) \in Block
<1> DEFINE l == Len(messages)
<1>1. l \in Nat /\ DOMAIN messages = 1..l
  OBVIOUS
<1> HIDE DEF l
<1>2. f[0] = <<>> /\ \A n \in 1..l : f[n] = After(p, f[n - 1], messages[n]) /\ n - 1 \in 0..l
  <2>1. f = [n \in 0..l |-> IF n = 0 THEN <<>> ELSE After(p, f[n - 1], messages[n])]
    BY DEF Converting, l
  <2>2. \A n \in 0..l : f[n] = IF n = 0 THEN <<>> ELSE After(p, f[n - 1], messages[n])
    BY <2>1
  <2>3. 0 \in 0..l /\ \A n \in 1..l : n \in 0..l /\ n # 0 /\ n - 1 \in 0..l
    BY <1>1
  <2>4. QED
    BY <2>2, <2>3
<1>3. \A n \in 1..l :
        /\ messages[n] \in Message
        /\ messages[n].role # "assistant" => messages[n].calls = <<>>
        /\ messages[n].role = "tool" => ResultOf(p, messages[n]) \in Block
  BY <1>1, ResultsAreBlocks DEF Conversation, Spoke
<1> DEFINE T == {n \in 0..l : f[n] \notin Seq(TurnRecord)}
<1>4. T = {}
  <2> SUFFICES ASSUME T # {} PROVE FALSE
    OBVIOUS
  <2>1. PICK n \in T : \A k \in T : n <= k
    <3>1. T \subseteq Nat
      BY <1>1
    <3>2. QED
      BY <3>1, Least
  <2>2. n # 0
    <3>1. <<>> \in Seq(TurnRecord)
      OBVIOUS
    <3>2. QED
      BY <1>2, <3>1
  <2>3. n \in 1..l /\ n - 1 \in 0..l /\ ~(n <= n - 1)
    BY <1>1, <2>2
  <2>4. f[n - 1] \in Seq(TurnRecord)
    BY <2>1, <2>3
  <2>5. After(p, f[n - 1], messages[n]) \in Seq(TurnRecord)
    BY <1>3, <2>3, <2>4, AfterIs
  <2>6. QED
    BY <1>2, <2>3, <2>5
<1>5. QED
  BY <1>2, <1>3, <1>4 DEF l

----------------------------------------------------------------------------
(* The names of the results *)

\* A block of a turn is in the turn before or is the new message's.
LEMMA AfterBlocks ==
  ASSUME NEW p, NEW turns \in Seq(TurnRecord), NEW m \in Message,
         m.role # "assistant" => m.calls = <<>>,
         m.role = "tool" => ResultOf(p, m) \in Block,
         NEW i \in DOMAIN After(p, turns, m), NEW k \in DOMAIN After(p, turns, m)[i].blocks,
         After(p, turns, m)[i].blocks[k].type = "result"
  PROVE  \/ /\ i \in DOMAIN turns /\ k \in DOMAIN turns[i].blocks
            /\ turns[i].blocks[k] = After(p, turns, m)[i].blocks[k]
         \/ m.role = "tool" /\ After(p, turns, m)[i].blocks[k] = ResultOf(p, m)
<1> DEFINE t == After(p, turns, m)
           l == Len(turns)
           b == ResultOf(p, m)
<1>1. l \in Nat /\ DOMAIN turns = 1..l
  OBVIOUS
<1>2. CASE m.role = "tool" /\ turns # <<>> /\ Joins(p, turns[l])
  <2>1. /\ t \in Seq(TurnRecord) /\ Len(t) = l /\ \A j \in 1..(l - 1) : t[j] = turns[j]
        /\ t[l].blocks = Append(turns[l].blocks, b)
    BY <1>2, AfterIs
  <2>2. l \in 1..l /\ turns[l] \in TurnRecord
    BY <1>1, <1>2
  <2>3. turns[l].blocks \in Seq(Block) /\ b \in Block
    BY <1>2, <2>2 DEF TurnRecord
  <2> HIDE DEF t, b
  <2>4. i \in 1..l /\ (i = l \/ i \in 1..(l - 1))
    BY <1>1, <2>1 DEF t
  <2>5. CASE i = l
    <3> DEFINE s == turns[l].blocks
    <3>1. k \in 1..(Len(s) + 1) /\ Len(s) \in Nat /\ DOMAIN s = 1..Len(s)
      BY <2>1, <2>3, <2>5 DEF t
    <3>2. k = Len(s) + 1 \/ k \in DOMAIN s
      BY <3>1
    <3>3. Append(s, b)[Len(s) + 1] = b /\ \A j \in DOMAIN s : Append(s, b)[j] = s[j]
      BY <2>3
    <3>4. QED
      BY <1>1, <1>2, <2>1, <2>2, <2>5, <3>2, <3>3 DEF t, b
  <2>6. CASE i \in 1..(l - 1)
    BY <1>1, <2>1, <2>4, <2>6 DEF t
  <2>7. QED
    BY <2>4, <2>5, <2>6
<1>3. CASE m.role = "tool" /\ ~(turns # <<>> /\ Joins(p, turns[l]))
  <2> DEFINE r == [role |-> "user", blocks |-> <<b>>]
  <2>1. t = Append(turns, r)
    BY <1>3, AfterIs
  <2>2. DOMAIN r.blocks = {1} /\ r.blocks[1] = b
    OBVIOUS
  <2> HIDE DEF r, b
  <2>3. DOMAIN t = 1..(l + 1) /\ t[l + 1] = r /\ \A j \in 1..l : t[j] = turns[j]
    BY <2>1
  <2> HIDE DEF t
  <2>4. i \in 1..(l + 1) /\ (i = l + 1 \/ i \in 1..l)
    BY <1>1, <2>3 DEF t
  <2>5. QED
    BY <1>1, <1>3, <2>2, <2>3, <2>4 DEF t, b
<1>4. CASE m.role # "tool" /\ Blocks(p, m) = <<>>
  BY <1>4, AfterIs
<1>5. CASE m.role # "tool" /\ Blocks(p, m) # <<>>
  <2> DEFINE r == [role |-> m.role, blocks |-> Blocks(p, m)]
  <2>1. t = Append(turns, r)
    BY <1>5, AfterIs
  <2>2. \A j \in DOMAIN r.blocks : r.blocks[j].type # "result"
    BY <1>5, BlocksIs
  <2> HIDE DEF r
  <2>3. DOMAIN t = 1..(l + 1) /\ t[l + 1] = r /\ \A j \in 1..l : t[j] = turns[j]
    BY <2>1
  <2> HIDE DEF t
  <2>4. i \in 1..(l + 1) /\ (i = l + 1 \/ i \in 1..l)
    BY <1>1, <2>3 DEF t
  <2>5. QED
    BY <1>1, <2>2, <2>3, <2>4 DEF t
<1>6. QED
  BY <1>2, <1>3, <1>4, <1>5

\* Every result block of the turns is the result of some message.
ResultsOfMessages(p, turns) ==
  \A i \in DOMAIN turns : \A k \in DOMAIN turns[i].blocks :
    turns[i].blocks[k].type = "result" =>
      \E j \in DOMAIN messages :
        messages[j].role = "tool" /\ turns[i].blocks[k] = ResultOf(p, messages[j])

LEMMA ConvertedResults ==
  ASSUME messages \in Seq(Message), Conversation, NEW p
  PROVE  Converted(p) \in Seq(TurnRecord) /\ ResultsOfMessages(p, Converted(p))
<1> DEFINE l == Len(messages)
<1>1. l \in Nat /\ DOMAIN messages = 1..l
  OBVIOUS
<1>2. PICK f : Converting(f, p, l) /\ Converted(p) = f[l]
  BY <1>1, ConversionIs
<1>3. /\ f[0] = <<>>
      /\ \A n \in 0..l : f[n] \in Seq(TurnRecord)
      /\ \A n \in 1..l :
           /\ f[n] = After(p, f[n - 1], messages[n]) /\ n - 1 \in 0..l
           /\ messages[n] \in Message
           /\ messages[n].role # "assistant" => messages[n].calls = <<>>
           /\ messages[n].role = "tool" => ResultOf(p, messages[n]) \in Block
  BY <1>2, TurnsTyped
<1> HIDE DEF l
<1> DEFINE T == {n \in 0..l : ~ ResultsOfMessages(p, f[n])}
<1>4. T = {}
  <2> SUFFICES ASSUME T # {} PROVE FALSE
    OBVIOUS
  <2>1. PICK n \in T : \A k \in T : n <= k
    <3>1. T \subseteq Nat
      BY <1>1
    <3>2. QED
      BY <3>1, Least
  <2>2. n # 0
    <3>1. ResultsOfMessages(p, <<>>)
      BY DEF ResultsOfMessages
    <3>2. QED
      BY <1>3, <3>1
  <2>3. n \in 1..l /\ n - 1 \in 0..l /\ ~(n <= n - 1)
    BY <1>1, <2>2
  <2>4. ResultsOfMessages(p, f[n - 1])
    BY <2>1, <2>3
  <2> DEFINE turns == f[n - 1]
             m == messages[n]
  <2>5. /\ f[n] = After(p, turns, m) /\ turns \in Seq(TurnRecord) /\ m \in Message
        /\ m.role # "assistant" => m.calls = <<>>
        /\ m.role = "tool" => ResultOf(p, m) \in Block
    BY <1>3, <2>3
  <2>6. n \in DOMAIN messages
    BY <1>1, <2>3
  <2> HIDE DEF turns, m, T
  <2>7. ResultsOfMessages(p, After(p, turns, m))
    <3> SUFFICES ASSUME NEW i \in DOMAIN After(p, turns, m),
                        NEW k \in DOMAIN After(p, turns, m)[i].blocks,
                        After(p, turns, m)[i].blocks[k].type = "result"
                 PROVE  \E j \in DOMAIN messages :
                          /\ messages[j].role = "tool"
                          /\ After(p, turns, m)[i].blocks[k] = ResultOf(p, messages[j])
      BY DEF ResultsOfMessages
    <3>1. \/ /\ i \in DOMAIN turns /\ k \in DOMAIN turns[i].blocks
             /\ turns[i].blocks[k] = After(p, turns, m)[i].blocks[k]
          \/ m.role = "tool" /\ After(p, turns, m)[i].blocks[k] = ResultOf(p, m)
      BY <2>5, AfterBlocks
    <3>2. CASE /\ i \in DOMAIN turns /\ k \in DOMAIN turns[i].blocks
               /\ turns[i].blocks[k] = After(p, turns, m)[i].blocks[k]
      BY <2>4, <3>2 DEF turns, ResultsOfMessages
    <3>3. CASE m.role = "tool" /\ After(p, turns, m)[i].blocks[k] = ResultOf(p, m)
      BY <2>6, <3>3 DEF m
    <3>4. QED
      BY <3>1, <3>2, <3>3
  <2>8. QED
    BY <2>1, <2>5, <2>7 DEF T
<1>5. l \in 0..l
  BY <1>1
<1>6. QED
  BY <1>2, <1>3, <1>4, <1>5 DEF l

LEMMA CallsDiffer ==
  ASSUME Placed, NEW c \in Calls, NEW d \in Calls
  PROVE  /\ c.of = d.of => c = d
         /\ c.id = d.id /\ c.of[1] = d.of[1] => c = d
<1>1. PICK a \in DOMAIN messages : \E k \in DOMAIN messages[a].calls : c = messages[a].calls[k]
  BY DEF Calls, ToSet
<1>2. PICK k \in DOMAIN messages[a].calls : c = messages[a].calls[k]
  BY <1>1
<1>3. PICK b \in DOMAIN messages : \E j \in DOMAIN messages[b].calls : d = messages[b].calls[j]
  BY DEF Calls, ToSet
<1>4. PICK j \in DOMAIN messages[b].calls : d = messages[b].calls[j]
  BY <1>3
<1>5. c.of = <<a, k>> /\ d.of = <<b, j>>
  BY <1>2, <1>4 DEF Placed
<1>6. c.of[1] = a /\ c.of[2] = k /\ d.of[1] = b /\ d.of[2] = j
  BY <1>5
<1>7. ASSUME a = b, c.id = d.id PROVE k = j
  BY <1>2, <1>4, <1>7 DEF Placed
<1>8. QED
  BY <1>2, <1>4, <1>6, <1>7

LEMMA NamedLatest == Inv => LatestNamed
<1> SUFFICES ASSUME Inv, By("gemini"), NEW b \in WronglyNamed
             PROVE  \E c, d \in Calls : c.of = b.of /\ d.id = c.id /\ d.of[1] > c.of[1]
  BY DEF LatestNamed
<1>1. messages \in Seq(Message) /\ Conversation
  BY DEF Inv, TypeOK
<1>2. request.turns = Converted("gemini")
  <2>1. request # NoRequest
    BY DEF By, NoRequest
  <2>2. QED
    BY <2>1 DEF Inv, Requested, Turns, By
<1>3. PICK t \in ToSet(request.turns) : b \in BlocksOf(t, "result") /\ b.fn # FnOf(b.of)
  BY DEF WronglyNamed
<1>4. PICK i \in DOMAIN request.turns : t = request.turns[i]
  BY <1>3 DEF ToSet
<1>5. PICK k \in DOMAIN t.blocks : b = t.blocks[k] /\ b.type = "result"
  BY <1>3 DEF BlocksOf, ToSet
<1>6. ResultsOfMessages("gemini", request.turns)
  BY <1>1, <1>2, ConvertedResults
<1>7. PICK j \in DOMAIN messages : messages[j].role = "tool" /\ b = ResultOf("gemini", messages[j])
  BY <1>4, <1>5, <1>6 DEF ResultsOfMessages
<1>8. b.of = messages[j].of /\ b.fn = NameOf(messages[j].id)
  BY <1>7 DEF ResultOf, NamedResult
<1>9. PICK c \in Calls : c.id = messages[j].id /\ c.of = messages[j].of
  BY <1>1, <1>7, ResultOfACall
<1>10. FnOf(b.of) = c.fn
  <2> DEFINE e == CHOOSE e \in Calls : e.of = b.of
  <2>1. e \in Calls /\ e.of = b.of
    BY <1>8, <1>9
  <2>2. FnOf(b.of) = e.fn
    BY DEF FnOf
  <2> HIDE DEF e
  <2>3. QED
    BY <1>1, <1>8, <1>9, <2>1, <2>2, CallsDiffer DEF Conversation
<1>11. PICK d \in Calls : /\ d.id = c.id /\ NameOf(c.id) = d.fn
                          /\ \A e \in Calls : e.id = c.id => e.of[1] <= d.of[1]
  BY <1>1, NameOfIs DEF Conversation
<1>12. c.of[1] <= d.of[1] /\ c # d
  BY <1>3, <1>8, <1>9, <1>10, <1>11
<1>13. c.of[1] # d.of[1]
  BY <1>1, <1>11, <1>12, CallsDiffer DEF Conversation
<1>14. c.of[1] \in Nat /\ d.of[1] \in Nat
  <2>1. \A e \in Calls : e.of \in Nat \X Nat
    <3> SUFFICES ASSUME NEW e \in Calls PROVE e.of \in Nat \X Nat
      OBVIOUS
    <3>1. PICK a \in DOMAIN messages : \E n \in DOMAIN messages[a].calls : e = messages[a].calls[n]
      BY DEF Calls, ToSet
    <3>2. messages[a] \in Message
      BY <1>1
    <3>3. messages[a].calls \in Seq(Call)
      BY <3>2, MessageFacts
    <3>4. e \in Call
      BY <3>1, <3>3
    <3>5. QED
      BY <3>4 DEF Call, Place
  <2>2. QED
    BY <2>1
<1>15. d.of[1] > c.of[1]
  BY <1>12, <1>13, <1>14
<1>16. QED
  BY <1>8, <1>9, <1>11, <1>15

\* A tool result goes to Gemini under the name of the function it is the result of,
\* as long as no later answer gave the same id to another call
\* (gemini_backend.py:136-178).
THEOREM ResultNames == Spec => []LatestNamed
BY Invariance, NamedLatest, PTL

----------------------------------------------------------------------------
(* Turns of calls and turns of results, for Anthropic and Bedrock *)

RoleAt(n) == IF n = 0 THEN "system" ELSE messages[n].role

ResultIds(a, n) == {<<messages[j].id, messages[j].of>> : j \in (a + 1)..n}

\* The last turn but one calls what message a calls, and the last one has the
\* results since.
Gathers(turns, n, a) ==
  /\ messages[a].role = "assistant"
  /\ \A j \in (a + 1)..n : messages[j].role = "tool"
  /\ Len(turns) > 1
  /\ BlocksOf(turns[Len(turns) - 1], "use") = ToSet(Uses(messages[a]))
  /\ \A b \in ToSet(turns[Len(turns)].blocks) : b.type = "result"
  /\ Ids(ToSet(turns[Len(turns)].blocks)) = ResultIds(a, n)

\* A message of the assistant that Bedrock leaves out.
Skipped(p, n) == messages[n].role = "assistant" /\ Blocks(p, messages[n]) = <<>>

\* How the last of the turns stands to the last of n messages.
Standing(p, turns, n) ==
  LET last == turns[Len(turns)]
  IN /\ RoleAt(n) = "system" <=> turns = <<>>
     /\ RoleAt(n) = "user" \/ (RoleAt(n) = "assistant" /\ Skipped(p, n)) =>
          last.role = "user" /\ BlocksOf(last, "use") = {}
     /\ RoleAt(n) = "assistant" /\ ~Skipped(p, n) =>
          last.role = "assistant" /\ BlocksOf(last, "use") = ToSet(Uses(messages[n]))
     /\ RoleAt(n) = "tool" => last.role = "user" /\ \E a \in 1..(n - 1) : Gathers(turns, n, a)

\* Message m comes after the turns, of a history of n messages before it.
Comes(p, turns, n, t) ==
  LET m == messages[n]
      l == Len(turns)
      new(role, blocks) == [role |-> role, blocks |-> blocks]
  IN \/ n = 1 /\ m.role = "system" /\ t = turns
     \/ Skipped(p, n) /\ RoleAt(n - 1) \in {"user", "tool"} /\ t = turns
     \/ /\ m.role \in {"user", "assistant"} /\ ~Skipped(p, n) /\ Turn(RoleAt(n - 1), m.role)
        /\ t = Append(turns, new(m.role, Blocks(p, m)))
     \/ /\ m.role = "tool" /\ RoleAt(n - 1) = "assistant" /\ n - 1 \in DOMAIN messages
        /\ ~Skipped(p, n - 1) /\ t = Append(turns, new("user", <<Result(m)>>))
     \/ /\ m.role = "tool" /\ RoleAt(n - 1) = "tool" /\ Len(t) = l
        /\ \A i \in 1..(l - 1) : t[i] = turns[i]
        /\ t[l].role = turns[l].role
        /\ t[l].blocks = Append(turns[l].blocks, Result(m))

LEMMA StepCases ==
  ASSUME messages \in Seq(Message), Conversation, NEW p \in {"anthropic", "bedrock"},
         NEW n \in DOMAIN messages, NEW turns \in Seq(TurnRecord), Standing(p, turns, n - 1)
  PROVE  /\ After(p, turns, messages[n]) \in Seq(TurnRecord)
         /\ Comes(p, turns, n, After(p, turns, messages[n]))
<1> DEFINE m == messages[n]
           t == After(p, turns, m)
           l == Len(turns)
           joins == turns # <<>> /\ Joins(p, turns[l])
<1>1. /\ n \in Nat /\ n # 0 /\ m \in Message /\ l \in Nat
      /\ n - 1 = 0 \/ n - 1 \in DOMAIN messages
  OBVIOUS
<1>2. m.role # "assistant" => m.calls = <<>>
  BY DEF Conversation, Spoke
<1>3. ResultOf(p, m) = Result(m)
  BY DEF ResultOf
<1>4. m.role = "tool" => Result(m) \in Block
  BY <1>3, ResultsAreBlocks
<1>5. /\ t \in Seq(TurnRecord)
      /\ \/ /\ m.role = "tool" /\ joins /\ Len(t) = l
            /\ \A i \in 1..(l - 1) : t[i] = turns[i]
            /\ t[l].role = turns[l].role
            /\ t[l].blocks = Append(turns[l].blocks, Result(m))
         \/ /\ m.role = "tool" /\ ~joins
            /\ t = Append(turns, [role |-> "user", blocks |-> <<Result(m)>>])
         \/ m.role # "tool" /\ Blocks(p, m) = <<>> /\ t = turns
         \/ /\ m.role # "tool" /\ Blocks(p, m) # <<>>
            /\ t = Append(turns, [role |-> m.role, blocks |-> Blocks(p, m)])
  BY <1>1, <1>2, <1>3, <1>4, AfterIs
<1>6. m.role \in {"system", "user", "assistant", "tool"}
  BY <1>1, MessageFacts
<1>7. IF n = 1 THEN m.role \in {"system", "user"} ELSE Turn(RoleAt(n - 1), m.role)
  BY <1>1 DEF Conversation, Ordered, RoleAt
<1>8. m.role = "system" => n = 1
  BY <1>7 DEF Turn
<1>9. m.role # "system" => Turn(RoleAt(n - 1), m.role)
  BY <1>6, <1>7 DEF Turn, RoleAt
<1>10. m.role # "tool" => (Blocks(p, m) = <<>> <=> m.role = "system" \/ (p = "bedrock" /\ Silent(m)))
  BY <1>1, <1>2, BlocksIs
<1>11. m.role = "user" => Blocks(p, m) # <<>>
  BY <1>10 DEF Conversation, Spoke, Silent
<1> HIDE DEF m, t, l
<1>12. CASE m.role = "tool"
  <2>1. RoleAt(n - 1) \in {"assistant", "tool"}
    BY <1>9, <1>12 DEF Turn
  <2>2. n - 1 \in DOMAIN messages /\ RoleAt(n - 1) = messages[n - 1].role
    BY <1>1, <2>1 DEF RoleAt
  <2>3. turns # <<>>
    BY <2>1 DEF Standing
  <2>4. CASE RoleAt(n - 1) = "assistant"
    <3>1. messages[n - 1].calls # <<>>
      <4>1. PICK a \in DOMAIN messages : ResultFor(n, a)
        BY <1>12 DEF Conversation, Traced, m
      <4>2. a < n /\ (\A j \in (a + 1)..n : messages[j].role = "tool") /\ messages[a].calls # <<>>
        BY <4>1 DEF ResultFor
      <4>3. a = n - 1 \/ n - 1 \in (a + 1)..n
        BY <1>1, <4>2
      <4>4. a = n - 1
        BY <2>2, <2>4, <4>2, <4>3
      <4>5. QED
        BY <4>2, <4>4
    <3>2. messages[n - 1] \in Message /\ messages[n - 1].role = "assistant"
      BY <2>2, <2>4
    <3>3. ~Skipped(p, n - 1)
      BY <3>1, <3>2, BlocksIs DEF Skipped, Silent
    <3>4. turns[l].role = "assistant"
      BY <2>4, <3>3 DEF Standing, l
    <3>5. ~joins
      BY <3>4 DEF Joins, Listed, Results
    <3>6. QED
      BY <1>5, <1>12, <2>2, <2>4, <3>3, <3>5 DEF Comes, m, t
  <2>5. CASE RoleAt(n - 1) = "tool"
    <3>1. turns[l].role = "user" /\ \A b \in ToSet(turns[l].blocks) : b.type = "result"
      BY <2>5 DEF Standing, Gathers, l
    <3>2. \A i \in DOMAIN turns[l].blocks : turns[l].blocks[i].type = "result"
      BY <3>1 DEF ToSet
    <3>3. joins
      BY <2>3, <3>1, <3>2 DEF Joins, Listed, Results
    <3>4. QED
      BY <1>5, <1>12, <2>5, <3>3 DEF Comes, m, t, l
  <2>6. QED
    BY <2>1, <2>4, <2>5
<1>13. CASE m.role = "system"
  BY <1>5, <1>8, <1>10, <1>13 DEF Comes, m, t
<1>14. CASE m.role \in {"user", "assistant"}
  <2>1. Turn(RoleAt(n - 1), m.role)
    BY <1>9, <1>14
  <2>2. CASE Skipped(p, n)
    <3>1. m.role = "assistant" /\ Blocks(p, m) = <<>>
      BY <2>2 DEF Skipped, m
    <3>2. t = turns /\ RoleAt(n - 1) \in {"user", "tool"}
      BY <1>5, <2>1, <3>1 DEF Turn
    <3>3. QED
      BY <1>5, <2>2, <3>2 DEF Comes, m, t
  <2>3. CASE ~Skipped(p, n)
    <3>1. Blocks(p, m) # <<>>
      BY <1>11, <1>14, <2>3 DEF Skipped, m
    <3>2. t = Append(turns, [role |-> m.role, blocks |-> Blocks(p, m)])
      BY <1>5, <1>14, <3>1
    <3>3. QED
      BY <1>5, <1>14, <2>1, <2>3, <3>2 DEF Comes, m, t
  <2>4. QED
    BY <2>2, <2>3
<1>15. QED
  BY <1>6, <1>12, <1>13, <1>14

LEMMA Appended ==
  ASSUME NEW S, NEW s \in Seq(S), NEW x \in S
  PROVE  LET t == Append(s, x)
         IN /\ t \in Seq(S) /\ Len(s) \in Nat /\ Len(t) = Len(s) + 1 /\ t # <<>>
            /\ DOMAIN s = 1..Len(s) /\ DOMAIN t = 1..(Len(s) + 1)
            /\ t[Len(s) + 1] = x /\ t[Len(t)] = x
            /\ \A i \in 1..Len(s) : t[i] = s[i]
            /\ ToSet(t) = ToSet(s) \cup {x}
<1> DEFINE t == Append(s, x)
<1>1. /\ t \in Seq(S) /\ Len(s) \in Nat /\ Len(t) = Len(s) + 1
      /\ DOMAIN s = 1..Len(s) /\ DOMAIN t = 1..(Len(s) + 1)
      /\ t[Len(s) + 1] = x /\ \A i \in 1..Len(s) : t[i] = s[i]
  OBVIOUS
<1>2. t # <<>>
  BY <1>1
<1> HIDE DEF t
<1>3. \A i \in 1..(Len(s) + 1) : i = Len(s) + 1 \/ i \in 1..Len(s)
  BY <1>1
<1>4. 1..Len(s) \subseteq 1..(Len(s) + 1) /\ Len(s) + 1 \in 1..(Len(s) + 1)
  BY <1>1
<1>5. ToSet(t) = ToSet(s) \cup {x}
  BY <1>1, <1>3, <1>4 DEF ToSet
<1>6. QED
  BY <1>1, <1>2, <1>5 DEF t

LEMMA UsesOfResults ==
  ASSUME NEW turn, \A b \in ToSet(turn.blocks) : b.type = "result"
  PROVE  BlocksOf(turn, "use") = {}
BY DEF BlocksOf

LEMMA IdsGrow ==
  ASSUME NEW S, NEW b
  PROVE  Ids(S \cup {b}) = Ids(S) \cup {<<b.id, b.of>>}
BY DEF Ids

LEMMA StandingKept ==
  ASSUME messages \in Seq(Message), Conversation, NEW p \in {"anthropic", "bedrock"},
         NEW n \in DOMAIN messages, NEW turns \in Seq(TurnRecord), Standing(p, turns, n - 1),
         NEW t \in Seq(TurnRecord), Comes(p, turns, n, t)
  PROVE  Standing(p, t, n)
<1> DEFINE m == messages[n]
           l == Len(turns)
           last == turns[l]
<1>1. /\ n \in Nat /\ n # 0 /\ m \in Message /\ l \in Nat /\ RoleAt(n) = m.role
  BY DEF RoleAt
<1>2. m.role # "assistant" => m.calls = <<>>
  BY DEF Conversation, Spoke
<1> HIDE DEF m, l
<1>3. CASE n = 1 /\ m.role = "system" /\ t = turns
  <2>1. turns = <<>>
    BY <1>3 DEF Standing, RoleAt
  <2>2. QED
    BY <1>1, <1>3, <2>1 DEF Standing
<1>4. CASE Skipped(p, n) /\ RoleAt(n - 1) \in {"user", "tool"} /\ t = turns
  <2>1. m.role = "assistant" /\ turns # <<>>
    BY <1>4 DEF Skipped, Standing, m
  <2>2. last.role = "user" /\ BlocksOf(last, "use") = {}
    <3>1. CASE RoleAt(n - 1) = "user"
      BY <3>1 DEF Standing, l
    <3>2. CASE RoleAt(n - 1) = "tool"
      <4>1. last.role = "user" /\ \A b \in ToSet(last.blocks) : b.type = "result"
        BY <3>2 DEF Standing, Gathers, l
      <4>2. QED
        BY <4>1, UsesOfResults
    <3>3. QED
      BY <1>4, <3>1, <3>2
  <2>3. QED
    BY <1>1, <1>4, <2>1, <2>2 DEF Standing, l
<1>5. CASE /\ m.role \in {"user", "assistant"} /\ ~Skipped(p, n)
           /\ t = Append(turns, [role |-> m.role, blocks |-> Blocks(p, m)])
  <2> DEFINE r == [role |-> m.role, blocks |-> Blocks(p, m)]
  <2>1. r.role = m.role /\ BlocksOf(r, "use") = ToSet(Uses(m))
    BY <1>1, <1>2, <1>5, BlocksIs DEF BlocksOf
  <2>2. Blocks(p, m) \in Seq(Block)
    BY <1>1, <1>2, <1>5, BlocksIs
  <2>3. r \in TurnRecord
    BY <1>5, <2>2 DEF TurnRecord
  <2>4. m.role = "user" => ToSet(Uses(m)) = {}
    BY <1>1, <1>2, UsesIs DEF ToSet
  <2> HIDE DEF r
  <2>5. t = Append(turns, r)
    BY <1>5 DEF r
  <2>6. t # <<>> /\ t[Len(t)] = r
    BY <2>3, <2>5, Appended
  <2>7. QED
    BY <1>1, <1>5, <2>1, <2>4, <2>6 DEF Standing, m
<1>6. CASE /\ m.role = "tool" /\ RoleAt(n - 1) = "assistant" /\ n - 1 \in DOMAIN messages
           /\ ~Skipped(p, n - 1)
           /\ t = Append(turns, [role |-> "user", blocks |-> <<Result(m)>>])
  <2> DEFINE r == [role |-> "user", blocks |-> <<Result(m)>>]
  <2>1. turns # <<>> /\ BlocksOf(last, "use") = ToSet(Uses(messages[n - 1]))
    BY <1>6 DEF Standing, l
  <2>2. Result(m) \in Block /\ Result(m).type = "result"
    BY <1>6, ResultsAreBlocks DEF m, ResultOf
  <2>3. r \in TurnRecord /\ r.role = "user" /\ ToSet(r.blocks) = {Result(m)}
    <3>1. <<Result(m)>> \in Seq(Block)
      BY <2>2
    <3>2. ToSet(<<Result(m)>>) = {Result(m)}
      BY DEF ToSet
    <3>3. QED
      BY <3>1, <3>2 DEF TurnRecord
  <2> HIDE DEF r
  <2>4. t = Append(turns, r)
    BY <1>6 DEF r
  <2>5. t # <<>> /\ Len(t) = l + 1 /\ t[Len(t)] = r /\ l \in 1..l /\ t[l] = turns[l] /\ Len(t) - 1 = l
    <3>1. l \in 1..l
      BY <1>1, <2>1 DEF l
    <3>2. t # <<>> /\ Len(t) = l + 1 /\ t[Len(t)] = r /\ t[l] = turns[l]
      BY <2>3, <2>4, <3>1, Appended DEF l
    <3>3. QED
      BY <1>1, <3>1, <3>2
  <2>6. Ids(ToSet(r.blocks)) = ResultIds(n - 1, n)
    <3>1. Ids(ToSet(r.blocks)) = {<<m.id, m.of>>}
      BY <2>3 DEF Ids, Result
    <3>2. (n - 1 + 1)..n = {n}
      BY <1>1
    <3>3. QED
      BY <3>1, <3>2 DEF ResultIds, m
  <2>7. messages[n - 1].role = "assistant" /\ \A j \in (n - 1 + 1)..n : messages[j].role = "tool"
    <3>1. \A j \in (n - 1 + 1)..n : j = n
      BY <1>1
    <3>2. n - 1 # 0
      BY <1>1, <1>6
    <3>3. QED
      BY <1>6, <3>1, <3>2 DEF RoleAt, m
  <2>8. n - 1 \in 1..(n - 1) /\ Len(t) > 1
    BY <1>1, <1>6, <2>5
  <2>9. Gathers(t, n, n - 1)
    BY <2>1, <2>2, <2>3, <2>5, <2>6, <2>7, <2>8 DEF Gathers
  <2>10. QED
    BY <1>1, <1>6, <2>3, <2>5, <2>8, <2>9 DEF Standing
<1>7. CASE /\ m.role = "tool" /\ RoleAt(n - 1) = "tool" /\ Len(t) = l
           /\ \A i \in 1..(l - 1) : t[i] = turns[i]
           /\ t[l].role = turns[l].role
           /\ t[l].blocks = Append(turns[l].blocks, Result(m))
  <2>1. turns # <<>> /\ last.role = "user"
    BY <1>7 DEF Standing, l
  <2>2. PICK a \in 1..(n - 1 - 1) : Gathers(turns, n - 1, a)
    BY <1>7 DEF Standing
  <2>3. Result(m) \in Block /\ Result(m).type = "result"
    BY <1>7, ResultsAreBlocks DEF m, ResultOf
  <2>4. last \in TurnRecord
    BY <2>1 DEF l
  <2>5. ToSet(t[l].blocks) = ToSet(last.blocks) \cup {Result(m)}
    <3>1. last.blocks \in Seq(Block)
      BY <2>4 DEF TurnRecord
    <3> HIDE DEF last
    <3>2. ToSet(Append(last.blocks, Result(m))) = ToSet(last.blocks) \cup {Result(m)}
      BY <2>3, <3>1, Appended
    <3>3. QED
      BY <1>7, <3>2 DEF last
  <2>6. /\ messages[a].role = "assistant" /\ \A j \in (a + 1)..(n - 1) : messages[j].role = "tool"
        /\ l > 1 /\ BlocksOf(turns[l - 1], "use") = ToSet(Uses(messages[a]))
        /\ \A b \in ToSet(last.blocks) : b.type = "result"
        /\ Ids(ToSet(last.blocks)) = ResultIds(a, n - 1)
    BY <2>2 DEF Gathers, l
  <2>7. (a + 1)..n = ((a + 1)..(n - 1)) \cup {n} /\ a \in 1..(n - 1)
    BY <1>1
  <2>8. Ids(ToSet(t[l].blocks)) = ResultIds(a, n)
    <3>1. Ids(ToSet(t[l].blocks)) = Ids(ToSet(last.blocks)) \cup {<<m.id, m.of>>}
      <4>1. Result(m).id = m.id /\ Result(m).of = m.of
        BY DEF Result
      <4>2. QED
        BY <2>5, <4>1, IdsGrow
    <3>2. ResultIds(a, n) = ResultIds(a, n - 1) \cup {<<m.id, m.of>>}
      BY <2>7 DEF ResultIds, m
    <3>3. QED
      BY <2>6, <3>1, <3>2
  <2>9. \A j \in (a + 1)..n : messages[j].role = "tool"
    BY <1>7, <2>6, <2>7 DEF m
  <2>10. \A b \in ToSet(t[l].blocks) : b.type = "result"
    BY <2>3, <2>5, <2>6
  <2>11. t[l - 1] = turns[l - 1]
    <3>1. l - 1 \in 1..(l - 1)
      BY <1>1, <2>6
    <3>2. QED
      BY <1>7, <3>1
  <2>12. Gathers(t, n, a)
    BY <1>7, <2>6, <2>8, <2>9, <2>10, <2>11 DEF Gathers
  <2>13. t # <<>>
    BY <1>7, <2>6
  <2>14. QED
    BY <1>1, <1>7, <2>1, <2>7, <2>12, <2>13 DEF Standing
<1>8. QED
  BY <1>3, <1>4, <1>5, <1>6, <1>7 DEF Comes, m, l

\* Once somebody else speaks, the results since a message of calls are those of
\* exactly its calls.
LEMMA PairsUp ==
  ASSUME messages \in Seq(Message), Conversation,
         NEW a \in DOMAIN messages, NEW n \in Nat, n <= Len(messages), a <= n,
         messages[a].role = "assistant",
         \A j \in (a + 1)..n : messages[j].role = "tool",
         \A k \in DOMAIN messages[a].calls :
           \E j \in (a + 1)..n : messages[j].role = "tool" /\ messages[j].of = <<a, k>>
  PROVE  Ids(ToSet(Uses(messages[a]))) = ResultIds(a, n)
<1> DEFINE m == messages[a]
<1>1. DOMAIN messages = 1..Len(messages) /\ Len(messages) \in Nat /\ m \in Message
  OBVIOUS
<1>2. \A j \in (a + 1)..n : j \in DOMAIN messages /\ a < j
  BY <1>1
<1>3. \A j \in (a + 1)..n :
        \E k \in DOMAIN m.calls : messages[j].of = <<a, k>> /\ messages[j].id = m.calls[k].id
  <2> SUFFICES ASSUME NEW j \in (a + 1)..n
               PROVE  \E k \in DOMAIN m.calls :
                        messages[j].of = <<a, k>> /\ messages[j].id = m.calls[k].id
    OBVIOUS
  <2>1. PICK b \in DOMAIN messages : ResultFor(j, b)
    BY <1>2 DEF Conversation, Traced
  <2>2. PICK k \in DOMAIN messages[b].calls :
          messages[j].of = <<b, k>> /\ messages[j].id = messages[b].calls[k].id
    BY <2>1 DEF ResultFor
  <2>3. b < j /\ \A i \in (b + 1)..j : messages[i].role = "tool"
    BY <2>1 DEF ResultFor
  <2>4. messages[b].role = "assistant"
    <3>1. messages[b].calls # <<>>
      BY <2>2
    <3>2. QED
      BY <3>1 DEF Conversation, Spoke
  <2>5. b = a
    <3>1. a \in (b + 1)..j \/ b \in (a + 1)..n \/ a = b
      BY <1>1, <1>2, <2>3
    <3>2. QED
      BY <2>3, <2>4, <3>1
  <2>6. QED
    BY <2>2, <2>5
<1>4. \A k \in DOMAIN m.calls :
        \E j \in (a + 1)..n : messages[j].of = <<a, k>> /\ messages[j].id = m.calls[k].id
  <2> SUFFICES ASSUME NEW k \in DOMAIN m.calls
               PROVE  \E j \in (a + 1)..n :
                        messages[j].of = <<a, k>> /\ messages[j].id = m.calls[k].id
    OBVIOUS
  <2>1. PICK j \in (a + 1)..n : messages[j].of = <<a, k>>
    OBVIOUS
  <2>2. PICK i \in DOMAIN m.calls : messages[j].of = <<a, i>> /\ messages[j].id = m.calls[i].id
    BY <1>3
  <2>3. i = k
    BY <2>1, <2>2
  <2>4. QED
    BY <2>1, <2>2, <2>3
<1>5. \A k \in DOMAIN m.calls : Uses(m)[k].id = m.calls[k].id /\ Uses(m)[k].of = <<a, k>>
  <2>1. \A k \in DOMAIN m.calls : m.calls[k].of = <<a, k>>
    BY DEF Conversation, Placed
  <2> HIDE DEF m
  <2>2. \A k \in DOMAIN m.calls : Uses(m)[k] = UseOf(m.calls[k])
    BY <1>1, UsesIs
  <2>3. \A c : UseOf(c).id = c.id /\ UseOf(c).of = c.of
    BY DEF UseOf
  <2>4. QED
    BY <2>1, <2>2, <2>3
<1>6. Ids(ToSet(Uses(m))) = {<<m.calls[k].id, <<a, k>>>> : k \in DOMAIN m.calls}
  <2>1. DOMAIN Uses(m) = DOMAIN m.calls
    BY <1>1, UsesIs
  <2> HIDE DEF m
  <2>2. QED
    BY <1>5, <2>1 DEF Ids, ToSet
<1>7. ResultIds(a, n) = {<<m.calls[k].id, <<a, k>>>> : k \in DOMAIN m.calls}
  <2> HIDE DEF m
  <2> DEFINE I == {<<m.calls[k].id, <<a, k>>>> : k \in DOMAIN m.calls}
  <2>1. ASSUME NEW x \in ResultIds(a, n) PROVE x \in I
    <3>1. PICK j \in (a + 1)..n : x = <<messages[j].id, messages[j].of>>
      BY DEF ResultIds
    <3>2. PICK k \in DOMAIN m.calls : messages[j].of = <<a, k>> /\ messages[j].id = m.calls[k].id
      BY <1>3
    <3>3. QED
      BY <3>1, <3>2
  <2>2. ASSUME NEW x \in I PROVE x \in ResultIds(a, n)
    <3>1. PICK k \in DOMAIN m.calls : x = <<m.calls[k].id, <<a, k>>>>
      OBVIOUS
    <3>2. PICK j \in (a + 1)..n : messages[j].of = <<a, k>> /\ messages[j].id = m.calls[k].id
      BY <1>4
    <3>3. x = <<messages[j].id, messages[j].of>>
      BY <3>1, <3>2
    <3>4. QED
      BY <3>3 DEF ResultIds
  <2> HIDE DEF I
  <2>3. ResultIds(a, n) = I
    BY <2>1, <2>2
  <2>4. QED
    BY <2>3 DEF I
<1>8. QED
  BY <1>6, <1>7

Meets(use, result) == Ids(BlocksOf(use, "use")) = Ids(BlocksOf(result, "result"))

\* Every turn of calls has its results in the turn after it, but the last one, whose
\* results are still coming.
Fulfilled(turns, n) ==
  \A i \in 1..(Len(turns) - 1) :
    Meets(turns[i], turns[i + 1]) \/ (RoleAt(n) = "tool" /\ i = Len(turns) - 1)

\* Nobody but a tool speaks after message n - 1 unless it is in order so far.
LEMMA FulfilledBefore ==
  ASSUME messages \in Seq(Message), Conversation, NEW p \in {"anthropic", "bedrock"},
         NEW n \in DOMAIN messages, messages[n].role # "tool",
         NEW turns \in Seq(TurnRecord), Standing(p, turns, n - 1), Fulfilled(turns, n - 1)
  PROVE  /\ \A i \in 1..(Len(turns) - 1) : Meets(turns[i], turns[i + 1])
         /\ turns # <<>> => BlocksOf(turns[Len(turns)], "use") = {}
<1> DEFINE l == Len(turns)
           last == turns[l]
<1>1. /\ n \in Nat /\ n # 0 /\ n <= Len(messages) /\ Len(messages) \in Nat /\ l \in Nat
      /\ n - 1 \in Nat /\ DOMAIN messages = 1..Len(messages)
      /\ n - 1 = 0 \/ n - 1 \in DOMAIN messages
  OBVIOUS
<1>2. CASE RoleAt(n - 1) = "tool"
  <2>1. PICK a \in 1..(n - 1 - 1) : Gathers(turns, n - 1, a)
    BY <1>2 DEF Standing
  <2>2. a \in DOMAIN messages /\ a < n /\ n - 1 <= Len(messages) /\ a <= n - 1
    BY <1>1
  <2>3. \A k \in DOMAIN messages[a].calls :
          \E j \in (a + 1)..(n - 1) : messages[j].role = "tool" /\ messages[j].of = <<a, k>>
    BY <2>2 DEF Conversation, Awaited
  <2>4. messages[a].role = "assistant" /\ \A j \in (a + 1)..(n - 1) : messages[j].role = "tool"
    BY <2>1 DEF Gathers
  <2>5. Ids(ToSet(Uses(messages[a]))) = ResultIds(a, n - 1)
    BY <1>1, <2>2, <2>3, <2>4, PairsUp
  <2>6. /\ l > 1 /\ BlocksOf(turns[l - 1], "use") = ToSet(Uses(messages[a]))
        /\ \A b \in ToSet(last.blocks) : b.type = "result"
        /\ Ids(ToSet(last.blocks)) = ResultIds(a, n - 1)
    BY <2>1 DEF Gathers
  <2>7. BlocksOf(last, "result") = ToSet(last.blocks) /\ BlocksOf(last, "use") = {}
    BY <2>6 DEF BlocksOf
  <2>8. Meets(turns[l - 1], last)
    BY <2>5, <2>6, <2>7 DEF Meets
  <2>9. \A i \in 1..(l - 1) : Meets(turns[i], turns[i + 1]) \/ i = l - 1
    BY DEF Fulfilled
  <2>10. l - 1 + 1 = l
    BY <1>1
  <2>11. QED
    BY <2>7, <2>8, <2>9, <2>10
<1>3. CASE RoleAt(n - 1) # "tool"
  <2>1. \A i \in 1..(l - 1) : Meets(turns[i], turns[i + 1])
    BY <1>3 DEF Fulfilled
  <2>2. turns # <<>> => BlocksOf(last, "use") = {}
    <3> SUFFICES ASSUME turns # <<>> PROVE BlocksOf(last, "use") = {}
      OBVIOUS
    <3>1. RoleAt(n - 1) # "system"
      BY DEF Standing
    <3>2. n - 1 # 0 /\ n - 1 \in DOMAIN messages /\ RoleAt(n - 1) = messages[n - 1].role
      BY <1>1, <3>1 DEF RoleAt
    <3>3. messages[n - 1] \in Message
      BY <3>2
    <3>4. CASE RoleAt(n - 1) = "user" \/ (RoleAt(n - 1) = "assistant" /\ Skipped(p, n - 1))
      BY <3>4 DEF Standing
    <3>5. CASE RoleAt(n - 1) = "assistant" /\ ~Skipped(p, n - 1)
      <4>1. BlocksOf(last, "use") = ToSet(Uses(messages[n - 1]))
        BY <3>5 DEF Standing
      <4>2. \A k \in DOMAIN messages[n - 1].calls : FALSE
        <5>1. n - 1 < n /\ (n - 1 + 1)..(n - 1) = {}
          BY <1>1
        <5>2. QED
          BY <3>2, <5>1 DEF Conversation, Awaited
      <4>3. DOMAIN Uses(messages[n - 1]) = {}
        BY <3>3, <4>2, UsesIs
      <4>4. QED
        BY <4>1, <4>3 DEF ToSet
    <3>6. messages[n - 1].role \in {"system", "user", "assistant", "tool"}
      BY <3>3, MessageFacts
    <3>7. QED
      BY <1>3, <3>1, <3>2, <3>4, <3>5, <3>6
  <2>3. QED
    BY <2>1, <2>2
<1>4. QED
  BY <1>2, <1>3

LEMMA FulfilledKept ==
  ASSUME messages \in Seq(Message), Conversation, NEW p \in {"anthropic", "bedrock"},
         NEW n \in DOMAIN messages, NEW turns \in Seq(TurnRecord),
         Standing(p, turns, n - 1), Fulfilled(turns, n - 1),
         NEW t \in Seq(TurnRecord), Comes(p, turns, n, t)
  PROVE  Fulfilled(t, n)
<1> DEFINE m == messages[n]
           l == Len(turns)
<1>1. /\ n \in Nat /\ n # 0 /\ m \in Message /\ l \in Nat /\ RoleAt(n) = m.role
  BY DEF RoleAt
<1>2. m.role # "assistant" => m.calls = <<>>
  BY DEF Conversation, Spoke
<1>3. m.role # "tool" => /\ \A i \in 1..(l - 1) : Meets(turns[i], turns[i + 1])
                         /\ turns # <<>> => BlocksOf(turns[l], "use") = {}
  BY FulfilledBefore
<1> HIDE DEF m, l
<1>4. CASE m.role # "tool" /\ t = turns
  BY <1>3, <1>4 DEF Fulfilled, l
<1>5. CASE /\ m.role \in {"user", "assistant"}
           /\ t = Append(turns, [role |-> m.role, blocks |-> Blocks(p, m)])
  <2> DEFINE r == [role |-> m.role, blocks |-> Blocks(p, m)]
  <2>1. /\ Blocks(p, m) \in Seq(Block)
        /\ \A k \in DOMAIN Blocks(p, m) : Blocks(p, m)[k].type # "result"
    BY <1>1, <1>2, <1>5, BlocksIs
  <2>2. r \in TurnRecord /\ BlocksOf(r, "result") = {}
    BY <1>5, <2>1 DEF TurnRecord, BlocksOf, ToSet
  <2> HIDE DEF r
  <2>3. t = Append(turns, r)
    BY <1>5 DEF r
  <2>4. Len(t) = l + 1 /\ t[l + 1] = r /\ \A i \in 1..l : t[i] = turns[i]
    BY <2>2, <2>3, Appended DEF l
  <2> SUFFICES ASSUME NEW i \in 1..(Len(t) - 1) PROVE Meets(t[i], t[i + 1])
    BY DEF Fulfilled
  <2>5. i \in 1..l /\ (i = l \/ (i \in 1..(l - 1) /\ i + 1 \in 1..l))
    BY <1>1, <2>4
  <2>6. CASE i = l
    <3>1. turns # <<>>
      BY <1>1, <2>5 DEF l
    <3>2. Ids(BlocksOf(t[i], "use")) = {} /\ Ids(BlocksOf(t[i + 1], "result")) = {}
      BY <1>3, <1>5, <2>2, <2>4, <2>5, <2>6, <3>1 DEF Ids
    <3>3. QED
      BY <3>2 DEF Meets
  <2>7. CASE i \in 1..(l - 1) /\ i + 1 \in 1..l
    BY <1>3, <1>5, <2>4, <2>5, <2>7
  <2>8. QED
    BY <2>5, <2>6, <2>7
<1>6. CASE /\ m.role = "tool" /\ RoleAt(n - 1) = "assistant"
           /\ t = Append(turns, [role |-> "user", blocks |-> <<Result(m)>>])
  <2> DEFINE r == [role |-> "user", blocks |-> <<Result(m)>>]
  <2>1. Result(m) \in Block
    BY <1>6, ResultsAreBlocks DEF m, ResultOf
  <2>2. r \in TurnRecord
    <3>1. <<Result(m)>> \in Seq(Block)
      BY <2>1
    <3>2. QED
      BY <3>1 DEF TurnRecord
  <2> HIDE DEF r
  <2>3. t = Append(turns, r)
    BY <1>6 DEF r
  <2>4. Len(t) = l + 1 /\ \A i \in 1..l : t[i] = turns[i]
    BY <2>2, <2>3, Appended DEF l
  <2> SUFFICES ASSUME NEW i \in 1..(Len(t) - 1) PROVE Meets(t[i], t[i + 1]) \/ i = Len(t) - 1
    BY <1>1, <1>6 DEF Fulfilled
  <2>5. i = Len(t) - 1 \/ (i \in 1..(l - 1) /\ i \in 1..l /\ i + 1 \in 1..l)
    BY <1>1, <2>4
  <2>6. \A j \in 1..(l - 1) : Meets(turns[j], turns[j + 1])
    BY <1>6 DEF Fulfilled, l
  <2>7. QED
    BY <2>4, <2>5, <2>6
<1>7. CASE /\ m.role = "tool" /\ Len(t) = l /\ \A i \in 1..(l - 1) : t[i] = turns[i]
  <2> SUFFICES ASSUME NEW i \in 1..(Len(t) - 1) PROVE Meets(t[i], t[i + 1]) \/ i = Len(t) - 1
    BY <1>1, <1>7 DEF Fulfilled
  <2>1. i = Len(t) - 1 \/ (i \in 1..(l - 1) /\ i + 1 \in 1..(l - 1))
    BY <1>1, <1>7
  <2>2. \A j \in 1..(l - 1) : Meets(turns[j], turns[j + 1]) \/ j = l - 1
    BY DEF Fulfilled, l
  <2>3. QED
    BY <1>7, <2>1, <2>2
<1>8. QED
  BY <1>4, <1>5, <1>6, <1>7 DEF Comes, Skipped, m, l

\* No id stands for two calls of a turn.
OwnIds(turns) ==
  \A i \in DOMAIN turns : \A u, v \in BlocksOf(turns[i], "use") : u.id = v.id => u = v

LEMMA OwnIdsKept ==
  ASSUME messages \in Seq(Message), Conversation, NEW p \in {"anthropic", "bedrock"},
         NEW n \in DOMAIN messages, NEW turns \in Seq(TurnRecord), OwnIds(turns),
         NEW t \in Seq(TurnRecord), Comes(p, turns, n, t), Standing(p, t, n)
  PROVE  OwnIds(t)
<1> DEFINE m == messages[n]
           l == Len(turns)
           last == t[Len(t)]
<1>1. /\ n \in Nat /\ n # 0 /\ m \in Message /\ l \in Nat /\ RoleAt(n) = m.role
      /\ DOMAIN turns = 1..l
  BY DEF RoleAt
<1>2. CASE t = turns
  BY <1>2
<1>3. CASE t # turns
  <2>1. m.role # "system"
    <3>1. m.role = "system" => n = 1
      BY <1>1 DEF Conversation, Ordered, Turn
    <3>2. QED
      BY <1>1, <1>3, <3>1 DEF Comes
  <2>2. m.role \in {"user", "assistant", "tool"}
    BY <1>1, <2>1, MessageFacts
  <2>3. \A u, v \in BlocksOf(last, "use") : u.id = v.id => u = v
    <3>1. CASE m.role = "user" \/ (m.role = "assistant" /\ Skipped(p, n))
      BY <1>1, <3>1 DEF Standing
    <3>2. CASE m.role = "assistant" /\ ~Skipped(p, n)
      <4>1. BlocksOf(last, "use") = ToSet(Uses(m))
        BY <1>1, <3>2 DEF Standing
      <4>2. DOMAIN Uses(m) = DOMAIN m.calls /\ \A k \in DOMAIN m.calls : Uses(m)[k] = UseOf(m.calls[k])
        BY <1>1, UsesIs
      <4>3. \A j, k \in DOMAIN m.calls : m.calls[j].id = m.calls[k].id => j = k
        BY DEF Conversation, Placed
      <4> HIDE DEF m, last
      <4>4. \A c : UseOf(c).id = c.id
        BY DEF UseOf
      <4>5. \A j, k \in DOMAIN Uses(m) : Uses(m)[j].id = Uses(m)[k].id => j = k
        BY <4>2, <4>3, <4>4
      <4>6. QED
        BY <4>1, <4>5 DEF ToSet
    <3>3. CASE m.role = "tool"
      <4>1. \A b \in ToSet(last.blocks) : b.type = "result"
        BY <1>1, <3>3 DEF Standing, Gathers
      <4>2. QED
        BY <4>1, UsesOfResults
    <3>4. QED
      BY <2>2, <3>1, <3>2, <3>3
  <2>4. \A i \in DOMAIN t : i = Len(t) \/ (i \in DOMAIN turns /\ t[i] = turns[i])
    <3>1. CASE \E r : t = Append(turns, r)
      <4>1. PICK r : t = Append(turns, r)
        BY <3>1
      <4>2. Len(t) = l + 1 /\ DOMAIN t = 1..(l + 1) /\ \A i \in 1..l : t[i] = turns[i]
        BY <4>1
      <4>3. \A i \in 1..(l + 1) : i = l + 1 \/ i \in 1..l
        BY <1>1
      <4>4. QED
        BY <1>1, <4>2, <4>3
    <3>2. CASE Len(t) = l /\ \A i \in 1..(l - 1) : t[i] = turns[i]
      <4>1. DOMAIN t = 1..l
        BY <3>2
      <4>2. \A i \in 1..l : i = l \/ i \in 1..(l - 1)
        <5>1. l \in Nat
          OBVIOUS
        <5> HIDE DEF l
        <5>2. QED
          BY <5>1
      <4>3. QED
        BY <1>1, <3>2, <4>1, <4>2
    <3>3. QED
      BY <1>3, <3>1, <3>2 DEF Comes
  <2>5. QED
    BY <2>3, <2>4 DEF OwnIds
<1>4. QED
  BY <1>2, <1>3

Quiet(p, n) == {i \in 1..n : Skipped(p, i)}

\* Two turns of one role meet where a message of the assistant was left out.
Even(p, turns, n) == Cardinality(Adjacent(turns)) = Cardinality(Quiet(p, n - 1))

LEMMA AdjacentAppended ==
  ASSUME NEW turns \in Seq(TurnRecord), NEW r \in TurnRecord
  PROVE  LET joint == turns # <<>> /\ turns[Len(turns)].role = r.role
         IN /\ IsFiniteSet(Adjacent(turns)) /\ Len(turns) + 1 \notin Adjacent(turns)
            /\ joint => Adjacent(Append(turns, r)) = Adjacent(turns) \cup {Len(turns) + 1}
            /\ ~joint => Adjacent(Append(turns, r)) = Adjacent(turns)
<1> DEFINE l == Len(turns)
           t == Append(turns, r)
<1>1. /\ l \in Nat /\ DOMAIN turns = 1..l /\ DOMAIN t = 1..(l + 1) /\ t[l + 1] = r
      /\ \A i \in 1..l : t[i] = turns[i]
  BY Appended
<1>2. turns # <<>> <=> l + 1 > 1
  BY <1>1
<1> HIDE DEF t, l
<1>3. IsFiniteSet(Adjacent(turns)) /\ l + 1 \notin Adjacent(turns)
  <2>1. Adjacent(turns) \subseteq 1..l /\ l + 1 \notin 1..l
    BY <1>1 DEF Adjacent
  <2>2. IsFiniteSet(1..l)
    BY <1>1, FS_Interval
  <2>3. QED
    BY <2>1, <2>2, FS_Subset
<1>4. \A i \in 1..l : i \in Adjacent(t) <=> i \in Adjacent(turns)
  <2>1. \A i \in 1..l : i \in 1..(l + 1) /\ (i > 1 => i - 1 \in 1..l)
    BY <1>1
  <2>2. QED
    BY <1>1, <2>1 DEF Adjacent
<1>5. l + 1 \in Adjacent(t) <=> turns # <<>> /\ turns[l].role = r.role
  <2>1. l + 1 \in 1..(l + 1) /\ l + 1 - 1 = l /\ (l + 1 > 1 => l \in 1..l)
    BY <1>1
  <2>2. QED
    BY <1>1, <1>2, <2>1 DEF Adjacent
<1>6. Adjacent(t) \subseteq 1..(l + 1) /\ Adjacent(turns) \subseteq 1..l
  BY <1>1 DEF Adjacent
<1>7. \A i \in 1..(l + 1) : i = l + 1 \/ i \in 1..l
  BY <1>1
<1>8. Adjacent(t) \subseteq Adjacent(turns) \cup {l + 1} /\ Adjacent(turns) \subseteq Adjacent(t)
  BY <1>4, <1>6, <1>7
<1>9. QED
  BY <1>3, <1>5, <1>8 DEF t, l

LEMMA QuietGrows ==
  ASSUME NEW p, NEW n \in Nat, n # 0
  PROVE  /\ IsFiniteSet(Quiet(p, n - 1)) /\ n \notin Quiet(p, n - 1)
         /\ Skipped(p, n) => Quiet(p, n) = Quiet(p, n - 1) \cup {n}
         /\ ~Skipped(p, n) => Quiet(p, n) = Quiet(p, n - 1)
<1>1. n - 1 \in Nat /\ n \notin 1..(n - 1) /\ 1..n = 1..(n - 1) \cup {n}
  OBVIOUS
<1>2. IsFiniteSet(1..(n - 1))
  BY <1>1, FS_Interval
<1>3. Quiet(p, n - 1) \subseteq 1..(n - 1)
  BY DEF Quiet
<1>4. QED
  BY <1>1, <1>2, <1>3, FS_Subset DEF Quiet

LEMMA EvenKept ==
  ASSUME messages \in Seq(Message), Conversation, NEW p \in {"anthropic", "bedrock"},
         NEW n \in DOMAIN messages, NEW turns \in Seq(TurnRecord),
         Standing(p, turns, n - 1), Even(p, turns, n - 1),
         NEW t \in Seq(TurnRecord), Comes(p, turns, n, t)
  PROVE  Even(p, t, n)
<1> DEFINE m == messages[n]
           l == Len(turns)
           last == turns[l]
<1>1. n \in Nat /\ n # 0 /\ m \in Message /\ n - 1 \in Nat
  OBVIOUS
<1>2. n - 1 # 0 => /\ IsFiniteSet(Quiet(p, n - 1 - 1)) /\ n - 1 \notin Quiet(p, n - 1 - 1)
                   /\ Skipped(p, n - 1) => Quiet(p, n - 1) = Quiet(p, n - 1 - 1) \cup {n - 1}
                   /\ ~Skipped(p, n - 1) => Quiet(p, n - 1) = Quiet(p, n - 1 - 1)
  BY <1>1, QuietGrows
<1>3. n - 1 = 0 => Quiet(p, n - 1) = Quiet(p, n - 1 - 1)
  <2>1. 1..0 = {} /\ 1..(0 - 1) = {}
    OBVIOUS
  <2>2. QED
    BY <2>1 DEF Quiet
<1>4. Cardinality(Adjacent(turns)) = Cardinality(Quiet(p, n - 1 - 1))
  BY DEF Even
<1>5. n - 1 # 0 /\ Skipped(p, n - 1) => RoleAt(n - 1) = "assistant"
  BY DEF Skipped, RoleAt
<1> HIDE DEF m, l
<1>6. ASSUME NEW r \in TurnRecord, t = Append(turns, r), r.role = m.role,
             m.role \in {"user", "assistant"}, Turn(RoleAt(n - 1), m.role)
      PROVE  Even(p, t, n)
  <2>1. CASE n - 1 # 0 /\ Skipped(p, n - 1)
    <3>1. RoleAt(n - 1) = "assistant" /\ turns # <<>> /\ last.role = "user" /\ r.role = "user"
      BY <1>5, <1>6, <2>1 DEF Standing, Turn, l
    <3>2. Adjacent(t) = Adjacent(turns) \cup {l + 1} /\ IsFiniteSet(Adjacent(turns))
          /\ l + 1 \notin Adjacent(turns)
      BY <1>6, <3>1, AdjacentAppended DEF l
    <3>3. Quiet(p, n - 1) = Quiet(p, n - 1 - 1) \cup {n - 1} /\ IsFiniteSet(Quiet(p, n - 1 - 1))
          /\ n - 1 \notin Quiet(p, n - 1 - 1)
      BY <1>2, <2>1
    <3>4. Cardinality(Adjacent(t)) = Cardinality(Adjacent(turns)) + 1
      BY <3>2, FS_AddElement
    <3>5. Cardinality(Quiet(p, n - 1)) = Cardinality(Quiet(p, n - 1 - 1)) + 1
      BY <3>3, FS_AddElement
    <3>6. QED
      BY <1>4, <3>4, <3>5 DEF Even
  <2>2. CASE ~(n - 1 # 0 /\ Skipped(p, n - 1))
    <3>1. Quiet(p, n - 1) = Quiet(p, n - 1 - 1)
      BY <1>2, <1>3, <2>2
    <3>2. turns # <<>> => last.role # r.role
      <4>1. turns # <<>> => RoleAt(n - 1) # "system" /\ n - 1 # 0
        BY DEF Standing, RoleAt
      <4>2. CASE RoleAt(n - 1) = "user" \/ RoleAt(n - 1) = "tool"
        BY <1>6, <4>2 DEF Standing, Turn, l
      <4>3. CASE RoleAt(n - 1) = "assistant"
        BY <1>6, <2>2, <4>1, <4>3 DEF Standing, Turn, l
      <4>4. QED
        BY <1>6, <4>1, <4>2, <4>3 DEF Turn
    <3>3. Adjacent(t) = Adjacent(turns)
      BY <1>6, <3>2, AdjacentAppended DEF l
    <3>4. QED
      BY <1>4, <3>1, <3>3 DEF Even
  <2>3. QED
    BY <2>1, <2>2
<1>7. CASE /\ m.role = "tool" /\ RoleAt(n - 1) = "assistant" /\ ~Skipped(p, n - 1)
           /\ t = Append(turns, [role |-> "user", blocks |-> <<Result(m)>>])
  <2> DEFINE r == [role |-> "user", blocks |-> <<Result(m)>>]
  <2>1. Result(m) \in Block
    BY <1>7, ResultsAreBlocks DEF m, ResultOf
  <2>2. r \in TurnRecord /\ r.role = "user"
    <3>1. <<Result(m)>> \in Seq(Block)
      BY <2>1
    <3>2. QED
      BY <3>1 DEF TurnRecord
  <2> HIDE DEF r
  <2>3. t = Append(turns, r) /\ last.role = "assistant"
    BY <1>7 DEF r, Standing, l
  <2>4. Adjacent(t) = Adjacent(turns)
    BY <2>2, <2>3, AdjacentAppended DEF l
  <2>5. QED
    BY <1>2, <1>3, <1>4, <1>7, <2>4 DEF Even
<1>8. CASE /\ m.role = "tool" /\ RoleAt(n - 1) = "tool" /\ Len(t) = l
           /\ \A i \in 1..(l - 1) : t[i] = turns[i]
           /\ t[l].role = turns[l].role
  <2>1. l \in Nat /\ DOMAIN t = 1..l /\ DOMAIN turns = 1..l
    BY <1>8 DEF l
  <2>2. \A i \in 1..l : (i = l \/ i \in 1..(l - 1)) /\ (i > 1 => i - 1 \in 1..l)
    BY <2>1
  <2>3. \A i \in 1..l : t[i].role = turns[i].role
    BY <1>8, <2>2
  <2>4. Adjacent(t) = Adjacent(turns)
    BY <2>1, <2>2, <2>3 DEF Adjacent
  <2>5. Quiet(p, n - 1) = Quiet(p, n - 1 - 1)
    BY <1>2, <1>3, <1>5, <1>8
  <2>6. QED
    BY <1>4, <2>4, <2>5 DEF Even
<1>9. CASE t = turns /\ RoleAt(n - 1) \in {"user", "tool"}
  <2>1. Quiet(p, n - 1) = Quiet(p, n - 1 - 1)
    BY <1>2, <1>3, <1>5, <1>9
  <2>2. QED
    BY <1>4, <1>9, <2>1 DEF Even
<1>10. CASE n = 1 /\ t = turns
  <2>1. n - 1 = 0
    BY <1>10
  <2>2. QED
    BY <1>3, <1>4, <1>10, <2>1 DEF Even
<1>11. CASE /\ m.role \in {"user", "assistant"} /\ Turn(RoleAt(n - 1), m.role)
            /\ t = Append(turns, [role |-> m.role, blocks |-> Blocks(p, m)])
  <2> DEFINE r == [role |-> m.role, blocks |-> Blocks(p, m)]
  <2>1. Blocks(p, m) \in Seq(Block)
    <3>1. m.role # "assistant" => m.calls = <<>>
      BY DEF Conversation, Spoke, m
    <3>2. QED
      BY <1>1, <1>11, <3>1, BlocksIs DEF m
  <2>2. r \in TurnRecord /\ r.role = m.role
    BY <1>11, <2>1 DEF TurnRecord
  <2> HIDE DEF r
  <2>3. QED
    BY <1>6, <1>11, <2>2 DEF r
<1>12. QED
  BY <1>7, <1>8, <1>9, <1>10, <1>11 DEF Comes, m, l

----------------------------------------------------------------------------
(* A whole history *)

Good(p, turns, n) ==
  /\ turns \in Seq(TurnRecord)
  /\ Standing(p, turns, n) /\ Fulfilled(turns, n) /\ OwnIds(turns) /\ Even(p, turns, n)

LEMMA NoTurns ==
  ASSUME NEW p
  PROVE  Good(p, <<>>, 0)
<1>1. Adjacent(<<>>) = {} /\ Quiet(p, 0 - 1) = {}
  <2>1. 1..(0 - 1) = {}
    OBVIOUS
  <2>2. QED
    BY <2>1 DEF Adjacent, Quiet
<1>2. Even(p, <<>>, 0)
  BY <1>1 DEF Even
<1>3. RoleAt(0) = "system"
  BY DEF RoleAt
<1>4. Standing(p, <<>>, 0)
  BY <1>3 DEF Standing
<1>5. Fulfilled(<<>>, 0) /\ OwnIds(<<>>) /\ <<>> \in Seq(TurnRecord)
  <2>1. 1..(Len(<<>>) - 1) = {} /\ DOMAIN <<>> = {}
    OBVIOUS
  <2>2. QED
    BY <2>1 DEF Fulfilled, OwnIds
<1>6. QED
  BY <1>2, <1>4, <1>5 DEF Good

LEMMA GoodKept ==
  ASSUME messages \in Seq(Message), Conversation, NEW p \in {"anthropic", "bedrock"},
         NEW n \in DOMAIN messages, NEW turns, Good(p, turns, n - 1)
  PROVE  Good(p, After(p, turns, messages[n]), n)
<1> DEFINE t == After(p, turns, messages[n])
<1>1. /\ turns \in Seq(TurnRecord) /\ Standing(p, turns, n - 1)
      /\ Fulfilled(turns, n - 1) /\ OwnIds(turns) /\ Even(p, turns, n - 1)
  BY DEF Good
<1>2. t \in Seq(TurnRecord) /\ Comes(p, turns, n, t)
  BY <1>1, StepCases
<1> HIDE DEF t
<1>3. Standing(p, t, n)
  BY <1>1, <1>2, StandingKept
<1>4. Fulfilled(t, n)
  BY <1>1, <1>2, FulfilledKept
<1>5. OwnIds(t)
  BY <1>1, <1>2, <1>3, OwnIdsKept
<1>6. Even(p, t, n)
  BY <1>1, <1>2, EvenKept
<1>7. QED
  BY <1>2, <1>3, <1>4, <1>5, <1>6 DEF Good, t

LEMMA ConvertedGood ==
  ASSUME messages \in Seq(Message), Conversation, NEW p \in {"anthropic", "bedrock"}
  PROVE  Good(p, Converted(p), Len(messages))
<1> DEFINE l == Len(messages)
<1>1. l \in Nat /\ DOMAIN messages = 1..l
  OBVIOUS
<1>2. PICK f : Converting(f, p, l) /\ Converted(p) = f[l]
  BY <1>1, ConversionIs
<1>3. f[0] = <<>> /\ \A n \in 1..l : f[n] = After(p, f[n - 1], messages[n]) /\ n - 1 \in 0..l
  BY <1>2, TurnsTyped
<1> HIDE DEF l
<1> DEFINE T == {n \in 0..l : ~ Good(p, f[n], n)}
<1>4. T = {}
  <2> SUFFICES ASSUME T # {} PROVE FALSE
    OBVIOUS
  <2>1. PICK n \in T : \A k \in T : n <= k
    <3>1. T \subseteq Nat
      BY <1>1
    <3>2. QED
      BY <3>1, Least
  <2>2. n # 0
    BY <1>3, NoTurns
  <2>3. n \in 1..l /\ n - 1 \in 0..l /\ ~(n <= n - 1)
    BY <1>1, <2>2
  <2>4. Good(p, f[n - 1], n - 1)
    BY <2>1, <2>3
  <2>5. Good(p, f[n], n)
    <3>1. n \in DOMAIN messages /\ f[n] = After(p, f[n - 1], messages[n])
      BY <1>1, <1>3, <2>3
    <3> HIDE DEF T
    <3>2. QED
      BY <2>4, <3>1, GoodKept
  <2>6. QED
    BY <2>5
<1>5. l \in 0..l
  BY <1>1
<1>6. QED
  BY <1>2, <1>4, <1>5 DEF l

\* A request to Anthropic or Bedrock is the good conversion of a conversation
\* that ends in a user's message or the last result.
LEMMA RequestGood ==
  ASSUME Inv, NEW p \in {"anthropic", "bedrock"}, By(p)
  PROVE  /\ messages \in Seq(Message) /\ Conversation
         /\ Len(messages) \in Nat /\ Len(messages) # 0
         /\ Good(p, request.turns, Len(messages))
         /\ RoleAt(Len(messages)) \in {"user", "tool"} /\ Unresolved = {}
<1>1. messages \in Seq(Message) /\ Conversation
  BY DEF Inv, TypeOK
<1>2. request # NoRequest
  BY DEF By, NoRequest
<1>3. request.turns = Turns(p) /\ LastRole \in {"user", "tool"} /\ Unresolved = {}
  BY <1>2 DEF Inv, Requested, By
<1>4. request.turns = Converted(p)
  BY <1>3 DEF Turns
<1>5. messages # <<>> /\ LastRole = messages[Len(messages)].role
  BY <1>3 DEF LastRole, Last
<1>6. Len(messages) \in Nat /\ Len(messages) # 0
  BY <1>1, <1>5
<1>7. RoleAt(Len(messages)) \in {"user", "tool"}
  BY <1>3, <1>5, <1>6 DEF RoleAt
<1>8. QED
  BY <1>1, <1>3, <1>4, <1>6, <1>7, ConvertedGood

LEMMA Alternating == Inv => TurnsAlternate
<1> DEFINE silent == {i \in DOMAIN messages :
                        messages[i].role = "assistant" /\ messages[i].text = Empty
                        /\ messages[i].calls = <<>>}
           l == Len(messages)
<1>1. ASSUME Inv, NEW p \in {"anthropic", "bedrock"}, By(p)
      PROVE  /\ IsFiniteSet(Adjacent(request.turns))
             /\ Cardinality(Adjacent(request.turns)) = Cardinality(Quiet(p, l))
             /\ \A i \in 1..l : Skipped(p, i) <=> i \in silent /\ p = "bedrock"
  <2>1. /\ messages \in Seq(Message) /\ Conversation
        /\ l \in Nat /\ l # 0 /\ DOMAIN messages = 1..l
        /\ Good(p, request.turns, l) /\ RoleAt(l) \in {"user", "tool"}
    BY <1>1, RequestGood
  <2>2. ~Skipped(p, l)
    BY <2>1 DEF Skipped, RoleAt
  <2>3. Quiet(p, l) = Quiet(p, l - 1)
    <3> HIDE DEF l
    <3>1. QED
      BY <2>1, <2>2, QuietGrows
  <2>4. IsFiniteSet(Adjacent(request.turns))
    <3>1. Len(request.turns) \in Nat /\ Adjacent(request.turns) \subseteq 1..Len(request.turns)
      BY <2>1 DEF Good, Adjacent
    <3>2. IsFiniteSet(1..Len(request.turns))
      BY <3>1, FS_Interval
    <3>3. QED
      BY <3>1, <3>2, FS_Subset
  <2>5. \A i \in 1..l : Skipped(p, i) <=> i \in silent /\ p = "bedrock"
    <3> SUFFICES ASSUME NEW i \in 1..l PROVE Skipped(p, i) <=> i \in silent /\ p = "bedrock"
      OBVIOUS
    <3>1. i \in DOMAIN messages /\ messages[i] \in Message
      BY <2>1
    <3>2. CASE messages[i].role = "assistant"
      <4>1. Blocks(p, messages[i]) = <<>> <=> p = "bedrock" /\ Silent(messages[i])
        BY <3>1, <3>2, BlocksIs
      <4>2. QED
        BY <3>1, <3>2, <4>1 DEF Skipped, Silent
    <3>3. CASE messages[i].role # "assistant"
      BY <3>3 DEF Skipped
    <3>4. QED
      BY <3>2, <3>3
  <2>6. QED
    BY <2>1, <2>3, <2>4, <2>5 DEF Good, Even
<1> SUFFICES ASSUME Inv
             PROVE  /\ By("anthropic") => Adjacent(request.turns) = {}
                    /\ By("bedrock") => Cardinality(Adjacent(request.turns)) = Cardinality(silent)
  BY DEF TurnsAlternate
<1>2. DOMAIN messages = 1..l
  BY DEF Inv, TypeOK
<1> HIDE DEF l, silent
<1>3. ASSUME By("anthropic") PROVE Adjacent(request.turns) = {}
  <2>1. /\ IsFiniteSet(Adjacent(request.turns))
        /\ Cardinality(Adjacent(request.turns)) = Cardinality(Quiet("anthropic", l))
        /\ \A i \in 1..l : ~Skipped("anthropic", i)
    BY <1>1, <1>3
  <2>2. Quiet("anthropic", l) = {}
    BY <2>1 DEF Quiet
  <2>3. QED
    BY <2>1, <2>2, FS_EmptySet
<1>4. ASSUME By("bedrock") PROVE Cardinality(Adjacent(request.turns)) = Cardinality(silent)
  <2>1. /\ Cardinality(Adjacent(request.turns)) = Cardinality(Quiet("bedrock", l))
        /\ \A i \in 1..l : Skipped("bedrock", i) <=> i \in silent
    BY <1>1, <1>4
  <2>2. silent \subseteq 1..l
    BY <1>2 DEF silent
  <2>3. Quiet("bedrock", l) = silent
    BY <2>1, <2>2 DEF Quiet
  <2>4. QED
    BY <2>1, <2>3
<1>5. QED
  BY <1>3, <1>4

LEMMA Meeting == Inv => ResultsMeetCalls
<1> SUFFICES ASSUME Inv, NEW p \in {"anthropic", "bedrock"}, By(p),
                    NEW i \in DOMAIN request.turns
             PROVE  LET uses == BlocksOf(request.turns[i], "use")
                        next == IF i = Len(request.turns) THEN {}
                                ELSE BlocksOf(request.turns[i + 1], "result")
                    IN /\ Ids(uses) = Ids(next)
                       /\ \A u, v \in uses : u.id = v.id => u = v
  BY DEF ResultsMeetCalls
<1> DEFINE turns == request.turns
           l == Len(turns)
           n == Len(messages)
<1>1. /\ messages \in Seq(Message) /\ Conversation
      /\ n \in Nat /\ n # 0
      /\ Good(p, turns, n) /\ RoleAt(n) \in {"user", "tool"} /\ Unresolved = {}
  BY RequestGood
<1>2. turns \in Seq(TurnRecord) /\ l \in Nat /\ i \in 1..l /\ Standing(p, turns, n)
  BY <1>1 DEF Good
<1>3. \A u, v \in BlocksOf(turns[i], "use") : u.id = v.id => u = v
  BY <1>1 DEF Good, OwnIds
<1>4. CASE i = l
  <2>1. BlocksOf(turns[l], "use") = {}
    <3>1. CASE RoleAt(n) = "user"
      BY <1>2, <3>1 DEF Standing
    <3>2. CASE RoleAt(n) = "tool"
      <4>1. \A b \in ToSet(turns[l].blocks) : b.type = "result"
        BY <1>2, <3>2 DEF Standing, Gathers
      <4>2. QED
        BY <4>1, UsesOfResults
    <3>3. QED
      BY <1>1, <3>1, <3>2
  <2>2. Ids({}) = {}
    BY DEF Ids
  <2>3. QED
    BY <1>3, <1>4, <2>1, <2>2
<1>5. CASE i # l
  <2>1. i \in 1..(l - 1)
    BY <1>2, <1>5
  <2>2. Meets(turns[i], turns[i + 1]) \/ (RoleAt(n) = "tool" /\ i = l - 1)
    BY <1>1, <2>1 DEF Good, Fulfilled
  <2>3. CASE RoleAt(n) = "tool" /\ i = l - 1
    <3>1. PICK a \in 1..(n - 1) : Gathers(turns, n, a)
      BY <1>2, <2>3 DEF Standing
    <3>2. a \in DOMAIN messages /\ n <= n /\ a <= n
      BY <1>1
    <3>3. \A k \in DOMAIN messages[a].calls :
            \E j \in (a + 1)..n : messages[j].role = "tool" /\ messages[j].of = <<a, k>>
      BY <1>1, <3>2, AllAnswered DEF Conversation
    <3>4. messages[a].role = "assistant" /\ \A j \in (a + 1)..n : messages[j].role = "tool"
      BY <3>1 DEF Gathers
    <3>5. Ids(ToSet(Uses(messages[a]))) = ResultIds(a, n)
      BY <1>1, <3>2, <3>3, <3>4, PairsUp
    <3>6. /\ BlocksOf(turns[l - 1], "use") = ToSet(Uses(messages[a]))
          /\ \A b \in ToSet(turns[l].blocks) : b.type = "result"
          /\ Ids(ToSet(turns[l].blocks)) = ResultIds(a, n)
      BY <3>1 DEF Gathers
    <3>7. BlocksOf(turns[l], "result") = ToSet(turns[l].blocks)
      BY <3>6 DEF BlocksOf
    <3>8. i + 1 = l
      BY <1>2, <2>3
    <3>9. QED
      BY <1>3, <1>5, <2>3, <3>5, <3>6, <3>7, <3>8
  <2>4. CASE Meets(turns[i], turns[i + 1])
    BY <1>3, <1>5, <2>4 DEF Meets
  <2>5. QED
    BY <2>2, <2>3, <2>4
<1>6. QED
  BY <1>4, <1>5

\* The roles of the turns for Anthropic and Bedrock alternate, but where Bedrock's
\* conversion leaves a silent reply out (anthropic_backend.py:155-190,
\* bedrock_backend.py:163-199).
THEOREM Alternation == Spec => []TurnsAlternate
BY Invariance, Alternating, PTL

\* Every turn of tool calls for Anthropic and Bedrock is followed by one turn that
\* holds the results of exactly these calls.
THEOREM CallsMeetResults == Spec => []ResultsMeetCalls
BY Invariance, Meeting, PTL

----------------------------------------------------------------------------
(* Sequences of sequences, end to end *)

\* The concatenations of the first l sequences.
Chained(g, ss, l) ==
  /\ g[0] = <<>>
  /\ \A i \in 1..l : g[i] = g[i - 1] \o ss[i]

LEMMA ChainTyped ==
  ASSUME NEW W, NEW l \in Nat, NEW ss, \A i \in 1..l : ss[i] \in Seq(W), NEW g, Chained(g, ss, l)
  PROVE  \A i \in 0..l : g[i] \in Seq(W)
<1> DEFINE T == {i \in 0..l : g[i] \notin Seq(W)}
<1> SUFFICES ASSUME T # {} PROVE FALSE
  OBVIOUS
<1>1. PICK i \in T : \A k \in T : i <= k
  <2>1. T \subseteq Nat
    OBVIOUS
  <2>2. QED
    BY <2>1, Least
<1>2. i # 0
  <2>1. g[0] \in Seq(W)
    BY DEF Chained
  <2>2. QED
    BY <2>1
<1>3. i \in 1..l /\ i - 1 \in 0..l /\ ~(i <= i - 1)
  BY <1>2
<1>4. g[i - 1] \in Seq(W) /\ ss[i] \in Seq(W) /\ g[i] = g[i - 1] \o ss[i]
  BY <1>1, <1>3 DEF Chained
<1>5. g[i - 1] \o ss[i] \in Seq(W)
  BY <1>4
<1>6. g[i] \in Seq(W)
  BY <1>4, <1>5
<1>7. QED
  BY <1>6

LEMMA ChainExists ==
  ASSUME NEW ss, NEW l \in Nat
  PROVE  \E g : Chained(g, ss, l)
<1> DEFINE T == {k \in Nat : ~ \E g : Chained(g, ss, k)}
<1> SUFFICES ASSUME T # {} PROVE FALSE
  OBVIOUS
<1>1. PICK k \in T : \A j \in T : k <= j
  <2>1. T \subseteq Nat
    OBVIOUS
  <2>2. QED
    BY <2>1, Least
<1>2. CASE k = 0
  <2> DEFINE g == [i \in {0} |-> <<>>]
  <2>1. g[0] = <<>> /\ 1..0 = {}
    OBVIOUS
  <2> HIDE DEF g
  <2>2. Chained(g, ss, 0)
    BY <2>1 DEF Chained
  <2>3. QED
    BY <1>2, <2>2
<1>3. CASE k # 0
  <2>1. k - 1 \in Nat /\ k - 1 \notin T /\ k \in Nat
    BY <1>1, <1>3
  <2>2. PICK f : Chained(f, ss, k - 1)
    BY <2>1
  <2> DEFINE g == [i \in 0..k |-> IF i = k THEN f[k - 1] \o ss[k] ELSE f[i]]
  <2>3. /\ 0 \in 0..k /\ k \in 0..k /\ k - 1 \in 0..k /\ k - 1 # k
        /\ \A i \in 1..k : i \in 0..k /\ i - 1 \in 0..k /\ i - 1 # k /\ (i = k \/ i \in 1..(k - 1))
    BY <2>1
  <2>4. g[k] = f[k - 1] \o ss[k] /\ \A i \in 0..k : i # k => g[i] = f[i]
    BY <2>3
  <2> HIDE DEF g
  <2>5. g[0] = <<>>
    BY <1>3, <2>2, <2>3, <2>4 DEF Chained
  <2>6. \A i \in 1..k : g[i] = g[i - 1] \o ss[i]
    <3> SUFFICES ASSUME NEW i \in 1..k PROVE g[i] = g[i - 1] \o ss[i]
      OBVIOUS
    <3>1. CASE i = k
      BY <2>3, <2>4, <3>1
    <3>2. CASE i # k
      <4>1. i \in 1..(k - 1) /\ g[i] = f[i] /\ g[i - 1] = f[i - 1]
        BY <2>3, <2>4, <3>2
      <4>2. f[i] = f[i - 1] \o ss[i]
        BY <2>2, <4>1 DEF Chained
      <4>3. QED
        BY <4>1, <4>2
    <3>3. QED
      BY <3>1, <3>2
  <2>7. Chained(g, ss, k)
    BY <2>5, <2>6 DEF Chained
  <2>8. QED
    BY <2>7
<1>4. QED
  BY <1>2, <1>3

\* FlattenSeq is the last of the concatenations.
LEMMA FlattenIs ==
  ASSUME NEW W, NEW ss \in Seq(Seq(W)), NEW g, Chained(g, ss, Len(ss))
  PROVE  FlattenSeq(ss) = g[Len(ss)] /\ g[Len(ss)] \in Seq(W)
<1> DEFINE l == Len(ss)
<1>1. l \in Nat /\ \A i \in 1..l : ss[i] \in Seq(W)
  OBVIOUS
<1>2. \A i \in 0..l : g[i] \in Seq(W)
  <2> HIDE DEF l
  <2>1. Chained(g, ss, l)
    BY DEF l
  <2>2. QED
    BY <1>1, <2>1, ChainTyped
<1>3. g[0] = <<>> /\ \A i \in 1..l : g[i] = g[i - 1] \o ss[i]
  BY DEF Chained
<1>4. CASE l = 0
  <2>1. FlattenSeq(ss) = ss
    BY <1>4 DEF FlattenSeq
  <2>2. ss = <<>>
    BY <1>4
  <2>3. 0 \in 0..l
    BY <1>4
  <2>4. QED
    BY <1>2, <1>3, <1>4, <2>1, <2>2, <2>3
<1>5. CASE l # 0
  <2> DEFINE Is(f) == f = [i \in 1..l |-> IF i = 1 THEN ss[i] ELSE f[i - 1] \o ss[i]]
             flatten == CHOOSE f : Is(f)
             h == [i \in 1..l |-> g[i]]
  <2>1. FlattenSeq(ss) = flatten[l]
    BY <1>5 DEF FlattenSeq
  <2>2. \A i \in 1..l : i = 1 \/ i - 1 \in 1..l
    BY <1>1
  <2>3. \A i \in 1..l : h[i] = IF i = 1 THEN ss[i] ELSE h[i - 1] \o ss[i]
    <3> SUFFICES ASSUME NEW i \in 1..l PROVE h[i] = IF i = 1 THEN ss[i] ELSE h[i - 1] \o ss[i]
      OBVIOUS
    <3>1. CASE i = 1
      <4>1. g[i] = <<>> \o ss[i]
        <5>1. i - 1 = 0
          BY <3>1
        <5>2. g[i] = g[i - 1] \o ss[i]
          BY <1>3
        <5>3. QED
          BY <1>3, <5>1, <5>2
      <4>2. ss[i] \in Seq(W)
        BY <1>1
      <4>3. <<>> \o ss[i] = ss[i]
        BY <4>2
      <4>4. QED
        BY <3>1, <4>1, <4>3
    <3>2. CASE i # 1
      BY <1>3, <2>2, <3>2
    <3>3. QED
      BY <3>1, <3>2
  <2>4. h = [i \in 1..l |-> h[i]]
    OBVIOUS
  <2> HIDE DEF h
  <2>5. Is(h)
    BY <2>3, <2>4
  <2>6. Is(flatten)
    <3> HIDE DEF Is
    <3>1. QED
      BY <2>5
  <2> HIDE DEF flatten
  <2>7. \A i \in 1..l : flatten[i] = IF i = 1 THEN ss[i] ELSE flatten[i - 1] \o ss[i]
    BY <2>6
  <2> DEFINE T == {i \in 1..l : flatten[i] # h[i]}
  <2>8. T = {}
    <3> SUFFICES ASSUME T # {} PROVE FALSE
      OBVIOUS
    <3>1. PICK i \in T : \A k \in T : i <= k
      <4>1. T \subseteq Nat
        BY <1>1
      <4>2. QED
        BY <4>1, Least
    <3>2. i # 1
      BY <2>3, <2>7
    <3>3. i - 1 \in 1..l /\ ~(i <= i - 1)
      BY <1>1, <3>2
    <3>4. flatten[i - 1] = h[i - 1]
      BY <3>1, <3>3
    <3>5. QED
      BY <2>3, <2>7, <3>2, <3>4
  <2>9. l \in 1..l /\ l \in 0..l
    BY <1>1, <1>5
  <2>10. flatten[l] = g[l]
    BY <2>8, <2>9 DEF h
  <2>11. QED
    BY <1>2, <2>1, <2>9, <2>10
<1>6. QED
  BY <1>4, <1>5

LEMMA FlattenNone == FlattenSeq(<<>>) = <<>>
BY DEF FlattenSeq

LEMMA FlattenTyped ==
  ASSUME NEW W, NEW ss \in Seq(Seq(W))
  PROVE  FlattenSeq(ss) \in Seq(W)
<1>1. Len(ss) \in Nat
  OBVIOUS
<1>2. PICK g : Chained(g, ss, Len(ss))
  BY <1>1, ChainExists
<1>3. QED
  BY <1>2, FlattenIs

LEMMA FlattenAppend ==
  ASSUME NEW W, NEW ss \in Seq(Seq(W)), NEW x \in Seq(W)
  PROVE  FlattenSeq(Append(ss, x)) = FlattenSeq(ss) \o x
<1> DEFINE l == Len(ss)
           tt == Append(ss, x)
<1>1. l \in Nat /\ tt \in Seq(Seq(W)) /\ Len(tt) = l + 1 /\ tt[l + 1] = x /\ \A i \in 1..l : tt[i] = ss[i]
  BY Appended
<1>2. PICK g : Chained(g, ss, l)
  BY <1>1, ChainExists
<1> HIDE DEF l, tt
<1> DEFINE h == [i \in 0..(l + 1) |-> IF i = l + 1 THEN g[l] \o x ELSE g[i]]
<1>3. /\ l + 1 \in 0..(l + 1) /\ 0 \in 0..(l + 1) /\ 0 # l + 1
      /\ \A i \in 1..(l + 1) : /\ i \in 0..(l + 1) /\ i - 1 \in 0..(l + 1) /\ i - 1 # l + 1
                               /\ i = l + 1 \/ (i # l + 1 /\ i \in 1..l)
      /\ l + 1 - 1 = l
  BY <1>1
<1>4. h[l + 1] = g[l] \o x /\ \A i \in 0..(l + 1) : i # l + 1 => h[i] = g[i]
  BY <1>3
<1> HIDE DEF h
<1>5. g[0] = <<>> /\ \A i \in 1..l : g[i] = g[i - 1] \o ss[i]
  BY <1>2 DEF Chained
<1>6. h[0] = <<>>
  BY <1>3, <1>4, <1>5
<1>7. \A i \in 1..(l + 1) : h[i] = h[i - 1] \o tt[i]
  <2> SUFFICES ASSUME NEW i \in 1..(l + 1) PROVE h[i] = h[i - 1] \o tt[i]
    OBVIOUS
  <2>1. h[i - 1] = g[i - 1]
    BY <1>3, <1>4
  <2>2. CASE i = l + 1
    <3>1. i - 1 = l
      <4>1. l \in Nat
        BY <1>1
      <4>2. QED
        BY <2>2, <4>1
    <3>2. h[i] = g[l] \o x /\ tt[i] = x
      BY <1>1, <1>4, <2>2
    <3>3. QED
      BY <2>1, <3>1, <3>2
  <2>3. CASE i # l + 1
    BY <1>1, <1>3, <1>4, <1>5, <2>1, <2>3
  <2>4. QED
    BY <2>2, <2>3
<1>8. Chained(h, tt, Len(tt))
  BY <1>1, <1>6, <1>7 DEF Chained
<1>9. FlattenSeq(tt) = h[l + 1]
  BY <1>1, <1>8, FlattenIs
<1>10. FlattenSeq(ss) = g[l]
  BY <1>2, FlattenIs DEF l
<1>11. QED
  BY <1>4, <1>9, <1>10 DEF tt

LEMMA FlattenCons ==
  ASSUME NEW W, NEW ss \in Seq(Seq(W)), NEW x \in Seq(W)
  PROVE  FlattenSeq(<<x>> \o ss) = x \o FlattenSeq(ss)
<1> DEFINE l == Len(ss)
           tt == <<x>> \o ss
<1>1. /\ l \in Nat /\ tt \in Seq(Seq(W)) /\ Len(tt) = l + 1 /\ tt[1] = x
      /\ \A i \in 1..l : tt[i + 1] = ss[i] /\ ss[i] \in Seq(W)
  OBVIOUS
<1>2. PICK g : Chained(g, ss, l)
  BY <1>1, ChainExists
<1> HIDE DEF l, tt
<1>3. \A i \in 0..l : g[i] \in Seq(W)
  BY <1>1, <1>2, ChainTyped
<1> DEFINE h == [i \in 0..(l + 1) |-> IF i = 0 THEN <<>> ELSE x \o g[i - 1]]
<1>4. /\ 0 \in 0..(l + 1) /\ 1 \in 0..(l + 1) /\ l + 1 \in 0..(l + 1) /\ 1 - 1 = 0 /\ l + 1 - 1 = l /\ l + 1 # 0
      /\ \A i \in 1..(l + 1) : /\ i \in 0..(l + 1) /\ i - 1 \in 0..(l + 1) /\ i # 0
                               /\ i = 1 \/ (i - 1 # 0 /\ i - 1 \in 1..l /\ i - 1 + 1 = i /\ i - 1 - 1 \in 0..l)
  BY <1>1
<1>5. h[0] = <<>> /\ \A i \in 1..(l + 1) : h[i] = x \o g[i - 1]
  BY <1>4
<1> HIDE DEF h
<1>6. g[0] = <<>> /\ \A i \in 1..l : g[i] = g[i - 1] \o ss[i]
  BY <1>2 DEF Chained
<1>7. \A i \in 1..(l + 1) : h[i] = h[i - 1] \o tt[i]
  <2> SUFFICES ASSUME NEW i \in 1..(l + 1) PROVE h[i] = h[i - 1] \o tt[i]
    OBVIOUS
  <2>1. CASE i = 1
    <3>1. h[i] = x \o <<>> /\ h[i - 1] = <<>> /\ tt[i] = x
      BY <1>1, <1>4, <1>5, <1>6, <2>1
    <3>2. x \o <<>> = x /\ <<>> \o x = x
      OBVIOUS
    <3>3. QED
      BY <3>1, <3>2
  <2>2. CASE i # 1
    <3>1. /\ i - 1 \in 1..l /\ i - 1 \in 1..(l + 1) /\ i - 1 + 1 = i /\ i - 1 - 1 \in 0..l
      BY <1>1, <1>4, <2>2
    <3>2. /\ h[i] = x \o g[i - 1] /\ h[i - 1] = x \o g[i - 1 - 1]
          /\ g[i - 1] = g[i - 1 - 1] \o ss[i - 1] /\ tt[i] = ss[i - 1]
      BY <1>1, <1>5, <1>6, <3>1
    <3>3. g[i - 1 - 1] \in Seq(W) /\ ss[i - 1] \in Seq(W)
      BY <1>1, <1>3, <3>1
    <3> DEFINE a == g[i - 1 - 1]
               b == ss[i - 1]
    <3>4. x \o (g[i - 1 - 1] \o ss[i - 1]) = (x \o g[i - 1 - 1]) \o ss[i - 1]
      <4>1. x \in Seq(W) /\ a \in Seq(W) /\ b \in Seq(W)
        BY <3>3
      <4> HIDE DEF a, b
      <4>2. (x \o a) \o b = x \o (a \o b)
        BY <4>1, ConcatAssociative
      <4>3. QED
        BY <4>2 DEF a, b
    <3>5. QED
      BY <3>2, <3>4
  <2>3. QED
    BY <2>1, <2>2
<1>8. Chained(h, tt, Len(tt))
  BY <1>1, <1>5, <1>7 DEF Chained
<1>9. FlattenSeq(tt) = h[l + 1]
  BY <1>1, <1>8, FlattenIs
<1>10. FlattenSeq(ss) = g[l]
  BY <1>2, FlattenIs DEF l
<1>11. h[l + 1] = x \o g[l]
  <2> DEFINE k == l + 1
  <2>1. k \in 1..(l + 1) /\ k - 1 = l
    BY <1>1
  <2> HIDE DEF k
  <2>2. h[k] = x \o g[k - 1]
    BY <1>5, <2>1
  <2>3. h[k] = x \o g[l]
    BY <2>1, <2>2
  <2>4. QED
    BY <2>3 DEF k
<1>12. QED
  BY <1>9, <1>10, <1>11 DEF tt

LEMMA FlattenSingles ==
  ASSUME NEW W, NEW s \in Seq(W), NEW ss \in Seq(Seq(W)), Len(ss) = Len(s),
         \A i \in DOMAIN s : ss[i] = <<s[i]>>
  PROVE  FlattenSeq(ss) = s
<1> DEFINE l == Len(s)
           g == [i \in 0..l |-> SubSeq(s, 1, i)]
<1>1. l \in Nat /\ DOMAIN s = 1..l
  OBVIOUS
<1>2. g[0] = <<>>
  <2>1. 0 \in 0..l /\ SubSeq(s, 1, 0) = <<>>
    BY <1>1
  <2>2. QED
    BY <2>1
<1>3. ASSUME NEW i \in 1..l
      PROVE  g[i] = g[i - 1] \o ss[i]
  <2>1. /\ i \in 0..l /\ i - 1 \in 0..l /\ i \in DOMAIN s /\ i \in Nat /\ i - 1 \in Nat
        /\ i <= l /\ i - 1 <= l /\ i - 1 + 1 = i
    BY <1>1
  <2>2. g[i] = SubSeq(s, 1, i) /\ g[i - 1] = SubSeq(s, 1, i - 1) /\ ss[i] = <<s[i]>>
    BY <2>1
  <2> HIDE DEF g
  <2> DEFINE a == SubSeq(s, 1, i)
             b == SubSeq(s, 1, i - 1)
  <2>3. a \in Seq(W) /\ Len(a) = i /\ \A k \in 1..i : a[k] = s[k]
    BY <2>1
  <2>4. b \in Seq(W) /\ Len(b) = i - 1 /\ \A k \in 1..(i - 1) : b[k] = s[k]
    BY <2>1
  <2>5. s[i] \in W
    BY <2>1
  <2> HIDE DEF a, b
  <2>6. /\ b \o <<s[i]>> \in Seq(W) /\ Len(b \o <<s[i]>>) = i
        /\ (b \o <<s[i]>>)[i] = s[i] /\ \A k \in 1..(i - 1) : (b \o <<s[i]>>)[k] = s[k]
    <3> DEFINE x == s[i]
    <3>1. x \in W
      BY <2>5
    <3> HIDE DEF x
    <3>2. b \o <<x>> = Append(b, x)
      BY <2>4, <3>1
    <3>3. /\ Append(b, x) \in Seq(W) /\ Len(Append(b, x)) = Len(b) + 1 /\ Append(b, x)[Len(b) + 1] = x
          /\ \A k \in 1..Len(b) : Append(b, x)[k] = b[k]
      BY <2>4, <3>1, Appended
    <3>4. Len(b) = i - 1 /\ Len(b) + 1 = i
      BY <2>1, <2>4
    <3>5. QED
      BY <2>4, <3>2, <3>3, <3>4 DEF x
  <2>7. \A k \in 1..i : k = i \/ k \in 1..(i - 1)
    BY <2>1
  <2>8. \A k \in 1..i : a[k] = (b \o <<s[i]>>)[k]
    BY <2>3, <2>6, <2>7
  <2>9. a = b \o <<s[i]>>
    BY <2>3, <2>6, <2>8
  <2>10. QED
    BY <2>2, <2>9 DEF a, b
<1>4. g[l] = s
  <2>1. l \in 0..l /\ SubSeq(s, 1, l) = s
    BY <1>1
  <2>2. QED
    BY <2>1
<1> HIDE DEF g
<1>5. Chained(g, ss, Len(ss))
  BY <1>2, <1>3 DEF Chained
<1>6. QED
  BY <1>4, <1>5, FlattenIs

----------------------------------------------------------------------------
(* What is said *)

Word == ({"use", "result"} \X Place) \cup ({"text"} \X Nat)

LEMMA WordsAssociate ==
  ASSUME NEW x \in Seq(Word), NEW y \in Seq(Word), NEW z \in Seq(Word)
  PROVE  (x \o y) \o z = x \o (y \o z)
BY ConcatAssociative

LEMMA BlockWords ==
  ASSUME NEW b \in Block
  PROVE  /\ Words(b) \in Seq(Word)
         /\ b.type \in {"use", "result"} => Words(b) = <<<<b.type, b.of>>>> /\ <<b.type, b.of>> \in Word
         /\ b.type \notin {"use", "result"} =>
              Words(b) = IF b.text = Empty THEN <<>> ELSE <<<<"text", b.text>>>>
<1>1. b.type \in {"use", "result"} => b.of \in Place
  BY DEF Block
<1>2. b.type \notin {"use", "result"} => b.text \in Nat
  BY DEF Block
<1>3. CASE b.type \in {"use", "result"}
  <2>1. <<b.type, b.of>> \in Word
    BY <1>1, <1>3 DEF Word
  <2>2. Words(b) = <<<<b.type, b.of>>>>
    BY <1>3 DEF Words
  <2>3. QED
    BY <1>3, <2>1, <2>2
<1>4. CASE b.type \notin {"use", "result"}
  <2>1. <<"text", b.text>> \in Word
    BY <1>2, <1>4 DEF Word
  <2>2. Words(b) = IF b.text = Empty THEN <<>> ELSE <<<<"text", b.text>>>>
    BY <1>4 DEF Words
  <2>3. QED
    BY <1>4, <2>1, <2>2
<1>5. QED
  BY <1>3, <1>4

\* The words of each block of a sequence of blocks.
Each(blocks) == [i \in DOMAIN blocks |-> Words(blocks[i])]

LEMMA EachBlock ==
  ASSUME NEW bs \in Seq(Block)
  PROVE  /\ Each(bs) \in Seq(Seq(Word)) /\ Len(Each(bs)) = Len(bs) /\ DOMAIN Each(bs) = DOMAIN bs
         /\ \A i \in DOMAIN bs : Each(bs)[i] = Words(bs[i])
         /\ \A b \in Block : Each(Append(bs, b)) = Append(Each(bs), Words(b))
<1>1. Len(bs) \in Nat /\ DOMAIN bs = 1..Len(bs) /\ \A i \in 1..Len(bs) : bs[i] \in Block
  OBVIOUS
<1>2. Each(bs) = [i \in 1..Len(bs) |-> Words(bs[i])] /\ \A i \in 1..Len(bs) : Words(bs[i]) \in Seq(Word)
  BY <1>1, BlockWords DEF Each
<1>3. /\ Each(bs) \in Seq(Seq(Word)) /\ Len(Each(bs)) = Len(bs) /\ DOMAIN Each(bs) = DOMAIN bs
      /\ \A i \in DOMAIN bs : Each(bs)[i] = Words(bs[i])
  BY <1>1, <1>2
<1>4. ASSUME NEW b \in Block
      PROVE  Each(Append(bs, b)) = Append(Each(bs), Words(b))
  <2> DEFINE l == Len(bs)
             u == Append(bs, b)
             v == Append(Each(bs), Words(b))
  <2>1. /\ l \in Nat /\ u \in Seq(Block) /\ DOMAIN u = 1..(l + 1) /\ u[l + 1] = b
        /\ \A i \in 1..l : u[i] = bs[i]
    BY Appended
  <2>2. Words(b) \in Seq(Word)
    BY BlockWords
  <2>3. v \in Seq(Seq(Word)) /\ Len(v) = l + 1 /\ v[l + 1] = Words(b) /\ \A i \in 1..l : v[i] = Each(bs)[i]
    BY <1>3, <2>2, Appended
  <2> HIDE DEF l, u, v
  <2>4. \A i \in 1..(l + 1) : i = l + 1 \/ i \in 1..l
    BY <2>1
  <2>5. \A i \in 1..(l + 1) : v[i] = Words(u[i])
    BY <1>1, <1>3, <2>1, <2>3, <2>4 DEF l
  <2>6. v = [i \in 1..(l + 1) |-> v[i]]
    BY <2>3
  <2>7. Each(u) = v
    BY <2>1, <2>5, <2>6 DEF Each
  <2>8. QED
    BY <2>7 DEF u, v
<1>5. QED
  BY <1>3, <1>4

LEMMA TurnWordsIs ==
  ASSUME NEW turn \in TurnRecord
  PROVE  TurnWords(turn) = FlattenSeq(Each(turn.blocks)) /\ TurnWords(turn) \in Seq(Word)
<1>1. turn.blocks \in Seq(Block)
  BY DEF TurnRecord
<1>2. TurnWords(turn) = FlattenSeq(Each(turn.blocks))
  BY DEF TurnWords, Each
<1>3. Each(turn.blocks) \in Seq(Seq(Word))
  BY <1>1, EachBlock
<1>4. QED
  BY <1>2, <1>3, FlattenTyped

\* A turn of one more block says one more block's words.
LEMMA TurnWordsGrow ==
  ASSUME NEW turn \in TurnRecord, NEW b \in Block, NEW grown \in TurnRecord,
         grown.blocks = Append(turn.blocks, b)
  PROVE  TurnWords(grown) = TurnWords(turn) \o Words(b)
<1>1. turn.blocks \in Seq(Block) /\ Words(b) \in Seq(Word)
  BY BlockWords DEF TurnRecord
<1>2. Each(grown.blocks) = Append(Each(turn.blocks), Words(b)) /\ Each(turn.blocks) \in Seq(Seq(Word))
  BY <1>1, EachBlock
<1>3. FlattenSeq(Each(grown.blocks)) = FlattenSeq(Each(turn.blocks)) \o Words(b)
  BY <1>1, <1>2, FlattenAppend
<1>4. QED
  BY <1>3, TurnWordsIs

WordsOfTurns(turns) == [i \in DOMAIN turns |-> TurnWords(turns[i])]

LEMMA EachTurn ==
  ASSUME NEW turns \in Seq(TurnRecord)
  PROVE  /\ WordsOfTurns(turns) \in Seq(Seq(Word))
         /\ AllWords(turns) = FlattenSeq(WordsOfTurns(turns)) /\ AllWords(turns) \in Seq(Word)
         /\ \A r \in TurnRecord : WordsOfTurns(Append(turns, r)) = Append(WordsOfTurns(turns), TurnWords(r))
<1>1. Len(turns) \in Nat /\ DOMAIN turns = 1..Len(turns) /\ \A i \in 1..Len(turns) : turns[i] \in TurnRecord
  OBVIOUS
<1>2. /\ WordsOfTurns(turns) = [i \in 1..Len(turns) |-> TurnWords(turns[i])]
      /\ \A i \in 1..Len(turns) : TurnWords(turns[i]) \in Seq(Word)
  BY <1>1, TurnWordsIs DEF WordsOfTurns
<1>3. /\ WordsOfTurns(turns) \in Seq(Seq(Word)) /\ Len(WordsOfTurns(turns)) = Len(turns)
      /\ \A i \in 1..Len(turns) : WordsOfTurns(turns)[i] = TurnWords(turns[i])
  BY <1>1, <1>2
<1>4. AllWords(turns) = FlattenSeq(WordsOfTurns(turns))
  BY DEF AllWords, WordsOfTurns
<1>5. AllWords(turns) \in Seq(Word)
  BY <1>3, <1>4, FlattenTyped
<1>6. ASSUME NEW r \in TurnRecord
      PROVE  WordsOfTurns(Append(turns, r)) = Append(WordsOfTurns(turns), TurnWords(r))
  <2> DEFINE l == Len(turns)
             u == Append(turns, r)
             v == Append(WordsOfTurns(turns), TurnWords(r))
  <2>1. /\ l \in Nat /\ u \in Seq(TurnRecord) /\ DOMAIN u = 1..(l + 1) /\ u[l + 1] = r
        /\ \A i \in 1..l : u[i] = turns[i]
    BY Appended
  <2>2. TurnWords(r) \in Seq(Word)
    BY TurnWordsIs
  <2>3. /\ v \in Seq(Seq(Word)) /\ Len(v) = l + 1 /\ v[l + 1] = TurnWords(r)
        /\ \A i \in 1..l : v[i] = WordsOfTurns(turns)[i]
    BY <1>3, <2>2, Appended
  <2> HIDE DEF l, u, v
  <2>4. \A i \in 1..(l + 1) : i = l + 1 \/ i \in 1..l
    BY <2>1
  <2>5. \A i \in 1..(l + 1) : v[i] = TurnWords(u[i])
    BY <1>3, <2>1, <2>3, <2>4 DEF l
  <2>6. v = [i \in 1..(l + 1) |-> v[i]]
    BY <2>3
  <2>7. WordsOfTurns(u) = v
    BY <2>1, <2>5, <2>6 DEF WordsOfTurns
  <2>8. QED
    BY <2>7 DEF u, v
<1>7. QED
  BY <1>3, <1>4, <1>5, <1>6

\* A turn more says its words more; a block more in the last turn says its words more.
LEMMA WordsAppend ==
  ASSUME NEW turns \in Seq(TurnRecord), NEW r \in TurnRecord
  PROVE  AllWords(Append(turns, r)) = AllWords(turns) \o TurnWords(r)
<1>1. /\ WordsOfTurns(turns) \in Seq(Seq(Word)) /\ TurnWords(r) \in Seq(Word)
      /\ Append(turns, r) \in Seq(TurnRecord)
  BY EachTurn, TurnWordsIs
<1>2. WordsOfTurns(Append(turns, r)) = Append(WordsOfTurns(turns), TurnWords(r))
  BY EachTurn
<1>3. FlattenSeq(Append(WordsOfTurns(turns), TurnWords(r))) = FlattenSeq(WordsOfTurns(turns)) \o TurnWords(r)
  BY <1>1, FlattenAppend
<1>4. AllWords(turns) = FlattenSeq(WordsOfTurns(turns))
      /\ AllWords(Append(turns, r)) = FlattenSeq(WordsOfTurns(Append(turns, r)))
  BY <1>1, EachTurn
<1>5. QED
  BY <1>2, <1>3, <1>4

LEMMA WordsJoin ==
  ASSUME NEW turns \in Seq(TurnRecord), turns # <<>>, NEW t \in Seq(TurnRecord), NEW b \in Block,
         Len(t) = Len(turns), \A i \in 1..(Len(turns) - 1) : t[i] = turns[i],
         t[Len(turns)].blocks = Append(turns[Len(turns)].blocks, b)
  PROVE  AllWords(t) = AllWords(turns) \o Words(b)
<1> DEFINE l == Len(turns)
           head == [i \in 1..(l - 1) |-> turns[i]]
           was == turns[l]
           is == t[l]
<1>1. /\ l \in Nat /\ l # 0 /\ l - 1 \in Nat /\ l - 1 + 1 = l /\ l \in 1..l
      /\ \A i \in 1..(l - 1) : i \in 1..l /\ turns[i] \in TurnRecord
      /\ \A i \in 1..l : i = l \/ i \in 1..(l - 1)
  OBVIOUS
<1>2. was \in TurnRecord /\ is \in TurnRecord /\ is.blocks = Append(was.blocks, b)
  <2>1. Len(t) = l
    OBVIOUS
  <2>2. QED
    BY <1>1, <2>1
<1> HIDE DEF is, was
<1>3. head \in Seq(TurnRecord) /\ Len(head) = l - 1 /\ \A i \in 1..(l - 1) : head[i] = turns[i]
  BY <1>1
<1> HIDE DEF head
<1>4. turns = Append(head, was) /\ t = Append(head, is)
  <2>1. ASSUME NEW s \in Seq(TurnRecord), NEW r \in TurnRecord, Len(s) = l, s[l] = r,
               \A i \in 1..(l - 1) : s[i] = head[i]
        PROVE  s = Append(head, r)
    <3> DEFINE a == Append(head, r)
    <3>1. a \in Seq(TurnRecord) /\ Len(a) = l /\ a[l] = r /\ \A i \in 1..(l - 1) : a[i] = head[i]
      BY <1>1, <1>3, Appended
    <3> HIDE DEF a, l
    <3>2. \A i \in 1..l : s[i] = a[i]
      BY <1>1, <2>1, <3>1
    <3>3. s = a
      BY <1>1, <2>1, <3>1, <3>2
    <3>4. QED
      BY <3>3 DEF a
  <2>2. turns = Append(head, was)
    BY <1>2, <1>3, <2>1 DEF was
  <2>3. \A i \in 1..(l - 1) : t[i] = head[i]
    BY <1>3
  <2>4. t = Append(head, is)
    BY <1>2, <2>1, <2>3 DEF is
  <2>5. QED
    BY <2>2, <2>4
<1>5. AllWords(turns) = AllWords(head) \o TurnWords(was) /\ AllWords(t) = AllWords(head) \o TurnWords(is)
  BY <1>2, <1>3, <1>4, WordsAppend
<1>6. TurnWords(is) = TurnWords(was) \o Words(b)
  BY <1>2, TurnWordsGrow
<1>7. AllWords(head) \in Seq(Word) /\ TurnWords(was) \in Seq(Word) /\ Words(b) \in Seq(Word)
  BY <1>2, <1>3, EachTurn, TurnWordsIs, BlockWords
<1> DEFINE x == AllWords(head)
           y == TurnWords(was)
           z == Words(b)
<1>8. (x \o y) \o z = x \o (y \o z)
  <2>1. x \in Seq(Word) /\ y \in Seq(Word) /\ z \in Seq(Word)
    BY <1>7
  <2> HIDE DEF x, y, z
  <2>2. QED
    BY <2>1, WordsAssociate
<1>9. QED
  BY <1>5, <1>6, <1>8 DEF x, y, z

\* A message becomes blocks that say what it said.
LEMMA UsesSay ==
  ASSUME NEW m \in Message
  PROVE  FlattenSeq(Each(Uses(m))) = [i \in DOMAIN m.calls |-> <<"use", m.calls[i].of>>]
<1> DEFINE s == [i \in DOMAIN m.calls |-> <<"use", m.calls[i].of>>]
           u == Uses(m)
<1>1. /\ u \in Seq(Block) /\ DOMAIN u = DOMAIN m.calls /\ m.calls \in Seq(Call)
      /\ \A k \in DOMAIN m.calls : u[k] = UseOf(m.calls[k])
  BY UsesIs, MessageFacts
<1>2. \A c : UseOf(c).type = "use" /\ UseOf(c).of = c.of
  BY DEF UseOf
<1>3. \A k \in DOMAIN m.calls : s[k] = <<"use", m.calls[k].of>>
  OBVIOUS
<1>4. s = [i \in 1..Len(m.calls) |-> s[i]] /\ Len(m.calls) \in Nat /\ DOMAIN m.calls = 1..Len(m.calls)
  BY <1>1
<1>5. /\ Each(u) \in Seq(Seq(Word)) /\ Len(Each(u)) = Len(u)
      /\ \A i \in DOMAIN u : Each(u)[i] = Words(u[i])
  BY <1>1, EachBlock
<1> HIDE DEF s, u
<1>6. \A k \in DOMAIN m.calls : u[k] \in Block /\ u[k].type = "use" /\ u[k].of = m.calls[k].of
  BY <1>1, <1>2
<1>7. \A k \in DOMAIN m.calls : Words(u[k]) = <<<<"use", m.calls[k].of>>>> /\ <<"use", m.calls[k].of>> \in Word
  BY <1>6, BlockWords
<1>8. s \in Seq(Word) /\ Len(s) = Len(m.calls) /\ DOMAIN s = DOMAIN m.calls
  <2>1. \A k \in 1..Len(m.calls) : s[k] \in Word
    BY <1>3, <1>4, <1>7
  <2>2. QED
    BY <1>4, <2>1
<1>9. \A k \in DOMAIN s : Each(u)[k] = <<s[k]>>
  BY <1>1, <1>3, <1>5, <1>7, <1>8
<1>10. Len(Each(u)) = Len(s)
  <2>1. Len(u) = Len(m.calls)
    BY <1>1
  <2>2. QED
    BY <1>5, <1>8, <2>1
<1>11. FlattenSeq(Each(u)) = s
  BY <1>5, <1>8, <1>9, <1>10, FlattenSingles
<1>12. QED
  BY <1>11 DEF s, u

LEMMA OneBlock ==
  ASSUME NEW b \in Block
  PROVE  Each(<<b>>) = <<Words(b)>> /\ FlattenSeq(Each(<<b>>)) = Words(b)
<1>1. <<>> \in Seq(Block) /\ <<b>> = Append(<<>>, b) /\ Each(<<>>) = <<>>
  BY DEF Each
<1>2. Words(b) \in Seq(Word) /\ <<>> \in Seq(Seq(Word))
  <2>1. <<>> \in Seq(Seq(Word))
    OBVIOUS
  <2>2. QED
    BY <2>1, BlockWords
<1>3. Each(<<b>>) = Append(<<>>, Words(b))
  BY <1>1, EachBlock
<1>4. FlattenSeq(Append(<<>>, Words(b))) = FlattenSeq(<<>>) \o Words(b)
  BY <1>2, FlattenAppend
<1>5. <<>> \o Words(b) = Words(b)
  BY <1>2
<1>6. Append(<<>>, Words(b)) = <<Words(b)>>
  OBVIOUS
<1>7. QED
  BY <1>1, <1>3, <1>4, <1>5, <1>6, FlattenNone

LEMMA TextAndUses ==
  ASSUME NEW b \in Block, NEW u \in Seq(Block)
  PROVE  FlattenSeq(Each(<<b>> \o u)) = Words(b) \o FlattenSeq(Each(u))
<1> DEFINE v == <<b>> \o u
           l == Len(u)
<1>1. /\ l \in Nat /\ v \in Seq(Block) /\ DOMAIN v = 1..(l + 1) /\ v[1] = b
      /\ \A i \in 1..l : v[i + 1] = u[i]
  OBVIOUS
<1>2. /\ Each(u) \in Seq(Seq(Word)) /\ Len(Each(u)) = l /\ DOMAIN u = 1..l
      /\ \A i \in 1..l : Each(u)[i] = Words(u[i])
  BY EachBlock
<1>3. Words(b) \in Seq(Word)
  BY BlockWords
<1> DEFINE w == <<Words(b)>> \o Each(u)
<1>4. w \in Seq(Seq(Word)) /\ Len(w) = l + 1 /\ w[1] = Words(b) /\ \A i \in 1..l : w[i + 1] = Each(u)[i]
  BY <1>1, <1>2, <1>3
<1> HIDE DEF v, l, w
<1>5. \A i \in 1..(l + 1) : i = 1 \/ (i - 1 \in 1..l /\ i - 1 + 1 = i)
  BY <1>1
<1>6. \A i \in 1..(l + 1) : w[i] = Words(v[i])
  <2> SUFFICES ASSUME NEW i \in 1..(l + 1) PROVE w[i] = Words(v[i])
    OBVIOUS
  <2>1. CASE i = 1
    BY <1>1, <1>4, <2>1
  <2>2. CASE i # 1
    <3> DEFINE k == i - 1
    <3>1. k \in 1..l /\ k + 1 = i
      BY <1>5, <2>2
    <3> HIDE DEF k
    <3>2. w[k + 1] = Each(u)[k] /\ v[k + 1] = u[k] /\ Each(u)[k] = Words(u[k])
      BY <1>1, <1>2, <1>4, <3>1
    <3>3. QED
      BY <3>1, <3>2
  <2>3. QED
    BY <2>1, <2>2
<1>7. w = [i \in 1..(l + 1) |-> w[i]]
  BY <1>4
<1>8. Each(v) = w
  BY <1>1, <1>6, <1>7 DEF Each
<1>9. FlattenSeq(w) = Words(b) \o FlattenSeq(Each(u))
  BY <1>2, <1>3, FlattenCons DEF w
<1>10. QED
  BY <1>8, <1>9 DEF v

LEMMA BlocksSay ==
  ASSUME NEW p \in {"anthropic", "bedrock", "gemini"}, NEW m \in Message,
         m.role # "tool", m.role # "assistant" => m.calls = <<>>
  PROVE  /\ Spoken(m, p # "gemini") \in Seq(Word)
         /\ FlattenSeq(Each(Blocks(p, m))) = Spoken(m, p # "gemini")
<1> DEFINE bs == Blocks(p, m)
           t == Text(m)
           s == [type |-> "string", text |-> m.text]
           u == Uses(m)
           c == [i \in DOMAIN m.calls |-> <<"use", m.calls[i].of>>]
           x == IF m.text = Empty THEN <<>> ELSE <<<<"text", m.text>>>>
           said == Spoken(m, p # "gemini")
<1>1. u \in Seq(Block) /\ Each(u) \in Seq(Seq(Word)) /\ FlattenSeq(Each(u)) = c
  BY UsesIs, EachBlock, UsesSay
<1>2. c \in Seq(Word)
  BY <1>1, FlattenTyped
<1>3. /\ t \in Block /\ s \in Block /\ t.type = "text" /\ s.type = "string"
      /\ t.text = m.text /\ s.text = m.text /\ m.text \in Nat
  <2>1. m.text \in Nat
    BY MessageFacts
  <2>2. t \in [type : {"text", "string"}, text : Nat] /\ s \in [type : {"text", "string"}, text : Nat]
    BY <2>1 DEF Text
  <2>3. QED
    BY <2>1, <2>2 DEF Block, Text
<1>4. Words(t) = x /\ Words(s) = x /\ x \in Seq(Word)
  BY <1>3, BlockWords
<1>5. /\ m.calls = <<>> => c = <<>>
      /\ m.role = "system" => said = <<>>
      /\ m.role # "system" =>
           said = (IF m.text # Empty /\ (m.calls = <<>> \/ p # "gemini") THEN <<<<"text", m.text>>>> ELSE <<>>) \o c
  BY DEF Spoken
<1>6. \/ bs = <<>> /\ m.role = "system"
      \/ bs = u /\ m.role # "system" /\ (m.text = Empty \/ (p = "gemini" /\ m.calls # <<>>))
      \/ (bs = <<t>> \/ bs = <<s>>) /\ m.calls = <<>> /\ m.role # "system"
      \/ bs = <<t>> \o u /\ m.role # "system" /\ m.text # Empty /\ p # "gemini"
  <2>1. CASE p = "anthropic"
    BY <2>1 DEF Blocks, AnthropicBlocks
  <2>2. CASE p = "bedrock"
    BY <2>2 DEF Blocks, BedrockBlocks
  <2>3. CASE p = "gemini"
    BY <2>3 DEF Blocks, GeminiBlocks
  <2>4. QED
    BY <2>1, <2>2, <2>3
<1> HIDE DEF bs, t, s, u, c, said
<1>7. CASE bs = <<>> /\ m.role = "system"
  <2>1. Each(bs) = <<>>
    BY <1>7 DEF Each
  <2>2. <<>> \in Seq(Word)
    OBVIOUS
  <2>3. QED
    BY <1>5, <1>7, <2>1, <2>2, FlattenNone DEF bs, said
<1>8. CASE bs = u /\ m.role # "system" /\ (m.text = Empty \/ (p = "gemini" /\ m.calls # <<>>))
  <2>1. said = <<>> \o c
    BY <1>5, <1>8
  <2>2. <<>> \o c = c
    BY <1>2
  <2>3. QED
    BY <1>1, <1>2, <1>8, <2>1, <2>2 DEF bs, said
<1>9. CASE (bs = <<t>> \/ bs = <<s>>) /\ m.calls = <<>> /\ m.role # "system"
  <2>1. FlattenSeq(Each(bs)) = x
    BY <1>3, <1>4, <1>9, OneBlock
  <2>2. said = x \o <<>>
    BY <1>5, <1>9
  <2>3. x \o <<>> = x
    BY <1>4
  <2>4. QED
    BY <1>4, <2>1, <2>2, <2>3 DEF bs, said
<1>10. CASE bs = <<t>> \o u /\ m.role # "system" /\ m.text # Empty /\ p # "gemini"
  <2>1. FlattenSeq(Each(bs)) = Words(t) \o FlattenSeq(Each(u))
    BY <1>1, <1>3, <1>10, TextAndUses
  <2>2. said = x \o c
    BY <1>5, <1>10
  <2>3. x \o c \in Seq(Word)
    BY <1>2, <1>4
  <2>4. QED
    BY <1>1, <1>4, <2>1, <2>2, <2>3 DEF bs, said
<1>11. QED
  BY <1>6, <1>7, <1>8, <1>9, <1>10

\* One more message says its words more.
LEMMA AfterSays ==
  ASSUME messages \in Seq(Message), Conversation, NEW p \in {"anthropic", "bedrock", "gemini"},
         NEW n \in DOMAIN messages, NEW turns \in Seq(TurnRecord)
  PROVE  /\ Spoken(messages[n], p # "gemini") \in Seq(Word)
         /\ AllWords(After(p, turns, messages[n])) = AllWords(turns) \o Spoken(messages[n], p # "gemini")
<1> DEFINE m == messages[n]
           t == After(p, turns, m)
           l == Len(turns)
           b == ResultOf(p, m)
           said == Spoken(m, p # "gemini")
<1>1. m \in Message /\ (m.role # "assistant" => m.calls = <<>>)
  BY DEF Conversation, Spoke
<1>2. m.role = "tool" => b \in Block /\ b.type = "result" /\ b.of = m.of
  BY ResultsAreBlocks DEF ResultOf, Result, NamedResult
<1>3. /\ t \in Seq(TurnRecord)
      /\ \/ /\ m.role = "tool" /\ turns # <<>> /\ Len(t) = l
            /\ \A i \in 1..(l - 1) : t[i] = turns[i]
            /\ t[l].blocks = Append(turns[l].blocks, b)
         \/ /\ m.role = "tool"
            /\ t = Append(turns, [role |-> "user", blocks |-> <<b>>])
         \/ m.role # "tool" /\ Blocks(p, m) = <<>> /\ t = turns
         \/ /\ m.role # "tool" /\ Blocks(p, m) # <<>>
            /\ t = Append(turns, [role |-> m.role, blocks |-> Blocks(p, m)])
  BY <1>1, <1>2, AfterIs
<1>4. m.role = "tool" => said = <<<<"result", m.of>>>> /\ said = Words(b) /\ said \in Seq(Word)
  <2>1. m.role = "tool" => said = <<<<"result", m.of>>>>
    BY DEF Spoken
  <2> HIDE DEF said, b, m
  <2>2. m.role = "tool" => Words(b) = <<<<"result", m.of>>>> /\ Words(b) \in Seq(Word)
    BY <1>2, BlockWords
  <2>3. QED
    BY <2>1, <2>2
<1>5. m.role # "tool" => said \in Seq(Word) /\ FlattenSeq(Each(Blocks(p, m))) = said
  BY <1>1, BlocksSay
<1>6. AllWords(turns) \in Seq(Word)
  BY EachTurn
<1>7. m.role \in {"system", "user", "assistant", "tool"}
  BY <1>1, MessageFacts
<1>8. m.role = "system" => Blocks(p, m) = <<>>
  BY DEF Blocks, AnthropicBlocks, BedrockBlocks, GeminiBlocks
<1>9. m.role # "tool" => Blocks(p, m) \in Seq(Block)
  BY <1>1, BlocksIs
<1> HIDE DEF m, t, l, b, said
<1>10. CASE /\ m.role = "tool" /\ turns # <<>> /\ Len(t) = l
            /\ \A i \in 1..(l - 1) : t[i] = turns[i]
            /\ t[l].blocks = Append(turns[l].blocks, b)
  <2>1. AllWords(t) = AllWords(turns) \o Words(b)
    BY <1>2, <1>3, <1>10, WordsJoin DEF l
  <2>2. QED
    BY <1>4, <1>10, <2>1 DEF t, m, said
<1>11. CASE m.role = "tool" /\ t = Append(turns, [role |-> "user", blocks |-> <<b>>])
  <2> DEFINE r == [role |-> "user", blocks |-> <<b>>]
  <2>1. r \in TurnRecord /\ r.blocks = <<b>>
    <3>1. <<b>> \in Seq(Block)
      BY <1>2, <1>11
    <3>2. QED
      BY <3>1 DEF TurnRecord
  <2> HIDE DEF r
  <2>2. TurnWords(r) = Words(b)
    BY <1>2, <1>11, <2>1, TurnWordsIs, OneBlock
  <2>3. AllWords(t) = AllWords(turns) \o TurnWords(r)
    BY <1>11, <2>1, WordsAppend DEF r
  <2>4. QED
    BY <1>4, <1>11, <2>2, <2>3 DEF t, m, said
<1>12. CASE m.role # "tool" /\ Blocks(p, m) = <<>> /\ t = turns
  <2>1. said = <<>>
    <3>1. Each(<<>>) = <<>>
      BY DEF Each
    <3>2. QED
      BY <1>5, <1>12, <3>1, FlattenNone
  <2>2. AllWords(turns) \o <<>> = AllWords(turns)
    BY <1>6
  <2>3. QED
    BY <1>5, <1>12, <2>1, <2>2 DEF t, m, said
<1>13. CASE /\ m.role # "tool" /\ Blocks(p, m) # <<>>
            /\ t = Append(turns, [role |-> m.role, blocks |-> Blocks(p, m)])
  <2> DEFINE r == [role |-> m.role, blocks |-> Blocks(p, m)]
  <2>1. r \in TurnRecord /\ r.blocks = Blocks(p, m)
    <3>1. m.role \in {"user", "assistant"}
      BY <1>7, <1>8, <1>13
    <3>2. QED
      BY <1>9, <1>13, <3>1 DEF TurnRecord
  <2> HIDE DEF r
  <2>2. TurnWords(r) = said
    BY <1>5, <1>13, <2>1, TurnWordsIs
  <2>3. AllWords(t) = AllWords(turns) \o TurnWords(r)
    BY <1>13, <2>1, WordsAppend DEF r
  <2>4. QED
    BY <1>5, <1>13, <2>2, <2>3 DEF t, m, said
<1>14. QED
  BY <1>3, <1>10, <1>11, <1>12, <1>13

\* What the first n messages said.
SaidIn(n, withCalls) == [i \in 1..n |-> Spoken(messages[i], withCalls)]

LEMMA ConvertedSays ==
  ASSUME messages \in Seq(Message), Conversation, NEW p \in {"anthropic", "bedrock", "gemini"}
  PROVE  AllWords(Converted(p)) = FlattenSeq(SaidIn(Len(messages), p # "gemini"))
<1> DEFINE l == Len(messages)
           calls == p # "gemini"
<1>1. l \in Nat /\ DOMAIN messages = 1..l
  OBVIOUS
<1>2. PICK f : Converting(f, p, l) /\ Converted(p) = f[l]
  BY <1>1, ConversionIs
<1>3. /\ f[0] = <<>>
      /\ \A n \in 0..l : f[n] \in Seq(TurnRecord)
      /\ \A n \in 1..l : f[n] = After(p, f[n - 1], messages[n]) /\ n - 1 \in 0..l
  BY <1>2, TurnsTyped
<1>4. \A n \in 1..l : /\ Spoken(messages[n], calls) \in Seq(Word)
                      /\ AllWords(f[n]) = AllWords(f[n - 1]) \o Spoken(messages[n], calls)
  <2> SUFFICES ASSUME NEW n \in 1..l
               PROVE  /\ Spoken(messages[n], calls) \in Seq(Word)
                      /\ AllWords(f[n]) = AllWords(f[n - 1]) \o Spoken(messages[n], calls)
    OBVIOUS
  <2>1. n \in DOMAIN messages /\ f[n - 1] \in Seq(TurnRecord) /\ f[n] = After(p, f[n - 1], messages[n])
    BY <1>1, <1>3
  <2>2. QED
    BY <2>1, AfterSays
<1> HIDE DEF l, calls
<1> DEFINE ss == SaidIn(l, calls)
           g == [n \in 0..l |-> AllWords(f[n])]
<1>5. /\ ss \in Seq(Seq(Word)) /\ Len(ss) = l
      /\ \A n \in 1..l : ss[n] = Spoken(messages[n], calls)
  <2>1. ss = [n \in 1..l |-> Spoken(messages[n], calls)]
    BY DEF SaidIn
  <2>2. QED
    BY <1>1, <1>4, <2>1
<1>6. g[0] = <<>>
  <2>1. AllWords(<<>>) = <<>>
    BY FlattenNone DEF AllWords
  <2>2. 0 \in 0..l
    BY <1>1
  <2>3. QED
    BY <1>3, <2>1, <2>2
<1>7. \A n \in 1..l : g[n] = g[n - 1] \o ss[n]
  <2>1. \A n \in 1..l : n \in 0..l /\ n - 1 \in 0..l
    BY <1>1
  <2>2. \A n \in 0..l : g[n] = AllWords(f[n])
    OBVIOUS
  <2> HIDE DEF g, ss
  <2>3. QED
    BY <1>4, <1>5, <2>1, <2>2
<1>8. g[l] = AllWords(f[l])
  <2>1. l \in 0..l
    BY <1>1
  <2>2. QED
    BY <2>1
<1> HIDE DEF g, ss
<1>9. Chained(g, ss, Len(ss))
  BY <1>5, <1>6, <1>7 DEF Chained
<1>10. FlattenSeq(ss) = g[l]
  BY <1>5, <1>9, FlattenIs
<1>11. QED
  BY <1>2, <1>8, <1>10 DEF ss, l, calls

LEMMA Keeping == Inv => ConversationKept
<1> SUFFICES ASSUME Inv, request.by \in {"anthropic", "bedrock", "gemini"}
             PROVE  AllWords(request.turns) =
                      FlattenSeq([i \in DOMAIN messages |-> Spoken(messages[i], ~By("gemini"))])
  BY DEF ConversationKept
<1>1. messages \in Seq(Message) /\ Conversation /\ DOMAIN messages = 1..Len(messages)
  BY DEF Inv, TypeOK
<1>2. request.turns = Converted(request.by)
  <2>1. request # NoRequest
    BY DEF NoRequest
  <2>2. QED
    BY <2>1 DEF Inv, Requested, Turns
<1>3. AllWords(Converted(request.by)) = FlattenSeq(SaidIn(Len(messages), request.by # "gemini"))
  BY <1>1, ConvertedSays
<1>4. SaidIn(Len(messages), request.by # "gemini") =
        [i \in DOMAIN messages |-> Spoken(messages[i], ~By("gemini"))]
  BY <1>1 DEF SaidIn, By
<1>5. QED
  BY <1>2, <1>3, <1>4

\* No conversion of a history loses, repeats or reorders anything of it, but
\* Gemini's the text beside tool calls (anthropic_backend.py:155-190,
\* bedrock_backend.py:163-199, gemini_backend.py:136-212).
THEOREM NothingLost == Spec => []ConversationKept
BY Invariance, Keeping, PTL
=============================================================================

--------------------------- MODULE BatchEmbedding ---------------------------
(***************************************************************************)
(* The texts of one embedding request and the vectors of its response:     *)
(* OpenAIEmbedder pairs them by the index an item carries and refuses a    *)
(* response that leaves a text without a vector; GeminiEmbedder and the    *)
(* Cohere models of BedrockEmbedder pair in order and leave empty what did *)
(* not come.  Bedrock's Titan models take a batch as one call, which is a  *)
(* gather of single requests inside.                                       *)
(*                                                                         *)
(* A text is its place in the request, 1..n; a vector is named by the      *)
(* place of the text it was computed from, and NoVector is the empty one.  *)
(***************************************************************************)
EXTENDS Naturals, SequencesExt

NoVector == 0

\* What an item says of the text it is about: its index, nothing, or nonsense.
Label == {"index", "none", "garbled"}

Items(n) == [of : 1..n, label : Label, empty : BOOLEAN]

Vector(item) == IF item.empty THEN NoVector ELSE item.of

----------------------------------------------------------------------------
(* The providers *)

Increasing(s) == \A i, j \in DOMAIN s : i < j => s[i].of < s[j].of

\* Texts may be dropped, repeated, reordered or answered with an empty vector, but
\* a provider that leaves an index out keeps the order of the request.
IndexedResponses(n) ==
  {s \in BoundedSeq(Items(n), n) :
     (\E i \in DOMAIN s : s[i].label # "index") => Increasing(s)}

\* A provider without indexes answers in order, and may stop short.
OrderedResponses(n) == {s \in BoundedSeq(Items(n), n) : \A i \in DOMAIN s : s[i].of = i}

----------------------------------------------------------------------------
(* The pairing *)

\* The text an item stands for: by its index, or by its arrival where it carries
\* none; 0 where the index is no place of the request.
Position(s, arrival) ==
  IF s[arrival].label = "index" THEN s[arrival].of
  ELSE IF s[arrival].label = "none" THEN arrival
  ELSE 0

\* A later item of the same position wins.
ByIndex(n, s) ==
  [i \in 1..n |->
     LET said == {a \in DOMAIN s : Position(s, a) = i}
     IN IF said = {} THEN NoVector
        ELSE Vector(s[CHOOSE a \in said : \A b \in said : b <= a])]

\* zip(wanted, embeddings)
ByOrder(n, s) == [i \in 1..n |-> IF i \in DOMAIN s THEN Vector(s[i]) ELSE NoVector]

\* Mutant: a response with any vector passes for a success.
Refused_allEmpty(vectors) == \A i \in DOMAIN vectors : vectors[i] = NoVector

\* EmbeddingResponseError: a text that was sent has no vector.
Refused(vectors) == \E i \in DOMAIN vectors : vectors[i] = NoVector

----------------------------------------------------------------------------
Inner == {"by index", "by order", "titan", "one by one"}

\* What a request of n texts may bring, by the wrapped embedder's way of pairing.
Outcomes(inner, n) ==
  IF inner = "by index" THEN {ByIndex(n, s) : s \in IndexedResponses(n)}
  ELSE {ByOrder(n, s) : s \in OrderedResponses(n)}
=============================================================================

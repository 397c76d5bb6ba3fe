--------------------------- MODULE OllamaEmbedder ---------------------------
(***************************************************************************)
(* One OllamaEmbedder shared by the coroutines of a host (ollama.py): two  *)
(* endpoints, and a flag read before the await of the first and written    *)
(* after it.  A similarity runs two embeddings side by side.  The names    *)
(* are not those of OllamaBackend: OllamaProofs extends both modules.      *)
(***************************************************************************)
EXTENDS Naturals, FiniteSets

CONSTANTS
  Workers,   \* the embeddings that may run at once
  Counts,    \* the prompt_eval_count it reports
  MaxTrips   \* bound: requests to /api/embed answered with 404 or 405

ASSUME WorkersAssumption == IsFiniteSet(Workers)
ASSUME CountsAssumption == Counts \subseteq Nat /\ MaxTrips \in Nat

VARIABLES
  modern,      \* the server has /api/embed
  legacyOnly,  \* _legacy_only
  embedding,   \* embedding[w]: the endpoint w waits for, and the flag it read first
  missing,     \* history: 404/405 answers of /api/embed so far
  outcome      \* history: what the embedding that just ended returned

embedderVars == <<modern, legacyOnly, embedding, missing, outcome>>

Endpoint == {"embed", "embeddings"}
NotEmbedding == [at |-> "idle"]
NoOutcome == [from |-> "none"]

----------------------------------------------------------------------------
\* The flag decides which endpoint is asked first.
Embed(w) ==
  /\ embedding[w] = NotEmbedding
  /\ embedding' = [embedding EXCEPT ![w] = [at |-> IF legacyOnly THEN "embeddings" ELSE "embed",
                                            knew |-> legacyOnly]]
  /\ outcome' = NoOutcome
  /\ UNCHANGED <<modern, legacyOnly, missing>>

Asked(w, endpoint) == embedding[w] # NotEmbedding /\ embedding[w].at = endpoint

EmbeddingEnds(w, endpoint, tokens) ==
  /\ embedding' = [embedding EXCEPT ![w] = NotEmbedding]
  /\ outcome' = [from |-> endpoint, tokens |-> tokens]

Embedded(w) ==
  /\ modern
  /\ Asked(w, "embed")
  /\ \E n \in Counts : EmbeddingEnds(w, "embed", n)
  /\ UNCHANGED <<modern, legacyOnly, missing>>

\* Mutant: the missing endpoint is not remembered.
EndpointMissing_forgotten(w) ==
  /\ missing < MaxTrips
  /\ Asked(w, "embed")
  /\ missing' = missing + 1
  /\ embedding' = [embedding EXCEPT ![w].at = "embeddings"]
  /\ outcome' = NoOutcome
  /\ UNCHANGED <<modern, legacyOnly>>

\* 404 or 405, which a server that has the endpoint may answer too, of a model it
\* lacks: remembered, and the same text goes to the legacy endpoint.
EndpointMissing(w) ==
  /\ missing < MaxTrips
  /\ Asked(w, "embed")
  /\ missing' = missing + 1
  /\ legacyOnly' = TRUE
  /\ embedding' = [embedding EXCEPT ![w].at = "embeddings"]
  /\ outcome' = NoOutcome
  /\ UNCHANGED modern

\* The legacy endpoint, which every server has, reports no count.
LegacyEmbedded(w) ==
  /\ Asked(w, "embeddings")
  /\ EmbeddingEnds(w, "embeddings", 0)
  /\ UNCHANGED <<modern, legacyOnly, missing>>

\* Mutant: every failed answer counts as a missing endpoint.
EmbeddingRaises_asMissing(w) ==
  /\ embedding[w] # NotEmbedding
  /\ UNCHANGED modern
  /\ embedding' = [embedding EXCEPT ![w] = NotEmbedding]
  /\ outcome' = NoOutcome
  /\ legacyOnly' = TRUE
  /\ UNCHANGED missing

\* Any other status, a timeout: the error propagates.
EmbeddingRaises(w) ==
  /\ embedding[w] # NotEmbedding
  /\ embedding' = [embedding EXCEPT ![w] = NotEmbedding]
  /\ outcome' = NoOutcome
  /\ UNCHANGED <<modern, legacyOnly, missing>>

\* The server is replaced by one that has the endpoint.
Upgrade ==
  /\ ~modern
  /\ modern' = TRUE
  /\ outcome' = NoOutcome
  /\ UNCHANGED <<legacyOnly, embedding, missing>>

----------------------------------------------------------------------------
EmbedderInit ==
  /\ modern \in BOOLEAN
  /\ legacyOnly = FALSE
  /\ embedding = [w \in Workers |-> NotEmbedding]
  /\ missing = 0
  /\ outcome = NoOutcome

EmbedderNext ==
  \/ Upgrade
  \/ \E w \in Workers :
       Embed(w) \/ Embedded(w) \/ EndpointMissing(w) \/ LegacyEmbedded(w) \/ EmbeddingRaises(w)

EmbedderSpec == EmbedderInit /\ [][EmbedderNext]_embedderVars
----------------------------------------------------------------------------
(* Properties *)

\* An old server costs at most one failed request per embedding that was in
\* flight before the first 404 was answered: once the flag is up no embedding
\* that starts asks /api/embed again, however the rest interleave.
MissesBounded ==
  /\ missing <= Cardinality(Workers)
  /\ \A w \in Workers : embedding[w] # NotEmbedding /\ embedding[w].knew => embedding[w].at = "embeddings"

\* A server that never said 404 is never billed at 0 through the legacy
\* endpoint: no other answer, error or timeout raises the flag.
ModernIsMetered == missing = 0 => ~legacyOnly /\ outcome.from # "embeddings"
=============================================================================

-------------------------- MODULE CachingEmbedder --------------------------
(***************************************************************************)
(* One CachingEmbedder shared by the coroutines of a host (cache.py): an   *)
(* LRU cache and the usage counters, read before the await of the wrapped  *)
(* embedder and written after it.  Nothing joins two misses of one key.    *)
(* The wrapped embedder is a cloud one (BatchEmbedding) or takes one text  *)
(* at a time, like Ollama's.  A batch is one request, or a gather of       *)
(* single ones: the wrapper's own around Ollama, the embedder's in Titan.  *)
(*                                                                         *)
(* A nonempty vector is named by the text the provider computed it from.   *)
(***************************************************************************)
EXTENDS BatchEmbedding

CONSTANTS
  Tasks,      \* the coroutines that share the embedder
  Texts,      \* the texts they embed
  NoText,     \* "" (and the empty vector)
  KeyOf,      \* KeyOf[x]: x stripped and lowercased
  Asks,       \* the calls they make (a subset of Ask)
  CacheSize,  \* cache_size
  Counts,     \* the token counts a provider reports
  MaxCalls    \* bound: calls begun in a behaviour

Ask == [kind : {"one", "batch"}, texts : Seq(Texts \cup {NoText})]

ASSUME TasksAssumption == IsFiniteSet(Tasks)
ASSUME TextsAssumption == NoText \notin Texts /\ KeyOf \in [Texts -> Texts]
ASSUME AsksAssumption == \A a \in Asks : a \in Ask /\ a.texts # <<>>
ASSUME SizeAssumption == CacheSize \in Nat /\ MaxCalls \in Nat /\ Counts \subseteq Nat

VARIABLES
  inner,    \* how the wrapped embedder pairs, or that it takes one text at a time
  cache,    \* _cache: <<key, vector>> pairs, least recently used first
  usage,    \* _usage
  call,     \* call[t]: t's call in progress, or Idle
  orphans,  \* single requests a failed gather left running
  begun,    \* bound: calls begun so far
  billed,   \* history: the requests the provider answered, and their tokens
  raised,   \* history: a call has raised or was cancelled
  recency,  \* history: every key stored or hit, latest use last
  returned  \* history: what the call that just ended returned

vars == <<inner, cache, usage, call, orphans, begun, billed, raised, recency, returned>>

\* The embedders whose batches are gathers of single requests.
Gathers == {"one by one", "titan"}

Idle == [texts |-> <<>>]
NothingReturned == [texts |-> <<>>, vecs |-> <<>>]
NoUsage == [calls |-> 0, tokens |-> 0]

Plus(u, trips, tokens) == [calls |-> u.calls + trips, tokens |-> u.tokens + tokens]

----------------------------------------------------------------------------
(* The OrderedDict *)

Keys(c) == [i \in DOMAIN c |-> c[i][1]]

Place(c, k) == CHOOSE i \in DOMAIN c : c[i][1] = k

Cached(c, k) == c[Place(c, k)][2]

Without(c, k) == IF k \in ToSet(Keys(c)) THEN RemoveAt(c, Place(c, k)) ELSE c

\* Mutant: a hit leaves its entry where it is.
MoveToEnd_fifo(c, k) == c

MoveToEnd(c, k) == Append(Without(c, k), <<k, Cached(c, k)>>)

\* popitem(last=False) while the cache is too long.
Evict(c) == SubSeq(c, 1 + (IF Len(c) > CacheSize THEN Len(c) - CacheSize ELSE 0), Len(c))

\* Mutant: a key that was stored while this call waited is stored beside it.
Store_appended(c, k, v) ==
  Evict(Append(c, <<k, v>>))

Store(c, k, v) == Evict(Append(Without(c, k), <<k, v>>))

----------------------------------------------------------------------------
(* Before the await *)

Hits(texts) ==
  {i \in DOMAIN texts : texts[i] # NoText /\ KeyOf[texts[i]] \in ToSet(Keys(cache))}

Misses(texts) == {i \in DOMAIN texts \ Hits(texts) : texts[i] # NoText}

UseLast(r, k) == Append(RemoveFirst(r, k), k)

\* The cache, and the keys by their latest use.
Memory == [cache |-> cache, recency |-> recency]

Hit(m, k) == [cache |-> MoveToEnd(m.cache, k), recency |-> UseLast(m.recency, k)]

\* The memory after the hits, in the order of the texts.
AfterHits(texts) ==
  LET after[n \in 0..Len(texts)] ==
        IF n = 0 THEN Memory
        ELSE IF n \in Hits(texts) THEN Hit(after[n - 1], KeyOf[texts[n]])
        ELSE after[n - 1]
  IN after[Len(texts)]

\* The hits are answered, the misses go to the wrapped embedder; with nothing
\* missed the call returns without waiting.
Embed(t) ==
  /\ call[t] = Idle
  /\ begun < MaxCalls
  /\ begun' = begun + 1
  /\ \E a \in Asks :
       LET hits == Hits(a.texts)
           found == [i \in DOMAIN a.texts |->
                       IF i \in hits THEN Cached(cache, KeyOf[a.texts[i]]) ELSE NoText]
       IN /\ cache' = AfterHits(a.texts).cache
          /\ recency' = AfterHits(a.texts).recency
          /\ IF Misses(a.texts) = {}
               THEN returned' = [texts |-> a.texts, vecs |-> found] /\ UNCHANGED call
               ELSE /\ call' = [call EXCEPT ![t] =
                          [texts |-> a.texts, out |-> found, sent |-> Misses(a.texts),
                           got |-> {}, tokens |-> 0,
                           gather |-> a.kind = "batch" /\ inner \in Gathers]]
                    /\ returned' = NothingReturned
  /\ UNCHANGED <<inner, usage, orphans, billed, raised>>

----------------------------------------------------------------------------
(* After the await *)

Waiting(t) == call[t] # Idle

\* The n-th of the texts sent, and which of them text i is.
Rank(sent, i) == Cardinality({j \in sent : j <= i})
Nth(sent, n) == CHOOSE i \in sent : Rank(sent, i) = n

\* Mutant: the vectors are laid out from the first slot on.
Filled_packed(c, out, vecs) ==
  [i \in DOMAIN out |-> IF i <= Cardinality(c.sent) THEN vecs[Nth(c.sent, i)] ELSE out[i]]

\* zip(misses, vecs): each vector in the slot of its own text.
Filled(c, out, vecs) == [i \in DOMAIN out |-> IF i \in c.sent THEN vecs[i] ELSE out[i]]

\* Mutant: every text of a batch is counted as a call.
Trips_perText(c) == Cardinality(c.sent)

\* The wrapper counts the calls it makes: Titan's gather is one of them.
Trips(c) == IF c.gather /\ inner = "one by one" THEN Cardinality(c.sent) ELSE 1

\* Gemini and Bedrock's Cohere models report no tokens.
Reports == IF inner = "by order" THEN {0} ELSE Counts

\* The empty vector is never cached, and cache_size 0 caches nothing.
Put(m, k, v) ==
  IF v = NoText \/ CacheSize = 0 THEN m
  ELSE [cache |-> Store(m.cache, k, v), recency |-> UseLast(m.recency, k)]

\* The memory after the vectors that came are stored, in the order of the texts.
AfterStores(c, vecs) ==
  LET after[n \in 0..Len(c.texts)] ==
        IF n = 0 THEN Memory
        ELSE IF n \in c.sent THEN Put(after[n - 1], KeyOf[c.texts[n]], vecs[n])
        ELSE after[n - 1]
  IN after[Len(c.texts)]

\* The counters, the cache and the answer, without a further suspension.
Deliver(t, vecs, tokens) ==
  LET c == call[t]
  IN /\ usage' = Plus(usage, Trips(c), tokens)
     /\ cache' = AfterStores(c, vecs).cache
     /\ recency' = AfterStores(c, vecs).recency
     /\ returned' = [texts |-> c.texts, vecs |-> Filled(c, c.out, vecs)]
     /\ call' = [call EXCEPT ![t] = Idle]

\* The vectors of a response, each named by its text.
Named(c, v) ==
  [i \in c.sent |-> LET of == v[Rank(c.sent, i)]
                    IN IF of = NoVector THEN NoText ELSE c.texts[Nth(c.sent, of)]]

\* What the provider answers for each text of a gather: its vector, or none.
Answers(c) == {v \in [c.sent -> Texts \cup {NoText}] : \A i \in c.sent : v[i] \in {c.texts[i], NoText}}

\* How many texts of one request there may be; computed once for all states.
Sizes == UNION {1..Cardinality({i \in DOMAIN a.texts : a.texts[i] # NoText}) : a \in Asks}

OutcomesOf == [i \in Inner |-> [n \in Sizes |-> Outcomes(i, n)]]

\* One request: a single text, or a batch the wrapped embedder takes as one.
InnerAnswered(t) ==
  /\ Waiting(t)
  /\ ~call[t].gather
  /\ \E v \in OutcomesOf[inner][Cardinality(call[t].sent)], n \in Reports :
       /\ ~(inner = "by index" /\ Refused(v))
       /\ billed' = Plus(billed, 1, n)
       /\ Deliver(t, Named(call[t], v), n)
  /\ UNCHANGED <<inner, orphans, begun, raised>>

\* The response is refused: the provider bills it, the embedder raises.
ResponseRefused(t) ==
  /\ Waiting(t)
  /\ inner = "by index"
  /\ \E v \in OutcomesOf[inner][Cardinality(call[t].sent)], n \in Reports :
       Refused(v) /\ billed' = Plus(billed, 1, n)
  /\ raised' = TRUE
  /\ call' = [call EXCEPT ![t] = Idle]
  /\ returned' = NothingReturned
  /\ UNCHANGED <<inner, cache, usage, orphans, begun, recency>>

\* One of the concurrent single requests of a batch is answered.
SingleAnswered(t) ==
  /\ Waiting(t)
  /\ call[t].gather
  /\ \E i \in call[t].sent \ call[t].got, n \in Counts :
       /\ call' = [call EXCEPT ![t].got = @ \cup {i}, ![t].tokens = @ + n]
       /\ billed' = Plus(billed, 1, n)
  /\ returned' = NothingReturned
  /\ UNCHANGED <<inner, cache, usage, orphans, begun, raised, recency>>

\* The last one was: gather resumes the call on a later turn of the loop.
Gathered(t) ==
  /\ Waiting(t)
  /\ call[t].gather
  /\ call[t].got = call[t].sent
  /\ \E vecs \in Answers(call[t]) :
       Deliver(t, vecs, call[t].tokens)
  /\ UNCHANGED <<inner, orphans, begun, billed, raised>>

\* The wrapped embedder raises.  Of a gather the other single requests run on, and
\* what was answered already is not counted.
InnerRaises(t) ==
  /\ Waiting(t)
  /\ call[t].got # call[t].sent
  /\ call' = [call EXCEPT ![t] = Idle]
  /\ IF call[t].gather
       THEN orphans' = orphans + Cardinality(call[t].sent \ call[t].got) - 1
       ELSE UNCHANGED orphans
  /\ raised' = TRUE
  /\ returned' = NothingReturned
  /\ UNCHANGED <<inner, cache, usage, begun, billed, recency>>

\* A single request that a failed gather left running is answered, or raises.
OrphanEnds ==
  /\ orphans > 0
  /\ orphans' = orphans - 1
  /\ \/ UNCHANGED billed
     \/ \E n \in Counts : billed' = Plus(billed, 1, n)
  /\ returned' = NothingReturned
  /\ UNCHANGED <<inner, cache, usage, call, begun, raised, recency>>

\* The caller is cancelled at the await: a gather's single requests with it, and
\* also after the last of them was answered.
Cancelled(t) ==
  /\ Waiting(t)
  /\ call' = [call EXCEPT ![t] = Idle]
  /\ raised' = TRUE
  /\ returned' = NothingReturned
  /\ UNCHANGED <<inner, cache, usage, orphans, begun, billed, recency>>

\* What the gathers still open were answered, and have not counted yet.
Held ==
  LET open == {t \in Tasks : Waiting(t)}
  IN [calls  |-> Cardinality(UNION {{t} \X call[t].got : t \in open}),
      tokens |-> Cardinality(UNION {{t} \X (1..call[t].tokens) : t \in open})]

\* The history starts again with what an open gather will count later.
ResetUsage ==
  /\ usage' = NoUsage
  /\ billed' = Held
  /\ returned' = NothingReturned
  /\ UNCHANGED <<inner, cache, call, orphans, begun, raised, recency>>

----------------------------------------------------------------------------
Init ==
  /\ inner \in Inner
  /\ cache = <<>>
  /\ usage = NoUsage
  /\ call = [t \in Tasks |-> Idle]
  /\ orphans = 0
  /\ begun = 0
  /\ billed = NoUsage
  /\ raised = FALSE
  /\ recency = <<>>
  /\ returned = NothingReturned

Next ==
  \/ OrphanEnds \/ ResetUsage
  \/ \E t \in Tasks :
       \/ Embed(t)
       \/ InnerAnswered(t) \/ ResponseRefused(t) \/ SingleAnswered(t) \/ Gathered(t)
       \/ InnerRaises(t) \/ Cancelled(t)

Spec == Init /\ [][Next]_vars

----------------------------------------------------------------------------
(* Properties *)

\* However the misses of concurrent calls overlap, the cache holds at most
\* CacheSize keys, each once, and no empty vector.
CacheSound ==
  /\ Len(cache) <= CacheSize
  /\ \A i, j \in DOMAIN cache : cache[i][1] = cache[j][1] => i = j
  /\ \A i \in DOMAIN cache : cache[i][2] # NoText /\ KeyOf[cache[i][2]] = cache[i][1]

\* The cache holds exactly the keys used last, in the order they were used: what
\* was evicted is what nobody had hit or stored for longest.
LeastRecentlyUsedGoes ==
  LET n == IF Len(recency) < CacheSize THEN Len(recency) ELSE CacheSize
  IN Keys(cache) = SubSeq(recency, Len(recency) - n + 1, Len(recency))

\* A vector a call returns stands in the slot of a text of its own key, and the
\* empty text has none.
PairedByKey ==
  \A i \in DOMAIN returned.texts :
    returned.vecs[i] # NoText =>
      /\ returned.texts[i] # NoText
      /\ KeyOf[returned.vecs[i]] = KeyOf[returned.texts[i]]

\* An index-pairing embedder never lets a text come back without a vector: whatever
\* the provider dropped, repeated or mislabelled, the call has them all or raises.
EveryTextOrError ==
  inner = "by index" =>
    \A i \in DOMAIN returned.texts : returned.texts[i] # NoText => returned.vecs[i] # NoText

\* However batches, single calls, failures, cancellations and resets overlap, no
\* answer is counted twice or before it came, and as long as no call has raised all
\* of them are counted, with their tokens: at once, or, in a gather, when the gather
\* is over.  Titan's gather is counted as the one call the wrapper made.
CountedOnce ==
  /\ usage.calls + Held.calls <= billed.calls
  /\ usage.tokens + Held.tokens <= billed.tokens
  /\ ~raised => usage.tokens + Held.tokens = billed.tokens
  /\ ~raised /\ inner # "titan" => usage.calls + Held.calls = billed.calls

\* What the docstring says of the counters (cache.py:16-18): around an embedder that
\* the wrapper calls text by text, every call it answered is counted, with the
\* tokens it reported, however the gathers end.  A gather that fails counts nothing
\* of what its other calls were answered.
UsageComplete ==
  inner = "one by one" =>
    /\ usage.calls + Held.calls = billed.calls
    /\ usage.tokens + Held.tokens = billed.tokens
=============================================================================

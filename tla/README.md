# A TLA+ model of cogno-synapse

cogno-synapse is the transport layer of a larger system: it turns "ask a model",
"ask a model with a JSON Schema", "ask a model with tools" and "embed this text"
into requests to OpenAI and its compatibles, Anthropic, Groq, Gemini, Bedrock and
Ollama, and composes backends into failover chains.  It keeps little state, and
nearly all of it is *shared state read before an `await` and written after it*:
last-call attributes, learned flags, a refusal memory, an LRU cache, cached SDK
clients.  One instance serves many coroutines, so these are the interleavings
the project is about.

## The system

| Component | State | Operations | Talks to |
| --- | --- | --- | --- |
| `OpenAIBackend` (`openai_backend.py`) | `last_cached_tokens`, `last_system_fingerprint`, `last_served_model`, `last_schema_dialect`, `_schema_refusals`, `_tools_need_effort_none` | `generate`, `generate_structured`, `chat_with_tools`, `aclose` | provider, `SchemaRefusals`, `LoopBoundClient` |
| `OllamaBackend` (`ollama.py`) | `format` (read only), `last_schema_dialect`, `_schema_refusals` | `generate`, `generate_structured` | server, `SchemaRefusals` |
| `SchemaRefusals` (`schema.py`) | `_until`, a clock | `refused`, `remember` | its backend |
| schema conversion (`schema.py`) | none | `to_dialect`, `schema_digest`, `dialect_for` | its backend |
| last-call contract (`base.py`) | none | `schema_applied_of`, `cached_tokens_of`, `system_fingerprint_of`, `served_model_of`, `schema_dialect_of` | every caller |
| `FallbackBackend` (`fallback.py`) | `_last_successful`, `last_schema_dialect` | the three calls, forwarded properties, `aclose` | its links, `cogno_homeo.resilient_call` |
| `CachingEmbedder` (`cache.py`) | `_cache`, `_usage` | `embed`, `embed_batch`, `similarity`, `reset_usage` | the wrapped embedder |
| `OllamaEmbedder` (`ollama.py`) | `_legacy_only` | `embed`, `similarity` | server, two endpoints |
| `OpenAIEmbedder`, `GeminiEmbedder`, `BedrockEmbedder` | none (OpenAI and Bedrock: `_client`) | `embed`, `embed_batch` | provider |
| `LoopBoundClient` (`_client_cache.py`) | `_client`, `_loop` | `get`, `aclose` | SDK client, event loop |
| `AnthropicBackend`, `GroqBackend`, `GeminiBackend`, `BedrockBackend` | client; Groq also two last-call attributes | `generate`, `chat_with_tools` | provider; Bedrock: the loop's executor threads |
| tool dialogues (`_convert_messages` of three backends, `tool_parsing.py`) | none; the conversation is the host's | a history to a provider's form, an answer to a message | `chat_with_tools` |
| `factory.py`, `timeouts.py` | none | a model string, a key and the environment to a backend or embedder | every class |
| `key_probe.py`, `_obs.py`, `errors.py`, `_math.py` | none | one request; pure functions | - |

What is hard: several coroutines on one instance (between two suspensions nothing
else runs; at a suspension anything may), calls that raise or are cancelled half
way, retries inside a call (schema refused, tools against reasoning), a clock, a
chain whose links are used by others, batches of which one call fails, a conversation
that changes its provider half way, SDK clients that outlive an event loop, and, in
the Bedrock classes alone, real threads.  `PROJECT.json` lists each hazard at its line.

What makes the parts correct, in a sentence each:

- a caller that reads `last_*` right after its `await` reads about its own call;
- a schema is blamed for a 400 only if the same call went through without it, and
  what is blamed is not sent again inside the window;
- what one tool call learned holds for later ones and changes no text call;
- a chain answers for the link that served, whoever else uses that link;
- the cache is bounded, in order of use, and pairs vectors with their texts, and no
  answer of the provider is counted twice;
- a client is never used across loops, handed out while it closes, or lost;
- a key goes only to the endpoint it belongs to, and every call ends;
- a converted conversation has the turns a provider takes, each tool result under its
  own call, and what a model wrote as one call is made once;
- the strict form of a schema says what the schema says.

## Granularity

A module about asynchronous code has one action per stretch of code between two
suspension points: `StructuredSent` is everything `generate_structured` does up to
the `await` of the SDK, `SchemaRejected` everything from a 400 to the `await` of
the repeat, `RepeatAnswered` everything from that answer to the caller's *next
statement*, where the caller reads.  What it reads is recorded in the history
variable `returned`, which the next step forgets.  That is the contract base.py
states ("read it IMMEDIATELY after the await"); a caller that waits first gets no
promise.  The executor threads of `CloudBackend` are the exception: threads interleave
everywhere, so each of their reads and writes is a step.

## The modules

| Module | Models | Notes |
| --- | --- | --- |
| `SchemaForms` | alphabets and `dialect_for` | shared by all backends |
| `SchemaRefusals` | the refusal memory | operators that the backends compose with their calls; the clock is bounded by `MaxClock` |
| `CallChannel` | *abstract*: a per-call return channel | what base.py says the tuples leave no room for |
| `OpenAIBackend` | one instance shared by `Tasks` | `Generate`, `StructuredPlain/Held/Sent`, `ChatWithTools` begin a call; `TextAnswered` ... `ToolsAnswered`, `SchemaRejected`, `ToolsConflict`, `Unreadable`, `Raises` are what the provider may do; cached tokens, fingerprint and model are one *stamp*, since the code writes and resets them together |
| `OllamaBackend` | same for Ollama | nothing is reset when a call begins, and the request carries `format` or a schema |
| `FallbackBackend` | a chain over shared links | of a link only its receipt and stamp are kept and `CallChannel` used, so `FallbackBackend` refining `CallChannel` lets a chain be a link; `Answers` writes them when the link's `await` resolves, `OutsideCall` is any other user of a link and overwrites them, `Cancelled` is a caller that gives up; `Remembered`, `PlainReceipt` and `StructuredReceipt` are what an attempt writes |
| `BatchEmbedding` | operators: one embedding request, every response of it and its pairing | vectors are named by the text they came from |
| `CachingEmbedder` | cache and usage, over `BatchEmbedding` | `inner` is the kind of embedder wrapped: pairing by index (OpenAI), by order (Gemini, Bedrock's Cohere models), a batch of single requests gathered by the embedder ("titan", Bedrock's default), or one text at a time (Ollama, gathered by the wrapper).  `Embed` runs up to the `await`; `InnerAnswered` and `ResponseRefused` end a request of its own, `SingleAnswered` / `Gathered` / `OrphanEnds` are `asyncio.gather`, which neither cancels its siblings nor waits for them when one raises (`InnerRaises`); `Cancelled` is a caller that gives up, and its gather with it |
| `OllamaEmbedder` | both endpoints and the flag | the server may be upgraded, never downgraded; its names differ from `OllamaBackend`'s (`EmbedderSpec`, `embedding`, `outcome`), since one MC module and one proof module extend both |
| `ClientCache` | one `LoopBoundClient` per link, the chain's `aclose`, event loops | clients are numbered in the order they were built |
| `Factory` | operators: `parse_model_string`, key presence, `create_backend`, `create_embedder`, `cloud_timeout` | a key is the caller's or the variable it was read from; a variable is unset, a placeholder or a key |
| `CloudBackend` | one backend as `Factory` builds it, shared by `Tasks` | Anthropic, Gemini, Groq: `Generate`, `Rejected`, then `Answered`, `Unreadable`, `Fails`, `TimesOut`.  Bedrock: `Submit` and `Cancel` of the coroutines, `Start` ... `Ends` of the executor's `Workers`, which share `_client` |
| `ToolDialogue` | a conversation and the requests made of it | `ChatWithTools(p)` converts the whole history for provider p (`Converted`: `After`, message by message; the providers differ in `Blocks`, `ResultOf` and `Joins`), `Answered` makes a message of the answer (`Reply`, `Rescued`), `UserSays` and `ToolEnds` are the host |
| `SchemaDialects` | `to_dialect`, and what is sent converted again | a schema is a function from the paths of its tree (the code's own "a.b[]{}") to the keywords at each, a reply a function from paths of keys and indexes, so nothing is recursive; `Strict` is the conversion node by node, `Accepts` a reference semantics of the keywords, `Unfilled` and `Filled` read a strict reply by the canonical schema and the other way |

`MC*` modules give the constants their small values.  `MCOllama` runs the backend and the
embedder in one run: they share no state, so a behaviour moves one of them (`object`), and
the states add up instead of multiplying.  Definitions whose name has a
suffix after `_` and whose comment begins with "Mutant:" are deliberate faults, one
for each property; they are no part of a specification and show that the property
would notice.

`cogno_homeo.resilient_call` is not in the repository.  It is modelled from its use
here and from what the tests expect of it: the candidates in order, `max_retries`
retries of each, links with an open breaker skipped, the first success returned,
the last error raised.  Where its code could do more than one thing (does a breaker
open?) the model leaves it open.  The servers and SDK clients are modelled by the
answers the code distinguishes.

The host of `ToolDialogue` is assumed to do what the loop of a tool-calling host
does: the user speaks after a reply and not before the results of its calls are in,
every call gets one result, in whatever order the tools end, and the next request is
made when all are there.  It repeats a request that raised with another provider.

What the models leave out: the wording of prompts and replies, token counts of text
calls, temperatures and token limits, arguments of tool calls, log lines,
`cache_hits`.
`SCHEMA_DIALECTS_REFUSED_BY_MODEL` is empty in the source and left out.

## The runs that pass

| Run | Instance | Shows |
| --- | --- | --- |
| `OpenAIBackend` | 2 coroutines on an o-series model with effort "low": text, both forms of one schema, one that cannot be said strictly, an unknown form, tool calls; clock to 2, window of 1; fair | types, `ReceiptTruth`, `StampOwn`, `RefusalEarned`, `WindowKept`, `ConflictPaidOnce`, `TwoRequestsAtMost`, refinement of `CallChannel`, `CallsEnd` |
| `Ollama` | backend: 2 coroutines, three schemas, `format = "json"`; embedder: 4 embeddings at once, old or new server | `OwnFormat`, `ReceiptSaysCarried`, refinement of `CallChannel`; `MissesBounded`, `ModernIsMetered` |
| `FallbackBackend` | an Ollama link, then a chain as a link, 2 coroutines, outside users, one retry, breaker, cancellations | `ReceiptFromServer`, `ServerNamed`, refinement of `CallChannel` |
| `CachingEmbedder` | 2 coroutines, 4 texts of 3 keys, room for 2, 4 calls, each kind of wrapped embedder, every response to requests of up to two texts | `CacheSound`, `LeastRecentlyUsedGoes`, `PairedByKey`, `EveryTextOrError`, `CountedOnce` |
| `ClientCache` | 2 links, 2 requests, 2 closers, 2 loops, 4 clients | `OwnLoop`, `ClosingNotCached`, `NoneForgotten`, `AcloseReturnsDone` |
| `CloudBackend` | 9 prefixes, with and without a caller's key, 4 environments; 2 coroutines, 2 executor threads; fair | `RaceBounded`, `UsesAClient`, `KeyGoesHome`, refinement of `CallChannel`, `CallsEnd` |
| `ToolDialogue` | conversations of 9 messages, 4 providers, 2 functions of which both or one are offered, 8 answers | `TurnsAlternate`, `ResultsMeetCalls`, `ConversationKept`, `RescuedOnce`, `LatestNamed` |
| `SchemaDialects` | all objects of two keys over five leaves, one level of nesting | `StrictAsksNoLess`, `StrictLosesNoReply`, `Idempotent` |

Why the bounds are enough.  The last-call hazards are between a caller and one other
call, so two coroutines show each of them, and the theorems below cover any number.
The window is one tick and the clock passes its end, so entries lapse and are written
again.  Two schemas suffice for "for that schema alone", and one of them cannot be
said strictly.  The cache has room for fewer keys than there are and a batch that has more misses than
room.  Clients and loops are bounded by counters (`MaxClients`, `MaxLoops`); four
clients let both links be rebuilt once in a loop and once after it.  `MaxTrips` and
`MaxClients` of `CloudBackend` lie above what `MissesBounded` and `RaceBounded` allow, so the bound never
hides a violation.  `CHECK_DEADLOCK FALSE` stands where the system really stops:
one conversion chain that is done, a conversation or a cache at its bound, a setting
for which nothing is built.  Nine messages hold two rounds of two parallel calls with
their results and a closing reply; the second round is what Gemini's repeated ids
need.  The environments of `CloudBackend` hold every key, none, OpenAI's alone and
all but OpenAI's, for the one variable that more than one provider may fall back on.

Fairness.  `OpenAIBackend` assumes that a request that is out is settled in some way
(`WF_vars(Settle(t))`): the SDK client is built with a timeout, so an answer or an
error always comes.  It does not assume a *good* answer: a provider that answers 400
for ever is fair.  `CloudBackend` derives that assumption from the settings: only a
client that was built with a timeout has `WF_vars(TimesOut(t))`, threads run, and
boto3's own timeouts end what they wait for (`WF_vars(ThreadStep(w))`).
Beginning a call and cancelling one have no fairness.  The other modules state safety
alone: that a call through a chain ends is up to `resilient_call` and to its links, and
for a Gemini link `CloudBackendSilent` shows that nothing here guarantees it.

## Where the code and what is said of it differ

Each run below checks one sentence of a comment or document against the code, and
TLC finds a behaviour that breaks it.  `PROJECT.json` quotes the sentences.

| Run | What happens |
| --- | --- |
| `OpenAIToolReceipt` | `chat_with_tools` clears the schema receipt *before* its `await`.  A structured call that ends on the instance meanwhile leaves its dialect, and the tool call's caller reads it.  `generate` has a comment about this very case and writes after the `await` |
| `ToolDialogueNames` | Gemini's calls get the ids `call_1`, `call_2`, ... anew in every response, and `id_to_name` keeps the last name of an id, so in the second round of a conversation the result of the first round goes out under the second round's function |
| `CachingEmbedderUsage` | a batch around an embedder that takes one text at a time is a gather of single calls, counted when all were answered.  One is answered, another raises: the counters say nothing of the first, though the docstring says they count the operations that reached the backend and the tokens it reported |
| `CloudBackendSilent` | a `GeminiBackend` stores its timeout and builds its client without it: a call the provider never answers waits as long as the SDK lets it |

### Differences met without a run

Read in the source while modelling, and visible in the models, but stated by no
checked property:

- `FallbackBackend.chat_with_tools` (fallback.py:119) clears the chain's receipt as
  OpenAI's does, before its attempts only.
- `FallbackBackend.supports_native_tools` (fallback.py:135) asks for ANY link, while
  the docstring of `schema_dialect` (fallback.py:77) and docs/HOST_INTEGRATION.md:139
  contrast schemas with tools as any against all.
- openai_backend.py:188: "a raised request can never leave a stale one behind"; the
  stamp of a call that ended meanwhile is there when this one raises.
- schema.py:267: a refused schema costs "one failed round trip per window"; calls in
  flight together pay one each.
- openai_backend.py:422-440: a conflict error is answered by "the provider's stated
  remedy", effort "none", also where the refused request already carried it (configured,
  or learned before); then the repeat is the same request again.  `TwoRequestsAtMost`
  holds of it all the same: there is no third.
- cache.py:104: "only the misses go to the provider, in ONE request"; around Bedrock's
  Titan models the batch is a gather of single requests inside the embedder
  (bedrock_embedder.py:125-130).  The wrapper counts one call (`Trips`), and when one
  request fails the answered ones are not counted at all, as in `CachingEmbedderUsage`.
- cache.py:16: a response `OpenAIEmbedder` refuses was billed and is not counted.
- ollama.py:276-278: a bad model name "must propagate", and only a server without the
  endpoint falls back; the code looks at the status alone, so a 404 for a missing model
  sets the flag of a modern server too.  `EndpointMissing` leaves it possible, and
  `ModernIsMetered` speaks of servers that never answered 404 or 405.
- ollama.py:238: the missing endpoint is "paid ONCE per instance"; embeddings side by
  side each pay it.  `MissesBounded` is tight.
- fallback.py:68: "Close every link's cached client"; a `close()` that raises ends the
  loop before the later links.  `NoneForgotten` shows they stay cached for another
  `aclose`.
- schema.py:240: "two workers name the same schema the same way whatever order they
  built it in"; the strict form writes `required` in the order of `properties`, which
  the digest keeps.
- timeouts.py:16: "the SDK clients never retry"; `OpenAIEmbedder` (openai_embedder.py:73)
  builds its client without `max_retries=0`.  It also keeps that client for its
  lifetime, whatever loop it was first used on, where the backends use
  `LoopBoundClient`.
- factory.py:89: "`api_key` overrides the env-var lookup"; for Bedrock an explicit key
  only passes the check, and the environment's is used (`CreateBackend`).
- bedrock_backend.py:175: consecutive turns of one role are refused; an assistant
  message without text and calls is dropped from between two user turns.
  `TurnsAlternate` counts these.
- gemini_backend.py:193: the text a model sent beside its calls is not in the history it
  is shown afterwards; Anthropic's and Bedrock's conversions keep it.
  `ConversationKept` names the exception.
- docs/HOST_INTEGRATION.md:66: an instance "builds its SDK client once"; executor
  threads of one Bedrock instance may each build one.  `RaceBounded` is tight.

## What is proved

Eight proof modules stand beside the modules they are about.  Each proves an inductive
invariant, and the properties of its runs from it, for any sets of coroutines, calls,
links, clients, threads, texts or functions and for any bound, so for a cache of any size,
conversations of any length and schemas of any depth; TLC checks the same formulas on the
instances above.

| Module | Theorem | Statement |
| --- | --- | --- |
| `OpenAIBackendProofs` | `TypeCorrect` | `Spec => []TypeOK` |
| | `Invariance` | `Spec => []Inv` |
| | `ReceiptsTrue` | `Spec => []ReceiptTruth` |
| | `StampsOwn` | `Spec => []StampOwn` |
| | `RequestsFit` | `Spec => []RequestFitsPhase` |
| | `RefusalsEarned` | `Spec => RefusalEarned` |
| | `WindowsKept` | `Spec => WindowKept` |
| | `ConflictsPaidOnce` | `Spec => ConflictPaidOnce` |
| | `TwoRequests` | `Spec => TwoRequestsAtMost` |
| | `Refinement` | `Spec => ImplementsChannel` |
| `OllamaProofs` | `Invariance` | `Spec => []Inv` |
| | `FormatsOwn` | `Spec => []OwnFormat` |
| | `ReceiptsTrue` | `Spec => []ReceiptSaysCarried` |
| | `Refinement` | `Spec => ImplementsChannel` |
| | `EmbedderInvariance` | `EmbedderSpec => []EmbedderInv` |
| | `MissesFew` | `EmbedderSpec => []MissesBounded` |
| | `Metered` | `EmbedderSpec => []ModernIsMetered` |
| `FallbackBackendProofs` | `Invariance` | `Spec => []Inv` |
| | `TypeCorrect` | `Spec => []TypeOK` |
| | `ReceiptsTrue` | `Spec => []ReceiptFromServer` |
| | `ServersNamed` | `Spec => []ServerNamed` |
| | `Refinement` | `Spec => ImplementsChannel` |
| `ClientCacheProofs` | `Invariance` | `Spec => []Inv` |
| | `LoopsOwn` | `Spec => []OwnLoop` |
| | `ClosedNotServed` | `Spec => []ClosingNotCached` |
| | `NothingLost` | `Spec => []NoneForgotten` |
| | `AcloseComplete` | `Spec => []AcloseReturnsDone` |
| `CloudBackendProofs` | `KeysGoHome` | `Spec => []KeyGoesHome` |
| | `RaceInvariance` | `Spec => []Inv` |
| | `RacesBounded` | `Spec => []RaceBounded` |
| | `OwnersInvariance` | `Spec => []Owned` |
| | `ClientsUsed` | `Spec => []UsesAClient` |
| | `Refinement` | `Spec => ImplementsChannel` |
| `CachingEmbedderProofs` | `Invariance` | `Spec => []Inv` |
| | `CacheSoundness` | `Spec => []CacheSound` |
| | `LeastRecentlyUsed` | `Spec => []LeastRecentlyUsedGoes` |
| | `Pairing` | `Spec => []PairedByKey` |
| | `Completeness` | `Spec => []EveryTextOrError` |
| | `Counting` | `Spec => []CountedOnce` |
| `ToolDialogueProofs` | `Invariance` | `Spec => []Inv` |
| | `Alternation` | `Spec => []TurnsAlternate` |
| | `CallsMeetResults` | `Spec => []ResultsMeetCalls` |
| | `NothingLost` | `Spec => []ConversationKept` |
| | `WrittenCalls` | `Spec => []RescuedOnce` |
| | `ResultNames` | `Spec => []LatestNamed` |
| `SchemaDialectsProofs` | `Invariance` | `Spec => []SchemaInv` |
| | `StrictSound` | `Spec => []StrictAsksNoLess` |
| | `StrictComplete` | `Spec => []StrictLosesNoReply` |
| | `Idempotence` | `Spec => []Idempotent` |

The assumptions are the named ones of the modules: asks, settings and announcements
have their types, `Unsayable` is no digest, `None` is no coroutine, link or number,
`NoStamp` is no stamp, the window is a positive number, a chain has a link, no
`aclose` is called on nothing, `NoText` is no text, the key of a text is a text, no batch
is empty, cache size and counts are natural numbers, providers, offers and answers are
those the dialogue's types name, a schema is a tree of typed nodes (`IsSchema`), a reply
stands at paths and has one null (`IsReply`), keys, indexes and the steps "[]" and "{}" are
different things, and coroutines and threads that are counted are finitely
many (`TasksAssumption` of `CachingEmbedder`, `WorkersAssumption` of `CloudBackend`).  `KeysGoHome` needs none: it holds of any setting, whatever its environment
holds.

The arguments.

*OpenAI.*  None of the receipt and stamp properties is inductive alone: they speak of
the call that *just ended*, and what is true of it depends on what its request carried
when it was sent, several steps of other coroutines ago.  `Inv` therefore says of every
open call that its request fits its phase and its phase fits its ask (a "schema",
"repeat" or "held" call has a dialect, a "text" call has none or did not ask), and of
the last return that it is true.  `SendKeeps` shows that opening or repeating a call
keeps the first part, `ReturnKeeps` that closing one establishes the second *from the
request it carried*, and `InvBegin`, `InvAnswered` and `InvNext` go through the actions.
That the attribute is written in the last step of the call, and not earlier, is exactly
what `ReturnKeeps` uses.  For `Refinement` every step is mapped to `Call`, `Answer`,
`Raise` or `Forget` of `CallChannel`, or to a stutter, under `Inv`.  `RefusalsEarned`
needs only that `RepeatAnswered` is the one action that raises an entry of `until`,
`WindowsKept` that `StructuredSent` is the one way into the schema phase, and that no entry
is longer than a window (`Windows`), so that a refusal remembered anew never ends the one
before it early.  `TwoRequests` is
the variant of `CallsEnd`: each step that settles a request ends the call or uses up one of
the two requests it has (`SettleAdvances`), and nobody else touches the call
(`OthersAreLeft`).  That the second request is `Repaired` needs `Inv`: the repeat drops the
schema and nothing else because both carry the effort their phase licenses.  It does not
say that the two differ: a conflict may be met at effort "none" already.

*Ollama.*  One module for the backend and the embedder.  For the backend the same argument (`PostKeeps`, `ReturnKeeps`), with one difference: nothing
is reset when a call begins, so the proof rests on the write after the await alone.

*The chain.*  `NextAtType` shows that the loop never leaves the chain (the least of the
places that are left exists), and `ServeReturns` that the link whose attributes are
read is the one that answered, since both are set in the step that ends the call.  The
receipt is read from the link as its `await` left it: between that moment and the capture
nobody runs, while before it `OutsideCall` may have left anything there, which `Inv` does
not constrain.
`ServedIsAnswer` shows that its receipt is one the chain's announcement stands for, also
where the serving link took no schema.

*The client cache.*  `AcloseReturnsDone` speaks of an `aclose` that suspends once per
client while requests and other `aclose`s change the links.  `FoundAhead` says of each
client it found and nobody has closed that the link it was *built for* lies ahead in the
chain.  That cannot change; that the link still *holds* the client is `NoneForgotten`,
so the two are proved together (`ReachKeeps`).

*The counts.*  `MissesBounded` is inductive as `missing + Cardinality(Trying) <=
Cardinality(Workers)`: nobody joins those who try once something was missed.
`RaceBounded` has two phases: until a client is stored there are no more clients than
threads that hold one to store, from then on clients and threads that still build are
together no more than all threads, and a thread that leaves the first phase is counted
in the second.  `UsesAClient` is the rest of that invariant (`Raced`): a thread gets to the second read
of `_client` only past a check that found a client or a store of its own, and nothing takes
a stored client away, so both what it built and what it reads is one.

*The keys.*  `BackendKey` and `EmbedderKey` go through the classes that are built.  That
the fallback of `OpenAIBackend` on OpenAI's own variable is never reached for another
provider is `ExplicitOrOwn`: a provider that was let through has a key of its own.

*Whose response.*  Bedrock's executor makes `Refinement` of `CloudBackend` more than the
other refinements: a coroutine that is cancelled leaves its request in the queue or on a
thread, and may call again before that request ends.  `Owned` says that no two places in the
queue or on threads hold one coroutine's call, and that the coroutine of each place waits.
A cancelled request that is still queued is taken out, and `RemoveFirstIs` shows that the
queue stays without repetition; one that runs loses its owner, and what it answers is
delivered to nobody.

*The cache.*  `CacheSound` and `LeastRecentlyUsedGoes` follow from `Kept`: the cache is the
last `CacheSize` keys of the history of use, each once, each with a vector of its own.
`Renewed` (a hit moves to the end) and `Added` (a store appends and may evict) keep it, and
`HitsKeep` and `StoresKeep` carry it through a batch.  The code's loops over a batch are
recursive functions; a statement about every one of their steps is proved by the least
step at which it would fail (`Least`).  The store after the `await` needs nothing about
the cache before it, which is why overlapping misses do no harm.  `PairedByKey` holds
because what a call waits for is what `Embed` put down (`Begun`), which no other coroutine
touches.  For an index-pairing provider `NoneHides` is a pigeonhole: as many distinct
indexes in range as there are texts leave no text out.  `CountedOnce` counts sets: what
the provider answered since the last reset is, in calls and in tokens, never less than what
was counted and what open gathers hold, and until a call has raised it is equal.  `Held` is
a disjoint union over the coroutines, `PartChanges` says what one coroutine's change does
to its size, `Gains` shows of each action that what is counted and held grows by no more
than what was answered, and by exactly that unless the step raises: a call that ends without
a result takes along what its gather held, and `Balance` carries both to the counters.  In Titan's gathers the calls are fewer than
the requests, and only the tokens balance.

*The dialogue.*  `Inv` is about the conversation alone: who may speak after whom
(`Ordered`, `Spoke`), a call carries the place it was made at and calls of one message
differ in their ids (`Placed`), a result is that of a call of the last reply before it,
given once (`Traced`), and nobody but a tool speaks before all are there (`Awaited`).
`Requested` says that a request in flight is the conversion of the conversation as it
stands.  A conversion is then followed message by message.  `ConversionIs` says that it is
`After`, message after message, and `StepCases` that each adds a block to the last turn,
a turn, or nothing.  `Good` says of the turns so far that the last one is that of the last
message (`Standing`), that calls have met their results but those of the last turns
(`Fulfilled`), that ids are unambiguous (`OwnIds`) and that there are as many neighbours of
one role as silent replies (`Even`); `GoodKept` shows that one more message keeps it.
`TurnsAlternate` and `ResultsMeetCalls` are `Good` at the end of the conversation, where
`Unresolved = {}` completes the last turn.  That *exactly* the results of its calls end up
in one turn (`PairsUp`) is where the two conversions could differ: Anthropic's joins a
result to any list turn of the user, Bedrock's to a turn of results alone, and both are
the same turn only because the user's own text is never a list.  `ConversationKept` compares
concatenations (`FlattenIs`, `FlattenAppend`) and shows of each message that its blocks say
what it says (`AfterSays`).  `LatestNamed` rests on `NameOfIs` (an id names the call of the
latest message that has one) and on `CallsDiffer` (a message's calls have different ids).
`RescuedOnce` is an injection: ranks number the places of a set (`InOrderIs`), the rescued
calls are the places of one format (`RescuedIs`), so two calls come from two places.

*Schemas.*  Nothing is by induction over the tree.  `StrictNode` says what the conversion
does to one node, `StrictShape` that the paths stay, so the strict form is a schema and the
same nodes govern the same places of a reply (`StrictGoverns`).  At most one node governs a
place (`OneGoverns`, by the first step at which two paths would differ), and it hangs below
the one that governs the place above (`GovernsAbove`, `GovernsBelow`).  `ReadBack` is the
step for `StrictSound`: where a reply conforms to the strict node it conforms to the
canonical one, unless it has the null of a widened key there, and then the place is one
`Unfilled` leaves out; a key that is required is never left out, though its value may be
null.  `FillIn` is the step for `StrictComplete`: a place the canonical schema left empty is
governed by a widened node, and one that was there has the keys the strict node requires
once the missing ones are filled in.  `StrictTwice` shows node by node that a closed object
has nothing optional, so a second conversion widens nothing; `Idempotence` also needs that
what was sent would be refused for none of the reasons `StrictSayable` and `Taken` name.

Only model-checked: liveness, `CallsEnd` of `OpenAIBackend` and `CloudBackend`, which depends on fairness and so on `ENABLED`.  `TwoRequests` proves the
safety half of the first.  Every other property of a run that passes is a theorem.
The other way round, `RequestFitsPhase`, the chain's `TypeOK` and the inductive invariants
are theorems that no run lists.  The
four runs that end in a violation are counterexamples and need no proof.

## Not modelled

- `key_probe.py`: one conditional on a status code.
- The regular expressions of `tool_parsing.py` and the parsing of arguments: the model
  takes from them only which written call matches which pattern.
- `_obs.py`, `errors.py`, `_math.py`, `__init__.py`: no state.
- The hazards without a property are noted at their lines in `PROJECT.json`: each is a
  behaviour nothing in the repository promises to be otherwise, or one that another
  component's run shows already.

## Plan

Every module of the plan is written and every safety property, action property and
refinement that a passing run checks is proved.  What is left:

1. `CallsEnd` stays with TLC.  For `OpenAIBackend` its variant is proved (`TwoRequests`).
2. The hazards without a property (see `PROJECT.json`) wait for a statement of what the
   code should do there.

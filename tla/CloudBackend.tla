---------------------------- MODULE CloudBackend ----------------------------
(***************************************************************************)
(* One backend as the factory builds it, shared by the coroutines of a     *)
(* host: AnthropicBackend, GeminiBackend, GroqBackend or BedrockBackend.   *)
(* generate and chat_with_tools make one request and no retry.  Groq keeps *)
(* what its last response says of itself on the instance.  Bedrock's       *)
(* requests run in threads of the loop's executor, which interleave inside *)
(* _get_client and run on when their coroutine is cancelled.               *)
(*                                                                         *)
(* An OpenAIBackend or OllamaBackend the factory builds has a module of    *)
(* its own; here it only keeps what it was built with.                     *)
(***************************************************************************)
EXTENDS Factory, SequencesExt

CONSTANTS
  Tasks,      \* the coroutines that share the instance
  Workers,    \* the executor's threads
  Settings,   \* what the factory is called with
  Stamps,     \* what a response says of itself: fingerprint and model
  NoStamp,    \* it says nothing
  MaxClients  \* bound: Bedrock clients built

ASSUME TasksAssumption == None \notin Tasks
ASSUME WorkersAssumption == IsFiniteSet(Workers)
ASSUME ClientsAssumption == MaxClients \in Nat
ASSUME StampsAssumption == NoStamp \notin Stamps

VARIABLES
  setting,   \* what the backend and an embedder were built from
  call,      \* call[t]: what t waits for, or Idle
  lastStamp, \* last_system_fingerprint and last_served_model
  returned,  \* history: what the caller of the call that just ended reads
  queue,     \* the coroutines whose request waits for a thread, oldest first
  job,       \* job[w]: what thread w runs, or NoJob
  client,    \* _client of a BedrockBackend: a client number, or NoClient
  built      \* history: Bedrock clients built

vars == <<setting, call, lastStamp, returned, queue, job, client, built>>

Backend == CreateBackend(setting)
By(class) == Backend.class = class

Idle == "idle"
NoClient == 0
Ask == {"text", "tools"}

NothingReturned == [task |-> None]

\* owner: the coroutine that waits, or None once it was cancelled; has: the
\* client the thread built or uses; early: there was no _client when it began.
NoJob == [at |-> "idle", owner |-> None, has |-> NoClient, early |-> FALSE]

Waits(t) == call[t] # Idle

\* The call of t ends; its caller reads the instance at once.
Return(t, stamp) ==
  /\ call' = [call EXCEPT ![t] = Idle]
  /\ returned' = [task |-> t, ok |-> TRUE, receipt |-> None, stamp |-> lastStamp', said |-> stamp]

Raise(t) ==
  /\ call' = [call EXCEPT ![t] = Idle]
  /\ returned' = [task |-> t, ok |-> FALSE]

Quiet == returned' = NothingReturned

NoBedrock == UNCHANGED <<setting, queue, job, client, built>>

----------------------------------------------------------------------------
(* Anthropic, Gemini and Groq: one request of the SDK client *)

Direct == Backend.class \in {"anthropic", "gemini", "groq"}

\* Groq's identifiers are reset before the await.
Generate(t) ==
  /\ Direct /\ ~Waits(t)
  /\ \E a \in Ask : call' = [call EXCEPT ![t] = a]
  /\ lastStamp' = NoStamp
  /\ Quiet /\ NoBedrock

\* The SDK is not installed, or refuses the key: nothing was reset yet.
Rejected(t) ==
  /\ Direct /\ ~Waits(t)
  /\ Raise(t)
  /\ UNCHANGED lastStamp /\ NoBedrock

\* Mutant: a tool call's identifiers are not stored.
Answered_textOnly(t) ==
  /\ Direct /\ Waits(t)
  /\ \E s \in (IF By("groq") THEN Stamps ELSE {}) \cup {NoStamp} :
       /\ lastStamp' = IF call[t] = "text" THEN s ELSE lastStamp
       /\ Return(t, s)
  /\ NoBedrock

\* Only Groq's responses carry identifiers.
Answered(t) ==
  /\ Direct /\ Waits(t)
  /\ \E s \in (IF By("groq") THEN Stamps ELSE {}) \cup {NoStamp} :
       lastStamp' = s /\ Return(t, s)
  /\ NoBedrock

\* An answer that cannot be read: generate stored its identifiers by then,
\* chat_with_tools has stored them or not.
Unreadable(t) ==
  /\ Direct /\ Waits(t)
  /\ \/ By("groq") /\ lastStamp' \in Stamps \cup {NoStamp}
     \/ (~By("groq") \/ call[t] = "tools") /\ UNCHANGED lastStamp
  /\ Raise(t)
  /\ NoBedrock

\* The provider's error, rejected keys included, or a cancellation.
Fails(t) ==
  /\ Direct /\ Waits(t)
  /\ Raise(t)
  /\ UNCHANGED lastStamp /\ NoBedrock

NoTimeout == 0

\* Mutant: Groq's client is built without its timeout.
ClientTimeout_groqForgets == IF Backend.class \in {"gemini", "groq"} THEN NoTimeout ELSE Backend.timeout

\* The timeout the SDK client is built with.  GeminiBackend keeps its own on the
\* instance and gives the client none.
ClientTimeout == IF By("gemini") THEN NoTimeout ELSE Backend.timeout

TimesOut(t) ==
  /\ Fails(t)
  /\ ClientTimeout # NoTimeout

----------------------------------------------------------------------------
(* Bedrock: the coroutines *)

Submit(t) ==
  /\ By("bedrock") /\ ~Waits(t)
  /\ \E a \in Ask : call' = [call EXCEPT ![t] = a]
  /\ queue' = Append(queue, t)
  /\ Quiet
  /\ UNCHANGED <<setting, lastStamp, job, client, built>>

\* A cancelled request leaves the queue; one that a thread runs is only disowned.
Cancel(t) ==
  /\ By("bedrock") /\ Waits(t)
  /\ Raise(t)
  /\ queue' = RemoveFirst(queue, t)
  /\ job' = [w \in Workers |-> IF job[w].owner = t THEN [job[w] EXCEPT !.owner = None] ELSE job[w]]
  /\ UNCHANGED <<setting, lastStamp, client, built>>

----------------------------------------------------------------------------
(* Bedrock: the threads *)

Step(w, from, new) ==
  /\ job[w].at = from
  /\ job' = [job EXCEPT ![w] = new]
  /\ UNCHANGED <<setting, lastStamp>>

At(w, place) == [job[w] EXCEPT !.at = place]

Start(w) ==
  /\ queue # <<>>
  /\ Step(w, "idle", [at |-> "check", owner |-> Head(queue), has |-> NoClient, early |-> client = NoClient])
  /\ queue' = Tail(queue)
  /\ Quiet
  /\ UNCHANGED <<call, client, built>>

\* Mutant: every request builds a client.
Check_always(w) ==
  /\ Step(w, "check", At(w, "build"))
  /\ Quiet
  /\ UNCHANGED <<call, queue, client, built>>

Check(w) ==
  /\ Step(w, "check", At(w, IF client = NoClient THEN "build" ELSE "read"))
  /\ Quiet
  /\ UNCHANGED <<call, queue, client, built>>

\* boto3.client(...)
Build(w) ==
  /\ built < MaxClients
  /\ built' = built + 1
  /\ Step(w, "build", [At(w, "store") EXCEPT !.has = built'])
  /\ Quiet
  /\ UNCHANGED <<call, queue, client>>

Store(w) ==
  /\ Step(w, "store", At(w, "read"))
  /\ client' = job[w].has
  /\ Quiet
  /\ UNCHANGED <<call, queue, built>>

\* return self._client: what is there now, not what the thread built.
Read(w) ==
  /\ Step(w, "read", [At(w, "use") EXCEPT !.has = client])
  /\ Quiet
  /\ UNCHANGED <<call, queue, client, built>>

\* Mutant: a request that fails drops the client, for the next to build another.
Ends_dropsClient(w) ==
  /\ \/ Step(w, "use", NoJob) /\ job[w].owner # None /\ Return(job[w].owner, NoStamp) /\ UNCHANGED client
     \/ \E place \in {"build", "use"} :
          Step(w, place, NoJob) /\ job[w].owner # None /\ Raise(job[w].owner) /\ client' = NoClient
     \/ \E place \in {"build", "use"} :
          Step(w, place, NoJob) /\ job[w].owner = None /\ Quiet /\ UNCHANGED <<call, client>>
  /\ UNCHANGED <<queue, built>>

\* converse answers, or raises at the read timeout or before; so may the
\* construction.  A cancelled coroutine does not hear of it.
Ends(w) ==
  /\ \/ Step(w, "use", NoJob) /\ job[w].owner # None /\ Return(job[w].owner, NoStamp)
     \/ \E place \in {"build", "use"} :
          Step(w, place, NoJob) /\ job[w].owner # None /\ Raise(job[w].owner)
     \/ \E place \in {"build", "use"} :
          Step(w, place, NoJob) /\ job[w].owner = None /\ Quiet /\ UNCHANGED call
  /\ UNCHANGED <<queue, client, built>>

----------------------------------------------------------------------------
Init ==
  /\ setting \in Settings
  /\ call = [t \in Tasks |-> Idle]
  /\ lastStamp = NoStamp
  /\ returned = NothingReturned
  /\ queue = <<>>
  /\ job = [w \in Workers |-> NoJob]
  /\ client = NoClient
  /\ built = 0

ThreadStep(w) == Start(w) \/ Check(w) \/ Build(w) \/ Store(w) \/ Read(w) \/ Ends(w)

Next ==
  \/ \E t \in Tasks :
       \/ Generate(t) \/ Rejected(t)
       \/ Answered(t) \/ Unreadable(t) \/ Fails(t) \/ TimesOut(t)
       \/ Submit(t) \/ Cancel(t)
  \/ \E w \in Workers : ThreadStep(w)

Spec == Init /\ [][Next]_vars

\* A client with a timeout ends its request, threads run, and boto3's own
\* timeouts end what they wait for.
FairSpec ==
  /\ Spec
  /\ \A t \in Tasks : WF_vars(TimesOut(t))
  /\ \A w \in Workers : WF_vars(ThreadStep(w))

----------------------------------------------------------------------------
(* Properties *)

\* What each coroutine waits for, as the channel has it.
Open == [t \in Tasks |-> IF Waits(t) THEN <<call[t]>> ELSE <<>>]

\* Groq's identifiers are those of the caller's own response, and no other
\* backend pretends to have any: the instance implements the per-call channel.
Channel ==
  INSTANCE CallChannel WITH
    Asks <- Ask,
    Receipts <- [a \in Ask |-> {None}],
    open <- Open

ImplementsChannel == Channel!Spec

\* The race for Bedrock's client costs at most one per thread, all of them built
\* by threads that began before the first was stored, whoever still waits for them.
RaceBounded ==
  /\ built <= Cardinality(Workers)
  /\ \A w \in Workers : job[w].at \in {"build", "store"} => job[w].early

\* _get_client reads _client twice, before the construction and after it, while other
\* threads build, store, fail or are disowned: what a request is made with is a client.
UsesAClient == \A w \in Workers : job[w].at = "use" => job[w].has # NoClient

\* Every call ends, though cancelled requests hold Bedrock's threads and the
\* provider may stay silent, but for Gemini's.
CallsEnd == \A t \in Tasks : Waits(t) /\ ~By("gemini") ~> ~Waits(t)

\* The endpoint a provider's prefix names, and the variables of its keys: two
\* prefixes may share both.
Endpoint(p) ==
  IF p \in DOMAIN Compatible THEN Compatible[p].url ELSE IF p \in External THEN p ELSE "localhost"

Home(url) == {KeyEnv(p) : p \in {q \in Cloud : Endpoint(q) = url}}

\* Whatever variables are set, a key goes to the endpoint it is for: an explicit
\* one to the endpoint the string names, a variable's to its own provider.  No
\* placeholder is sent for want of a key.
KeyGoesHome ==
  \A b \in {Backend, CreateEmbedder(setting)} \ {Missing, NotImplemented} :
    /\ b.key = Given => b.url = Endpoint(ParseModelString(setting.prefix))
    /\ b.key \notin {Given, NoKey} =>
         b.key[1] \in Home(b.url) /\ (~setting.given => b.key[2] = "key")

\* A call still silent when its timeout is over is treated as lost
\* (timeouts.py:10-11).
SilentCallIsLost == \A t \in Tasks : Waits(t) ~> ~Waits(t)
=============================================================================

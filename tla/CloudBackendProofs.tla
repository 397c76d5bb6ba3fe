------------------------- MODULE CloudBackendProofs -------------------------
(***************************************************************************)
(* Proofs about CloudBackend: about the keys, for every setting and every  *)
(* environment; about Bedrock's client, for any number of threads; that the *)
(* instance implements CallChannel, for any coroutines and threads.        *)
(***************************************************************************)
EXTENDS CloudBackend, TLAPS, FiniteSetTheorems, SequenceTheorems, WellFoundedInduction

(* The keys *)

\* A key is none, the caller's, or what the provider's own variable holds, which
\* is a key if the caller gave none.
OwnKey(s, p, key) ==
  \/ key \in {NoKey, Given}
  \/ p \in Cloud /\ \E v : key = <<KeyEnv(p), v>> /\ (~s.given => v = "key")

\* What a provider's own variable holds is its own key, once the caller was asked
\* for a key or the variable has one.
LEMMA FromEnvIsOwn ==
  ASSUME NEW s, NEW p \in Cloud, s.given \/ KeyPresent(s, p)
  PROVE  OwnKey(s, p, FromEnv(s, KeyEnv(p)))
BY DEF OwnKey, FromEnv, KeyPresent

\* So is the explicit key, or else the variable's; and it is not none where no key
\* was given.
LEMMA ExplicitOrOwn ==
  ASSUME NEW s, NEW p \in Cloud, s.given \/ KeyPresent(s, p)
  PROVE  /\ OwnKey(s, p, Or(ApiKey(s), FromEnv(s, KeyEnv(p))))
         /\ Or(ApiKey(s), FromEnv(s, KeyEnv(p))) # NoKey
<1>1. Given # NoKey /\ <<KeyEnv(p), "key">> # NoKey
  BY DEF Given, NoKey
<1>2. CASE s.given
  BY <1>1, <1>2 DEF OwnKey, Or, ApiKey
<1>3. CASE ~s.given
  <2>1. ApiKey(s) = NoKey /\ FromEnv(s, KeyEnv(p)) = <<KeyEnv(p), "key">>
    BY <1>3 DEF ApiKey, FromEnv, KeyPresent
  <2>2. QED
    BY <1>1, <2>1, FromEnvIsOwn DEF Or
<1>4. QED
  BY <1>2, <1>3

\* create_backend sends an own key to the endpoint the string names: what an
\* OpenAIBackend falls back on is never reached.
LEMMA BackendKey ==
  ASSUME NEW s, CreateBackend(s) # Missing
  PROVE  /\ CreateBackend(s).url = Endpoint(ParseModelString(s.prefix))
         /\ OwnKey(s, ParseModelString(s.prefix), CreateBackend(s).key)
<1> DEFINE p == ParseModelString(s.prefix)
           own == Or(ApiKey(s), FromEnv(s, KeyEnv(p)))
<1>1. p \in Cloud \/ p = "ollama"
  BY DEF ParseModelString
<1>2. p \in Cloud => s.given \/ KeyPresent(s, p)
  BY DEF CreateBackend, Unkeyed
<1>3. ~Unkeyed(s, p)
  BY DEF CreateBackend
<1>4. CASE p \in DOMAIN Compatible
  <2>1. own # NoKey /\ OwnKey(s, p, own)
    BY <1>2, <1>4, ExplicitOrOwn DEF Cloud
  <2>2. CreateBackend(s) = Built("openai", Compatible[p].url, own, CloudTimeout(s))
    BY <1>3, <1>4, <2>1 DEF CreateBackend, Or
  <2>3. QED
    BY <1>4, <2>1, <2>2 DEF Built, Endpoint
<1>5. CASE p \in External /\ p \notin DOMAIN Compatible
  <2>1. CASE p = "bedrock"
    <3>1. CreateBackend(s) = Built(p, p, FromEnv(s, KeyEnv(p)), CloudTimeout(s))
      BY <1>3, <1>5, <2>1 DEF CreateBackend
    <3>2. OwnKey(s, p, FromEnv(s, KeyEnv(p)))
      BY <1>2, <1>5, FromEnvIsOwn DEF Cloud
    <3>3. QED
      BY <1>5, <3>1, <3>2 DEF Built, Endpoint
  <2>2. CASE p # "bedrock"
    <3>1. CreateBackend(s) = Built(p, p, own, CloudTimeout(s))
      BY <1>3, <1>5, <2>2 DEF CreateBackend
    <3>2. OwnKey(s, p, own)
      BY <1>2, <1>5, ExplicitOrOwn DEF Cloud
    <3>3. QED
      BY <1>5, <3>1, <3>2 DEF Built, Endpoint
  <2>3. QED
    BY <2>1, <2>2
<1>6. CASE p \notin Cloud
  <2>1. CreateBackend(s).url = "localhost" /\ CreateBackend(s).key = NoKey
    BY <1>1, <1>3, <1>6 DEF CreateBackend, Built, Cloud, External
  <2>2. QED
    BY <1>6, <2>1 DEF Endpoint, OwnKey, Cloud
<1>7. QED
  BY <1>4, <1>5, <1>6 DEF Cloud

\* create_embedder does too, or builds nothing.
LEMMA EmbedderKey ==
  ASSUME NEW s, CreateEmbedder(s) \notin {Missing, NotImplemented}
  PROVE  /\ CreateEmbedder(s).url = Endpoint(ParseModelString(s.prefix))
         /\ OwnKey(s, ParseModelString(s.prefix), CreateEmbedder(s).key)
<1> DEFINE p == ParseModelString(s.prefix)
           own == Or(ApiKey(s), FromEnv(s, KeyEnv(p)))
<1>1. ~Unkeyed(s, p)
  BY DEF CreateEmbedder
<1>2. p \in Cloud => s.given \/ KeyPresent(s, p)
  BY <1>1 DEF Unkeyed
<1>3. {"openai", "gemini", "bedrock"} \subseteq External
      /\ \A q \in {"openai", "gemini", "bedrock"} : q \notin DOMAIN Compatible
  BY DEF External, Compatible
<1>4. CASE p \in {"openai", "gemini"}
  <2>1. CreateEmbedder(s) = Built(p, p, own, 120)
    BY <1>1, <1>4 DEF CreateEmbedder
  <2>2. OwnKey(s, p, own)
    BY <1>2, <1>3, <1>4, ExplicitOrOwn DEF Cloud
  <2>3. QED
    BY <1>3, <1>4, <2>1, <2>2 DEF Built, Endpoint
<1>5. CASE p = "bedrock"
  <2>1. CreateEmbedder(s) = Built(p, p, FromEnv(s, KeyEnv(p)), 120)
    BY <1>1, <1>5 DEF CreateEmbedder
  <2>2. OwnKey(s, p, FromEnv(s, KeyEnv(p)))
    BY <1>2, <1>3, <1>5, FromEnvIsOwn DEF Cloud
  <2>3. QED
    BY <1>3, <1>5, <2>1, <2>2 DEF Built, Endpoint
<1>6. CASE p \notin Cloud
  <2>1. CreateEmbedder(s).url = "localhost" /\ CreateEmbedder(s).key = NoKey
    BY <1>1, <1>6 DEF CreateEmbedder, Built, Cloud, External
  <2>2. QED
    BY <1>6, <2>1 DEF Endpoint, OwnKey, Cloud
<1>7. QED
  BY <1>1, <1>4, <1>5, <1>6 DEF CreateEmbedder

\* An own key is at home at its provider's endpoint.
LEMMA OwnKeyIsHome ==
  ASSUME NEW s, NEW p, NEW key, OwnKey(s, p, key), key \notin {Given, NoKey}
  PROVE  key[1] \in Home(Endpoint(p)) /\ (~s.given => key[2] = "key")
<1>1. PICK v : key = <<KeyEnv(p), v>> /\ (~s.given => v = "key")
  BY DEF OwnKey
<1>2. key[1] = KeyEnv(p) /\ key[2] = v /\ p \in Cloud
  BY <1>1 DEF OwnKey
<1>3. QED
  BY <1>1, <1>2 DEF Home

\* Whatever the caller passes and whatever the environment holds, no key reaches an
\* endpoint it is not for.
THEOREM KeysGoHome == Spec => []KeyGoesHome
<1>1. KeyGoesHome
  <2> SUFFICES ASSUME NEW b \in {Backend, CreateEmbedder(setting)} \ {Missing, NotImplemented}
               PROVE  /\ b.key = Given => b.url = Endpoint(ParseModelString(setting.prefix))
                      /\ b.key \notin {Given, NoKey} =>
                           b.key[1] \in Home(b.url) /\ (~setting.given => b.key[2] = "key")
    BY DEF KeyGoesHome
  <2>1. /\ b.url = Endpoint(ParseModelString(setting.prefix))
        /\ OwnKey(setting, ParseModelString(setting.prefix), b.key)
    BY BackendKey, EmbedderKey DEF Backend
  <2>2. QED
    BY <2>1, OwnKeyIsHome
<1>2. QED
  BY <1>1, PTL
----------------------------------------------------------------------------
(* The race for Bedrock's client *)

\* A thread's job is a record, whoever waits for it.
Shaped ==
  /\ DOMAIN job = Workers /\ job = [w \in Workers |-> job[w]]
  /\ \A w \in Workers :
       job[w] = [at |-> job[w].at, owner |-> job[w].owner, has |-> job[w].has, early |-> job[w].early]
  /\ built \in Nat

Building == {w \in Workers : job[w].at = "build"}
Storing == {w \in Workers : job[w].at = "store"}

\* While no client is stored every thread is early, and those that built hold what
\* they built; from then on nobody joins those that build.  Whoever reads finds one.
Raced ==
  /\ client = NoClient =>
       /\ built <= Cardinality(Storing)
       /\ \A w \in Workers : job[w].at # "idle" => job[w].early
  /\ client # NoClient => built + Cardinality(Building) <= Cardinality(Workers)
  /\ \A w \in Workers :
       /\ job[w].at \in {"build", "store"} => job[w].early
       /\ job[w].at \in {"store", "use"} => job[w].has # NoClient
       /\ job[w].at = "read" => client # NoClient

Inv == Shaped /\ Raced

\* The sets counted are finite, and have no member in common.
LEMMA Counted ==
  /\ IsFiniteSet(Building) /\ IsFiniteSet(Storing)
  /\ Cardinality(Workers) \in Nat /\ Cardinality(Building) \in Nat /\ Cardinality(Storing) \in Nat
  /\ Cardinality(Building) + Cardinality(Storing) <= Cardinality(Workers)
<1>1. /\ Building \in SUBSET Workers /\ Storing \in SUBSET Workers
      /\ Building \cup Storing \in SUBSET Workers /\ Building \cap Storing = {}
  BY DEF Building, Storing
<1>2. /\ IsFiniteSet(Building) /\ IsFiniteSet(Storing)
      /\ Cardinality(Building \cup Storing) <= Cardinality(Workers)
  BY <1>1, WorkersAssumption, FS_Subset
<1>3. /\ Cardinality(Workers) \in Nat /\ Cardinality(Building) \in Nat
      /\ Cardinality(Storing) \in Nat
  BY <1>2, WorkersAssumption, FS_CardinalityType
<1>4. Cardinality(Building \cup Storing) = Cardinality(Building) + Cardinality(Storing) - 0
  BY <1>1, <1>2, FS_Union, FS_EmptySet
<1>5. QED
  BY <1>2, <1>3, <1>4

\* A thread's next place.
LEMMA AtType ==
  ASSUME Shaped, NEW w \in Workers, NEW place
  PROVE  At(w, place) = [at |-> place, owner |-> job[w].owner, has |-> job[w].has, early |-> job[w].early]
<1>1. job[w] = [at |-> job[w].at, owner |-> job[w].owner, has |-> job[w].has, early |-> job[w].early]
  BY DEF Shaped
<1>2. QED
  BY <1>1 DEF At

\* One thread goes on: who builds and who stores afterwards.
LEMMA OneGoesOn ==
  ASSUME Shaped, NEW w \in Workers, NEW new, job' = [job EXCEPT ![w] = new],
         new = [at |-> new.at, owner |-> new.owner, has |-> new.has, early |-> new.early],
         built' \in Nat
  PROVE  /\ Shaped' /\ job'[w] = new /\ \A v \in Workers : v # w => job'[v] = job[v]
         /\ new.at # "build" => Building' = Building \ {w}
         /\ new.at = "store" => Storing' = Storing \cup {w}
         /\ job[w].at # "store" /\ new.at # "store" => Storing' = Storing
<1>1. job'[w] = new /\ \A v \in Workers : v # w => job'[v] = job[v]
  BY DEF Shaped
<1>2. DOMAIN job' = Workers /\ job' = [v \in Workers |-> job'[v]]
  BY DEF Shaped
<1>3. Shaped'
  BY <1>1, <1>2 DEF Shaped
<1>4. QED
  BY <1>1, <1>3 DEF Building, Storing

\* A thread that stays out of building and storing.
LEMMA PassesBy ==
  ASSUME Inv, NEW w \in Workers, NEW new, job' = [job EXCEPT ![w] = new], UNCHANGED <<client, built>>,
         new = [at |-> new.at, owner |-> new.owner, has |-> new.has, early |-> new.early],
         job[w].at # "store", new.at \notin {"build", "store"},
         client = NoClient /\ new.at # "idle" => new.early,
         new.at = "read" => client # NoClient, new.at = "use" => new.has # NoClient
  PROVE  Inv'
<1>1. /\ Shaped' /\ job'[w] = new /\ \A v \in Workers : v # w => job'[v] = job[v]
      /\ Building' = Building \ {w} /\ Storing' = Storing
  BY OneGoesOn DEF Inv, Shaped
<1>2. Cardinality(Building') <= Cardinality(Building) /\ Cardinality(Building') \in Nat
  <2>1. Cardinality(Building \ {w}) = IF w \in Building THEN Cardinality(Building) - 1 ELSE Cardinality(Building)
    BY Counted, FS_RemoveElement
  <2>2. Cardinality(Building \ {w}) \in Nat
    BY Counted, FS_RemoveElement, FS_CardinalityType
  <2>3. QED
    BY <1>1, <2>1, <2>2, Counted
<1>3. Raced'
  BY <1>1, <1>2, Counted DEF Inv, Shaped, Raced
<1>4. QED
  BY <1>1, <1>3 DEF Inv

LEMMA StartKeeps ==
  ASSUME Inv, NEW w \in Workers, Start(w)
  PROVE  Inv'
<1> DEFINE new == [at |-> "check", owner |-> Head(queue), has |-> NoClient, early |-> client = NoClient]
<1>1. new = [at |-> new.at, owner |-> new.owner, has |-> new.has, early |-> new.early]
  OBVIOUS
<1>2. new.at = "check" /\ (client = NoClient => new.early)
  OBVIOUS
<1>3. job' = [job EXCEPT ![w] = new] /\ job[w].at = "idle" /\ UNCHANGED <<client, built>>
  BY DEF Start, Step
<1> HIDE DEF new
<1>4. QED
  BY <1>1, <1>2, <1>3, PassesBy

LEMMA CheckKeeps ==
  ASSUME Inv, NEW w \in Workers, Check(w)
  PROVE  Inv'
<1> DEFINE place == IF client = NoClient THEN "build" ELSE "read"
           new == At(w, place)
<1>1. job' = [job EXCEPT ![w] = new] /\ job[w].at = "check" /\ UNCHANGED <<client, built>>
  BY DEF Check, Step
<1>2. /\ new = [at |-> new.at, owner |-> new.owner, has |-> new.has, early |-> new.early]
      /\ new.at = place /\ new.early = job[w].early
  BY DEF At, Inv, Shaped
<1> HIDE DEF new
<1>3. CASE client # NoClient
  BY <1>1, <1>2, <1>3, PassesBy
<1>4. CASE client = NoClient
  <2>1. /\ Shaped' /\ job'[w] = new /\ \A v \in Workers : v # w => job'[v] = job[v]
        /\ Storing' = Storing
    BY <1>1, <1>2, <1>4, OneGoesOn DEF Inv, Shaped
  <2>2. new.early
    BY <1>1, <1>2, <1>4 DEF Inv, Raced
  <2>3. Raced'
    BY <1>1, <1>2, <1>4, <2>1, <2>2 DEF Inv, Raced
  <2>4. QED
    BY <2>1, <2>3 DEF Inv
<1>5. QED
  BY <1>3, <1>4

\* A thread that built leaves those that build.
LEMMA BuildKeeps ==
  ASSUME Inv, NEW w \in Workers, Build(w)
  PROVE  Inv'
<1> DEFINE new == [At(w, "store") EXCEPT !.has = built']
<1>1. /\ job' = [job EXCEPT ![w] = new] /\ job[w].at = "build"
      /\ built' = built + 1 /\ UNCHANGED client
  BY DEF Build, Step
<1>2. /\ new = [at |-> new.at, owner |-> new.owner, has |-> new.has, early |-> new.early]
      /\ new.at = "store" /\ new.has = built' /\ new.early = job[w].early
  BY AtType DEF Inv
<1> HIDE DEF new
<1>3. built' \in Nat /\ built' # NoClient
  BY <1>1 DEF Inv, Shaped, NoClient
<1>4. /\ Shaped' /\ job'[w] = new /\ \A v \in Workers : v # w => job'[v] = job[v]
      /\ Building' = Building \ {w} /\ Storing' = Storing \cup {w}
  BY <1>1, <1>2, <1>3, OneGoesOn DEF Inv
<1>5. w \in Building /\ w \notin Storing
  BY <1>1 DEF Building, Storing
<1>6. /\ Cardinality(Building') = Cardinality(Building) - 1
      /\ Cardinality(Storing') = Cardinality(Storing) + 1
  BY <1>4, <1>5, Counted, FS_RemoveElement, FS_AddElement
<1>7. job[w].early
  BY <1>1 DEF Inv, Raced
<1>8. /\ client' = NoClient => built' <= Cardinality(Storing')
      /\ client' # NoClient => built' + Cardinality(Building') <= Cardinality(Workers)
  BY <1>1, <1>6, Counted DEF Inv, Shaped, Raced
<1>9. Raced'
  BY <1>1, <1>2, <1>3, <1>4, <1>7, <1>8 DEF Inv, Raced
<1>10. QED
  BY <1>4, <1>9 DEF Inv

\* The first client stored ends the race: those that build still are the last.
LEMMA StoreKeeps ==
  ASSUME Inv, NEW w \in Workers, Store(w)
  PROVE  Inv'
<1> DEFINE new == At(w, "read")
<1>1. /\ job' = [job EXCEPT ![w] = new] /\ job[w].at = "store"
      /\ client' = job[w].has /\ UNCHANGED built
  BY DEF Store, Step
<1>2. /\ new = [at |-> new.at, owner |-> new.owner, has |-> new.has, early |-> new.early]
      /\ new.at = "read"
  BY DEF At, Inv, Shaped
<1> HIDE DEF new
<1>3. client' # NoClient
  BY <1>1 DEF Inv, Raced
<1>4. /\ Shaped' /\ job'[w] = new /\ \A v \in Workers : v # w => job'[v] = job[v]
      /\ Building' = Building \ {w}
  BY <1>1, <1>2, OneGoesOn DEF Inv, Shaped
<1>5. Building' = Building
  BY <1>1, <1>4 DEF Building
<1>6. built + Cardinality(Building) <= Cardinality(Workers)
  BY Counted DEF Inv, Shaped, Raced
<1>7. Raced'
  BY <1>1, <1>2, <1>3, <1>4, <1>5, <1>6 DEF Inv, Raced
<1>8. QED
  BY <1>4, <1>7 DEF Inv

LEMMA ReadKeeps ==
  ASSUME Inv, NEW w \in Workers, Read(w)
  PROVE  Inv'
<1> DEFINE new == [At(w, "use") EXCEPT !.has = client]
<1>1. job' = [job EXCEPT ![w] = new] /\ job[w].at = "read" /\ UNCHANGED <<client, built>>
  BY DEF Read, Step
<1>2. /\ new = [at |-> new.at, owner |-> new.owner, has |-> new.has, early |-> new.early]
      /\ new.at = "use" /\ new.has = client /\ new.early = job[w].early
  BY AtType DEF Inv
<1> HIDE DEF new
<1>3. client # NoClient
  BY <1>1 DEF Inv, Raced
<1>4. QED
  BY <1>1, <1>2, <1>3, PassesBy

LEMMA EndsKeeps ==
  ASSUME Inv, NEW w \in Workers, Ends(w)
  PROVE  Inv'
<1>1. /\ job' = [job EXCEPT ![w] = NoJob] /\ job[w].at \in {"build", "use"}
      /\ UNCHANGED <<client, built>>
  BY DEF Ends, Step
<1>2. /\ NoJob = [at |-> NoJob.at, owner |-> NoJob.owner, has |-> NoJob.has, early |-> NoJob.early]
      /\ NoJob.at = "idle"
  BY DEF NoJob
<1>3. QED
  BY <1>1, <1>2, PassesBy

\* Who waits for a job does not matter to the race.
LEMMA CancelKeeps ==
  ASSUME Inv, NEW t \in Tasks, Cancel(t)
  PROVE  Inv'
<1>1. /\ job' = [w \in Workers |-> IF job[w].owner = t THEN [job[w] EXCEPT !.owner = None] ELSE job[w]]
      /\ UNCHANGED <<client, built>>
  BY DEF Cancel
<1>2. ASSUME NEW w \in Workers
      PROVE  /\ job'[w] = [at |-> job'[w].at, owner |-> job'[w].owner,
                           has |-> job'[w].has, early |-> job'[w].early]
             /\ job'[w].at = job[w].at /\ job'[w].has = job[w].has /\ job'[w].early = job[w].early
  <2>1. job[w] = [at |-> job[w].at, owner |-> job[w].owner, has |-> job[w].has, early |-> job[w].early]
    BY DEF Inv, Shaped
  <2>2. CASE job[w].owner = t
    <3>1. job'[w] = [job[w] EXCEPT !.owner = None]
      BY <1>1, <2>2
    <3>2. QED
      BY <2>1, <3>1
  <2>3. CASE job[w].owner # t
    BY <1>1, <2>1, <2>3
  <2>4. QED
    BY <2>2, <2>3
<1>3. DOMAIN job' = Workers /\ job' = [w \in Workers |-> job'[w]]
  BY <1>1
<1>4. Shaped'
  BY <1>1, <1>2, <1>3 DEF Inv, Shaped
<1>5. Building' = Building /\ Storing' = Storing
  BY <1>2 DEF Building, Storing
<1>6. Raced'
  BY <1>1, <1>2, <1>5 DEF Inv, Raced
<1>7. QED
  BY <1>4, <1>6 DEF Inv

\* Nothing else touches threads or client.
LEMMA OthersKeep ==
  ASSUME Inv, UNCHANGED <<job, client, built>>
  PROVE  Inv'
BY DEF Inv, Shaped, Raced, Building, Storing

\* The inductive invariant of the race.
THEOREM RaceInvariance == Spec => []Inv
<1>1. Init => Inv
  <2> SUFFICES ASSUME Init PROVE Inv
    OBVIOUS
  <2>1. \A w \in Workers : job[w] = NoJob /\ NoJob.at = "idle"
    BY DEF Init, NoJob
  <2>2. Shaped
    BY <2>1 DEF Init, Shaped, NoJob
  <2>3. Raced
    BY <2>1, Counted DEF Init, Raced, NoClient
  <2>4. QED
    BY <2>2, <2>3 DEF Inv
<1>2. Inv /\ [Next]_vars => Inv'
  <2> SUFFICES ASSUME Inv, [Next]_vars PROVE Inv'
    OBVIOUS
  <2>1. CASE UNCHANGED vars
    BY <2>1, OthersKeep DEF vars
  <2>2. ASSUME NEW t \in Tasks,
               \/ Generate(t) \/ Rejected(t) \/ Answered(t) \/ Unreadable(t) \/ Fails(t) \/ TimesOut(t)
               \/ Submit(t)
        PROVE  UNCHANGED <<job, client, built>>
    BY <2>2 DEF Generate, Rejected, Answered, Unreadable, Fails, TimesOut, Submit, NoBedrock
  <2>3. QED
    BY <2>1, <2>2, OthersKeep, CancelKeeps, StartKeeps, CheckKeeps, BuildKeeps, StoreKeeps,
       ReadKeeps, EndsKeeps DEF Next, ThreadStep
<1>3. QED
  BY <1>1, <1>2, PTL DEF Spec

\* However many threads race and whoever is cancelled, they build at most one client
\* each, and none that began after the first was stored.
THEOREM RacesBounded == Spec => []RaceBounded
<1>1. Inv => RaceBounded
  BY Counted DEF Inv, Shaped, Raced, RaceBounded
<1>2. QED
  BY <1>1, RaceInvariance, PTL

\* Whoever builds, stores, fails or is disowned between the two times _get_client reads
\* _client, a request is made with a client.
THEOREM ClientsUsed == Spec => []UsesAClient
<1>1. Inv => UsesAClient
  BY DEF Inv, Raced, UsesAClient
<1>2. QED
  BY <1>1, RaceInvariance, PTL

----------------------------------------------------------------------------
(* Removal from a queue *)

\* A set of numbers that is not empty has a least one.
LEMMA Least ==
  ASSUME NEW T, T \subseteq Nat, T # {}
  PROVE  \E j \in T : \A k \in T : j <= k
<1>1. PICK j \in T : \A k \in T : <<k, j>> \notin OpToRel(<, Nat)
  BY NatLessThanWellFounded, WFMin
<1>2. \A k \in T : ~ (k < j)
  BY <1>1 DEF OpToRel
<1>3. QED
  BY <1>2

\* One element is taken out of a sequence.
LEMMA RemoveAtIs ==
  ASSUME NEW S, NEW s \in Seq(S), NEW i \in 1..Len(s)
  PROVE  RemoveAt(s, i) = [j \in 1..(Len(s) - 1) |-> IF j < i THEN s[j] ELSE s[j + 1]]
<1> DEFINE front == SubSeq(s, 1, i - 1)
           back == SubSeq(s, i + 1, Len(s))
<1>1. front \in Seq(S) /\ Len(front) = i - 1 /\ \A j \in 1..(i - 1) : front[j] = s[j]
  OBVIOUS
<1>2. back \in Seq(S) /\ Len(back) = Len(s) - i /\ \A j \in 1..(Len(s) - i) : back[j] = s[i + j]
  OBVIOUS
<1>3. RemoveAt(s, i) = front \o back
  BY DEF RemoveAt
<1> HIDE DEF front, back
<1>4. /\ front \o back \in Seq(S) /\ Len(front \o back) = Len(s) - 1
      /\ \A j \in 1..(Len(s) - 1) : (front \o back)[j] = IF j < i THEN s[j] ELSE s[j + 1]
  <2>1. Len(front) + Len(back) = Len(s) - 1
    BY <1>1, <1>2
  <2>2. /\ front \o back \in Seq(S) /\ Len(front \o back) = Len(s) - 1
        /\ \A j \in 1..(Len(s) - 1) :
             (front \o back)[j] = IF j <= Len(front) THEN front[j] ELSE back[j - Len(front)]
    <3>1. /\ front \o back \in Seq(S) /\ Len(front \o back) = Len(front) + Len(back)
          /\ \A j \in 1..(Len(front) + Len(back)) :
               (front \o back)[j] = IF j <= Len(front) THEN front[j] ELSE back[j - Len(front)]
      BY <1>1, <1>2, ConcatProperties, Zenon
    <3>2. QED
      BY <2>1, <3>1
  <2>3. QED
    BY <1>1, <1>2, <2>2
<1> DEFINE r == front \o back
<1> HIDE DEF r
<1>5. r \in Seq(S)
  BY <1>4 DEF r
<1>8. r = [j \in 1..Len(r) |-> r[j]]
  BY <1>5
<1>6. r = [j \in 1..(Len(s) - 1) |-> IF j < i THEN s[j] ELSE s[j + 1]]
  BY <1>4, <1>8 DEF r
<1>7. QED
  BY <1>3, <1>6 DEF r

\* What RemoveFirst takes out is an element there was.
LEMMA RemoveFirstIs ==
  ASSUME NEW S, NEW s \in Seq(S), NEW e, e \in ToSet(s)
  PROVE  \E i \in 1..Len(s) :
           /\ s[i] = e
           /\ RemoveFirst(s, e) = [j \in 1..(Len(s) - 1) |-> IF j < i THEN s[j] ELSE s[j + 1]]
<1> DEFINE I == {i \in 1..Len(s) : s[i] = e}
<1>1. I # {} /\ I \subseteq Nat
  BY DEF ToSet
<1>2. Min(I) \in I
  BY <1>1, Least DEF Min
<1>3. RemoveFirst(s, e) = RemoveAt(s, Min(I))
  BY <1>1 DEF RemoveFirst, SelectInSeq
<1>4. QED
  BY <1>2, <1>3, RemoveAtIs
----------------------------------------------------------------------------
(* The instance implements the per-call channel *)

\* Whoever stands in the queue or has a thread is a coroutine of a Bedrock call that
\* waits, once and in one place; identifiers are Groq's.
Owned ==
  /\ DOMAIN job = Workers
  /\ call \in [Tasks -> Ask \cup {Idle}]
  /\ queue \in Seq(Tasks)
  /\ \A i \in DOMAIN queue :
       /\ By("bedrock") /\ Waits(queue[i])
       /\ \A j \in DOMAIN queue : queue[i] = queue[j] => i = j
       /\ \A w \in Workers : job[w].owner # queue[i]
  /\ \A w \in Workers : job[w].owner # None =>
       /\ By("bedrock") /\ job[w].owner \in Tasks /\ Waits(job[w].owner)
       /\ \A v \in Workers : job[v].owner = job[w].owner => v = w
  /\ ~By("groq") => lastStamp = NoStamp

\* A call that is asked opens.
LEMMA Opens ==
  ASSUME Owned, NEW t \in Tasks, ~Waits(t), NEW a \in Ask, call' = [call EXCEPT ![t] = a]
  PROVE  Open' = [Open EXCEPT ![t] = <<a>>] /\ Open[t] = <<>>
<1>1. a # Idle /\ call[t] = Idle /\ call'[t] = a /\ \A u \in Tasks : u # t => call'[u] = call[u]
  BY DEF Owned, Waits, Ask, Idle
<1>2. Open = [u \in Tasks |-> Open[u]] /\ Open' = [u \in Tasks |-> Open'[u]]
  BY DEF Open
<1>3. Open[t] = <<>> /\ Open'[t] = <<a>> /\ \A u \in Tasks : u # t => Open'[u] = Open[u]
  BY <1>1 DEF Open, Waits
<1>4. QED
  BY <1>2, <1>3

\* A call that ends closes.
LEMMA Closes ==
  ASSUME Owned, NEW t \in Tasks, Waits(t), call' = [call EXCEPT ![t] = Idle]
  PROVE  Channel!Close(t) /\ Open[t][1] \in Ask
<1>1. call[t] \in Ask /\ call'[t] = Idle /\ \A u \in Tasks : u # t => call'[u] = call[u]
  BY DEF Owned, Waits
<1>2. Open = [u \in Tasks |-> Open[u]] /\ Open' = [u \in Tasks |-> Open'[u]]
  BY DEF Open
<1>3. /\ Open[t] = <<call[t]>> /\ Open'[t] = <<>>
      /\ \A u \in Tasks : u # t => Open'[u] = Open[u]
  BY <1>1 DEF Open, Waits
<1>4. Open' = [Open EXCEPT ![t] = <<>>]
  BY <1>2, <1>3
<1>5. QED
  BY <1>1, <1>3, <1>4 DEF Channel!Close, Channel!Waiting

\* Return is the channel's Answer if what the caller reads is what the response said.
LEMMA ReturnIsAnswer ==
  ASSUME Owned, NEW t \in Tasks, Waits(t), NEW s \in Stamps \cup {NoStamp}, Return(t, s), lastStamp' = s
  PROVE  Channel!Answer(t)
<1>1. Channel!Close(t) /\ Open[t][1] \in Ask
  BY Closes DEF Return
<1>2. [a \in Ask |-> {None}][Open[t][1]] = {None}
  BY <1>1
<1>3. returned' = [task |-> t, ok |-> TRUE, receipt |-> None, stamp |-> s, said |-> s]
  BY DEF Return
<1>4. QED
  BY <1>1, <1>2, <1>3 DEF Channel!Answer

LEMMA RaiseIsRaise ==
  ASSUME Owned, NEW t \in Tasks, Waits(t), Raise(t)
  PROVE  Channel!Raise(t)
BY Closes DEF Raise, Channel!Raise

\* The channel's steps of a coroutine, once it asks.
LEMMA AskIsCall ==
  ASSUME Owned, NEW t \in Tasks, ~Waits(t), NEW a \in Ask, call' = [call EXCEPT ![t] = a], Quiet
  PROVE  Channel!Call(t)
<1>1. Open' = [Open EXCEPT ![t] = <<a>>] /\ Open[t] = <<>>
  BY Opens
<1>2. QED
  BY <1>1 DEF Channel!Call, Channel!Waiting, Quiet, NothingReturned, Channel!NothingReturned, Channel!None, None

\* A call that raises before it waits for anything.
LEMMA RejectIsReject ==
  ASSUME Owned, NEW t \in Tasks, ~Waits(t), Raise(t)
  PROVE  Channel!Reject(t)
<1>1. call[t] = Idle /\ call' = call
  BY DEF Owned, Waits, Raise
<1>2. QED
  BY <1>1 DEF Raise, Open, Waits, Channel!Reject

\* A step nobody's caller sees.
LEMMA QuietIsForget ==
  ASSUME Quiet, UNCHANGED call
  PROVE  Channel!Forget
BY DEF Quiet, Open, Waits, Channel!Forget, NothingReturned, Channel!NothingReturned, Channel!None, None

\* Every step is a step of the channel.
LEMMA StepIsChannelStep ==
  ASSUME Owned, Next
  PROVE  Channel!Next
<1>1. ASSUME NEW t \in Tasks, Generate(t) \/ Submit(t)
      PROVE  Channel!Next
  BY <1>1, AskIsCall DEF Generate, Submit, Channel!Next
<1>2. ASSUME NEW t \in Tasks, Rejected(t)
      PROVE  Channel!Next
  BY <1>2, RejectIsReject DEF Rejected, Channel!Next
<1>3. ASSUME NEW t \in Tasks, Answered(t)
      PROVE  Channel!Next
  BY <1>3, ReturnIsAnswer DEF Answered, Channel!Next
<1>4. ASSUME NEW t \in Tasks, Unreadable(t) \/ Fails(t) \/ TimesOut(t) \/ Cancel(t)
      PROVE  Channel!Next
  BY <1>4, RaiseIsRaise DEF Unreadable, Fails, TimesOut, Cancel, Channel!Next
<1>5. ASSUME NEW w \in Workers, Start(w) \/ Check(w) \/ Build(w) \/ Store(w) \/ Read(w)
      PROVE  Channel!Next
  BY <1>5, QuietIsForget DEF Start, Check, Build, Store, Read, Channel!Next
<1>6. ASSUME NEW w \in Workers, Ends(w)
      PROVE  Channel!Next
  <2>1. CASE job[w].owner = None
    BY <1>6, <2>1, QuietIsForget DEF Ends, Channel!Next
  <2>2. CASE job[w].owner # None
    <3>1. job[w].owner \in Tasks /\ Waits(job[w].owner) /\ By("bedrock")
      BY <2>2 DEF Owned
    <3>2. lastStamp' = NoStamp
      BY <1>6, <3>1 DEF Owned, By, Ends, Step
    <3>3. QED
      BY <1>6, <2>2, <3>1, <3>2, ReturnIsAnswer, RaiseIsRaise DEF Ends, Channel!Next
  <2>3. QED
    BY <2>1, <2>2
<1>7. QED
  BY <1>1, <1>2, <1>3, <1>4, <1>5, <1>6 DEF Next, ThreadStep

\* The backend of a setting never changes.
LEMMA SameBackend ==
  ASSUME UNCHANGED setting
  PROVE  \A class : By(class)' = By(class)
BY DEF By, Backend

\* A step of a backend without threads.
LEMMA DirectOwned ==
  ASSUME Owned, Direct, NoBedrock, call' \in [Tasks -> Ask \cup {Idle}],
         ~By("groq") => lastStamp' = NoStamp
  PROVE  Owned'
<1>1. ~By("bedrock")
  BY DEF Direct, By
<1>2. UNCHANGED <<setting, queue, job>> /\ \A class : By(class)' = By(class)
  BY SameBackend DEF NoBedrock
<1>3. QED
  BY <1>1, <1>2 DEF Owned

LEMMA SubmitOwned ==
  ASSUME Owned, NEW t \in Tasks, Submit(t)
  PROVE  Owned'
<1>1. PICK a \in Ask : call' = [call EXCEPT ![t] = a]
  BY DEF Submit
<1>2. /\ queue' = Append(queue, t) /\ call[t] = Idle /\ By("bedrock")
      /\ UNCHANGED <<lastStamp, job>> /\ \A class : By(class)' = By(class)
  BY SameBackend DEF Submit, Waits
<1>3. /\ call' \in [Tasks -> Ask \cup {Idle}] /\ call'[t] # Idle
      /\ \A u \in Tasks : u # t => call'[u] = call[u]
  BY <1>1 DEF Owned, Ask, Idle
<1>4. /\ queue' \in Seq(Tasks) /\ Len(queue') = Len(queue) + 1
      /\ DOMAIN queue' = 1..(Len(queue) + 1) /\ DOMAIN queue = 1..Len(queue) /\ Len(queue) \in Nat
      /\ queue'[Len(queue) + 1] = t
      /\ \A i \in DOMAIN queue : queue'[i] = queue[i] /\ queue[i] \in Tasks /\ queue[i] # t
  BY <1>2 DEF Owned, Waits
<1>5. \A w \in Workers : job[w].owner # t
  BY <1>2, TasksAssumption DEF Owned, Waits
<1>6. QED
  BY <1>2, <1>3, <1>4, <1>5 DEF Owned, Waits

\* Neither the queue nor a thread knows of a cancelled call any more.
LEMMA CancelOwned ==
  ASSUME Inv, Owned, NEW t \in Tasks, Cancel(t)
  PROVE  Owned'
<1>1. /\ call' = [call EXCEPT ![t] = Idle] /\ queue' = RemoveFirst(queue, t)
      /\ job' = [w \in Workers |-> IF job[w].owner = t THEN [job[w] EXCEPT !.owner = None] ELSE job[w]]
      /\ UNCHANGED lastStamp /\ \A class : By(class)' = By(class)
  BY SameBackend DEF Cancel, Raise
<1>2. /\ call' \in [Tasks -> Ask \cup {Idle}]
      /\ \A u \in Tasks : u # t => call'[u] = call[u]
  BY <1>1 DEF Owned
<1>3. \A w \in Workers : job'[w].owner = IF job[w].owner = t THEN None ELSE job[w].owner
  BY <1>1 DEF Inv, Shaped
<1>4. /\ queue' \in Seq(Tasks)
      /\ \A i \in DOMAIN queue' : \E k \in DOMAIN queue : queue'[i] = queue[k] /\ queue[k] # t
      /\ \A i, j \in DOMAIN queue' : queue'[i] = queue'[j] => i = j
  <2>1. CASE t \in ToSet(queue)
    <3>1. PICK m \in 1..Len(queue) :
            queue[m] = t /\ queue' = [j \in 1..(Len(queue) - 1) |-> IF j < m THEN queue[j] ELSE queue[j + 1]]
      BY <1>1, <2>1, RemoveFirstIs DEF Owned
    <3>2. queue' \in Seq(Tasks) /\ DOMAIN queue' = 1..(Len(queue) - 1)
      BY <3>1 DEF Owned
    <3>3. /\ DOMAIN queue = 1..Len(queue) /\ Len(queue) \in Nat
          /\ \A i, j \in DOMAIN queue : queue[i] = queue[j] => i = j
      BY DEF Owned
    <3>4. \A i \in DOMAIN queue' :
             \E k \in DOMAIN queue : k = (IF i < m THEN i ELSE i + 1) /\ k # m /\ queue'[i] = queue[k]
      BY <3>1, <3>2, <3>3
    <3>5. \A i \in DOMAIN queue' : \E k \in DOMAIN queue : queue'[i] = queue[k] /\ queue[k] # t
      BY <3>1, <3>3, <3>4
    <3>6. ASSUME NEW i \in DOMAIN queue', NEW j \in DOMAIN queue', queue'[i] = queue'[j]
          PROVE  i = j
      <4>1. /\ (IF i < m THEN i ELSE i + 1) \in DOMAIN queue /\ (IF j < m THEN j ELSE j + 1) \in DOMAIN queue
            /\ queue[IF i < m THEN i ELSE i + 1] = queue[IF j < m THEN j ELSE j + 1]
        BY <3>4, <3>6
      <4>2. (IF i < m THEN i ELSE i + 1) = (IF j < m THEN j ELSE j + 1)
        BY <3>3, <4>1
      <4>3. i \in Nat /\ j \in Nat /\ m \in Nat
        BY <3>2, <3>3
      <4>4. QED
        BY <4>2, <4>3
    <3>7. QED
      BY <3>2, <3>5, <3>6
  <2>2. CASE t \notin ToSet(queue)
    <3>1. queue' = queue /\ \A i \in DOMAIN queue : queue[i] # t
      BY <1>1, <2>2 DEF RemoveFirst, ToSet, Owned
    <3>2. QED
      BY <3>1 DEF Owned
  <2>3. QED
    BY <2>1, <2>2
<1>5. QED
  BY <1>1, <1>2, <1>3, <1>4, TasksAssumption DEF Owned, Waits

\* The oldest request gets the thread.
LEMMA StartOwned ==
  ASSUME Owned, NEW w \in Workers, Start(w)
  PROVE  Owned'
<1>1. /\ queue # <<>> /\ queue' = Tail(queue) /\ UNCHANGED <<call, lastStamp>>
      /\ \A class : By(class)' = By(class)
  BY SameBackend DEF Start, Step
<1>2. DOMAIN job' = Workers /\ job'[w].owner = Head(queue) /\ \A v \in Workers : v # w => job'[v] = job[v]
  BY DEF Start, Step, Owned
<1>3. /\ queue' \in Seq(Tasks) /\ DOMAIN queue = 1..Len(queue) /\ Len(queue) \in Nat /\ Len(queue) > 0
      /\ DOMAIN queue' = 1..(Len(queue) - 1) /\ Head(queue) = queue[1] /\ queue[1] \in Tasks
      /\ \A i \in DOMAIN queue' : queue'[i] = queue[i + 1]
  BY <1>1 DEF Owned
<1>4. By("bedrock") /\ Waits(queue[1]) /\ \A v \in Workers : job[v].owner # queue[1]
  BY <1>3 DEF Owned
<1>5. QED
  BY <1>1, <1>2, <1>3, <1>4, TasksAssumption DEF Owned, Waits

\* A thread that goes on keeps its owner.
LEMMA OnwardOwned ==
  ASSUME Owned, NEW w \in Workers, DOMAIN job' = Workers, UNCHANGED <<setting, call, lastStamp, queue>>,
         \A v \in Workers : job'[v].owner = job[v].owner
  PROVE  Owned'
<1>1. \A class : By(class)' = By(class)
  BY SameBackend
<1>2. QED
  BY <1>1 DEF Owned, Waits

\* A thread that ends is nobody's.
LEMMA EndsOwned ==
  ASSUME Owned, NEW w \in Workers, Ends(w)
  PROVE  Owned'
<1>1. /\ UNCHANGED <<lastStamp, queue>> /\ \A class : By(class)' = By(class)
      /\ job' = [job EXCEPT ![w] = NoJob]
  BY SameBackend DEF Ends, Step
<1>2. DOMAIN job' = Workers /\ job'[w].owner = None /\ \A v \in Workers : v # w => job'[v] = job[v]
  BY <1>1 DEF Owned, NoJob
<1>3. CASE job[w].owner = None
  <2>1. UNCHANGED call /\ \A i \in DOMAIN queue : queue[i] \in Tasks
    BY <1>3 DEF Ends, Owned
  <2>2. QED
    BY <1>1, <1>2, <2>1, TasksAssumption DEF Owned, Waits
<1>4. CASE job[w].owner # None
  <2>1. call' = [call EXCEPT ![job[w].owner] = Idle]
    BY <1>4 DEF Ends, Return, Raise
  <2>2. /\ call' \in [Tasks -> Ask \cup {Idle}]
        /\ \A u \in Tasks : u # job[w].owner => call'[u] = call[u]
    BY <2>1 DEF Owned
  <2>3. \A i \in DOMAIN queue : queue[i] \in Tasks
    BY DEF Owned
  <2>4. QED
    BY <1>1, <1>2, <1>4, <2>2, <2>3, TasksAssumption DEF Owned, Waits
<1>5. QED
  BY <1>3, <1>4

\* The invariant of the refinement: however requests are queued, started, cancelled
\* and answered, no two places hold one coroutine's call.
THEOREM OwnersInvariance == Spec => []Owned
<1>1. Init => Owned
  BY DEF Init, Owned, NoJob
<1>2. Inv /\ Owned /\ [Next]_vars => Owned'
  <2> SUFFICES ASSUME Inv, Owned, [Next]_vars PROVE Owned'
    OBVIOUS
  <2>1. CASE UNCHANGED vars
    BY <2>1, SameBackend DEF vars, Owned, Waits
  <2>2. ASSUME NEW t \in Tasks,
               \/ Generate(t) \/ Rejected(t) \/ Answered(t) \/ Unreadable(t) \/ Fails(t) \/ TimesOut(t)
        PROVE  Owned'
    <3>1. Direct /\ NoBedrock
      BY <2>2 DEF Generate, Rejected, Answered, Unreadable, Fails, TimesOut
    <3>2. call' \in [Tasks -> Ask \cup {Idle}]
      BY <2>2 DEF Owned, Generate, Rejected, Answered, Unreadable, Fails, TimesOut, Raise, Return
    <3>3. ~By("groq") => lastStamp' = NoStamp
      BY <2>2 DEF Owned, Generate, Rejected, Answered, Unreadable, Fails, TimesOut
    <3>4. QED
      BY <3>1, <3>2, <3>3, DirectOwned
  <2>3. ASSUME NEW w \in Workers, Check(w) \/ Build(w) \/ Store(w) \/ Read(w)
        PROVE  Owned'
    <3>1. UNCHANGED <<setting, call, lastStamp, queue>> /\ DOMAIN job' = Workers
      BY <2>3 DEF Check, Build, Store, Read, Step, Owned
    <3>2. \A v \in Workers : job'[v].owner = job[v].owner
      BY <2>3, AtType DEF Check, Build, Store, Read, Step, Owned, Inv
    <3>3. QED
      BY <3>1, <3>2, OnwardOwned
  <2>4. QED
    BY <2>1, <2>2, <2>3, SubmitOwned, CancelOwned, StartOwned, EndsOwned DEF Next, ThreadStep
<1>3. QED
  BY <1>1, <1>2, RaceInvariance, PTL DEF Spec

\* Groq's identifiers are those of the caller's own response, and no other backend
\* pretends to have any, whoever is cancelled and however threads and coroutines
\* interleave.
THEOREM Refinement == Spec => ImplementsChannel
<1>1. Init => Channel!Init
  <2> SUFFICES ASSUME Init PROVE Channel!Init
    OBVIOUS
  <2>1. Open = [t \in Tasks |-> <<>>]
    BY DEF Init, Open, Waits
  <2>2. QED
    BY <2>1 DEF Init, Channel!Init, NothingReturned, Channel!NothingReturned, Channel!None, None
<1>2. Owned /\ [Next]_vars => [Channel!Next]_(Channel!chanVars)
  <2> SUFFICES ASSUME Owned, [Next]_vars PROVE [Channel!Next]_(Channel!chanVars)
    OBVIOUS
  <2>1. CASE UNCHANGED vars
    BY <2>1 DEF vars, Open, Waits, Channel!chanVars
  <2>2. QED
    BY <2>1, StepIsChannelStep
<1>3. QED
  BY <1>1, <1>2, OwnersInvariance, PTL DEF Spec, Channel!Spec, ImplementsChannel
=============================================================================

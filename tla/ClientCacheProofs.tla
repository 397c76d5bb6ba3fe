------------------------- MODULE ClientCacheProofs -------------------------
(***************************************************************************)
(* Proofs about ClientCache, for any links, chains, coroutines and number  *)
(* of event loops and clients.                                             *)
(***************************************************************************)
EXTENDS ClientCache, TLAPS, WellFoundedInduction

Client == DOMAIN built

Origin == [link : Links, loop : Nat]

\* An aclose in progress: where it is in which links, and what it found.
Closing == [links : Closings, at : Nat, found : SUBSET Nat]

CacheTyped ==
  /\ built \in Seq(Origin)
  /\ loop \in Nat
  /\ asked \subseteq Client
  /\ client \in [Links -> Client \cup {None}]
  /\ loopOf \in [Links -> Nat \cup {None}]
  /\ request \in [Tasks -> Client \cup {None}]
  /\ closer \in [Closers -> {Idle} \cup Closing]

\* A link holds a client of its own, built for the loop it remembers.
HoldsItsOwn ==
  \A b \in Links : client[b] # None => built[client[b]] = [link |-> b, loop |-> loopOf[b]]

NoneFromAhead == \A n \in Client : built[n].loop <= loop

\* What an aclose found is of this loop, and is closed or belongs to a link the
\* aclose has still to reach: where it is by now does not depend on the others.
FoundAhead ==
  \A c \in Closers : closer[c] # Idle =>
    \A n \in closer[c].found :
      /\ n \in Client /\ built[n].loop = loop
      /\ \/ n \in asked
         \/ \E j \in (closer[c].at + 1)..Len(closer[c].links) : closer[c].links[j] = built[n].link

Inv ==
  /\ CacheTyped /\ HoldsItsOwn /\ NoneFromAhead /\ FoundAhead
  /\ OwnLoop /\ ClosingNotCached /\ NoneForgotten /\ AcloseReturnsDone

\* A set of numbers that is not empty has a least one.
LEMMA Least ==
  ASSUME NEW T, T \subseteq Nat, T # {}
  PROVE  \E j \in T : \A k \in T : j <= k
<1>1. PICK j \in T : \A k \in T : <<k, j>> \notin OpToRel(<, Nat)
  BY NatLessThanWellFounded, WFMin
<1>2. \A k \in T : ~ (k < j)
  BY <1>1 DEF OpToRel
<1>3. QED
  BY <1>2

\* Clients are numbers, each built for a link and a loop.
LEMMA ClientType ==
  ASSUME CacheTyped
  PROVE  /\ Client = 1..Len(built) /\ Len(built) \in Nat /\ Client \subseteq Nat /\ None \notin Client
         /\ \A n \in Client : built[n] \in Origin /\ built[n].link \in Links /\ built[n].loop \in Nat
<1>1. built \in Seq(Origin)
  BY DEF CacheTyped
<1>2. Client = 1..Len(built) /\ Len(built) \in Nat /\ \A n \in Client : built[n] \in Origin
  BY <1>1 DEF Client
<1>3. QED
  BY <1>2, BoundsAssumption DEF Origin

\* Nothing a request does reaches a closer: it takes the cached client or a new one.
LEMMA RequestKeeps ==
  ASSUME Inv, NEW t \in Tasks, Request(t)
  PROVE  Inv'
<1> USE BoundsAssumption
<1>1. PICK b \in Links :
        IF Fresh(b)
          THEN /\ request' = [request EXCEPT ![t] = client[b]]
               /\ UNCHANGED <<client, loopOf, built>>
          ELSE /\ Len(built) < MaxClients
               /\ built' = Append(built, [link |-> b, loop |-> loop])
               /\ client' = [client EXCEPT ![b] = Len(built')]
               /\ loopOf' = [loopOf EXCEPT ![b] = loop]
               /\ request' = [request EXCEPT ![t] = Len(built')]
  BY DEF Request
<1>2. /\ ended' = NoneEnded
      /\ UNCHANGED <<loop, closer, asked>>
  BY DEF Request
<1>3. CacheTyped /\ None \notin Client
  BY ClientType DEF Inv
<1>4. CASE Fresh(b)
  <2>1. /\ client[b] \in Client /\ built[client[b]] = [link |-> b, loop |-> loop]
        /\ request' = [request EXCEPT ![t] = client[b]]
    BY <1>1, <1>3, <1>4 DEF Inv, CacheTyped, HoldsItsOwn, Fresh
  <2>2. built[client[b]].loop = loop
    BY <2>1
  <2>3. UNCHANGED <<client, loopOf, built, loop, closer, asked>>
    BY <1>1, <1>2, <1>4
  <2>4. CacheTyped'
    BY <1>3, <2>1, <2>3 DEF CacheTyped, Client
  <2>5. OwnLoop'
    BY <1>3, <2>1, <2>2, <2>3 DEF Inv, CacheTyped, OwnLoop
  <2>6. QED
    BY <2>3, <2>4, <2>5, <1>2
      DEF Inv, HoldsItsOwn, NoneFromAhead, FoundAhead, ClosingNotCached, NoneForgotten,
          AcloseReturnsDone, NoneEnded, Client
<1>5. CASE ~Fresh(b)
  <2> DEFINE new == Len(built) + 1
             origin == [link |-> b, loop |-> loop]
  <2>1. origin \in Origin /\ origin.link = b /\ origin.loop = loop
    BY <1>3 DEF Origin, CacheTyped
  <2> HIDE DEF origin
  <2>2. built' = Append(built, origin) /\ built \in Seq(Origin)
    BY <1>1, <1>3, <1>5 DEF CacheTyped, origin
  <2>3. /\ built' \in Seq(Origin) /\ Len(built') = new /\ built'[new] = origin
        /\ Client' = Client \cup {new} /\ new \in Nat /\ new \notin Client
        /\ \A n \in Client : built'[n] = built[n]
    BY <2>1, <2>2 DEF Client
  <2>4. /\ client' = [client EXCEPT ![b] = new]
        /\ loopOf' = [loopOf EXCEPT ![b] = loop]
        /\ request' = [request EXCEPT ![t] = new]
    BY <1>1, <1>5, <2>3
  <2> HIDE DEF new
  <2>5. /\ \A n \in Client : built[n].link \in Links /\ n # None
        /\ new # None
    BY <1>3, <2>3, ClientType, BoundsAssumption
  <2>6. CacheTyped'
    BY <1>2, <1>3, <2>3, <2>4 DEF CacheTyped
  <2>7. HoldsItsOwn'
    <3> SUFFICES ASSUME NEW k \in Links, client'[k] # None
                 PROVE  built'[client'[k]] = [link |-> k, loop |-> loopOf'[k]]
      BY DEF HoldsItsOwn
    <3>1. CASE k = b
      BY <1>3, <2>3, <2>4, <3>1 DEF CacheTyped, origin
    <3>2. CASE k # b
      BY <1>3, <2>3, <2>4, <3>2 DEF CacheTyped, Inv, HoldsItsOwn
    <3>3. QED
      BY <3>1, <3>2
  <2>8. NoneFromAhead'
    BY <1>2, <1>3, <2>1, <2>3 DEF Inv, CacheTyped, NoneFromAhead
  <2>9. OwnLoop'
    BY <1>2, <1>3, <2>1, <2>3, <2>4 DEF Inv, CacheTyped, OwnLoop
  <2>10. ClosingNotCached' /\ AcloseReturnsDone'
    BY <1>2, <1>3, <2>3, <2>4 DEF Inv, CacheTyped, ClosingNotCached, AcloseReturnsDone, NoneEnded
  <2>11. FoundAhead'
    BY <1>2, <2>3 DEF Inv, FoundAhead
  <2>12. ASSUME NEW n \in Client, built[n].loop = loop, n \notin asked
         PROVE  client'[built[n].link] = n
    <3>1. client[built[n].link] = n /\ n # None /\ built[n].link \in Links
      BY <2>5, <2>12 DEF Inv, NoneForgotten, Client
    <3>2. built[n] = [link |-> built[n].link, loop |-> loopOf[built[n].link]]
      BY <3>1 DEF Inv, HoldsItsOwn
    <3>3. loopOf[built[n].link] = loop
      BY <2>12, <3>2
    <3>4. built[n].link # b
      BY <1>5, <3>1, <3>3 DEF Fresh
    <3>5. QED
      BY <1>3, <2>4, <3>1, <3>4 DEF CacheTyped
  <2>13. NoneForgotten'
    <3> SUFFICES ASSUME NEW n \in Client', built'[n].loop = loop, n \notin asked
                 PROVE  client'[built'[n].link] = n
      BY <1>2 DEF NoneForgotten, Client
    <3>1. CASE n = new
      BY <1>3, <2>1, <2>3, <2>4, <3>1 DEF CacheTyped
    <3>2. CASE n \in Client
      BY <2>3, <2>12, <3>2
    <3>3. QED
      BY <2>3, <3>1, <3>2
  <2>14. QED
    BY <2>6, <2>7, <2>8, <2>9, <2>10, <2>11, <2>13 DEF Inv
<1>6. QED
  BY <1>4, <1>5

\* An aclose that goes on from link i, when what it found is closed or belongs to
\* link i or a later one.
LEMMA ReachKeeps ==
  ASSUME Inv, NEW c \in Closers, NEW links \in Closings, NEW i \in Nat \ {0},
         NEW found \in SUBSET Client, Reach(c, links, i, found), UNCHANGED <<built, loop, request>>,
         \A n \in found :
           /\ built[n].loop = loop
           /\ n \in asked \/ \E j \in i..Len(links) : links[j] = built[n].link
  PROVE  Inv'
<1> DEFINE open == {j \in i..Len(links) : client[links[j]] # None}
<1>1. CacheTyped /\ None \notin Client /\ Client \subseteq Nat
  BY ClientType DEF Inv
<1>2. links \in Seq(Links) /\ Len(links) \in Nat /\ \A j \in i..Len(links) : links[j] \in Links
  BY ClosingsAssumption
<1>3. \A n \in found \ asked : \E j \in open : links[j] = built[n].link /\ client[links[j]] = n
  <2> SUFFICES ASSUME NEW n \in found, n \notin asked
               PROVE  \E j \in open : links[j] = built[n].link /\ client[links[j]] = n
    OBVIOUS
  <2>1. PICK j \in i..Len(links) : links[j] = built[n].link
    OBVIOUS
  <2>2. client[links[j]] = n /\ n # None
    BY <1>1, <2>1 DEF Inv, NoneForgotten, Client
  <2>3. QED
    BY <2>1, <2>2
<1>4. CASE open = {}
  <2>1. /\ UNCHANGED <<client, loopOf, asked>>
        /\ closer' = [closer EXCEPT ![c] = Idle]
        /\ ended' = [ok |-> TRUE, left |-> found \ asked]
    BY <1>4 DEF Reach, End
  <2>2. ended'.left = {}
    BY <1>3, <1>4, <2>1
  <2>3. CacheTyped'
    BY <1>1, <2>1 DEF CacheTyped, Client
  <2>4. FoundAhead'
    BY <1>1, <2>1 DEF Inv, CacheTyped, FoundAhead, Client
  <2>5. QED
    BY <2>1, <2>2, <2>3, <2>4
      DEF Inv, HoldsItsOwn, NoneFromAhead, OwnLoop, ClosingNotCached, NoneForgotten,
          AcloseReturnsDone, Client
<1>5. CASE open # {}
  <2> DEFINE j == CHOOSE k \in open : \A m \in open : k <= m
             b == links[j]
             new == [links |-> links, at |-> j, found |-> found]
  <2>1. open \subseteq Nat
    BY <1>2
  <2>2. j \in open /\ \A m \in open : j <= m
    BY <1>5, <2>1, Least
  <2>3. /\ asked' = asked \cup {client[b]}
        /\ client' = [client EXCEPT ![b] = None]
        /\ loopOf' = [loopOf EXCEPT ![b] = None]
        /\ closer' = [closer EXCEPT ![c] = new]
        /\ ended' = NoneEnded
    BY <1>5 DEF Reach
  <2>4. /\ j \in i..Len(links) /\ j \in Nat /\ b \in Links
        /\ client[b] # None /\ client[b] \in Client
    BY <1>1, <1>2, <2>2 DEF CacheTyped
  <2>5. new \in Closing
    BY <1>1, <2>4 DEF Closing
  <2>6. new.links = links /\ new.at = j /\ new.found = found
    OBVIOUS
  <2>7. \A n \in found :
          \/ n \in asked'
          \/ \E k \in (j + 1)..Len(links) : links[k] = built[n].link
    <3> SUFFICES ASSUME NEW n \in found, n \notin asked'
                 PROVE  \E k \in (j + 1)..Len(links) : links[k] = built[n].link
      OBVIOUS
    <3>1. n \notin asked /\ n # client[b]
      BY <2>3
    <3>2. PICK k \in open : links[k] = built[n].link /\ client[links[k]] = n
      BY <1>3, <3>1
    <3>3. j <= k /\ k # j /\ k \in i..Len(links)
      BY <2>2, <3>1, <3>2
    <3>4. k \in (j + 1)..Len(links)
      BY <1>2, <2>4, <3>3
    <3>5. QED
      BY <3>2, <3>4
  <2>8. built' = built /\ loop' = loop /\ request' = request /\ Client' = Client
    BY DEF Client
  <2> HIDE DEF new, j, b, open
  <2>9. CacheTyped'
    BY <1>1, <2>3, <2>4, <2>5, <2>8 DEF CacheTyped
  <2>10. HoldsItsOwn' /\ NoneFromAhead' /\ OwnLoop' /\ AcloseReturnsDone'
    BY <1>1, <2>3, <2>4, <2>8
      DEF Inv, CacheTyped, HoldsItsOwn, NoneFromAhead, OwnLoop, AcloseReturnsDone, NoneEnded
  <2>11. FoundAhead'
    <3> SUFFICES ASSUME NEW d \in Closers, closer'[d] # Idle, NEW n \in closer'[d].found
                 PROVE  /\ n \in Client /\ built[n].loop = loop
                        /\ \/ n \in asked'
                           \/ \E k \in (closer'[d].at + 1)..Len(closer'[d].links) :
                                closer'[d].links[k] = built[n].link
      BY <2>8 DEF FoundAhead
    <3>1. CASE d = c
      <4>1. closer'[d] = new
        BY <1>1, <2>3, <3>1 DEF CacheTyped
      <4>2. QED
        BY <2>6, <2>7, <4>1
    <3>2. CASE d # c
      <4>1. closer'[d] = closer[d] /\ asked \subseteq asked'
        BY <1>1, <2>3, <3>2 DEF CacheTyped
      <4>2. QED
        BY <4>1 DEF Inv, FoundAhead
    <3>3. QED
      BY <3>1, <3>2
  <2>12. ClosingNotCached'
    <3> SUFFICES ASSUME NEW k \in Links, k # b
                 PROVE  client[k] # client[b]
      BY <1>1, <2>3, <2>4 DEF Inv, CacheTyped, ClosingNotCached
    <3>1. built[client[b]] = [link |-> b, loop |-> loopOf[b]]
      BY <2>4 DEF Inv, HoldsItsOwn
    <3>2. client[k] # None => built[client[k]] = [link |-> k, loop |-> loopOf[k]]
      BY DEF Inv, HoldsItsOwn
    <3>3. built[client[b]].link = b /\ (client[k] # None => built[client[k]].link = k)
      BY <3>1, <3>2
    <3>4. QED
      BY <2>4, <3>3
  <2>13. NoneForgotten'
    BY <1>1, <2>3, <2>4, <2>8 DEF Inv, CacheTyped, NoneForgotten, Client
  <2>14. QED
    BY <2>9, <2>10, <2>11, <2>12, <2>13 DEF Inv
<1>6. QED
  BY <1>4, <1>5

\* An aclose that begins finds the clients of its own links.
LEMMA AcloseKeeps ==
  ASSUME Inv, NEW c \in Closers, Aclose(c)
  PROVE  Inv'
<1>1. PICK links \in Closings : Reach(c, links, 1, Cached(links))
  BY DEF Aclose
<1>2. CacheTyped /\ links \in Seq(Links) /\ DOMAIN links = 1..Len(links)
  BY <1>1, ClosingsAssumption DEF Inv
<1>3. ASSUME NEW n \in Cached(links)
      PROVE  /\ n \in Client /\ built[n].loop = loop
             /\ \E j \in 1..Len(links) : links[j] = built[n].link
  <2>1. PICK j \in DOMAIN links : Fresh(links[j]) /\ n = client[links[j]]
    BY DEF Cached
  <2>2. links[j] \in Links
    BY <1>2
  <2>3. n \in Client /\ built[n] = [link |-> links[j], loop |-> loop]
    BY <1>2, <2>1, <2>2 DEF Fresh, CacheTyped, Inv, HoldsItsOwn
  <2>4. QED
    BY <1>2, <2>3
<1>4. UNCHANGED <<built, loop, request>>
  BY DEF Aclose
<1>5. Cached(links) \in SUBSET Client /\ 1 \in Nat \ {0}
  BY <1>3
<1>6. QED
  BY <1>1, <1>3, <1>4, <1>5, ReachKeeps

\* A close() that returns, or raises, or is cut off with its loop.
LEMMA ClosedKeeps ==
  ASSUME Inv, NEW c \in Closers, Closed(c)
  PROVE  Inv'
<1>1. closer[c] \in Closing /\ closer[c] # Idle
  BY DEF Inv, CacheTyped, Closed
<1>2. closer[c].links \in Closings /\ closer[c].at + 1 \in Nat \ {0}
  BY <1>1 DEF Closing
<1>3. closer[c].found \in SUBSET Client
  BY <1>1 DEF Inv, FoundAhead
<1>4. Reach(c, closer[c].links, closer[c].at + 1, closer[c].found)
  BY DEF Closed
<1>5. UNCHANGED <<built, loop, request>>
  BY DEF Closed
<1>6. \A n \in closer[c].found :
        /\ built[n].loop = loop
        /\ \/ n \in asked
           \/ \E j \in (closer[c].at + 1)..Len(closer[c].links) : closer[c].links[j] = built[n].link
  BY <1>1 DEF Inv, FoundAhead
<1>7. QED
  BY <1>2, <1>3, <1>4, <1>5, <1>6, ReachKeeps

LEMMA CloseFailsKeeps ==
  ASSUME Inv, NEW c \in Closers, CloseFails(c)
  PROVE  Inv'
<1>1. /\ UNCHANGED <<client, loopOf, asked, built, loop, request>>
      /\ closer' = [closer EXCEPT ![c] = Idle]
      /\ ended'.ok = FALSE
  BY DEF CloseFails, End
<1>2. CacheTyped' /\ FoundAhead'
  BY <1>1 DEF Inv, CacheTyped, FoundAhead, Client
<1>3. QED
  BY <1>1, <1>2 DEF Inv, HoldsItsOwn, NoneFromAhead, OwnLoop, ClosingNotCached, NoneForgotten,
                    AcloseReturnsDone, Client

LEMMA RequestEndsKeeps ==
  ASSUME Inv, NEW t \in Tasks, RequestEnds(t)
  PROVE  Inv'
<1>1. CacheTyped' /\ OwnLoop'
  BY DEF RequestEnds, Inv, CacheTyped, OwnLoop, Client
<1>2. QED
  BY <1>1 DEF RequestEnds, Inv, HoldsItsOwn, NoneFromAhead, FoundAhead, ClosingNotCached,
              NoneForgotten, AcloseReturnsDone, NoneEnded, Client

LEMMA LoopEndsKeeps ==
  ASSUME Inv, LoopEnds
  PROVE  Inv'
<1>1. /\ loop' = loop + 1
      /\ request' = [t \in Tasks |-> None]
      /\ closer' = [c \in Closers |-> Idle]
      /\ ended' = NoneEnded
      /\ UNCHANGED <<client, loopOf, built, asked>>
  BY DEF LoopEnds
<1>2. CacheTyped /\ \A n \in Client : built[n].loop \in Nat
  BY ClientType DEF Inv
<1>3. CacheTyped'
  BY <1>1, <1>2 DEF CacheTyped, Client
<1>4. \A n \in Client : built[n].loop <= loop /\ built[n].loop # loop + 1 /\ built[n].loop <= loop + 1
  BY <1>2 DEF Inv, NoneFromAhead, CacheTyped
<1>5. QED
  BY <1>1, <1>3, <1>4 DEF Inv, HoldsItsOwn, NoneFromAhead, FoundAhead, OwnLoop, ClosingNotCached,
                          NoneForgotten, AcloseReturnsDone, NoneEnded, Client
----------------------------------------------------------------------------
\* The inductive invariant: links hold clients of their own, and what an aclose
\* found is closed or lies ahead of it.
THEOREM Invariance == Spec => []Inv
<1>1. Init => Inv
  <2> SUFFICES ASSUME Init PROVE Inv
    OBVIOUS
  <2>1. built \in Seq(Origin) /\ Client = {}
    BY DEF Init, Client
  <2>2. CacheTyped
    BY <2>1 DEF Init, CacheTyped
  <2>3. QED
    BY <2>1, <2>2 DEF Init, Inv, HoldsItsOwn, NoneFromAhead, FoundAhead, OwnLoop,
                      ClosingNotCached, NoneForgotten, AcloseReturnsDone, NoneEnded, Client
<1>2. Inv /\ [Next]_vars => Inv'
  <2> SUFFICES ASSUME Inv, [Next]_vars PROVE Inv'
    OBVIOUS
  <2>1. CASE UNCHANGED vars
    BY <2>1 DEF vars, Inv, CacheTyped, HoldsItsOwn, NoneFromAhead, FoundAhead, OwnLoop,
                ClosingNotCached, NoneForgotten, AcloseReturnsDone, Client
  <2>2. QED
    BY <2>1, LoopEndsKeeps, RequestKeeps, RequestEndsKeeps, AcloseKeeps, ClosedKeeps,
       CloseFailsKeeps DEF Next
<1>3. QED
  BY <1>1, <1>2, PTL DEF Spec

\* However many event loops follow one another, no request runs on a client whose
\* loop is over.
THEOREM LoopsOwn == Spec => []OwnLoop
<1>1. Inv => OwnLoop
  BY DEF Inv
<1>2. QED
  BY <1>1, Invariance, PTL

\* A link never hands out a client whose close() was called.
THEOREM ClosedNotServed == Spec => []ClosingNotCached
<1>1. Inv => ClosingNotCached
  BY DEF Inv
<1>2. QED
  BY <1>1, Invariance, PTL

\* No order of requests and acloses, on any chains, loses a client of the running
\* loop.
THEOREM NothingLost == Spec => []NoneForgotten
<1>1. Inv => NoneForgotten
  BY DEF Inv
<1>2. QED
  BY <1>1, Invariance, PTL

\* An aclose of any chain that returns has closed all it found, whoever else closes
\* or builds clients at the same time.
THEOREM AcloseComplete == Spec => []AcloseReturnsDone
<1>1. Inv => AcloseReturnsDone
  BY DEF Inv
<1>2. QED
  BY <1>1, Invariance, PTL
=============================================================================

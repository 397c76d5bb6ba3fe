---------------------------- MODULE ClientCache ----------------------------
(***************************************************************************)
(* The SDK clients of the links of a chain: one LoopBoundClient per link   *)
(* (_client_cache.py), requests that take a client before their await and  *)
(* use it until they end, and aclose() of a link or of the whole chain     *)
(* (fallback.py), which suspends while each client closes.  Event loops    *)
(* follow one another; the end of one cancels what runs on it.             *)
(***************************************************************************)
EXTENDS Naturals, Sequences, FiniteSets

CONSTANTS
  Tasks,      \* the coroutines that make requests
  Closers,    \* the coroutines that may call aclose
  Links,      \* the backends of the chain
  Closings,   \* what aclose is called on: the links of a chain, in order
  None,
  MaxLoops,   \* bound: event loops
  MaxClients  \* bound: SDK clients built

ASSUME ClosingsAssumption == Closings \subseteq Seq(Links) /\ <<>> \notin Closings
ASSUME BoundsAssumption == MaxLoops \in Nat /\ MaxClients \in Nat /\ None \notin Nat

VARIABLES
  client,    \* client[b]: _client of link b, a client number or None
  loopOf,    \* loopOf[b]: _loop of link b
  built,     \* history: built[n]: the link and the loop client n was built for
  loop,      \* the running event loop
  request,   \* request[t]: the client t's request uses, or None
  closer,    \* closer[c]: the aclose c is in, or Idle
  asked,     \* history: the clients whose close() was called
  ended      \* history: the clients the aclose that just ended found and left

vars == <<client, loopOf, built, loop, request, closer, asked, ended>>

Idle == [links |-> <<>>]
NoneEnded == [ok |-> TRUE, left |-> {}]

----------------------------------------------------------------------------
\* Mutant: the client of an earlier loop is kept.
Fresh_anyLoop(b) == client[b] # None

\* LoopBoundClient.get: the cached client is this loop's.
Fresh(b) == client[b] # None /\ loopOf[b] = loop

\* The clients of the running loop that links hold.
Cached(links) == {client[links[i]] : i \in {j \in DOMAIN links : Fresh(links[j])}}

\* A request takes the cached client, or has one built, and waits.
Request(t) ==
  /\ request[t] = None
  /\ \E b \in Links :
       IF Fresh(b)
         THEN /\ request' = [request EXCEPT ![t] = client[b]]
              /\ UNCHANGED <<client, loopOf, built>>
         ELSE /\ Len(built) < MaxClients
              /\ built' = Append(built, [link |-> b, loop |-> loop])
              /\ client' = [client EXCEPT ![b] = Len(built')]
              /\ loopOf' = [loopOf EXCEPT ![b] = loop]
              /\ request' = [request EXCEPT ![t] = Len(built')]
  /\ ended' = NoneEnded
  /\ UNCHANGED <<loop, closer, asked>>

RequestEnds(t) ==
  /\ request[t] # None
  /\ request' = [request EXCEPT ![t] = None]
  /\ ended' = NoneEnded
  /\ UNCHANGED <<client, loopOf, built, loop, closer, asked>>

----------------------------------------------------------------------------
\* What an aclose that ends leaves of the clients it found when it began.
End(c, ok, found) ==
  /\ closer' = [closer EXCEPT ![c] = Idle]
  /\ ended' = [ok |-> ok, left |-> found \ asked']

\* Mutant: the client is given up when its close is over.
Reach_closeThenSwap(c, links, i, found) ==
  LET open == {j \in i..Len(links) : client[links[j]] # None /\ client[links[j]] \notin asked}
  IN IF open = {}
       THEN UNCHANGED <<client, loopOf, asked>> /\ End(c, TRUE, found)
       ELSE LET j == CHOOSE k \in open : \A m \in open : k <= m
                b == links[j]
            IN /\ asked' = asked \cup {client[b]}
               /\ closer' = [closer EXCEPT ![c] = [links |-> links, at |-> j, found |-> found]]
               /\ ended' = NoneEnded
               /\ UNCHANGED <<client, loopOf>>

\* Mutant: every link forgets its client before the first close().
Reach_swapAllFirst(c, links, i, found) ==
  LET open == {j \in i..Len(links) : client[links[j]] # None}
  IN IF open = {}
       THEN UNCHANGED <<client, loopOf, asked>> /\ End(c, TRUE, found)
       ELSE LET j == CHOOSE k \in open : \A m \in open : k <= m
            IN /\ asked' = asked \cup {client[links[j]]}
               /\ client' = [b \in Links |-> None]
               /\ loopOf' = [b \in Links |-> None]
               /\ closer' = [closer EXCEPT ![c] = [links |-> links, at |-> j, found |-> found]]
               /\ ended' = NoneEnded

\* From link i on: links without a client are passed, the next one is forgotten
\* by its link before its close() is awaited.
Reach(c, links, i, found) ==
  LET open == {j \in i..Len(links) : client[links[j]] # None}
  IN IF open = {}
       THEN UNCHANGED <<client, loopOf, asked>> /\ End(c, TRUE, found)
       ELSE LET j == CHOOSE k \in open : \A m \in open : k <= m
                b == links[j]
            IN /\ asked' = asked \cup {client[b]}
               /\ client' = [client EXCEPT ![b] = None]
               /\ loopOf' = [loopOf EXCEPT ![b] = None]
               /\ closer' = [closer EXCEPT ![c] = [links |-> links, at |-> j, found |-> found]]
               /\ ended' = NoneEnded

Aclose(c) ==
  /\ closer[c] = Idle
  /\ \E links \in Closings : Reach(c, links, 1, Cached(links))
  /\ UNCHANGED <<built, loop, request>>

\* Mutant: the loop over the links ends with the first client it closed.
Closed_stops(c) ==
  /\ closer[c] # Idle
  /\ UNCHANGED <<client, loopOf, asked>>
  /\ End(c, TRUE, closer[c].found)
  /\ UNCHANGED <<built, loop, request>>

\* close() returned (or was no coroutine): the next link.
Closed(c) ==
  /\ closer[c] # Idle
  /\ Reach(c, closer[c].links, closer[c].at + 1, closer[c].found)
  /\ UNCHANGED <<built, loop, request>>

\* close() raised anything else, and so does aclose.
CloseFails(c) ==
  /\ closer[c] # Idle
  /\ UNCHANGED <<client, loopOf, asked>>
  /\ End(c, FALSE, closer[c].found)
  /\ UNCHANGED <<built, loop, request>>

\* The loop ends and the next one starts; nothing tells the links.
LoopEnds ==
  /\ loop < MaxLoops
  /\ loop' = loop + 1
  /\ request' = [t \in Tasks |-> None]
  /\ closer' = [c \in Closers |-> Idle]
  /\ ended' = NoneEnded
  /\ UNCHANGED <<client, loopOf, built, asked>>

----------------------------------------------------------------------------
Init ==
  /\ client = [b \in Links |-> None]
  /\ loopOf = [b \in Links |-> None]
  /\ built = <<>>
  /\ loop = 1
  /\ request = [t \in Tasks |-> None]
  /\ closer = [c \in Closers |-> Idle]
  /\ asked = {}
  /\ ended = NoneEnded

Next ==
  \/ LoopEnds
  \/ \E t \in Tasks : Request(t) \/ RequestEnds(t)
  \/ \E c \in Closers : Aclose(c) \/ Closed(c) \/ CloseFails(c)

Spec == Init /\ [][Next]_vars

----------------------------------------------------------------------------
(* Properties *)

\* A request never uses a client whose connection pool belongs to a loop that is
\* over.
OwnLoop == \A t \in Tasks : request[t] # None => built[request[t]].loop = loop

\* A client whose close() was called is cached no more: a request that comes
\* while it closes has a new one built.
ClosingNotCached == \A b \in Links : client[b] \notin asked

\* A client of the running loop is the cached one of its link or was closed: no
\* order of requests and acloses loses one, or builds a second beside it.
NoneForgotten ==
  \A n \in DOMAIN built : built[n].loop = loop => n \in asked \/ client[built[n].link] = n

\* An aclose that returns has called close() on every client of this loop it
\* found on its links, though others close and build clients meanwhile.
AcloseReturnsDone == ended.ok => ended.left = {}
=============================================================================

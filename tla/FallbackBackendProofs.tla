----------------------- MODULE FallbackBackendProofs -----------------------
(***************************************************************************)
(* Proofs about FallbackBackend, for any chain, links, coroutines, number  *)
(* of retries, and with breakers or without.                               *)
(***************************************************************************)
EXTENDS FallbackBackend, TLAPS, WellFoundedInduction

Inv == TypeOK /\ ReceiptFromServer /\ ServerNamed

\* A set of numbers that is not empty has a least one.
LEMMA Least ==
  ASSUME NEW T, T \subseteq Nat, T # {}
  PROVE  \E j \in T : \A k \in T : j <= k
<1>1. PICK j \in T : \A k \in T : <<k, j>> \notin OpToRel(<, Nat)
  BY NatLessThanWellFounded, WFMin
<1>2. \A k \in T : ~ (k < j)
  BY <1>1 DEF OpToRel
<1>3. QED
  BY <1>2

\* The places of a chain are numbers, and a link stands at each.
LEMMA PlaceType ==
  /\ DOMAIN Chain \subseteq Nat \ {0}
  /\ \A i \in DOMAIN Chain : Chain[i] \in Links /\ Chain[i] # None
<1>1. Chain \in Seq(Links) /\ None \notin Links
  BY ChainAssumption
<1>2. DOMAIN Chain = 1..Len(Chain) /\ Len(Chain) \in Nat
  BY <1>1
<1>3. \A i \in DOMAIN Chain : Chain[i] \in Links
  BY DEF Links
<1>4. QED
  BY <1>1, <1>2, <1>3

\* The next place is one of the candidates that lie ahead and are let through.
LEMMA NextAtType ==
  ASSUME NEW a, NEW i, NextAt(a, i) # 0
  PROVE  NextAt(a, i) \in Candidates(a) /\ NextAt(a, i) \in DOMAIN Chain
<1> DEFINE ready == {j \in Candidates(a) : j > i /\ Chain[j] \notin tripped}
<1>1. ready \subseteq DOMAIN Chain /\ ready \subseteq Nat /\ ready # {}
  BY PlaceType DEF NextAt, Candidates
<1>2. \E j \in ready : \A k \in ready : j <= k
  BY <1>1, Least
<1>3. NextAt(a, i) = CHOOSE j \in ready : \A k \in ready : j <= k
  BY <1>1 DEF NextAt
<1>4. NextAt(a, i) \in ready
  BY <1>2, <1>3
<1>5. QED
  BY <1>1, <1>4

\* An open call is at a link of the chain.
LEMMA OpenType ==
  ASSUME TypeOK, NEW t \in Tasks, call[t] # Idle
  PROVE  /\ call[t] \in CallRecord /\ call[t].ask \in Asks /\ call[t].tries \in 0..MaxRetries
         /\ Current(t) \in Links /\ Current(t) # None
<1>1. call[t] \in CallRecord
  BY DEF TypeOK
<1>2. QED
  BY <1>1, PlaceType DEF CallRecord, Current

\* What the caller of an answered call reads, on whichever link served it.
LEMMA AnswerReturns ==
  ASSUME TypeOK, NEW t \in Tasks, call[t] # Idle,
         NEW took \in SchemaReceipt \cup {None}, NEW s \in Stamps \cup {NoStamp},
         Answers(t, took, s), Return(t, TRUE, Current(t), took, s)
  PROVE  /\ link' \in [Links -> Left]
         /\ link'[Current(t)] = [receipt |-> took, stamp |-> s]
         /\ returned' = [task |-> t, ask |-> call[t].ask, ok |-> TRUE, receipt |-> lastDialect',
                         stamp |-> s, model |-> Current(t), served |-> Current(t),
                         took |-> took, said |-> s]
<1>1. /\ link' = [link EXCEPT ![Current(t)] = [receipt |-> took, stamp |-> s]]
      /\ lastSuccessful' = Current(t)
  BY DEF Answers, Remembered
<1>2. Current(t) \in Links /\ Current(t) # None
  BY OpenType
<1>3. [receipt |-> took, stamp |-> s] \in Left
  BY DEF Left
<1>4. link \in [Links -> Left]
  BY DEF TypeOK
<1>5. link' \in [Links -> Left] /\ link'[Current(t)] = [receipt |-> took, stamp |-> s]
  BY <1>1, <1>2, <1>3, <1>4
<1>6. link'[lastSuccessful'].stamp = s
  BY <1>1, <1>5
<1>7. QED
  BY <1>1, <1>2, <1>5, <1>6 DEF Return

\* An answer with a receipt that fits its call keeps the invariant.
LEMMA AnswerKeeps ==
  ASSUME Inv, NEW t \in Tasks, call[t] # Idle,
         NEW took \in SchemaReceipt \cup {None}, NEW s \in Stamps \cup {NoStamp},
         Answers(t, took, s), Return(t, TRUE, Current(t), took, s),
         lastDialect' \in SchemaReceipt \cup {None},
         call[t].ask.kind # "tools" =>
           lastDialect' = IF CarriesTo(call[t].ask, Current(t)) THEN took ELSE None
  PROVE  Inv'
<1>1. /\ link' \in [Links -> Left]
      /\ returned' = [task |-> t, ask |-> call[t].ask, ok |-> TRUE, receipt |-> lastDialect',
                      stamp |-> s, model |-> Current(t), served |-> Current(t),
                      took |-> took, said |-> s]
  BY AnswerReturns DEF Inv
<1>2. /\ call' = [call EXCEPT ![t] = Idle]
      /\ lastSuccessful' = Current(t) /\ Current(t) \in Links
      /\ UNCHANGED tripped
  BY OpenType DEF Answers, Remembered, Return, Inv
<1>3. TypeOK'
  BY <1>1, <1>2 DEF Inv, TypeOK
<1>4. ReceiptFromServer' /\ ServerNamed'
  BY <1>1 DEF ReceiptFromServer, ServerNamed, Succeeded
<1>5. QED
  BY <1>3, <1>4 DEF Inv

\* The receipt the chain takes over is the one the link left with this answer.
LEMMA CapturedAtOnce ==
  ASSUME TypeOK, NEW t \in Tasks, NEW took \in SchemaReceipt \cup {None},
         NEW s \in Stamps \cup {NoStamp}, StructuredServed(t, took, s)
  PROVE  lastDialect' = IF CarriesTo(call[t].ask, Current(t)) THEN took ELSE None
<1>1. call[t] # Idle /\ Answers(t, took, s) /\ Return(t, TRUE, Current(t), took, s)
  BY DEF StructuredServed, Asked
<1>2. link'[Current(t)] = [receipt |-> took, stamp |-> s]
  BY <1>1, AnswerReturns
<1>3. link'[Current(t)].receipt = took
  BY <1>2
<1>4. QED
  BY <1>3 DEF StructuredServed, StructuredReceipt

\* The three kinds of answer leave such a receipt.
LEMMA ServedKeeps ==
  ASSUME Inv, NEW t \in Tasks, Served(t)
  PROVE  Inv'
<1>1. PICK took \in SchemaReceipt \cup {None} :
        \E s \in Stamps \cup {NoStamp} :
          TextServed(t, took, s) \/ StructuredServed(t, took, s) \/ ToolsServed(t, took, s)
  BY DEF Served
<1>2. PICK s \in Stamps \cup {NoStamp} :
        TextServed(t, took, s) \/ StructuredServed(t, took, s) \/ ToolsServed(t, took, s)
  BY <1>1
<1>3. call[t] # Idle /\ Answers(t, took, s) /\ Return(t, TRUE, Current(t), took, s)
  BY <1>2 DEF TextServed, StructuredServed, ToolsServed, Asked
<1>4. CASE TextServed(t, took, s)
  <2>1. lastDialect' = None /\ ~CarriesTo(call[t].ask, Current(t))
    BY <1>4 DEF TextServed, PlainReceipt, Asked, CarriesTo
  <2>2. QED
    BY <1>3, <2>1, AnswerKeeps
<1>5. CASE StructuredServed(t, took, s)
  <2>1. lastDialect' = IF CarriesTo(call[t].ask, Current(t)) THEN took ELSE None
    BY <1>5, CapturedAtOnce DEF Inv
  <2>2. QED
    BY <1>3, <2>1, AnswerKeeps
<1>6. CASE ToolsServed(t, took, s)
  <2>1. lastDialect' = lastDialect /\ call[t].ask.kind = "tools"
    BY <1>6 DEF ToolsServed, Asked
  <2>2. lastDialect \in SchemaReceipt \cup {None}
    BY DEF Inv, TypeOK
  <2>3. QED
    BY <1>3, <2>1, <2>2, AnswerKeeps
<1>7. QED
  BY <1>2, <1>4, <1>5, <1>6

\* Every other step leaves nothing to be read but a failure.
LEMMA OthersKeep ==
  ASSUME Inv, returned' = NothingReturned \/ returned'.ok = FALSE, TypeOK'
  PROVE  Inv'
BY DEF Inv, ReceiptFromServer, ServerNamed, Succeeded, NothingReturned

LEMMA BeginKeeps ==
  ASSUME Inv, NEW t \in Tasks, Begin(t)
  PROVE  Inv'
<1>1. PICK a \in Asks :
        /\ NextAt(a, 0) # 0
        /\ call' = [call EXCEPT ![t] = [ask |-> a, at |-> NextAt(a, 0), tries |-> 0]]
  BY DEF Begin
<1>2. [ask |-> a, at |-> NextAt(a, 0), tries |-> 0] \in CallRecord
  BY <1>1, NextAtType, RetriesAssumption DEF CallRecord
<1>3. TypeOK'
  BY <1>1, <1>2 DEF Begin, Inv, TypeOK
<1>4. QED
  BY <1>3, OthersKeep DEF Begin

LEMMA BeginInVainKeeps ==
  ASSUME Inv, NEW t \in Tasks, BeginInVain(t)
  PROVE  Inv'
<1>1. TypeOK'
  BY DEF BeginInVain, Inv, TypeOK
<1>2. returned'.ok = FALSE
  BY DEF BeginInVain
<1>3. QED
  BY <1>1, <1>2, OthersKeep

LEMMA RetryKeeps ==
  ASSUME Inv, NEW t \in Tasks, Retry(t)
  PROVE  Inv'
<1>1. call[t] \in CallRecord /\ call[t].tries \in 0..MaxRetries /\ call[t].tries < MaxRetries
  BY OpenType DEF Retry, Inv
<1>2. [call[t] EXCEPT !.tries = @ + 1] \in CallRecord
  BY <1>1, RetriesAssumption DEF CallRecord
<1>3. call' = [call EXCEPT ![t] = [call[t] EXCEPT !.tries = @ + 1]]
  BY DEF Retry, Inv, TypeOK
<1>4. TypeOK'
  BY <1>2, <1>3 DEF Retry, Inv, TypeOK
<1>5. QED
  BY <1>4, OthersKeep DEF Retry

LEMMA MoveOnKeeps ==
  ASSUME Inv, NEW t \in Tasks, MoveOn(t)
  PROVE  Inv'
<1>1. call[t] \in CallRecord /\ Current(t) \in Links
  BY OpenType DEF MoveOn, Inv
<1>2. tripped' \subseteq Links
  BY <1>1 DEF MoveOn, Inv, TypeOK
<1>3. CASE Onward(t) = 0
  <2>1. call' = [call EXCEPT ![t] = Idle] /\ returned'.ok = FALSE
    BY <1>3 DEF MoveOn
  <2>2. TypeOK'
    BY <1>2, <2>1 DEF MoveOn, Inv, TypeOK
  <2>3. QED
    BY <2>1, <2>2, OthersKeep
<1>4. CASE Onward(t) # 0
  <2>1. call' = [call EXCEPT ![t].at = Onward(t), ![t].tries = 0] /\ returned' = NothingReturned
    BY <1>4 DEF MoveOn
  <2>2. Onward(t) \in DOMAIN Chain /\ 0 \in 0..MaxRetries
    BY <1>4, NextAtType, RetriesAssumption DEF Onward
  <2>3. [call[t] EXCEPT !.at = Onward(t), !.tries = 0] \in CallRecord
    BY <1>1, <2>2 DEF CallRecord
  <2>4. call' = [call EXCEPT ![t] = [call[t] EXCEPT !.at = Onward(t), !.tries = 0]]
    BY <2>1 DEF Inv, TypeOK
  <2>5. TypeOK'
    BY <1>2, <2>3, <2>4 DEF MoveOn, Inv, TypeOK
  <2>6. QED
    BY <2>1, <2>5, OthersKeep
<1>5. QED
  BY <1>3, <1>4

LEMMA CancelledKeeps ==
  ASSUME Inv, NEW t \in Tasks, Cancelled(t)
  PROVE  Inv'
<1>1. TypeOK' /\ returned'.ok = FALSE
  BY DEF Cancelled, Inv, TypeOK
<1>2. QED
  BY <1>1, OthersKeep

\* The inductive invariant: the types, and the truth of what was read last.
THEOREM Invariance == Spec => []Inv
<1>1. Init => Inv
  <2> SUFFICES ASSUME Init PROVE Inv
    OBVIOUS
  <2>1. TypeOK
    BY DEF Init, TypeOK, Left
  <2>2. QED
    BY <2>1 DEF Init, Inv, ReceiptFromServer, ServerNamed, Succeeded, NothingReturned
<1>2. Inv /\ [Next]_vars => Inv'
  <2> SUFFICES ASSUME Inv, [Next]_vars PROVE Inv'
    OBVIOUS
  <2>1. CASE UNCHANGED vars
    BY <2>1 DEF vars, Inv, TypeOK, ReceiptFromServer, ServerNamed, Succeeded, CarriesTo
  <2>2. CASE Recover
    <3>1. TypeOK'
      BY <2>2 DEF Recover, Inv, TypeOK
    <3>2. QED
      BY <2>2, <3>1, OthersKeep DEF Recover
  <2>3. CASE OutsideCall
    <3>1. TypeOK'
      BY <2>3 DEF OutsideCall, Inv, TypeOK
    <3>2. QED
      BY <2>3, <3>1, OthersKeep DEF OutsideCall
  <2>4. QED
    BY <2>1, <2>2, <2>3, BeginKeeps, BeginInVainKeeps, ServedKeeps, RetryKeeps, MoveOnKeeps,
       CancelledKeeps DEF Next
<1>3. QED
  BY <1>1, <1>2, PTL DEF Spec

\* Every variable keeps its type: no call is ever past the chain or its retries.
THEOREM TypeCorrect == Spec => []TypeOK
<1>1. Inv => TypeOK
  BY DEF Inv
<1>2. QED
  BY <1>1, Invariance, PTL

\* In any chain the receipt read after a text call is the serving link's, though
\* links failed before it and others use chain and links.
THEOREM ReceiptsTrue == Spec => []ReceiptFromServer
<1>1. Inv => ReceiptFromServer
  BY DEF Inv
<1>2. QED
  BY <1>1, Invariance, PTL

\* In any chain the model and the stamps read after a call are those of the link and
\* the response that served it.
THEOREM ServersNamed == Spec => []ServerNamed
<1>1. Inv => ServerNamed
  BY DEF Inv
<1>2. QED
  BY <1>1, Invariance, PTL
----------------------------------------------------------------------------
(* The chain implements the per-call channel *)

\* Nobody is the name of no coroutine.
LEMMA TaskNames == \A t \in Tasks : t # None
BY ChainAssumption

\* A call that ends closes its entry in the channel.
LEMMA EndIsClose ==
  ASSUME TypeOK, NEW t \in Tasks, call[t] # Idle, call' = [call EXCEPT ![t] = Idle]
  PROVE  Channel!Close(t) /\ Pending[t] = <<call[t].ask>> /\ call[t].ask \in Asks
<1>1. Pending[t] = <<call[t].ask>> /\ call[t].ask \in Asks
  BY OpenType DEF Pending
<1>2. Pending' = [Pending EXCEPT ![t] = <<>>]
  BY DEF Pending, TypeOK
<1>3. QED
  BY <1>1, <1>2 DEF Channel!Close, Channel!Waiting

\* An answer whose receipt is true of the call is the channel's Answer.
LEMMA AnswerIsAnswer ==
  ASSUME TypeOK, NEW t \in Tasks, call[t] # Idle,
         NEW took \in SchemaReceipt \cup {None}, NEW s \in Stamps \cup {NoStamp},
         Answers(t, took, s), Return(t, TRUE, Current(t), took, s),
         call[t].ask.kind # "tools" => lastDialect' \in TrueReceipts(call[t].ask)
  PROVE  Channel!Answer(t)
<1> DEFINE receipt == IF call[t].ask.kind = "tools" THEN None ELSE lastDialect'
<1>1. returned' = [task |-> t, ask |-> call[t].ask, ok |-> TRUE, receipt |-> lastDialect',
                   stamp |-> s, model |-> Current(t), served |-> Current(t),
                   took |-> took, said |-> s]
  BY AnswerReturns
<1>2. SeenByCaller' = [task |-> t, ok |-> TRUE, receipt |-> receipt, stamp |-> s, said |-> s]
  BY <1>1, TaskNames DEF SeenByCaller
<1>3. call' = [call EXCEPT ![t] = Idle]
  BY DEF Return
<1>4. Channel!Close(t) /\ Pending[t] = <<call[t].ask>> /\ call[t].ask \in Asks
  BY <1>3, EndIsClose
<1>5. call[t].ask.kind = "tools" => TrueReceipts(call[t].ask) = {None}
  BY DEF TrueReceipts
<1>6. receipt \in [a \in Asks |-> TrueReceipts(a)][Pending[t][1]]
  BY <1>4, <1>5
<1>7. QED
  BY <1>2, <1>4, <1>6 DEF Channel!Answer

\* The three kinds of answer leave such a receipt: a link that takes the schema is
\* one of those the chain's announcement stands for.
LEMMA ServedIsAnswer ==
  ASSUME TypeOK, NEW t \in Tasks, Served(t)
  PROVE  Channel!Answer(t)
<1>1. PICK took \in SchemaReceipt \cup {None} :
        \E s \in Stamps \cup {NoStamp} :
          TextServed(t, took, s) \/ StructuredServed(t, took, s) \/ ToolsServed(t, took, s)
  BY DEF Served
<1>2. PICK s \in Stamps \cup {NoStamp} :
        TextServed(t, took, s) \/ StructuredServed(t, took, s) \/ ToolsServed(t, took, s)
  BY <1>1
<1>3. call[t] # Idle /\ Answers(t, took, s) /\ Return(t, TRUE, Current(t), took, s)
  BY <1>2 DEF TextServed, StructuredServed, ToolsServed, Asked
<1>4. Current(t) \in Links /\ took \in LinkReceipts(call[t].ask, Current(t))
  BY <1>3, OpenType DEF Answers
<1>5. CASE TextServed(t, took, s)
  <2>1. lastDialect' \in TrueReceipts(call[t].ask)
    BY <1>5 DEF TextServed, PlainReceipt, Asked, TrueReceipts
  <2>2. QED
    BY <1>3, <2>1, AnswerIsAnswer
<1>6. CASE StructuredServed(t, took, s)
  <2>1. call[t].ask.kind = "structured"
    BY <1>6 DEF StructuredServed, Asked
  <2>2. lastDialect' = IF CarriesTo(call[t].ask, Current(t)) THEN took ELSE None
    BY <1>6, CapturedAtOnce
  <2>3. CASE CarriesTo(call[t].ask, Current(t))
    <3>1. SchemaDialect(call[t].ask.form) = ChainDialect
      BY <1>4, <2>3 DEF CarriesTo, SchemaDialect
    <3>2. lastDialect' \in TrueReceipts(call[t].ask)
      BY <1>4, <2>1, <2>2, <2>3, <3>1 DEF TrueReceipts
    <3>3. QED
      BY <1>3, <3>2, AnswerIsAnswer
  <2>4. CASE ~CarriesTo(call[t].ask, Current(t))
    <3>1. lastDialect' = None /\ None \in LinkReceipts(call[t].ask, Current(t))
      BY <2>1, <2>2, <2>4 DEF LinkReceipts
    <3>2. lastDialect' \in TrueReceipts(call[t].ask)
      BY <1>4, <3>1 DEF TrueReceipts
    <3>3. QED
      BY <1>3, <3>2, AnswerIsAnswer
  <2>5. QED
    BY <2>3, <2>4
<1>7. CASE ToolsServed(t, took, s)
  <2>1. call[t].ask.kind = "tools"
    BY <1>7 DEF ToolsServed, Asked
  <2>2. QED
    BY <1>3, <2>1, AnswerIsAnswer
<1>8. QED
  BY <1>2, <1>5, <1>6, <1>7

\* A step that neither opens nor ends a call lets the last reader go.
LEMMA QuietIsForget ==
  ASSUME Pending' = Pending, returned' = NothingReturned
  PROVE  Channel!Forget
<1>1. SeenByCaller' = [task |-> None]
  BY DEF SeenByCaller, NothingReturned
<1>2. QED
  BY <1>1 DEF Channel!Forget, Channel!NothingReturned, Channel!None, None

LEMMA BeginIsCall ==
  ASSUME TypeOK, NEW t \in Tasks, Begin(t)
  PROVE  Channel!Call(t)
<1>1. PICK a \in Asks :
        /\ NextAt(a, 0) # 0
        /\ call' = [call EXCEPT ![t] = [ask |-> a, at |-> NextAt(a, 0), tries |-> 0]]
  BY DEF Begin
<1>2. [ask |-> a, at |-> NextAt(a, 0), tries |-> 0] # Idle
  BY <1>1 DEF Idle
<1>3. Pending[t] = <<>> /\ Pending' = [Pending EXCEPT ![t] = <<a>>]
  BY <1>1, <1>2 DEF Begin, Pending, TypeOK
<1>4. SeenByCaller' = [task |-> None]
  BY DEF Begin, SeenByCaller, NothingReturned
<1>5. QED
  BY <1>3, <1>4 DEF Channel!Call, Channel!Waiting, Channel!NothingReturned, Channel!None, None

LEMMA BeginInVainIsReject ==
  ASSUME NEW t \in Tasks, BeginInVain(t)
  PROVE  Channel!Reject(t)
<1>1. Pending[t] = <<>> /\ Pending' = Pending
  BY DEF BeginInVain, Pending
<1>2. SeenByCaller' = [task |-> t, ok |-> FALSE]
  BY TaskNames DEF BeginInVain, SeenByCaller
<1>3. QED
  BY <1>1, <1>2 DEF Channel!Reject

LEMMA RetryIsForget ==
  ASSUME TypeOK, NEW t \in Tasks, Retry(t)
  PROVE  Channel!Forget
<1>1. call[t] \in CallRecord /\ call[t] # Idle
  BY OpenType DEF Retry
<1>2. call' = [call EXCEPT ![t] = [call[t] EXCEPT !.tries = @ + 1]]
  BY DEF Retry, TypeOK
<1>3. call'[t] # Idle /\ call'[t].ask = call[t].ask
  BY <1>1, <1>2 DEF TypeOK, CallRecord, Idle
<1>4. Pending' = Pending
  BY <1>1, <1>2, <1>3 DEF Pending, TypeOK
<1>5. QED
  BY <1>4, QuietIsForget DEF Retry

\* The loop that goes on to the next link is one call to its caller still.
LEMMA MoveOnIsStep ==
  ASSUME TypeOK, NEW t \in Tasks, MoveOn(t)
  PROVE  Channel!Raise(t) \/ Channel!Forget
<1>1. call[t] \in CallRecord /\ call[t] # Idle
  BY OpenType DEF MoveOn
<1>2. CASE Onward(t) = 0
  <2>1. /\ call' = [call EXCEPT ![t] = Idle]
        /\ returned' = [task |-> t, ask |-> call[t].ask, ok |-> FALSE]
    BY <1>2 DEF MoveOn
  <2>2. SeenByCaller' = [task |-> t, ok |-> FALSE]
    BY <2>1, TaskNames DEF SeenByCaller
  <2>3. QED
    BY <1>1, <2>1, <2>2, EndIsClose DEF Channel!Raise
<1>3. CASE Onward(t) # 0
  <2>1. /\ call' = [call EXCEPT ![t] = [call[t] EXCEPT !.at = Onward(t), !.tries = 0]]
        /\ returned' = NothingReturned
    BY <1>3 DEF MoveOn, TypeOK
  <2>2. call'[t] # Idle /\ call'[t].ask = call[t].ask
    BY <1>1, <1>3, <2>1 DEF TypeOK, CallRecord, Idle
  <2>3. Pending' = Pending
    BY <1>1, <2>1, <2>2 DEF Pending, TypeOK
  <2>4. QED
    BY <2>1, <2>3, QuietIsForget
<1>4. QED
  BY <1>2, <1>3

\* To the channel a cancelled call is one that raised.
LEMMA CancelledIsRaise ==
  ASSUME TypeOK, NEW t \in Tasks, Cancelled(t)
  PROVE  Channel!Raise(t)
<1>1. SeenByCaller' = [task |-> t, ok |-> FALSE]
  BY TaskNames DEF Cancelled, SeenByCaller
<1>2. QED
  BY <1>1, EndIsClose DEF Cancelled, Channel!Raise

\* Over any links that keep the promise of the channel, a chain of any length keeps
\* it: failover is not visible to who reads the last_* attributes at once.
THEOREM Refinement == Spec => ImplementsChannel
<1>1. Init => Channel!Init
  <2> SUFFICES ASSUME Init PROVE Channel!Init
    OBVIOUS
  <2>1. Pending = [t \in Tasks |-> <<>>] /\ SeenByCaller = [task |-> None]
    BY DEF Init, Pending, SeenByCaller, NothingReturned
  <2>2. QED
    BY <2>1 DEF Channel!Init, Channel!NothingReturned, Channel!None, None
<1>2. TypeOK /\ [Next]_vars => [Channel!Next]_(Channel!chanVars)
  <2> SUFFICES ASSUME TypeOK, [Next]_vars PROVE [Channel!Next]_(Channel!chanVars)
    OBVIOUS
  <2>1. CASE UNCHANGED vars
    BY <2>1 DEF vars, Pending, SeenByCaller, Channel!chanVars
  <2>2. CASE Recover \/ OutsideCall
    <3>1. Pending' = Pending /\ returned' = NothingReturned
      BY <2>2 DEF Recover, OutsideCall, Pending
    <3>2. QED
      BY <3>1, QuietIsForget DEF Channel!Next
  <2>3. ASSUME NEW t \in Tasks,
               \/ Begin(t) \/ BeginInVain(t) \/ Served(t)
               \/ Retry(t) \/ MoveOn(t) \/ Cancelled(t)
        PROVE  Channel!Next
    BY <2>3, BeginIsCall, BeginInVainIsReject, ServedIsAnswer, RetryIsForget, MoveOnIsStep,
       CancelledIsRaise DEF Channel!Next
  <2>4. QED
    BY <2>1, <2>2, <2>3 DEF Next
<1>3. QED
  BY <1>1, <1>2, TypeCorrect, PTL DEF Spec, Channel!Spec, ImplementsChannel
=============================================================================

---------------------------- MODULE OllamaProofs ----------------------------
(***************************************************************************)
(* Proofs about the two objects of ollama.py, OllamaBackend and            *)
(* OllamaEmbedder: for any set of coroutines, calls, schemas and           *)
(* configured format, and for any number of embeddings at once and of      *)
(* failed requests.                                                        *)
(***************************************************************************)
EXTENDS OllamaBackend, OllamaEmbedder, TLAPS, FiniteSetTheorems

----------------------------------------------------------------------------
(* OllamaBackend *)

\* Every call is a record, and the instance keeps its configured format.
CallsTyped ==
  /\ call \in [Tasks -> {Idle} \cup OpenCall]
  /\ format = Format

\* The strengthening: a call that has, or had, its schema asked for one that the
\* form's dialect can say, and one that never had it has no dialect or was held.
PhaseFits ==
  \A t \in Tasks : call[t] # Idle =>
    /\ call[t].phase \in {"schema", "repeat", "held"} =>
         call[t].ask.kind = "structured" /\ SchemaDialect(call[t].ask.form) # None
    /\ call[t].phase = "schema" => SentAs[call[t].ask.schema] \in Digests
    /\ call[t].phase = "text" =>
         call[t].ask.kind = "text" \/ SchemaDialect(call[t].ask.form) = None

Inv == CallsTyped /\ PhaseFits /\ OwnFormat /\ ReceiptSaysCarried

\* A phase is the phase of an open call.
LEMMA PhaseIsOpen ==
  ASSUME CallsTyped, NEW t \in Tasks, call[t].phase \in Phase
  PROVE  call[t] # Idle /\ call[t] \in OpenCall /\ call[t].ask \in Asks
<1>1. call[t] # Idle
  BY DEF Idle, Phase
<1>2. QED
  BY <1>1 DEF CallsTyped, OpenCall

\* An open call is of an ask.
LEMMA OpenIsOpen ==
  ASSUME CallsTyped, NEW t \in Tasks, call[t] # Idle
  PROVE  call[t] \in OpenCall /\ call[t].ask \in Asks /\ call[t].phase \in Phase
BY DEF CallsTyped, OpenCall

\* A form's dialect is Ollama's, or the form has none.
LEMMA DialectType ==
  ASSUME NEW form
  PROVE  SchemaDialect(form) = None \/ SchemaDialect(form) \in SchemaDialectName
BY DEF SchemaDialect, DialectFor, SchemaDialectName, None

\* None and "refused" are no dialects.
LEMMA NoDialects == None \notin SchemaDialectName /\ SchemaRefused \notin SchemaDialectName
BY DEF None, SchemaRefused, SchemaDialectName

\* A request that fits its phase keeps the invariant.
LEMMA PostKeeps ==
  ASSUME Inv, NEW t \in Tasks, NEW phase \in Phase, NEW a \in Asks,
         NEW fmt \in Digests \cup {Format}, Post(t, phase, a, fmt), UNCHANGED format,
         fmt = (IF phase = "schema" THEN SentAs[a.schema] ELSE Format),
         phase \in {"schema", "repeat", "held"} =>
           a.kind = "structured" /\ SchemaDialect(a.form) # None,
         phase = "schema" => SentAs[a.schema] \in Digests,
         phase = "text" => a.kind = "text" \/ SchemaDialect(a.form) = None
  PROVE  Inv'
<1> DEFINE new == [phase |-> phase, ask |-> a, sent |-> fmt]
<1>1. new \in OpenCall
  BY DEF OpenCall
<1>2. call' = [call EXCEPT ![t] = new]
  BY DEF Post
<1>3. /\ call'[t] = new
      /\ \A u \in Tasks : u # t => call'[u] = call[u]
  BY <1>2 DEF Inv, CallsTyped
<1>4. CallsTyped'
  BY <1>1, <1>2 DEF Inv, CallsTyped
<1>5. new.phase = phase /\ new.ask = a /\ new.sent = fmt
  OBVIOUS
<1> HIDE DEF new
<1>6. PhaseFits'
  BY <1>3, <1>5 DEF Inv, PhaseFits
<1>7. OwnFormat'
  BY <1>3, <1>5 DEF Inv, OwnFormat
<1>8. ReceiptSaysCarried'
  BY DEF Post, NothingReturned, ReceiptSaysCarried
<1>9. QED
  BY <1>4, <1>6, <1>7, <1>8 DEF Inv

\* A return keeps the invariant if the receipt it leaves says what was carried.
LEMMA ReturnKeeps ==
  ASSUME Inv, NEW t \in Tasks, NEW ok, Return(t, ok), UNCHANGED format,
         ok => ((lastDialect' \in SchemaDialectName) <=> (call[t].sent \in Digests))
  PROVE  Inv'
<1>1. call' = [call EXCEPT ![t] = Idle]
  BY DEF Return
<1>2. /\ call'[t] = Idle
      /\ \A u \in Tasks : u # t => call'[u] = call[u]
  BY <1>1 DEF Inv, CallsTyped
<1>3. CallsTyped'
  BY <1>1 DEF Inv, CallsTyped
<1>4. PhaseFits' /\ OwnFormat'
  BY <1>2 DEF Inv, PhaseFits, OwnFormat
<1>5. returned'.ok = ok /\ returned'.receipt = lastDialect' /\ returned'.carried = call[t].sent
  BY DEF Return
<1>6. ReceiptSaysCarried'
  BY <1>5 DEF ReceiptSaysCarried
<1>7. QED
  BY <1>3, <1>4, <1>6 DEF Inv

\* A call that begins keeps the invariant.
LEMMA BeginKeeps ==
  ASSUME Inv, NEW t \in Tasks, Begin(t)
  PROVE  Inv'
<1> "text" \in Phase /\ "held" \in Phase /\ "schema" \in Phase
  BY DEF Phase
<1>0. format = Format
  BY DEF Inv, CallsTyped
<1>1. CASE Generate(t)
  <2>1. PICK a \in Asks : a.kind = "text" /\ Post(t, "text", a, Format) /\ UNCHANGED format
    BY <1>0, <1>1 DEF Generate, Asking
  <2>2. QED
    BY <2>1, PostKeeps
<1>2. CASE StructuredPlain(t)
  <2>1. PICK a \in Asks : /\ SchemaDialect(a.form) = None
                          /\ Post(t, "text", a, Format) /\ UNCHANGED format
    BY <1>0, <1>2 DEF StructuredPlain, Asking
  <2>2. QED
    BY <2>1, PostKeeps
<1>3. CASE StructuredHeld(t)
  <2>1. PICK a \in Asks : /\ a.kind = "structured" /\ SchemaDialect(a.form) # None
                          /\ Post(t, "held", a, Format) /\ UNCHANGED format
    BY <1>0, <1>3 DEF StructuredHeld, Asking
  <2>2. QED
    BY <2>1, PostKeeps
<1>4. CASE StructuredSent(t)
  <2>1. PICK a \in Asks : /\ a.kind = "structured" /\ SchemaDialect(a.form) # None
                          /\ SentAs[a.schema] # Unsayable
                          /\ Post(t, "schema", a, SentAs[a.schema]) /\ UNCHANGED format
    BY <1>4 DEF StructuredSent, Asking
  <2>2. SentAs[a.schema] \in Digests
    BY <2>1, AsksAssumption, SentAsAssumption DEF Ask
  <2>3. QED
    BY <2>1, <2>2, PostKeeps
<1>5. QED
  BY <1>1, <1>2, <1>3, <1>4 DEF Begin

\* What the server does to a call keeps the invariant.
LEMMA SettleKeeps ==
  ASSUME Inv, NEW t \in Tasks, Settle(t)
  PROVE  Inv'
<1> USE NoDialects, FormatAssumption
<1>1. call[t].phase \in Phase =>
        /\ call[t] # Idle /\ call[t].ask \in Asks
        /\ call[t].sent = IF call[t].phase = "schema" THEN SentAs[call[t].ask.schema] ELSE Format
  BY PhaseIsOpen DEF Inv, OwnFormat
<1>2. CASE PlainAnswered(t)
  <2>1. call[t].sent = Format
    BY <1>1, <1>2 DEF PlainAnswered, Phase
  <2>2. QED
    BY <1>2, <2>1, ReturnKeeps DEF PlainAnswered
<1>3. CASE SchemaAnswered(t)
  <2>1. /\ call[t].sent \in Digests
        /\ SchemaDialect(call[t].ask.form) # None
    BY <1>1, <1>3 DEF SchemaAnswered, Phase, Inv, PhaseFits
  <2>2. lastDialect' \in SchemaDialectName
    BY <1>3, <2>1, DialectType DEF SchemaAnswered
  <2>3. QED
    BY <1>3, <2>1, <2>2, ReturnKeeps DEF SchemaAnswered
<1>4. CASE HeldAnswered(t)
  <2>1. call[t].sent = Format
    BY <1>1, <1>4 DEF HeldAnswered, Phase
  <2>2. QED
    BY <1>4, <2>1, ReturnKeeps DEF HeldAnswered
<1>5. CASE SchemaRejected(t)
  <2>1. /\ call[t].phase = "schema" /\ Post(t, "repeat", call[t].ask, Format) /\ UNCHANGED format
    BY <1>5 DEF SchemaRejected, Inv, CallsTyped
  <2>2. /\ call[t].ask \in Asks /\ call[t].ask.kind = "structured"
        /\ SchemaDialect(call[t].ask.form) # None
    BY <1>1, <2>1 DEF Inv, PhaseFits, Phase
  <2>3. "repeat" \in Phase
    BY DEF Phase
  <2>4. QED
    BY <2>1, <2>2, <2>3, PostKeeps
<1>6. CASE Raises(t)
  BY <1>6, ReturnKeeps DEF Raises
<1>7. QED
  BY <1>2, <1>3, <1>4, <1>5, <1>6 DEF Settle

\* The inductive invariant: every request in flight fits the phase of its call,
\* every phase fits its ask, and the last receipt was true.
THEOREM Invariance == Spec => []Inv
<1>1. Init => Inv
  BY DEF Init, Inv, CallsTyped, PhaseFits, OwnFormat, ReceiptSaysCarried, NothingReturned
<1>2. Inv /\ [Next]_vars => Inv'
  <2> SUFFICES ASSUME Inv, [Next]_vars PROVE Inv'
    OBVIOUS
  <2>1. CASE UNCHANGED vars
    BY <2>1 DEF vars, Inv, CallsTyped, PhaseFits, OwnFormat, ReceiptSaysCarried
  <2>2. CASE Tick
    BY <2>2 DEF Tick, Inv, CallsTyped, PhaseFits, OwnFormat, ReceiptSaysCarried, NothingReturned
  <2>3. QED
    BY <2>1, <2>2, BeginKeeps, SettleKeeps DEF Next
<1>3. QED
  BY <1>1, <1>2, PTL DEF Spec

\* No schema reaches another call through the instance: every request carries its
\* own call's schema or the configured format.
THEOREM FormatsOwn == Spec => []OwnFormat
<1>1. Inv => OwnFormat
  BY DEF Inv
<1>2. QED
  BY <1>1, Invariance, PTL

\* However the calls interleave, the receipt a caller reads is a dialect exactly if
\* the request that was answered to it carried its schema.
THEOREM ReceiptsTrue == Spec => []ReceiptSaysCarried
<1>1. Inv => ReceiptSaysCarried
  BY DEF Inv
<1>2. QED
  BY <1>1, Invariance, PTL
----------------------------------------------------------------------------
(* The instance implements the per-call channel *)

\* A call that begins is the channel's Call.
LEMMA BeginIsCall ==
  ASSUME Inv, NEW t \in Tasks, Begin(t)
  PROVE  Channel!Call(t)
<1>1. PICK a \in Asks, phase \in Phase, fmt \in {format} \cup {SentAs[b.schema] : b \in Asks} :
        call[t] = Idle /\ Post(t, phase, a, fmt)
  BY DEF Begin, Generate, StructuredPlain, StructuredHeld, StructuredSent, Asking, Phase
<1>2. [phase |-> phase, ask |-> a, sent |-> fmt] # Idle
  BY DEF Idle
<1>3. call \in [Tasks -> {Idle} \cup OpenCall]
  BY DEF Inv, CallsTyped
<1>4. Pending' = [Pending EXCEPT ![t] = <<a>>]
  BY <1>1, <1>2, <1>3 DEF Pending, Post
<1>5. Pending[t] = <<>>
  BY <1>1 DEF Pending
<1>6. SeenByCaller' = [task |-> None]
  BY <1>1 DEF Post, SeenByCaller, NothingReturned
<1>7. QED
  BY <1>4, <1>5, <1>6 DEF Channel!Call, Channel!Waiting, Channel!NothingReturned, Channel!None, None

\* A return closes the call in the channel.
LEMMA ReturnIsClose ==
  ASSUME Inv, NEW t \in Tasks, call[t] # Idle, NEW ok, Return(t, ok)
  PROVE  Channel!Close(t) /\ Pending[t] = <<call[t].ask>> /\ call[t].ask \in Asks
<1>1. call \in [Tasks -> {Idle} \cup OpenCall] /\ call' = [call EXCEPT ![t] = Idle]
  BY DEF Inv, CallsTyped, Return
<1>2. Pending[t] = <<call[t].ask>> /\ call[t].ask \in Asks
  BY OpenIsOpen DEF Pending, Inv
<1>3. Pending' = [Pending EXCEPT ![t] = <<>>]
  BY <1>1 DEF Pending
<1>4. QED
  BY <1>2, <1>3 DEF Channel!Close, Channel!Waiting

\* An answered call whose receipt may be read is the channel's Answer.
LEMMA AnswerIsAnswer ==
  ASSUME Inv, NEW t \in Tasks, call[t] # Idle, Return(t, TRUE),
         lastDialect' \in TrueReceipts(call[t].ask)
  PROVE  Channel!Answer(t)
<1>1. SeenByCaller' = [task |-> t, ok |-> TRUE, receipt |-> lastDialect',
                       stamp |-> NoStamp, said |-> NoStamp]
  BY TasksAssumption DEF Return, SeenByCaller
<1>2. Channel!Close(t) /\ Pending[t] = <<call[t].ask>> /\ call[t].ask \in Asks
  BY ReturnIsClose
<1>3. lastDialect' \in [a \in Asks |-> TrueReceipts(a)][Pending[t][1]]
  BY <1>2
<1>4. QED
  BY <1>1, <1>2, <1>3 DEF Channel!Answer

\* A call that raises is the channel's Raise.
LEMMA RaiseIsRaise ==
  ASSUME Inv, NEW t \in Tasks, call[t] # Idle, Return(t, FALSE)
  PROVE  Channel!Raise(t)
<1>1. SeenByCaller' = [task |-> t, ok |-> FALSE]
  BY TasksAssumption DEF Return, SeenByCaller
<1>2. QED
  BY <1>1, ReturnIsClose DEF Channel!Raise

\* What the server does to a call is a step of the channel.
LEMMA SettleIsStep ==
  ASSUME Inv, NEW t \in Tasks, Settle(t)
  PROVE  Channel!Next
<1>1. call[t].phase \in Phase => call[t] # Idle /\ call[t].ask \in Asks
  BY PhaseIsOpen DEF Inv
<1>2. CASE PlainAnswered(t)
  <2>1. call[t] # Idle /\ Return(t, TRUE) /\ lastDialect' \in TrueReceipts(call[t].ask)
    BY <1>1, <1>2 DEF PlainAnswered, Phase, Inv, PhaseFits, TrueReceipts
  <2>2. QED
    BY <2>1, AnswerIsAnswer DEF Channel!Next
<1>3. CASE SchemaAnswered(t)
  <2>1. call[t] # Idle /\ Return(t, TRUE) /\ lastDialect' \in TrueReceipts(call[t].ask)
    BY <1>1, <1>3 DEF SchemaAnswered, Phase, Inv, PhaseFits, TrueReceipts
  <2>2. QED
    BY <2>1, AnswerIsAnswer DEF Channel!Next
<1>4. CASE HeldAnswered(t)
  <2>1. call[t] # Idle /\ Return(t, TRUE) /\ lastDialect' \in TrueReceipts(call[t].ask)
    BY <1>1, <1>4 DEF HeldAnswered, Phase, Inv, PhaseFits, TrueReceipts
  <2>2. QED
    BY <2>1, AnswerIsAnswer DEF Channel!Next
<1>5. CASE SchemaRejected(t)
  <2>1. call[t] # Idle /\ call[t].ask \in Asks /\ Post(t, "repeat", call[t].ask, format)
    BY <1>1, <1>5 DEF SchemaRejected, Phase
  <2>2. [phase |-> "repeat", ask |-> call[t].ask, sent |-> format] # Idle
    BY DEF Idle
  <2>3. Pending' = Pending
    BY <2>1, <2>2 DEF Pending, Post, Inv, CallsTyped
  <2>4. SeenByCaller' = [task |-> None]
    BY <2>1 DEF Post, SeenByCaller, NothingReturned
  <2>5. QED
    BY <2>3, <2>4 DEF Channel!Next, Channel!Forget, Channel!NothingReturned, Channel!None, None
<1>6. CASE Raises(t)
  BY <1>6, RaiseIsRaise DEF Raises, Channel!Next
<1>7. QED
  BY <1>2, <1>3, <1>4, <1>5, <1>6 DEF Settle

\* Though nothing is reset when a call begins, the instance gives every caller its
\* own receipt, as a per-call channel would.
THEOREM Refinement == Spec => ImplementsChannel
<1>1. Init => Channel!Init
  <2> SUFFICES ASSUME Init PROVE Channel!Init
    OBVIOUS
  <2>1. Pending = [t \in Tasks |-> <<>>] /\ SeenByCaller = [task |-> None]
    BY DEF Init, Pending, SeenByCaller, NothingReturned
  <2>2. QED
    BY <2>1 DEF Channel!Init, Channel!NothingReturned, Channel!None, None
<1>2. Inv /\ [Next]_vars => [Channel!Next]_(Channel!chanVars)
  <2> SUFFICES ASSUME Inv, [Next]_vars PROVE [Channel!Next]_(Channel!chanVars)
    OBVIOUS
  <2>1. CASE UNCHANGED vars
    BY <2>1 DEF vars, Pending, SeenByCaller, Channel!chanVars
  <2>2. CASE Tick
    <3>1. Pending' = Pending /\ SeenByCaller' = [task |-> None]
      BY <2>2 DEF Tick, Pending, SeenByCaller, NothingReturned
    <3>2. QED
      BY <3>1 DEF Channel!Next, Channel!Forget, Channel!NothingReturned, Channel!None, None
  <2>3. ASSUME NEW t \in Tasks, Begin(t)
        PROVE  Channel!Next
    BY <2>3, BeginIsCall DEF Channel!Next
  <2>4. QED
    BY <2>1, <2>2, <2>3, SettleIsStep DEF Next
<1>3. QED
  BY <1>1, <1>2, Invariance, PTL DEF Spec, Channel!Spec, ImplementsChannel

----------------------------------------------------------------------------
(* OllamaEmbedder *)

OpenEmbedding == [at : Endpoint, knew : BOOLEAN]

EmbeddingsTyped ==
  /\ legacyOnly \in BOOLEAN
  /\ embedding \in [Workers -> {NotEmbedding} \cup OpenEmbedding]
  /\ missing \in Nat

\* The embeddings that wait for the new endpoint, and may find it missing.
Trying == {w \in Workers : embedding[w].at = "embed"}

\* The strengthening: what was missed and what may still be missed is bounded
\* together, for once something was missed nobody joins those who try.
MissesAhead ==
  /\ missing + Cardinality(Trying) <= Cardinality(Workers)
  /\ missing > 0 => legacyOnly

\* The flag is up only after a miss, and so is whoever asks the legacy endpoint.
FlagEarned ==
  missing = 0 =>
    /\ ~legacyOnly
    /\ \A w \in Workers : embedding[w].at # "embeddings"

EmbedderInv == EmbeddingsTyped /\ MissesAhead /\ FlagEarned /\ MissesBounded /\ ModernIsMetered

\* The sets counted are finite.
LEMMA Counted ==
  /\ Cardinality(Workers) \in Nat
  /\ IsFiniteSet(Trying)
  /\ Cardinality(Trying) \in Nat /\ Cardinality(Trying) <= Cardinality(Workers)
<1>1. Trying \in SUBSET Workers
  BY DEF Trying
<1>2. QED
  BY <1>1, WorkersAssumption, FS_CardinalityType, FS_Subset

\* Who waits for an endpoint is typed.
LEMMA EmbeddingType ==
  ASSUME EmbeddingsTyped, NEW w \in Workers, embedding[w] # NotEmbedding
  PROVE  embedding[w] \in OpenEmbedding
BY DEF EmbeddingsTyped

\* The number of those who try, when one of them changes what it waits for.
LEMMA TryingAfter ==
  ASSUME EmbeddingsTyped, NEW w \in Workers, NEW new, embedding' = [embedding EXCEPT ![w] = new]
  PROVE  /\ Cardinality(Trying') \in Nat
         /\ new.at # "embed" => Cardinality(Trying') <= Cardinality(Trying)
         /\ new.at # "embed" /\ w \in Trying => Cardinality(Trying') = Cardinality(Trying) - 1
<1>1. embedding'[w] = new /\ \A v \in Workers : v # w => embedding'[v] = embedding[v]
  BY DEF EmbeddingsTyped
<1>2. new.at # "embed" => Trying' = Trying \ {w}
  BY <1>1 DEF Trying
<1>3. Trying' \in SUBSET Workers
  BY DEF Trying
<1>4. Cardinality(Trying') \in Nat
  BY <1>3, WorkersAssumption, FS_Subset, FS_CardinalityType
<1>5. Cardinality(Trying \ {w}) = IF w \in Trying THEN Cardinality(Trying) - 1 ELSE Cardinality(Trying)
  BY Counted, FS_RemoveElement
<1>6. Cardinality(Trying) \in Nat
  BY Counted
<1>7. new.at # "embed" => Cardinality(Trying') = IF w \in Trying THEN Cardinality(Trying) - 1 ELSE Cardinality(Trying)
  BY <1>2, <1>5
<1>8. QED
  BY <1>4, <1>6, <1>7

\* An embedding that begins tries the new endpoint only while the flag is down, and
\* then nothing has been missed.
LEMMA EmbedKeeps ==
  ASSUME EmbedderInv, NEW w \in Workers, Embed(w)
  PROVE  EmbedderInv'
<1> DEFINE new == [at |-> IF legacyOnly THEN "embeddings" ELSE "embed", knew |-> legacyOnly]
<1>1. /\ embedding' = [embedding EXCEPT ![w] = new]
      /\ embedding[w] = NotEmbedding /\ outcome' = NoOutcome
      /\ UNCHANGED <<modern, legacyOnly, missing>>
  BY DEF Embed
<1>2. /\ new.at = IF legacyOnly THEN "embeddings" ELSE "embed"
      /\ new.knew = legacyOnly /\ new \in OpenEmbedding
  BY DEF OpenEmbedding, Endpoint, EmbedderInv, EmbeddingsTyped
<1> HIDE DEF new
<1>3. embedding'[w] = new /\ \A v \in Workers : v # w => embedding'[v] = embedding[v]
  BY <1>1 DEF EmbedderInv, EmbeddingsTyped
<1>4. EmbeddingsTyped'
  BY <1>1, <1>2 DEF EmbedderInv, EmbeddingsTyped
<1>5. MissesAhead'
  <2>1. CASE legacyOnly
    <3>1. Cardinality(Trying') <= Cardinality(Trying) /\ Cardinality(Trying') \in Nat
      BY <1>1, <1>2, <2>1, TryingAfter, Counted DEF EmbedderInv
    <3>2. QED
      BY <1>1, <3>1, Counted DEF EmbedderInv, MissesAhead, EmbeddingsTyped
  <2>2. CASE ~legacyOnly
    <3>1. missing = 0
      BY <2>2 DEF EmbedderInv, MissesAhead, EmbeddingsTyped
    <3>2. Trying' \in SUBSET Workers
      BY DEF Trying
    <3>3. Cardinality(Trying') <= Cardinality(Workers) /\ Cardinality(Trying') \in Nat
      BY <3>2, WorkersAssumption, FS_Subset, FS_CardinalityType
    <3>4. QED
      BY <1>1, <3>1, <3>3, Counted DEF MissesAhead
  <2>3. QED
    BY <2>1, <2>2
<1>6. FlagEarned'
  BY <1>1, <1>2, <1>3 DEF EmbedderInv, FlagEarned
<1>7. MissesBounded' /\ ModernIsMetered'
  BY <1>1, <1>2, <1>3 DEF EmbedderInv, MissesBounded, ModernIsMetered, NoOutcome
<1>8. QED
  BY <1>4, <1>5, <1>6, <1>7 DEF EmbedderInv

\* A miss takes one from those who try.
LEMMA EndpointMissingKeeps ==
  ASSUME EmbedderInv, NEW w \in Workers, EndpointMissing(w)
  PROVE  EmbedderInv'
<1> DEFINE new == [embedding[w] EXCEPT !.at = "embeddings"]
<1>1. embedding[w] \in OpenEmbedding /\ embedding[w].at = "embed"
  BY EmbeddingType DEF EndpointMissing, Asked, EmbedderInv
<1>2. /\ missing' = missing + 1 /\ legacyOnly' = TRUE
      /\ embedding' = [embedding EXCEPT ![w] = new] /\ outcome' = NoOutcome
  BY DEF EndpointMissing, EmbedderInv, EmbeddingsTyped
<1>3. new \in OpenEmbedding /\ new.at = "embeddings"
  BY <1>1 DEF OpenEmbedding, Endpoint
<1> HIDE DEF new
<1>4. embedding'[w] = new /\ \A v \in Workers : v # w => embedding'[v] = embedding[v]
  BY <1>2 DEF EmbedderInv, EmbeddingsTyped
<1>5. EmbeddingsTyped'
  BY <1>2, <1>3 DEF EmbedderInv, EmbeddingsTyped
<1>6. Cardinality(Trying') = Cardinality(Trying) - 1 /\ w \in Trying /\ Cardinality(Trying') \in Nat
  BY <1>1, <1>2, <1>3, TryingAfter DEF EmbedderInv, Trying
<1>7. MissesAhead' /\ FlagEarned'
  BY <1>2, <1>5, <1>6, Counted DEF EmbedderInv, MissesAhead, FlagEarned, EmbeddingsTyped
<1>8. missing' <= Cardinality(Workers)
  BY <1>2, <1>6, <1>7, Counted DEF MissesAhead, EmbedderInv, EmbeddingsTyped
<1>9. MissesBounded' /\ ModernIsMetered'
  BY <1>2, <1>3, <1>4, <1>8 DEF EmbedderInv, MissesBounded, ModernIsMetered, EmbeddingsTyped
<1>10. QED
  BY <1>5, <1>7, <1>9 DEF EmbedderInv

\* An embedding that ends frees its worker, and has asked the legacy endpoint only
\* if something was missed.
LEMMA EmbeddingEndKeeps ==
  ASSUME EmbedderInv, NEW w \in Workers, embedding' = [embedding EXCEPT ![w] = NotEmbedding],
         UNCHANGED <<modern, legacyOnly, missing>>,
         outcome'.from = "embeddings" => embedding[w].at = "embeddings"
  PROVE  EmbedderInv'
<1>1. embedding'[w] = NotEmbedding /\ \A v \in Workers : v # w => embedding'[v] = embedding[v]
  BY DEF EmbedderInv, EmbeddingsTyped
<1>2. EmbeddingsTyped'
  BY DEF EmbedderInv, EmbeddingsTyped
<1>3. NotEmbedding.at # "embed" /\ NotEmbedding.at # "embeddings"
  BY DEF NotEmbedding
<1>4. Cardinality(Trying') <= Cardinality(Trying) /\ Cardinality(Trying') \in Nat
  BY <1>3, TryingAfter, Counted DEF EmbedderInv
<1>5. MissesAhead'
  BY <1>4, Counted DEF EmbedderInv, MissesAhead, EmbeddingsTyped
<1>6. FlagEarned' /\ MissesBounded' /\ ModernIsMetered'
  BY <1>1, <1>3 DEF EmbedderInv, FlagEarned, MissesBounded, ModernIsMetered
<1>7. QED
  BY <1>2, <1>5, <1>6 DEF EmbedderInv

\* The inductive invariant.
THEOREM EmbedderInvariance == EmbedderSpec => []EmbedderInv
<1>1. EmbedderInit => EmbedderInv
  <2> SUFFICES ASSUME EmbedderInit PROVE EmbedderInv
    OBVIOUS
  <2>1. \A w \in Workers : embedding[w] = NotEmbedding /\ embedding[w].at = "idle"
    BY DEF EmbedderInit, NotEmbedding
  <2>2. EmbeddingsTyped
    BY DEF EmbedderInit, EmbeddingsTyped
  <2>3. MissesAhead
    BY Counted DEF EmbedderInit, MissesAhead
  <2>4. MissesBounded /\ FlagEarned /\ ModernIsMetered
    BY <2>1, Counted DEF EmbedderInit, MissesBounded, FlagEarned, ModernIsMetered, NoOutcome
  <2>5. QED
    BY <2>2, <2>3, <2>4 DEF EmbedderInv
<1>2. EmbedderInv /\ [EmbedderNext]_embedderVars => EmbedderInv'
  <2> SUFFICES ASSUME EmbedderInv, [EmbedderNext]_embedderVars PROVE EmbedderInv'
    OBVIOUS
  <2>1. CASE UNCHANGED embedderVars
    BY <2>1 DEF embedderVars, EmbedderInv, EmbeddingsTyped, MissesAhead, FlagEarned, MissesBounded, ModernIsMetered, Trying
  <2>2. CASE Upgrade
    BY <2>2 DEF Upgrade, EmbedderInv, EmbeddingsTyped, MissesAhead, FlagEarned, MissesBounded, ModernIsMetered,
                Trying, NoOutcome
  <2>3. ASSUME NEW w \in Workers, Embedded(w)
        PROVE  EmbedderInv'
    <3>1. /\ embedding' = [embedding EXCEPT ![w] = NotEmbedding] /\ outcome'.from = "embed"
          /\ UNCHANGED <<modern, legacyOnly, missing>>
      BY <2>3 DEF Embedded, EmbeddingEnds
    <3>2. QED
      BY <3>1, EmbeddingEndKeeps
  <2>4. ASSUME NEW w \in Workers, LegacyEmbedded(w)
        PROVE  EmbedderInv'
    BY <2>4, EmbeddingEndKeeps DEF LegacyEmbedded, EmbeddingEnds, Asked
  <2>5. ASSUME NEW w \in Workers, EmbeddingRaises(w)
        PROVE  EmbedderInv'
    BY <2>5, EmbeddingEndKeeps DEF EmbeddingRaises, NoOutcome
  <2>6. QED
    BY <2>1, <2>2, <2>3, <2>4, <2>5, EmbedKeeps, EndpointMissingKeeps DEF EmbedderNext
<1>3. QED
  BY <1>1, <1>2, PTL DEF EmbedderSpec

\* However many embeddings run at once, an old server costs at most one failed
\* request for each of them.
THEOREM MissesFew == EmbedderSpec => []MissesBounded
<1>1. EmbedderInv => MissesBounded
  BY DEF EmbedderInv
<1>2. QED
  BY <1>1, EmbedderInvariance, PTL

\* No error, timeout or interleaving makes a server that has the endpoint be billed
\* at 0 through the other one.
THEOREM Metered == EmbedderSpec => []ModernIsMetered
<1>1. EmbedderInv => ModernIsMetered
  BY DEF EmbedderInv
<1>2. QED
  BY <1>1, EmbedderInvariance, PTL
=============================================================================

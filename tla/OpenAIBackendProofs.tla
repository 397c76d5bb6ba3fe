------------------------ MODULE OpenAIBackendProofs ------------------------
(***************************************************************************)
(* Proofs about OpenAIBackend, for any set of coroutines, calls, schemas,  *)
(* stamps and settings.                                                    *)
(***************************************************************************)
EXTENDS OpenAIBackend, TLAPS

\* The dialect of a form is a dialect of the alphabet or None.
LEMMA SchemaDialectType ==
  ASSUME NEW form
  PROVE  SchemaDialect(form) \in SchemaDialectName \cup {None}
BY DEF SchemaDialect, DialectFor, SchemaDialectName, None

\* A call in progress is a record with a phase, an ask and a request.
LEMMA OpenCallType ==
  ASSUME TypeOK, NEW t \in Tasks, call[t] # Idle
  PROVE  /\ call[t] \in OpenCall
         /\ call[t].phase \in TextPhase \cup ToolsPhase
         /\ call[t].ask \in Asks
         /\ call[t].sent \in Request
<1>1. call[t] \in OpenCall
  BY DEF TypeOK
<1>2. QED
  BY <1>1 DEF OpenCall

\* An idle task is in none of the phases of a call.
LEMMA IdlePhase ==
  ASSUME TypeOK, NEW t \in Tasks, call[t].phase \in TextPhase \cup ToolsPhase
  PROVE  call[t] # Idle
BY DEF Idle, TextPhase, ToolsPhase

\* The requests the code builds are requests.
LEMMA RequestType ==
  ASSUME TypeOK, NEW a \in Asks
  PROVE  /\ PlainRequest(a) \in Request
         /\ SchemaRequest(a) \in Request
         /\ ToolsRequest(a) \in Request
<1>1. a.tools \in BOOLEAN
  BY AsksAssumption DEF Ask
<1>2. PlainRequest(a) \in Request
  BY SettingsAssumption DEF PlainRequest, Request, None
<1>3. SchemaDialect(a.form) \in SchemaDialectName \cup {None}
  BY SchemaDialectType
<1>4. SchemaRequest(a) \in Request
  BY <1>2, <1>3 DEF SchemaRequest, Request
<1>5. ToolsRequest(a) \in Request
  BY <1>1, SettingsAssumption DEF ToolsRequest, Request, None
<1>6. QED
  BY <1>2, <1>4, <1>5

----------------------------------------------------------------------------
(* Type correctness *)

\* What sending and returning do to the types of what they assign.
LEMMA SendType ==
  ASSUME TypeOK, NEW t \in Tasks, NEW phase \in TextPhase \cup ToolsPhase,
         NEW a \in Asks, NEW req \in Request, Send(t, phase, a, req)
  PROVE  /\ call' \in [Tasks -> {Idle} \cup OpenCall]
         /\ lastStamp' \in Stamps \cup {NoStamp}
         /\ lastDialect' \in SchemaReceipt \cup {None}
         /\ returned' \in {NothingReturned} \cup ReturnedRecord
<1>1. [phase |-> phase, ask |-> a, sent |-> req] \in OpenCall
  BY DEF OpenCall
<1>2. QED
  BY <1>1 DEF Send, TypeOK

\* What returning does to the types of what it assigns.
LEMMA ReturnType ==
  ASSUME TypeOK, NEW t \in Tasks, call[t] # Idle,
         NEW outcome \in Outcome, NEW said \in Stamps \cup {NoStamp},
         lastDialect' \in SchemaReceipt \cup {None}, lastStamp' \in Stamps \cup {NoStamp},
         Return(t, outcome, said)
  PROVE  /\ call' \in [Tasks -> {Idle} \cup OpenCall]
         /\ returned' \in {NothingReturned} \cup ReturnedRecord
<1>1. call[t].ask \in Asks /\ call[t].sent.format \in {None, "json_object"} \cup SchemaDialectName
  BY OpenCallType DEF Request
<1>2. returned' \in ReturnedRecord
  BY <1>1 DEF Return, ReturnedRecord
<1>3. call' \in [Tasks -> {Idle} \cup OpenCall]
  BY DEF Return, TypeOK
<1>4. QED
  BY <1>2, <1>3

\* The instance starts in the alphabets.
LEMMA TypeInit == Init => TypeOK
<1> SUFFICES ASSUME Init PROVE TypeOK
  OBVIOUS
<1>1. until \in [Digests -> Nat] /\ clock \in Nat
  BY DEF Init
<1>2. needEffortNone \in BOOLEAN
  BY DEF Init
<1>3. call \in [Tasks -> {Idle} \cup OpenCall]
  BY DEF Init
<1>4. QED
  BY <1>1, <1>2, <1>3 DEF Init, TypeOK

\* A call that begins keeps the types.
LEMMA TypeBegin ==
  ASSUME TypeOK, NEW t \in Tasks, Begin(t)
  PROVE  TypeOK'
<1>1. CASE Generate(t)
  <2>1. PICK a \in Asks : Send(t, "text", a, PlainRequest(a))
    BY <1>1 DEF Generate, Asking
  <2>2. QED
    BY <1>1, <2>1, SendType, RequestType DEF Generate, TypeOK, TextPhase
<1>2. CASE StructuredPlain(t)
  <2>1. PICK a \in Asks : Send(t, "text", a, PlainRequest(a))
    BY <1>2 DEF StructuredPlain, Asking
  <2>2. QED
    BY <1>2, <2>1, SendType, RequestType DEF StructuredPlain, TypeOK, TextPhase
<1>3. CASE StructuredHeld(t)
  <2>1. PICK a \in Asks : Send(t, "held", a, PlainRequest(a))
    BY <1>3 DEF StructuredHeld, Asking
  <2>2. QED
    BY <1>3, <2>1, SendType, RequestType DEF StructuredHeld, TypeOK, TextPhase
<1>4. CASE StructuredSent(t)
  <2>1. PICK a \in Asks : /\ Send(t, "schema", a, SchemaRequest(a))
                          /\ until' = [until EXCEPT ![Digest(a)] = 0]
    BY <1>4 DEF StructuredSent, Asking, Lapse
  <2>2. until' \in [Digests -> Nat]
    BY <2>1 DEF TypeOK
  <2>3. QED
    BY <1>4, <2>1, <2>2, SendType, RequestType DEF StructuredSent, TypeOK, TextPhase
<1>5. CASE ChatWithTools(t)
  <2>1. PICK a \in Asks : Send(t, "tools", a, ToolsRequest(a))
    BY <1>5 DEF ChatWithTools, Asking
  <2>2. QED
    BY <1>5, <2>1, SendType, RequestType DEF ChatWithTools, TypeOK, ToolsPhase
<1>6. QED
  BY <1>1, <1>2, <1>3, <1>4, <1>5 DEF Begin

\* An answer of the provider keeps the types.
LEMMA TypeAnswered ==
  ASSUME TypeOK, NEW t \in Tasks, Answered(t)
  PROVE  TypeOK'
<1>1. PICK s \in Stamps \cup {NoStamp} :
        \/ TextAnswered(t, s) \/ SchemaAnswered(t, s) \/ HeldAnswered(t, s)
        \/ RepeatAnswered(t, s) \/ ToolsAnswered(t, s) \/ Unreadable(t, s)
  BY DEF Answered
<1> "ok" \in Outcome /\ "unreadable" \in Outcome
  BY DEF Outcome
<1>2. CASE TextAnswered(t, s)
  <2>1. call[t] # Idle
    BY <1>2, IdlePhase DEF TextAnswered, TextPhase
  <2>2. QED
    BY <1>2, <2>1, ReturnType DEF TextAnswered, TypeOK
<1>3. CASE SchemaAnswered(t, s)
  <2>1. call[t] # Idle
    BY <1>3, IdlePhase DEF SchemaAnswered, TextPhase
  <2>2. lastDialect' \in SchemaReceipt \cup {None}
    BY <1>3, SchemaDialectType DEF SchemaAnswered, SchemaReceipt
  <2>3. QED
    BY <1>3, <2>1, <2>2, ReturnType DEF SchemaAnswered, TypeOK
<1>4. CASE HeldAnswered(t, s)
  <2>1. call[t] # Idle
    BY <1>4, IdlePhase DEF HeldAnswered, TextPhase
  <2>2. QED
    BY <1>4, <2>1, ReturnType DEF HeldAnswered, TypeOK, SchemaReceipt
<1>5. CASE RepeatAnswered(t, s)
  <2>1. call[t] # Idle
    BY <1>5, IdlePhase DEF RepeatAnswered, TextPhase
  <2> DEFINE forget == clock + TTL
  <2>2. forget \in Nat
    BY WindowAssumption DEF TypeOK
  <2>3. until' = [until EXCEPT ![Digest(call[t].ask)] = forget]
    BY <1>5 DEF RepeatAnswered, Remember
  <2> HIDE DEF forget
  <2>4. until' \in [Digests -> Nat]
    BY <2>2, <2>3 DEF TypeOK
  <2>5. QED
    BY <1>5, <2>1, <2>4, ReturnType DEF RepeatAnswered, TypeOK, SchemaReceipt
<1>6. CASE ToolsAnswered(t, s)
  <2>1. call[t] # Idle
    BY <1>6, IdlePhase DEF ToolsAnswered
  <2>2. needEffortNone' \in BOOLEAN
    BY <1>6 DEF ToolsAnswered, TypeOK
  <2>3. QED
    BY <1>6, <2>1, <2>2, ReturnType DEF ToolsAnswered, TypeOK
<1>7. CASE Unreadable(t, s)
  <2>1. needEffortNone' \in BOOLEAN /\ lastStamp' \in Stamps \cup {NoStamp}
    BY <1>7 DEF Unreadable, TypeOK
  <2>2. QED
    BY <1>7, <2>1, ReturnType DEF Unreadable, TypeOK
<1>8. QED
  BY <1>1, <1>2, <1>3, <1>4, <1>5, <1>6, <1>7

\* Every step keeps the types.
LEMMA TypeNext ==
  ASSUME TypeOK, [Next]_vars
  PROVE  TypeOK'
<1>1. CASE UNCHANGED vars
  BY <1>1 DEF TypeOK, vars
<1>2. CASE Tick
  BY <1>2 DEF Tick, Elapse, TypeOK, shared
<1>3. ASSUME NEW t \in Tasks, Begin(t)
      PROVE  TypeOK'
  BY <1>3, TypeBegin
<1>4. ASSUME NEW t \in Tasks, Answered(t)
      PROVE  TypeOK'
  BY <1>4, TypeAnswered
<1>5. ASSUME NEW t \in Tasks, SchemaRejected(t)
      PROVE  TypeOK'
  <2>1. call[t].ask \in Asks
    BY <1>5, IdlePhase, OpenCallType DEF SchemaRejected, TextPhase
  <2>2. QED
    BY <1>5, <2>1, SendType, RequestType DEF SchemaRejected, TypeOK, TextPhase
<1>6. ASSUME NEW t \in Tasks, ToolsConflict(t)
      PROVE  TypeOK'
  <2>1. call[t] \in OpenCall
    BY <1>6, IdlePhase, OpenCallType DEF ToolsConflict, ToolsPhase
  <2>2. [call[t] EXCEPT !.phase = "tools_again", !.sent.effort = "none"] \in OpenCall
    BY <2>1 DEF OpenCall, Request, ToolsPhase
  <2>3. QED
    BY <1>6, <2>2 DEF ToolsConflict, TypeOK, shared
<1>7. ASSUME NEW t \in Tasks, Raises(t)
      PROVE  TypeOK'
  <2>1. PICK e \in {"invalid_key", "transient", "bad_request", "cancelled"} :
          /\ UNCHANGED <<shared, clock>> /\ Return(t, e, NoStamp) /\ call[t] # Idle
    BY <1>7 DEF Raises
  <2>2. e \in Outcome
    BY DEF Outcome
  <2>3. lastDialect' \in SchemaReceipt \cup {None} /\ lastStamp' \in Stamps \cup {NoStamp}
    BY <2>1 DEF TypeOK, shared
  <2>4. QED
    BY <2>1, <2>2, <2>3, ReturnType DEF TypeOK, shared
<1>8. QED
  BY <1>1, <1>2, <1>3, <1>4, <1>5, <1>6, <1>7 DEF Next, Settle

\* The state of the instance, and what its callers read of it, stays in the
\* alphabets of base.py and schema.py.
THEOREM TypeCorrect == Spec => []TypeOK
<1>1. Init => TypeOK
  BY TypeInit
<1>2. TypeOK /\ [Next]_vars => TypeOK'
  BY TypeNext
<1>3. QED
  BY <1>1, <1>2, PTL DEF Spec
----------------------------------------------------------------------------
(* Receipts and stamps *)

\* What the phase of a call says of what was asked: the strengthening that
\* makes the receipts inductive.
PhaseFitsAsk(c) ==
  /\ c.phase \in {"schema", "held", "repeat"}
       => c.ask.kind = "structured" /\ SchemaDialect(c.ask.form) # None
  /\ c.phase = "text"
       => c.ask.kind = "text" \/ (c.ask.kind = "structured" /\ SchemaDialect(c.ask.form) = None)
  /\ c.phase \in ToolsPhase => c.ask.kind = "tools"

RequestFits(c) ==
  /\ c.phase \in TextPhase => c.sent.effort = (IF OSeries THEN ReasoningEffort ELSE None)
  /\ c.phase = "schema" => c.sent.format = SchemaDialect(c.ask.form)
  /\ c.phase # "schema" => c.sent.format \notin SchemaDialectName
  /\ c.phase = "tools_again" => c.sent.effort = "none"

CallFits == \A t \in Tasks : call[t] # Idle => PhaseFitsAsk(call[t]) /\ RequestFits(call[t])

Inv == TypeOK /\ CallFits /\ ReceiptTruth /\ StampOwn

\* None and json_object are no dialects.
LEMMA NotADialect ==
  /\ None \notin SchemaDialectName
  /\ "json_object" \notin SchemaDialectName
BY DEF None, SchemaDialectName

\* A request built by generate carries no schema and the configured effort.
LEMMA PlainRequestFits ==
  ASSUME NEW a
  PROVE  /\ PlainRequest(a).format \notin SchemaDialectName
         /\ PlainRequest(a).effort = (IF OSeries THEN ReasoningEffort ELSE None)
         /\ SchemaRequest(a).format = SchemaDialect(a.form)
         /\ SchemaRequest(a).effort = (IF OSeries THEN ReasoningEffort ELSE None)
         /\ ToolsRequest(a).format \notin SchemaDialectName
BY NotADialect DEF PlainRequest, SchemaRequest, ToolsRequest

\* A step that only sends keeps the invariant if what it sends fits.
LEMMA SendKeeps ==
  ASSUME Inv, NEW t \in Tasks, NEW phase, NEW a, NEW req, Send(t, phase, a, req), TypeOK',
         PhaseFitsAsk([phase |-> phase, ask |-> a, sent |-> req]),
         RequestFits([phase |-> phase, ask |-> a, sent |-> req])
  PROVE  Inv'
<1>1. call' = [call EXCEPT ![t] = [phase |-> phase, ask |-> a, sent |-> req]]
  BY DEF Send
<1>2. \A u \in Tasks : u # t => call'[u] = call[u]
  BY <1>1 DEF Inv, TypeOK
<1>3. call'[t] = [phase |-> phase, ask |-> a, sent |-> req]
  BY <1>1 DEF Inv, TypeOK
<1>4. CallFits'
  BY <1>2, <1>3 DEF Inv, CallFits
<1>5. ~Succeeded'
  BY DEF Send, NothingReturned, Succeeded
<1>6. QED
  BY <1>4, <1>5 DEF Inv, ReceiptTruth, StampOwn

\* A step that only returns keeps the calls of the others as they were.
LEMMA ReturnKeepsCalls ==
  ASSUME Inv, NEW t \in Tasks, NEW outcome, NEW said, Return(t, outcome, said)
  PROVE  CallFits'
<1>1. \A u \in Tasks : u # t => call'[u] = call[u]
  BY DEF Inv, TypeOK, Return
<1>2. call'[t] = Idle
  BY DEF Inv, TypeOK, Return
<1>3. QED
  BY <1>1, <1>2 DEF Inv, CallFits

\* What a successful return must have stored to keep the invariant.
LEMMA ReturnKeeps ==
  ASSUME Inv, NEW t \in Tasks, NEW outcome, NEW said, Return(t, outcome, said), TypeOK',
         outcome = "ok" =>
           /\ lastStamp' = said
           /\ call[t].ask.kind # "tools" =>
                lastDialect' = IF call[t].sent.format \in SchemaDialectName
                                 THEN call[t].sent.format
                               ELSE IF /\ call[t].ask.kind = "structured"
                                       /\ SchemaDialect(call[t].ask.form) # None
                                 THEN SchemaRefused ELSE None
  PROVE  Inv'
<1>1. CallFits'
  BY ReturnKeepsCalls
<1>2. /\ returned'.ask = call[t].ask /\ returned'.outcome = outcome
      /\ returned'.receipt = lastDialect' /\ returned'.stamp = lastStamp'
      /\ returned'.carried = call[t].sent.format /\ returned'.said = said
  BY DEF Return
<1>3. StampOwn'
  BY <1>2 DEF StampOwn, Succeeded
<1>4. ReceiptTruth'
  BY <1>2 DEF ReceiptTruth, TrueReceipt, Succeeded
<1>5. QED
  BY <1>1, <1>3, <1>4 DEF Inv

\* The invariant holds before any call.
LEMMA InvInit == Init => Inv
<1> SUFFICES ASSUME Init PROVE Inv
  OBVIOUS
<1>1. TypeOK
  BY TypeInit
<1>2. CallFits
  BY DEF Init, CallFits
<1>3. ~Succeeded
  BY DEF Init, NothingReturned, Succeeded
<1>4. QED
  BY <1>1, <1>2, <1>3 DEF Inv, ReceiptTruth, StampOwn

\* A call that begins keeps the invariant: what it sends fits its phase.
LEMMA InvBegin ==
  ASSUME Inv, NEW t \in Tasks, Begin(t), TypeOK'
  PROVE  Inv'
<1> USE DEF PhaseFitsAsk, RequestFits, TextPhase, ToolsPhase
<1>1. CASE Generate(t)
  <2>1. PICK a \in Asks : a.kind = "text" /\ Send(t, "text", a, PlainRequest(a))
    BY <1>1 DEF Generate, Asking
  <2>2. QED
    BY <2>1, SendKeeps, PlainRequestFits
<1>2. CASE StructuredPlain(t)
  <2>1. PICK a \in Asks : /\ a.kind = "structured" /\ SchemaDialect(a.form) = None
                          /\ Send(t, "text", a, PlainRequest(a))
    BY <1>2 DEF StructuredPlain, Asking
  <2>2. QED
    BY <2>1, SendKeeps, PlainRequestFits
<1>3. CASE StructuredHeld(t)
  <2>1. PICK a \in Asks : /\ a.kind = "structured" /\ SchemaDialect(a.form) # None
                          /\ Send(t, "held", a, PlainRequest(a))
    BY <1>3 DEF StructuredHeld, Asking
  <2>2. QED
    BY <2>1, SendKeeps, PlainRequestFits
<1>4. CASE StructuredSent(t)
  <2>1. PICK a \in Asks : /\ a.kind = "structured" /\ SchemaDialect(a.form) # None
                          /\ Send(t, "schema", a, SchemaRequest(a))
    BY <1>4 DEF StructuredSent, Asking
  <2>2. QED
    BY <2>1, SendKeeps, PlainRequestFits
<1>5. CASE ChatWithTools(t)
  <2>1. PICK a \in Asks : a.kind = "tools" /\ Send(t, "tools", a, ToolsRequest(a))
    BY <1>5 DEF ChatWithTools, Asking
  <2>2. QED
    BY <2>1, SendKeeps, PlainRequestFits
<1>6. QED
  BY <1>1, <1>2, <1>3, <1>4, <1>5 DEF Begin

\* An answer keeps the invariant: what it stores is what the caller then reads.
LEMMA InvAnswered ==
  ASSUME Inv, NEW t \in Tasks, Answered(t), TypeOK'
  PROVE  Inv'
<1>1. PICK s \in Stamps \cup {NoStamp} :
        \/ TextAnswered(t, s) \/ SchemaAnswered(t, s) \/ HeldAnswered(t, s)
        \/ RepeatAnswered(t, s) \/ ToolsAnswered(t, s) \/ Unreadable(t, s)
  BY DEF Answered
<1>2. call[t] # Idle => PhaseFitsAsk(call[t]) /\ RequestFits(call[t])
  BY DEF Inv, CallFits
<1>3. call[t].phase \in TextPhase \cup ToolsPhase => call[t] # Idle
  BY IdlePhase DEF Inv
<1>4. CASE TextAnswered(t, s)
  BY <1>2, <1>3, <1>4, ReturnKeeps DEF TextAnswered, PhaseFitsAsk, RequestFits, TextPhase
<1>5. CASE SchemaAnswered(t, s)
  <2>1. /\ call[t].phase = "schema" /\ lastStamp' = s /\ Return(t, "ok", s)
        /\ lastDialect' = SchemaDialect(call[t].ask.form)
    BY <1>5 DEF SchemaAnswered
  <2>2. /\ call[t].sent.format = SchemaDialect(call[t].ask.form)
        /\ SchemaDialect(call[t].ask.form) # None
    BY <1>2, <1>3, <2>1 DEF PhaseFitsAsk, RequestFits, TextPhase
  <2>3. call[t].sent.format \in SchemaDialectName
    BY <2>2, SchemaDialectType
  <2>4. QED
    BY <2>1, <2>2, <2>3, ReturnKeeps
<1>6. CASE HeldAnswered(t, s)
  BY <1>2, <1>3, <1>6, ReturnKeeps DEF HeldAnswered, PhaseFitsAsk, RequestFits, TextPhase
<1>7. CASE RepeatAnswered(t, s)
  BY <1>2, <1>3, <1>7, ReturnKeeps DEF RepeatAnswered, PhaseFitsAsk, RequestFits, TextPhase
<1>8. CASE ToolsAnswered(t, s)
  BY <1>2, <1>3, <1>8, ReturnKeeps DEF ToolsAnswered, PhaseFitsAsk
<1>9. CASE Unreadable(t, s)
  <2>1. Return(t, "unreadable", s)
    BY <1>9 DEF Unreadable
  <2>2. QED
    BY <2>1, ReturnKeeps
<1>10. QED
  BY <1>1, <1>4, <1>5, <1>6, <1>7, <1>8, <1>9

\* Every step keeps the invariant.
LEMMA InvNext ==
  ASSUME Inv, [Next]_vars
  PROVE  Inv'
<1> TypeOK'
  BY TypeNext DEF Inv
<1>1. CASE UNCHANGED vars
  BY <1>1 DEF Inv, CallFits, ReceiptTruth, StampOwn, TrueReceipt, Succeeded, vars
<1>2. CASE Tick
  BY <1>2 DEF Tick, Inv, CallFits, ReceiptTruth, StampOwn, Succeeded, NothingReturned
<1>3. ASSUME NEW t \in Tasks, Begin(t)
      PROVE  Inv'
  BY <1>3, InvBegin
<1>4. ASSUME NEW t \in Tasks, Answered(t)
      PROVE  Inv'
  BY <1>4, InvAnswered
<1>5. ASSUME NEW t \in Tasks, SchemaRejected(t)
      PROVE  Inv'
  <2>1. /\ call[t].phase = "schema"
        /\ Send(t, "repeat", call[t].ask, PlainRequest(call[t].ask))
    BY <1>5 DEF SchemaRejected
  <2>2. call[t] # Idle
    BY <2>1, IdlePhase DEF Inv, TextPhase
  <2>3. PhaseFitsAsk(call[t])
    BY <2>2 DEF Inv, CallFits
  <2>4. QED
    BY <2>1, <2>3, SendKeeps, PlainRequestFits
       DEF PhaseFitsAsk, RequestFits, TextPhase, ToolsPhase
<1>6. ASSUME NEW t \in Tasks, ToolsConflict(t)
      PROVE  Inv'
  <2>1. call[t] \in OpenCall /\ PhaseFitsAsk(call[t]) /\ RequestFits(call[t])
    BY <1>6, IdlePhase, OpenCallType DEF ToolsConflict, ToolsPhase, Inv, CallFits
  <2> DEFINE again == [call[t] EXCEPT !.phase = "tools_again", !.sent.effort = "none"]
  <2>2. /\ again.phase = "tools_again" /\ again.ask = call[t].ask
        /\ again.sent.format = call[t].sent.format /\ again.sent.effort = "none"
        /\ again.sent.tools = call[t].sent.tools
    BY <2>1 DEF OpenCall, Request
  <2>3. PhaseFitsAsk(again) /\ RequestFits(again)
    BY <1>6, <2>1, <2>2 DEF ToolsConflict, PhaseFitsAsk, RequestFits, TextPhase, ToolsPhase
  <2>4. call' = [call EXCEPT ![t] = again]
    BY <1>6 DEF ToolsConflict
  <2> HIDE DEF again
  <2>5. CallFits'
    BY <2>3, <2>4 DEF Inv, TypeOK, CallFits
  <2>6. QED
    BY <1>6, <2>5 DEF ToolsConflict, Inv, ReceiptTruth, StampOwn, Succeeded, NothingReturned
<1>7. ASSUME NEW t \in Tasks, Raises(t)
      PROVE  Inv'
  <2>1. PICK e \in {"invalid_key", "transient", "bad_request", "cancelled"} :
          Return(t, e, NoStamp)
    BY <1>7 DEF Raises
  <2>2. QED
    BY <2>1, ReturnKeeps
<1>8. QED
  BY <1>1, <1>2, <1>3, <1>4, <1>5, <1>6, <1>7 DEF Next, Settle

\* The inductive invariant: receipts and stamps are the caller's own, and every
\* request in flight fits the phase of its call.
THEOREM Invariance == Spec => []Inv
<1>1. Init => Inv
  BY InvInit
<1>2. Inv /\ [Next]_vars => Inv'
  BY InvNext
<1>3. QED
  BY <1>1, <1>2, PTL DEF Spec

\* However the calls on an instance interleave, the receipt a text call leaves
\* for its caller is the truth about its own request.
THEOREM ReceiptsTrue == Spec => []ReceiptTruth
<1>1. Inv => ReceiptTruth
  BY DEF Inv
<1>2. QED
  BY <1>1, Invariance, PTL

\* However the calls interleave, the cached tokens, fingerprint and served
\* model read after a call are those of its own response.
THEOREM StampsOwn == Spec => []StampOwn
<1>1. Inv => StampOwn
  BY DEF Inv
<1>2. QED
  BY <1>1, Invariance, PTL

\* Whatever was learned from a tools conflict, a text request keeps the
\* configured effort, and only a call waiting with its schema carries one.
THEOREM RequestsFit == Spec => []RequestFitsPhase
<1>1. Inv => RequestFitsPhase
  BY DEF Inv, CallFits, RequestFits, RequestFitsPhase
<1>2. QED
  BY <1>1, Invariance, PTL
----------------------------------------------------------------------------
(* The instance implements the per-call channel *)

\* Sending a call from an idle task is the channel's Call.
LEMMA BeginIsCall ==
  ASSUME Inv, NEW t \in Tasks, Begin(t)
  PROVE  Channel!Call(t)
<1>1. PICK a \in Asks, phase \in {"text", "held", "schema", "tools"}, req \in Request :
        call[t] = Idle /\ Send(t, phase, a, req)
  <2>1. \A a \in Asks : PlainRequest(a) \in Request /\ SchemaRequest(a) \in Request
                        /\ ToolsRequest(a) \in Request
    BY RequestType DEF Inv
  <2>2. QED
    BY <2>1 DEF Begin, Generate, StructuredPlain, StructuredHeld, StructuredSent,
                ChatWithTools, Asking
<1>2. call' = [call EXCEPT ![t] = [phase |-> phase, ask |-> a, sent |-> req]]
  BY <1>1 DEF Send
<1>3. call \in [Tasks -> {Idle} \cup OpenCall]
  BY DEF Inv, TypeOK
<1>4. [phase |-> phase, ask |-> a, sent |-> req] # Idle
  BY <1>1 DEF Idle
<1>5. Pending' = [Pending EXCEPT ![t] = <<a>>]
  BY <1>2, <1>3, <1>4 DEF Pending
<1>6. Pending[t] = <<>>
  BY <1>1 DEF Pending
<1>7. SeenByCaller' = [task |-> None]
  BY <1>1 DEF Send, SeenByCaller, NothingReturned
<1>8. QED
  BY <1>5, <1>6, <1>7 DEF Channel!Call, Channel!Waiting, Channel!NothingReturned, Channel!None, None

\* A return closes the call in the channel.
LEMMA ReturnIsClose ==
  ASSUME Inv, NEW t \in Tasks, call[t] # Idle, NEW outcome, NEW said, Return(t, outcome, said)
  PROVE  Channel!Close(t) /\ Pending[t] = <<call[t].ask>>
<1>1. call \in [Tasks -> {Idle} \cup OpenCall] /\ call' = [call EXCEPT ![t] = Idle]
  BY DEF Inv, TypeOK, Return
<1>2. Pending[t] = <<call[t].ask>> /\ call[t].ask \in Asks
  BY OpenCallType DEF Pending, Inv
<1>3. Pending' = [Pending EXCEPT ![t] = <<>>]
  BY <1>1 DEF Pending
<1>4. QED
  BY <1>2, <1>3 DEF Channel!Close, Channel!Waiting

\* A return that raises is the channel's Raise.
LEMMA RaiseIsRaise ==
  ASSUME Inv, NEW t \in Tasks, call[t] # Idle, NEW outcome, outcome # "ok", NEW said,
         Return(t, outcome, said)
  PROVE  Channel!Raise(t)
<1>1. SeenByCaller' = [task |-> t, ok |-> FALSE]
  BY TasksAssumption DEF Return, SeenByCaller
<1>2. QED
  BY <1>1, ReturnIsClose DEF Channel!Raise

\* A successful return is the channel's Answer, if its receipt may be read.
LEMMA AnswerIsAnswer ==
  ASSUME Inv, NEW t \in Tasks, call[t] # Idle, NEW s \in Stamps \cup {NoStamp},
         Return(t, "ok", s), lastStamp' = s,
         (IF call[t].ask.kind = "tools" THEN None ELSE lastDialect') \in TrueReceipts(call[t].ask)
  PROVE  Channel!Answer(t)
<1> DEFINE r == IF call[t].ask.kind = "tools" THEN None ELSE lastDialect'
<1>1. SeenByCaller' = [task |-> t, ok |-> TRUE, receipt |-> r, stamp |-> s, said |-> s]
  BY TasksAssumption DEF Return, SeenByCaller
<1>2. call[t].ask \in Asks
  BY OpenCallType DEF Inv
<1>3. r \in [a \in Asks |-> TrueReceipts(a)][Pending[t][1]]
  BY <1>2, ReturnIsClose
<1> HIDE DEF r
<1>4. QED
  BY <1>1, <1>3, ReturnIsClose DEF Channel!Answer

\* Every step of the instance is a step of the channel or a stutter.
LEMMA StepIsChannelStep ==
  ASSUME Inv, [Next]_vars
  PROVE  [Channel!Next]_(Channel!chanVars)
<1>1. CASE UNCHANGED vars
  BY <1>1 DEF vars, Pending, SeenByCaller, Channel!chanVars
<1>2. ASSUME UNCHANGED call, returned' = NothingReturned
      PROVE  Channel!Next
  <2>1. Pending' = Pending
    BY <1>2 DEF Pending
  <2>2. SeenByCaller' = [task |-> None]
    BY <1>2 DEF SeenByCaller, NothingReturned
  <2>3. QED
    BY <2>1, <2>2 DEF Channel!Next, Channel!Forget, Channel!NothingReturned, Channel!None, None
<1>3. CASE Tick
  BY <1>2, <1>3 DEF Tick
<1>4. ASSUME NEW t \in Tasks, Begin(t)
      PROVE  Channel!Next
  BY <1>4, BeginIsCall DEF Channel!Next
<1>5. ASSUME NEW t \in Tasks, call'[t] # Idle, call[t] # Idle, call'[t].ask = call[t].ask,
             \A u \in Tasks : u # t => call'[u] = call[u], returned' = NothingReturned
      PROVE  Channel!Next
  <2>1. Pending' = Pending
    BY <1>5 DEF Pending
  <2>2. SeenByCaller' = [task |-> None]
    BY <1>5 DEF SeenByCaller, NothingReturned
  <2>3. QED
    BY <2>1, <2>2 DEF Channel!Next, Channel!Forget, Channel!NothingReturned, Channel!None, None
<1>6. ASSUME NEW t \in Tasks, SchemaRejected(t)
      PROVE  Channel!Next
  <2>1. call[t] # Idle
    BY <1>6, IdlePhase DEF SchemaRejected, TextPhase, Inv
  <2>2. call' = [call EXCEPT ![t] = [phase |-> "repeat", ask |-> call[t].ask,
                                     sent |-> PlainRequest(call[t].ask)]]
        /\ returned' = NothingReturned
    BY <1>6 DEF SchemaRejected, Send
  <2>3. QED
    BY <1>5, <2>1, <2>2 DEF Inv, TypeOK, Idle
<1>7. ASSUME NEW t \in Tasks, ToolsConflict(t)
      PROVE  Channel!Next
  <2>1. call[t] # Idle /\ call[t] \in OpenCall
    BY <1>7, IdlePhase, OpenCallType DEF ToolsConflict, ToolsPhase, Inv
  <2>2. call' = [call EXCEPT ![t] = [call[t] EXCEPT !.phase = "tools_again",
                                                    !.sent.effort = "none"]]
        /\ returned' = NothingReturned
    BY <1>7 DEF ToolsConflict
  <2>3. QED
    BY <1>5, <2>1, <2>2 DEF Inv, TypeOK, Idle, OpenCall
<1>8. ASSUME NEW t \in Tasks, Raises(t)
      PROVE  Channel!Next
  <2>1. PICK e \in {"invalid_key", "transient", "bad_request", "cancelled"} :
          Return(t, e, NoStamp) /\ call[t] # Idle
    BY <1>8 DEF Raises
  <2>2. QED
    BY <2>1, RaiseIsRaise DEF Channel!Next
<1>9. ASSUME NEW t \in Tasks, Answered(t)
      PROVE  Channel!Next
  <2>1. PICK s \in Stamps \cup {NoStamp} :
          \/ TextAnswered(t, s) \/ SchemaAnswered(t, s) \/ HeldAnswered(t, s)
          \/ RepeatAnswered(t, s) \/ ToolsAnswered(t, s) \/ Unreadable(t, s)
    BY <1>9 DEF Answered
  <2>2. CASE Unreadable(t, s)
    BY <2>2, RaiseIsRaise DEF Unreadable, Channel!Next
  <2>3. ASSUME ~Unreadable(t, s)
        PROVE  /\ call[t] # Idle /\ Return(t, "ok", s) /\ lastStamp' = s
               /\ (IF call[t].ask.kind = "tools" THEN None ELSE lastDialect')
                    \in TrueReceipts(call[t].ask)
    <3>1. call[t] # Idle
      BY <2>1, <2>3, IdlePhase DEF TextAnswered, SchemaAnswered, HeldAnswered, RepeatAnswered,
           ToolsAnswered, TextPhase, ToolsPhase, Inv
    <3>2. PhaseFitsAsk(call[t])
      BY <3>1 DEF Inv, CallFits
    <3>3. QED
      BY <2>1, <2>3, <3>1, <3>2 DEF TextAnswered, SchemaAnswered, HeldAnswered, RepeatAnswered,
           ToolsAnswered, PhaseFitsAsk, TrueReceipts
  <2>4. QED
    BY <2>2, <2>3, AnswerIsAnswer DEF Channel!Next
<1>10. QED
  BY <1>1, <1>3, <1>4, <1>6, <1>7, <1>8, <1>9 DEF Next, Settle

\* The last-call attributes of the shared instance give every caller what a
\* per-call return channel would: own receipt for text calls, own stamp for all.
THEOREM Refinement == Spec => ImplementsChannel
<1>1. Init => Channel!Init
  <2> SUFFICES ASSUME Init PROVE Channel!Init
    OBVIOUS
  <2>1. Pending = [t \in Tasks |-> <<>>]
    BY DEF Init, Pending
  <2>2. SeenByCaller = [task |-> None]
    BY DEF Init, SeenByCaller, NothingReturned
  <2>3. QED
    BY <2>1, <2>2 DEF Channel!Init, Channel!NothingReturned, Channel!None, None
<1>2. Inv /\ [Next]_vars => [Channel!Next]_(Channel!chanVars)
  BY StepIsChannelStep
<1>3. QED
  BY <1>1, <1>2, Invariance, PTL DEF Spec, Channel!Spec, ImplementsChannel
----------------------------------------------------------------------------
(* The refusal memory *)

RefusalEarnedStep ==
  \A d \in Digests : until'[d] > until[d] =>
    \E t \in Tasks :
      /\ call[t] # Idle /\ call'[t] = Idle
      /\ call[t].phase = "repeat"
      /\ Digest(call[t].ask) = d
      /\ Succeeded' /\ returned'.task = t
      /\ returned'.carried \notin SchemaDialectName

\* Every step but the end of a repeat leaves the memory alone or forgets.
LEMMA StepRefusalEarned ==
  ASSUME Inv, [Next]_vars
  PROVE  RefusalEarnedStep
<1>1. ASSUME NEW t \in Tasks, StructuredSent(t)
      PROVE  RefusalEarnedStep
  <2>1. PICK a : until' = [until EXCEPT ![Digest(a)] = 0]
    BY <1>1 DEF StructuredSent, Lapse
  <2>2. \A d \in Digests : until[d] \in Nat /\ (until'[d] = until[d] \/ until'[d] = 0)
    BY <2>1 DEF Inv, TypeOK
  <2>3. QED
    BY <2>2 DEF RefusalEarnedStep
<1>2. ASSUME NEW t \in Tasks, NEW s, RepeatAnswered(t, s)
      PROVE  RefusalEarnedStep
  <2>1. call[t].phase = "repeat" /\ call[t] # Idle
    BY <1>2, IdlePhase DEF RepeatAnswered, TextPhase, Inv
  <2>2. call'[t] = Idle /\ Succeeded' /\ returned'.task = t
        /\ returned'.carried = call[t].sent.format
    BY <1>2, TasksAssumption DEF RepeatAnswered, Return, Succeeded, Inv, TypeOK
  <2>3. call[t].sent.format \notin SchemaDialectName
    BY <2>1 DEF Inv, CallFits, RequestFits
  <2>4. \A d \in Digests : d # Digest(call[t].ask) => until'[d] = until[d]
    BY <1>2 DEF RepeatAnswered, Remember, Inv, TypeOK
  <2>5. \A d \in Digests : until[d] \in Nat
    BY DEF Inv, TypeOK
  <2>6. QED
    BY <2>1, <2>2, <2>3, <2>4, <2>5 DEF RefusalEarnedStep
<1>3. CASE UNCHANGED until
  <2>1. \A d \in Digests : ~(until'[d] > until[d])
    BY <1>3 DEF Inv, TypeOK
  <2>2. QED
    BY <2>1 DEF RefusalEarnedStep
<1>4. QED
  BY <1>1, <1>2, <1>3 DEF Next, Begin, Settle, Answered, Tick, Generate, StructuredPlain,
       StructuredHeld, ChatWithTools, TextAnswered, SchemaAnswered, HeldAnswered, ToolsAnswered,
       Unreadable, SchemaRejected, ToolsConflict, Raises, shared, vars

\* A refusal is remembered only by a call that met it and then went through
\* without the schema.
THEOREM RefusalsEarned == Spec => RefusalEarned
<1>1. Inv /\ [Next]_vars => [RefusalEarnedStep]_vars
  BY StepRefusalEarned
<1>2. QED
  BY <1>1, Invariance, PTL DEF Spec, RefusalEarned, RefusalEarnedStep

\* Two steps on one task differ in nothing but that task's call.
LEMMA SendChanges ==
  ASSUME TypeOK, NEW t \in Tasks, NEW phase, NEW a, NEW req, Send(t, phase, a, req)
  PROVE  /\ call'[t].phase = phase /\ call'[t].ask = a /\ call'[t].sent = req
         /\ \A u \in Tasks : u # t => call'[u] = call[u]
BY DEF Send, TypeOK

LEMMA ReturnChanges ==
  ASSUME TypeOK, NEW t \in Tasks, NEW outcome, NEW said, Return(t, outcome, said)
  PROVE  call'[t] = Idle /\ \A u \in Tasks : u # t => call'[u] = call[u]
BY DEF Return, TypeOK

SchemaAskedStep ==
  \A t \in Tasks :
    call'[t] # call[t] /\ call'[t] # Idle /\ call'[t].phase = "schema"
      => \A d \in Digests : d = Digest(call'[t].ask) => ~Refused(d)

\* A call enters the schema phase in one action, which asked the memory.
LEMMA StepSchemaAsked ==
  ASSUME Inv, [Next]_vars
  PROVE  SchemaAskedStep
<1> USE DEF Inv
<1>1. ASSUME NEW t \in Tasks, StructuredSent(t)
      PROVE  SchemaAskedStep
  <2>1. PICK a \in Asks : ~Refused(Digest(a)) /\ Send(t, "schema", a, SchemaRequest(a))
    BY <1>1 DEF StructuredSent, Asking
  <2>2. call'[t].ask = a /\ \A u \in Tasks : u # t => call'[u] = call[u]
    BY <2>1, SendChanges
  <2>3. QED
    BY <2>1, <2>2 DEF SchemaAskedStep
<1>2. ASSUME NEW t \in Tasks, NEW phase, NEW a, NEW req, phase # "schema", Send(t, phase, a, req)
      PROVE  SchemaAskedStep
  BY <1>2, SendChanges DEF SchemaAskedStep
<1>3. ASSUME NEW t \in Tasks, NEW outcome, NEW said, Return(t, outcome, said)
      PROVE  SchemaAskedStep
  BY <1>3, ReturnChanges DEF SchemaAskedStep
<1>4. CASE UNCHANGED call
  BY <1>4 DEF SchemaAskedStep
<1>5. ASSUME NEW t \in Tasks, ToolsConflict(t)
      PROVE  SchemaAskedStep
  <2>1. call[t] \in OpenCall
    BY <1>5, IdlePhase, OpenCallType DEF ToolsConflict, ToolsPhase
  <2>2. /\ call'[t].phase = "tools_again"
        /\ \A u \in Tasks : u # t => call'[u] = call[u]
    BY <1>5, <2>1 DEF ToolsConflict, TypeOK, OpenCall
  <2>3. QED
    BY <2>2 DEF SchemaAskedStep
<1>6. ASSUME NEW t \in Tasks, Begin(t)
      PROVE  SchemaAskedStep
  BY <1>1, <1>2, <1>6 DEF Begin, Generate, StructuredPlain, StructuredHeld, ChatWithTools
<1>7. ASSUME NEW t \in Tasks, Settle(t)
      PROVE  SchemaAskedStep
  BY <1>2, <1>3, <1>5, <1>7 DEF Settle, Answered, TextAnswered, SchemaAnswered, HeldAnswered,
       RepeatAnswered, ToolsAnswered, Unreadable, SchemaRejected, Raises
<1>8. QED
  BY <1>4, <1>6, <1>7 DEF Next, Tick, vars

\* No entry is longer than a window: a refusal that is remembered anew lasts at least
\* as long as the one before.
Windows == \A d \in Digests : until[d] <= clock + TTL

ForgottenStep == \A d \in Digests : until'[d] < until[d] => until[d] <= clock

\* Only a call whose schema is not refused deletes an entry, and only the clock ends one.
LEMMA StepForgotten ==
  ASSUME Inv, Windows, [Next]_vars
  PROVE  Windows' /\ ForgottenStep
<1>1. /\ clock \in Nat /\ TTL \in Nat /\ DOMAIN until = Digests
      /\ \A d \in Digests : until[d] \in Nat /\ until[d] <= clock + TTL
  BY WindowAssumption DEF Inv, TypeOK, Windows
<1>2. ASSUME NEW t \in Tasks, StructuredSent(t)
      PROVE  Windows' /\ ForgottenStep
  <2>1. PICK a : ~Refused(Digest(a)) /\ until' = [until EXCEPT ![Digest(a)] = 0] /\ UNCHANGED clock
    BY <1>2 DEF StructuredSent, Lapse
  <2>2. \A d \in Digests : until'[d] = IF d = Digest(a) THEN 0 ELSE until[d]
    BY <1>1, <2>1
  <2>3. \A d \in Digests : d = Digest(a) => until[d] <= clock
    BY <1>1, <2>1 DEF Refused
  <2>4. QED
    BY <1>1, <2>1, <2>2, <2>3 DEF Windows, ForgottenStep
<1>3. ASSUME NEW t \in Tasks, NEW s, RepeatAnswered(t, s)
      PROVE  Windows' /\ ForgottenStep
  <2>1. until' = [until EXCEPT ![Digest(call[t].ask)] = clock + TTL] /\ UNCHANGED clock
    BY <1>3 DEF RepeatAnswered, Remember
  <2>2. \A d \in Digests : until'[d] = clock + TTL \/ until'[d] = until[d]
    BY <1>1, <2>1
  <2>3. QED
    BY <1>1, <2>1, <2>2 DEF Windows, ForgottenStep
<1>4. CASE Tick
  <2>1. clock' = clock + 1 /\ UNCHANGED until
    BY <1>4 DEF Tick, Elapse, shared
  <2>2. QED
    BY <1>1, <2>1 DEF Windows, ForgottenStep
<1>5. CASE UNCHANGED <<until, clock>>
  BY <1>1, <1>5 DEF Windows, ForgottenStep
<1>6. QED
  BY <1>2, <1>3, <1>4, <1>5 DEF Next, Begin, Settle, Answered, Generate, StructuredPlain,
       StructuredHeld, ChatWithTools, TextAnswered, SchemaAnswered, HeldAnswered, ToolsAnswered,
       Unreadable, SchemaRejected, ToolsConflict, Raises, shared, vars

WindowKeptStep == SchemaAskedStep /\ ForgottenStep

\* While a refusal is remembered, no call starts with the schema, and only time makes
\* the memory forget it.
THEOREM WindowsKept == Spec => WindowKept
<1>1. Init => Windows
  <2>1. TTL \in Nat
    BY WindowAssumption
  <2>2. QED
    BY <2>1 DEF Init, Windows
<1>2. Inv /\ Windows /\ [Next]_vars => Windows'
  BY StepForgotten
<1>3. Inv /\ Windows /\ [Next]_vars => [WindowKeptStep]_vars
  BY StepSchemaAsked, StepForgotten DEF WindowKeptStep
<1>4. QED
  BY <1>1, <1>2, <1>3, Invariance, PTL
     DEF Spec, WindowKept, WindowKeptStep, SchemaAskedStep, ForgottenStep
----------------------------------------------------------------------------
(* The conflict of tools and reasoning *)

ConflictPaidOnceStep ==
  /\ needEffortNone => needEffortNone'
  /\ \A t \in Tasks : call'[t] \notin {Idle, call[t]} =>
       /\ needEffortNone /\ call'[t].sent.tools => call'[t].sent.effort = "none"
       /\ call'[t].ask.kind # "tools" =>
            call'[t].sent.effort = (IF OSeries THEN ReasoningEffort ELSE None)

\* What the conflict taught is never unlearned, and a tool call asks it first.
LEMMA StepConflictPaidOnce ==
  ASSUME Inv, [Next]_vars
  PROVE  ConflictPaidOnceStep
<1> USE DEF Inv
<1>0. ASSUME NEW a
      PROVE  /\ PlainRequest(a).effort = (IF OSeries THEN ReasoningEffort ELSE None)
             /\ SchemaRequest(a).effort = (IF OSeries THEN ReasoningEffort ELSE None)
  BY PlainRequestFits
<1>1. ASSUME NEW t \in Tasks, NEW phase, NEW a, NEW req, Send(t, phase, a, req),
             UNCHANGED needEffortNone, needEffortNone /\ req.tools => req.effort = "none",
             a.kind # "tools" => req.effort = (IF OSeries THEN ReasoningEffort ELSE None)
      PROVE  ConflictPaidOnceStep
  <2>1. call'[t].sent = req /\ call'[t].ask = a /\ \A u \in Tasks : u # t => call'[u] = call[u]
    BY <1>1, SendChanges
  <2>2. QED
    BY <1>1, <2>1 DEF ConflictPaidOnceStep
<1>2. ASSUME NEW t \in Tasks, NEW outcome, NEW said, Return(t, outcome, said),
             needEffortNone => needEffortNone'
      PROVE  ConflictPaidOnceStep
  <2>1. call'[t] = Idle /\ \A u \in Tasks : u # t => call'[u] = call[u]
    BY <1>2, ReturnChanges
  <2>2. QED
    BY <1>2, <2>1 DEF ConflictPaidOnceStep
<1>3. ASSUME NEW a
      PROVE  /\ ~PlainRequest(a).tools /\ ~SchemaRequest(a).tools
             /\ needEffortNone /\ ToolsRequest(a).tools => ToolsRequest(a).effort = "none"
  BY DEF PlainRequest, SchemaRequest, ToolsRequest
<1>4. ASSUME NEW t \in Tasks, Begin(t)
      PROVE  ConflictPaidOnceStep
  BY <1>0, <1>1, <1>3, <1>4
     DEF Begin, Generate, StructuredPlain, StructuredHeld, StructuredSent, ChatWithTools, Asking
<1>5. ASSUME NEW t \in Tasks, ToolsConflict(t)
      PROVE  ConflictPaidOnceStep
  <2>1. call[t] # Idle /\ UNCHANGED needEffortNone
    BY <1>5, IdlePhase DEF ToolsConflict, ToolsPhase, shared
  <2>2. \A u \in Tasks : u # t => call'[u] = call[u]
    BY <1>5 DEF ToolsConflict, TypeOK
  <2>3. call[t] \in OpenCall /\ call[t].ask.kind = "tools"
    BY <1>5, <2>1, OpenCallType DEF ToolsConflict, CallFits, PhaseFitsAsk, ToolsPhase
  <2>4. call'[t] = [call[t] EXCEPT !.phase = "tools_again", !.sent.effort = "none"]
    BY <1>5 DEF ToolsConflict, TypeOK
  <2>5. call'[t].ask = call[t].ask /\ call'[t].sent.effort = "none"
    BY <2>3, <2>4 DEF OpenCall, Request
  <2>6. QED
    BY <2>1, <2>2, <2>3, <2>5 DEF ConflictPaidOnceStep
<1>6. ASSUME NEW t \in Tasks, Settle(t)
      PROVE  ConflictPaidOnceStep
  <2>1. CASE SchemaRejected(t)
    BY <1>0, <1>1, <1>3, <2>1 DEF SchemaRejected
  <2>2. CASE Answered(t)
    <3>1. PICK s \in Stamps \cup {NoStamp} :
            \/ TextAnswered(t, s) \/ SchemaAnswered(t, s) \/ HeldAnswered(t, s)
            \/ RepeatAnswered(t, s) \/ ToolsAnswered(t, s) \/ Unreadable(t, s)
      BY <2>2 DEF Answered
    <3>2. Return(t, "ok", s) \/ Return(t, "unreadable", s)
      BY <3>1 DEF TextAnswered, SchemaAnswered, HeldAnswered, RepeatAnswered, ToolsAnswered, Unreadable
    <3>3. \/ UNCHANGED needEffortNone
          \/ needEffortNone' = (needEffortNone \/ call[t].phase = "tools_again")
      BY <3>1 DEF TextAnswered, SchemaAnswered, HeldAnswered, RepeatAnswered, ToolsAnswered, Unreadable
    <3>4. needEffortNone => needEffortNone'
      BY <3>3 DEF TypeOK
    <3>5. QED
      BY <1>2, <3>2, <3>4
  <2>3. CASE Raises(t)
    <3>1. PICK e : Return(t, e, NoStamp) /\ UNCHANGED needEffortNone
      BY <2>3 DEF Raises, shared
    <3>2. QED
      BY <1>2, <3>1
  <2>4. QED
    BY <1>5, <1>6, <2>1, <2>2, <2>3 DEF Settle
<1>7. CASE UNCHANGED <<call, needEffortNone>>
  BY <1>7 DEF ConflictPaidOnceStep
<1>8. QED
  BY <1>4, <1>6, <1>7 DEF Next, Tick, shared, vars

\* However tool calls overlap, once one has paid the conflict every later request with
\* tools carries the effort "none", and no text call loses its effort by it.
THEOREM ConflictsPaidOnce == Spec => ConflictPaidOnce
<1>1. Inv /\ [Next]_vars => [ConflictPaidOnceStep]_vars
  BY StepConflictPaidOnce
<1>2. QED
  BY <1>1, Invariance, PTL DEF Spec, ConflictPaidOnce, ConflictPaidOnceStep
----------------------------------------------------------------------------
(* A call makes at most two requests *)

TwoRequestsStep ==
  \A t \in Tasks : call[t] # Idle =>
    IF Settle(t)
      THEN /\ RequestsLeft(t)' < RequestsLeft(t)
           /\ call'[t] # Idle => /\ call'[t].ask = call[t].ask
                                 /\ Repaired(call[t], call'[t])
      ELSE call'[t] = call[t]

\* What a provider's answer does to the call it is for.
LEMMA SettleAdvances ==
  ASSUME Inv, NEW t \in Tasks, call[t] # Idle, Settle(t)
  PROVE  /\ RequestsLeft(t)' < RequestsLeft(t)
         /\ call'[t] # Idle => call'[t].ask = call[t].ask /\ Repaired(call[t], call'[t])
<1>1. DOMAIN call = Tasks
  BY DEF Inv, TypeOK
<1>2. CASE Answered(t) \/ Raises(t)
  <2>1. call' = [call EXCEPT ![t] = Idle]
    BY <1>2 DEF Answered, TextAnswered, SchemaAnswered, HeldAnswered, RepeatAnswered, ToolsAnswered,
                Unreadable, Raises, Return
  <2>2. call'[t] = Idle
    BY <1>1, <2>1
  <2>3. QED
    BY <2>2 DEF RequestsLeft
<1>3. CASE SchemaRejected(t)
  <2>1. /\ call[t].phase = "schema"
        /\ call' = [call EXCEPT ![t] = [phase |-> "repeat", ask |-> call[t].ask, sent |-> PlainRequest(call[t].ask)]]
    BY <1>3 DEF SchemaRejected, Send
  <2>2. call'[t] = [phase |-> "repeat", ask |-> call[t].ask, sent |-> PlainRequest(call[t].ask)]
    BY <1>1, <2>1
  <2>3. PhaseFitsAsk(call[t]) /\ RequestFits(call[t])
    BY DEF Inv, CallFits
  <2>4. call[t].sent.effort = (IF OSeries THEN ReasoningEffort ELSE None)
    BY <2>1, <2>3 DEF RequestFits, TextPhase
  <2>5. Repaired(call[t], call'[t])
    <3>1. call'[t].sent = PlainRequest(call[t].ask)
      BY <2>2
    <3>2. /\ call'[t].sent.format \notin SchemaDialectName
          /\ call'[t].sent.effort = (IF OSeries THEN ReasoningEffort ELSE None)
      BY <3>1, PlainRequestFits
    <3>3. QED
      BY <2>1, <2>4, <3>2 DEF Repaired
  <2>6. call'[t].phase = "repeat" /\ call'[t].ask = call[t].ask /\ call'[t] # Idle
    BY <2>2 DEF Idle
  <2>7. QED
    BY <2>1, <2>5, <2>6 DEF RequestsLeft
<1>4. CASE ToolsConflict(t)
  <2>1. /\ call[t].phase = "tools"
        /\ call' = [call EXCEPT ![t].phase = "tools_again", ![t].sent.effort = "none"]
    BY <1>4 DEF ToolsConflict
  <2>2. call[t] \in OpenCall /\ call[t].sent \in Request
    BY OpenCallType DEF Inv
  <2>3. call'[t] = [call[t] EXCEPT !.phase = "tools_again", !.sent.effort = "none"]
    BY <1>1, <2>1
  <2>4. /\ call'[t].phase = "tools_again" /\ call'[t].ask = call[t].ask
        /\ call'[t].sent.effort = "none" /\ call'[t].sent.tools = call[t].sent.tools
    BY <2>2, <2>3 DEF OpenCall, Request
  <2>5. call'[t] # Idle
    BY <2>4 DEF Idle
  <2>6. RequestsLeft(t) = 2 /\ RequestsLeft(t)' = 1
    BY <2>1, <2>4, <2>5 DEF RequestsLeft
  <2>7. Repaired(call[t], call'[t])
    BY <2>1, <2>4 DEF Repaired
  <2>8. QED
    BY <2>4, <2>6, <2>7
<1>5. QED
  BY <1>2, <1>3, <1>4 DEF Settle

\* A step of another coroutine leaves the call as it is.
LEMMA OthersAreLeft ==
  ASSUME Inv, NEW t \in Tasks, NEW u \in Tasks, u # t, Begin(u) \/ Settle(u)
  PROVE  call'[t] = call[t]
<1>0. DOMAIN call = Tasks
  BY DEF Inv, TypeOK
<1>1. CASE Begin(u)
  BY <1>0, <1>1 DEF Begin, Generate, StructuredPlain, StructuredHeld, StructuredSent, ChatWithTools, Send
<1>2. CASE Answered(u) \/ Raises(u)
  BY <1>0, <1>2 DEF Answered, TextAnswered, SchemaAnswered, HeldAnswered, RepeatAnswered, ToolsAnswered,
              Unreadable, Raises, Return
<1>3. CASE SchemaRejected(u) \/ ToolsConflict(u)
  BY <1>0, <1>3 DEF SchemaRejected, ToolsConflict, Send
<1>4. QED
  BY <1>1, <1>2, <1>3 DEF Settle

LEMMA StepTwoRequests ==
  ASSUME Inv, [Next]_vars
  PROVE  [TwoRequestsStep]_vars
<1> SUFFICES ASSUME Next, NEW t \in Tasks, call[t] # Idle
             PROVE  IF Settle(t)
                      THEN /\ RequestsLeft(t)' < RequestsLeft(t)
                           /\ call'[t] # Idle => call'[t].ask = call[t].ask /\ Repaired(call[t], call'[t])
                      ELSE call'[t] = call[t]
  BY DEF TwoRequestsStep
<1>1. CASE Settle(t)
  BY <1>1, SettleAdvances
<1>2. CASE ~Settle(t)
  <2>1. ~Begin(t)
    BY DEF Begin, Generate, StructuredPlain, StructuredHeld, StructuredSent, ChatWithTools, Asking
  <2>2. CASE Tick
    BY <1>2, <2>2 DEF Tick
  <2>3. CASE \E u \in Tasks : u # t /\ (Begin(u) \/ Settle(u))
    BY <1>2, <2>3, OthersAreLeft
  <2>4. QED
    BY <1>2, <2>1, <2>2, <2>3 DEF Next
<1>3. QED
  BY <1>1, <1>2

\* Whatever the provider refuses and whoever else calls, a call makes at most two
\* requests, the second without the schema or with the effort "none".
THEOREM TwoRequests == Spec => TwoRequestsAtMost
<1>1. Inv /\ [Next]_vars => [TwoRequestsStep]_vars
  BY StepTwoRequests
<1>2. QED
  BY <1>1, Invariance, PTL DEF Spec, TwoRequestsAtMost, TwoRequestsStep
=============================================================================

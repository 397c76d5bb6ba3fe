--------------------------- MODULE OpenAIBackend ---------------------------
(***************************************************************************)
(* One OpenAIBackend instance shared by the coroutines of a host           *)
(* (openai_backend.py, with the refusal memory of schema.py).              *)
(*                                                                         *)
(* One event loop runs everything, and a call suspends only while the      *)
(* provider holds its request.  So an action is what runs between two      *)
(* suspensions: from the caller's statement to the request, from one       *)
(* answer to the next request, or from the last answer to the caller's     *)
(* next statement, where the last_* attributes are read.                   *)
(***************************************************************************)
EXTENDS SchemaForms, SchemaRefusals

CONSTANTS
  Tasks,            \* the coroutines that share the instance
  Asks,             \* the calls they make (a subset of Ask)
  Schemas,          \* canonical schemas
  Unsayable,        \* SentAs of a schema the dialect cannot say (ValueError)
  SentAs,           \* SentAs[s, d]: the digest of s in dialect d
  Stamps,           \* cached tokens, fingerprint and model of one response
  NoStamp,          \* 0, None, None
  BaseUrl,          \* a compatible endpoint, not OpenAI itself
  OSeries,          \* a reasoning model
  ReasoningEffort   \* the configured effort, or None

Ask == [kind : {"text", "structured", "tools"}, schema : Schemas,
        form : AskedForm, json : BOOLEAN, tools : BOOLEAN]

ASSUME AsksAssumption == Asks \subseteq Ask
ASSUME SentAsAssumption ==
  /\ SentAs \in [Schemas \X SchemaDialectName -> Digests \cup {Unsayable}]
  /\ Unsayable \notin Digests
ASSUME TasksAssumption == None \notin Tasks
ASSUME StampAssumption == NoStamp \notin Stamps
ASSUME SettingsAssumption ==
  /\ BaseUrl \in BOOLEAN /\ OSeries \in BOOLEAN
  /\ ReasoningEffort \in {None, "low", "none"}

VARIABLES
  call,             \* call[t]: t's call in progress, or Idle
  lastStamp,        \* last_cached_tokens, last_system_fingerprint, last_served_model
  lastDialect,      \* last_schema_dialect
  needEffortNone,   \* _tools_need_effort_none
  returned          \* history: what the caller of the call that just ended reads

shared == <<lastStamp, lastDialect, until, needEffortNone>>
vars == <<call, lastStamp, lastDialect, until, needEffortNone, clock, returned>>

----------------------------------------------------------------------------
(* Requests *)

Request == [format : {None, "json_object"} \cup SchemaDialectName,
            effort : {None, "low", "none"}, tools : BOOLEAN]

TextPhase == {"text", "schema", "repeat", "held"}
ToolsPhase == {"tools", "tools_again"}

Idle == [phase |-> "idle"]
OpenCall == [phase : TextPhase \cup ToolsPhase, ask : Asks, sent : Request]

SchemaDialect(form) == IF BaseUrl THEN None ELSE DialectFor("openai", form)

Digest(a) == SentAs[a.schema, SchemaDialect(a.form)]

\* Mutant: the effort learned for tools leaks into generate.
PlainRequest_leakedEffort(a) ==
  [format |-> IF a.json /\ ~BaseUrl /\ ~OSeries THEN "json_object" ELSE None,
   effort |-> IF needEffortNone THEN "none" ELSE IF OSeries THEN ReasoningEffort ELSE None,
   tools  |-> FALSE]

\* generate's own request: JSON mode if the system prompt asks for JSON and
\* the endpoint is known to take the parameter.
PlainRequest(a) ==
  [format |-> IF a.json /\ ~BaseUrl /\ ~OSeries THEN "json_object" ELSE None,
   effort |-> IF OSeries THEN ReasoningEffort ELSE None,
   tools  |-> FALSE]

SchemaRequest(a) == [PlainRequest(a) EXCEPT !.format = SchemaDialect(a.form)]

\* Mutant: the configured effort wins over what the conflict taught.
ToolsRequest_configuredFirst(a) ==
  [format |-> None,
   effort |-> IF OSeries /\ ReasoningEffort # None THEN ReasoningEffort
              ELSE IF needEffortNone /\ a.tools THEN "none" ELSE None,
   tools  |-> a.tools]

ToolsRequest(a) ==
  [format |-> None,
   effort |-> IF needEffortNone
                THEN IF a.tools THEN "none" ELSE None
                ELSE IF OSeries THEN ReasoningEffort ELSE None,
   tools  |-> a.tools]

NothingReturned == [task |-> None]

----------------------------------------------------------------------------
(* The two ends of a call *)

\* Up to the suspension: the last_* attributes reset, the request sent.
Send(t, phase, a, req) ==
  /\ call' = [call EXCEPT ![t] = [phase |-> phase, ask |-> a, sent |-> req]]
  /\ lastStamp' = NoStamp
  /\ lastDialect' = None
  /\ returned' = NothingReturned

\* From the last answer to the caller's next statement, which reads.
Return(t, outcome, said) ==
  /\ call' = [call EXCEPT ![t] = Idle]
  /\ returned' = [task |-> t, ask |-> call[t].ask, outcome |-> outcome,
                  receipt |-> lastDialect', stamp |-> lastStamp',
                  carried |-> call[t].sent.format, said |-> said]

Asking(t, kind) == {a \in Asks : call[t] = Idle /\ a.kind = kind}

----------------------------------------------------------------------------
(* Calls *)

Generate(t) ==
  /\ \E a \in Asking(t, "text") : Send(t, "text", a, PlainRequest(a))
  /\ UNCHANGED <<until, needEffortNone, clock>>

\* No dialect for the form: today's generate.
StructuredPlain(t) ==
  /\ \E a \in Asking(t, "structured") :
       /\ SchemaDialect(a.form) = None
       /\ Send(t, "text", a, PlainRequest(a))
  /\ UNCHANGED <<until, needEffortNone, clock>>

\* The schema cannot be said in the dialect, or its refusal is remembered.
StructuredHeld(t) ==
  /\ \E a \in Asking(t, "structured") :
       /\ SchemaDialect(a.form) # None
       /\ Digest(a) = Unsayable \/ Refused(Digest(a))
       /\ Send(t, "held", a, PlainRequest(a))
  /\ UNCHANGED <<until, needEffortNone, clock>>

\* Mutant: the refusal memory is not consulted.
StructuredSent_forgetful(t) ==
  /\ \E a \in Asking(t, "structured") :
       /\ SchemaDialect(a.form) # None
       /\ Digest(a) # Unsayable
       /\ Send(t, "schema", a, SchemaRequest(a))
       /\ UNCHANGED until
  /\ UNCHANGED <<needEffortNone, clock>>

\* The schema travels; an entry whose window is over is deleted on the way.
StructuredSent(t) ==
  /\ \E a \in Asking(t, "structured") :
       /\ SchemaDialect(a.form) # None
       /\ Digest(a) # Unsayable
       /\ ~Refused(Digest(a))
       /\ Send(t, "schema", a, SchemaRequest(a))
       /\ Lapse(Digest(a))
  /\ UNCHANGED <<needEffortNone, clock>>

ChatWithTools(t) ==
  /\ \E a \in Asking(t, "tools") : Send(t, "tools", a, ToolsRequest(a))
  /\ UNCHANGED <<until, needEffortNone, clock>>

----------------------------------------------------------------------------
(* Answers of the provider *)

\* Mutant: the receipt of a plain call is cleared before its request only.
TextAnswered_clearedEarly(t, s) ==
  /\ call[t].phase = "text"
  /\ lastStamp' = s
  /\ UNCHANGED <<lastDialect, until, needEffortNone, clock>>
  /\ Return(t, "ok", s)

\* Mutant: a response that says nothing leaves what was there.
TextAnswered_keptStamp(t, s) ==
  /\ call[t].phase = "text"
  /\ lastStamp' = IF s = NoStamp THEN lastStamp ELSE s
  /\ lastDialect' = None
  /\ Return(t, "ok", s)
  /\ UNCHANGED <<until, needEffortNone, clock>>

TextAnswered(t, s) ==
  /\ call[t].phase = "text"
  /\ lastStamp' = s
  /\ lastDialect' = None
  /\ Return(t, "ok", s)
  /\ UNCHANGED <<until, needEffortNone, clock>>

\* Mutant: the form is stored where the dialect belongs.
SchemaAnswered_form(t, s) ==
  /\ call[t].phase = "schema"
  /\ lastStamp' = s
  /\ lastDialect' = call[t].ask.form
  /\ Return(t, "ok", s)
  /\ UNCHANGED <<until, needEffortNone, clock>>

SchemaAnswered(t, s) ==
  /\ call[t].phase = "schema"
  /\ lastStamp' = s
  /\ lastDialect' = SchemaDialect(call[t].ask.form)
  /\ Return(t, "ok", s)
  /\ UNCHANGED <<until, needEffortNone, clock>>

\* Mutant: a schema that was held back leaves the receipt of generate.
HeldAnswered_plain(t, s) ==
  /\ call[t].phase = "held"
  /\ lastStamp' = s
  /\ lastDialect' = None
  /\ Return(t, "ok", s)
  /\ UNCHANGED <<until, needEffortNone, clock>>

HeldAnswered(t, s) ==
  /\ call[t].phase = "held"
  /\ lastStamp' = s
  /\ lastDialect' = SchemaRefused
  /\ Return(t, "ok", s)
  /\ UNCHANGED <<until, needEffortNone, clock>>

\* The repeat without the schema went through: the refusal is remembered.
RepeatAnswered(t, s) ==
  /\ call[t].phase = "repeat"
  /\ lastStamp' = s
  /\ lastDialect' = SchemaRefused
  /\ Remember(Digest(call[t].ask))
  /\ Return(t, "ok", s)
  /\ UNCHANGED <<needEffortNone, clock>>

\* chat_with_tools clears the receipt before its request, not after it.
ToolsAnswered(t, s) ==
  /\ call[t].phase \in ToolsPhase
  /\ lastStamp' = s
  /\ needEffortNone' = (needEffortNone \/ call[t].phase = "tools_again")
  /\ UNCHANGED <<lastDialect, until, clock>>
  /\ Return(t, "ok", s)

\* Mutant: the refusal is remembered before the repeat.
SchemaRejected_hasty(t) ==
  /\ call[t].phase = "schema"
  /\ Send(t, "repeat", call[t].ask, PlainRequest(call[t].ask))
  /\ Remember(Digest(call[t].ask))
  /\ UNCHANGED <<needEffortNone, clock>>

\* Mutant: a 400 to the repeat is repeated too.
SchemaRejected_again(t) ==
  /\ call[t].phase \in {"schema", "repeat"}
  /\ Send(t, "repeat", call[t].ask, PlainRequest(call[t].ask))
  /\ UNCHANGED <<until, needEffortNone, clock>>

\* 400 to a request with a schema: one repeat without it.
SchemaRejected(t) ==
  /\ call[t].phase = "schema"
  /\ Send(t, "repeat", call[t].ask, PlainRequest(call[t].ask))
  /\ UNCHANGED <<until, needEffortNone, clock>>

\* Mutant: the retry of a tool call drops the tools, not the effort.
ToolsConflict_droppedTools(t) ==
  /\ call[t].phase = "tools"
  /\ call' = [call EXCEPT ![t].phase = "tools_again", ![t].sent.tools = FALSE]
  /\ returned' = NothingReturned
  /\ UNCHANGED <<shared, clock>>

\* The provider refuses tools while reasoning is on: one retry, effort "none",
\* whatever effort the refused request carried.
ToolsConflict(t) ==
  /\ call[t].phase = "tools"
  /\ call' = [call EXCEPT ![t].phase = "tools_again", ![t].sent.effort = "none"]
  /\ returned' = NothingReturned
  /\ UNCHANGED <<shared, clock>>

\* A response without choices: a text call has stored its stamp by then, a
\* tool call only what its retry taught.
Unreadable(t, s) ==
  /\ call[t] # Idle
  /\ lastStamp' = IF call[t].phase \in TextPhase THEN s ELSE lastStamp
  /\ needEffortNone' = (needEffortNone \/ call[t].phase = "tools_again")
  /\ UNCHANGED <<lastDialect, until, clock>>
  /\ Return(t, "unreadable", s)

\* Everything else that raises: a rejected key, a 429, a timeout, a 5xx, a 400
\* that is nobody's cue, the cancellation of the task.
Raises(t) ==
  /\ call[t] # Idle
  /\ \E e \in {"invalid_key", "transient", "bad_request", "cancelled"} :
       /\ e = "bad_request" => call[t].phase # "schema"
       /\ UNCHANGED <<shared, clock>>
       /\ Return(t, e, NoStamp)

Tick ==
  /\ Elapse
  /\ returned' = NothingReturned
  /\ UNCHANGED <<call, shared>>

----------------------------------------------------------------------------
Init ==
  /\ call = [t \in Tasks |-> Idle]
  /\ lastStamp = NoStamp
  /\ lastDialect = None
  /\ until = [d \in Digests |-> 0]
  /\ needEffortNone = FALSE
  /\ clock = 0
  /\ returned = NothingReturned

Begin(t) ==
  \/ Generate(t)
  \/ StructuredPlain(t)
  \/ StructuredHeld(t)
  \/ StructuredSent(t)
  \/ ChatWithTools(t)

Answered(t) ==
  \E s \in Stamps \cup {NoStamp} :
    \/ TextAnswered(t, s)
    \/ SchemaAnswered(t, s)
    \/ HeldAnswered(t, s)
    \/ RepeatAnswered(t, s)
    \/ ToolsAnswered(t, s)
    \/ Unreadable(t, s)

Settle(t) == Answered(t) \/ SchemaRejected(t) \/ ToolsConflict(t) \/ Raises(t)

Next == Tick \/ \E t \in Tasks : Begin(t) \/ Settle(t)

Spec == Init /\ [][Next]_vars

\* Every request ends: the SDK client is built with a timeout.
FairSpec == Spec /\ \A t \in Tasks : WF_vars(Settle(t))

----------------------------------------------------------------------------
(* Properties *)

Outcome == {"ok", "unreadable", "invalid_key", "transient", "bad_request", "cancelled"}

ReturnedRecord ==
  [task : Tasks, ask : Asks, outcome : Outcome,
   receipt : SchemaReceipt \cup {None}, stamp : Stamps \cup {NoStamp},
   carried : {None, "json_object"} \cup SchemaDialectName, said : Stamps \cup {NoStamp}]

TypeOK ==
  /\ call \in [Tasks -> {Idle} \cup OpenCall]
  /\ lastStamp \in Stamps \cup {NoStamp}
  /\ lastDialect \in SchemaReceipt \cup {None}
  /\ until \in [Digests -> Nat]
  /\ needEffortNone \in BOOLEAN
  /\ clock \in Nat
  /\ returned \in {NothingReturned} \cup ReturnedRecord

Succeeded == returned.task # None /\ returned.outcome = "ok"

\* What base.py's alphabet says of the call that just ended, from the request
\* that was answered and not from the attribute.
TrueReceipt(r) ==
  IF r.carried \in SchemaDialectName THEN r.carried
  ELSE IF r.ask.kind = "structured" /\ SchemaDialect(r.ask.form) # None
    THEN SchemaRefused ELSE None

\* The receipt read after a text call, plain or structured, is that call's
\* own: the dialect if its answered request carried the schema, "refused" if
\* one was asked for and did not travel, None otherwise - whatever other calls
\* ran on the instance meanwhile.
ReceiptTruth ==
  Succeeded /\ returned.ask.kind # "tools" => returned.receipt = TrueReceipt(returned)

\* The cached tokens, fingerprint and served model read after a call are
\* those of the response to that very call, with the schema or without, on the
\* first request or on a retry.
StampOwn == Succeeded => returned.stamp = returned.said

\* A request never carries what its phase does not license: a schema only
\* while the call waits with it, the effort "none" learned from a conflict
\* never outside a tool call (generate keeps its reasoning).
RequestFitsPhase ==
  \A t \in Tasks : call[t] # Idle =>
    LET c == call[t] IN
    /\ c.phase \in TextPhase => c.sent.effort = (IF OSeries THEN ReasoningEffort ELSE None)
    /\ c.phase = "schema" => c.sent.format = SchemaDialect(c.ask.form)
    /\ c.phase # "schema" => c.sent.format \notin SchemaDialectName
    /\ c.phase = "tools_again" => c.sent.effort = "none"

\* A refusal is remembered only at the end of a call that met a 400 with the
\* schema and then went through without it, and for that schema alone.
RefusalEarned ==
  [][\A d \in Digests : until'[d] > until[d] =>
       \E t \in Tasks :
         /\ call[t] # Idle /\ call'[t] = Idle
         /\ call[t].phase = "repeat"
         /\ Digest(call[t].ask) = d
         /\ Succeeded' /\ returned'.task = t
         /\ returned'.carried \notin SchemaDialectName]_vars

\* Inside a window no call starts with the refused schema: a request that
\* carries it was sent before the refusal was remembered or after it expired.  And
\* no call, nor another refusal, ends a window early.
WindowKept ==
  [][/\ \A t \in Tasks :
          call'[t] # call[t] /\ call'[t] # Idle /\ call'[t].phase = "schema"
            => \A d \in Digests : d = Digest(call'[t].ask) => ~Refused(d)
     /\ \A d \in Digests : until'[d] < until[d] => until[d] <= clock]_vars

\* Once one tool call has paid the conflict, every later request with tools carries
\* the effort "none"; and a text call keeps the configured effort, whatever tool calls
\* learned.
ConflictPaidOnce ==
  [][/\ needEffortNone => needEffortNone'
     /\ \A t \in Tasks : call'[t] \notin {Idle, call[t]} =>
          /\ needEffortNone /\ call'[t].sent.tools => call'[t].sent.effort = "none"
          /\ call'[t].ask.kind # "tools" =>
               call'[t].sent.effort = (IF OSeries THEN ReasoningEffort ELSE None)]_vars

\* The requests a call may still make, the one in flight included.
RequestsLeft(t) ==
  IF call[t] = Idle THEN 0 ELSE IF call[t].phase \in {"schema", "tools"} THEN 2 ELSE 1

\* What distinguishes the second request of a call from its first: a structured call
\* repeats without the schema, with the same effort; a tool call retries with the
\* effort "none", with the same tools.
Repaired(first, second) ==
  IF first.phase = "schema"
    THEN /\ second.sent.format \notin SchemaDialectName
         /\ second.sent.effort = first.sent.effort
    ELSE /\ second.sent.effort = "none"
         /\ second.sent.tools = first.sent.tools

\* The safety half of CallsEnd: a call makes at most two requests, the second for the
\* same ask and repaired as the refusal demands, and no step of another coroutine
\* touches a call in flight.
TwoRequestsAtMost ==
  [][\A t \in Tasks : call[t] # Idle =>
       IF Settle(t)
         THEN /\ RequestsLeft(t)' < RequestsLeft(t)
              /\ call'[t] # Idle => /\ call'[t].ask = call[t].ask
                                    /\ Repaired(call[t], call'[t])
         ELSE call'[t] = call[t]]_vars

\* A call ends whatever the provider answers: at most one repeat without the
\* schema, at most one retry with effort "none".
CallsEnd == \A t \in Tasks : (call[t] # Idle) ~> (call[t] = Idle)

\* What a caller reads; the receipt after a tool call is left out, see below.
SeenByCaller ==
  IF returned.task = None THEN returned
  ELSE IF returned.outcome # "ok" THEN [task |-> returned.task, ok |-> FALSE]
  ELSE [task |-> returned.task, ok |-> TRUE,
        receipt |-> IF returned.ask.kind = "tools" THEN None ELSE returned.receipt,
        stamp |-> returned.stamp, said |-> returned.said]

TrueReceipts(a) ==
  IF a.kind = "structured" /\ SchemaDialect(a.form) # None
    THEN {SchemaDialect(a.form), SchemaRefused} ELSE {None}

Pending == [t \in Tasks |-> IF call[t] = Idle THEN <<>> ELSE <<call[t].ask>>]

Channel ==
  INSTANCE CallChannel WITH
    open <- Pending,
    returned <- SeenByCaller,
    Receipts <- [a \in Asks |-> TrueReceipts(a)]

\* The instance-wide attributes implement a per-call channel for the receipts of
\* text calls and the stamps of all calls, however the calls overlap.
ImplementsChannel == Channel!Spec

----------------------------------------------------------------------------
(* What the comments say of the code, and the code does not do *)

\* openai_backend.py:421, "a tool call carries no schema"; base.py:142, None is
\* "the call carried no schema".
ToolReceiptNone ==
  Succeeded /\ returned.ask.kind = "tools" => returned.receipt = None
=============================================================================

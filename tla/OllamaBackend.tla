--------------------------- MODULE OllamaBackend ---------------------------
(***************************************************************************)
(* One OllamaBackend instance shared by the coroutines of a host           *)
(* (ollama.py).  As in OpenAIBackend an action runs from one suspension to *)
(* the next; the server says nothing of itself, so there is no stamp, and  *)
(* nothing is reset when a call begins.                                    *)
(***************************************************************************)
EXTENDS SchemaForms, SchemaRefusals

CONSTANTS
  Tasks,       \* the coroutines that share the instance
  Asks,        \* the calls they make (a subset of Ask)
  Schemas,     \* canonical schemas
  Unsayable,   \* SentAs of a schema the dialect cannot say
  SentAs,      \* SentAs[s]: the digest of s in ollama_format
  Format,      \* the configured format: None, "json" or a schema
  NoStamp      \* nothing is said of the response

Ask == [kind : {"text", "structured"}, schema : Schemas, form : AskedForm]

ASSUME AsksAssumption == Asks \subseteq Ask
ASSUME SentAsAssumption ==
  SentAs \in [Schemas -> Digests \cup {Unsayable}] /\ Unsayable \notin Digests
ASSUME TasksAssumption == None \notin Tasks
ASSUME FormatAssumption == Format \notin Digests

VARIABLES
  call,        \* call[t]: t's call in progress, or Idle
  format,      \* self.format
  lastDialect, \* last_schema_dialect
  returned     \* history: what the caller of the call that just ended reads

vars == <<call, format, lastDialect, until, clock, returned>>

Phase == {"text", "schema", "repeat", "held"}
Idle == [phase |-> "idle"]
OpenCall == [phase : Phase, ask : Asks, sent : Digests \cup {Format}]

SchemaDialect(form) == DialectFor("ollama", form)

NothingReturned == [task |-> None]

----------------------------------------------------------------------------
\* _post up to its suspension: the request and its format go out.
Post(t, phase, a, fmt) ==
  /\ call' = [call EXCEPT ![t] = [phase |-> phase, ask |-> a, sent |-> fmt]]
  /\ returned' = NothingReturned

Return(t, ok) ==
  /\ call' = [call EXCEPT ![t] = Idle]
  /\ returned' = [task |-> t, ask |-> call[t].ask, ok |-> ok,
                  receipt |-> lastDialect', carried |-> call[t].sent]

Asking(t, kind) == {a \in Asks : call[t] = Idle /\ a.kind = kind}

Generate(t) ==
  /\ \E a \in Asking(t, "text") : Post(t, "text", a, format)
  /\ UNCHANGED <<format, lastDialect, until, clock>>

\* The strict form has no dialect here: today's generate.
StructuredPlain(t) ==
  /\ \E a \in Asking(t, "structured") :
       SchemaDialect(a.form) = None /\ Post(t, "text", a, format)
  /\ UNCHANGED <<format, lastDialect, until, clock>>

StructuredHeld(t) ==
  /\ \E a \in Asking(t, "structured") :
       /\ SchemaDialect(a.form) # None
       /\ SentAs[a.schema] = Unsayable \/ Refused(SentAs[a.schema])
       /\ Post(t, "held", a, format)
  /\ UNCHANGED <<format, lastDialect, until, clock>>

\* Mutant: the schema is written onto the instance for its call.
StructuredSent_onInstance(t) ==
  /\ \E a \in Asking(t, "structured") :
       /\ SchemaDialect(a.form) # None
       /\ SentAs[a.schema] # Unsayable
       /\ ~Refused(SentAs[a.schema])
       /\ format' = SentAs[a.schema]
       /\ Post(t, "schema", a, format')
       /\ Lapse(SentAs[a.schema])
  /\ UNCHANGED <<lastDialect, clock>>

StructuredSent(t) ==
  /\ \E a \in Asking(t, "structured") :
       /\ SchemaDialect(a.form) # None
       /\ SentAs[a.schema] # Unsayable
       /\ ~Refused(SentAs[a.schema])
       /\ Post(t, "schema", a, SentAs[a.schema])
       /\ Lapse(SentAs[a.schema])
  /\ UNCHANGED <<format, lastDialect, clock>>

\* Mutant: the receipt is cleared when a plain call begins and not when it ends.
PlainAnswered_clearedEarly(t) ==
  /\ call[t].phase = "text"
  /\ UNCHANGED <<format, lastDialect, until, clock>>
  /\ Return(t, TRUE)

\* The end of _post writes None, after the last suspension of the call.
PlainAnswered(t) ==
  /\ call[t].phase = "text"
  /\ lastDialect' = None
  /\ Return(t, TRUE)
  /\ UNCHANGED <<format, until, clock>>

SchemaAnswered(t) ==
  /\ call[t].phase = "schema"
  /\ lastDialect' = SchemaDialect(call[t].ask.form)
  /\ Return(t, TRUE)
  /\ UNCHANGED <<format, until, clock>>

\* Mutant: the repeat without the schema leaves the dialect that was refused.
HeldAnswered_asSent(t) ==
  /\ call[t].phase \in {"held", "repeat"}
  /\ lastDialect' = SchemaDialect(call[t].ask.form)
  /\ IF call[t].phase = "repeat" THEN Remember(SentAs[call[t].ask.schema])
                                 ELSE UNCHANGED until
  /\ Return(t, TRUE)
  /\ UNCHANGED <<format, clock>>

HeldAnswered(t) ==
  /\ call[t].phase \in {"held", "repeat"}
  /\ lastDialect' = SchemaRefused
  /\ IF call[t].phase = "repeat" THEN Remember(SentAs[call[t].ask.schema])
                                 ELSE UNCHANGED until
  /\ Return(t, TRUE)
  /\ UNCHANGED <<format, clock>>

\* 400 to a request with a schema: one repeat with the configured format.
SchemaRejected(t) ==
  /\ call[t].phase = "schema"
  /\ Post(t, "repeat", call[t].ask, format)
  /\ UNCHANGED <<format, lastDialect, until, clock>>

\* Any other error, a timeout or a cancellation; the receipt stays as it was.
Raises(t) ==
  /\ call[t] # Idle
  /\ UNCHANGED <<format, lastDialect, until, clock>>
  /\ Return(t, FALSE)

Tick ==
  /\ Elapse
  /\ returned' = NothingReturned
  /\ UNCHANGED <<call, format, lastDialect, until>>

----------------------------------------------------------------------------
Init ==
  /\ call = [t \in Tasks |-> Idle]
  /\ format = Format
  /\ lastDialect = None
  /\ until = [d \in Digests |-> 0]
  /\ clock = 0
  /\ returned = NothingReturned

Begin(t) == Generate(t) \/ StructuredPlain(t) \/ StructuredHeld(t) \/ StructuredSent(t)

Settle(t) ==
  \/ PlainAnswered(t) \/ SchemaAnswered(t) \/ HeldAnswered(t) \/ SchemaRejected(t) \/ Raises(t)

Next == Tick \/ \E t \in Tasks : Begin(t) \/ Settle(t)

Spec == Init /\ [][Next]_vars

----------------------------------------------------------------------------
\* Every request carries its own call's schema or the configured format: a
\* schema never reaches another call through the instance (ollama.py:104).
OwnFormat ==
  \A t \in Tasks : call[t] # Idle =>
    call[t].sent = IF call[t].phase = "schema" THEN SentAs[call[t].ask.schema] ELSE Format

SeenByCaller ==
  IF returned.task = None THEN returned
  ELSE IF ~returned.ok THEN [task |-> returned.task, ok |-> FALSE]
  ELSE [task |-> returned.task, ok |-> TRUE, receipt |-> returned.receipt,
        stamp |-> NoStamp, said |-> NoStamp]

\* The receipt of a call whose answered request carried the schema is its
\* dialect, and no other call's is.
ReceiptSaysCarried ==
  returned.task # None /\ returned.ok =>
    ((returned.receipt \in SchemaDialectName) <=> (returned.carried \in Digests))

Pending == [t \in Tasks |-> IF call[t] = Idle THEN <<>> ELSE <<call[t].ask>>]

TrueReceipts(a) ==
  IF a.kind = "structured" /\ SchemaDialect(a.form) # None
    THEN {SchemaDialect(a.form), SchemaRefused} ELSE {None}

Channel ==
  INSTANCE CallChannel WITH
    open <- Pending,
    returned <- SeenByCaller,
    Receipts <- [a \in Asks |-> TrueReceipts(a)],
    Stamps <- {}

\* The instance gives every caller its own receipt, as a per-call channel would.
ImplementsChannel == Channel!Spec
=============================================================================

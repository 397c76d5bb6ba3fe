-------------------------- MODULE FallbackBackend --------------------------
(***************************************************************************)
(* One FallbackBackend shared by the coroutines of a host (fallback.py),   *)
(* over links that are shared too: anyone may call a link beside the       *)
(* chain.  Of a link only what CallChannel promises is used: at the moment *)
(* its await resolves, its last_* attributes are those of the call that    *)
(* just ended.                                                             *)
(*                                                                         *)
(* The failover loop is cogno_homeo.resilient_call, which is not in this   *)
(* repository.  It is modelled from how the code and its tests use it: the *)
(* candidates in order, each asked at most MaxRetries + 1 times, a link    *)
(* whose breaker is open skipped, the first success returned without a     *)
(* further suspension, the last error raised.                              *)
(***************************************************************************)
EXTENDS Naturals, Sequences, SchemaForms

CONSTANTS
  Tasks,       \* the coroutines that share the chain
  Asks,        \* the calls they make (a subset of Ask)
  Chain,       \* the links, in order
  Native,      \* the links that support native tools
  Announces,   \* Announces[b][f]: schema_dialect_of(b, f)
  Stamps,      \* cached tokens, fingerprint and model of one response
  NoStamp,     \* nothing was said
  MaxRetries,  \* RetryPolicy.max_retries
  Breaker      \* a CircuitBreaker was passed in

Links == {Chain[i] : i \in DOMAIN Chain}

Ask == [kind : {"text", "structured", "tools"}, form : AskedForm]

ASSUME ChainAssumption == Chain \in Seq(Links) \ {<<>>} /\ None \notin Links \cup Tasks
ASSUME AsksAssumption == Asks \subseteq Ask
ASSUME RetriesAssumption == MaxRetries \in Nat
ASSUME AnnouncesAssumption ==
  Announces \in [Links -> [AskedForm -> SchemaAnnouncement \cup {None}]]

VARIABLES
  call,            \* call[t]: t's call in progress, or Idle
  link,            \* link[b]: the last_* attributes of link b, as its last call left them
  lastSuccessful,  \* _last_successful
  lastDialect,     \* last_schema_dialect
  tripped,         \* the links whose breaker is open
  returned         \* history: what the caller of the call that just ended reads

vars == <<call, link, lastSuccessful, lastDialect, tripped, returned>>

Idle == [at |-> 0]
NothingReturned == [task |-> None]

Left == [receipt : SchemaReceipt \cup {None}, stamp : Stamps \cup {NoStamp}]

----------------------------------------------------------------------------
(* What the chain announces and whom it may ask *)

SchemaDialect(form) ==
  IF \E b \in Links : Announces[b][form] # None THEN ChainDialect ELSE None

\* The places in the chain of the links a call may go to.
Candidates(a) == {i \in DOMAIN Chain : a.kind = "tools" => Chain[i] \in Native}

\* The next candidate after place i that the breaker lets through; 0 if none.
NextAt(a, i) ==
  LET ready == {j \in Candidates(a) : j > i /\ Chain[j] \notin tripped}
  IN IF ready = {} THEN 0 ELSE CHOOSE j \in ready : \A k \in ready : j <= k

Current(t) == Chain[call[t].at]

\* The schema goes to this link: the call has one and the link answers its form.
CarriesTo(a, b) == a.kind = "structured" /\ Announces[b][a.form] # None

\* The receipts a link may leave for a call that reached it; a link that is a
\* chain itself leaves any, and a tool call's receipt is nobody's promise.
LinkReceipts(a, b) ==
  IF a.kind = "tools" \/ (CarriesTo(a, b) /\ Announces[b][a.form] = ChainDialect)
    THEN SchemaReceipt \cup {None}
  ELSE IF CarriesTo(a, b) THEN {Announces[b][a.form], SchemaRefused}
  ELSE {None}

----------------------------------------------------------------------------
\* The receipt and the forwarded properties as the caller reads them, from
\* whichever link _last_successful names.
Return(t, ok, served, took, said) ==
  /\ call' = [call EXCEPT ![t] = Idle]
  /\ returned' =
       [task |-> t, ask |-> call[t].ask, ok |-> ok, receipt |-> lastDialect',
        stamp |-> IF lastSuccessful' = None THEN NoStamp ELSE link'[lastSuccessful'].stamp,
        model |-> IF lastSuccessful' = None THEN Chain[1] ELSE lastSuccessful',
        served |-> served, took |-> took, said |-> said]

\* Any call begins by clearing the receipt and asks its first candidate.
Begin(t) ==
  /\ call[t] = Idle
  /\ lastDialect' = None
  /\ returned' = NothingReturned
  /\ \E a \in Asks :
       /\ NextAt(a, 0) # 0
       /\ call' = [call EXCEPT ![t] = [ask |-> a, at |-> NextAt(a, 0), tries |-> 0]]
  /\ UNCHANGED <<link, lastSuccessful, tripped>>

\* Nobody to ask: no native link for a tool call, or every breaker is open.
BeginInVain(t) ==
  /\ call[t] = Idle
  /\ \E a \in Asks :
       /\ NextAt(a, 0) = 0
       /\ returned' = [task |-> t, ask |-> a, ok |-> FALSE]
  /\ lastDialect' = None
  /\ UNCHANGED <<call, link, lastSuccessful, tripped>>

\* Mutant: the serving link is remembered only for text and tool calls.
Remembered_unstructured(t) ==
  IF call[t].ask.kind = "structured" THEN lastSuccessful ELSE Current(t)

\* _last_successful after the call.
Remembered(t) == Current(t)

\* Mutant: the receipt is cleared when a call begins only.
PlainReceipt_clearedEarly == lastDialect

PlainReceipt == None

\* Mutant: a link without a dialect leaves the receipt as it was.
StructuredReceipt_plainKept(t) ==
  IF CarriesTo(call[t].ask, Current(t)) THEN link'[Current(t)].receipt ELSE lastDialect

\* Mutant: the link is read before its await.
StructuredReceipt_readBefore(t) ==
  IF CarriesTo(call[t].ask, Current(t)) THEN link[Current(t)].receipt ELSE None

\* The serving link's receipt, read on the line after its await; None where it got
\* a plain generate.
StructuredReceipt(t) ==
  IF CarriesTo(call[t].ask, Current(t)) THEN link'[Current(t)].receipt ELSE None

\* The current link answers, and leaves a receipt and a stamp of its own.
Answers(t, took, s) ==
  /\ took \in LinkReceipts(call[t].ask, Current(t))
  /\ link' = [link EXCEPT ![Current(t)] = [receipt |-> took, stamp |-> s]]
  /\ lastSuccessful' = Remembered(t)
  /\ UNCHANGED tripped

Asked(t, kind) == call[t] # Idle /\ call[t].ask.kind = kind

TextServed(t, took, s) ==
  /\ Asked(t, "text")
  /\ Answers(t, took, s)
  /\ lastDialect' = PlainReceipt
  /\ Return(t, TRUE, Current(t), took, s)

\* Mutant: another await stands between the link's answer and the capture of its receipt.
StructuredServed_late(t, took, s) ==
  /\ Asked(t, "structured")
  /\ \/ /\ "answer" \notin DOMAIN call[t]
        /\ Answers(t, took, s)
        /\ call' = [call EXCEPT ![t] = [ask |-> call[t].ask, at |-> call[t].at, tries |-> 0,
                                       answer |-> <<call[t].at, took, s>>]]
        /\ returned' = NothingReturned
        /\ UNCHANGED lastDialect
     \/ /\ "answer" \in DOMAIN call[t]
        /\ call[t].answer = <<call[t].at, took, s>>
        /\ lastSuccessful' = Remembered(t)
        /\ UNCHANGED <<link, tripped>>
        /\ lastDialect' = StructuredReceipt(t)
        /\ Return(t, TRUE, Current(t), took, s)

StructuredServed(t, took, s) ==
  /\ Asked(t, "structured")
  /\ Answers(t, took, s)
  /\ lastDialect' = StructuredReceipt(t)
  /\ Return(t, TRUE, Current(t), took, s)

\* A tool call leaves the receipt alone.
ToolsServed(t, took, s) ==
  /\ Asked(t, "tools")
  /\ Answers(t, took, s)
  /\ UNCHANGED lastDialect
  /\ Return(t, TRUE, Current(t), took, s)

----------------------------------------------------------------------------
(* resilient_call on a link that raised *)

\* Another attempt on the same link.
Retry(t) ==
  /\ call[t] # Idle
  /\ call[t].tries < MaxRetries
  /\ call' = [call EXCEPT ![t].tries = @ + 1]
  /\ returned' = NothingReturned
  /\ UNCHANGED <<link, lastSuccessful, lastDialect, tripped>>

Onward(t) == NextAt(call[t].ask, call[t].at)

\* The link is given up, its breaker may open, and the loop moves on or raises.
MoveOn(t) ==
  /\ call[t] # Idle
  /\ tripped' \in IF Breaker THEN {tripped, tripped \cup {Current(t)}} ELSE {tripped}
  /\ UNCHANGED <<link, lastSuccessful, lastDialect>>
  /\ IF Onward(t) = 0
       THEN /\ call' = [call EXCEPT ![t] = Idle]
            /\ returned' = [task |-> t, ask |-> call[t].ask, ok |-> FALSE]
       ELSE /\ call' = [call EXCEPT ![t].at = Onward(t), ![t].tries = 0]
            /\ returned' = NothingReturned

\* The caller gives up: CancelledError leaves the loop at the link it waits for.
Cancelled(t) ==
  /\ call[t] # Idle
  /\ call' = [call EXCEPT ![t] = Idle]
  /\ returned' = [task |-> t, ask |-> call[t].ask, ok |-> FALSE]
  /\ UNCHANGED <<link, lastSuccessful, lastDialect, tripped>>

\* The breaker of a link closes again.
Recover ==
  /\ \E b \in tripped : tripped' = tripped \ {b}
  /\ returned' = NothingReturned
  /\ UNCHANGED <<call, link, lastSuccessful, lastDialect>>

\* Another user of a link: its attributes are reset or overwritten.
OutsideCall ==
  /\ \E b \in Links, left \in Left : link' = [link EXCEPT ![b] = left]
  /\ returned' = NothingReturned
  /\ UNCHANGED <<call, lastSuccessful, lastDialect, tripped>>

----------------------------------------------------------------------------
Init ==
  /\ call = [t \in Tasks |-> Idle]
  /\ link = [b \in Links |-> [receipt |-> None, stamp |-> NoStamp]]
  /\ lastSuccessful = None
  /\ lastDialect = None
  /\ tripped = {}
  /\ returned = NothingReturned

Served(t) ==
  \E took \in SchemaReceipt \cup {None}, s \in Stamps \cup {NoStamp} :
    \/ TextServed(t, took, s)
    \/ StructuredServed(t, took, s)
    \/ ToolsServed(t, took, s)

Next ==
  \/ Recover \/ OutsideCall
  \/ \E t \in Tasks :
       Begin(t) \/ BeginInVain(t) \/ Served(t) \/ Retry(t) \/ MoveOn(t) \/ Cancelled(t)

Spec == Init /\ [][Next]_vars

----------------------------------------------------------------------------
(* Properties *)

CallRecord == [ask : Asks, at : DOMAIN Chain, tries : 0..MaxRetries]

TypeOK ==
  /\ call \in [Tasks -> {Idle} \cup CallRecord]
  /\ link \in [Links -> Left]
  /\ lastSuccessful \in Links \cup {None}
  /\ lastDialect \in SchemaReceipt \cup {None}
  /\ tripped \subseteq Links

Succeeded == returned.task # None /\ returned.ok

\* The receipt read after a text call is what the link that served THIS call
\* left for it, and None where that link got no schema, however many links
\* failed first and whoever else uses chain and links.
ReceiptFromServer ==
  Succeeded /\ returned.ask.kind # "tools" =>
    returned.receipt = (IF CarriesTo(returned.ask, returned.served) THEN returned.took ELSE None)

\* model, cached tokens, fingerprint and served model are those of the link and
\* the response that served this call, never of a link that failed before.
ServerNamed == Succeeded => returned.model = returned.served /\ returned.stamp = returned.said

Pending == [t \in Tasks |-> IF call[t] = Idle THEN <<>> ELSE <<call[t].ask>>]

SeenByCaller ==
  IF returned.task = None THEN returned
  ELSE IF ~returned.ok THEN [task |-> returned.task, ok |-> FALSE]
  ELSE [task |-> returned.task, ok |-> TRUE,
        receipt |-> IF returned.ask.kind = "tools" THEN None ELSE returned.receipt,
        stamp |-> returned.stamp, said |-> returned.said]

\* A receipt is promised only of a structured call whose form the chain
\* announces; of any other call None is the truth.
TrueReceipts(a) ==
  IF a.kind = "structured" /\ SchemaDialect(a.form) = ChainDialect
    THEN UNION {LinkReceipts(a, b) : b \in Links} ELSE {None}

Channel ==
  INSTANCE CallChannel WITH
    open <- Pending,
    returned <- SeenByCaller,
    Receipts <- [a \in Asks |-> TrueReceipts(a)]

\* Over links that keep the promise of CallChannel the chain keeps it too, so a
\* chain may be a link of a chain.  (The receipt read after a tool call is left
\* out: the code clears it before the await only.)
ImplementsChannel == Channel!Spec
=============================================================================

---------------------------- MODULE ToolDialogue ----------------------------
(***************************************************************************)
(* A conversation with tools, kept by the host in OpenAI's message format  *)
(* and served turn by turn by whichever provider the chain reaches:        *)
(* chat_with_tools converts the whole history into the provider's form     *)
(* (_convert_messages of Anthropic, Bedrock and Gemini; OpenAI and Groq    *)
(* pass it on) and the answer back into a message, whose tool calls are    *)
(* the structured ones or, without any, those the model wrote into its     *)
(* text (tool_parsing.py).                                                 *)
(*                                                                         *)
(* A text is named by its place in the conversation, a call by its place   *)
(* and its rank; arguments and results are not told apart.                 *)
(***************************************************************************)
EXTENDS Naturals, SequencesExt

CONSTANTS
  Providers,   \* the providers of the chain
  Functions,   \* the functions a model may call
  Offers,      \* the sets of functions the host offers as tools
  Answers,     \* what a provider answers: sequences of parts
  MaxMessages  \* bound: the length of the conversation

Provider == {"openai", "anthropic", "bedrock", "gemini"}

\* A written call stands alone on its line, in one of the three formats.
Part ==
  [kind : {"text", "thinking"}]
    \cup [kind : {"call"}, fn : Functions]
    \cup [kind : {"tags", "json", "bracket"}, fn : Functions]

ASSUME ProvidersAssumption == Providers \subseteq Provider
ASSUME OffersAssumption == Offers \subseteq SUBSET Functions
ASSUME AnswersAssumption == Answers \subseteq Seq(Part)
ASSUME MaxAssumption == MaxMessages \in Nat

VARIABLES
  messages,  \* the conversation
  request,   \* the request a provider is answering, or NoRequest
  answered   \* history: the answer that just became the last message

vars == <<messages, request, answered>>

NoRequest == [by |-> "nobody", turns |-> <<>>, offer |-> {}]
NoAnswer == [parts |-> <<>>, offer |-> {}]

Empty == 0   \* the empty text

----------------------------------------------------------------------------
(* What a message becomes: blocks of a provider's turn *)

Text(m) == [type |-> "text", text |-> m.text]
Uses(m) == [i \in DOMAIN m.calls |->
              [type |-> "use", id |-> m.calls[i].id, fn |-> m.calls[i].fn, of |-> m.calls[i].of]]
Result(m) == [type |-> "result", id |-> m.id, of |-> m.of]

\* Anthropic: a message that calls nothing stays a plain string, even an empty one.
AnthropicBlocks(m) ==
  IF m.role = "system" THEN <<>>
  ELSE IF m.calls = <<>> THEN <<[type |-> "string", text |-> m.text]>>
  ELSE IF m.text = Empty THEN Uses(m)
  ELSE <<Text(m)>> \o Uses(m)

\* Mutant: the text is left out beside tool calls.
BedrockBlocks_callsOnly(m) ==
  IF m.role = "system" THEN <<>>
  ELSE IF m.text = Empty \/ m.calls # <<>> THEN Uses(m)
  ELSE <<Text(m)>>

\* Bedrock: a message that says nothing and calls nothing is left out.
BedrockBlocks(m) ==
  IF m.role = "system" THEN <<>>
  ELSE IF m.text = Empty THEN Uses(m)
  ELSE <<Text(m)>> \o Uses(m)

\* Gemini: the text beside tool calls is left out.
GeminiBlocks(m) ==
  IF m.role = "system" THEN <<>>
  ELSE IF m.calls = <<>> THEN <<Text(m)>>
  ELSE Uses(m)

Calls == UNION {ToSet(messages[i].calls) : i \in DOMAIN messages}

\* Mutant: the first call of an id names it.
NameOf_first(id) ==
  LET named == {c \in Calls : c.id = id}
  IN IF named = {} THEN "tool_result"
     ELSE (CHOOSE c \in named : \A d \in named : c.of[1] <= d.of[1]).fn

\* Gemini's id_to_name: a later call of the same id replaces an earlier one.
NameOf(id) ==
  LET named == {c \in Calls : c.id = id}
  IN IF named = {} THEN "tool_result"
     ELSE (CHOOSE c \in named : \A d \in named : d.of[1] <= c.of[1]).fn

NamedResult(m) == [type |-> "result", fn |-> NameOf(m.id), of |-> m.of]

----------------------------------------------------------------------------
(* The conversion of a history *)

AddBlock(turns, b) == [turns EXCEPT ![Len(turns)].blocks = Append(@, b)]

\* Mutant: a result joins no turn.
Results_never(turn) == FALSE

\* A user turn of which every block is a tool result.
Results(turn) ==
  turn.role = "user" /\ \A i \in DOMAIN turn.blocks : turn.blocks[i].type = "result"

\* A user turn that is a list of blocks.
Listed(turn) ==
  turn.role = "user" /\ \A i \in DOMAIN turn.blocks : turn.blocks[i].type # "string"

Joins(p, turn) == (p = "anthropic" /\ Listed(turn)) \/ (p = "bedrock" /\ Results(turn))

Blocks(p, m) ==
  IF p = "anthropic" THEN AnthropicBlocks(m)
  ELSE IF p = "bedrock" THEN BedrockBlocks(m)
  ELSE GeminiBlocks(m)

ResultOf(p, m) == IF p = "gemini" THEN NamedResult(m) ELSE Result(m)

\* The turns with one more message.
After(p, turns, m) ==
  IF m.role = "tool"
  THEN IF turns # <<>> /\ Joins(p, Last(turns)) THEN AddBlock(turns, ResultOf(p, m))
       ELSE Append(turns, [role |-> "user", blocks |-> <<ResultOf(p, m)>>])
  ELSE IF Blocks(p, m) = <<>> THEN turns
  ELSE Append(turns, [role |-> m.role, blocks |-> Blocks(p, m)])

Converted(p) ==
  LET after[n \in 0..Len(messages)] ==
        IF n = 0 THEN <<>> ELSE After(p, after[n - 1], messages[n])
  IN after[Len(messages)]

Turns(p) == IF p = "openai" THEN messages ELSE Converted(p)

----------------------------------------------------------------------------
(* What an answer becomes: a message *)

At(parts, kinds) == {i \in DOMAIN parts : parts[i].kind \in kinds}

Written == {"tags", "json", "bracket"}

\* The places of a set, in order.
InOrder(S) == [n \in 1..Cardinality(S) |-> CHOOSE i \in S : Cardinality({j \in S : j <= i}) = n]

\* The formats, most specific first, each with the written calls its pattern
\* matches: a tagged call is an inline JSON object too.
Formats == <<{"tags"}, {"tags", "json"}, {"bracket"}>>

\* Mutant: every format adds its calls.
Rescued_allFormats(parts, offer) ==
  FlattenSeq([f \in DOMAIN Formats |->
    InOrder({i \in At(parts, Formats[f]) : parts[i].fn \in offer})])

\* The calls written in the text, of the first format that has one of an
\* offered tool.
Rescued(parts, offer) ==
  LET found(f) == {i \in At(parts, Formats[f]) : parts[i].fn \in offer}
      hit == {f \in DOMAIN Formats : found(f) # {}}
  IN IF hit = {} THEN <<>>
     ELSE InOrder(found(CHOOSE f \in hit : \A g \in hit : f <= g))

\* Mutant: the ids of a response's calls are all one.
IdOf_constant(p, i) == <<Len(messages) + 1, 1>>

\* Gemini gives no ids: a call's is its part's number.  All others are unique,
\* those of rescued calls too.
IdOf(p, i) == IF p = "gemini" THEN <<i>> ELSE <<Len(messages) + 1, i>>

Called(p, parts, places) ==
  [k \in DOMAIN places |->
     [id |-> IdOf(p, places[k]), fn |-> parts[places[k]].fn, of |-> <<Len(messages) + 1, k>>]]

Reply(p, parts, offer) ==
  LET structured == InOrder(At(parts, {"call"}))
  IN [role  |-> "assistant",
      text  |-> IF At(parts, {"text"} \cup Written) = {} THEN Empty ELSE Len(messages) + 1,
      calls |-> IF structured # <<>> THEN Called(p, parts, structured)
                ELSE Called("rescue", parts, Rescued(parts, offer))]

----------------------------------------------------------------------------
(* The host and the chain *)

Says(role, text) == [role |-> role, text |-> text, calls |-> <<>>]

Resolved == {messages[i].of : i \in {j \in DOMAIN messages : messages[j].role = "tool"}}

Unresolved == {c \in Calls : c.of \notin Resolved}

MayGrow == request = NoRequest /\ Len(messages) < MaxMessages

LastRole == IF messages = <<>> THEN "nobody" ELSE Last(messages).role

UserSays ==
  /\ MayGrow
  /\ LastRole \in {"nobody", "system", "assistant"}
  /\ Unresolved = {}
  /\ messages' = Append(messages, Says("user", Len(messages) + 1))
  /\ answered' = NoAnswer
  /\ UNCHANGED request

\* The host feeds back the result of a call, in the order its tools end.
ToolEnds ==
  /\ MayGrow
  /\ \E c \in Unresolved :
       messages' = Append(messages, [role |-> "tool", id |-> c.id, of |-> c.of, calls |-> <<>>])
  /\ answered' = NoAnswer
  /\ UNCHANGED request

\* The next link of the chain is tried, with the same messages.
ChatWithTools(p) ==
  /\ MayGrow
  /\ LastRole \in {"user", "tool"}
  /\ Unresolved = {}
  /\ \E offer \in Offers : request' = [by |-> p, turns |-> Turns(p), offer |-> offer]
  /\ answered' = NoAnswer
  /\ UNCHANGED messages

Answered ==
  /\ request # NoRequest
  /\ \E parts \in Answers :
       /\ messages' = Append(messages, Reply(request.by, parts, request.offer))
       /\ answered' = [parts |-> parts, offer |-> request.offer]
  /\ request' = NoRequest

Raises ==
  /\ request # NoRequest
  /\ request' = NoRequest
  /\ answered' = NoAnswer
  /\ UNCHANGED messages

----------------------------------------------------------------------------
Init ==
  /\ messages \in {<<>>, <<Says("system", 1)>>}
  /\ request = NoRequest
  /\ answered = NoAnswer

Next == UserSays \/ ToolEnds \/ Answered \/ Raises \/ \E p \in Providers : ChatWithTools(p)

Spec == Init /\ [][Next]_vars

----------------------------------------------------------------------------
(* Properties *)

By(p) == request.by = p

Adjacent(turns) == {i \in DOMAIN turns : i > 1 /\ turns[i].role = turns[i - 1].role}

\* Anthropic and Bedrock refuse consecutive turns of one role
\* (anthropic_backend.py:167-168, bedrock_backend.py:175-177): however many results
\* a turn of parallel calls has, the roles alternate.  Bedrock's exception is a
\* reply that said and called nothing, which is left out from between two turns.
TurnsAlternate ==
  LET silent == {i \in DOMAIN messages :
                   messages[i].role = "assistant" /\ messages[i].text = Empty
                   /\ messages[i].calls = <<>>}
  IN /\ By("anthropic") => Adjacent(request.turns) = {}
     /\ By("bedrock") => Cardinality(Adjacent(request.turns)) = Cardinality(silent)

BlocksOf(turn, type) == {b \in ToSet(turn.blocks) : b.type = type}

Ids(blocks) == {<<b.id, b.of>> : b \in blocks}

\* Every turn of tool calls is followed by one turn that holds the results of
\* exactly these calls, whatever providers the conversation went through and in
\* whatever order the tools ended; no id stands for two calls of a turn.
ResultsMeetCalls ==
  By("anthropic") \/ By("bedrock") =>
    \A i \in DOMAIN request.turns :
      LET uses == BlocksOf(request.turns[i], "use")
          next == IF i = Len(request.turns) THEN {} ELSE BlocksOf(request.turns[i + 1], "result")
      IN /\ Ids(uses) = Ids(next)
         /\ \A u, v \in uses : u.id = v.id => u = v

\* The words of a block, of a sequence of turns and of a message: its text, if it
\* has one, its calls and its result, in order.
Words(b) ==
  IF b.type \in {"use", "result"} THEN <<<<b.type, b.of>>>>
  ELSE IF b.text = Empty THEN <<>>
  ELSE <<<<"text", b.text>>>>

TurnWords(turn) == FlattenSeq([i \in DOMAIN turn.blocks |-> Words(turn.blocks[i])])

AllWords(turns) == FlattenSeq([i \in DOMAIN turns |-> TurnWords(turns[i])])

Spoken(m, withCalls) ==
  IF m.role = "system" THEN <<>>
  ELSE IF m.role = "tool" THEN <<<<"result", m.of>>>>
  ELSE (IF m.text # Empty /\ (m.calls = <<>> \/ withCalls) THEN <<<<"text", m.text>>>> ELSE <<>>)
         \o [i \in DOMAIN m.calls |-> <<"use", m.calls[i].of>>]

\* Nothing of the conversation is lost, repeated or reordered by a conversion,
\* but, by Gemini's, the text that came with tool calls.
ConversationKept ==
  request.by \in {"anthropic", "bedrock", "gemini"} =>
    AllWords(request.turns) =
      FlattenSeq([i \in DOMAIN messages |-> Spoken(messages[i], ~By("gemini"))])

\* A reply without a structured call has only calls of offered tools, each written
\* once in its text and made once, though two patterns may match it.
RescuedOnce ==
  answered # NoAnswer /\ At(answered.parts, {"call"}) = {} =>
    LET calls == Last(messages).calls
    IN /\ \A k \in DOMAIN calls : calls[k].fn \in answered.offer
       /\ \A f \in Functions :
            Cardinality({k \in DOMAIN calls : calls[k].fn = f})
              <= Cardinality({i \in At(answered.parts, Written) : answered.parts[i].fn = f})

FnOf(place) == (CHOOSE c \in Calls : c.of = place).fn

WronglyNamed ==
  {b \in UNION {BlocksOf(t, "result") : t \in ToSet(request.turns)} : b.fn # FnOf(b.of)}

\* A tool result goes to Gemini under the name of the function it is the result of,
\* as long as no later answer of Gemini gave the same id to another call.
LatestNamed ==
  By("gemini") =>
    \A b \in WronglyNamed :
      \E c, d \in Calls : c.of = b.of /\ d.id = c.id /\ d.of[1] > c.of[1]

\* A tool result must carry the originating function's name
\* (gemini_backend.py:176-178).
OriginNamed == By("gemini") => WronglyNamed = {}
=============================================================================

------------------------- MODULE MCFallbackBackend -------------------------
(***************************************************************************)
(* A chain of an Ollama link and a nested chain.                           *)
(***************************************************************************)
EXTENDS FallbackBackend

CONSTANTS inner, ollama

MCChain == <<ollama, inner>>

\* Both have a dialect for the open form alone: inner is a chain of a link with
\* native tools and no dialects and of an Ollama link, and says "chain" for it.
MCAnnounces ==
  [b \in Links |-> [form \in AskedForm |->
     IF b = inner /\ DialectFor("ollama", form) # None
       THEN ChainDialect ELSE DialectFor("ollama", form)]]

MCAsks ==
  {[kind |-> "text", form |-> "open"], [kind |-> "tools", form |-> "open"]} \cup
  [kind : {"structured"}, form : SchemaForm]
=============================================================================

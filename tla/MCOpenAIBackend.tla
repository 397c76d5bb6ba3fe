-------------------------- MODULE MCOpenAIBackend --------------------------
(***************************************************************************)
(* OpenAIBackend on small instances: one schema s1 that says itself in     *)
(* both dialects with different digests and one schema s2 that the strict  *)
(* dialect cannot say.                                                     *)
(***************************************************************************)
EXTENDS OpenAIBackend

CONSTANTS s1, s2, d1, d2, d3

MCSentAs ==
  [p \in Schemas \X SchemaDialectName |->
     CASE p = <<s1, "openai_json_schema">> -> d1
       [] p = <<s1, "openai_strict">>      -> d2
       [] p = <<s2, "openai_json_schema">> -> d3
       [] OTHER                            -> Unsayable]

Text(json) == [kind |-> "text", schema |-> s1, form |-> "open", json |-> json, tools |-> FALSE]

Structured(s, form) ==
  [kind |-> "structured", schema |-> s, form |-> form, json |-> TRUE, tools |-> FALSE]

ToolCall(tools) ==
  [kind |-> "tools", schema |-> s1, form |-> "open", json |-> FALSE, tools |-> tools]

\* Both forms of one schema, one that cannot be said, a form without dialect, a
\* plain call and a tool call.
MCAsks ==
  {Text(TRUE), Structured(s1, "open"), Structured(s1, "strict"), Structured(s2, "strict"),
   Structured(s1, "unknown"), ToolCall(TRUE)}
=============================================================================

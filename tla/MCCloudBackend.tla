--------------------------- MODULE MCCloudBackend ---------------------------
(***************************************************************************)
(* Every kind of prefix, with and without a key of the caller's, in        *)
(* environments that hold all keys, none, OpenAI's alone, or all but       *)
(* OpenAI's.                                                               *)
(***************************************************************************)
EXTENDS CloudBackend

\* The variables not in some hold other.
Environment(some, value, other) == [v \in KeyVariables |-> IF v \in some THEN value ELSE other]

MCEnvironments ==
  {Environment({}, "key", "key"), Environment({}, "key", "unset"),
   Environment({"OPENAI_API_KEY"}, "key", "placeholder"),
   Environment({"OPENAI_API_KEY"}, "placeholder", "key")}

MCSettings ==
  [prefix  : {None, "mistral", "openai", "deepseek", "kimi", "anthropic", "groq", "gemini", "bedrock"},
   given   : BOOLEAN,
   timeout : {0},
   steer   : {0},
   env     : MCEnvironments]
=============================================================================

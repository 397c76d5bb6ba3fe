------------------------------ MODULE Factory ------------------------------
(***************************************************************************)
(* factory.py: what a "provider:model" string, an explicit key, a timeout  *)
(* and the environment are made into.  A setting is a record: prefix is    *)
(* what stands before the first colon (None without one), given whether    *)
(* the caller passed a key, timeout the seconds it asked for (0: none), env *)
(* what each key variable holds and steer the seconds of                   *)
(* COGNO_CLOUD_TIMEOUT_S (0 where it is unset or no positive number).      *)
(***************************************************************************)
EXTENDS Naturals, SchemaForms

External == {"openai", "anthropic", "groq", "gemini", "bedrock"}

Compatible ==
  [deepseek   |-> [url |-> "api.deepseek.com", env |-> "DEEPSEEK_API_KEY"],
   moonshot   |-> [url |-> "api.moonshot.cn", env |-> "MOONSHOT_API_KEY"],
   kimi       |-> [url |-> "api.moonshot.cn", env |-> "MOONSHOT_API_KEY"],
   grok       |-> [url |-> "api.x.ai", env |-> "XAI_API_KEY"],
   xai        |-> [url |-> "api.x.ai", env |-> "XAI_API_KEY"],
   openrouter |-> [url |-> "openrouter.ai", env |-> "OPENROUTER_API_KEY"],
   together   |-> [url |-> "api.together.xyz", env |-> "TOGETHER_API_KEY"],
   fireworks  |-> [url |-> "api.fireworks.ai", env |-> "FIREWORKS_API_KEY"]]

Cloud == External \cup DOMAIN Compatible

OwnKeyEnv ==
  [openai |-> "OPENAI_API_KEY", anthropic |-> "ANTHROPIC_API_KEY", groq |-> "GROQ_API_KEY",
   gemini |-> "GEMINI_API_KEY", bedrock |-> "AWS_ACCESS_KEY_ID"]

KeyEnv(provider) ==
  IF provider \in External THEN OwnKeyEnv[provider] ELSE Compatible[provider].env

KeyVariables == {KeyEnv(p) : p \in Cloud}

\* A variable is unset, holds a placeholder ("dummy", "sk-proj-*") or a key.
Held == {"unset", "placeholder", "key"}

\* parse_model_string: no prefix and an unknown one mean a local model.
ParseModelString(prefix) == IF prefix \in Cloud THEN prefix ELSE "ollama"

KeyPresent(s, provider) == s.env[KeyEnv(provider)] = "key"

\* cloud_timeout: a positive number steers, anything else is 30 s.
CloudTimeout(s) ==
  IF s.timeout > 0 THEN s.timeout
  ELSE IF s.steer > 0 THEN s.steer
  ELSE 30

----------------------------------------------------------------------------
(* What is built *)

NoKey == <<>>
Given == <<"given">>

\* os.getenv(var)
FromEnv(s, var) == IF s.env[var] = "unset" THEN NoKey ELSE <<var, s.env[var]>>

Or(key, other) == IF key # NoKey THEN key ELSE other

ApiKey(s) == IF s.given THEN Given ELSE NoKey

Missing == [class |-> "MissingAPIKeyError"]
NotImplemented == [class |-> "NotImplementedError"]

\* Mutant: a compatible provider is not asked for a key.
Unkeyed_externalOnly(s, provider) == provider \in External /\ ~s.given /\ ~KeyPresent(s, provider)

Unkeyed(s, provider) == provider \in Cloud /\ ~s.given /\ ~KeyPresent(s, provider)

Built(class, url, key, timeout) == [class |-> class, url |-> url, key |-> key, timeout |-> timeout]

\* create_backend.  A compatible provider is an OpenAIBackend, which falls back on
\* OpenAI's own variable if it is given no key; Bedrock takes no explicit key.
CreateBackend(s) ==
  LET p == ParseModelString(s.prefix)
      own == Or(ApiKey(s), FromEnv(s, KeyEnv(p)))
  IN IF Unkeyed(s, p) THEN Missing
     ELSE IF p \in DOMAIN Compatible
       THEN Built("openai", Compatible[p].url, Or(own, FromEnv(s, "OPENAI_API_KEY")), CloudTimeout(s))
     ELSE IF p = "bedrock" THEN Built(p, p, FromEnv(s, KeyEnv(p)), CloudTimeout(s))
     ELSE IF p \in External THEN Built(p, p, own, CloudTimeout(s))
     ELSE Built("ollama", "localhost", NoKey, IF s.timeout > 0 THEN s.timeout ELSE 600)

\* create_embedder: never a provider that the string does not name.
CreateEmbedder(s) ==
  LET p == ParseModelString(s.prefix)
  IN IF Unkeyed(s, p) THEN Missing
     ELSE IF p \in {"openai", "gemini"}
       THEN Built(p, p, Or(ApiKey(s), FromEnv(s, KeyEnv(p))), 120)
     ELSE IF p = "bedrock" THEN Built(p, p, FromEnv(s, KeyEnv(p)), 120)
     ELSE IF p \in Cloud THEN NotImplemented
     ELSE Built("ollama", "localhost", NoKey, 120)
=============================================================================

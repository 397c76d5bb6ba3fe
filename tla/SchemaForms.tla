---------------------------- MODULE SchemaForms ----------------------------
(***************************************************************************)
(* The closed alphabets of structured text calls (schema.py): the forms a  *)
(* caller asks for, the dialects a provider takes them in, and the         *)
(* receipts a call may leave.  Shared by every module about a backend.     *)
(***************************************************************************)

\* Python's None, as an announcement and as a receipt.
None == "None"

\* The receipt of a schema that was asked for and did not travel.
SchemaRefused == "refused"

\* What a chain announces; it is a dialect of no provider.
ChainDialect == "chain"

SchemaForm == {"open", "strict"}

SchemaDialectName == {"openai_strict", "openai_json_schema", "ollama_format"}

SchemaReceipt == SchemaDialectName \cup {SchemaRefused}

SchemaAnnouncement == SchemaDialectName \cup {ChainDialect}

\* Any other string is a form too as far as dialect_for is concerned.
AskedForm == SchemaForm \cup {"unknown"}

\* DIALECT_FOR_FORM and dialect_for: no row means no dialect, and nothing is
\* substituted for it.
DialectFor(family, form) ==
  IF family = "openai" /\ form = "open" THEN "openai_json_schema"
  ELSE IF family = "openai" /\ form = "strict" THEN "openai_strict"
  ELSE IF family = "ollama" /\ form = "open" THEN "ollama_format"
  ELSE None
=============================================================================

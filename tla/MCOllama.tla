------------------------------ MODULE MCOllama ------------------------------
(***************************************************************************)
(* The two objects of ollama.py on small instances: a backend with two     *)
(* schemas the server takes and one the dialect cannot say, and four       *)
(* embeddings at once, of two similarities that run two each.  They share  *)
(* no state and each property is about one of them, so a behaviour moves   *)
(* one and leaves the other as it was built.                               *)
(***************************************************************************)
EXTENDS OllamaBackend, OllamaEmbedder

CONSTANTS s1, s2, s3, d1, d2

VARIABLE object  \* the one that moves

MCSentAs == [s \in Schemas |-> IF s = s1 THEN d1 ELSE IF s = s2 THEN d2 ELSE Unsayable]

MCAsks ==
  {[kind |-> "text", schema |-> s1, form |-> "open"]} \cup
  [kind : {"structured"}, schema : {s1, s2, s3}, form : {"open"}] \cup
  {[kind |-> "structured", schema |-> s1, form |-> "strict"]}

MCInit == Init /\ EmbedderInit /\ object \in {"backend", "embedder"}

MCNext ==
  \/ object = "backend" /\ Next /\ UNCHANGED <<embedderVars, object>>
  \/ object = "embedder" /\ EmbedderNext /\ UNCHANGED <<vars, object>>

MCSpec == MCInit /\ [][MCNext]_<<vars, embedderVars, object>>
=============================================================================

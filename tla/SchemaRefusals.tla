--------------------------- MODULE SchemaRefusals ---------------------------
(***************************************************************************)
(* What one backend instance remembers about schemas its provider refused  *)
(* (SchemaRefusals of schema.py).  The key is the digest of the schema as  *)
(* it was sent; an instance has one model, so the model is left out of it. *)
(***************************************************************************)
EXTENDS Naturals

CONSTANTS
  Digests,          \* digests of schemas as they are sent
  TTL,              \* SCHEMA_REFUSAL_TTL_S
  MaxClock          \* bound on the clock

ASSUME WindowAssumption == TTL \in Nat \ {0} /\ MaxClock \in Nat

VARIABLES
  until,            \* _until; 0 where it has no entry
  clock             \* the injected clock, time.monotonic()

Refused(d) == d \in DOMAIN until /\ clock < until[d]

\* A read that finds the window over deletes the entry.
Lapse(d) == until' = [until EXCEPT ![d] = 0]

Remember(d) == until' = [until EXCEPT ![d] = clock + TTL]

\* Time passes; the bound is MaxClock.
Elapse == clock < MaxClock /\ clock' = clock + 1
=============================================================================

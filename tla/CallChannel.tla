---------------------------- MODULE CallChannel ----------------------------
(***************************************************************************)
(* What a text backend promises to each of the coroutines that share it,   *)
(* had it the per-call return channel base.py says the tuples leave no     *)
(* room for: every call ends once, and what its caller then reads (the     *)
(* schema receipt, the identifiers of the response) is about that call.    *)
(* The backends keep one last-call value per INSTANCE instead and are      *)
(* shown to implement this.                                                *)
(***************************************************************************)
EXTENDS SchemaForms

CONSTANTS
  Tasks,       \* the coroutines that share the instance
  Asks,        \* what a caller may ask for
  Receipts,    \* Receipts[a]: the receipts that are true of some call of a
  Stamps,      \* what a response says of itself
  NoStamp      \* the response said nothing

VARIABLES
  open,        \* open[t]: what t is waiting for
  returned     \* what the caller of the call that just ended reads

chanVars == <<open, returned>>

Waiting == {<<a>> : a \in Asks}

NothingReturned == [task |-> None]

Init ==
  /\ open = [t \in Tasks |-> <<>>]
  /\ returned = NothingReturned

Call(t) ==
  /\ open[t] = <<>>
  /\ \E w \in Waiting : open' = [open EXCEPT ![t] = w]
  /\ returned' = NothingReturned

Close(t) == open[t] \in Waiting /\ open' = [open EXCEPT ![t] = <<>>]

\* The call is answered; the stamp read is the stamp of its own response.
Answer(t) ==
  /\ Close(t)
  /\ \E s \in Stamps \cup {NoStamp} : \E r \in Receipts[open[t][1]] :
       returned' = [task |-> t, ok |-> TRUE, receipt |-> r, stamp |-> s, said |-> s]

\* The call raises; nothing is promised about what could be read.
Raise(t) ==
  /\ Close(t)
  /\ returned' = [task |-> t, ok |-> FALSE]

\* The call raises before it waits for anything.
Reject(t) ==
  /\ open[t] = <<>>
  /\ returned' = [task |-> t, ok |-> FALSE]
  /\ UNCHANGED open

\* The caller read at once, or it never will.
Forget == returned' = NothingReturned /\ UNCHANGED open

Next == Forget \/ \E t \in Tasks : Call(t) \/ Answer(t) \/ Raise(t) \/ Reject(t)

Spec == Init /\ [][Next]_chanVars
=============================================================================

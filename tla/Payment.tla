------------------------------- MODULE Payment -------------------------------
(***************************************************************************)
(* What the relayer promises the caller of POST /submit, with no channels, *)
(* fees, retries or ledgers: a signed invocation takes effect once at most,*)
(* its caller is answered once, "paid" and "unpaid" are said only when they*)
(* are the end of it, and whoever is told neither knows that it is open    *)
(* (src/services/relayer/src/relayer.ts:107-280, main.ts:49-75).           *)
(***************************************************************************)
CONSTANTS
  Calls,
  None          \* "no answer yet"

Fates == {"unsent", "kept", "paid", "failed"}

VARIABLES
  fate,         \* where the invocation of each call stands with the network
  told          \* what its caller was told

vars == <<fate, told>>

Init ==
  /\ fate = [c \in Calls |-> "unsent"]
  /\ told = [c \in Calls |-> None]

\* The network has the transaction of a call that has no answer yet, or may get
\* it yet.  If the caller is answered at the same time, the outcome is open.
Keep(c) ==
  /\ fate[c] = "unsent" /\ fate'[c] = "kept"
  /\ told[c] = None /\ told'[c] \in {None, "open"}

\* A transaction that is kept is decided, or forgotten, or never arrives, told
\* or not.
Settle(c) ==
  /\ fate[c] = "kept" /\ fate'[c] \in {"paid", "failed", "unsent"}
  /\ told'[c] = told[c]

\* The caller is answered, with a definite outcome only when it is final.
Tell(c) ==
  /\ told[c] = None
  /\ \/ told'[c] = "open"
     \/ told'[c] = "paid" /\ fate[c] = "paid"
     \/ told'[c] = "unpaid" /\ fate[c] \in {"unsent", "failed"}
  /\ fate'[c] = fate[c]

Same(c) == fate'[c] = fate[c] /\ told'[c] = told[c]

\* A process that stops answers several calls in one step.
Next ==
  /\ fate' \in [Calls -> Fates]
  /\ told' \in [Calls -> {None, "open", "paid", "unpaid"}]
  /\ \A c \in Calls : Keep(c) \/ Settle(c) \/ Tell(c) \/ Same(c)

Spec == Init /\ [][Next]_vars
=============================================================================

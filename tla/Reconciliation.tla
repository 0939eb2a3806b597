--------------------------- MODULE Reconciliation ---------------------------
(***************************************************************************)
(* What the callers of `reconcile' are promised: the managed Makefile is   *)
(* rewritten by one invocation at a time, from the read that finds the     *)
(* drift to the write that removes it, and nobody edits it in between.     *)
(* How that is achieved, by a lock directory, is the business of           *)
(* SingleFlight.                                                           *)
(***************************************************************************)
CONSTANT Proc

VARIABLES
  inside,    \* the invocations between acquisition and release
  makefile   \* the guarded file

vars == <<inside, makefile>>

Settled == {"current", "drifted", "symlink"}

Init == inside = {} /\ makefile \in Settled

Enter(p) ==
  /\ inside = {}
  /\ inside' = {p}
  /\ UNCHANGED makefile

(* Leaving never changes the file: a killed invocation leaves it partial.  *)
Leave(p) ==
  /\ inside = {p}
  /\ inside' = {}
  /\ UNCHANGED makefile

(* The write is not atomic: the file is truncated, then filled.            *)
Truncate(p) ==
  /\ inside = {p}
  /\ makefile \in {"drifted", "partial"}
  /\ makefile' = "partial"
  /\ UNCHANGED inside

Finish(p) ==
  /\ inside = {p}
  /\ makefile = "partial"
  /\ makefile' = "current"
  /\ inside' = {}

Edit ==
  /\ inside = {}
  /\ makefile' \in Settled
  /\ UNCHANGED inside

Next ==
  \/ \E p \in Proc : Enter(p) \/ Leave(p) \/ Truncate(p) \/ Finish(p)
  \/ Edit

Spec == Init /\ [][Next]_vars
=============================================================================

----------------------------- MODULE MCAgentCheck -----------------------------
(* Model-checking definitions for AgentCheck.                              *)
EXTENDS AgentCheck

OneGate == {<<FALSE>>}

(* Up to three changes under the first check, and one in all if a second   *)
(* check follows.                                                          *)
RerunSpec == Init /\ [][Next /\ (run' > 1 => edits' <= 1)]_vars
=============================================================================

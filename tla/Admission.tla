------------------------------ MODULE Admission ------------------------------
(***************************************************************************)
(* What the enforcement of org-ci.yml is promised by an admission: the     *)
(* phases of a repository succeed one after the other, all by one version  *)
(* of the contract that Core's policy admits; then, in one step, the       *)
(* outputs become acceptable, and nothing runs behind an acceptance.  How  *)
(* this is achieved, with outputs that a kill may cut short, is the        *)
(* business of RepositoryVerification.                                     *)
(***************************************************************************)
EXTENDS Naturals, Sequences

VARIABLES
  policy,   \* what Core's policy resolves for the repository
  done,     \* the phases that have succeeded, in order
  accepted  \* whether the enforcement accepts the outputs as they are

vars == <<policy, done, accepted>>

Phases == <<"setup", "validate", "check", "test">>

Init ==
  /\ policy \in {"migration", "required", "broken"}
  /\ done = << >>
  /\ ~accepted

Succeed(by) ==
  /\ ~accepted
  /\ Len(done) < Len(Phases)
  /\ by \in IF policy = "migration" THEN {"v1", "v2"} ELSE {"v2"}
  /\ policy # "broken"
  /\ \A i \in DOMAIN done : done[i].by = by
  /\ done' = Append(done, [phase |-> Phases[Len(done) + 1], by |-> by])
  /\ UNCHANGED <<policy, accepted>>

(* All phases, or none where the policy tolerates a missing contract.      *)
Accept ==
  /\ ~accepted
  /\ Len(done) = Len(Phases) \/ (policy = "migration" /\ done = << >>)
  /\ accepted' = TRUE
  /\ UNCHANGED <<policy, done>>

Next == Accept \/ \E by \in {"v1", "v2"} : Succeed(by)

Spec == Init /\ [][Next]_vars
=============================================================================

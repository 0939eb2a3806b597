--------------------------- MODULE MCOrgEvaluation ---------------------------
(* Model-checking definitions for OrgEvaluation.                           *)
EXTENDS OrgEvaluation

(* Every way to start a run, against one repository without a contract.    *)
TriggerInit ==
  /\ Init /\ ~generates
  /\ policy = "migration"
  /\ tree = [contract |-> "absent", facade |-> "exact",
             phases |-> Verification!Phase]

(* Every kind of contract; a missing phase and a drifted facade.           *)
AllPhases == {"setup", "validate", "check", "test"}
MCTrees ==
  [contract : {"absent", "v1", "v2", "other"}, facade : {"exact"},
   phases : {AllPhases}]
  \cup [contract : {"v2"}, facade : {"exact"},
        phases : {AllPhases \ {"test"}}]
  \cup [contract : {"v2"}, facade : {"drifted"}, phases : {AllPhases}]

(* A native push, a pull request and a manual release, against every       *)
(* workspace.  A merge group differs from a push by the push check only.   *)
PipelineInit ==
  /\ Init /\ ~generates
  /\ onDefault /\ trigger.event # "merge_group"
  /\ ~trigger.reusable /\ trigger.claim = ""
  /\ trigger.called \in {"", "release"}

(* A native push, with phases that rewrite the files they run from; a V2    *)
(* contract runs alike under both policies.                                *)
RewritingInit ==
  /\ Init /\ generates
  /\ onDefault /\ trigger.event = "push" /\ ~trigger.reusable
  /\ <<policy, tree.contract>> \in {<<"migration", "v1">>, <<"required", "v2">>}
  /\ tree.facade = "exact"
  /\ tree.phases = Verification!Phase

EvaluationSpec ==
  (TriggerInit \/ PipelineInit \/ RewritingInit) /\ [][Next]_vars
=============================================================================

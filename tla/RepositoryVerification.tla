------------------------ MODULE RepositoryVerification ------------------------
(***************************************************************************)
(* The organization admission point for a consumer's execution contract:   *)
(* .github/actions/run-repository-verification/run.py, with the V2         *)
(* admission of tools/l9_repo/contract.py and the V1 bridge of             *)
(* tools/l9_repo/__main__.py.                                              *)
(*                                                                         *)
(* The process decides from Core's policy and from the consumer's tree,    *)
(* runs the phases, and appends five outputs one line at a time.  It exits *)
(* 0 whatever it decided, so the outputs are all its caller can rely on;   *)
(* the job may be cancelled or time out between any two steps.             *)
(***************************************************************************)
EXTENDS Naturals, Sequences

CONSTANT Trees \* bound: the workspaces there may be, members of Tree

Phases == <<"setup", "validate", "check", "test">>
Phase == {"setup", "validate", "check", "test"}

VARIABLES
  policy,    \* what Core's policy resolves for this repository
  generates, \* whether its phases rewrite the files they run from
  tree,      \* the consumer's workspace
  at,        \* where the process stands
  ran,       \* the phases that have succeeded, in order
  verdict,   \* the five values _record writes
  written    \* how many of them are in GITHUB_OUTPUT

vars == <<policy, generates, tree, at, ran, verdict, written>>

(* contract: what .l9/repo-workflow.json holds; "other" stands for every   *)
(*   unreadable, malformed or unrecognised document.                       *)
(* facade: whether Makefile is the generated make-v1 facade.               *)
(* phases: the phases the repository implements, as Repo.mk leaves or as   *)
(*   argv matrices of a V1 contract.                                       *)
Tree == [contract : {"absent", "v1", "v2", "other"},
         facade : {"exact", "drifted"},
         phases : SUBSET Phase]

Policy == {"migration", "required", "broken"}

Verdict == [present : BOOLEAN,
            status : {"pass", "not_applicable", "fail"},
            mode : {"migration", "required", "unresolved"},
            version : {"absent", "v1", "v2", "invalid", "unknown"},
            failure : {"none", "contract", "command", "infrastructure"}]

NoVerdict == [present |-> FALSE, status |-> "fail", mode |-> "unresolved",
              version |-> "unknown", failure |-> "infrastructure"]

Names == <<"present", "status", "mode", "version", "failure">>

Ran == [phase : Phase, by : {"v1", "v2"}, leaf : BOOLEAN]

TypeOK ==
  /\ policy \in Policy
  /\ generates \in BOOLEAN
  /\ tree \in Tree
  /\ at \in {"resolve", "classify", "verify", "v1", "v2", "record", "exited",
             "killed"}
  /\ ran \in Seq(Ran) /\ Len(ran) <= Len(Phases)
  /\ verdict \in Verdict
  /\ written \in 0..Len(Names)

Init ==
  /\ policy \in Policy
  /\ generates \in BOOLEAN
  /\ tree \in Trees
  /\ at = "resolve"
  /\ ran = << >>
  /\ verdict = NoVerdict
  /\ written = 0

-----------------------------------------------------------------------------
Judge(present, status, version, failure) ==
  /\ verdict' = [present |-> present,
                 status |-> status,
                 mode |-> IF policy = "broken" THEN "unresolved" ELSE policy,
                 version |-> version,
                 failure |-> failure]
  /\ at' = "record"

(* A judgement once the contract has been read.                            *)
Decide(status, version, failure) == Judge(TRUE, status, version, failure)

NextPhase == Phases[Len(ran) + 1]

(* A phase is the repository's own code: it may leave another tree behind, *)
(* but no phase removes the workspace it runs in.                          *)
Rewrites == IF generates THEN Trees ELSE {tree}

(* A plausible wrong version of the definition below.                      *)
PhaseEndsIgnoringTests(by, leaf) ==
  /\ tree' \in Rewrites
  /\ \/ /\ Len(ran) < Len(Phases) - 1
        /\ ran' = Append(ran, [phase |-> NextPhase, by |-> by, leaf |-> leaf])
        /\ UNCHANGED <<at, verdict>>
     \/ /\ Len(ran) = Len(Phases) - 1
        /\ Decide("pass", by, "none") /\ UNCHANGED ran
     \/ Decide("fail", by, "command") /\ UNCHANGED ran

(* How `make <phase>' or a V1 command ends: exit 0, another exit status,   *)
(* or an OSError of subprocess.run.                                        *)
PhaseEnds(by, leaf) ==
  /\ tree' \in Rewrites
  /\ \/ /\ ran' = Append(ran, [phase |-> NextPhase, by |-> by, leaf |-> leaf])
        /\ IF Len(ran') = Len(Phases)
           THEN Decide("pass", by, "none")
           ELSE UNCHANGED <<at, verdict>>
     \/ Decide("fail", by, "command") /\ UNCHANGED ran
     \/ Decide("fail", by, "infrastructure") /\ UNCHANGED ran

-----------------------------------------------------------------------------
(* A plausible wrong version of the action below.                          *)
VerifyContractOnly ==
  /\ at = "verify"
  /\ at' = "v2"
  /\ UNCHANGED <<policy, generates, tree, ran, verdict, written>>

-----------------------------------------------------------------------------
(* load_policy and resolve_mode, then the test for the contract file.      *)
Resolve ==
  /\ at = "resolve"
  /\ \/ /\ policy = "broken"
        /\ Judge(tree.contract # "absent", "fail", "unknown", "infrastructure")
     \/ /\ policy = "migration" /\ tree.contract = "absent"
        /\ Judge(FALSE, "not_applicable", "absent", "none")
     \/ /\ policy = "required" /\ tree.contract = "absent"
        /\ Judge(FALSE, "fail", "absent", "contract")
     \/ /\ policy # "broken" /\ tree.contract # "absent"
        /\ at' = "classify"
        /\ UNCHANGED verdict
  /\ UNCHANGED <<policy, generates, tree, ran, written>>

(* classify_contract: a `schema' key is judged as V2 only; V1 is admitted  *)
(* in migration mode only.                                                 *)
Classify ==
  /\ at = "classify"
  /\ \/ /\ tree.contract = "v2"
        /\ at' = "verify"
        /\ UNCHANGED verdict
     \/ /\ tree.contract = "v1" /\ policy = "migration"
        /\ at' = "v1"
        /\ UNCHANGED verdict
     \/ /\ tree.contract = "v1" /\ policy = "required"
        /\ Decide("fail", "v1", "contract")
     \/ /\ tree.contract = "other"
        /\ Decide("fail", "invalid", "contract")
  /\ UNCHANGED <<policy, generates, tree, ran, written>>

(* verify_v2: the contract again, the facade byte for byte, the Repo.mk    *)
(* ABI; once, before any phase.  A file that cannot be read is not a       *)
(* ContractError.                                                          *)
Verify ==
  /\ at = "verify"
  /\ \/ /\ tree.facade = "exact" /\ tree.phases = Phase
        /\ at' = "v2"
        /\ UNCHANGED verdict
     \/ /\ tree.facade # "exact" \/ tree.phases # Phase
        /\ Decide("fail", "v2", "contract")
     \/ Decide("fail", "v2", "infrastructure")
  /\ UNCHANGED <<policy, generates, tree, ran, written>>

(* run_v2: `make <phase>' from whatever the workspace now holds.           *)
RunV2 ==
  /\ at = "v2"
  /\ PhaseEnds("v2", tree.facade = "exact" /\ NextPhase \in tree.phases)
  /\ UNCHANGED <<policy, generates, written>>

(* A plausible wrong version of the action below.                          *)
RunV1Dispatching ==
  /\ at = "v1"
  /\ \/ /\ tree.contract = "v1" /\ NextPhase \in tree.phases
        /\ PhaseEnds("v1", TRUE)
     \/ /\ tree.contract = "v2"
        /\ PhaseEnds("v2", tree.facade = "exact" /\ NextPhase \in tree.phases)
     \/ /\ tree.contract \notin {"v1", "v2"} \/ NextPhase \notin tree.phases
        /\ Decide("fail", "v1", "contract")
        /\ UNCHANGED <<tree, ran>>
  /\ UNCHANGED <<policy, generates, written>>

(* RepositoryWorkflow.invoke reads the contract again in every phase.      *)
RunV1 ==
  /\ at = "v1"
  /\ \/ /\ tree.contract = "v1" /\ NextPhase \in tree.phases
        /\ PhaseEnds("v1", TRUE)
     \/ /\ tree.contract # "v1" \/ NextPhase \notin tree.phases
        /\ Decide("fail", "v1", "contract")
        /\ UNCHANGED <<tree, ran>>
  /\ UNCHANGED <<policy, generates, written>>

(* RepositoryWorkflow._ensure_repository_root, before each V1 phase.       *)
RefuseRoot ==
  /\ at = "v1"
  /\ \E failure \in {"contract", "infrastructure"} :
       Decide("fail", "v1", failure)
  /\ UNCHANGED <<policy, generates, tree, ran, written>>

(* One _write_output of _record; after the last one the process exits 0.   *)
Record ==
  /\ at = "record"
  /\ written' = written + 1
  /\ at' = IF written' = Len(Names) THEN "exited" ELSE at
  /\ UNCHANGED <<policy, generates, tree, ran, verdict>>

(* The job is cancelled or times out.                                      *)
Kill ==
  /\ at \notin {"exited", "killed"}
  /\ at' = "killed"
  /\ UNCHANGED <<policy, generates, tree, ran, verdict, written>>

Next ==
  \/ Resolve \/ Classify \/ Verify
  \/ RunV2 \/ RunV1 \/ RefuseRoot \/ Record \/ Kill

Spec == Init /\ [][Next]_vars

-----------------------------------------------------------------------------
(* What a later step of the job reads; "" for an output never written.     *)
Output(name) ==
  IF \E i \in 1..written : Names[i] = name THEN verdict[name] ELSE ""

(* Enforce repository verification, on the mode and the status it reads.   *)
Accepts ==
  <<Output("mode"), Output("status")>> \in
    {<<"migration", "pass">>, <<"migration", "not_applicable">>,
     <<"required", "pass">>}

-----------------------------------------------------------------------------
(* Properties.                                                             *)

Done == [i \in DOMAIN ran |-> ran[i].phase]

(* All four phases succeeded in order, not through the V1 bridge in a      *)
(* repository enrolled in `required', and each reached the repository's    *)
(* implementation that was verified before all of them, unless they        *)
(* rewrite it themselves; or Core's policy tolerates a missing contract.   *)
Verified ==
  \/ Done = Phases /\ \A i \in DOMAIN ran :
       (policy = "required" => ran[i].by = "v2") /\ (generates \/ ran[i].leaf)
  \/ policy = "migration" /\ tree.contract = "absent" /\ ran = << >>
=============================================================================

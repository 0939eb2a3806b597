---------------------------- MODULE OrgEvaluation ----------------------------
(***************************************************************************)
(* One evaluation of one revision: job `analyze' of                        *)
(* .github/workflows/org-ci.yml, with the runtime-class resolution, the    *)
(* governance step and the repository verification it runs.                *)
(*                                                                         *)
(* The steps run in order.  A step whose condition names no status check   *)
(* runs only while nothing has failed and the job is not cancelled; the    *)
(* `always()' steps run regardless.  Any step may fail, the job may be     *)
(* cancelled or time out in any step, and the runner may be lost.          *)
(***************************************************************************)
EXTENDS Naturals, Sequences

VARIABLES
  trigger,    \* how the run was started
  onDefault,  \* whether the ref is the repository's default branch
  step,       \* number of the current step; 0 before the job
  class,      \* outputs.event-class of step runtime, "" if not written
  profile,    \* outputs.profile of step runtime
  mode,       \* outputs.mode of step gov
  language,   \* outputs.language of step language
  gate,       \* outputs.gate-status of step gate
  uploaded,   \* whether the artifact set is in the store
  handoff,    \* whether the descriptor of the set was written
  outcome,    \* [step name -> its outcome]
  ended,      \* "no", or how the job ended
  cancelled   \* whether cancellation was requested or the timeout passed

CONSTANT Trees \* bound: the workspaces a consumer may check out or generate

VARIABLES policy, generates, tree, at, ran, verdict, written
Verification == INSTANCE RepositoryVerification

ASSUME TreesAssumption == Trees \subseteq Verification!Tree

outputs == <<class, profile, mode, language, gate>>
verification == <<policy, generates, tree, at, ran, verdict, written>>
vars == <<trigger, onDefault, step, outputs, uploaded, handoff, outcome, ended,
          cancelled, verification>>

-----------------------------------------------------------------------------
Class ==
  {"pull_request", "push", "merge", "nightly", "release", "supply_chain"}
Profile == {"pr_fast", "merge", "nightly", "release", "supply_chain"}
Event ==
  {"push", "pull_request", "merge_group", "workflow_dispatch", "schedule"}
Mode == {"blocking", "advisory", "shadow", "disabled"}
Bogus == "bogus"     \* an input value that names nothing

(* A native run has no inputs; a manual one chooses its class from a list; *)
(* a reusable invocation keeps the event of its caller, and may name none. *)
Trigger ==
  [event : {"push", "pull_request", "merge_group"},
   reusable : {FALSE}, called : {""}, claim : {""}]
  \cup
  [event : {"workflow_dispatch"}, reusable : {FALSE},
   called : {"nightly", "release", "supply_chain"},
   claim : Profile \cup {"", Bogus}]
  \cup
  [event : Event, reusable : {TRUE}, called : Class \cup {"", Bogus},
   claim : Profile \cup {"", Bogus}]

(* allowed_events of execution-profiles.yaml.                              *)
AllowedEvents ==
  [p \in Profile |-> CASE p = "pr_fast" -> {"pull_request"}
                       [] p = "merge"   -> {"push", "merge"}
                       [] OTHER         -> {p}]

(* The table `fixed' with its fallback; the table `native', and the class  *)
(* of a dispatch that asks for none.                                       *)
Expected(c) == CASE c = "pull_request" -> "pr_fast"
                 [] c \in {"push", "merge"} -> "merge"
                 [] OTHER -> c

NativeClass(e) == CASE e = "merge_group" -> "merge"
                    [] e = "workflow_dispatch" -> "nightly"
                    [] OTHER -> e

(* Consecutive steps with one condition that only succeed or fail are one. *)
Steps == <<"runtime", "checkout", "push", "metadata", "governance", "waivers",
           "provision", "biome", "cache", "verification", "inventory",
           "analysis", "gate", "package", "upload", "handoff", "summary",
           "enforceVerification", "enforceGate">>
StepName == {Steps[i] : i \in DOMAIN Steps}

At(s) == step \in DOMAIN Steps /\ Steps[step] = s

TypeOK ==
  /\ Verification!TypeOK
  /\ trigger \in Trigger /\ onDefault \in BOOLEAN
  /\ step \in 0..Len(Steps) + 1
  /\ class \in Class \cup {""}
  /\ profile \in Profile \cup Class \cup {"", Bogus}
  /\ mode \in Mode \cup {""}
  /\ language \in {"", "some", "none"}
  /\ gate \in {"", "pass", "fail", "incomplete"}
  /\ uploaded \in BOOLEAN /\ handoff \in BOOLEAN
  /\ outcome \in [StepName -> {"pending", "success", "failure", "skipped",
                               "cancelled"}]
  /\ ended \in {"no", "success", "failure", "cancelled", "skipped"}
  /\ cancelled \in BOOLEAN

Init ==
  /\ Verification!Init
  /\ trigger \in Trigger
  /\ onDefault \in BOOLEAN
  /\ step = 0
  /\ class = "" /\ profile = "" /\ mode = "" /\ language = "" /\ gate = ""
  /\ uploaded = FALSE /\ handoff = FALSE
  /\ outcome = [s \in StepName |-> "pending"]
  /\ ended = "no"
  /\ cancelled = FALSE

-----------------------------------------------------------------------------
(* Step conditions.                                                        *)

Failed == {s \in StepName : outcome[s] = "failure"}
Success == Failed = {} /\ ~cancelled
Enabled == mode \in Mode \ {"disabled"}
Analysed == Enabled /\ language # "none"

Analysis == {"analysis", "gate", "package", "upload", "handoff", "enforceGate"}

(* The profiles whose repository verification is enforced.                 *)
Enforcing == {"pr_fast", "merge"}

(* A plausible wrong version of the definition below.                      *)
AlwaysWithoutEnforcement(s) ==
  CASE s \in {"inventory", "summary"} -> s = "summary"
    [] s = "enforceVerification" -> Success /\ profile \in Enforcing
    [] s = "push" -> Success /\ trigger.event = "push"
    [] s = "provision" -> Success /\ Enabled
    [] s \in Analysis -> Success /\ Analysed
    [] OTHER -> Success

(* The `if' of a step.                                                     *)
Condition(s) ==
  CASE s = "summary" -> TRUE
    [] s = "inventory" -> outcome["cache"] = "success"
    [] s = "enforceVerification" -> profile \in Enforcing
    [] s = "push" -> Success /\ trigger.event = "push"
    [] s = "provision" -> Success /\ Enabled
    [] s \in Analysis -> Success /\ Analysed
    [] OTHER -> Success

Always == {"inventory", "summary", "enforceVerification"}

-----------------------------------------------------------------------------
(* Step ends with the given outcome and the next one is considered.        *)
Finish(s, how) ==
  /\ outcome' = [outcome EXCEPT ![s] = how]
  /\ step' = step + 1

Due(s) == At(s) /\ Condition(s)
Idle == UNCHANGED <<trigger, onDefault, ended, cancelled>>

(* The job's `if': only a native push is narrowed to the default branch.   *)
Admit ==
  /\ step = 0 /\ ended = "no"
  /\ IF trigger.event # "push" \/ trigger.called # "" \/ onDefault
     THEN step' = 1 /\ UNCHANGED ended
     ELSE ended' = "skipped" /\ UNCHANGED step
  /\ UNCHANGED <<trigger, onDefault, outputs, uploaded, handoff, outcome,
                 cancelled, verification>>

(* Resolve central runtime class: the admissible <<class, profile>>.       *)
(* Where the table of native events decides, a claim is not looked at.     *)
Resolved ==
  LET t == trigger
      Or(value, default) == IF value = "" THEN default ELSE value
      c == IF t.called # "" THEN t.called ELSE NativeClass(t.event)
      p == CASE t.event = "workflow_dispatch" -> Or(t.claim, c)
             [] t.event # "workflow_dispatch" /\ t.called # "" -> Or(t.claim, Expected(c))
             [] t.event # "workflow_dispatch" /\ t.called = "" -> Expected(c)
  IN  {r \in {<<c, p>>} :
         c \in Class /\ (t.event # "workflow_dispatch" => p = Expected(c))}

(* A malformed matrix id, revision, version or retention also fails it.    *)
Runtime ==
  /\ Due("runtime")
  /\ \/ \E r \in Resolved :
          class' = r[1] /\ profile' = r[2] /\ Finish("runtime", "success")
     \/ Finish("runtime", "failure") /\ UNCHANGED <<class, profile>>
  /\ UNCHANGED <<mode, language, gate, uploaded, handoff, verification>>
  /\ Idle

(* A step without outputs that any later step reads.                       *)
Work(s) ==
  /\ s \in {"checkout", "metadata", "waivers", "biome", "cache", "inventory",
            "analysis", "package", "summary"}
  /\ Due(s)
  /\ Finish(s, "success") \/ Finish(s, "failure")
  /\ UNCHANGED <<outputs, uploaded, handoff, verification>> /\ Idle

(* Validate native push event context.                                     *)
CheckPush ==
  /\ Due("push")
  /\ Finish("push", IF class = "push" THEN "success" ELSE "failure")
  /\ UNCHANGED <<outputs, uploaded, handoff, verification>> /\ Idle

(* A plausible wrong version of the action below.                          *)
GovernIgnoringEvent ==
  /\ Due("governance")
  /\ \/ /\ profile \in Profile
        /\ mode' \in Mode
        /\ Finish("governance", "success")
     \/ Finish("governance", "failure") /\ UNCHANGED mode
  /\ UNCHANGED <<class, profile, language, gate, uploaded, handoff,
                 verification>> /\ Idle

(* Resolve central governance: the profile must exist and admit the event; *)
(* which mode the control documents give it is Core's policy.  Defective   *)
(* documents, an expired waiver or a disabled required provider fail it;   *)
(* the digest fails it when the mode has been written already.             *)
Govern ==
  /\ Due("governance")
  /\ \/ /\ profile \in Profile /\ class \in AllowedEvents[profile]
        /\ mode' \in Mode
        /\ Finish("governance", "success") \/ Finish("governance", "failure")
     \/ Finish("governance", "failure") /\ UNCHANGED mode
  /\ UNCHANGED <<class, profile, language, gate, uploaded, handoff,
                 verification>> /\ Idle

(* Provision the SDK and detect the language with it.                      *)
Provision ==
  /\ Due("provision")
  /\ \/ language' \in {"some", "none"} /\ Finish("provision", "success")
     \/ Finish("provision", "failure") /\ UNCHANGED language
  /\ UNCHANGED <<class, profile, mode, gate, uploaded, handoff,
                 verification>> /\ Idle

(* Run repository verification contract: one step of the admission process *)
(* while it runs; the step succeeds whatever the verdict.                  *)
Verify ==
  /\ Due("verification")
  /\ at # "exited"
  /\ \/ Verification!Resolve \/ Verification!Classify \/ Verification!Verify
     \/ Verification!RunV2 \/ Verification!RunV1 \/ Verification!RefuseRoot
     \/ Verification!Record
  /\ UNCHANGED <<step, outcome, outputs, uploaded, handoff>> /\ Idle

FinishVerification ==
  /\ Due("verification")
  /\ \/ at = "exited" /\ Finish("verification", "success")
     \/ at = "resolve" /\ Finish("verification", "failure")  \* not started
  /\ UNCHANGED <<outputs, uploaded, handoff, verification>> /\ Idle

(* A plausible wrong version of the action below.                          *)
EvaluateFailingFast ==
  /\ Due("gate")
  /\ \/ gate' = "pass" /\ Finish("gate", "success")
     \/ gate' \in {"fail", "incomplete"}
        /\ Finish("gate", IF mode = "blocking" THEN "failure" ELSE "success")
     \/ Finish("gate", "failure") /\ UNCHANGED gate
  /\ UNCHANGED <<class, profile, mode, language, uploaded, handoff,
                 verification>> /\ Idle

(* Evaluate SDK technical gate: exit 0, 1, 6, or any other.                *)
Evaluate ==
  /\ Due("gate")
  /\ \/ gate' \in {"pass", "fail", "incomplete"} /\ Finish("gate", "success")
     \/ Finish("gate", "failure") /\ UNCHANGED gate
  /\ UNCHANGED <<class, profile, mode, language, uploaded, handoff,
                 verification>> /\ Idle

(* Upload analysis artifact set; it may fail after the set is stored.      *)
Upload ==
  /\ Due("upload")
  /\ \/ uploaded' = TRUE /\ Finish("upload", "success")
     \/ uploaded' \in BOOLEAN /\ Finish("upload", "failure")
  /\ UNCHANGED <<outputs, handoff, verification>> /\ Idle

Describe ==
  /\ Due("handoff")
  /\ \/ handoff' = TRUE /\ Finish("handoff", "success")
     \/ Finish("handoff", "failure") /\ UNCHANGED handoff
  /\ UNCHANGED <<outputs, uploaded, verification>> /\ Idle

(* Enforce repository verification.                                        *)
EnforceVerification ==
  /\ Due("enforceVerification")
  /\ Finish("enforceVerification",
            IF Verification!Accepts THEN "success" ELSE "failure")
  /\ UNCHANGED <<outputs, uploaded, handoff, verification>> /\ Idle

(* A plausible wrong version of the action below.                          *)
EnforceFailuresOnly ==
  /\ Due("enforceGate")
  /\ Finish("enforceGate", IF gate = "fail" /\ mode = "blocking"
                           THEN "failure" ELSE "success")
  /\ UNCHANGED <<outputs, uploaded, handoff, verification>> /\ Idle

(* Enforce central mode on SDK technical gate.                             *)
EnforceGate ==
  /\ Due("enforceGate")
  /\ Finish("enforceGate", IF gate # "pass" /\ mode = "blocking"
                           THEN "failure" ELSE "success")
  /\ UNCHANGED <<outputs, uploaded, handoff, verification>> /\ Idle

Skip ==
  /\ step \in DOMAIN Steps /\ ended = "no"
  /\ ~Condition(Steps[step])
  /\ Finish(Steps[step], "skipped")
  /\ UNCHANGED <<outputs, uploaded, handoff, verification>> /\ Idle

-----------------------------------------------------------------------------
(* Cancellation, or the 30 minutes: a running step is killed unless it is  *)
(* an `always()' step; a killed upload may have stored the set.            *)
Cancel ==
  /\ step \in DOMAIN Steps /\ ended = "no" /\ ~cancelled
  /\ cancelled' = TRUE
  /\ \/ /\ Condition(Steps[step]) /\ Steps[step] \notin Always
        /\ Finish(Steps[step], "cancelled")
        /\ uploaded' \in {uploaded, uploaded \/ At("upload")}
        /\ IF At("verification") /\ at # "exited"
           THEN Verification!Kill ELSE UNCHANGED verification
     \/ /\ Condition(Steps[step]) => Steps[step] \in Always
        /\ UNCHANGED <<step, outcome, uploaded, verification>>
  /\ UNCHANGED <<trigger, onDefault, outputs, handoff, ended>>

(* The runner is lost, or cancelled by force: no further step runs.        *)
Lose ==
  /\ step \in DOMAIN Steps /\ ended = "no"
  /\ ended' = "cancelled"
  /\ UNCHANGED <<trigger, onDefault, step, outputs, uploaded, handoff, outcome,
                 cancelled, verification>>

Conclude ==
  /\ step = Len(Steps) + 1 /\ ended = "no"
  /\ ended' = CASE cancelled -> "cancelled"
                [] ~cancelled /\ Failed # {} -> "failure"
                [] OTHER -> "success"
  /\ UNCHANGED <<trigger, onDefault, step, outputs, uploaded, handoff, outcome,
                 cancelled, verification>>

Proceed ==
  \/ Admit \/ Runtime \/ CheckPush \/ Govern \/ Provision
  \/ Verify \/ FinishVerification \/ Evaluate \/ Upload \/ Describe
  \/ EnforceVerification \/ EnforceGate \/ Skip \/ Conclude
  \/ \E s \in StepName : Work(s)

Next == ended = "no" /\ (Proceed \/ Cancel \/ Lose)

Spec == Init /\ [][Next]_vars

-----------------------------------------------------------------------------
(* Properties.                                                             *)

(* The job conclusion is the enforcement signal: a green evaluation under  *)
(* an enforcing profile ran all four phases to success, or its repository  *)
(* is one whose missing contract Core's policy tolerates.                  *)
GreenMeansVerified ==
  (ended = "success" /\ profile \in {"pr_fast", "merge"})
    => \/ Verification!Done = Verification!Phases
       \/ policy = "migration" /\ verdict.version = "absent"

(* A green evaluation of analysable code in blocking mode passed the SDK   *)
(* gate, and its evidence can be found through the descriptor.             *)
GreenMeansGatePassed ==
  (ended = "success" /\ mode = "blocking" /\ language # "none")
    => gate = "pass" /\ uploaded /\ handoff

(* A verdict against the code never costs its own evidence: if gates and   *)
(* enforcement are all that failed, the artifact set and its descriptor    *)
(* exist.                                                                  *)
RefusalKeepsEvidence ==
  (/\ ended = "failure" /\ gate \in {"fail", "incomplete"}
   /\ Failed \subseteq {"gate", "enforceGate", "enforceVerification"})
    => uploaded /\ handoff

(* Once the profile is known, nothing short of losing the runner skips the *)
(* enforcement: no failed or cancelled step hides an unverified repository.*)
EnforcementNotSkipped ==
  (/\ ended # "no" /\ step > Len(Steps) /\ profile \in {"pr_fast", "merge"}
   /\ ~Verification!Accepts) => "enforceVerification" \in Failed

(* No claim moves a class that gates a branch to a profile without         *)
(* repository verification, whoever calls, and however.                    *)
ClaimsDoNotDowngrade ==
  (mode # "" /\ class \in {"pull_request", "push", "merge"})
    => profile \in {"pr_fast", "merge"}

(* Outputs that the enforcement step accepts, complete or cut short by a   *)
(* cancellation, tell the truth about the phases, in every policy and      *)
(* whatever the phases rewrite.                                            *)
AcceptedMeansVerified == Verification!Accepts => Verification!Verified

(* However the process is cut short, the enforcement sees an admission:    *)
(* the outputs become acceptable at once, after the last phase, and stay.  *)
Promise == INSTANCE Admission
             WITH done <- [i \in DOMAIN ran |-> [phase |-> ran[i].phase, by |-> ran[i].by]],
                  accepted <- Verification!Accepts
ImplementsAdmission == Promise!Spec
=============================================================================

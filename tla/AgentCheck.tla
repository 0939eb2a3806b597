----------------------------- MODULE AgentCheck -----------------------------
(***************************************************************************)
(* The evidence-bearing completion check of tools/l9_repo/__main__.py      *)
(* (agent_check), with the change resolution of change_policy.py and the   *)
(* reports of reporting.py.                                                *)
(*                                                                         *)
(* The check reads the workspace in many separate commands, runs gates and *)
(* phases over it for minutes, reads it again to prove that nothing moved, *)
(* and writes two report files.  Meanwhile a developer, or a gate itself,  *)
(* may edit, stage and commit; the check may be killed and run again.      *)
(***************************************************************************)
EXTENDS Naturals, Sequences

CONSTANTS
  Edits,      \* bound: changes of the workspace while checks run
  Runs,       \* bound: checks run in one workspace
  Plans       \* the plans a change may select: sequences of blocking flags

ASSUME BoundAssumption == {Edits, Runs} \subseteq Nat
ASSUME PlanAssumption == Plans \subseteq Seq(BOOLEAN) /\ Plans # {}

VARIABLES
  ws,        \* the workspace
  edits,     \* changes made so far; every new content or commit gets a number
  run,       \* number of the current check, 0 before the first one
  at,        \* where it stands
  plan,      \* the commands still to run: TRUE for a blocking one
  part,      \* the part of the subject it reads next
  subject,   \* initial_subject_sha, initial_policy_sha256, fingerprint
  ledger,    \* the results recorded so far
  moved,     \* whether the final reading found a difference
  json,      \* the JSON report on disk
  markdown,  \* the Markdown report on disk
  exit,      \* exit status of the last check that ended by itself
  began,     \* history: the workspace when the subject was complete
  proved,    \* history: the workspace when the final reading was complete
  seen       \* history: the workspaces the recorded commands ran over

reports == <<json, markdown>>
history == <<began, proved, seen>>
vars == <<ws, edits, run, at, plan, part, subject, ledger,
          moved, reports, exit, history>>

Version == 0..Edits

(* head: the commit; base, index, work: the tracked content of HEAD, of    *)
(* the index and of the worktree; policy: the content of the policy file,  *)
(* a tracked file; extra: the untracked files.                             *)
Workspace == [head : Version, base : Version, index : Version, work : Version,
              policy : Version, extra : Version]

Parts == <<"head", "policy", "diff", "extra">>

(* What the check reads of each part: the commit, the policy file, `git    *)
(* diff --binary HEAD' and the untracked files.  The index has no part.    *)
Observe(p, w) ==
  CASE p = "head"   -> w.head
    [] p = "policy" -> w.policy
    [] p = "diff"   -> IF w.work = w.base THEN << >> ELSE <<w.base, w.work>>
    [] p = "extra"  -> w.extra

Result == [blocking : BOOLEAN, class : {"pass", "finding", "infrastructure"}]
Report == [run : 0..Runs, exit : 0..2, head : Version, policy : Version]
NoReport == [run |-> 0, exit |-> 2, head |-> 0, policy |-> 0]

Original == [head |-> 0, base |-> 0, index |-> 0, work |-> 0, policy |-> 0,
             extra |-> 0]

Busy == {"resolve", "capture", "structural", "gates", "phases",
         "prove", "json", "markdown"}

TypeOK ==
  /\ {ws, began, proved} \subseteq Workspace
  /\ edits \in Version
  /\ run \in 0..Runs
  /\ at \in Busy \cup {"idle", "killed", "exited"}
  /\ plan \in Seq(BOOLEAN)
  /\ part \in DOMAIN Parts
  /\ {subject.head, subject.policy, subject.extra} \subseteq Version
  /\ ledger \subseteq Result
  /\ moved \in BOOLEAN
  /\ json \in Report /\ markdown \in Report
  /\ exit \in {0, 1, 2, 128}
  /\ seen \subseteq Workspace

NoSubject == [head |-> 0, policy |-> 0, diff |-> << >>, extra |-> 0]

Init ==
  /\ ws = Original
  /\ edits = 0 /\ run = 0 /\ at = "idle"
  /\ plan = << >> /\ part = 1
  /\ subject = NoSubject
  /\ ledger = {} /\ moved = FALSE
  /\ json = NoReport /\ markdown = NoReport /\ exit = 2
  /\ began = Original /\ proved = Original /\ seen = {}

-----------------------------------------------------------------------------
(* The workspace changes under the check.                                  *)

Fresh == edits + 1

Changes ==
  {[ws EXCEPT !.work = Fresh],                       \* edit a tracked file
   [ws EXCEPT !.work = Fresh, !.policy = Fresh],     \* edit the policy
   [ws EXCEPT !.extra = Fresh],                      \* an untracked file
   [ws EXCEPT !.index = ws.work],                    \* git add
   [ws EXCEPT !.head = Fresh, !.base = ws.index]}    \* git commit

Edit ==
  /\ edits < Edits
  /\ edits' = edits + 1
  /\ ws' \in Changes \ {ws}
  /\ UNCHANGED <<run, at, plan, part, subject, ledger, moved,
                 reports, exit, history>>

-----------------------------------------------------------------------------
(* The check.                                                              *)

Add(result) == ledger' = ledger \cup {result}
Ran == seen' = seen \cup {ws} /\ UNCHANGED <<began, proved>>
Still == UNCHANGED <<ws, edits, run>>

(* A new process: only the workspace and the reports outlive the last one. *)
Begin ==
  /\ at \in {"idle", "killed", "exited"} /\ run < Runs
  /\ run' = run + 1
  /\ at' = "resolve"
  /\ plan' = << >> /\ part' = 1 /\ subject' = NoSubject
  /\ ledger' = {} /\ moved' = FALSE /\ exit' = 2
  /\ began' = Original /\ proved' = Original /\ seen' = {}
  /\ UNCHANGED <<ws, edits, reports>>

(* self.policy() and _resolve_changes; the gates they select, companion    *)
(* findings included.                                                      *)
ResolveChanges ==
  /\ at = "resolve" /\ at' = "capture"
  /\ plan' \in Plans
  /\ \/ Add([blocking |-> TRUE, class |-> "finding"])
     \/ UNCHANGED ledger
  /\ UNCHANGED <<part, subject, moved, reports, exit, history>> /\ Still

NextPart(next) ==
  IF part = Len(Parts) THEN part' = 1 /\ at' = next
                       ELSE part' = part + 1 /\ UNCHANGED at

(* The initial subject, one command after the other.                       *)
Capture ==
  /\ at = "capture"
  /\ subject' = [subject EXCEPT ![Parts[part]] = Observe(Parts[part], ws)]
  /\ NextPart("structural")
  /\ began' = ws
  /\ UNCHANGED <<plan, ledger, moved, reports, exit, proved,
                 seen>> /\ Still

(* core_validate.                                                          *)
Structural ==
  /\ at = "structural" /\ at' = "gates"
  /\ \E class \in {"pass", "infrastructure"} :
       Add([blocking |-> TRUE, class |-> class])
  /\ Ran
  /\ UNCHANGED <<plan, part, subject, moved, reports, exit>>
  /\ Still

(* record(): what a command's result adds to the evidence.                 *)
Record(blocking, class) == Add([blocking |-> blocking, class |-> class])

(* One command of a selected gate: exit 2, 126, 127 or an OSError is an    *)
(* infrastructure failure.                                                 *)
Gate ==
  /\ at = "gates" /\ plan # << >>
  /\ plan' = Tail(plan)
  /\ \E class \in {"pass", "finding", "infrastructure"} :
       Record(Head(plan), class)
  /\ Ran
  /\ UNCHANGED <<at, part, subject, moved, reports, exit>>
  /\ Still

(* make validate, make check, make test: all three always run.             *)
StartPhases ==
  /\ at = "gates" /\ plan = << >>
  /\ plan' = <<TRUE, TRUE, TRUE>>
  /\ at' = "phases"
  /\ UNCHANGED <<part, subject, ledger, moved, reports, exit,
                 history>> /\ Still

(* classify_make_phase: a failing phase is a finding; make may be missing. *)
Phase ==
  /\ at = "phases" /\ plan # << >>
  /\ plan' = Tail(plan)
  /\ at' = IF plan' = << >> THEN "prove" ELSE at
  /\ \E class \in {"pass", "finding", "infrastructure"} : Record(TRUE, class)
  /\ Ran
  /\ UNCHANGED <<part, subject, moved, reports, exit>>
  /\ Still

(* A plausible wrong version of the action below.                          *)
ProveHeadOnly ==
  /\ at = "prove"
  /\ moved' = (moved \/ (part = 1 /\ Observe("head", ws) # subject.head))
  /\ NextPart("json")
  /\ proved' = ws
  /\ IF part = Len(Parts) /\ moved'
     THEN Add([blocking |-> TRUE, class |-> "infrastructure"])
     ELSE UNCHANGED ledger
  /\ UNCHANGED <<plan, subject, reports, exit, began, seen>>
  /\ Still

(* The non-mutation check, in the order of the first reading.              *)
Prove ==
  /\ at = "prove"
  /\ moved' = (moved \/ Observe(Parts[part], ws) # subject[Parts[part]])
  /\ NextPart("json")
  /\ proved' = ws
  /\ IF part = Len(Parts)
     THEN Add([blocking |-> TRUE,
               class |-> IF moved' THEN "infrastructure" ELSE "pass"])
     ELSE UNCHANGED ledger
  /\ UNCHANGED <<plan, subject, reports, exit, began, seen>>
  /\ Still

Blocking(class) == [blocking |-> TRUE, class |-> class] \in ledger

(* A plausible wrong version of the definition below.                      *)
FindingsFirst == IF Blocking("finding") THEN 1
                 ELSE IF Blocking("infrastructure") THEN 2 ELSE 0

(* overall_exit_code: infrastructure outranks findings.                    *)
Overall == IF Blocking("infrastructure") THEN 2
           ELSE IF Blocking("finding") THEN 1 ELSE 0

Evidence == [run |-> run, exit |-> Overall, head |-> subject.head,
             policy |-> subject.policy]

(* A plausible wrong version of the action below.                          *)
WriteJsonOfPasses ==
  /\ at = "json"
  /\ json' = Evidence
  /\ IF Overall = 0 THEN at' = "exited" /\ exit' = 0
                    ELSE at' = "markdown" /\ UNCHANGED exit
  /\ UNCHANGED <<plan, part, subject, ledger, moved, markdown,
                 history>> /\ Still

(* write_reports, then the exit status of the check.                       *)
WriteJson ==
  /\ at = "json" /\ at' = "markdown"
  /\ json' = Evidence
  /\ UNCHANGED <<plan, part, subject, ledger, moved, markdown,
                 exit, history>> /\ Still

WriteMarkdown ==
  /\ at = "markdown" /\ at' = "exited"
  /\ markdown' = Evidence
  /\ exit' = Overall
  /\ UNCHANGED <<plan, part, subject, ledger, moved, json,
                 history>> /\ Still

(* Ways to end without a report.  main() turns the errors it expects into  *)
(* exit 2 and a git command that failed into that command's status; output *)
(* or a file that is not UTF-8 raises what nobody catches, and the         *)
(* interpreter exits 1.                                                    *)
Escape ==
  /\ at \in Busy /\ at' = "exited"
  /\ \/ exit' = 2
     \/ exit' = 128 /\ at \in {"capture", "prove"} /\ Parts[part] = "head"
     \/ exit' = 1 /\ at \in {"resolve", "gates", "phases"}
  /\ UNCHANGED <<plan, part, subject, ledger, moved, reports,
                 history>> /\ Still

Kill ==
  /\ at \in Busy /\ at' = "killed"
  /\ UNCHANGED <<plan, part, subject, ledger, moved, reports,
                 exit, history>> /\ Still

Next ==
  \/ Begin \/ ResolveChanges \/ Capture \/ Structural \/ Gate
  \/ StartPhases \/ Phase \/ Prove \/ WriteJson \/ WriteMarkdown
  \/ Escape \/ Kill \/ Edit

Spec == Init /\ [][Next]_vars

-----------------------------------------------------------------------------
(* Properties.                                                             *)

Exited(status) == at = "exited" /\ run > 0 /\ exit = status
Reported == at = "exited" /\ run > 0 /\ markdown.run = run

(* What a fingerprint cannot tell apart: everything but the index.         *)
SameTree(v, w) == [v EXCEPT !.index = 0] = [w EXCEPT !.index = 0]

(* `Prove non-mutation of HEAD, policy, and worktree': a check that passes *)
(* ran every gate and phase over one tree, the one its report names; as    *)
(* long as nobody commits while the final reading is under way: HEAD is    *)
(* read before the difference of the worktree from HEAD.                   *)
PassMeansOneTreeUnlessCommitted ==
  (Exited(0) /\ proved.head = json.head) =>
    /\ \A w \in seen : SameTree(w, began)
    /\ json.head = began.head /\ json.policy = began.policy

(* The verdicts of a reported check are told apart from each other and     *)
(* from a broken environment: nothing blocking failed, or something found  *)
(* a defect and nothing failed for another reason, a moving workspace      *)
(* included.                                                               *)
VerdictsMean ==
  Reported =>
    /\ exit = 0 => ~moved /\ \A r \in ledger : r.blocking => r.class = "pass"
    /\ exit = 1 => /\ Blocking("finding")
                   /\ ~Blocking("infrastructure") /\ ~moved

(* A check that passes leaves both reports of this very run, saying so,    *)
(* whatever killed and failed runs left behind.                            *)
PassIsReported ==
  Exited(0) => json = markdown /\ json.run = run /\ json.exit = 0
=============================================================================

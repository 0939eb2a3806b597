-------------------------- MODULE CheckPublication --------------------------
(***************************************************************************)
(* One GitHub check per analysis: .github/workflows/publish-analysis.yml   *)
(* and .github/actions/publish-check/publish.py.                           *)
(*                                                                         *)
(* Several analyses of one commit publish at the same time, next to check  *)
(* runs of other applications, and each may be rerun.  An attempt looks    *)
(* its identity up page by page, then creates the check or updates it with *)
(* one request, whose answer it may never see.  The identity is made of    *)
(* the run and the matrix id, not of the attempt.                          *)
(***************************************************************************)
EXTENDS Naturals, Sequences, FiniteSets

CONSTANTS
  Job,          \* the analyses, one per matrix id, of one commit
  Conclusion,   \* the conclusions a rendered publication may carry
  Attempts,     \* bound: attempts of each analysis, the first one included
  PageSize,     \* check runs on a full page (per_page=100)
  MaxPages,     \* MAX_CHECK_PAGES
  Others        \* bound: check runs of other applications

ASSUME BoundAssumption ==
  /\ Attempts \in [Job -> Nat]
  /\ {PageSize, MaxPages} \subseteq Nat \ {0}
  /\ Others \in Nat

Other == "other"     \* the identity of a check run of another application
None == 0            \* no check found; check ids start at 1

ASSUME JobAssumption == Other \notin Job
ASSUME ConclusionAssumption == Conclusion # {}

Unread == CHOOSE c \in Conclusion : TRUE   \* a conclusion nobody looks at

Mode == {"blocking", "advisory", "shadow", "disabled", "unknown"}

VARIABLES
  mode,      \* [Job -> the mode input]
  elected,   \* [Job -> the publish-check input]
  checks,    \* the commit's check runs in the order of their ids
  stage,     \* [Job -> where the current attempt stands]
  attempt,   \* [Job -> number of the current attempt]
  verdict,   \* [Job -> conclusion this attempt rendered]
  page,      \* [Job -> page of check runs it reads next]
  target,    \* [Job -> id of the check it found, or None]
  wire,      \* requests sent and not yet executed or lost
  late,      \* history: jobs for whom a straggler landed since the preparation
  straggled  \* history: jobs for whom one ever did: a request that landed
             \*          after its sender had given up on it

inputs == <<mode, elected>>
history == <<late, straggled>>
vars == <<mode, elected, checks, stage, attempt, verdict, page, target, wire,
          late, straggled>>

Active == {"prepare", "scan", "send", "wait"}
Stage == {"idle", "skipped", "published", "failed"} \cup Active

(* POST when `target' is None, else PATCH; both carry the identity.        *)
Request == [job : Job, attempt : Nat, target : Nat, verdict : Conclusion]

TypeOK ==
  /\ mode \in [Job -> Mode]
  /\ elected \in [Job -> BOOLEAN]
  /\ checks \in Seq([identity : Job \cup {Other}, shows : Conclusion])
  /\ stage \in [Job -> Stage]
  /\ attempt \in [Job -> Nat]
  /\ verdict \in [Job -> Conclusion]
  /\ page \in [Job -> 1..MaxPages]
  /\ target \in [Job -> Nat]
  /\ wire \in SUBSET Request
  /\ late \in SUBSET Job
  /\ straggled \in SUBSET Job

Init ==
  /\ mode \in [Job -> Mode]
  /\ elected \in [Job -> BOOLEAN]
  /\ checks = << >>
  /\ stage = [j \in Job |-> "idle"]
  /\ attempt = [j \in Job |-> 0]
  /\ verdict = [j \in Job |-> Unread]
  /\ page = [j \in Job |-> 1]
  /\ target = [j \in Job |-> None]
  /\ wire = {}
  /\ late = {}
  /\ straggled = {}

-----------------------------------------------------------------------------
Goto(j, s) == stage' = [stage EXCEPT ![j] = s]

(* Plausible wrong versions of two definitions that follow them.           *)
MatchingNewestOnly(j, ids) == ids \cap {Len(checks)}

OutcomeIgnoringElection(j) ==
  IF mode[j] = "unknown" THEN "failed" ELSE "prepare"

(* Which job of the workflow its `if' conditions let run: publish-check,   *)
(* invalid-mode (which fails) or one that only records the decision.       *)
Outcome(j) ==
  CASE mode[j] = "unknown" -> "failed"
    [] elected[j] /\ mode[j] \in {"blocking", "advisory"} -> "prepare"
    [] OTHER -> "skipped"

(* The listing has the newest check run first.                             *)
OnPage(n) ==
  {id \in DOMAIN checks :
     /\ id + n * PageSize > Len(checks)
     /\ id + (n - 1) * PageSize <= Len(checks)}

Matches(j, ids) == {id \in ids : checks[id].identity = j}
Newest(ids) == CHOOSE id \in ids : \A other \in ids : id >= other

(* A request as the server executes it.                                    *)
Execute(r) ==
  LET check == [identity |-> r.job, shows |-> r.verdict]
  IN  checks' = IF r.target = None THEN Append(checks, check)
                                   ELSE [checks EXCEPT ![r.target] = check]

Own(j) == {r \in wire : r.job = j /\ r.attempt = attempt[j]}

-----------------------------------------------------------------------------
(* Plausible wrong versions of definitions below.                          *)

ScanAssumingAbsence(j) ==
  /\ stage[j] = "scan"
  /\ LET found == Matches(j, OnPage(page[j])) IN
       \/ /\ found # {}
          /\ target' = [target EXCEPT ![j] = Newest(found)]
          /\ Goto(j, "send")
          /\ UNCHANGED page
       \/ /\ found = {}
          /\ IF page[j] = MaxPages \/ Cardinality(OnPage(page[j])) < PageSize
             THEN Goto(j, "send") /\ UNCHANGED page
             ELSE page' = [page EXCEPT ![j] = @ + 1] /\ UNCHANGED stage
          /\ UNCHANGED target
  /\ UNCHANGED <<inputs, checks, attempt, verdict, wire, history>>

ScanSamePage(j) ==
  /\ stage[j] = "scan"
  /\ Cardinality(OnPage(1)) < PageSize
  /\ Goto(j, "send")
  /\ UNCHANGED <<inputs, checks, attempt, verdict, page, target, wire>>
  /\ UNCHANGED history

SendStaleVerdict(j) ==
  /\ stage[j] = "send"
  /\ wire' = wire \cup
       {[job |-> j, attempt |-> attempt[j], target |-> target[j],
         verdict |-> IF target[j] = None THEN verdict[j]
                                          ELSE checks[target[j]].shows]}
  /\ Goto(j, "wait")
  /\ UNCHANGED <<inputs, checks, attempt, verdict, page, target, history>>

-----------------------------------------------------------------------------
(* The first attempt, or a rerun of an attempt that has ended.             *)
Begin(j) ==
  /\ stage[j] \notin Active
  /\ attempt[j] < Attempts[j]
  /\ attempt' = [attempt EXCEPT ![j] = @ + 1]
  /\ verdict' \in {[verdict EXCEPT ![j] = c] : c \in Conclusion}
  /\ page' = [page EXCEPT ![j] = 1]
  /\ target' = [target EXCEPT ![j] = None]
  /\ Goto(j, Outcome(j))
  /\ UNCHANGED <<inputs, checks, wire, history>>

(* Retrieve, provision, validate, render and preflight: no remote write.   *)
Prepare(j) ==
  /\ stage[j] = "prepare"
  /\ late' = late \ {j}
  /\ Goto(j, "scan")
  /\ UNCHANGED <<inputs, checks, attempt, verdict, page, target, wire>>
  /\ UNCHANGED straggled

(* find_existing_check, one GET.                                           *)
Scan(j) ==
  /\ stage[j] = "scan"
  /\ LET ids == OnPage(page[j])
         found == Matches(j, ids)
     IN  \/ /\ found # {}
            /\ target' = [target EXCEPT ![j] = Newest(found)]
            /\ Goto(j, "send")
            /\ UNCHANGED page
         \/ /\ found = {} /\ Cardinality(ids) < PageSize
            /\ Goto(j, "send")
            /\ UNCHANGED <<page, target>>
         \/ /\ found = {} /\ Cardinality(ids) = PageSize
            /\ page[j] < MaxPages
            /\ page' = [page EXCEPT ![j] = @ + 1]
            /\ UNCHANGED <<stage, target>>
         \/ /\ found = {} /\ Cardinality(ids) = PageSize
            /\ page[j] = MaxPages
            /\ Goto(j, "failed")
            /\ UNCHANGED <<page, target>>
  /\ UNCHANGED <<inputs, checks, attempt, verdict, wire, history>>

(* publish_check, the POST or the PATCH.                                   *)
Send(j) ==
  /\ stage[j] = "send"
  /\ wire' = wire \cup {[job |-> j, attempt |-> attempt[j],
                         target |-> target[j], verdict |-> verdict[j]]}
  /\ Goto(j, "wait")
  /\ UNCHANGED <<inputs, checks, attempt, verdict, page, target, history>>

Respond(j) ==
  /\ stage[j] = "wait"
  /\ Own(j) = {}
  /\ Goto(j, "published")
  /\ UNCHANGED <<inputs, checks, attempt, verdict, page, target, wire>>
  /\ UNCHANGED history

(* An HTTP error, the 30 s timeout, the job's timeout or its cancellation; *)
(* a failing step before the write fails the job the same way.             *)
Fail(j) ==
  /\ stage[j] \in Active
  /\ Goto(j, "failed")
  /\ \/ wire' = wire \ Own(j)
     \/ UNCHANGED wire
  /\ UNCHANGED <<inputs, checks, attempt, verdict, page, target, history>>

(* The service executes a request, whether or not its sender still waits.  *)
Land(r) ==
  /\ Execute(r)
  /\ wire' = wire \ {r}
  /\ LET awaited == r \in Own(r.job) /\ stage[r.job] = "wait" IN
       /\ late' = IF awaited THEN late ELSE late \cup {r.job}
       /\ straggled' = IF awaited THEN straggled ELSE straggled \cup {r.job}
  /\ UNCHANGED <<inputs, stage, attempt, verdict, page, target>>

(* Another application creates a check run on the same commit.             *)
Intrude ==
  /\ Cardinality({id \in DOMAIN checks : checks[id].identity = Other}) < Others
  /\ checks' = Append(checks, [identity |-> Other, shows |-> Unread])
  /\ UNCHANGED <<inputs, stage, attempt, verdict, page, target, wire, history>>

Step(j) == Prepare(j) \/ Scan(j) \/ Send(j) \/ Respond(j)

Next ==
  \/ \E j \in Job : Begin(j) \/ Step(j) \/ Fail(j)
  \/ \E r \in wire : Land(r)
  \/ Intrude

Spec == Init /\ [][Next]_vars

(* A running job makes progress; a waiting one is answered or times out.   *)
Fairness ==
  \A j \in Job : WF_vars(Step(j)) /\ WF_vars(stage[j] = "wait" /\ Fail(j))
FairSpec == Spec /\ Fairness

-----------------------------------------------------------------------------
(* Properties.                                                             *)

Published(j) == {id \in DOMAIN checks : checks[id].identity = j}

(* `Publish one retry-safe check run': whatever was lost, interrupted or   *)
(* rerun, an identity has at most one check run on the commit, unless a    *)
(* request was executed after its sender had given up on it.               *)
OneCheckPerIdentity ==
  \A j \in Job \ straggled : Cardinality(Published(j)) <= 1

(* An analysis reported as published is what the commit's newest check run *)
(* of its identity shows, the verdict of the latest attempt included; only *)
(* a request from an attempt already given up on can come in between.      *)
PublishedShowsVerdict ==
  \A j \in Job : (stage[j] = "published" /\ j \notin late)
     => \E id \in Published(j) : /\ checks[id].shows = verdict[j]
                                 /\ \A other \in Published(j) : other <= id

(* A publication never takes over a check run that is not its own.         *)
IdentitiesStable ==
  [][\A id \in DOMAIN checks :
       /\ id \in DOMAIN checks'
       /\ checks'[id].identity = checks[id].identity]_vars

(* The write is elected: a mode that only observes never reaches the       *)
(* commit's checks, in any attempt.                                        *)
ObserversLeaveNoCheck ==
  \A j \in Job :
    (mode[j] \in {"shadow", "disabled", "unknown"} \/ ~elected[j])
      => Published(j) = {}

(* Every attempt ends, though check runs keep appearing while it pages     *)
(* through them.                                                           *)
AttemptsEnd == \A j \in Job : stage[j] \in Active ~> stage[j] \notin Active
=============================================================================

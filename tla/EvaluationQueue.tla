--------------------------- MODULE EvaluationQueue ---------------------------
(***************************************************************************)
(* The concurrency group of .github/workflows/org-ci.yml: one group per    *)
(* revision and event name, cancel-in-progress false.  A group holds at    *)
(* most one running and one pending run (GitHub's documented behaviour,    *)
(* not code of this repository); a run that finds another pending one in   *)
(* its group takes its place.                                              *)
(***************************************************************************)
CONSTANTS
  Run,        \* the runs requested for one repository
  Revision,   \* its revisions
  EventName   \* event names: push, pull_request, workflow_dispatch, ...

VARIABLES
  key,      \* [Run -> <<revision, event>>, chosen when it is requested]
  state     \* [Run -> where the run stands]

queueVars == <<key, state>>

State == {"unborn", "pending", "running", "completed", "cancelled"}

QueueTypeOK ==
  /\ key \in [Run -> Revision \X EventName]
  /\ state \in [Run -> State]

QueueInit ==
  /\ key \in [Run -> Revision \X EventName]
  /\ state = [r \in Run |-> "unborn"]

-----------------------------------------------------------------------------
(* The runs of one concurrency group.                                      *)
Group(r) == {q \in Run : key[q] = key[r]}

In(r, s) == {q \in Group(r) : state[q] = s}

(* The runs a new one displaces: cancel-in-progress is false.              *)
Displaced(r) == In(r, "pending")

(* How a run enters its group: it holds a free one at once.                *)
Entry(r) == IF In(r, "running") \cup In(r, "pending") = {} THEN "running"
                                                          ELSE "pending"

Request(r) ==
  /\ state[r] = "unborn"
  /\ state' = [q \in Run |->
                 IF q = r THEN Entry(r)
                 ELSE IF q \in Displaced(r) THEN "cancelled" ELSE state[q]]
  /\ UNCHANGED key

Start(r) ==
  /\ state[r] = "pending"
  /\ In(r, "running") = {}
  /\ state' = [state EXCEPT ![r] = "running"]
  /\ UNCHANGED key

(* A plausible wrong version of the action below.                          *)
CompleteYielding(r) ==
  /\ state[r] = "running" /\ In(r, "pending") = {}
  /\ state' = [state EXCEPT ![r] = "completed"]
  /\ UNCHANGED key

(* The evaluation ends, within the 30 minutes of its job.                  *)
Complete(r) ==
  /\ state[r] = "running"
  /\ state' = [state EXCEPT ![r] = "completed"]
  /\ UNCHANGED key

QueueNext == \E r \in Run : Request(r) \/ Start(r) \/ Complete(r)

QueueSpec == QueueInit /\ [][QueueNext]_queueVars

(* The service starts a run whose group is free; a job has a timeout.      *)
FairSpec == QueueSpec /\ \A r \in Run : WF_queueVars(Start(r)) /\ WF_queueVars(Complete(r))

-----------------------------------------------------------------------------
(* Properties.                                                             *)

(* Whatever was displaced, a group that was requested is evaluated: at     *)
(* least one of its runs completes.                                        *)
GroupIsEvaluated ==
  \A r \in Run :
    state[r] # "unborn"
      ~> \E q \in Run : key[q] = key[r] /\ state[q] = "completed"
=============================================================================

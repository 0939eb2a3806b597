------------------------------- MODULE Governance -------------------------------
(***************************************************************************)
(* Central governance over time.  Maintainers change the documents under   *)
(* resolve-governance/defaults by pull requests that governance-ci         *)
(* validates; a merged change reaches the fleet when org-ci.yml's pin      *)
(* moves to it; days pass; and a consumer's evaluation resolves the pinned *)
(* documents on the day it runs, stages policy and identity maps in its    *)
(* workspace, and checks the waivers its .l9/ci.json refers to.            *)
(*                                                                         *)
(* One provider stands for all.  A document set is its own digest.         *)
(***************************************************************************)
EXTENDS Naturals, FiniteSets

CONSTANTS Profiles,      \* profiles of execution-profiles.yaml
          AdmittedEvent, \* the event class each profile admits
          DefaultMode,   \* default_mode of each profile
          Repositories,  \* consumers
          Edits,         \* changes proposed: [field, profile, value] records
          InitialRefs,   \* waiver_refs of each consumer's .l9/ci.json
          Initial,       \* the documents in force at the beginning
          Unset,         \* no entry, no policy, nothing staged, no decision
          MaxDay, MaxMerges, MaxEvaluations \* bounds of the exploration

ASSUME GovernanceAssumption == /\ MaxDay \in Nat
                               /\ MaxMerges \in Nat
                               /\ MaxEvaluations \in Nat

Modes == {"blocking", "advisory", "shadow", "disabled"}

VARIABLES main,      \* the documents on the default branch
          pinned,    \* the documents of the revision org-ci.yml pins
          validated, \* edits whose pull request has a successful validation
          merges,
          day,
          staged,    \* policy and maps below .l9/runtime in each workspace
          outcomes   \* the evaluations that resolved

vars == <<main, pinned, validated, merges, day, staged, outcomes>>

(***************************************************************************)
(* The resolution, a function of documents, request and day.               *)
(***************************************************************************)

\* The override, else the default of rule-modes, else that of the profile.
ResolveMode(docs, profile) ==
    LET Chosen == IF docs.mode[profile] = Unset THEN DefaultMode[profile]
                                                ELSE docs.mode[profile]
    IN IF docs.override[profile] = Unset THEN Chosen ELSE docs.override[profile]

\* Mutant: a waiver expires the day after its last.
ExpiringLate(waivers, today) ==
    /\ \A v, w \in waivers : v.id = w.id => v = w
    /\ \A w \in waivers : today <= w.expires + 1

\* Ids are unique, and one waiver past its last day fails the whole document.
WaiversValid(waivers, today) ==
    /\ \A v, w \in waivers : v.id = w.id => v = w
    /\ \A w \in waivers : w.created <= w.expires /\ today <= w.expires

\* An empty list of a scope matches everything.
InScope(waiver, repository, profile) ==
    /\ waiver.repositories = {} \/ repository \in waiver.repositories
    /\ waiver.profiles = {} \/ profile \in waiver.profiles

\* Mutant: a waiver applies from its creation date on.
ApplicableSinceCreation(waivers, repository, profile, today) ==
    {w.id : w \in {v \in waivers : InScope(v, repository, profile) /\ v.created <= today}}

\* The creation date is not compared with the day.
ApplicableWaivers(waivers, repository, profile, today) ==
    {w.id : w \in {v \in waivers : InScope(v, repository, profile)}}

Decision(docs, repository, profile, today) ==
    [mode     |-> ResolveMode(docs, profile),
     required |-> docs.required[profile],
     policy   |-> docs.policy[profile],
     waivers  |-> ApplicableWaivers(docs.waivers, repository, profile, today)]

\* Why resolve.py exits with 2 once the profile is admitted.
Refuses(docs, profile, today) ==
    \/ ResolveMode(docs, profile) \notin Modes
    \/ ~WaiversValid(docs.waivers, today)
    \/ ResolveMode(docs, profile) = "disabled" /\ docs.required[profile]

\* validate_governance.py: each part of each profile, not their combination.
ValidDocuments(docs, today) ==
    /\ \A profile \in Profiles : ResolveMode(docs, profile) \in Modes
    /\ WaiversValid(docs.waivers, today)

(***************************************************************************)
(* The documents' way to the fleet.                                        *)
(***************************************************************************)

Apply(docs, e) ==
    IF e.field = "waivers"
    THEN [docs EXCEPT !.waivers = IF e.value \in @ THEN @ \ {e.value} ELSE @ \cup {e.value}]
    ELSE IF e.field = "maps" THEN [docs EXCEPT !.maps = e.value]
    ELSE [docs EXCEPT ![e.field][e.profile] = e.value]

Init == /\ main = Initial
        /\ pinned = Initial
        /\ validated = {}
        /\ merges = 0
        /\ day = 0
        /\ staged = [r \in Repositories |-> [policy |-> Unset, maps |-> Unset]]
        /\ outcomes = {}

\* The check runs on the pull request merged with the branch of that day.
Validate == /\ merges + Cardinality(validated) < MaxMerges
            /\ \E e \in Edits \ validated :
                 /\ ValidDocuments(Apply(main, e), day)
                 /\ validated' = validated \cup {e}
            /\ UNCHANGED <<main, pinned, merges, day, staged, outcomes>>

\* The branch may have moved since, and days may have passed.
Merge == /\ \E e \in validated : /\ main' = Apply(main, e)
                                 /\ validated' = validated \ {e}
         /\ merges' = merges + 1
         /\ UNCHANGED <<pinned, day, staged, outcomes>>

AdvancePin == /\ pinned # main
              /\ pinned' = main
              /\ UNCHANGED <<main, validated, merges, day, staged, outcomes>>

Midnight == /\ day < MaxDay
            /\ day' = day + 1
            /\ UNCHANGED <<main, pinned, validated, merges, staged, outcomes>>

(***************************************************************************)
(* A consumer's evaluation, up to the check of its waiver pointers.        *)
(***************************************************************************)

Succeed(r, profile, decision) ==
    outcomes' = outcomes \cup {[repository |-> r, profile |-> profile, day |-> day,
                                governance |-> pinned, decision |-> decision,
                                staged |-> staged'[r]]}

\* Mutant: what an earlier evaluation staged is kept.
StageOnce(r, profile) ==
    staged' = [staged EXCEPT
      ![r].policy = IF pinned.policy[profile] = Unset THEN @ ELSE pinned.policy[profile],
      ![r].maps = IF @ = Unset THEN pinned.maps ELSE @]

\* The policy, when one is selected, and the maps replace what is there.
Stage(r, profile) ==
    staged' = [staged EXCEPT
      ![r].policy = IF pinned.policy[profile] = Unset THEN @ ELSE pinned.policy[profile],
      ![r].maps = pinned.maps]

\* Profile and event are checked before anything is staged; the waivers are
\* read after it, and the consumer's pointers last.
Evaluate(r, profile, event) ==
    /\ Cardinality(outcomes) < MaxEvaluations
    /\ event = AdmittedEvent[profile]
    /\ ResolveMode(pinned, profile) \in Modes
    /\ Stage(r, profile)
    /\ LET decision == Decision(pinned, r, profile, day) IN
       IF Refuses(pinned, profile, day) \/ ~(InitialRefs[r] \subseteq decision.waivers)
       THEN UNCHANGED outcomes
       ELSE Succeed(r, profile, decision)
    /\ UNCHANGED <<main, pinned, validated, merges, day>>

\* The job ends, or a destination refuses, while the files are replaced: a
\* map is deleted before it is written.
Interrupted(r, profile) ==
    /\ pinned.policy[profile] # Unset
    /\ \E maps \in {staged[r].maps, Unset, pinned.maps} :
         staged' = [staged EXCEPT ![r] = [policy |-> pinned.policy[profile], maps |-> maps]]
    /\ UNCHANGED <<main, pinned, validated, merges, day, outcomes>>

Next == \/ Validate \/ Merge \/ AdvancePin \/ Midnight
        \/ \E r \in Repositories, profile \in Profiles :
             \/ Interrupted(r, profile)
             \/ \E event \in {AdmittedEvent[p] : p \in Profiles} : Evaluate(r, profile, event)

Spec == Init /\ [][Next]_vars

(***************************************************************************)
(* Properties.                                                             *)
(***************************************************************************)

\* The governance digest says what was decided although it covers neither
\* the day nor the validation: two evaluations of one request under one
\* digest that both succeed decide the same, whatever expired between them
\* (resolve.py fails on an expired waiver instead of dropping it).
DigestDeterminesDecision ==
    \A o, q \in outcomes :
        (/\ o.governance = q.governance
         /\ o.repository = q.repository
         /\ o.profile = q.profile) => o.decision = q.decision

\* No evaluation succeeds on a day past the last day of any waiver of its
\* documents, its own or another repository's, however long ago they were
\* validated; and the waivers a consumer refers to are in scope for it.
WaiversInForce ==
    \A o \in outcomes :
        /\ \A w \in o.governance.waivers : o.day <= w.expires
        /\ \A id \in InitialRefs[o.repository] :
             \E w \in o.governance.waivers :
                w.id = id /\ InScope(w, o.repository, o.profile)

\* What the provider then runs with is what the digest covers: a policy or
\* map left in the workspace by an earlier pin is not used.
StagedAsDigested ==
    \A o \in outcomes :
        /\ o.staged.maps = o.governance.maps
        /\ o.decision.policy \in {Unset, o.staged.policy}
        /\ o.decision.policy = o.governance.policy[o.profile]
=============================================================================

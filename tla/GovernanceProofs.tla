----------------------------- MODULE GovernanceProofs ----------------------------
(***************************************************************************)
(* Proofs about Governance: what an evaluation that succeeds can rely on,  *)
(* for any documents, edits, profiles and consumers, and however many      *)
(* merges, days and evaluations there are.                                 *)
(***************************************************************************)
EXTENDS Governance, TLAPS

\* A workspace holds a policy and maps, whatever they are.
StagedOK == staged = [r \in Repositories |->
                        [policy |-> staged[r].policy, maps |-> staged[r].maps]]

\* An evaluation that succeeded decided by the documents of its digest on its
\* day, found them valid that day, the consumer's references among them, and
\* its workspace as they say.
Sound(o) ==
    /\ o.decision = Decision(o.governance, o.repository, o.profile, o.day)
    /\ WaiversValid(o.governance.waivers, o.day)
    /\ InitialRefs[o.repository] \subseteq o.decision.waivers
    /\ o.staged.maps = o.governance.maps
    /\ o.governance.policy[o.profile] \in {Unset, o.staged.policy}

GovernanceInvariant == StagedOK /\ \A o \in outcomes : Sound(o)

-----------------------------------------------------------------------------
(* The resolution.                                                         *)

\* A decision is one of documents, repository and profile: no day changes it.
LEMMA DecisionIsTimeless ==
    ASSUME NEW docs, NEW r, NEW profile, NEW today, NEW later
    PROVE  Decision(docs, r, profile, today) = Decision(docs, r, profile, later)
BY DEF Decision, ApplicableWaivers

\* What Stage leaves is what the pinned documents say.
LEMMA StageStages ==
    ASSUME StagedOK, NEW r \in Repositories, NEW profile, Stage(r, profile)
    PROVE  /\ StagedOK'
           /\ staged'[r].maps = pinned.maps
           /\ pinned.policy[profile] \in {Unset, staged'[r].policy}
<1> DEFINE policy == IF pinned.policy[profile] = Unset THEN staged[r].policy
                                                       ELSE pinned.policy[profile]
           new == [policy |-> policy, maps |-> pinned.maps]
<1>1. staged[r] = [policy |-> staged[r].policy, maps |-> staged[r].maps]
  BY DEF StagedOK
<1>2. staged' = [staged EXCEPT ![r] = new]
  <2>1. staged' = [staged EXCEPT ![r] = [[staged[r] EXCEPT !.policy = policy]
                                                    EXCEPT !.maps = pinned.maps]]
    <3>1. DOMAIN staged = Repositories
      BY DEF StagedOK
    <3> QED
      BY <3>1 DEF Stage
  <2>2. [[staged[r] EXCEPT !.policy = policy] EXCEPT !.maps = pinned.maps] = new
    <3>1. PICK p, m : staged[r] = [policy |-> p, maps |-> m]
      BY <1>1
    <3> HIDE DEF policy
    <3>2. [staged[r] EXCEPT !.policy = policy] = [policy |-> policy, maps |-> m]
      BY <3>1
    <3>3. [[policy |-> policy, maps |-> m] EXCEPT !.maps = pinned.maps] = new
      OBVIOUS
    <3> QED
      BY <3>2, <3>3, Zenon
  <2> QED
    BY <2>1, <2>2
<1>3. staged'[r] = new
  BY <1>2 DEF StagedOK
<1>4. ASSUME NEW q \in Repositories
      PROVE  staged'[q] = [policy |-> staged'[q].policy, maps |-> staged'[q].maps]
  BY <1>2, <1>3 DEF StagedOK
<1>5. StagedOK'
  BY <1>2, <1>4 DEF StagedOK
<1> QED
  BY <1>3, <1>5

-----------------------------------------------------------------------------
(* Every step keeps the invariant.                                         *)

LEMMA GovernanceStep ==
    ASSUME GovernanceInvariant, [Next]_vars
    PROVE  GovernanceInvariant'
<1> USE DEF GovernanceInvariant
<1>1. CASE UNCHANGED <<staged, outcomes>>
  BY <1>1 DEF StagedOK
<1>2. ASSUME NEW r \in Repositories, NEW profile \in Profiles, Interrupted(r, profile)
      PROVE  GovernanceInvariant'
  <2>1. PICK maps : staged' = [staged EXCEPT ![r] = [policy |-> pinned.policy[profile],
                                                     maps |-> maps]]
    BY <1>2 DEF Interrupted
  <2>2. StagedOK'
    BY <2>1 DEF StagedOK
  <2> QED
    BY <1>2, <2>2 DEF Interrupted
<1>3. ASSUME NEW r \in Repositories, NEW profile \in Profiles, NEW event,
             Evaluate(r, profile, event)
      PROVE  GovernanceInvariant'
  <2> DEFINE decision == Decision(pinned, r, profile, day)
             new == [repository |-> r, profile |-> profile, day |-> day,
                     governance |-> pinned, decision |-> decision, staged |-> staged'[r]]
  <2>1. Stage(r, profile)
    BY <1>3 DEF Evaluate
  <2>2. /\ StagedOK' /\ staged'[r].maps = pinned.maps
        /\ pinned.policy[profile] \in {Unset, staged'[r].policy}
    BY <2>1, StageStages
  <2>3. CASE UNCHANGED outcomes
    BY <2>2, <2>3
  <2>4. CASE /\ ~Refuses(pinned, profile, day) /\ InitialRefs[r] \subseteq decision.waivers
             /\ outcomes' = outcomes \cup {new}
    <3>1. WaiversValid(pinned.waivers, day)
      BY <2>4 DEF Refuses
    <3>2. Sound(new)
      <4> HIDE DEF decision
      <4> QED
        BY <2>2, <2>4, <3>1 DEF Sound, decision
    <3> QED
      BY <2>2, <2>4, <3>2
  <2> QED
    BY <1>3, <2>3, <2>4 DEF Evaluate, Succeed
<1>4. CASE Validate \/ Merge \/ AdvancePin \/ Midnight
  BY <1>1, <1>4 DEF Validate, Merge, AdvancePin, Midnight
<1> QED
  BY <1>1, <1>2, <1>3, <1>4 DEF Next, vars

-----------------------------------------------------------------------------
(* The theorems.                                                           *)

(* Every evaluation that succeeded is sound, whatever was merged, pinned   *)
(* and staged between the evaluations, and however many days passed.       *)
THEOREM GovernanceInvariantHolds == Spec => []GovernanceInvariant
<1>1. Init => GovernanceInvariant
  BY DEF Init, GovernanceInvariant, StagedOK
<1> QED
  BY <1>1, GovernanceStep, PTL DEF Spec

(* The governance digest of resolve.py determines what was decided.        *)
THEOREM DigestDeterminesDecisionHolds == Spec => []DigestDeterminesDecision
<1>1. GovernanceInvariant => DigestDeterminesDecision
  <2> SUFFICES ASSUME GovernanceInvariant, NEW o \in outcomes, NEW q \in outcomes,
                      o.governance = q.governance, o.repository = q.repository,
                      o.profile = q.profile
               PROVE  o.decision = q.decision
    BY DEF DigestDeterminesDecision
  <2>1. /\ o.decision = Decision(o.governance, o.repository, o.profile, o.day)
        /\ q.decision = Decision(q.governance, q.repository, q.profile, q.day)
    BY DEF GovernanceInvariant, Sound
  <2> QED
    BY <2>1, DecisionIsTimeless
<1> QED
  BY <1>1, GovernanceInvariantHolds, PTL

(* No evaluation succeeds past the last day of a waiver of its documents.  *)
THEOREM WaiversInForceHolds == Spec => []WaiversInForce
<1>1. GovernanceInvariant => WaiversInForce
  <2> SUFFICES ASSUME GovernanceInvariant, NEW o \in outcomes
               PROVE  /\ \A w \in o.governance.waivers : o.day <= w.expires
                      /\ \A id \in InitialRefs[o.repository] :
                           \E w \in o.governance.waivers :
                              w.id = id /\ InScope(w, o.repository, o.profile)
    BY DEF WaiversInForce
  <2>1. Sound(o)
    BY DEF GovernanceInvariant
  <2>2. \A w \in o.governance.waivers : o.day <= w.expires
    BY <2>1 DEF Sound, WaiversValid
  <2>3. o.decision.waivers =
          ApplicableWaivers(o.governance.waivers, o.repository, o.profile, o.day)
    BY <2>1 DEF Sound, Decision
  <2> QED
    BY <2>1, <2>2, <2>3 DEF Sound, ApplicableWaivers
<1> QED
  BY <1>1, GovernanceInvariantHolds, PTL

(* The provider runs with the policy and maps that the digest covers.      *)
THEOREM StagedAsDigestedHolds == Spec => []StagedAsDigested
<1>1. GovernanceInvariant => StagedAsDigested
  <2> SUFFICES ASSUME GovernanceInvariant, NEW o \in outcomes
               PROVE  /\ o.staged.maps = o.governance.maps
                      /\ o.decision.policy \in {Unset, o.staged.policy}
                      /\ o.decision.policy = o.governance.policy[o.profile]
    BY DEF StagedAsDigested
  <2>1. Sound(o)
    BY DEF GovernanceInvariant
  <2>2. o.decision.policy = o.governance.policy[o.profile]
    BY <2>1 DEF Sound, Decision
  <2> QED
    BY <2>1, <2>2 DEF Sound
<1> QED
  BY <1>1, GovernanceInvariantHolds, PTL
=============================================================================

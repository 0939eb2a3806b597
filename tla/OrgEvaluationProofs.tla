--------------------------- MODULE OrgEvaluationProofs ---------------------------
(***************************************************************************)
(* Proofs about the two halves of org-ci.yml.  About OrgEvaluation and,    *)
(* through it, RepositoryVerification: what a green evaluation and what    *)
(* accepted outputs mean, for any workspaces, any failing steps, and a     *)
(* cancellation or a loss anywhere.  About EvaluationQueue: which runs are *)
(* displaced, for any runs, revisions and events.                          *)
(***************************************************************************)
EXTENDS OrgEvaluation, EvaluationQueue, SequenceTheorems, TLAPS

-----------------------------------------------------------------------------
(* The admission process of run.py.                                        *)

\* The phases that have succeeded are a beginning of the four, each run as
\* Core's policy admits, and by the implementation that was verified.
RanOK ==
    \A i \in DOMAIN ran : /\ ran[i].phase = Verification!Phases[i]
                          /\ policy = "required" => ran[i].by = "v2"
                          /\ generates \/ ran[i].leaf

\* Until it judges, the process has written nothing and its outputs would say
\* `fail'; it runs phases only of a contract the policy admits.
RunningOK ==
    /\ at \in {"resolve", "classify", "verify", "v1", "v2"} =>
         verdict = Verification!NoVerdict /\ written = 0
    /\ at = "record" => written < 5
    /\ at \in {"resolve", "classify", "verify"} => ran = << >>
    /\ at \in {"v1", "v2"} => Len(ran) < 4
    /\ at \in {"classify", "verify", "v1", "v2"} => policy # "broken"
    /\ at = "v1" => policy = "migration"
    /\ at = "v2" /\ ~generates => tree.facade = "exact" /\ tree.phases = Verification!Phase

VerdictOK ==
    /\ verdict.status = "pass" => Len(ran) = 4
    /\ verdict.status = "not_applicable" =>
         /\ policy = "migration" /\ tree.contract = "absent" /\ ran = << >>
         /\ verdict.version = "absent"

VerificationInvariant == Verification!TypeOK /\ RanOK /\ RunningOK /\ VerdictOK

-----------------------------------------------------------------------------
(* The job.                                                                *)

\* The steps before the current one are over, the others are not.
Ordered == \A i \in DOMAIN Steps : outcome[Steps[i]] = "pending" <=> i >= step

\* An output is written by its own step only.
OutputsOK ==
    /\ step <= 5 => mode = ""
    /\ step <= 13 => gate = ""
    /\ mode # "" => profile \in Profile /\ class \in AllowedEvents[profile]
    /\ gate # "" => outcome["gate"] = "success" /\ Analysed

\* Nothing but an enforcement has failed, and nothing was cut short.
Sound == Failed \subseteq {"enforceVerification", "enforceGate"} /\ ~cancelled

\* As long as that is so, what should have been uploaded has been.
EvidenceOK ==
    Sound /\ Analysed => /\ step > 15 => uploaded
                         /\ step > 16 => handoff

EnforcedOK ==
    /\ step > 18 /\ profile \in Enforcing =>
         outcome["enforceVerification"] =
           IF Verification!Accepts THEN "success" ELSE "failure"
    /\ step > 19 /\ Success /\ Analysed /\ mode = "blocking" => gate = "pass"

EndedOK ==
    /\ ended = "success" => step = 20 /\ Success
    /\ ended = "failure" => step = 20 /\ ~cancelled

EvaluationInvariant ==
    /\ TypeOK /\ VerificationInvariant
    /\ Ordered /\ OutputsOK /\ EvidenceOK /\ EnforcedOK /\ EndedOK

-----------------------------------------------------------------------------
(* The process keeps what its verdict means.                               *)

LEMMA RanIs ==
    ASSUME Verification!TypeOK
    PROVE  /\ ran \in Seq(Verification!Ran) /\ Len(ran) \in 0..4 /\ DOMAIN ran = 1..Len(ran)
           /\ policy \in {"migration", "required", "broken"} /\ generates \in BOOLEAN
           /\ tree \in Verification!Tree /\ verdict \in Verification!Verdict
           /\ written \in 0..5
<1>a. Len(Verification!Phases) = 4 /\ Len(Verification!Names) = 5
  BY DEF Verification!Phases, Verification!Names
<1>1. ran \in Seq(Verification!Ran) /\ Len(ran) <= 4
  BY <1>a DEF Verification!TypeOK
<1>b. Len(ran) \in Nat /\ DOMAIN ran = 1..Len(ran)
  BY <1>1, LenProperties, Zenon
<1>2. Len(ran) \in 0..4 /\ DOMAIN ran = 1..Len(ran)
  BY <1>1, <1>b
<1> QED
  BY <1>a, <1>1, <1>2 DEF Verification!TypeOK, Verification!Policy

\* A judgement has the type of a verdict.
LEMMA Judged ==
    ASSUME Verification!TypeOK, NEW present \in BOOLEAN,
           NEW status \in {"pass", "not_applicable", "fail"},
           NEW version \in {"absent", "v1", "v2", "invalid", "unknown"},
           NEW failure \in {"none", "contract", "command", "infrastructure"},
           Verification!Judge(present, status, version, failure)
    PROVE  /\ verdict' \in Verification!Verdict /\ at' = "record"
           /\ verdict'.status = status /\ verdict'.version = version
BY RanIs DEF Verification!Judge, Verification!Verdict

\* A judgement other than the two that are accepted changes nothing else.
LEMMA RefusalKeeps ==
    ASSUME VerificationInvariant, UNCHANGED <<policy, generates, ran, written>>,
           at \in {"resolve", "classify", "verify", "v1", "v2"},
           tree' \in Verification!Tree,
           verdict' \in Verification!Verdict, at' = "record", verdict'.status = "fail"
    PROVE  VerificationInvariant'
<1>1. Verification!TypeOK'
  BY DEF VerificationInvariant, Verification!TypeOK
<1>2. RanOK' /\ RunningOK'
  BY DEF VerificationInvariant, RanOK, RunningOK
<1>3. VerdictOK'
  BY DEF VerdictOK
<1> QED
  BY <1>1, <1>2, <1>3 DEF VerificationInvariant

\* However a phase ends.
LEMMA PhaseKeeps ==
    ASSUME VerificationInvariant, at \in {"v1", "v2"},
           NEW by \in {"v1", "v2"}, NEW leaf \in BOOLEAN,
           Verification!PhaseEnds(by, leaf), UNCHANGED <<policy, generates, written>>,
           policy = "required" => by = "v2", generates \/ leaf
    PROVE  VerificationInvariant'
<1> USE DEF VerificationInvariant
<1>1. tree' \in Verification!Tree /\ (generates \/ tree' = tree)
  BY RanIs, TreesAssumption DEF Verification!PhaseEnds, Verification!Rewrites
<1>2. CASE ran' = Append(ran, [phase |-> Verification!NextPhase, by |-> by, leaf |-> leaf])
           /\ IF Len(ran') = Len(Verification!Phases)
              THEN Verification!Decide("pass", by, "none")
              ELSE UNCHANGED <<at, verdict>>
  <2> DEFINE this == [phase |-> Verification!NextPhase, by |-> by, leaf |-> leaf]
  <2>0. Len(ran) \in 0..3
    BY RanIs DEF RunningOK
  <2>1. Len(Verification!Phases) = 4
    BY DEF Verification!Phases
  <2>2. this \in Verification!Ran
    <3>1. Verification!NextPhase \in Verification!Phase
      <4>1. Verification!NextPhase = Verification!Phases[Len(ran) + 1]
        BY DEF Verification!NextPhase
      <4>2. \A i \in 1..4 : Verification!Phases[i] \in Verification!Phase
        BY DEF Verification!Phases, Verification!Phase
      <4>3. \A n \in 0..3 : n + 1 \in 1..4
        OBVIOUS
      <4> QED
        BY <2>0, <4>1, <4>2, <4>3, Zenon
    <3> QED
      BY <3>1 DEF Verification!Ran
  <2>3. /\ ran' \in Seq(Verification!Ran) /\ Len(ran') = Len(ran) + 1
        /\ \A i \in 1..Len(ran) : ran'[i] = ran[i]
        /\ ran'[Len(ran) + 1] = this
    BY <1>2, <2>2, RanIs, AppendProperties
  <2>4. DOMAIN ran' = 1..(Len(ran) + 1) /\ DOMAIN ran = 1..Len(ran)
    BY <2>3, RanIs, LenProperties
  <2>5. RanOK'
    <3>1. \A i \in 1..Len(ran) :
            /\ ran[i].phase = Verification!Phases[i]
            /\ policy = "required" => ran[i].by = "v2"
            /\ generates \/ ran[i].leaf
      BY <2>4 DEF RanOK
    <3>2. ASSUME NEW i \in 1..(Len(ran) + 1)
          PROVE  /\ ran'[i].phase = Verification!Phases[i]
                 /\ policy = "required" => ran'[i].by = "v2"
                 /\ generates \/ ran'[i].leaf
      <4>1. CASE i \in 1..Len(ran)
        BY <2>3, <3>1, <4>1
      <4>2. CASE i = Len(ran) + 1
        <5>1. /\ ran'[i].phase = Verification!NextPhase /\ ran'[i].by = by
          BY <2>3, <4>2
        <5>2. ran'[i].leaf = leaf
          BY <2>3, <4>2
        <5> QED
          BY <4>2, <5>1, <5>2, Zenon DEF Verification!NextPhase
      <4> QED
        BY <2>0, <4>1, <4>2
    <3> QED
      BY <2>4, <3>2 DEF RanOK
  <2>6. CASE Len(ran') = 4
    <3>1. verdict' \in Verification!Verdict /\ at' = "record" /\ verdict'.status = "pass"
      BY <1>2, <2>0, <2>1, <2>6, Judged DEF Verification!Decide
    <3>2. Verification!TypeOK'
      BY <1>1, <2>0, <2>1, <2>3, <2>6, <3>1 DEF Verification!TypeOK, Verification!Phases
    <3>3. RunningOK' /\ VerdictOK'
      BY <2>6, <3>1 DEF RunningOK, VerdictOK
    <3> QED
      BY <2>5, <3>2, <3>3
  <2>7. CASE Len(ran') # 4
    <3>1. UNCHANGED <<at, verdict>>
      BY <1>2, <2>0, <2>1, <2>7
    <3>2. Verification!TypeOK'
      BY <1>1, <2>0, <2>1, <2>3, <3>1 DEF Verification!TypeOK, Verification!Phases
    <3>3. RunningOK'
      BY <1>1, <2>0, <2>1, <2>3, <2>7, <3>1 DEF RunningOK
    <3>4. VerdictOK'
      BY <3>1 DEF RunningOK, VerdictOK, Verification!NoVerdict
    <3> QED
      BY <2>5, <3>2, <3>3, <3>4
  <2> QED
    BY <2>6, <2>7
<1>3. CASE (\/ Verification!Decide("fail", by, "command")
            \/ Verification!Decide("fail", by, "infrastructure")) /\ UNCHANGED ran
  <2>1. verdict' \in Verification!Verdict /\ at' = "record" /\ verdict'.status = "fail"
    BY <1>3, Judged DEF Verification!Decide
  <2> QED
    BY <1>1, <1>3, <2>1, RefusalKeeps
<1> QED
  BY <1>2, <1>3 DEF Verification!PhaseEnds

LEMMA VerificationStep ==
    ASSUME VerificationInvariant, Verification!Next \/ UNCHANGED verification
    PROVE  VerificationInvariant'
<1> USE DEF VerificationInvariant
<1>1. CASE UNCHANGED verification
  BY <1>1 DEF verification, Verification!TypeOK, RanOK, RunningOK, VerdictOK
<1>2. ASSUME UNCHANGED <<policy, generates, tree, ran, verdict, written>>,
             at' \in {"classify", "verify", "v1", "v2", "killed"}, RunningOK'
      PROVE  VerificationInvariant'
  BY <1>2 DEF Verification!TypeOK, RanOK, VerdictOK
<1>a. ASSUME UNCHANGED <<policy, generates, tree, ran, written>>,
             at \in {"resolve", "classify", "verify", "v1", "v2"},
             NEW present \in BOOLEAN, NEW version \in {"absent", "v1", "v2", "invalid", "unknown"},
             NEW failure \in {"contract", "command", "infrastructure"},
             Verification!Judge(present, "fail", version, failure)
      PROVE  VerificationInvariant'
  <2>1. tree' \in Verification!Tree
    BY <1>a, RanIs
  <2>2. verdict' \in Verification!Verdict /\ at' = "record" /\ verdict'.status = "fail"
    BY <1>a, Judged
  <2> QED
    BY <1>a, <2>1, <2>2, RefusalKeeps
<1>3. CASE Verification!Resolve
  <2>1. UNCHANGED <<policy, generates, tree, ran, written>> /\ at = "resolve"
    BY <1>3 DEF Verification!Resolve
  <2>2. CASE policy = "broken"
          /\ Verification!Judge(tree.contract # "absent", "fail", "unknown", "infrastructure")
    BY <1>a, <2>1, <2>2
  <2>3. CASE policy = "required" /\ Verification!Judge(FALSE, "fail", "absent", "contract")
    BY <1>a, <2>1, <2>3
  <2>4. CASE policy = "migration" /\ tree.contract = "absent"
          /\ Verification!Judge(FALSE, "not_applicable", "absent", "none")
    <3>1. /\ verdict' \in Verification!Verdict /\ at' = "record"
          /\ verdict'.status = "not_applicable" /\ verdict'.version = "absent"
      BY <2>4, Judged
    <3>2. ran = << >>
      BY <2>1 DEF RunningOK
    <3> QED
      BY <2>1, <2>4, <3>1, <3>2 DEF Verification!TypeOK, RanOK, RunningOK, VerdictOK
  <2>5. CASE policy # "broken" /\ at' = "classify" /\ UNCHANGED verdict
    <3>1. RunningOK'
      BY <2>1, <2>5 DEF RunningOK
    <3> QED
      BY <1>2, <2>1, <2>5, <3>1
  <2> QED
    BY <1>3, <2>2, <2>3, <2>4, <2>5 DEF Verification!Resolve
<1>4. CASE Verification!Classify
  <2>1. UNCHANGED <<policy, generates, tree, ran, written>> /\ at = "classify"
    BY <1>4 DEF Verification!Classify
  <2>2. CASE \/ at' = "verify" /\ UNCHANGED verdict
             \/ policy = "migration" /\ at' = "v1" /\ UNCHANGED verdict
    <3>1. Len(ran) < 4
      BY <2>1 DEF RunningOK
    <3>2. RunningOK'
      BY <2>1, <2>2, <3>1 DEF RunningOK
    <3> QED
      BY <1>2, <2>1, <2>2, <3>2
  <2>3. CASE \/ Verification!Decide("fail", "v1", "contract")
             \/ Verification!Decide("fail", "invalid", "contract")
    BY <1>a, <2>1, <2>3 DEF Verification!Decide
  <2> QED
    BY <1>4, <2>2, <2>3 DEF Verification!Classify
<1>5. CASE Verification!Verify
  <2>1. UNCHANGED <<policy, generates, tree, ran, written>> /\ at = "verify"
    BY <1>5 DEF Verification!Verify
  <2>2. CASE tree.facade = "exact" /\ tree.phases = Verification!Phase /\ at' = "v2"
          /\ UNCHANGED verdict
    <3>1. Len(ran) < 4
      BY <2>1 DEF RunningOK
    <3>2. RunningOK'
      BY <2>1, <2>2, <3>1 DEF RunningOK
    <3> QED
      BY <1>2, <2>1, <2>2, <3>2
  <2>3. CASE \/ Verification!Decide("fail", "v2", "contract")
             \/ Verification!Decide("fail", "v2", "infrastructure")
    BY <1>a, <2>1, <2>3 DEF Verification!Decide
  <2> QED
    BY <1>5, <2>2, <2>3 DEF Verification!Verify
<1>6. CASE Verification!RunV2
  <2> DEFINE leaf == tree.facade = "exact" /\ Verification!NextPhase \in tree.phases
  <2>1. at = "v2" /\ UNCHANGED <<policy, generates, written>> /\ Verification!PhaseEnds("v2", leaf)
    BY <1>6 DEF Verification!RunV2
  <2>2. generates \/ leaf
    <3>1. Len(ran) \in 0..3
      BY <2>1, RanIs DEF RunningOK
    <3>2. \A n \in 0..3 : Verification!Phases[n + 1] \in Verification!Phase
      BY DEF Verification!Phases, Verification!Phase
    <3>3. Verification!NextPhase \in Verification!Phase
      BY <3>1, <3>2, Zenon DEF Verification!NextPhase
    <3> QED
      BY <2>1, <3>3 DEF RunningOK
  <2> HIDE DEF leaf
  <2>3. leaf \in BOOLEAN
    BY DEF leaf
  <2> QED
    BY <2>1, <2>2, <2>3, PhaseKeeps
<1>7. CASE Verification!RunV1
  <2>1. at = "v1" /\ UNCHANGED <<policy, generates, written>> /\ policy = "migration"
    BY <1>7 DEF Verification!RunV1, RunningOK
  <2>2. CASE Verification!PhaseEnds("v1", TRUE)
    BY <2>1, <2>2, PhaseKeeps
  <2>3. CASE Verification!Decide("fail", "v1", "contract") /\ UNCHANGED <<tree, ran>>
    BY <1>a, <2>1, <2>3 DEF Verification!Decide
  <2> QED
    BY <1>7, <2>2, <2>3 DEF Verification!RunV1
<1>8. CASE Verification!RefuseRoot
  BY <1>a, <1>8 DEF Verification!RefuseRoot, Verification!Decide
<1>9. CASE Verification!Record
  <2>a. Len(Verification!Names) = 5
    BY DEF Verification!Names
  <2>1. /\ at = "record" /\ written' = written + 1
        /\ at' = IF written' = 5 THEN "exited" ELSE at
        /\ UNCHANGED <<policy, generates, tree, ran, verdict>>
    BY <1>9, <2>a DEF Verification!Record
  <2>3. written' \in 0..5 /\ at' \in {"record", "exited"} /\ (at' = "record" => written' < 5)
    <3>1. written \in 0..5 /\ written < 5
      BY <2>1, RanIs DEF RunningOK
    <3> QED
      BY <2>1, <3>1
  <2>2. RanOK' /\ RunningOK' /\ VerdictOK'
    BY <2>1, <2>3 DEF RanOK, RunningOK, VerdictOK
  <2> QED
    BY <2>a, <2>1, <2>2, <2>3 DEF Verification!TypeOK
<1>10. CASE Verification!Kill
  <2>1. /\ at' = "killed" /\ UNCHANGED <<policy, generates, tree, ran, verdict, written>>
    BY <1>10 DEF Verification!Kill
  <2>2. RunningOK'
    BY <2>1 DEF RunningOK
  <2> QED
    BY <1>2, <2>1, <2>2
<1> QED
  BY <1>1, <1>3, <1>4, <1>5, <1>6, <1>7, <1>8, <1>9, <1>10 DEF Verification!Next

LEMMA VerificationStart ==
    ASSUME Verification!Init PROVE VerificationInvariant
<1>1. Verification!NoVerdict \in Verification!Verdict
  BY DEF Verification!NoVerdict, Verification!Verdict
<1>2. Verification!TypeOK
  <2>1. << >> \in Seq(Verification!Ran) /\ Len(<< >>) = 0
    BY EmptySeq
  <2>2. Len(Verification!Phases) = 4 /\ Len(Verification!Names) = 5
    BY DEF Verification!Phases, Verification!Names
  <2> QED
    BY <1>1, <2>1, <2>2, TreesAssumption DEF Verification!Init, Verification!TypeOK
<1>3. RanOK /\ RunningOK /\ VerdictOK
  <2>1. Len(<< >>) = 0
    BY EmptySeq
  <2>2. at = "resolve" /\ ran = << >> /\ verdict = Verification!NoVerdict /\ written = 0
    BY DEF Verification!Init
  <2>3. verdict.status = "fail"
    BY <2>2 DEF Verification!NoVerdict
  <2> QED
    BY <2>1, <2>2, <2>3 DEF RanOK, RunningOK, VerdictOK
<1> QED
  BY <1>2, <1>3 DEF VerificationInvariant

\* Accepted outputs carry an accepted judgement.
LEMMA AcceptedIs ==
    ASSUME Verification!Accepts
    PROVE  verdict.status \in {"pass", "not_applicable"}
<1>1. Verification!Output("status") \in {"pass", "not_applicable"}
  BY DEF Verification!Accepts
<1>2. Verification!Output("status") \in {verdict["status"], ""}
  BY DEF Verification!Output
<1> QED
  BY <1>1, <1>2

\* A judgement `pass' is one of all four phases.
LEMMA PassRanAll ==
    ASSUME VerificationInvariant, verdict.status = "pass"
    PROVE  Verification!Done = Verification!Phases
<1>1. Len(ran) = 4 /\ DOMAIN ran = 1..4
  BY RanIs DEF VerificationInvariant, VerdictOK
<1>2. \A i \in 1..4 : ran[i].phase = Verification!Phases[i]
  BY <1>1 DEF VerificationInvariant, RanOK
<1>3. Verification!Done = [i \in 1..4 |-> Verification!Phases[i]]
  BY <1>1, <1>2, Zenon DEF Verification!Done
<1>4. Verification!Phases = [i \in 1..4 |-> Verification!Phases[i]]
  BY DEF Verification!Phases
<1> QED
  BY <1>3, <1>4

LEMMA AcceptedVerified ==
    ASSUME VerificationInvariant, Verification!Accepts
    PROVE  Verification!Verified
<1>1. CASE verdict.status = "pass"
  <2>1. Verification!Done = Verification!Phases
    BY <1>1, PassRanAll
  <2> QED
    BY <2>1, Zenon DEF VerificationInvariant, RanOK, Verification!Verified
<1>2. CASE verdict.status = "not_applicable"
  BY <1>2 DEF VerificationInvariant, VerdictOK, Verification!Verified
<1> QED
  BY <1>1, <1>2, AcceptedIs

-----------------------------------------------------------------------------
(* The steps of the job.                                                   *)

Ends == {"success", "failure", "skipped", "cancelled"}

LEMMA StepsAre ==
    /\ Len(Steps) = 19 /\ DOMAIN Steps = 1..19
    /\ Steps[1] = "runtime" /\ Steps[5] = "governance" /\ Steps[7] = "provision" /\ Steps[10] = "verification" /\ Steps[13] = "gate"
    /\ Steps[15] = "upload" /\ Steps[16] = "handoff"
    /\ Steps[18] = "enforceVerification" /\ Steps[19] = "enforceGate"
    /\ \A i \in 1..19 : Steps[i] \in StepName
BY DEF Steps, StepName

LEMMA StepsDiffer ==
    ASSUME NEW i \in 1..19, NEW j \in 1..19, Steps[i] = Steps[j]
    PROVE  i = j
BY DEF Steps

\* A step that ends is no longer pending and the next one is considered; no
\* other step's outcome changes.
LEMMA StepEnds ==
    ASSUME TypeOK, Ordered, NEW s \in StepName, NEW how \in Ends, At(s), Finish(s, how)
    PROVE  /\ step \in 1..19 /\ Steps[step] = s /\ step' = step + 1
           /\ outcome[s] = "pending" /\ outcome'[s] = how
           /\ \A q \in StepName \ {s} : outcome'[q] = outcome[q]
           /\ outcome' \in [StepName -> Ends \cup {"pending"}] /\ step' \in 0..20
           /\ Ordered'
           /\ Failed' = IF how = "failure" THEN Failed \cup {s} ELSE Failed
<1>1. step \in 1..19 /\ Steps[step] = s /\ step' = step + 1 /\ step' \in 0..20
  BY StepsAre DEF At, Finish
<1>2. outcome \in [StepName -> Ends \cup {"pending"}]
  BY DEF TypeOK, Ends
<1>3. /\ outcome[s] = "pending" /\ outcome'[s] = how
      /\ \A q \in StepName \ {s} : outcome'[q] = outcome[q]
      /\ outcome' \in [StepName -> Ends \cup {"pending"}]
  <2>1. outcome[s] = "pending"
    BY <1>1, StepsAre DEF Ordered
  <2> QED
    BY <1>2, <2>1 DEF Finish
<1>4. how # "pending"
  BY DEF Ends
<1>5. Ordered'
  <2> SUFFICES ASSUME NEW i \in 1..19
               PROVE  outcome'[Steps[i]] = "pending" <=> i >= step + 1
    BY <1>1, StepsAre DEF Ordered
  <2>1. CASE i = step
    BY <1>1, <1>3, <1>4, <2>1
  <2>2. CASE i # step
    <3>1. outcome'[Steps[i]] = outcome[Steps[i]]
      BY <1>1, <1>3, <2>2, StepsAre, StepsDiffer
    <3>2. outcome[Steps[i]] = "pending" <=> i >= step
      BY StepsAre DEF Ordered
    <3> QED
      BY <1>1, <2>2, <3>1, <3>2
  <2> QED
    BY <2>1, <2>2
<1>6. Failed' = IF how = "failure" THEN Failed \cup {s} ELSE Failed
  BY <1>3 DEF Failed
<1> QED
  BY <1>1, <1>3, <1>5, <1>6

\* What a step does to the course of the job: a step of the job ends, or the
\* job is entered, left, or the current step goes on.
StepOver == \E s \in StepName, how \in Ends : At(s) /\ Finish(s, how)
StepOn == UNCHANGED outcome /\ (step' = step \/ (step = 0 /\ step' = 1))

LEMMA CourseOfJob ==
    ASSUME TypeOK, Next
    PROVE  /\ StepOver \/ StepOn
           /\ Verification!Next \/ UNCHANGED verification
           /\ UNCHANGED <<trigger, onDefault>>
<1> USE DEF Idle, Due, Ends, StepOver, StepOn
<1>1. CASE Admit \/ Conclude \/ Lose
  BY <1>1 DEF Admit, Conclude, Lose
<1>2. CASE Runtime \/ CheckPush \/ Govern \/ Provision
  <2>1. \E s \in {"runtime", "push", "governance", "provision"}, how \in Ends :
          At(s) /\ Finish(s, how)
    BY <1>2 DEF Runtime, CheckPush, Govern, Provision
  <2>2. {"runtime", "push", "governance", "provision"} \subseteq StepName
    BY DEF StepName, Steps
  <2> QED
    BY <1>2, <2>1, <2>2 DEF Runtime, CheckPush, Govern, Provision
<1>3. CASE FinishVerification \/ Evaluate \/ Upload \/ Describe
  <2>1. \E s \in {"verification", "gate", "upload", "handoff"}, how \in Ends :
          At(s) /\ Finish(s, how)
    BY <1>3 DEF FinishVerification, Evaluate, Upload, Describe
  <2>2. {"verification", "gate", "upload", "handoff"} \subseteq StepName
    BY DEF StepName, Steps
  <2> QED
    BY <1>3, <2>1, <2>2 DEF FinishVerification, Evaluate, Upload, Describe
<1>4. CASE EnforceVerification \/ EnforceGate
  <2>1. \E s \in {"enforceVerification", "enforceGate"}, how \in Ends :
          At(s) /\ Finish(s, how)
    BY <1>4 DEF EnforceVerification, EnforceGate
  <2>2. {"enforceVerification", "enforceGate"} \subseteq StepName
    BY DEF StepName, Steps
  <2> QED
    BY <1>4, <2>1, <2>2 DEF EnforceVerification, EnforceGate
<1>5. CASE Verify
  BY <1>5 DEF Verify, Verification!Next
<1>6. CASE Skip
  <2>1. At(Steps[step]) /\ Finish(Steps[step], "skipped") /\ Steps[step] \in StepName
    BY <1>6, StepsAre DEF Skip, At
  <2> QED
    BY <1>6, <2>1 DEF Skip
<1>7. CASE Cancel
  <2>1. Steps[step] \in StepName /\ At(Steps[step])
    BY <1>7, StepsAre DEF Cancel, At
  <2> QED
    BY <1>7, <2>1 DEF Cancel, Verification!Next
<1>8. ASSUME NEW s \in StepName, Work(s)
      PROVE  StepOver /\ UNCHANGED verification /\ UNCHANGED <<trigger, onDefault>>
  BY <1>8 DEF Work
<1> QED
  BY <1>1, <1>2, <1>3, <1>4, <1>5, <1>6, <1>7, <1>8 DEF Next, Proceed

LEMMA OrderedStep ==
    ASSUME TypeOK, Ordered, [Next]_vars
    PROVE  Ordered'
<1>1. CASE UNCHANGED vars
  BY <1>1 DEF vars, Ordered
<1>2. CASE StepOver
  BY <1>2, StepEnds DEF StepOver
<1>3. CASE StepOn
  BY <1>3, StepsAre DEF StepOn, Ordered
<1> QED
  BY <1>1, <1>2, <1>3, CourseOfJob

\* The class and the profile step runtime resolves.
LEMMA ResolvedIs ==
    ASSUME trigger \in Trigger, NEW r \in Resolved
    PROVE  r[1] \in Class /\ r[2] \in Profile \cup Class \cup {"", Bogus}
<1>1. PICK c, p : r = <<c, p>> /\ c \in Class
          /\ p \in {trigger.claim, c, Expected(c)}
  BY DEF Resolved
<1>2. trigger.claim \in Profile \cup {"", Bogus}
  BY DEF Trigger
<1>3. Expected(c) \in Profile \cup Class
  BY <1>1 DEF Expected, Profile, Class
<1> QED
  BY <1>1, <1>2, <1>3

\* What each output may become, and in which step.
LEMMA OutputStep ==
    ASSUME TypeOK, [Next]_vars
    PROVE  /\ UNCHANGED <<class, profile>> \/
                (/\ At("runtime") /\ class' \in Class
                 /\ profile' \in Profile \cup Class \cup {"", Bogus})
           /\ mode' = mode \/ (/\ At("governance") /\ step' = step + 1 /\ mode' \in Mode
                               /\ profile \in Profile /\ class \in AllowedEvents[profile])
           /\ language' = language \/ (At("provision") /\ language' \in {"some", "none"})
           /\ gate' = gate \/ (/\ At("gate") /\ Analysed /\ Finish("gate", "success")
                               /\ gate' \in {"pass", "fail", "incomplete"})
<1>1. CASE UNCHANGED vars
  BY <1>1 DEF vars, outputs
<1>2. CASE Admit \/ Conclude \/ Lose \/ Skip \/ Cancel \/ Verify \/ FinishVerification
  BY <1>2 DEF Admit, Conclude, Lose, Skip, Cancel, Verify, FinishVerification, outputs
<1>3. CASE CheckPush \/ Upload \/ Describe \/ EnforceVerification \/ EnforceGate
           \/ \E s \in StepName : Work(s)
  BY <1>3 DEF CheckPush, Upload, Describe, EnforceVerification, EnforceGate, Work, outputs
<1>4. CASE Runtime
  <2>1. UNCHANGED <<class, profile>> \/
          (/\ At("runtime") /\ class' \in Class
           /\ profile' \in Profile \cup Class \cup {"", Bogus})
    BY <1>4, ResolvedIs DEF Runtime, Due, TypeOK
  <2> QED
    BY <1>4, <2>1 DEF Runtime
<1>5. CASE Govern
  BY <1>5 DEF Govern, Due, Finish
<1>6. CASE Provision
  BY <1>6 DEF Provision, Due
<1>7. CASE Evaluate
  <2>1. Analysed /\ At("gate")
    BY <1>7 DEF Evaluate, Due, Condition, Analysis
  <2> QED
    BY <1>7, <2>1 DEF Evaluate
<1> QED
  BY <1>1, <1>2, <1>3, <1>4, <1>5, <1>6, <1>7 DEF Next, Proceed

LEMMA TypeStep ==
    ASSUME TypeOK, VerificationInvariant, Ordered, [Next]_vars
    PROVE  TypeOK' /\ VerificationInvariant'
<1>1. VerificationInvariant'
  BY VerificationStep, CourseOfJob DEF vars, verification
<1>2. trigger' \in Trigger /\ onDefault' \in BOOLEAN
  BY CourseOfJob DEF TypeOK, vars
<1>3. outcome' \in [StepName -> Ends \cup {"pending"}] /\ step' \in 0..20
  <2>a. Len(Steps) + 1 = 20
    BY StepsAre
  <2>1. outcome \in [StepName -> Ends \cup {"pending"}] /\ step \in 0..20
    BY <2>a DEF TypeOK, Ends
  <2>2. CASE StepOver
    BY <2>2, StepEnds DEF StepOver
  <2>3. CASE StepOn \/ UNCHANGED vars
    <3>1. outcome' = outcome /\ step' \in {step, 1}
      BY <2>3 DEF StepOn, vars
    <3> QED
      BY <2>1, <3>1
  <2> QED
    BY <2>2, <2>3, CourseOfJob
<1>4. /\ class' \in Class \cup {""} /\ profile' \in Profile \cup Class \cup {"", Bogus}
      /\ mode' \in Mode \cup {""} /\ language' \in {"", "some", "none"}
      /\ gate' \in {"", "pass", "fail", "incomplete"}
  BY OutputStep DEF TypeOK
<1>5. uploaded' \in BOOLEAN /\ handoff' \in BOOLEAN
  <2>1. CASE UNCHANGED <<uploaded, handoff>>
    BY <2>1 DEF TypeOK
  <2>2. CASE Upload
    BY <2>2 DEF Upload, TypeOK
  <2>3. CASE Describe
    BY <2>3 DEF Describe, TypeOK
  <2>4. CASE Cancel
    <3>1. At("upload") \in BOOLEAN
      BY DEF At
    <3> QED
      BY <2>4, <3>1 DEF Cancel, TypeOK
  <2> QED
    BY <2>1, <2>2, <2>3, <2>4
    DEF Next, Proceed, Admit, Runtime, CheckPush, Govern, Provision, Verify,
        FinishVerification, Evaluate, EnforceVerification, EnforceGate, Skip, Conclude,
        Work, Lose, vars
<1>6. cancelled' \in BOOLEAN
      /\ ended' \in {"no", "success", "failure", "cancelled", "skipped"}
  <2>1. CASE UNCHANGED <<ended, cancelled>>
    BY <2>1 DEF TypeOK
  <2>2. CASE Admit \/ Conclude \/ Lose \/ Cancel
    BY <2>2 DEF Admit, Conclude, Lose, Cancel, TypeOK
  <2> QED
    BY <2>1, <2>2
    DEF Next, Proceed, Runtime, CheckPush, Govern, Provision, Verify,
        FinishVerification, Evaluate, Upload, Describe, EnforceVerification, EnforceGate, Skip,
        Work, Idle, vars
<1>7. Verification!TypeOK' /\ Len(Steps) + 1 = 20
  BY <1>1, StepsAre DEF VerificationInvariant
<1> QED
  BY <1>1, <1>2, <1>3, <1>4, <1>5, <1>6, <1>7 DEF TypeOK, Ends

-----------------------------------------------------------------------------
(* Where each step stands, and that nothing is taken back.                 *)

LEMMA StandsAt ==
    ASSUME TypeOK
    PROVE  /\ At("runtime") => step = 1
           /\ At("governance") => step = 5
           /\ At("provision") => step = 7
           /\ At("verification") => step = 10
           /\ At("gate") => step = 13
           /\ At("upload") => step = 15
           /\ At("handoff") => step = 16
           /\ At("enforceVerification") => step = 18
           /\ At("enforceGate") => step = 19
<1>1. \A i \in 1..19 : At(Steps[i]) => step = i
  BY StepsAre, StepsDiffer DEF At
<1>2. {1, 5, 7, 10, 13, 15, 16, 18, 19} \subseteq 1..19
  OBVIOUS
<1>3. /\ Steps[1] = "runtime" /\ Steps[5] = "governance" /\ Steps[7] = "provision"
      /\ Steps[10] = "verification" /\ Steps[13] = "gate" /\ Steps[15] = "upload"
      /\ Steps[16] = "handoff" /\ Steps[18] = "enforceVerification"
      /\ Steps[19] = "enforceGate"
  BY StepsAre
<1> QED
  BY <1>1, <1>2, <1>3, Zenon

LEMMA NothingTakenBack ==
    ASSUME TypeOK, Ordered, [Next]_vars
    PROVE  /\ step \in Nat /\ step' \in Nat /\ step <= step' /\ step' <= step + 1
           /\ Failed \subseteq Failed' /\ (cancelled => cancelled')
           /\ \A i \in 1..19 : i < step => outcome'[Steps[i]] = outcome[Steps[i]]
<1>a. Len(Steps) + 1 = 20
  BY StepsAre
<1>1. step \in 0..20
  BY <1>a, Zenon DEF TypeOK
<1>4. cancelled => cancelled'
  BY DEF Next, Proceed, Admit, Runtime, CheckPush, Govern, Provision, Verify,
     FinishVerification, Evaluate, Upload, Describe, EnforceVerification, EnforceGate, Skip,
     Conclude, Work, Cancel, Lose, Idle, vars
<1>2. CASE StepOver
  <2>1. PICK s \in StepName, how \in Ends : At(s) /\ Finish(s, how)
    BY <1>2 DEF StepOver
  <2>2. /\ step \in 1..19 /\ Steps[step] = s /\ step' = step + 1
        /\ Failed \subseteq Failed'
        /\ \A q \in StepName \ {s} : outcome'[q] = outcome[q]
    BY <2>1, StepEnds
  <2>3. ASSUME NEW i \in 1..19, i < step PROVE outcome'[Steps[i]] = outcome[Steps[i]]
    <3>1. Steps[i] # s
      BY <2>2, <2>3, StepsDiffer
    <3> QED
      BY <2>2, <3>1, StepsAre
  <2>4. step \in Nat /\ step' \in Nat /\ step <= step' /\ step' <= step + 1
    BY <1>1, <2>2
  <2> QED
    BY <1>4, <2>2, <2>3, <2>4, Zenon
<1>3. CASE StepOn \/ UNCHANGED vars
  <2>1. outcome' = outcome /\ (step' = step \/ (step = 0 /\ step' = 1))
    BY <1>3, Zenon DEF StepOn, vars
  <2>2. Failed' = Failed
    BY <2>1, Zenon DEF Failed
  <2>3. step \in Nat /\ step' \in Nat /\ step <= step' /\ step' <= step + 1
    BY <1>1, <2>1
  <2> QED
    BY <1>4, <2>1, <2>2, <2>3, Zenon
<1> QED
  BY <1>2, <1>3, CourseOfJob, Zenon

\* After its step, what the verification decided and wrote stays.
LEMMA VerificationStops ==
    ASSUME TypeOK, step > 10, [Next]_vars
    PROVE  Verification!Accepts' <=> Verification!Accepts
<1>1. UNCHANGED verification
  <2>1. ~At("verification")
    BY StandsAt
  <2> QED
    BY <2>1 DEF Next, Proceed, Admit, Runtime, CheckPush, Govern, Provision, Verify,
       FinishVerification, Evaluate, Upload, Describe, EnforceVerification, EnforceGate, Skip,
       Conclude, Work, Cancel, Lose, Due, vars
<1> QED
  BY <1>1 DEF verification, Verification!Accepts, Verification!Output

-----------------------------------------------------------------------------
(* Every step keeps the invariant.                                         *)

\* The steps outside which an output stands.
LEMMA OutputStands ==
    ASSUME TypeOK, [Next]_vars
    PROVE  /\ step # 1 => UNCHANGED <<class, profile>>
           /\ step # 5 => mode' = mode
           /\ step # 7 => language' = language
           /\ step # 13 => gate' = gate
BY OutputStep, StandsAt, Zenon

LEMMA OutputsStep ==
    ASSUME TypeOK, Ordered, OutputsOK, [Next]_vars
    PROVE  /\ OutputsOK'
           /\ step > 7 => (Analysed' <=> Analysed) /\ mode' = mode /\ profile' = profile
           /\ step > 13 => gate' = gate
<1>1. step \in Nat /\ step' \in Nat /\ step <= step'
  BY NothingTakenBack
<1>a. step > 13 => outcome'["gate"] = outcome["gate"]
  <2>1. step > 13 => outcome'[Steps[13]] = outcome[Steps[13]]
    <3>1. 13 \in 1..19 /\ (step > 13 => 13 < step)
      BY <1>1
    <3> QED
      BY <3>1, NothingTakenBack, Zenon
  <2>2. Steps[13] = "gate"
    BY StepsAre
  <2> QED
    BY <2>1, <2>2, Zenon
<1>2. step > 7 => UNCHANGED <<mode, language, class, profile>>
  <2>1. step > 7 => step # 1 /\ step # 5 /\ step # 7
    BY <1>1
  <2> QED
    BY <2>1, OutputStands, Zenon
<1>3. step > 7 => (Analysed' <=> Analysed)
  BY <1>2, Zenon DEF Analysed, Enabled
<1>8. step > 13 => gate' = gate
  <2>1. step > 13 => step # 13
    BY <1>1
  <2> QED
    BY <2>1, OutputStands, Zenon
<1>b. /\ step <= 5 => mode = ""
      /\ step <= 13 => gate = ""
  BY Zenon DEF OutputsOK
<1>4. step' <= 5 => mode' = ""
  <2>1. CASE mode' = mode
    <3>1. step' <= 5 => step <= 5
      BY <1>1
    <3> QED
      BY <1>b, <2>1, <3>1, Zenon
  <2>2. CASE mode' # mode
    <3>1. At("governance") /\ step' = step + 1
      BY <2>2, OutputStep, Zenon
    <3>2. step = 5
      BY <3>1, StandsAt, Zenon
    <3>3. ~(step' <= 5)
      BY <3>1, <3>2
    <3> QED
      BY <3>3
  <2> QED
    BY <2>1, <2>2
<1>c. ASSUME gate' # gate
      PROVE  step = 13 /\ step' = 14 /\ outcome'["gate"] = "success" /\ Analysed'
  <2>1. At("gate") /\ Analysed /\ Finish("gate", "success")
    BY <1>c, OutputStep, Zenon
  <2>2. step = 13
    BY <2>1, StandsAt, Zenon
  <2>3. "gate" \in StepName /\ "success" \in Ends
    BY DEF StepName, Steps, Ends
  <2>4. step' = step + 1 /\ outcome'["gate"] = "success"
    BY <2>1, <2>3, StepEnds, Zenon
  <2>5. Analysed'
    <3>1. step > 7
      BY <2>2
    <3> QED
      BY <1>3, <2>1, <3>1, Zenon
  <2>6. step' = 14
    BY <2>2, <2>4
  <2> QED
    BY <2>2, <2>4, <2>5, <2>6, Zenon
<1>5. step' <= 13 => gate' = ""
  <2>1. step' <= 13 => step <= 13 /\ step' # 14
    BY <1>1
  <2> QED
    BY <1>b, <1>c, <2>1, Zenon
<1>6. mode' # "" => profile' \in Profile /\ class' \in AllowedEvents[profile']
  <2>1. CASE mode' = mode
    <3>1. SUFFICES ASSUME mode # ""
                   PROVE  profile' \in Profile /\ class' \in AllowedEvents[profile']
      BY <2>1
    <3>2. step # 1
      <4>1. step = 1 => step <= 5
        OBVIOUS
      <4> QED
        BY <1>b, <3>1, <4>1, Zenon
    <3>3. UNCHANGED <<class, profile>>
      BY <3>2, OutputStands, Zenon
    <3> QED
      BY <3>1, <3>3, Zenon DEF OutputsOK
  <2>2. CASE mode' # mode
    <3>1. At("governance") /\ profile \in Profile /\ class \in AllowedEvents[profile]
      BY <2>2, OutputStep, Zenon
    <3>2. step # 1
      BY <3>1, StandsAt
    <3>3. UNCHANGED <<class, profile>>
      BY <3>2, OutputStands, Zenon
    <3> QED
      BY <3>1, <3>3, Zenon
  <2> QED
    BY <2>1, <2>2
<1>7. gate' # "" => outcome'["gate"] = "success" /\ Analysed'
  <2>1. CASE gate' = gate
    <3>1. SUFFICES ASSUME gate # "" PROVE outcome'["gate"] = "success" /\ Analysed'
      BY <2>1
    <3>2. step > 13 /\ step > 7
      <4>1. ~(step <= 13)
        BY <1>b, <3>1, Zenon
      <4> QED
        BY <1>1, <4>1
    <3> QED
      BY <1>a, <1>3, <3>1, <3>2, Zenon DEF OutputsOK
  <2> QED
    BY <2>1, <1>c
<1> QED
  BY <1>2, <1>3, <1>4, <1>5, <1>6, <1>7, <1>8, Zenon DEF OutputsOK

\* The evidence is written by its two steps only.
LEMMA StoreStep ==
    ASSUME TypeOK, [Next]_vars
    PROVE  /\ step # 15 => uploaded' = uploaded
           /\ step # 16 => handoff' = handoff
<1>1. uploaded' = uploaded \/ At("upload")
  <2>1. CASE Cancel
    <3>1. uploaded' \in {uploaded, uploaded \/ At("upload")} \/ uploaded' = uploaded
      BY <2>1, Zenon DEF Cancel
    <3>2. uploaded \in BOOLEAN
      BY DEF TypeOK
    <3> QED
      BY <3>1, <3>2, Zenon
  <2> QED
    BY <2>1, Zenon
    DEF Next, Proceed, Admit, Runtime, CheckPush, Govern, Provision, Verify,
        FinishVerification, Evaluate, Upload, Describe, EnforceVerification, EnforceGate, Skip,
        Conclude, Work, Lose, Due, vars
<1>2. handoff' = handoff \/ At("handoff")
  BY Zenon
  DEF Next, Proceed, Admit, Runtime, CheckPush, Govern, Provision, Verify,
      FinishVerification, Evaluate, Upload, Describe, EnforceVerification, EnforceGate, Skip,
      Conclude, Work, Cancel, Lose, Due, vars
<1> QED
  BY <1>1, <1>2, StandsAt, Zenon

\* How the steps that publish and enforce are left behind: carried out,
\* skipped on their condition, or cut short by a cancellation, which the
\* enforcement of the verification is not.
LEMMA StepTaken ==
    ASSUME TypeOK, [Next]_vars, step' # step, step \in 1..19,
           NEW s \in {"upload", "handoff", "enforceVerification", "enforceGate"}, At(s)
    PROVE  \/ cancelled' /\ s # "enforceVerification"
           \/ Skip /\ ~Condition(s)
           \/ s = "upload" /\ Upload
           \/ s = "handoff" /\ Describe
           \/ s = "enforceVerification" /\ EnforceVerification
           \/ s = "enforceGate" /\ EnforceGate
<1>1. Steps[step] = s /\ step # 0
  BY DEF At
<1>2. ~UNCHANGED vars /\ ~Lose /\ ~Conclude /\ ~Verify /\ ~Admit
  BY <1>1, Zenon DEF vars, Lose, Conclude, Verify, Admit
<1>3. ~Runtime /\ ~CheckPush /\ ~Govern /\ ~Provision /\ ~FinishVerification /\ ~Evaluate
  BY <1>1 DEF Runtime, CheckPush, Govern, Provision, FinishVerification, Evaluate, Due, At
<1>4. ASSUME NEW q \in StepName PROVE ~Work(q)
  BY <1>1 DEF Work, Due, At
<1>5. /\ Upload => s = "upload"
      /\ Describe => s = "handoff"
      /\ EnforceVerification => s = "enforceVerification"
      /\ EnforceGate => s = "enforceGate"
  BY <1>1, Zenon
  DEF Upload, Describe, EnforceVerification, EnforceGate, Due, At
<1>6. Skip => ~Condition(s)
  BY <1>1, Zenon DEF Skip
<1>7. Cancel => cancelled' /\ s # "enforceVerification"
  <2>1. Cancel => cancelled' = TRUE /\ Steps[step] \notin Always
    BY Zenon DEF Cancel
  <2>2. "enforceVerification" \in Always
    BY DEF Always
  <2> QED
    BY <1>1, <2>1, <2>2, Zenon
<1> QED
  BY <1>2, <1>3, <1>4, <1>5, <1>6, <1>7, Zenon DEF Next, Proceed

\* Until the enforcements, a sound job is one in which nothing has failed.
LEMMA SoundIs ==
    ASSUME TypeOK, Ordered
    PROVE  /\ Success => Sound
           /\ step < 19 /\ Sound => Failed \subseteq {"enforceVerification"}
           /\ step < 18 /\ Sound => Success
<1>a. step \in 0..20
  <2>1. Len(Steps) + 1 = 20
    BY StepsAre
  <2> QED
    BY <2>1, Zenon DEF TypeOK
<1>1. \A i \in 1..19 : i >= step => outcome[Steps[i]] = "pending"
  BY StepsAre DEF Ordered
<1>2. step < 19 => outcome["enforceGate"] = "pending"
  <2>1. step < 19 => 19 >= step /\ 19 \in 1..19
    BY <1>a
  <2> QED
    BY <1>1, <2>1, StepsAre
<1>3. step < 18 => outcome["enforceVerification"] = "pending"
  <2>1. step < 18 => 18 >= step /\ 18 \in 1..19
    BY <1>a
  <2> QED
    BY <1>1, <2>1, StepsAre
<1>4. step < 19 => "enforceGate" \notin Failed
  BY <1>2 DEF Failed
<1>5. step < 18 => "enforceVerification" \notin Failed
  BY <1>3 DEF Failed
<1>6. step < 18 => step < 19
  BY <1>a
<1> QED
  BY <1>4, <1>5, <1>6 DEF Sound, Success

LEMMA EvidenceStep ==
    ASSUME TypeOK, Ordered, OutputsOK, EvidenceOK, [Next]_vars
    PROVE  EvidenceOK'
<1> SUFFICES ASSUME Sound', Analysed'
             PROVE  /\ step' > 15 => uploaded'
                    /\ step' > 16 => handoff'
  BY Zenon DEF EvidenceOK
<1>1. /\ step \in Nat /\ step' \in Nat /\ step <= step' /\ step' <= step + 1
      /\ Failed \subseteq Failed' /\ (cancelled => cancelled')
  BY NothingTakenBack, Zenon
<1>2. Sound /\ ~cancelled'
  BY <1>1, Zenon DEF Sound
<1>3. step > 7 => Analysed
  BY OutputsStep
<1>4. step > 15 => uploaded
  <2>1. step > 15 => step > 7
    BY <1>1
  <2> QED
    BY <1>2, <1>3, <2>1, Zenon DEF EvidenceOK
<1>5. step > 16 => handoff
  <2>1. step > 16 => step > 7
    BY <1>1
  <2> QED
    BY <1>2, <1>3, <2>1, Zenon DEF EvidenceOK
<1>6. /\ step # 15 => uploaded' = uploaded
      /\ step # 16 => handoff' = handoff
  BY StoreStep
<1>7. ASSUME step' # step, NEW s \in {"upload", "handoff"}, At(s)
      PROVE  (s = "upload" => uploaded') /\ (s = "handoff" => handoff')
  <2>1. step < 18 /\ step > 7 /\ step \in 1..19
    BY <1>7, StandsAt
  <2>2. Condition(s)
    <3>1. Success /\ Analysed
      BY <1>2, <1>3, <2>1, SoundIs, Zenon
    <3> QED
      BY <1>7, <3>1 DEF Condition, Analysis
  <2>3. (s = "upload" /\ Upload) \/ (s = "handoff" /\ Describe)
    BY <1>2, <1>7, <2>1, <2>2, StepTaken
  <2>4. s \in StepName /\ "failure" \in Ends
    BY <1>7 DEF StepName, Steps, Ends
  <2>5. ~Finish(s, "failure")
    <3> SUFFICES ASSUME Finish(s, "failure") PROVE FALSE
      OBVIOUS
    <3>1. s \in Failed'
      BY <1>7, <2>4, StepEnds
    <3> QED
      BY <1>7, <3>1 DEF Sound
  <2>6. CASE s = "upload" /\ Upload
    BY <2>5, <2>6 DEF Upload
  <2>7. CASE s = "handoff" /\ Describe
    BY <2>5, <2>7 DEF Describe
  <2> QED
    BY <2>3, <2>6, <2>7
<1>8. step' > 15 => uploaded'
  <2>1. CASE step = 15
    <3>1. At("upload")
      BY <2>1, StepsAre DEF At
    <3>2. step' > 15 => step' # step
      BY <2>1
    <3> QED
      BY <1>7, <3>1, <3>2
  <2>2. CASE step # 15
    <3>1. step' > 15 => step > 15
      BY <1>1, <2>2
    <3>2. uploaded' = uploaded
      BY <1>6, <2>2
    <3>3. step > 15 => uploaded
      BY <1>4
    <3>4. step' > 15 => uploaded
      BY <3>1, <3>3, Zenon
    <3> QED
      BY <3>2, <3>4
  <2> QED
    BY <2>1, <2>2
<1>9. step' > 16 => handoff'
  <2>1. CASE step = 16
    <3>1. At("handoff")
      BY <2>1, StepsAre DEF At
    <3>2. step' > 16 => step' # step
      BY <2>1
    <3> QED
      BY <1>7, <3>1, <3>2
  <2>2. CASE step # 16
    <3>1. step' > 16 => step > 16
      BY <1>1, <2>2
    <3>2. handoff' = handoff
      BY <1>6, <2>2
    <3>3. step > 16 => handoff
      BY <1>5
    <3>4. step' > 16 => handoff
      BY <3>1, <3>3, Zenon
    <3> QED
      BY <3>2, <3>4
  <2> QED
    BY <2>1, <2>2
<1> QED
  BY <1>8, <1>9

LEMMA EnforcedStep ==
    ASSUME TypeOK, Ordered, OutputsOK, EnforcedOK, [Next]_vars
    PROVE  EnforcedOK'
<1>1. /\ step \in Nat /\ step' \in Nat /\ step <= step' /\ step' <= step + 1
      /\ Failed \subseteq Failed' /\ (cancelled => cancelled')
      /\ \A i \in 1..19 : i < step => outcome'[Steps[i]] = outcome[Steps[i]]
  BY NothingTakenBack, Zenon
<1>2. step > 7 => (Analysed' <=> Analysed) /\ mode' = mode /\ profile' = profile
  BY OutputsStep
<1>3. step > 13 => gate' = gate
  BY OutputsStep
<1>4. step > 10 => (Verification!Accepts' <=> Verification!Accepts)
  BY VerificationStops
<1>5. Success' => Success
  BY <1>1, Zenon DEF Success
<1>6. ASSUME step' > 18, profile' \in Enforcing
      PROVE  outcome'["enforceVerification"] =
               IF Verification!Accepts' THEN "success" ELSE "failure"
  <2>1. step > 7 /\ step > 10
    BY <1>1, <1>6
  <2>2. profile \in Enforcing /\ (Verification!Accepts' <=> Verification!Accepts)
    BY <1>2, <1>4, <1>6, <2>1, Zenon
  <2>3. CASE step > 18
    <3>1. 18 \in 1..19 /\ 18 < step
      BY <2>3
    <3>2. outcome'["enforceVerification"] = outcome["enforceVerification"]
      BY <1>1, <3>1, StepsAre
    <3> QED
      BY <2>2, <2>3, <3>2, Zenon DEF EnforcedOK
  <2>4. CASE step = 18
    <3>1. At("enforceVerification") /\ step' # step /\ step \in 1..19
      BY <1>6, <2>4, StepsAre DEF At
    <3>2. Condition("enforceVerification")
      BY <2>2 DEF Condition, Analysis
    <3>3. EnforceVerification
      BY <3>1, <3>2, StepTaken
    <3>4. "enforceVerification" \in StepName /\ {"success", "failure"} \subseteq Ends
      BY DEF StepName, Steps, Ends
    <3>5. CASE Verification!Accepts
      <4>1. Finish("enforceVerification", "success")
        BY <3>3, <3>5, Zenon DEF EnforceVerification
      <4> QED
        BY <2>2, <3>1, <3>4, <3>5, <4>1, StepEnds
    <3>6. CASE ~Verification!Accepts
      <4>1. Finish("enforceVerification", "failure")
        BY <3>3, <3>6, Zenon DEF EnforceVerification
      <4> QED
        BY <2>2, <3>1, <3>4, <3>6, <4>1, StepEnds
    <3> QED
      BY <3>5, <3>6
  <2> QED
    BY <1>1, <1>6, <2>3, <2>4
<1>7. ASSUME step' > 19, Success', Analysed', mode' = "blocking"
      PROVE  gate' = "pass"
  <2>1. step > 7 /\ step > 13
    BY <1>1, <1>7
  <2>2. Success /\ Analysed /\ mode = "blocking" /\ gate' = gate
    BY <1>2, <1>3, <1>5, <1>7, <2>1, Zenon
  <2>3. CASE step > 19
    BY <2>2, <2>3, Zenon DEF EnforcedOK
  <2>4. CASE step = 19
    <3>1. At("enforceGate") /\ step' # step /\ step \in 1..19
      BY <1>7, <2>4, StepsAre DEF At
    <3>2. Condition("enforceGate") /\ ~cancelled' /\ Failed' = {}
      BY <1>7, <2>2 DEF Condition, Analysis, Success
    <3>3. EnforceGate
      BY <3>1, <3>2, StepTaken
    <3>4. "enforceGate" \in StepName /\ "failure" \in Ends
      BY DEF StepName, Steps, Ends
    <3>5. ~Finish("enforceGate", "failure")
      BY <3>1, <3>2, <3>4, StepEnds
    <3> QED
      BY <2>2, <3>3, <3>5, Zenon DEF EnforceGate
  <2> QED
    BY <1>1, <1>7, <2>3, <2>4
<1> QED
  BY <1>6, <1>7, Zenon DEF EnforcedOK

LEMMA EndedStep ==
    ASSUME TypeOK, EndedOK, [Next]_vars
    PROVE  EndedOK'
<1>1. CASE UNCHANGED vars
  BY <1>1 DEF vars, EndedOK, Success, Failed
<1>2. CASE Conclude
  <2>1. /\ step' = step /\ step = 20 /\ UNCHANGED <<outcome, cancelled>>
        /\ ended' = CASE cancelled -> "cancelled"
                      [] ~cancelled /\ Failed # {} -> "failure"
                      [] OTHER -> "success"
    BY <1>2, StepsAre DEF Conclude
  <2>2. Failed' = Failed
    BY <2>1, Zenon DEF Failed
  <2> QED
    BY <2>1, <2>2 DEF EndedOK, Success
<1>3. CASE Next /\ ~Conclude
  <2>1. ended' \in {"no", "skipped", "cancelled"}
    BY <1>3
    DEF Next, Proceed, Admit, Runtime, CheckPush, Govern, Provision, Verify,
        FinishVerification, Evaluate, Upload, Describe, EnforceVerification, EnforceGate, Skip,
        Work, Cancel, Lose, Idle
  <2> QED
    BY <2>1 DEF EndedOK
<1> QED
  BY <1>1, <1>2, <1>3

\* Wherever it is cut short, the job keeps the order of its steps, and with it
\* what its outputs, its evidence, its enforcement and its conclusion mean.
THEOREM EvaluationInvariantHolds == Spec => []EvaluationInvariant
<1>1. Init => EvaluationInvariant
  <2> SUFFICES ASSUME Init PROVE EvaluationInvariant
    OBVIOUS
  <2>1. VerificationInvariant
    BY VerificationStart DEF Init
  <2>2. TypeOK
    <3>1. Len(Steps) + 1 = 20 /\ 0 \in 0..20
      BY StepsAre
    <3>2. outcome \in [StepName -> {"pending", "success", "failure", "skipped", "cancelled"}]
      BY DEF Init
    <3>3. step \in 0..Len(Steps) + 1
      BY <3>1, Zenon DEF Init
    <3>4. ended \in {"no", "success", "failure", "cancelled", "skipped"}
      BY DEF Init
    <3> QED
      BY <2>1, <3>2, <3>3, <3>4, Zenon DEF Init, TypeOK, VerificationInvariant
  <2>3. Ordered
    <3>1. \A i \in 1..19 : i >= 0 /\ Steps[i] \in StepName
      BY StepsAre
    <3> QED
      BY <3>1, StepsAre DEF Init, Ordered
  <2>a. step = 0
    BY Zenon DEF Init
  <2>4. OutputsOK /\ EndedOK
    BY DEF Init, OutputsOK, EndedOK
  <2>5. EvidenceOK /\ EnforcedOK
    <3>1. ~(step > 15) /\ ~(step > 16) /\ ~(step > 18) /\ ~(step > 19)
      BY <2>a
    <3> QED
      BY <3>1, Zenon DEF EvidenceOK, EnforcedOK
  <2> QED
    BY <2>1, <2>2, <2>3, <2>4, <2>5 DEF EvaluationInvariant
<1>2. EvaluationInvariant /\ [Next]_vars => EvaluationInvariant'
  <2> SUFFICES ASSUME EvaluationInvariant, [Next]_vars PROVE EvaluationInvariant'
    OBVIOUS
  <2>1. TypeOK' /\ VerificationInvariant' /\ Ordered'
    BY TypeStep, OrderedStep DEF EvaluationInvariant
  <2>2. OutputsOK'
    BY OutputsStep DEF EvaluationInvariant
  <2>3. EvidenceOK' /\ EnforcedOK' /\ EndedOK'
    BY EvidenceStep, EnforcedStep, EndedStep DEF EvaluationInvariant
  <2> QED
    BY <2>1, <2>2, <2>3 DEF EvaluationInvariant
<1> QED
  BY <1>1, <1>2, PTL DEF Spec

-----------------------------------------------------------------------------
(* What follows.                                                           *)

\* Outputs that the enforcement accepts, complete or cut short, tell the truth
\* about the phases, in every policy and whatever the phases rewrite.
THEOREM AcceptedMeansVerifiedHolds == Spec => []AcceptedMeansVerified
<1>1. EvaluationInvariant => AcceptedMeansVerified
  BY AcceptedVerified DEF EvaluationInvariant, AcceptedMeansVerified
<1> QED
  BY <1>1, EvaluationInvariantHolds, PTL

\* A green evaluation under an enforcing profile ran all four phases to
\* success, or its missing contract is one Core's policy tolerates.
THEOREM GreenMeansVerifiedHolds == Spec => []GreenMeansVerified
<1>1. EvaluationInvariant => GreenMeansVerified
  <2> SUFFICES ASSUME EvaluationInvariant, ended = "success", profile \in Enforcing
               PROVE  \/ Verification!Done = Verification!Phases
                      \/ policy = "migration" /\ verdict.version = "absent"
    BY DEF GreenMeansVerified, Enforcing
  <2>1. step = 20 /\ Failed = {}
    BY DEF EvaluationInvariant, EndedOK, Success
  <2>2. outcome["enforceVerification"] # "failure"
    BY <2>1 DEF Failed, StepName, Steps
  <2>3. step > 18
    BY <2>1
  <2>4. Verification!Accepts
    BY <2>2, <2>3, Zenon DEF EvaluationInvariant, EnforcedOK
  <2>5. CASE verdict.status = "pass"
    BY <2>5, PassRanAll DEF EvaluationInvariant
  <2>6. CASE verdict.status = "not_applicable"
    BY <2>6 DEF EvaluationInvariant, VerificationInvariant, VerdictOK
  <2> QED
    BY <2>4, <2>5, <2>6, AcceptedIs
<1> QED
  BY <1>1, EvaluationInvariantHolds, PTL

\* A green evaluation of analysable code in blocking mode passed the SDK gate
\* and left the evidence and its descriptor.
THEOREM GreenMeansGatePassedHolds == Spec => []GreenMeansGatePassed
<1>1. EvaluationInvariant => GreenMeansGatePassed
  <2> SUFFICES ASSUME EvaluationInvariant, ended = "success", mode = "blocking",
                      language # "none"
               PROVE  gate = "pass" /\ uploaded /\ handoff
    BY DEF GreenMeansGatePassed
  <2>1. step = 20 /\ Success
    BY DEF EvaluationInvariant, EndedOK
  <2>2. Analysed
    BY DEF Analysed, Enabled, Mode
  <2>3. step > 19 /\ step > 15 /\ step > 16
    BY <2>1
  <2>4. gate = "pass"
    BY <2>1, <2>2, <2>3, Zenon DEF EvaluationInvariant, EnforcedOK
  <2>5. Sound
    BY <2>1, SoundIs DEF EvaluationInvariant
  <2> QED
    BY <2>2, <2>3, <2>4, <2>5, Zenon DEF EvaluationInvariant, EvidenceOK
<1> QED
  BY <1>1, EvaluationInvariantHolds, PTL

\* A verdict against the code never costs its own evidence.
THEOREM RefusalKeepsEvidenceHolds == Spec => []RefusalKeepsEvidence
<1>1. EvaluationInvariant => RefusalKeepsEvidence
  <2> SUFFICES ASSUME EvaluationInvariant, ended = "failure",
                      gate \in {"fail", "incomplete"},
                      Failed \subseteq {"gate", "enforceGate", "enforceVerification"}
               PROVE  uploaded /\ handoff
    BY DEF RefusalKeepsEvidence
  <2>1. step = 20 /\ ~cancelled
    BY DEF EvaluationInvariant, EndedOK
  <2>2. outcome["gate"] = "success" /\ Analysed
    BY DEF EvaluationInvariant, OutputsOK
  <2>3. Sound
    BY <2>1, <2>2 DEF Sound, Failed
  <2>4. step > 15 /\ step > 16
    BY <2>1
  <2> QED
    BY <2>2, <2>3, <2>4, Zenon DEF EvaluationInvariant, EvidenceOK
<1> QED
  BY <1>1, EvaluationInvariantHolds, PTL

\* Once the profile is known, nothing short of losing the runner hides an
\* unverified repository from the enforcement.
THEOREM EnforcementNotSkippedHolds == Spec => []EnforcementNotSkipped
<1>1. EvaluationInvariant => EnforcementNotSkipped
  <2> SUFFICES ASSUME EvaluationInvariant, step > Len(Steps), profile \in Enforcing,
                      ~Verification!Accepts
               PROVE  "enforceVerification" \in Failed
    BY DEF EnforcementNotSkipped, Enforcing
  <2>1. step > 18
    <3>1. Len(Steps) + 1 = 20 /\ Len(Steps) = 19
      BY StepsAre
    <3>2. step \in 0..20 /\ step > 19
      BY <3>1, Zenon DEF EvaluationInvariant, TypeOK
    <3> QED
      BY <3>2
  <2>2. outcome["enforceVerification"] = "failure"
    BY <2>1, Zenon DEF EvaluationInvariant, EnforcedOK
  <2>3. "enforceVerification" \in StepName
    BY DEF StepName, Steps
  <2> QED
    BY <2>2, <2>3, Zenon DEF Failed
<1> QED
  BY <1>1, EvaluationInvariantHolds, PTL

\* No claim moves a class that gates a branch to a profile without repository
\* verification.
THEOREM ClaimsDoNotDowngradeHolds == Spec => []ClaimsDoNotDowngrade
<1>1. EvaluationInvariant => ClaimsDoNotDowngrade
  <2> SUFFICES ASSUME EvaluationInvariant, mode # "",
                      class \in {"pull_request", "push", "merge"}
               PROVE  profile \in {"pr_fast", "merge"}
    BY DEF ClaimsDoNotDowngrade
  <2>1. profile \in Profile /\ class \in AllowedEvents[profile]
    BY DEF EvaluationInvariant, OutputsOK
  <2> QED
    BY <2>1 DEF AllowedEvents, Profile
<1> QED
  BY <1>1, EvaluationInvariantHolds, PTL

-----------------------------------------------------------------------------
(* The admission implements its promise.                                   *)

\* All that has succeeded was run by one version of the contract.
OneVersion == at \in {"v1", "v2"} => \A i \in DOMAIN ran : ran[i].by = at

\* The phases as the enforcement's promise knows them.
Runs == [i \in DOMAIN ran |-> [phase |-> ran[i].phase, by |-> ran[i].by]]

\* Acceptance is a truth value, which the prover does not take for granted.
LEMMA AcceptsIsTruth == Verification!Accepts \in BOOLEAN /\ Verification!Accepts' \in BOOLEAN
BY DEF Verification!Accepts

\* Nothing can be accepted before the judgement has been made and written.
LEMMA AcceptedIsWritten ==
    ASSUME VerificationInvariant, Verification!Accepts
    PROVE  at \in {"record", "exited", "killed"} /\ written >= 3
<1>1. written \in 0..5
  BY RanIs DEF VerificationInvariant
<1>2. Verification!Output("mode") # ""
  BY DEF Verification!Accepts
<1>3. \E i \in 1..written : Verification!Names[i] = "mode"
  BY <1>2, Zenon DEF Verification!Output
<1>4. written >= 3
  BY <1>1, <1>3 DEF Verification!Names
<1> QED
  BY <1>4 DEF VerificationInvariant, RunningOK, Verification!TypeOK

\* A further output takes no acceptance back.
LEMMA AcceptanceStands ==
    ASSUME VerificationInvariant, Verification!Accepts,
           written' \in {written, written + 1}, verdict' = verdict
    PROVE  Verification!Accepts'
<1>1. written \in 0..5 /\ written >= 3
  BY RanIs, AcceptedIsWritten DEF VerificationInvariant
<1>2. /\ Verification!Names[3] = "mode" /\ Verification!Names[2] = "status"
  BY DEF Verification!Names
<1>3. /\ \E i \in 1..written : Verification!Names[i] = "mode"
      /\ \E i \in 1..written : Verification!Names[i] = "status"
      /\ \E i \in 1..written' : Verification!Names[i] = "mode"
      /\ \E i \in 1..written' : Verification!Names[i] = "status"
  <2>1. 3 \in 1..written /\ 2 \in 1..written /\ 3 \in 1..written' /\ 2 \in 1..written'
    BY <1>1
  <2> QED
    BY <1>2, <2>1, Zenon
<1>4. /\ Verification!Output("mode") = verdict["mode"]
      /\ Verification!Output("status") = verdict["status"]
      /\ Verification!Output("mode")' = verdict'["mode"]
      /\ Verification!Output("status")' = verdict'["status"]
  BY <1>3, Zenon DEF Verification!Output
<1> QED
  BY <1>4 DEF Verification!Accepts

\* Before the judgement.
Before == {"resolve", "classify", "verify", "v1", "v2"}

\* What a step of the process does to the phases and the outputs: a phase
\* succeeds, or nothing is written yet, or one output is, or nothing changes.
PhaseSucceeds(leaf) ==
    /\ at \in {"v1", "v2"} /\ at' \in {at, "record"} /\ UNCHANGED written
    /\ ran' = Append(ran, [phase |-> Verification!NextPhase, by |-> at, leaf |-> leaf])
Prepares ==
    /\ at \in Before /\ UNCHANGED <<ran, written>>
    /\ at' \in {at, "record"} \/ (at \in {"classify", "verify"} /\ at' \in Before)
       \/ (at = "resolve" /\ at' = "classify")
Writes ==
    /\ at = "record" /\ at' \in {"record", "exited"}
    /\ written' = written + 1 /\ UNCHANGED <<ran, verdict>>
Rests == at' \in {at, "killed"} /\ UNCHANGED <<ran, written, verdict>>

\* There are no other steps.
LEMMA StepsOfProcess ==
    ASSUME Verification!Next \/ UNCHANGED verification
    PROVE  /\ UNCHANGED policy
           /\ \/ \E leaf \in BOOLEAN : PhaseSucceeds(leaf)
              \/ Prepares \/ Writes \/ Rests
<1> USE DEF Before, Prepares, Verification!Decide, Verification!Judge
<1>1. CASE Verification!Resolve
  BY <1>1 DEF Verification!Resolve
<1>2. CASE Verification!Classify
  BY <1>2 DEF Verification!Classify
<1>3. CASE Verification!Verify
  BY <1>3 DEF Verification!Verify
<1>4. ASSUME NEW leaf \in BOOLEAN, at \in {"v1", "v2"}, Verification!PhaseEnds(at, leaf),
             UNCHANGED <<policy, generates, written>>
      PROVE  PhaseSucceeds(leaf) \/ Prepares
  BY <1>4 DEF Verification!PhaseEnds, PhaseSucceeds
<1>5. CASE Verification!RunV2
  <2> DEFINE leaf == tree.facade = "exact" /\ Verification!NextPhase \in tree.phases
  <2>1. at = "v2" /\ UNCHANGED <<policy, generates, written>> /\ Verification!PhaseEnds("v2", leaf)
    BY <1>5 DEF Verification!RunV2
  <2>2. leaf \in BOOLEAN
    OBVIOUS
  <2> HIDE DEF leaf
  <2> QED
    BY <1>4, <2>1, <2>2
<1>6. CASE Verification!RunV1
  <2>1. CASE Verification!PhaseEnds("v1", TRUE)
    <3>1. at = "v1" /\ UNCHANGED <<policy, generates, written>>
      BY <1>6 DEF Verification!RunV1
    <3> QED
      BY <1>4, <2>1, <3>1
  <2>2. CASE Verification!Decide("fail", "v1", "contract") /\ UNCHANGED <<tree, ran>>
    BY <1>6, <2>2 DEF Verification!RunV1
  <2> QED
    BY <1>6, <2>1, <2>2 DEF Verification!RunV1
<1>7. CASE Verification!RefuseRoot
  BY <1>7 DEF Verification!RefuseRoot
<1>8. CASE Verification!Record
  BY <1>8 DEF Verification!Record, Writes
<1>9. CASE Verification!Kill \/ UNCHANGED verification
  BY <1>9 DEF Verification!Kill, Rests, verification
<1> QED
  BY <1>1, <1>2, <1>3, <1>5, <1>6, <1>7, <1>8, <1>9 DEF Verification!Next

\* The mapping keeps the phases that have succeeded, in number and order.
RunOf == [phase : Verification!Phase, by : {"v1", "v2"}]

LEMMA RunsAre ==
    ASSUME Verification!TypeOK
    PROVE  /\ Runs \in Seq(RunOf) /\ Len(Runs) = Len(ran) /\ DOMAIN Runs = 1..Len(ran)
           /\ ran = << >> => Runs = << >>
<1>1. /\ ran \in Seq(Verification!Ran) /\ Len(ran) \in 0..4 /\ DOMAIN ran = 1..Len(ran)
  BY RanIs
<1>2. ASSUME NEW i \in 1..Len(ran)
      PROVE  Runs[i] \in RunOf
  <2>1. ran[i] \in Verification!Ran
    BY <1>1, ElementOfSeq, Zenon
  <2>2. Runs[i] = [phase |-> ran[i].phase, by |-> ran[i].by]
    BY <1>1 DEF Runs
  <2> QED
    BY <2>1, <2>2 DEF Verification!Ran, RunOf
<1>3. Runs = [i \in 1..Len(ran) |-> Runs[i]]
  BY <1>1 DEF Runs
<1>4. Runs \in Seq(RunOf) /\ Len(Runs) = Len(ran) /\ DOMAIN Runs = 1..Len(ran)
  BY <1>1, <1>2, <1>3, IsASeq
<1>5. ran = << >> => Runs = << >>
  BY <1>4, EmptySeq
<1> QED
  BY <1>4, <1>5

\* An acceptance comes with an accepted judgement.
LEMMA AcceptedAfter ==
    ASSUME Verification!Accepts'
    PROVE  verdict'.status \in {"pass", "not_applicable"}
<1>1. Verification!Output("status")' \in {"pass", "not_applicable"}
  BY DEF Verification!Accepts
<1>2. Verification!Output("status")' \in {verdict'["status"], ""}
  BY DEF Verification!Output
<1> QED
  BY <1>1, <1>2

\* A phase that succeeds is the next one of the promise, by the same version.
LEMMA PhasePromised ==
    ASSUME VerificationInvariant, VerificationInvariant', OneVersion, UNCHANGED policy,
           NEW leaf \in BOOLEAN, PhaseSucceeds(leaf), NEW by, by = at
    PROVE  OneVersion' /\ by \in {"v1", "v2"} /\ Promise!Succeed(by)
<1> DEFINE this == [phase |-> Verification!NextPhase, by |-> at, leaf |-> leaf]
<1>1. /\ at \in {"v1", "v2"} /\ written = 0 /\ written' = 0 /\ Len(ran) \in 0..3
      /\ ran \in Seq(Verification!Ran) /\ DOMAIN ran = 1..Len(ran)
      /\ policy # "broken" /\ (at = "v1" => policy = "migration")
      /\ policy \in {"migration", "required", "broken"}
  BY RanIs DEF VerificationInvariant, RunningOK, PhaseSucceeds
<1>2. ran' = Append(ran, this)
  BY DEF PhaseSucceeds
<1>3. this \in Verification!Ran
  <2>1. Verification!NextPhase \in Verification!Phase
    <3>1. \A n \in 0..3 : Verification!Phases[n + 1] \in Verification!Phase
      BY DEF Verification!Phases, Verification!Phase
    <3> QED
      BY <1>1, <3>1, Zenon DEF Verification!NextPhase
  <2> QED
    BY <1>1, <2>1 DEF Verification!Ran
<1>4. /\ Len(ran') = Len(ran) + 1 /\ ran'[Len(ran) + 1] = this
      /\ \A i \in 1..Len(ran) : ran'[i] = ran[i]
      /\ ran' \in Seq(Verification!Ran)
  BY <1>1, <1>2, <1>3, AppendProperties
<1>5. DOMAIN ran' = 1..(Len(ran) + 1)
  BY <1>4, LenProperties
<1>6. \A i \in 1..Len(ran) : ran[i].by = at
  BY <1>1 DEF OneVersion
<1>7. OneVersion'
  BY <1>1, <1>4, <1>5, <1>6 DEF OneVersion, PhaseSucceeds
<1>8. ~Verification!Accepts /\ ~Verification!Accepts'
  <2>1. ~Verification!Accepts
    BY <1>1, AcceptedIsWritten
  <2>2. Verification!Output("mode")' = ""
    BY <1>1 DEF Verification!Output
  <2> QED
    BY <2>1, <2>2 DEF Verification!Accepts
<1>9. Runs \in Seq(RunOf) /\ Len(Runs) = Len(ran) /\ DOMAIN Runs = 1..Len(ran)
  BY RunsAre DEF VerificationInvariant
<1>10. Runs' = Append(Runs, [phase |-> Promise!Phases[Len(Runs) + 1], by |-> at])
  <2> DEFINE new == [phase |-> Promise!Phases[Len(Runs) + 1], by |-> at]
             more == Append(Runs, new)
  <2>1. new = [phase |-> Verification!NextPhase, by |-> at]
    BY <1>9 DEF Promise!Phases, Verification!Phases, Verification!NextPhase
  <2>2. new \in RunOf
    BY <1>1, <1>3, <2>1 DEF RunOf, Verification!Ran
  <2> HIDE DEF new
  <2>3. /\ more \in Seq(RunOf) /\ Len(more) = Len(Runs) + 1 /\ more[Len(Runs) + 1] = new
        /\ \A i \in 1..Len(Runs) : more[i] = Runs[i]
    BY <1>9, <2>2, AppendProperties
  <2>4. DOMAIN more = 1..(Len(ran) + 1)
    BY <1>9, <2>3, LenProperties
  <2>5. more = [i \in DOMAIN more |-> more[i]]
    BY <2>3, LenProperties
  <2> HIDE DEF more
  <2>6. Runs' = [i \in 1..(Len(ran) + 1) |-> [phase |-> ran'[i].phase, by |-> ran'[i].by]]
    BY <1>5 DEF Runs
  <2>7. ASSUME NEW i \in 1..(Len(ran) + 1)
        PROVE  more[i] = [phase |-> ran'[i].phase, by |-> ran'[i].by]
    <3>1. CASE i = Len(ran) + 1
      BY <1>4, <1>9, <2>1, <2>3, <3>1
    <3>2. CASE i \in 1..Len(ran)
      <4>1. Runs[i] = [phase |-> ran[i].phase, by |-> ran[i].by]
        BY <1>1, <3>2 DEF Runs
      <4> QED
        BY <1>4, <1>9, <2>3, <3>2, <4>1
    <3> QED
      BY <1>1, <3>1, <3>2
  <2>8. Runs' = more
    BY <2>4, <2>5, <2>6, <2>7
  <2> QED
    BY <2>8 DEF more, new
<1>11. \A i \in DOMAIN Runs : Runs[i].by = at
  <2>1. ASSUME NEW i \in 1..Len(ran) PROVE Runs[i].by = at
    <3>1. Runs[i] = [phase |-> ran[i].phase, by |-> ran[i].by]
      BY <1>1 DEF Runs
    <3> QED
      BY <1>6, <3>1
  <2> QED
    BY <1>9, <2>1
<1>12. /\ Len(Runs) < Len(Promise!Phases)
       /\ at \in (IF policy = "migration" THEN {"v1", "v2"} ELSE {"v2"}) /\ policy # "broken"
  <2>1. Len(Promise!Phases) = 4
    BY DEF Promise!Phases
  <2>2. \A n \in 0..3 : n < 4
    OBVIOUS
  <2>3. Len(Runs) \in 0..3
    BY <1>1, <1>9, Zenon
  <2>4. Len(Runs) < Len(Promise!Phases)
    BY <2>1, <2>2, <2>3, Zenon
  <2>5. at \in (IF policy = "migration" THEN {"v1", "v2"} ELSE {"v2"})
    BY <1>1, Zenon
  <2> QED
    BY <1>1, <2>4, <2>5
<1>13. UNCHANGED <<policy, Verification!Accepts>>
  BY <1>8, AcceptsIsTruth
<1> QED
  BY <1>1, <1>7, <1>8, <1>10, <1>11, <1>12, <1>13, Zenon DEF Promise!Succeed, Runs

\* Every step of the process is one of the promise, or a stutter.
LEMMA PromiseStep ==
    ASSUME VerificationInvariant, VerificationInvariant', OneVersion,
           Verification!Next \/ UNCHANGED verification
    PROVE  OneVersion' /\ [Promise!Next]_Promise!vars
<1>1. UNCHANGED policy
  BY StepsOfProcess
<1>2. ASSUME NEW leaf \in BOOLEAN, PhaseSucceeds(leaf)
      PROVE  OneVersion' /\ [Promise!Next]_Promise!vars
  <2>1. PICK by : by = at
    OBVIOUS
  <2>2. OneVersion' /\ by \in {"v1", "v2"} /\ Promise!Succeed(by)
    BY <1>1, <1>2, <2>1, PhasePromised
  <2> QED
    BY <2>2 DEF Promise!Next
<1>3. CASE Prepares
  <2>1. at \in Before /\ written = 0 /\ written' = 0 /\ ran' = ran
    BY <1>3 DEF Prepares, Before, VerificationInvariant, RunningOK
  <2>2. ~Verification!Accepts
    BY <2>1, AcceptedIsWritten DEF Before
  <2>3. ~Verification!Accepts'
    <3>1. Verification!Output("mode")' = ""
      BY <2>1 DEF Verification!Output
    <3> QED
      BY <3>1 DEF Verification!Accepts
  <2>4. OneVersion'
    <3>1. CASE at' = at
      BY <2>1, <3>1 DEF OneVersion
    <3>2. CASE at' # at /\ at' \in {"v1", "v2"}
      <4>1. ran = << >>
        BY <1>3, <3>2 DEF Prepares, Before, VerificationInvariant, RunningOK
      <4> QED
        BY <2>1, <4>1 DEF OneVersion
    <3> QED
      BY <3>1, <3>2 DEF OneVersion
  <2> QED
    BY <1>1, <2>1, <2>2, <2>3, <2>4, AcceptsIsTruth DEF Promise!vars
<1>4. CASE Writes
  <2>1. OneVersion' /\ ran' = ran
    BY <1>4 DEF Writes, OneVersion
  <2>2. CASE Verification!Accepts
    <3>1. Verification!Accepts'
      BY <1>4, <2>2, AcceptanceStands DEF Writes
    <3> QED
      BY <1>1, <2>1, <2>2, <3>1, AcceptsIsTruth DEF Promise!vars
  <2>3. CASE ~Verification!Accepts /\ ~Verification!Accepts'
    BY <1>1, <2>1, <2>3, AcceptsIsTruth DEF Promise!vars
  <2>4. CASE ~Verification!Accepts /\ Verification!Accepts'
    <3>1. verdict.status \in {"pass", "not_applicable"}
      <4>1. verdict'.status \in {"pass", "not_applicable"}
        BY <2>4, AcceptedAfter
      <4> QED
        BY <1>4, <4>1 DEF Writes
    <3>2. Len(ran) = 4 \/ (policy = "migration" /\ ran = << >>)
      BY <3>1 DEF VerificationInvariant, VerdictOK
    <3>3. Len(Runs) = Len(ran) /\ (ran = << >> => Runs = << >>)
      BY RunsAre DEF VerificationInvariant
    <3>4. Promise!Accept
      <4>1. Len(Promise!Phases) = 4
        BY DEF Promise!Phases
      <4> QED
        BY <1>1, <2>1, <2>4, <3>2, <3>3, <4>1, AcceptsIsTruth DEF Promise!Accept, Runs
    <3> QED
      BY <2>1, <3>4 DEF Promise!Next
  <2> QED
    BY <2>2, <2>3, <2>4
<1>5. CASE Rests
  <2>1. OneVersion' /\ ran' = ran
    BY <1>5 DEF Rests, OneVersion
  <2>2. Verification!Accepts' <=> Verification!Accepts
    BY <1>5 DEF Rests, Verification!Accepts, Verification!Output
  <2> QED
    BY <1>1, <2>1, <2>2 DEF Promise!vars
<1> QED
  BY <1>2, <1>3, <1>4, <1>5, StepsOfProcess

\* However run.py or the job is cut short, what the step `Enforce repository
\* verification' sees is an admission: phases in order, by one version of the contract, then outputs
\* that become acceptable in one step, with nothing run behind them.
THEOREM ImplementsAdmissionHolds == Spec => ImplementsAdmission
<1>1. Init => OneVersion /\ Promise!Init
  <2> SUFFICES ASSUME Init PROVE OneVersion /\ Promise!Init
    OBVIOUS
  <2>1. /\ at = "resolve" /\ ran = << >> /\ written = 0
        /\ policy \in {"migration", "required", "broken"}
    BY DEF Init, Verification!Init, Verification!Policy
  <2>2. VerificationInvariant
    BY VerificationStart DEF Init
  <2>3. ~Verification!Accepts
    BY <2>1, <2>2, AcceptedIsWritten
  <2>4. Runs = << >>
    BY <2>1, <2>2, RunsAre DEF VerificationInvariant
  <2> QED
    BY <2>1, <2>3, <2>4 DEF OneVersion, Promise!Init, Runs
<1>2. EvaluationInvariant /\ EvaluationInvariant' /\ OneVersion /\ [Next]_vars
        => OneVersion' /\ [Promise!Next]_Promise!vars
  <2> SUFFICES ASSUME EvaluationInvariant, EvaluationInvariant', OneVersion, [Next]_vars
               PROVE  OneVersion' /\ [Promise!Next]_Promise!vars
    OBVIOUS
  <2>1. Verification!Next \/ UNCHANGED verification
    BY CourseOfJob DEF vars, verification, EvaluationInvariant
  <2> QED
    BY <2>1, PromiseStep DEF EvaluationInvariant
<1> QED
  BY <1>1, <1>2, EvaluationInvariantHolds, PTL DEF Spec, ImplementsAdmission, Promise!Spec

-----------------------------------------------------------------------------
(* The concurrency group that an evaluation waits in.                      *)

\* Every step keeps the queue within its types.
LEMMA QueueTypeStep == QueueTypeOK /\ [QueueNext]_queueVars => QueueTypeOK'
<1> SUFFICES ASSUME QueueTypeOK, [QueueNext]_queueVars PROVE QueueTypeOK'
  OBVIOUS
<1> USE DEF QueueTypeOK, State
<1>1. ASSUME NEW r \in Run, Request(r) PROVE QueueTypeOK'
  BY <1>1 DEF Request, Entry
<1>2. ASSUME NEW r \in Run, Start(r) \/ Complete(r) PROVE QueueTypeOK'
  BY <1>2 DEF Start, Complete
<1>3. CASE UNCHANGED queueVars
  BY <1>3 DEF queueVars
<1> QED
  BY <1>1, <1>2, <1>3 DEF QueueNext

\* A run is in one of its five states, and keeps its revision and event.
THEOREM QueueTypeCorrect == QueueSpec => []QueueTypeOK
<1>1. QueueInit => QueueTypeOK
  BY DEF QueueInit, QueueTypeOK, State
<1> QED
  BY <1>1, QueueTypeStep, PTL DEF QueueSpec
=============================================================================

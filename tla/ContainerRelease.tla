---------------------------- MODULE ContainerRelease ----------------------------
(***************************************************************************)
(* The container-release action of workflow runs that release commits to   *)
(* environments.  Each run analyses its commit, publishes an image, binds  *)
(* the gate's verdict to it, uploads the evidence and requests the         *)
(* deployment from l9-deploy.  A job may fail or be killed at every step   *)
(* and be rerun, with or without the analysis, in a fresh or in the        *)
(* earlier workspace; an answer of a service may be lost.                  *)
(*                                                                         *)
(* A digest is the thing digested: two are equal when the contents are.    *)
(***************************************************************************)
EXTENDS Naturals

CONSTANTS Runs,        \* workflow runs
          Commit,      \* the commit each run releases
          Environment, \* the environment it releases to
          None,        \* nothing there
          MaxAttempts  \* bound: attempts of a run

ASSUME ReleaseAssumption == MaxAttempts \in Nat

Verdicts == {"pass", "fail", "incomplete"}

\* The documents and the images there can be.  Nothing is none of them.
Attempts     == Runs \X Nat
Commits      == {Commit[r] : r \in Runs}
Images       == [commit : Commits, build : Attempts]
Analysis     == [name : Attempts, revision : Commits, verdict : Verdicts]
GateBindings == [commit : Commits, run : Runs, analysis : Analysis,
                 bundle : Analysis, gate : Analysis]
Bindings     == [id : Attempts, run : Runs, image : Images, bundle : Analysis,
                 gateBinding : GateBindings]
EvidenceSets == [bundle : Analysis, gate : Analysis, gateBinding : GateBindings,
                 binding : Bindings \cup {None}]

ASSUME NoneAssumption == None \notin Analysis \cup Images \cup Bindings \cup EvidenceSets

VARIABLES
  attempt,    \* the current attempt of each run
  step,       \* what its release job completed last
  analysis,   \* what the job was given: an artifact of analyze-semgrep
  workspace,  \* .l9/release of the run's workspace: see Fresh
  built,      \* the build step's output, an image digest
  tag,        \* what repository:commit points to in the registry
  images,     \* digests in the registry, with the commit each was built from
  attested,   \* digests with a provenance attestation
  evidence,   \* the artifact l9-release-evidence-<run> of each run
  requested   \* requests l9-deploy received

vars == <<attempt, step, analysis, workspace, built, tag, images, attested,
          evidence, requested>>
registry == <<tag, images, attested>>

Fresh == [bundle |-> None, gate |-> None, evidence |-> None, request |-> None]

Init == /\ attempt = [r \in Runs |-> 0]
        /\ step = [r \in Runs |-> "failed"]
        /\ analysis = [r \in Runs |-> None]
        /\ workspace = [r \in Runs |-> Fresh]
        /\ built = [r \in Runs |-> None]
        /\ tag = [c \in Commits |-> None]
        /\ images = {}
        /\ attested = {}
        /\ evidence = [r \in Runs |-> None]
        /\ requested = {}

(***************************************************************************)
(* An attempt begins: the analysis runs, or "re-run failed jobs" keeps the *)
(* one there is, whose name still holds the earlier attempt.               *)
(***************************************************************************)
Analyses(r) == {[name |-> <<r, attempt[r] + 1>>, revision |-> Commit[r], verdict |-> v] :
                  v \in Verdicts}

Begin(r) ==
    /\ step[r] \in {"failed", "dispatched"} /\ attempt[r] < MaxAttempts
    /\ attempt' = [attempt EXCEPT ![r] = @ + 1]
    /\ step' = [step EXCEPT ![r] = "begun"]
    /\ \E a \in Analyses(r) \cup ({analysis[r]} \ {None}) :
         analysis' = [analysis EXCEPT ![r] = a]
    /\ \E w \in {workspace[r], Fresh} : workspace' = [workspace EXCEPT ![r] = w]
    /\ built' = [built EXCEPT ![r] = None]
    /\ UNCHANGED <<registry, evidence, requested>>

Completes(r, from, to) == step[r] = from /\ step' = [step EXCEPT ![r] = to]

\* Mutant: files of an earlier download stay.
DownloadMissing(r) ==
    /\ Completes(r, "begun", "downloaded")
    /\ workspace' = [workspace EXCEPT
         ![r].bundle = IF @ = None THEN analysis[r] ELSE @,
         ![r].gate = analysis[r]]
    /\ UNCHANGED <<attempt, analysis, built, registry, evidence, requested>>

\* The artifact is extracted over what the workspace holds.
Download(r) ==
    /\ Completes(r, "begun", "downloaded")
    /\ workspace' = [workspace EXCEPT ![r].bundle = analysis[r], ![r].gate = analysis[r]]
    /\ UNCHANGED <<attempt, analysis, built, registry, evidence, requested>>

\* buildx pushes by digest and moves the tag.  A build that is reproducible
\* finds its digest there already.
Push(r) ==
    /\ Completes(r, "downloaded", "pushed")
    /\ \E i \in {i \in images : i.commit = Commit[r]}
                  \cup {[commit |-> Commit[r], build |-> <<r, attempt[r]>>]} :
         /\ images' = images \cup {i}
         /\ tag' = [tag EXCEPT ![Commit[r]] = i]
         /\ built' = [built EXCEPT ![r] = i]
    /\ UNCHANGED <<attempt, analysis, workspace, attested, evidence, requested>>

Attest(r) ==
    /\ Completes(r, "pushed", "attested")
    /\ attested' = attested \cup {built[r]}
    /\ UNCHANGED <<attempt, analysis, workspace, built, tag, images, evidence, requested>>

(***************************************************************************)
(* release.py                                                              *)
(***************************************************************************)

\* What release.py checks before it writes anything.
Bindable(w, r) ==
    /\ w.bundle.revision = Commit[r]
    /\ w.gate.verdict = "pass"
    /\ w.evidence = None

\* The directory of evidence: copies of the two files and the two bindings,
\* the second over the digest of the first.
Evidence(r, image) ==
    LET gateBinding == [commit |-> Commit[r], run |-> r, analysis |-> analysis[r],
                        bundle |-> workspace[r].bundle, gate |-> workspace[r].gate]
    IN [bundle |-> workspace[r].bundle, gate |-> workspace[r].gate,
        gateBinding |-> gateBinding,
        binding |-> [id |-> <<r, attempt[r]>>, run |-> r, image |-> image,
                     bundle |-> workspace[r].bundle, gateBinding |-> gateBinding]]

\* The request carries digests of the evidence, never the evidence.
Request(r, image, docs) ==
    [id |-> <<r, attempt[r]>>, key |-> <<Commit[r], Environment[r]>>, run |-> r,
     image |-> image, bundle |-> docs.bundle, gateBinding |-> docs.gateBinding,
     binding |-> docs.binding]

\* Mutant: the image is looked up by its tag.
BindTagged(r) ==
    /\ Completes(r, "attested", "bound")
    /\ Bindable(workspace[r], r)
    /\ LET image == tag[Commit[r]]
           docs == Evidence(r, image)
       IN workspace' = [workspace EXCEPT ![r].evidence = docs,
                                         ![r].request = Request(r, image, docs)]
    /\ UNCHANGED <<attempt, analysis, built, registry, evidence, requested>>

Bind(r) ==
    /\ Completes(r, "attested", "bound")
    /\ Bindable(workspace[r], r)
    /\ LET docs == Evidence(r, built[r])
       IN workspace' = [workspace EXCEPT ![r].evidence = docs,
                                         ![r].request = Request(r, built[r], docs)]
    /\ UNCHANGED <<attempt, analysis, built, registry, evidence, requested>>

(***************************************************************************)
(* Evidence and request leave the workspace.                               *)
(***************************************************************************)

\* Mutant: overwrite: true.
UploadOver(r) ==
    /\ Completes(r, "bound", "uploaded")
    /\ evidence' = [evidence EXCEPT ![r] = workspace[r].evidence]
    /\ UNCHANGED <<attempt, analysis, workspace, built, registry, requested>>

\* The name has the run and not the attempt, and a name is given once.
Upload(r) ==
    /\ evidence[r] = None
    /\ Completes(r, "bound", "uploaded")
    /\ evidence' = [evidence EXCEPT ![r] = workspace[r].evidence]
    /\ UNCHANGED <<attempt, analysis, workspace, built, registry, requested>>

Dispatch(r) ==
    /\ Completes(r, "uploaded", "dispatched")
    /\ requested' = requested \cup {workspace[r].request}
    /\ UNCHANGED <<attempt, analysis, workspace, built, registry, evidence>>

(***************************************************************************)
(* Failures.                                                               *)
(***************************************************************************)

\* A step refuses, or the job ends before the next one; or the last answer
\* was lost, and what the step did stays done.
Fail(r) ==
    /\ step[r] # "failed"
    /\ step' = [step EXCEPT ![r] = "failed"]
    /\ UNCHANGED <<attempt, analysis, workspace, built, registry, evidence, requested>>

\* release.py ends among its writes; a missing binding stands for them all.
FailBinding(r) ==
    /\ Completes(r, "attested", "failed")
    /\ Bindable(workspace[r], r)
    /\ workspace' = [workspace EXCEPT ![r].evidence =
         [Evidence(r, built[r]) EXCEPT !.binding = None]]
    /\ UNCHANGED <<attempt, analysis, built, registry, evidence, requested>>

Next == \E r \in Runs :
    \/ Begin(r) \/ Download(r) \/ Push(r) \/ Attest(r) \/ Bind(r) \/ Upload(r)
    \/ Dispatch(r) \/ Fail(r) \/ FailBinding(r)

Spec == Init /\ [][Next]_vars

(***************************************************************************)
(* Properties.                                                             *)
(***************************************************************************)

\* Every request l9-deploy holds can be verified for as long as it holds it:
\* the evidence artifact it names is there and has the digests the request
\* has, the verdict in it is a pass for the requested commit, and the image
\* is in the registry, built from that commit and attested.  Reruns, other
\* runs that push the same tag and lost answers do not take that away.
RequestsVerify ==
    \A q \in requested :
        LET e == evidence[q.run] IN
        /\ e # None
        /\ e.bundle = q.bundle /\ e.gateBinding = q.gateBinding /\ e.binding = q.binding
        /\ e.binding.image = q.image /\ e.binding.gateBinding = e.gateBinding
        /\ e.gate.verdict = "pass" /\ e.bundle.revision = Commit[q.run]
        /\ q.image \in images \cap attested /\ q.image.commit = Commit[q.run]

\* A run requests one deployment however often it is rerun, although the
\* request has a new id in every attempt and the job that dispatched it may
\* not know: the second upload of its evidence is refused.  The price is
\* that a run that uploaded and did not dispatch never will.
OneRequestPerRun ==
    \A p, q \in requested : p.run = q.run => p = q

\* The gate binding names the analysis its files are from, in a workspace
\* that an earlier attempt left its own in as well.
EvidenceNamesItsAnalysis ==
    \A r \in Runs : evidence[r] # None =>
        /\ evidence[r].bundle = evidence[r].gateBinding.analysis
        /\ evidence[r].gate = evidence[r].gateBinding.analysis
=============================================================================

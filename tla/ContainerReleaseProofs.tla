------------------------- MODULE ContainerReleaseProofs -------------------------
(***************************************************************************)
(* Proofs about ContainerRelease, for any number of runs and of attempts:  *)
(* its three properties, from one inductive invariant.                     *)
(***************************************************************************)
EXTENDS ContainerRelease, TLAPS

Steps == {"failed", "begun", "downloaded", "pushed", "attested", "bound",
          "uploaded", "dispatched"}

\* The steps that come after the given one.
AfterBegin    == Steps \ {"failed"}
AfterDownload == AfterBegin \ {"begun"}
AfterPush     == AfterDownload \ {"downloaded"}
AfterAttest   == AfterPush \ {"pushed"}

Requests == [id : Attempts, key : Commits \X {Environment[r] : r \in Runs},
             run : Runs, image : Images, bundle : Analysis,
             gateBinding : GateBindings, binding : Bindings]

Workspaces == [bundle : Analysis \cup {None}, gate : Analysis \cup {None},
               evidence : EvidenceSets \cup {None},
               request : Requests \cup {None}]

-----------------------------------------------------------------------------
(* The inductive invariant.                                                *)

TypeOK ==
    /\ attempt \in [Runs -> Nat]
    /\ step \in [Runs -> Steps]
    /\ analysis \in [Runs -> Analysis \cup {None}]
    /\ workspace \in [Runs -> Workspaces]
    /\ built \in [Runs -> Images \cup {None}]
    /\ images \subseteq Images
    /\ evidence \in [Runs -> EvidenceSets \cup {None}]

\* What l9-deploy finds when it verifies request q of run r against the
\* evidence e.
Verifiable(r, q, e) ==
    /\ e # None
    /\ q.run = r
    /\ e.bundle = q.bundle /\ e.gateBinding = q.gateBinding /\ e.binding = q.binding
    /\ e.binding.image = q.image /\ e.binding.gateBinding = e.gateBinding
    /\ e.gate.verdict = "pass" /\ e.bundle.revision = Commit[r]
    /\ q.image \in images \cap attested /\ q.image.commit = Commit[r]

\* The gate binding of evidence e is about the analysis its files are from.
OneAnalysis(e) == /\ e.bundle = e.gateBinding.analysis
                  /\ e.gate = e.gateBinding.analysis

\* The job's files are those of the analysis it was given, ...
WorkspaceIsCurrent ==
    \A r \in Runs :
        /\ step[r] \in AfterBegin => analysis[r] # None
        /\ step[r] \in AfterDownload => /\ workspace[r].bundle = analysis[r]
                                        /\ workspace[r].gate = analysis[r]

\* ... its image is of its commit and, from the attestation on, attested, ...
BuiltIsCurrent ==
    \A r \in Runs :
        /\ step[r] \in AfterPush =>
              built[r] \in images /\ built[r].commit = Commit[r]
        /\ step[r] \in AfterAttest => built[r] \in attested

\* ... and what it bound can be verified with what it requests.
BoundVerifies ==
    \A r \in Runs : step[r] \in {"bound", "uploaded"} =>
        /\ Verifiable(r, workspace[r].request, workspace[r].evidence)
        /\ OneAnalysis(workspace[r].evidence)

\* Once uploaded, the evidence is the workspace's, and nothing has been
\* requested with it before the dispatch.
UploadedOnce ==
    \A r \in Runs : step[r] = "uploaded" =>
        /\ evidence[r] = workspace[r].evidence
        /\ \A q \in requested : q.run # r

\* What has been requested stays verifiable.
RequestedVerifies ==
    \A q \in requested : q.run \in Runs /\ Verifiable(q.run, q, evidence[q.run])

ReleaseInvariant ==
    /\ TypeOK
    /\ WorkspaceIsCurrent
    /\ BuiltIsCurrent
    /\ BoundVerifies
    /\ UploadedOnce
    /\ RequestedVerifies
    /\ OneRequestPerRun
    /\ EvidenceNamesItsAnalysis

-----------------------------------------------------------------------------
(* The documents are what they are said to be.                             *)

LEMMA EvidenceIsDocument ==
    ASSUME TypeOK, NEW r \in Runs, NEW image \in Images,
           workspace[r].bundle \in Analysis, workspace[r].gate \in Analysis,
           analysis[r] \in Analysis
    PROVE  /\ Evidence(r, image) \in EvidenceSets
           /\ Evidence(r, image).binding # None
<1> DEFINE gateBinding == [commit |-> Commit[r], run |-> r, analysis |-> analysis[r],
                           bundle |-> workspace[r].bundle, gate |-> workspace[r].gate]
           binding == [id |-> <<r, attempt[r]>>, run |-> r, image |-> image,
                       bundle |-> workspace[r].bundle, gateBinding |-> gateBinding]
<1>1. gateBinding \in GateBindings
  BY DEF GateBindings, Commits
<1>2. binding \in Bindings
  <2>1. <<r, attempt[r]>> \in Attempts
    BY DEF TypeOK, Attempts
  <2> QED
    BY <1>1, <2>1 DEF Bindings
<1>3. Evidence(r, image) = [bundle |-> workspace[r].bundle,
                            gate |-> workspace[r].gate,
                            gateBinding |-> gateBinding, binding |-> binding]
  BY DEF Evidence
<1> QED
  BY <1>1, <1>2, <1>3, NoneAssumption DEF EvidenceSets

\* What a job that reached the attestation knows.
LEMMA AttestedJob ==
    ASSUME ReleaseInvariant, NEW r \in Runs, step[r] = "attested"
    PROVE  /\ analysis[r] \in Analysis
           /\ workspace[r].bundle = analysis[r] /\ workspace[r].gate = analysis[r]
           /\ built[r] \in Images \cap images \cap attested
           /\ built[r].commit = Commit[r]
           /\ Evidence(r, built[r]) \in EvidenceSets
           /\ Evidence(r, built[r]).binding # None
<1>1. /\ analysis[r] # None
      /\ workspace[r].bundle = analysis[r] /\ workspace[r].gate = analysis[r]
  BY DEF ReleaseInvariant, WorkspaceIsCurrent, AfterDownload, AfterBegin, Steps
<1>2. /\ built[r] \in images /\ built[r].commit = Commit[r]
      /\ built[r] \in attested
  BY DEF ReleaseInvariant, BuiltIsCurrent, AfterAttest, AfterPush, AfterDownload,
         AfterBegin, Steps
<1>3. analysis[r] \in Analysis /\ built[r] \in Images
  BY <1>1, <1>2 DEF ReleaseInvariant, TypeOK
<1> QED
  BY <1>1, <1>2, <1>3, EvidenceIsDocument DEF ReleaseInvariant

LEMMA RequestIsDocument ==
    ASSUME TypeOK, NEW r \in Runs, NEW image \in Images,
           NEW docs \in EvidenceSets, docs.binding # None
    PROVE  Request(r, image, docs) \in Requests
<1>1. <<r, attempt[r]>> \in Attempts
  BY DEF TypeOK, Attempts
<1>2. <<Commit[r], Environment[r]>> \in Commits \X {Environment[q] : q \in Runs}
  BY DEF Commits
<1>3. /\ docs.bundle \in Analysis /\ docs.gateBinding \in GateBindings
      /\ docs.binding \in Bindings
  BY DEF EvidenceSets
<1> QED
  BY <1>1, <1>2, <1>3 DEF Request, Requests

-----------------------------------------------------------------------------
(* Every step keeps the invariant.                                         *)

LEMMA TypeStep == ReleaseInvariant /\ [Next]_vars => TypeOK'
<1> SUFFICES ASSUME ReleaseInvariant, [Next]_vars PROVE TypeOK'
  OBVIOUS
<1> USE DEF TypeOK, Workspaces, Steps, Completes, registry
<1>0. TypeOK
  BY DEF ReleaseInvariant
<1>1. ASSUME NEW r \in Runs, Begin(r) PROVE TypeOK'
  BY <1>0, <1>1 DEF Begin, Fresh, Analyses, Analysis, Attempts, Commits
<1>2. ASSUME NEW r \in Runs, Download(r) PROVE TypeOK'
  BY <1>0, <1>2 DEF Download
<1>3. ASSUME NEW r \in Runs, Push(r) PROVE TypeOK'
  BY <1>0, <1>3 DEF Push, Images, Attempts, Commits
<1>4. ASSUME NEW r \in Runs, Attest(r) PROVE TypeOK'
  BY <1>0, <1>4 DEF Attest
<1>5. ASSUME NEW r \in Runs, Bind(r) PROVE TypeOK'
  <2> DEFINE docs == Evidence(r, built[r])
  <2>1. docs \in EvidenceSets /\ docs.binding # None /\ built[r] \in Images
    BY <1>5, AttestedJob DEF Bind
  <2>2. Request(r, built[r], docs) \in Requests
    BY <1>0, <2>1, RequestIsDocument
  <2> QED
    BY <1>0, <1>5, <2>1, <2>2 DEF Bind
<1>6. ASSUME NEW r \in Runs, Upload(r) PROVE TypeOK'
  BY <1>0, <1>6 DEF Upload
<1>7. ASSUME NEW r \in Runs, Dispatch(r) PROVE TypeOK'
  BY <1>0, <1>7 DEF Dispatch
<1>8. ASSUME NEW r \in Runs, Fail(r) PROVE TypeOK'
  BY <1>0, <1>8 DEF Fail
<1>9. ASSUME NEW r \in Runs, FailBinding(r) PROVE TypeOK'
  <2>1. Evidence(r, built[r]) \in EvidenceSets
    BY <1>9, AttestedJob DEF FailBinding
  <2>2. [Evidence(r, built[r]) EXCEPT !.binding = None] \in EvidenceSets
    BY <2>1 DEF EvidenceSets
  <2> QED
    BY <1>0, <1>9, <2>2 DEF FailBinding
<1>10. CASE UNCHANGED vars
  BY <1>0, <1>10 DEF vars
<1> QED
  BY <1>1, <1>2, <1>3, <1>4, <1>5, <1>6, <1>7, <1>8, <1>9, <1>10 DEF Next

\* The images and the attestations there are stay, so what can be verified
\* once can be verified for ever.
LEMMA StaysVerifiable ==
    ASSUME NEW r, NEW q, NEW e, Verifiable(r, q, e), [Next]_vars
    PROVE  Verifiable(r, q, e)'
<1>1. images \subseteq images' /\ attested \subseteq attested'
  BY DEF Next, Begin, Download, Push, Attest, Bind, Upload, Dispatch, Fail,
         FailBinding, vars, registry
<1> QED
  BY <1>1 DEF Verifiable

LEMMA JobStep ==
    ReleaseInvariant /\ [Next]_vars => WorkspaceIsCurrent' /\ BuiltIsCurrent'
<1> SUFFICES ASSUME ReleaseInvariant, [Next]_vars
             PROVE  WorkspaceIsCurrent' /\ BuiltIsCurrent'
  OBVIOUS
<1> DEFINE Job == WorkspaceIsCurrent /\ BuiltIsCurrent
<1> USE DEF WorkspaceIsCurrent, BuiltIsCurrent, AfterBegin, AfterDownload,
      AfterPush, AfterAttest, Steps, Completes, registry
<1>0. TypeOK /\ Job
  BY DEF ReleaseInvariant
<1>1. ASSUME NEW r \in Runs, Begin(r) PROVE Job'
  BY <1>0, <1>1, NoneAssumption DEF Begin, TypeOK, Analyses, Analysis, Attempts, Commits
<1>2. ASSUME NEW r \in Runs, Download(r) PROVE Job'
  BY <1>0, <1>2 DEF Download, TypeOK, Workspaces
<1>3. ASSUME NEW r \in Runs, Push(r) PROVE Job'
  BY <1>0, <1>3 DEF Push, TypeOK
<1>4. ASSUME NEW r \in Runs, Attest(r) PROVE Job'
  BY <1>0, <1>4 DEF Attest, TypeOK
<1>5. ASSUME NEW r \in Runs, Bind(r) PROVE Job'
  BY <1>0, <1>5 DEF Bind, TypeOK, Workspaces
<1>6. ASSUME NEW r \in Runs, Upload(r) PROVE Job'
  BY <1>0, <1>6 DEF Upload, TypeOK
<1>7. ASSUME NEW r \in Runs, Dispatch(r) PROVE Job'
  BY <1>0, <1>7 DEF Dispatch, TypeOK
<1>8. ASSUME NEW r \in Runs, Fail(r) PROVE Job'
  BY <1>0, <1>8 DEF Fail, TypeOK
<1>9. ASSUME NEW r \in Runs, FailBinding(r) PROVE Job'
  BY <1>0, <1>9 DEF FailBinding, TypeOK, Workspaces
<1>10. CASE UNCHANGED vars
  BY <1>0, <1>10 DEF vars
<1> QED
  BY <1>1, <1>2, <1>3, <1>4, <1>5, <1>6, <1>7, <1>8, <1>9, <1>10 DEF Next

LEMMA BindingStep ==
    ASSUME ReleaseInvariant, NEW r \in Runs, Bind(r)
    PROVE  /\ Verifiable(r, workspace[r].request, workspace[r].evidence)'
           /\ OneAnalysis(workspace[r].evidence)'
<1> DEFINE docs == Evidence(r, built[r])
<1>1. /\ workspace[r].bundle = analysis[r] /\ workspace[r].gate = analysis[r]
      /\ built[r] \in images \cap attested /\ built[r].commit = Commit[r]
      /\ docs # None
  BY AttestedJob, NoneAssumption DEF Bind, Completes
<1>2. /\ workspace'[r].evidence = docs
      /\ workspace'[r].request = Request(r, built[r], docs)
      /\ images' = images /\ attested' = attested
  BY DEF Bind, registry, ReleaseInvariant, TypeOK, Workspaces
<1>3. workspace[r].bundle.revision = Commit[r] /\ workspace[r].gate.verdict = "pass"
  BY DEF Bind, Bindable
<1>4. OneAnalysis(docs)
  BY <1>1 DEF OneAnalysis, Evidence
<1>5. Verifiable(r, Request(r, built[r], docs), docs)
  BY <1>1, <1>3 DEF Verifiable, Request, Evidence
<1> QED
  BY <1>2, <1>4, <1>5 DEF Verifiable

LEMMA EvidenceStep ==
    ReleaseInvariant /\ [Next]_vars =>
        BoundVerifies' /\ UploadedOnce' /\ EvidenceNamesItsAnalysis'
<1> SUFFICES ASSUME ReleaseInvariant, [Next]_vars
             PROVE  BoundVerifies' /\ UploadedOnce' /\ EvidenceNamesItsAnalysis'
  OBVIOUS
<1> DEFINE Evident == BoundVerifies /\ UploadedOnce /\ EvidenceNamesItsAnalysis
<1> USE DEF BoundVerifies, UploadedOnce, EvidenceNamesItsAnalysis, OneAnalysis,
      Completes, registry
<1>0. Evident /\ TypeOK
  BY DEF ReleaseInvariant
<1>a. \A q \in requested : q.run \in Runs /\ evidence[q.run] # None
  BY DEF ReleaseInvariant, RequestedVerifies, Verifiable
<1>1. ASSUME NEW r \in Runs, Begin(r) PROVE Evident'
  BY <1>0, <1>1, StaysVerifiable DEF Begin, TypeOK
<1>2. ASSUME NEW r \in Runs, Download(r) PROVE Evident'
  BY <1>0, <1>2, StaysVerifiable DEF Download, TypeOK
<1>3. ASSUME NEW r \in Runs, Push(r) PROVE Evident'
  BY <1>0, <1>3, StaysVerifiable DEF Push, TypeOK
<1>4. ASSUME NEW r \in Runs, Attest(r) PROVE Evident'
  BY <1>0, <1>4, StaysVerifiable DEF Attest, TypeOK
<1>5. ASSUME NEW r \in Runs, Bind(r) PROVE Evident'
  <2>1. /\ Verifiable(r, workspace[r].request, workspace[r].evidence)'
        /\ OneAnalysis(workspace[r].evidence)'
    BY <1>5, BindingStep
  <2> QED
    BY <1>0, <1>5, <2>1, StaysVerifiable DEF Bind, TypeOK
<1>6. ASSUME NEW r \in Runs, Upload(r) PROVE Evident'
  <2>1. \A q \in requested : q.run # r
    BY <1>a, <1>6 DEF Upload
  <2> QED
    BY <1>0, <1>6, <2>1, StaysVerifiable DEF Upload, TypeOK
<1>7. ASSUME NEW r \in Runs, Dispatch(r) PROVE Evident'
  <2>1. workspace[r].request.run = r
    <3>1. Verifiable(r, workspace[r].request, workspace[r].evidence)
      BY <1>0, <1>7 DEF Dispatch
    <3> QED
      BY <3>1 DEF Verifiable
  <2>2. requested' = requested \cup {workspace[r].request}
    BY <1>7 DEF Dispatch
  <2>3. UNCHANGED <<workspace, evidence>> /\ step' = [step EXCEPT ![r] = "dispatched"]
    BY <1>7 DEF Dispatch
  <2>4. BoundVerifies' /\ EvidenceNamesItsAnalysis'
    BY <1>0, <2>3, StaysVerifiable DEF TypeOK
  <2>5. UploadedOnce'
    BY <1>0, <2>1, <2>2, <2>3 DEF TypeOK
  <2> QED
    BY <2>4, <2>5
<1>8. ASSUME NEW r \in Runs, Fail(r) PROVE Evident'
  BY <1>0, <1>8, StaysVerifiable DEF Fail, TypeOK
<1>9. ASSUME NEW r \in Runs, FailBinding(r) PROVE Evident'
  BY <1>0, <1>9, StaysVerifiable DEF FailBinding, TypeOK
<1>10. CASE UNCHANGED vars
  BY <1>0, <1>10, StaysVerifiable DEF vars
<1> QED
  BY <1>1, <1>2, <1>3, <1>4, <1>5, <1>6, <1>7, <1>8, <1>9, <1>10 DEF Next

LEMMA RequestStep ==
    ReleaseInvariant /\ [Next]_vars => RequestedVerifies' /\ OneRequestPerRun'
<1> SUFFICES ASSUME ReleaseInvariant, [Next]_vars
             PROVE  RequestedVerifies' /\ OneRequestPerRun'
  OBVIOUS
<1>0. /\ BoundVerifies /\ UploadedOnce /\ RequestedVerifies /\ OneRequestPerRun
      /\ TypeOK
  BY DEF ReleaseInvariant
<1>1. \A r \in Runs : evidence[r] # None => evidence'[r] = evidence[r]
  BY <1>0 DEF TypeOK, Next, Begin, Download, Push, Attest, Bind, Upload, Dispatch,
         Fail, FailBinding, vars, registry
<1>2. \A q \in requested : q.run \in Runs /\ Verifiable(q.run, q, evidence[q.run])'
  <2> SUFFICES ASSUME NEW q \in requested
               PROVE  q.run \in Runs /\ Verifiable(q.run, q, evidence[q.run])'
    OBVIOUS
  <2>1. q.run \in Runs /\ Verifiable(q.run, q, evidence[q.run])
    BY <1>0 DEF RequestedVerifies
  <2>2. evidence'[q.run] = evidence[q.run]
    BY <1>1, <2>1 DEF Verifiable
  <2> QED
    BY <2>1, <2>2, StaysVerifiable
<1>3. CASE \E r \in Runs : Dispatch(r)
  <2>1. PICK r \in Runs : Dispatch(r)
    BY <1>3
  <2> DEFINE new == workspace[r].request
  <2>2. /\ Verifiable(r, new, evidence[r])
        /\ new.run = r
        /\ \A q \in requested : q.run # r
    BY <1>0, <2>1 DEF Dispatch, Completes, BoundVerifies, UploadedOnce, Verifiable
  <2>3. Verifiable(new.run, new, evidence[new.run])'
    <3>1. evidence'[r] = evidence[r] /\ workspace' = workspace
      BY <1>1, <2>1, <2>2 DEF Verifiable, Dispatch
    <3> QED
      BY <2>2, <3>1, StaysVerifiable
  <2>4. requested' = requested \cup {new} /\ workspace' = workspace
    BY <2>1 DEF Dispatch
  <2> QED
    BY <1>0, <1>2, <2>2, <2>3, <2>4 DEF RequestedVerifies, OneRequestPerRun
<1>4. CASE ~\E r \in Runs : Dispatch(r)
  <2>1. requested' = requested
    BY <1>4 DEF Next, Begin, Download, Push, Attest, Bind, Upload, Fail,
           FailBinding, vars
  <2> QED
    BY <1>0, <1>2, <2>1 DEF RequestedVerifies, OneRequestPerRun
<1> QED
  BY <1>3, <1>4

(* Whatever fails, is lost or is rerun, for any number of runs and         *)
(* attempts, the invariant holds.                                          *)
THEOREM ReleaseInvariantHolds == Spec => []ReleaseInvariant
<1>1. Init => ReleaseInvariant
  BY DEF Init, ReleaseInvariant, TypeOK, Workspaces, Fresh, Steps,
         WorkspaceIsCurrent, BuiltIsCurrent, BoundVerifies, UploadedOnce,
         RequestedVerifies, OneRequestPerRun, EvidenceNamesItsAnalysis,
         AfterBegin, AfterDownload, AfterPush, AfterAttest
<1>2. ReleaseInvariant /\ [Next]_vars => ReleaseInvariant'
  BY TypeStep, JobStep, EvidenceStep, RequestStep DEF ReleaseInvariant
<1> QED
  BY <1>1, <1>2, PTL DEF Spec

(* Every request that l9-deploy holds can be verified, for as long as it   *)
(* holds it (container-release/action.yml, release.py).                    *)
THEOREM RequestsVerifyHolds == Spec => []RequestsVerify
<1>1. ReleaseInvariant => RequestsVerify
  BY DEF ReleaseInvariant, RequestedVerifies, Verifiable, RequestsVerify
<1> QED
  BY <1>1, ReleaseInvariantHolds, PTL

(* However often a run is rerun, it requests one deployment.               *)
THEOREM OneRequestPerRunHolds == Spec => []OneRequestPerRun
<1>1. ReleaseInvariant => OneRequestPerRun
  BY DEF ReleaseInvariant
<1> QED
  BY <1>1, ReleaseInvariantHolds, PTL

(* The uploaded evidence names the analysis its files are from.            *)
THEOREM EvidenceNamesItsAnalysisHolds == Spec => []EvidenceNamesItsAnalysis
<1>1. ReleaseInvariant => EvidenceNamesItsAnalysis
  BY DEF ReleaseInvariant
<1> QED
  BY <1>1, ReleaseInvariantHolds, PTL
=============================================================================

# A verification model of l9-ci-core

`l9-ci-core` is the central CI of an organisation: reusable GitHub workflows and
composite actions that evaluate a consumer repository, and a repository runtime
(`tools/l9_repo`) that consumers and Core itself run locally. This directory
holds TLA+ modules for its stateful parts, TLC configurations that check them on
small instances, and proofs, checked by TLAPS, of the central results for every
instance. All paths below are relative to the repository root.

## 1. Inventory

| Component | State it keeps | Operations | Hard behaviour |
| --- | --- | --- | --- |
| Single-flight lock (`tools/l9_repo/locking.py`) | a directory, an `owner` file, their mtime | acquire, recover a stale lock, release | interleaved system calls, crashes, reused pids |
| Reconciliation (`contract.py`, `__main__.py`) | the generated `Makefile` | compare, truncate and write | a kill in mid-write, a second writer |
| Repository verification (`run-repository-verification/run.py`) | a verdict, five outputs in a file | resolve policy, classify, verify, run four phases, record | phases rewrite the tree; a kill between two outputs |
| V1 executor (`__main__.py`) | none beyond the tree | the four phases, contract read again in each | the contract changes between phases |
| Central evaluation (`org-ci.yml`, job `analyze`) | step outputs and outcomes, the artifact set | resolve class, govern, provision, verify, analyse, gate, upload, enforce | any step fails, cancellation, lost runner, `always()` |
| Evaluation queue (`org-ci.yml`, `concurrency`) | a running and a pending run per group | request, start, complete | displacement by later requests |
| Governance (`resolve-governance/resolve.py`, `validate-governance`) | the documents, the pinned revision, staged files, nine outputs | validate, merge, pin, resolve, stage | days pass between validation and use; outputs and staged files before a late failure |
| Repo.mk ABI (`contract.py`) | what a partial reading of a makefile has gathered | one line after the other | variables, conditionals and defines that Core and make read differently |
| Check publication (`publish-check/publish.py`, `publish-analysis.yml`) | check runs on GitHub | look up, create, update | lost answers, late requests, reruns, paging in a moving list |
| Agent check (`__main__.py`, `change_policy.py`, `reporting.py`) | evidence, two report files | read subject, run gates and phases, prove non-mutation, report | the workspace moves meanwhile, kills, reruns |
| Artifact routing, manifest, handoff (`route.py`, `manifest.py`, `handoff.py`) | files below `artifacts/`, an index, an artifact on GitHub, a descriptor | route, stage, index, upload, describe | files that were there before, names taken by another attempt, a failure behind an upload |
| Artifact retrieval (`prepare.py`, `verify_server.py`, `retrieve.py`) | a destination directory, a request | prepare, check on the server, download, verify | expiry and deletion between check and download, damaged transfers, retries |
| Container release (`container-release`) | an image and its tag, attestations, evidence, a deployment request | build and push, attest, bind, upload, dispatch | a failure or a lost answer between any two; reruns; two runs of one commit |
| SDK provisioning (`provision-sdk`) | manifest, runtime lock, action pin; a runtime directory | select, create, check out, install, probe | four documents moved by separate changes, shared workspaces, kills |
| Control-plane attestation (`verify_control_plane.py`) | repository settings, a document of evidence | read four endpoints, conclude, upload | settings change between the reads, unreadable endpoints |
| Self-analysis (`analyze-semgrep.yml`, `self-analysis.yml`) | as central evaluation, plus a check | analyse, publish | cancellation by a newer run |

The remaining parts (document validators, integrity scans, installers, release
scripts, local operations) are single sequential processes over files; `PROJECT.json` lists each with the reason it is left out.

The parts interact as follows. `org-ci.yml` is started by an event or a calling
workflow, queues in its concurrency group, and runs its steps in order. Step
`repository_verify` runs the admission process on the consumer's tree; its
outputs are read, much later, by the step `Enforce repository verification`.
The governance step decides the mode under which the SDK gate is enforced. The
packaging steps route and index the artifact set, upload it and describe the
upload; `retrieve-artifacts` verifies it wherever it is used: by
`publish-analysis.yml`, which turns it into one check run per analysis, and in
other runs that hold the descriptor. `container-release` takes an analysis by its
name and turns it into a deployment request. All of this runs with the actions,
governance documents, compatibility manifest and lock of the Core revision that
`org-ci.yml` pins, which changes of Core's main move; what may be merged there is
up to settings that the attestation watches. Independently, a developer or an agent runs
`tools/l9_repo`: `reconcile` under the lock, and `agent-check`, which runs the
same phases as the admission and leaves a report.

## 2. Modules

| Module | Models | Shape |
| --- | --- | --- |
| `Reconciliation` | what callers of `reconcile` are promised | abstract specification: who is inside, and the file |
| `SingleFlight` | `locking.py`, `locked_reconcile`, `RepositoryExecution.reconcile` | one action per file-system call; implements `Reconciliation` |
| `CheckPublication` | `publish.py`, the jobs of `publish-analysis.yml` | attempts, pages, requests on the wire, the service |
| `Admission` | what the enforcement of an admission is promised | abstract specification: the phases that succeeded, whether the outputs are acceptable |
| `RepositoryVerification` | `run.py`, V2 admission, V1 bridge, the acceptance rule | one process, a tree that phases may rewrite |
| `OrgEvaluation` | job `analyze` of `org-ci.yml` | step machine; INSTANCEs `RepositoryVerification` as its verification step; implements `Admission` |
| `EvaluationQueue` | `concurrency` of `org-ci.yml` | runs of a group over GitHub's queueing rule |
| `AgentCheck` | `agent_check` and its reports | the check against a moving workspace |
| `ArtifactExchange` | what consumers of an artifact set are promised | abstract specification: what is published, what each consumer holds |
| `ArtifactHandoff` | packaging and retrieval of the artifact set | producers, GitHub's store, consumers; implements `ArtifactExchange` |
| `Governance` | `resolve.py`, `validate_governance.py`, the documents' way to the fleet | a function of documents, request and day, inside changing documents and days |
| `ContainerRelease` | the `container-release` action | release jobs, their reruns, registry and evidence |
| `ControlPlane` | `verify_control_plane.py`, `control-plane-attestation.yml` | the settings, and a reader that takes them one by one |
| `SdkProvisioning` | `provision.py`, promotion of an SDK revision | EXTENDS `ControlPlane`: its settings admit the changes; calls over shared workspaces |
| `RepoMk` | `validate_repo_mk_text` and GNU Make's reading | two readers of the same lines |
| `RepoToolProofs` | theorems about `SingleFlight` and about `RepoMk` | proofs |
| `CheckPublicationProofs`, `AgentCheckProofs`, `ArtifactHandoffProofs`, `GovernanceProofs`, `ContainerReleaseProofs` | theorems about the module of that name | proofs |
| `OrgEvaluationProofs` | theorems about `OrgEvaluation` with `RepositoryVerification`, and about `EvaluationQueue` | proofs |
| `SdkProvisioningProofs` | theorems about `SdkProvisioning` with `ControlPlane` | proofs |

The `MC*` modules hold model-checking definitions only.

### SingleFlight and Reconciliation

`pc[p]` is the next system call of process `p`: `mkdir` to `remkdir` acquire,
`open` and `write` mark the lock, `load`, `truncate` and `fill` are the guarded
body, `unmark` and `close` the `finally` block. `dir`, `aged`, `owner` and
`foreign` are the directory, whether its mtime is past `stale_after`, the owner
file and a stray entry; `fds` tells whose open file is still the one in the
directory, because a write to an unlinked file is lost. A process's name is its
pid. `Crash` runs no `finally`; `Reassign` gives a dead pid to somebody else.

Two constants name what the environment is assumed to do:

* `Prompt`: the lock's mtime does not pass `stale_after` (by default half an
  hour) while its holder stands between two adjacent calls of acquisition or
  release. The guarded body itself may take as long as it likes.
* `SerialRecovery`: dismantling a stale lock does not overlap with another
  contender's dismantling of it, nor with the release of a slow holder.

The code does not enforce the second one, and run `lock_overlap` shows what then
happens: two contenders list the same old directory, the first removes and
recreates it, the second unlinks and removes the new one, and both run the body.
Run `lock_serial` checks the lock under both; the liveness run does not use the
second. The theorems use neither: they speak of the behaviours in which no lock
outlives `stale_after` (section 5).

`Abstract` is the refinement mapping: the set `inside` is the set of processes in
the body, and the file is the file. A killed invocation leaves `inside` and may
leave a partial file, which the next body rewrites.

### CheckPublication

A `Job` is an analysis with its own matrix id, hence its own external id; that
id contains the run and not the attempt, so a rerun shares it. An attempt reads
one page per `Scan`, then puts one request on the wire. `Land` executes it at any
later time; `Respond` returns only after that, while `Fail` may happen before
(request lost) or after (answer lost). `Intrude` adds check runs of other
applications while the lookup is under way. That the listing has the newest run
first and that ids grow are properties of the service (external).

A request may land after its sender gave up, even behind a rerun's lookup. Then
two checks of one identity can exist: nothing in the client can prevent it, the
API has no idempotency key. The history variable `straggled` remembers the
analyses this happened to, and `OneCheckPerIdentity` speaks of the others, whose
requests may be lost, delayed within an attempt, or answered in vain. `late` is
the same for the current attempt only, and `PublishedShowsVerdict` uses it: a
rerun that no straggler meets must publish its verdict whatever happened before.
`IdentitiesStable`, `ObserversLeaveNoCheck` and `AttemptsEnd` hold without
exception.

### RepositoryVerification and Admission

`tree` is what the decisions depend on: the generation of the contract, whether
`Makefile` is the exact facade, and which phases the repository implements. A
phase may leave any other tree behind when `generates`, chosen at the start and
constant afterwards, is TRUE; the workspace itself survives. `Trees` bounds the
workspaces there may be. Outputs are written one by one, `Kill` may come before each,
and `Accepts` is the enforcement rule of `org-ci.yml` over what has been written.

`Admission` has none of this: phases succeed in order, all by one version of the
contract, and then the outputs become acceptable in one step. `Promise` of
`OrgEvaluation` maps the phases that have succeeded and what `Accepts` says of the
outputs to it, so the five writes, and whatever cuts them short, must look like one.

### OrgEvaluation

`Steps` lists the steps in order; consecutive steps with the same condition and
no output that matters are one. `Condition` is a step's `if` with the implied
`success()`. A step that is due succeeds or fails; the ones whose outputs later
conditions read are actions of their own. `Verify` takes one step of
`RepositoryVerification` at a time, so cancellation can hit between any two of
its writes. `CheckPush` runs for every run whose event is a push, reusable ones
included, and so refuses a caller on a push that asks for another class, which
the comment at `org-ci.yml:148-150` seems not to intend. A failing governance step may have written its mode: the outputs are
emitted before the digest is computed. Step scheduling, `always()` and job
conclusions are those of GitHub Actions (external).

`Verified` of the admission process is what accepted outputs must mean; the run
checks it across the composition (`AcceptedMeansVerified`), and green jobs from it
(`GreenMeansVerified`).

### EvaluationQueue

`key` is a run's group, revision and event name. A new request cancels the
pending run of its group; `cancel-in-progress: false` leaves the running one.

### AgentCheck

The workspace is a record of versions: the commit, the tracked content of HEAD,
index and worktree, the policy file and the untracked files. The check reads the
subject part by part (`Capture`), runs one gate or phase per step, reads the parts
again (`Prove`) and writes two reports. `Edit` changes one thing at any time and
gives it a fresh number, so that a change which restores exactly what was there
before, and which no fingerprint could notice, does not occur. Which paths
changed is left out: `ResolveChanges` picks any plan of gates.

Two things follow from the code and have no run. The fingerprint
(`__main__.py:631`) does not read the index, so `SameTree` disregards it, while
`docs/repository-execution-runtime.md:300-301` names it among what validation
preserves. The policy is parsed and the gates are selected (`__main__.py:702`)
before the subject is recorded (`__main__.py:707`), so a change in between is
part of the named subject and not of the selection.

### ArtifactHandoff and ArtifactExchange

A file is its place below `artifacts/` and its content is who wrote it, so a
digest is the content itself. Every producer checks a repository out, also
`normalize-semgrep-report.yml`, which routes no SARIF; the checkout may hold files
there already (`Checkouts`), among them `stray` ones outside the three directories
that `org-ci.yml:643-645` uploads, `hidden` ones in them, which that upload skips by
default, and `extra` ones that it takes. `LeftBehind` is what an upload does not
take: nothing of it with `path: artifacts/` and `include-hidden-files: true`
(`normalize-semgrep-report.yml:222-227`). A producer is one attempt of
a job: `Route`, `Stage`, `Manifest`, `Upload` and `Handoff`, each of which may fail
and take the workspace with it; the artifact may exist although the upload failed
and the descriptor although its step did. `Retire` is GitHub's retention: an
artifact that is due is past its date and still there. A consumer asks by
descriptor or, in the run itself, by name; it is told apart from the producer by
its own run. `Delivered` is what a transfer can make of an archive.

`Exchange` is the refinement mapping: published are the archives in the store,
accepted is the destination of a consumer whose verification has ended well.
`AcceptedIsRequested` says that it is the set that was asked for,
`AcceptedFromOneAttempt` that its parts are of one attempt, which is what
`route.py`'s refusal to overwrite and the staging step's overwriting are for. The
SARIF of an attempt that projects none is excepted: see section 3.

### Governance

The resolution is a function of documents, request and day. Around it, `Validate`
checks a change merged with the main of that day, `Merge` and `AdvancePin` bring it
to the fleet, `Midnight` passes. `Evaluate` is `main` of `resolve.py` up to the
consumer's waiver pointers; `Interrupted` leaves the staged files of a failed run
behind for the next one in that workspace. `outcomes` records the evaluations that
resolved. One provider stands for all.

### ContainerRelease

A step of `step[r]` is the step of the action that was completed last. `Begin`
starts an attempt with a new analysis or the one there is, in the workspace that is
left or a fresh one. `Push` finds its digest in the registry when the build is
reproducible, and moves the tag of the commit, which several runs share. A digest
is what is digested, so evidence and request hold their documents. `Fail` may come
after any step, also after one whose answer was lost; `FailBinding` ends `release.py`
among its writes.

### ControlPlane and SdkProvisioning

`ControlPlane` has GitHub's settings, among them which checks are required, and the
attestation, which reads the endpoints one after the other; each may be unreadable.
`held` remembers what was met at some time since the run began.
`SdkProvisioning` puts Core's main under those settings. A tree is what provisioning
depends on: entries of the compatibility manifest, the default revision, the runtime
lock, and the pin. `Evaluate` runs `sdk-contract-check` on a proposal merged with
main. `Admitted` is GitHub's rule, for the checks that the settings require: the
attestation demands that some check is required (`Protected`) and that the
organization's rule is strict or there is a queue (`Fresh`), which may do without
`sdk-contract`, and a merge queue never runs `sdk-contract-check`. `Merge` is a merge
by this rule or by an actor that may bypass it
(`docs/release/rulesets/core-main-protection.json:11-17`). The ghost `gated` says
whether GitHub demanded a green, current `sdk-contract` of main's last change, and
`DefaultProvisions` speaks of the mains for which it did. `Select` to `Emit`
are `provision.py` with the tree that the pin names, in a workspace that another
call may use, or have used.

### RepoMk

`core` is what `contract.py` has gathered after some lines, `make` what GNU Make
has; `Read` gives both one more line. Core blanks conditionals and defines and knows
no environment; make's reading chooses which conditionals hold and what the
environment defines. Make is modelled from its manual, and the cases below were
confirmed with GNU Make 4.3. Any line may stand behind a tab, a `>` or a space
(`led`): for make it is a command when a rule is open and that is the recipe prefix
(`Literal`), else it is what it is without the blank (`Heeded`); for Core it is a
recipe line or closes the rule, and only a directive behind a space is one (`Seen`).
The ghost `misled` marks a line that Core misreads: `Hidden` (blanked by Core, heeded
by make), `Led` (behind a blank or a prefix, and not for make what it is for Core),
`Deferred` (appended at once for Core, expanded when used for make), `Nested` (a
define of its own for Core, part of one that make skips), and `Emptied` (a recipe that
an empty one replaces). Where a conditional does not hold, make follows nested
conditionals but ends a define at its first `endef` (`MakeSkips`), while Core counts
nested defines. What an expansion comes across is the smallest set of variables closed
under reference (`Reached`), which is what `_proven_tokens` visits.

## 3. Runs

| Run | Question | Bounds and why they suffice |
| --- | --- | --- |
| `lock_serial` | does the lock exclude, name its holder, not leak, and implement `Reconciliation` | 3 processes: a holder, a recoverer and a contender; unbounded crashes and restarts |
| `lock_live` | does every invocation end, is a leaked lock recovered | 3 processes, overlapping recovery allowed |
| `lock_overlap` | is exclusion guaranteed without the assumption | 3 processes; violated |
| `publish` | one check per identity, no stale verdict, no write by observers, does an attempt end | 2 analyses, one of them rerun, pages of 2, 2 pages, 3 foreign checks: a lookup may meet its own check on page 1, on page 2, moving between them, or exceed the limit; both write, or one has any mode and election and the other is disabled |
| `org` | can a claim weaken the profile, do accepted outputs tell the truth and appear at once, does green mean verified and gated | every event, class, claim and kind of trigger against a repository without a contract; a native push, a pull request and a manual release against all contracts with at most one phase missing; phases that rewrite the tree in the two admissions that reach them; failure and cancellation everywhere |
| `queue_live` | is what was requested evaluated | 4 runs, 2 events of one revision: a running, a pending and a displacing run in one group and a second group |
| `agent` | is a pass about one tree, and are the reports its own | 3 changes under the first check: edit, stage and commit is the shortest sequence that hides a change; a second check follows a first that saw at most one change, since only the reports outlive a check |
| `handoff` | is what is accepted what was asked for, whole, from one attempt; can what is uploaded be retrieved | 2 attempts that take one name in one run, one projecting SARIF and uploading three directories, one neither; 7 checkouts (clean, files in the uploaded directories, and each of a bundle, a raw report, a SARIF file, a stray and a hidden file); a consumer inside the run and one outside; 1 retry, which may find the destination of the first try |
| `governance` | does the digest determine the decision, can an expired waiver be used, is what is staged what was digested | 2 consumers, 2 profiles, 11 edits of every document, 2 merges and 2 evaluations, 3 days, a waiver and its renewal under one id: a document validated before a waiver's last day and used after it, and a pin that moves between two evaluations in one workspace |
| `release` | can a request be verified, is it the only one, is the evidence its own | 2 runs of one commit with 2 attempts each: a rerun, and another run's push of the tag in between |
| `promotion` | can main's default be provisioned, is a runtime what was selected, what does a passing attestation mean | 2 revisions, 7 proposals, 2 calls that share a workspace, 3 activities: two proposals that break each other, a change of the required checks or a bypass before one, an attestation with two changes of settings during it, two calls with a change between them |
| `repo_mk` | does an accepted leaf ever do nothing | files of up to 4 lines over one variable, blocks two deep; violated by two lines |

Deadlock is checked in `lock_serial`. It is off
elsewhere because the modelled process really ends: a job concludes, attempts
and changes are bounded, the check exits, the file ends; in the lock's liveness run
it is off since nobody is obliged to start another invocation. The runs of the
publication, the evaluation and the agent check start from specifications in the
`MC*` modules that restrict the initial states, or bound the changes, as the table
says. `TypeOK` of each module is part of the proofs.

### What the violated runs show

`lock_overlap`: stale-lock recovery is not atomic (`locking.py:45`), while
`docs/repository-execution-runtime.md:303` says that locking guards `reconcile`;
`PROJECT.json`, "findings", quotes it. `lock_serial` states what does hold:
exclusion under serial recovery; theorem `ExclusionUnlessStale` that it takes a stale
lock to lose it.

`repo_mk`: Core accepts a leaf for which make says "Nothing to be done", although
`contract.py:480` says that a leaf that does nothing cannot implement a phase. In the
trace a rule with a recipe is followed by one whose empty recipe replaces it. The
other ways, each confirmed with GNU Make 4.3 and `contract.py`:

* a line inside a conditional that make heeds and Core blanks, such as `A =` or another
  target's rule; `define A`/`endef` after `A = x`;
* `A ?=` followed by `A += $(B)` where `B` is emptied later;
* a define that holds another, inside a conditional that does not hold, where make
  ends the outer one at the first `endef`;
* outside a rule, directives and assignments behind a tab, which make heeds, while
  `contract.py:198-199` says that a directive never begins with a tab: after an
  assignment, `ifdef NEVER` or `define A` behind a tab hides the leaf that follows it,
  and behind `repo-test: X = 1` a tab and `FOO = bar` is no recipe.

Theorem `AcceptedLeafWorksHolds` says that the model has no other ways, for files of
any length (section 5). Before it was proved, TLC found `AcceptedLeafWorks` true of
all files of up to 5 lines over one variable.

### Observations without a run

Reading and modelling the code showed more places where behaviour and text differ,
or where the code relies on something it does not check. The properties are stated
so that they hold with them.

* A phase may rewrite `Makefile` or `Repo.mk`, and the facade is verified once
  before all phases; `run.py:201-203` says that each phase reaches the repository's
  own leaf. `Verified` therefore excepts workspaces whose phases rewrite them.
* A caller on `workflow_dispatch` that asks for class push or pull_request without a
  profile gets a profile that does not exist (`org-ci.yml:208`), while
  `tests/workflows/test_org_runtime_contract.py:100` says that the fallback must
  resolve. The job fails; no class is weakened.
* `CheckPush` also sees the pushes of reusable callers (`org-ci.yml:284`) and fails
  those that ask for another class.
* A queued evaluation is cancelled by the next request of its revision and event
  (`org-ci.yml:137`), while the comment at 134-136 says queued, never cancelled. The
  group is evaluated all the same (`GroupIsEvaluated`).
* A commit between the final reading of HEAD and the final fingerprint hides an
  earlier edit from `agent-check` (`__main__.py:800`), while
  `docs/repository-execution-runtime.md:126-127` says that non-mutation is proved.
* The manifest indexes all of `artifacts/`, as `docs/artifact-protocol.md` has it,
  hidden files included, while `org-ci.yml` and `analyze-semgrep.yml` upload three
  directories of it without hidden files: with a file outside them or a hidden one
  the uploaded set cannot be verified (`UploadsVerifyUnlessLeftBehind`).
* `normalize-semgrep-report.yml` checks the repository out (72-83) and routes no SARIF
  (181-187). A tracked `artifacts/l9/<matrix>/results.sarif` is then indexed as SARIF
  (`manifest.py:279-281`) and exposed with the attempt's own parts
  (`retrieve.py:326`); `AcceptedFromOneAttempt` excepts it.
* Nothing that is attested makes `sdk-contract` a required check
  (`.l9/release-plane.yaml:159-167`, `verify_control_plane.py:528-541`), a merge queue
  satisfies the demand of freshness and does not run it
  (`sdk-contract-check.yml:2-8` has no `merge_group`), and a required `sdk-contract`
  would block that queue. A passing attestation hence does not mean that main's
  default revision provisions; `DefaultProvisions` names the settings that do, which
  are those of the documented ruleset.
* One expired waiver fails every repository's governance; a waiver applies before
  its creation date; `governance-ci` does not check that a required provider is not
  disabled, which `resolve.py:514` refuses; and nothing enforces
  `docs/governance/README.md:64`, that a mode moves one rung at a time.
* `container-release` pushes and attests the image before the verdict is looked at
  (`release.py:158`); a run that uploaded its evidence and did not dispatch never
  can, since the name lacks the attempt (`release.py:167`).
* One lock per platform makes entries with other requirements unprovisionable; the
  fallback revision of `org-ci.yml:361` must be an entry of the pinned tree, which
  nothing tests; a killed provisioning leaves its directory, and that workspace is
  refused from then on.
* The attestation is not one snapshot (`AttestedWasSo` says what it is), and a
  ruleset whose detail cannot be read counts as enforced
  (`verify_control_plane.py:454`).

## 4. Fairness

* `SingleFlight`: the operating system schedules a started process, and time
  passes. Nothing obliges anyone to start. `LeakRecovered` therefore assumes in
  its own statement that somebody keeps trying.
* `CheckPublication`: a running job makes progress, and a waiting request is
  answered or runs into its 30 seconds. The start of attempts is not fair.
* `EvaluationQueue`: the service starts a run whose group is free, and a job
  ends within `timeout-minutes: 30`. Requests are not fair.

The other modules have safety properties only.

## 5. Proofs

The theorems hold for every value of the constants: any processes, runs, producers,
proposals, calls or revisions, and any bound on changes, attempts and days. Each
proof module has the same layout: the parts of an inductive invariant, lemmas about
the operators of the model, one lemma per part with a step per action, the theorem
that the invariant holds, and then the properties that the runs check, each as a
short consequence. Before it was proved, each invariant was given to TLC over the
instance of its component's run, where every part of it held in every state; their
consequences are what the runs check.

| Component | Invariant | Properties that follow |
| --- | --- | --- |
| `SingleFlight` | `NoLeak`, `Fresh`, `BodyKnowsFile`, `LockInvariant` | `MutualExclusion`, `OwnerNamesHolder`, `SuccessMeansCurrent`, `NoLeakWithoutInterference`, `ImplementsReconciliation` |
| `CheckPublication` | `PublicationInvariant` | `OneCheckPerIdentity`, `PublishedShowsVerdict`, `ObserversLeaveNoCheck`, `IdentitiesStable` |
| `OrgEvaluation`, `RepositoryVerification` | `EvaluationInvariant` | `AcceptedMeansVerified`, `GreenMeansVerified`, `GreenMeansGatePassed`, `RefusalKeepsEvidence`, `EnforcementNotSkipped`, `ClaimsDoNotDowngrade`, `ImplementsAdmission` |
| `RepoMk` | `ReadersAgree` | `AcceptedLeafWorks` |
| `AgentCheck` | `CheckInvariant` | `PassMeansOneTreeUnlessCommitted`, `VerdictsMean`, `PassIsReported` |
| `ArtifactHandoff` | `HandoffInvariant` | `AcceptedIsRequested`, `AcceptedFromOneAttempt`, `DescriptorNamesUpload`, `UploadsVerifyUnlessLeftBehind`, `ImplementsExchange` |
| `Governance` | `GovernanceInvariant` | `DigestDeterminesDecision`, `WaiversInForce`, `StagedAsDigested` |
| `ContainerRelease` | `ReleaseInvariant` | `RequestsVerify`, `OneRequestPerRun`, `EvidenceNamesItsAnalysis` |
| `SdkProvisioning`, `ControlPlane` | `ProvisioningInvariant` | `AttestedWasSo`, `DefaultProvisions`, `RuntimeIsVerified`, `OneWriterPerRuntime` |

### The lock

`TypeCorrect` and `NoLeakWithoutInterference` hold under no assumption on the
environment. The other theorems hold under none on timing or recovery either, for the
behaviours in which no lock ever outlives `stale_after` (`[]~aged`): any processes,
kills, reused pids and stray files, until a lock is left behind for half an hour.
Run `lock_overlap` shows that exclusion can be lost from there on.

As long as no lock is stale nobody dismantles anything, and a holder is alone, has the
directory and has marked it (`Fresh`). `BodyKnowsFile` adds what the body knows of the
file between its read and its write, from which `FileStep` gives
`SuccessMeansCurrent`. `RefinementStep` maps each action to an action of
`Reconciliation` or a stutter. Even when locks are dismantled under their holders, the
way back is not lost: `NoLeak` says that the directory has a holder, and an owner file
a process that is yet to remove it, since a directory that cannot be removed on
closing has the mark of another holder in it.

For stale locks there is lemma `LockInvariantHolds`, under the assumptions that
`lock_serial` makes, `Prompt` and `SerialRecovery`. Mutual exclusion is not inductive:
that two processes are not in the body says nothing about a third one that is about to
remove their lock. `LockInvariant` adds what is needed, in named parts. A holder is
alone (`HolderAlone`), has the directory (`HolderHasDirectory`) and has marked it from
the body on until its unlink (`HolderMarks`). A directory past its limit never belongs
to a holder that has yet to mark it (`AgedMarked`, this is where `Prompt` enters). A
process that dismantles the lock is alone (`RecovererAlone`, this is `SerialRecovery`)
and is past the liveness probe only if nobody holds the lock (`RecovererJustified`).
The lemma gives exclusion and `OwnerNamesHolder`; it is not counted among the results,
since the code does not enforce the second assumption. What a success and the refinement
are under it is left to TLC.

### The judgement of Repo.mk

`ReadersAgree` relates `core` and `make` after any number of lines, until one misled
Core or make stopped. `SameBlocks`: both are in the same blocks, so what Core does not
blank is not ignored by make. `SameVariables`: what Core takes for the value of a
variable has no word that make's lacks, and the flavors are such that the next
assignment keeps it so; with this, what Core proves of a text make proves too
(`ProvenMonotone`, since `Reached` grows with the values). `SameRule`: while Core looks
for the recipe of the leaf's rule, make adds recipe lines to no other target, and a
leaf that is implemented for Core has a prerequisite or a recipe for make. The first
attempt failed at a define in a define that make skips, a misreading of Core's that
takes more lines to break the property than the run has; `Nested` is its name now.

### The publication

A rerun finds the check run of its predecessor because ids only grow and the
listing has the newest first: check runs created during a lookup can only push the
own one to later pages, which are still to be read. `Ahead` states this, `Fits` what
a completed lookup knows, `Shown` what an executed request leaves; all three are
invariant for the analyses that no straggler meets. `RequestsOK` (a request on the
wire is its attempt's only one) and `TargetsOK` (it is aimed at its own identity)
carry this over the delay between sending and landing.

### The evaluation

The admission process and the job that runs it are proved together, since a
cancellation can hit between any two steps of either. `RanOK` says of each phase
that succeeded that it is the next one in order, run as the policy admits and by the
leaf that was verified; `RunningOK` and `VerdictOK` connect this with the control
state and the verdict. Since the process has written nothing before it judges,
outputs that are cut short cannot be accepted unless the judgement was
(`AcceptedVerified`). For the job, `Ordered` (which steps are over) carries the rest:
an output is written in its own step only (`OutputsOK`), the conditions that later
steps read have been settled before, so that evidence exists unless something other
than an enforcement failed (`EvidenceOK`) and the enforcement step has the outcome
that its outputs deserve (`EnforcedOK`).

`ImplementsAdmission` rests on the same invariant. `StepsOfProcess` sorts the steps of
the process by what they do to phases and outputs; nothing is acceptable before the
third output (`AcceptedIsWritten`), a further one takes no acceptance back
(`AcceptanceStands`), and what has succeeded was run by the version that runs now
(`OneVersion`), although every V1 phase reads the contract anew.

### The agent check

There is no bound on what others do to the workspace while a check runs. The proof
orders workspaces: contents only grow (`Before`), and one commit has one tracked
content. The first reading is before everything that ran, the second after it
(`InBetween`); what both found the same was the same all along (`SecondReading`), if
HEAD was. The reports follow from their order: the Markdown report, written last, is
this check's only when the JSON report is (`ReportInvariant`).

### Artifacts

`StoreMade`: each archive in the store was made by some producer, of its own files
and what its checkout had, without what its upload leaves behind. `Gathers` and `Describes` follow a producer
from file to file, `Retrieves` a consumer from its request to what it accepts; an
artifact may be retired, but what stands under its id stays the same.
`ImplementsExchange` maps every step of producers, store and consumers to one of
`ArtifactExchange` or a stutter.

### Governance, release, provisioning

* `GovernanceInvariant`: each recorded outcome is the decision of the documents it
  digested, valid on its day. `DecisionIsTimeless` is the lemma behind
  `DigestDeterminesDecision`: that a waiver's day matters only by refusing.
* `ReleaseInvariant` says, per step of a job, that its files are of its analysis
  (`WorkspaceIsCurrent`), its image of its commit and attested (`BuiltIsCurrent`), and
  that what it bound can be verified (`BoundVerifies`). Images and attestations only
  accumulate and uploaded evidence stands, so what was requested stays verifiable.
* `ProvisioningInvariant` has three parts. `ControlInvariant`: while an attestation
  reads, `held` has all that holds, and each check that passed. `PromotionInvariant`:
  a proposal that is green on today's main leaves it provisionable, and when GitHub
  demands the gate only such are merged. `CallInvariant`: from its `mkdir` to its end a
  call alone has written into its runtime, which has what the call checked so far.

### Assumptions

Each is stated in the module that declares the constants, and checked by the runs.

* `ProcAssumption`, `NoneAssumption` (twice), `HandoffAssumption` and `JobAssumption`:
  the values that stand for nothing, for nobody, for altered content or for other
  applications are none of the values they stand beside.
* Bounds are numbers, flags are Boolean, conclusions exist, plans are sequences,
  `Trees` are workspaces.
* `FirstAssumption` of `SdkProvisioning`: the tree that history begins with passed
  `sdk-contract-check`.

### Only model-checked

Liveness (`InvocationsEnd`, `LeakRecovered`, `AttemptsEnd`, `GroupIsEvaluated`) is out
of the prover's reach, since it rests on fairness and ENABLED. `MutualExclusion`,
`OwnerNamesHolder`, `SuccessMeansCurrent` and `ImplementsReconciliation` are theorems for
behaviours without a stale lock; with stale locks and serial recovery they are checked
on three processes, and the first two are a lemma. Every other property of a passing run
is a theorem. `lock_overlap` and `repo_mk` show violations, and what can
be proved in their place is said above. Nothing is proved about the transcription of
the code itself: that the modules are faithful is read off the lines that
`PROJECT.json` maps them to.

## 6. Plan

Done, in this order: `SingleFlight` with `Reconciliation` and its proofs,
`CheckPublication`, `RepositoryVerification`, `OrgEvaluation`, `EvaluationQueue`,
`AgentCheck`, `ArtifactHandoff` with `ArtifactExchange`, `Governance`,
`ContainerRelease`, `ControlPlane` with `SdkProvisioning`, `RepoMk`, `Admission`; then
the proofs of all of these.

What would be worth adding:

1. The lock under serial recovery as theorems: `SuccessMeansCurrent` and the
   refinement from `LockInvariant`, once the code recovers a stale lock in one step.
2. The sequential parts of section 7, if one of them comes to keep state.

A liveness property of the admission of changes (a merge queue that drains) would
need fairness of GitHub's queue, which nothing in this repository relies on.

## 7. Not modelled

`PROJECT.json`, "components", gives the reason for each part that is left out.
In general: parsing and validation of single documents (toolchain alignment, bundle,
policy and wiring validation), scans of the repository's own files
(`check_release_writers.py`, `check_workflow_integrity.py`), rendering of text,
downloads with digest checks, and sequential maintenance tools and release scripts have no state a
later step depends on, and are represented, where a modelled part calls them, by
a step that succeeds or fails. GitHub's scheduling of steps and groups, the Checks
API, its artifact store and branch rules, the registry, GNU Make, the file system,
the clock and the consumer's own targets are external:
modelled from how the code uses them and marked so in the map.

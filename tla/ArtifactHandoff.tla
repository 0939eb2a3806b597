---------------------------- MODULE ArtifactHandoff ----------------------------
(***************************************************************************)
(* The path of an analysis artifact set from the job that produces it to   *)
(* the job that consumes it: route-artifacts, the staging step,            *)
(* build-artifact-manifest, the upload, create-artifact-handoff; then      *)
(* retrieve-artifacts with its preparation, the check of the descriptor    *)
(* against GitHub, the download and the verification of the index.         *)
(*                                                                         *)
(* A file is named by its place below the artifact root and its content by *)
(* who wrote it, so a digest is the content itself and an archive is its   *)
(* own digest.  Of the files that no step modelled here writes, "stray" is *)
(* one outside the raw/, l9/ and metadata/ directories of the analysis,    *)
(* "hidden" one inside them whose name begins with a dot, and "extra" any  *)
(* other inside them.  A run has one head revision, which stands with it.  *)
(*                                                                         *)
(* A producer that projects SARIF is a job of org-ci.yml or of             *)
(* analyze-semgrep.yml, any other one of normalize-semgrep-report.yml.     *)
(***************************************************************************)
EXTENDS Naturals, Sequences, FiniteSets

CONSTANTS Producers,    \* job attempts that analyse and upload
          Consumers,    \* jobs that retrieve
          NameOf,       \* artifact name of each producer
          RunOf,        \* workflow run of each producer
          Projecting,   \* producers that also project SARIF
          Checkouts,    \* files that the checkout may put below artifacts/
          SubjectOf,    \* repository, revision, provider, matrix and SDK
          ConsumerRun,  \* workflow run of each consumer
          MaxRetries,   \* bound: how often a consumer is run again
          Tracked,      \* content that came with the checkout
          Damaged,      \* content that a transfer altered
          Absent        \* no file, no index, no descriptor, no set

ASSUME HandoffAssumption ==
    /\ Absent \notin Producers
    /\ {Tracked, Damaged} \cap (Producers \cup {Absent}) = {}
    /\ MaxRetries \in Nat

Files    == {"raw", "bundle", "payload", "sarif", "record", "gate",
             "extra", "hidden", "stray"}
Required == {"raw", "bundle", "payload", "record", "gate"}
Lives    == {"live", "due", "gone"}

VARIABLES
    tree,        \* files below the artifact root of each producer
    index,       \* metadata/<matrix>/artifact-index.json of each producer
    step,        \* the next step of each producer's job
    uploaded,    \* output of the upload step: the artifact's id, or 0
    descriptor,  \* output of create-artifact-handoff
    store,       \* GitHub's artifacts by id
    request,     \* what prepare.py has told each consumer to retrieve
    destination, \* the download directory of each consumer
    at,          \* where each consumer's retrieval is
    retries

producer == <<tree, index, step, uploaded, descriptor>>
consumer == <<request, destination, at, retries>>
vars == <<tree, index, step, uploaded, descriptor, store,
          request, destination, at, retries>>

\* The analysis has written the raw report where it belongs; what is normalized
\* is a report of the checkout.
Init ==
    /\ \E files \in Checkouts :
         /\ tree = [p \in Producers |-> [f \in Files |->
                      IF f = "raw" /\ p \in Projecting THEN p
                      ELSE IF f \in files THEN Tracked ELSE Absent]]
         /\ index = [p \in Producers |-> IF "index" \in files THEN Tracked ELSE Absent]
    /\ step = [p \in Producers |-> "route"]
    /\ uploaded = [p \in Producers |-> 0]
    /\ descriptor = [p \in Producers |-> Absent]
    /\ store = <<>>
    /\ request = [c \in Consumers |-> Absent]
    /\ destination = [c \in Consumers |-> Absent]
    /\ at = [c \in Consumers |-> "prepare"]
    /\ retries = 0

(***************************************************************************)
(* The producer's job.                                                     *)
(***************************************************************************)

Then(p, next) == step' = [step EXCEPT ![p] = next]

\* Any step may fail or be cancelled half way: the job ends, and what is in
\* its workspace with it.
EndJob(p) == /\ Then(p, "failed")
             /\ tree' = [tree EXCEPT ![p] = [f \in Files |-> Absent]]
             /\ index' = [index EXCEPT ![p] = Absent]

Fail(p) == /\ step[p] \notin {"done", "failed"}
           /\ EndJob(p)
           /\ UNCHANGED <<uploaded, descriptor, store, consumer>>

WriteFiles(p, files) ==
    tree' = [tree EXCEPT ![p] = [f \in Files |-> IF f \in files THEN p ELSE @[f]]]

Routed(p) == {"raw", "bundle", "payload", "record"}
               \cup IF p \in Projecting THEN {"sarif"} ELSE {}

\* copy_exact and write_atomic refuse a destination that exists, unless it is
\* the source itself.
MayCopy(p, f) == tree[p][f] = Absent \/ (f = "raw" /\ tree[p][f] = p)

Route(p) == /\ step[p] = "route"
            /\ \A f \in Routed(p) : MayCopy(p, f)
            /\ WriteFiles(p, Routed(p))
            /\ Then(p, "stage")
            /\ UNCHANGED <<index, uploaded, descriptor, store, consumer>>

\* Mutant: staging keeps a file that is already there.
StageNoClobber(p) == /\ step[p] = "stage"
                     /\ WriteFiles(p, {f \in {"gate"} : tree[p][f] = Absent})
                     /\ Then(p, "manifest")
                     /\ UNCHANGED <<index, uploaded, descriptor, store, consumer>>

\* cp overwrites.
Stage(p) == /\ step[p] = "stage"
            /\ WriteFiles(p, {"gate"})
            /\ Then(p, "manifest")
            /\ UNCHANGED <<index, uploaded, descriptor, store, consumer>>

\* Mutant: the index lists what was routed.
IndexOfRouted(p) == [name |-> NameOf[p], subject |-> SubjectOf[p],
                     entries |-> [f \in Files |-> IF f \in Routed(p) THEN tree[p][f]
                                                                    ELSE Absent]]

\* scan_entries covers every regular file below the root except the index.
IndexOf(p) == [name |-> NameOf[p], subject |-> SubjectOf[p], entries |-> tree[p]]

Complete(files) == \A f \in Required : files[f] # Absent

\* An index that is there already is deleted and written anew.
Manifest(p) == /\ step[p] = "manifest"
               /\ Complete(tree[p])
               /\ index' = [index EXCEPT ![p] = IndexOf(p)]
               /\ Then(p, "upload")
               /\ UNCHANGED <<tree, uploaded, descriptor, store, consumer>>

\* Three directories without their hidden files are uploaded, or everything
\* below the root.
LeftBehind(p) == IF p \in Projecting THEN {"stray", "hidden"} ELSE {}

Sent(p, files) == [f \in Files |-> IF f \in LeftBehind(p) THEN Absent ELSE files[f]]

Archive(p) == [files |-> Sent(p, tree[p]), index |-> index[p]]

\* A name is taken while an artifact of the run has it.
NameTaken(p) == \E i \in DOMAIN store : /\ store[i].name = NameOf[p]
                                        /\ store[i].run = RunOf[p]
                                        /\ store[i].life # "gone"

\* Mutant: a taken name is answered with the artifact that has it.
UploadReusing(p) ==
    /\ step[p] = "upload"
    /\ IF NameTaken(p)
       THEN /\ uploaded' = [uploaded EXCEPT ![p] = 1]
            /\ UNCHANGED store
       ELSE /\ store' = Append(store, [name |-> NameOf[p], run |-> RunOf[p],
                                       archive |-> Archive(p), life |-> "live"])
            /\ uploaded' = [uploaded EXCEPT ![p] = Len(store')]
    /\ Then(p, "handoff")
    /\ UNCHANGED <<tree, index, descriptor, consumer>>

\* actions/upload-artifact: the artifact may exist although the step fails.
Upload(p) ==
    /\ step[p] = "upload"
    /\ ~NameTaken(p)
    /\ store' = Append(store, [name |-> NameOf[p], run |-> RunOf[p],
                               archive |-> Archive(p), life |-> "live"])
    /\ \/ /\ uploaded' = [uploaded EXCEPT ![p] = Len(store')]
          /\ Then(p, "handoff")
          /\ UNCHANGED <<tree, index>>
       \/ /\ EndJob(p)
          /\ UNCHANGED uploaded
    /\ UNCHANGED <<descriptor, consumer>>

\* The document is built from the upload's outputs and the job's own names.
DescriptorOf(p) == [id |-> uploaded[p], name |-> NameOf[p], run |-> RunOf[p],
                    digest |-> Archive(p), subject |-> SubjectOf[p]]

\* The descriptor is the first of three outputs, and an output outlives its
\* step's failure.
Handoff(p) == /\ step[p] = "handoff"
              /\ descriptor' = [descriptor EXCEPT ![p] = DescriptorOf(p)]
              /\ \/ Then(p, "done") /\ UNCHANGED <<tree, index>>
                 \/ EndJob(p)
              /\ UNCHANGED <<uploaded, store, consumer>>

(***************************************************************************)
(* GitHub's retention: an artifact that is due is past its date and still  *)
(* there; then it is marked expired or removed, as a user may at any time. *)
(***************************************************************************)
Retire(i) ==
    /\ \E life \in Lives :
         /\ <<store[i].life, life>> \in {<<"live", "due">>, <<"live", "gone">>,
                                         <<"due", "gone">>}
         /\ store' = [store EXCEPT ![i].life = life]
    /\ UNCHANGED <<producer, consumer>>

(***************************************************************************)
(* The consumer's retrieval.                                               *)
(***************************************************************************)

\* A closed descriptor, or a name of the own run with the expected subject.
DescriptorRequest(d) == [mode |-> "descriptor", id |-> d.id, name |-> d.name,
                         run |-> d.run, digest |-> d.digest, subject |-> d.subject]
CurrentRunRequest(c, p) == [mode |-> "current-run", id |-> 0, name |-> NameOf[p],
                            run |-> ConsumerRun[c], digest |-> Absent,
                            subject |-> SubjectOf[p]]

Requests(c) ==
    {DescriptorRequest(descriptor[p]) : p \in {q \in Producers : descriptor[q] # Absent}}
      \cup {CurrentRunRequest(c, p) : p \in {q \in Producers : RunOf[q] = ConsumerRun[c]}}

Goto(c, where) == at' = [at EXCEPT ![c] = where]

\* The destination must be empty; only a descriptor is checked on the server.
Prepare(c) ==
    /\ at[c] = "prepare"
    /\ \E r \in Requests(c) :
         /\ request' = [request EXCEPT ![c] = r]
         /\ Goto(c, IF destination[c] # Absent THEN "refused"
                    ELSE IF r.mode = "descriptor" THEN "server" ELSE "download")
    /\ UNCHANGED <<producer, store, destination, retries>>

\* verify_metadata; past its expiry date an artifact need not be marked yet.
Confirmed(r, artifact) == /\ artifact.name = r.name
                          /\ artifact.life = "live"
                          /\ artifact.archive = r.digest
                          /\ artifact.run = r.run

VerifyServer(c) ==
    /\ at[c] = "server"
    /\ \/ /\ Confirmed(request[c], store[request[c].id])
          /\ Goto(c, "download")
       \/ Goto(c, "refused")
    /\ UNCHANGED <<producer, store, request, destination, retries>>

\* By id, or the newest of its name in the run; not when it is gone.
Named(r) == {i \in DOMAIN store : store[i].name = r.name /\ store[i].run = r.run
                                   /\ store[i].life \in {"live", "due"}}
Selected(r) == IF r.mode = "descriptor"
               THEN {i \in {r.id} : store[i].life \in {"live", "due"}}
               ELSE {i \in Named(r) : \A j \in Named(r) : j <= i}

\* What a transfer can make of an archive: all of it, a file altered or
\* lost, or the index lost.
Delivered(archive) ==
    {archive}
      \cup {[archive EXCEPT !.files["bundle"] = Damaged],
            [archive EXCEPT !.files["gate"] = Absent],
            [archive EXCEPT !.index = Absent]}

Download(c) ==
    /\ at[c] = "download"
    /\ \/ \E i \in Selected(request[c]) : \E got \in Delivered(store[i].archive) :
            /\ destination' = [destination EXCEPT ![c] = got]
            /\ at' \in {[at EXCEPT ![c] = "verify"], [at EXCEPT ![c] = "refused"]}
       \/ /\ Goto(c, "refused")
          /\ UNCHANGED destination
    /\ UNCHANGED <<producer, store, request, retries>>

\* Mutant: names are compared, digests are not.
EntriesMatchByName(set) ==
    \A f \in Files : (set.index.entries[f] = Absent) <=> (set.files[f] = Absent)

\* verify_entries: the files of the index and those of the tree are the same.
EntriesMatch(set) == set.index.entries = set.files

\* Mutant: the index is checked for whom it names only.
VerifiedByIdentity(r, set) == /\ set.index # Absent
                              /\ set.index.name = r.name
                              /\ set.index.subject = r.subject

Verified(r, set) == /\ set.index # Absent
                    /\ set.index.name = r.name
                    /\ set.index.subject = r.subject
                    /\ EntriesMatch(set)
                    /\ Complete(set.files)

\* retrieve.py exposes its outputs after the whole verification only.
Verify(c) ==
    /\ at[c] = "verify"
    /\ \/ /\ Verified(request[c], destination[c])
          /\ Goto(c, "accepted")
       \/ Goto(c, "refused")
    /\ UNCHANGED <<producer, store, request, destination, retries>>

\* The step is run again, in the same workspace or in a new one.
Retry(c) ==
    /\ at[c] = "refused"
    /\ retries < MaxRetries
    /\ retries' = retries + 1
    /\ Goto(c, "prepare")
    /\ destination' \in {destination, [destination EXCEPT ![c] = Absent]}
    /\ UNCHANGED <<producer, store, request>>

Next ==
    \/ \E p \in Producers : \/ Route(p) \/ Stage(p) \/ Manifest(p)
                            \/ Upload(p) \/ Handoff(p) \/ Fail(p)
    \/ \E i \in DOMAIN store : Retire(i)
    \/ \E c \in Consumers : \/ Prepare(c) \/ VerifyServer(c) \/ Download(c)
                            \/ Verify(c) \/ Retry(c)

Spec == Init /\ [][Next]_vars

(***************************************************************************)
(* Properties.                                                             *)
(***************************************************************************)

Contents == Producers \cup {Tracked, Damaged, Absent}
Trees    == [Files -> Contents]
Indexes  == [name : {NameOf[p] : p \in Producers},
             subject : {SubjectOf[p] : p \in Producers}, entries : Trees]
Archives == [files : Trees, index : Indexes \cup {Absent, Tracked}]

\* The shapes of the producers' and of the store's state.
TypeOK ==
    /\ tree \in [Producers -> Trees]
    /\ \A p \in Producers : index[p] \in Indexes \cup {Absent, Tracked}
    /\ step \in [Producers -> {"route", "stage", "manifest", "upload", "handoff",
                               "done", "failed"}]
    /\ uploaded \in [Producers -> 0..Len(store)]
    /\ \A i \in DOMAIN store : store[i].archive \in Archives /\ store[i].life \in Lives
    /\ at \in [Consumers -> {"prepare", "server", "download", "verify",
                             "accepted", "refused"}]

\* Whatever expires, is deleted, arrives altered or is retried between the
\* server's answer and the end of the download, a consumer that accepts a
\* descriptor holds the bytes its producer uploaded, and one that accepts a
\* name of its run holds an upload of that run under that name
\* (verify_server.py, retrieve.py).
AcceptedIsRequested ==
    \A c \in Consumers : at[c] = "accepted" =>
        LET r == request[c] IN
        IF r.mode = "descriptor"
        THEN /\ destination[c] = r.digest
             /\ \E p \in Producers : /\ descriptor[p] # Absent
                                  /\ r = DescriptorRequest(descriptor[p])
        ELSE \E i \in DOMAIN store : /\ store[i].archive = destination[c]
                                     /\ store[i].name = r.name
                                     /\ store[i].run = ConsumerRun[c]

\* The reports, the gate result and the routing record that a consumer
\* accepts were written by one job attempt for the subject it asked for, and so
\* was the SARIF where that attempt projects any: nothing else that the
\* consumer's repository tracks under artifacts/ passes for one of them
\* (route.py refuses existing destinations, the staging step overwrites them).
\* The set of an attempt that projects none may hold a tracked SARIF file, which
\* manifest.py takes into its routes.
AcceptedFromOneAttempt ==
    \A c \in Consumers : at[c] = "accepted" =>
        \E p \in Producers :
           /\ SubjectOf[p] = request[c].subject
           /\ \A f \in Required : destination[c].files[f] = p
           /\ destination[c].files["sarif"] \in IF p \in Projecting THEN {p}
                                               ELSE {Absent, Tracked}

\* A descriptor, built after the upload from the upload's outputs and the
\* job's own names, names the artifact this job uploaded, and the index
\* inside that artifact says of it what the descriptor says.
DescriptorNamesUpload ==
    \A p \in Producers : descriptor[p] # Absent =>
        LET d == descriptor[p]
            a == store[d.id]
        IN /\ a.name = d.name /\ a.run = d.run
           /\ a.archive = d.digest
           /\ a.archive.index.name = d.name
           /\ a.archive.index.subject = d.subject
           /\ a.archive.files["bundle"] = p

\* What is uploaded can be retrieved, unless the index lists a file that the
\* upload leaves behind: manifest.py indexes all of artifacts/, hidden files
\* included, while two of the three workflows upload three directories of it
\* without them.
UploadsVerifyUnlessLeftBehind ==
    \A i \in DOMAIN store :
        LET set == store[i].archive
            p   == set.files["bundle"]  \* the producer
        IN /\ p \in Producers
           /\ Complete(set.files)
           /\ EntriesMatch(set) <=> \A f \in LeftBehind(p) : set.index.entries[f] = Absent

\* Retrieval implements the abstract exchange: a consumer holds nothing, or
\* one published set, whole, for good.
Exchange == INSTANCE ArtifactExchange WITH
    Sets <- Archives,
    NoSet <- Absent,
    published <- {store[i].archive : i \in DOMAIN store},
    accepted <- [c \in Consumers |-> IF at[c] = "accepted" THEN destination[c] ELSE Absent]

ImplementsExchange == Exchange!Init /\ [][Exchange!Publish \/ \E c \in Consumers : Exchange!Accept(c)]_(Exchange!vars)
=============================================================================

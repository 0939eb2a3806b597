-------------------------- MODULE ArtifactHandoffProofs -------------------------
(***************************************************************************)
(* Proofs about ArtifactHandoff: its safety properties and that it         *)
(* implements ArtifactExchange, for any producers, consumers, names, runs  *)
(* and checkouts.                                                          *)
(***************************************************************************)
EXTENDS ArtifactHandoff, SequenceTheorems, TLAPS

Artifacts == [name : {NameOf[p] : p \in Producers}, run : {RunOf[p] : p \in Producers},
              archive : Archives, life : Lives]

\* What the run of a request can be.
Runs == {RunOf[p] : p \in Producers} \cup {ConsumerRun[c] : c \in Consumers}

RequestsOfAnyKind ==
    [mode : {"descriptor", "current-run"}, id : Nat, name : {NameOf[p] : p \in Producers},
     run : Runs, digest : Archives \cup {Absent}, subject : {SubjectOf[p] : p \in Producers}]

\* The shapes of the state, the consumers' included.
HandoffTypeOK ==
    /\ TypeOK
    /\ index \in [Producers -> Indexes \cup {Absent, Tracked}]
    /\ descriptor = [p \in Producers |-> descriptor[p]]
    /\ store \in Seq(Artifacts)
    /\ request \in [Consumers -> RequestsOfAnyKind \cup {Absent}]
    /\ destination \in [Consumers -> Archives \cup {Absent}]

-----------------------------------------------------------------------------
(* The producers' jobs and the store.                                      *)

\* The SARIF file of an attempt that has routed its artifacts.
Sarif(p) == IF p \in Projecting THEN {p} ELSE {Absent, Tracked}

\* The files of the attempt p: what any consumer may rely on.
Gathered(p, files) == /\ \A f \in Required : files[f] = p
                      /\ files["sarif"] \in Sarif(p)

\* The set that p makes of its files: those that it sends, and the index of all.
SetOf(p, files) == [files |-> Sent(p, files),
                    index |-> [name |-> NameOf[p], subject |-> SubjectOf[p],
                               entries |-> files]]

Made(p, set) == LET files == set.index.entries IN
                /\ files \in Trees
                /\ Gathered(p, files)
                /\ set = SetOf(p, files)

\* The artifact i is the one that p uploaded, and has this archive.
Stores(p, i, archive) == /\ i \in DOMAIN store
                         /\ store[i].name = NameOf[p] /\ store[i].run = RunOf[p]
                         /\ store[i].archive = archive

StoreMade ==
    \A i \in DOMAIN store : \E p \in Producers :
        Stores(p, i, store[i].archive) /\ Made(p, store[i].archive)

\* What p's job has gathered before each step.
Gathers(p) ==
    /\ step[p] = "route" => tree[p]["sarif"] \in {Absent, Tracked}
    /\ step[p] \in {"stage", "manifest", "upload", "handoff"} =>
         /\ \A f \in Required \ {"gate"} : tree[p][f] = p
         /\ tree[p]["sarif"] \in Sarif(p)
    /\ step[p] \in {"manifest", "upload", "handoff"} => tree[p]["gate"] = p
    /\ step[p] \in {"upload", "handoff"} => index[p] = IndexOf(p)
    /\ step[p] = "handoff" => Stores(p, uploaded[p], Archive(p))

\* A descriptor is complete, and is the last thing that its job does.
Describes(p) ==
    descriptor[p] # Absent =>
      /\ step[p] \in {"done", "failed"}
      /\ descriptor[p] = [id |-> descriptor[p].id, name |-> NameOf[p],
                          run |-> RunOf[p], digest |-> descriptor[p].digest,
                          subject |-> SubjectOf[p]]
      /\ Made(p, descriptor[p].digest)
      /\ Stores(p, descriptor[p].id, descriptor[p].digest)

JobSteps  == \A p \in Producers : Gathers(p)
Described == \A p \in Producers : Describes(p)

-----------------------------------------------------------------------------
(* The consumers' retrievals.                                              *)

RequestOf(c, p) == \/ /\ descriptor[p] # Absent
                      /\ request[c] = DescriptorRequest(descriptor[p])
                   \/ /\ RunOf[p] = ConsumerRun[c]
                      /\ request[c] = CurrentRunRequest(c, p)

\* The artifact i is one that the request of c can be answered with.
Answers(i, c) == /\ i \in DOMAIN store
                 /\ IF request[c].mode = "descriptor" THEN i = request[c].id
                    ELSE store[i].name = request[c].name /\ store[i].run = request[c].run

\* What c has retrieved before each step.
Retrieves(c) ==
    /\ at[c] \in {"server", "download", "verify", "accepted"} =>
         \E p \in Producers : RequestOf(c, p)
    /\ at[c] = "verify" => \E i \in DOMAIN store :
         Answers(i, c) /\ destination[c] \in Delivered(store[i].archive)
    /\ at[c] = "accepted" => \E i \in DOMAIN store :
         /\ Answers(i, c) /\ destination[c] = store[i].archive
         /\ Verified(request[c], destination[c])

Retrievals == \A c \in Consumers : Retrieves(c)

HandoffInvariant == HandoffTypeOK /\ StoreMade /\ JobSteps /\ Described /\ Retrievals

-----------------------------------------------------------------------------
(* The types, and what stands with an artifact.                            *)

\* An artifact keeps its id, name, run and archive; only its life changes.
Kept == \A i \in DOMAIN store : /\ i \in DOMAIN store'
                                /\ store'[i].name = store[i].name
                                /\ store'[i].run = store[i].run
                                /\ store'[i].archive = store[i].archive

LEMMA ArchiveIsArchive ==
    ASSUME HandoffTypeOK, NEW p \in Producers
    PROVE  Archive(p) \in Archives /\ IndexOf(p) \in Indexes
<1>1. tree[p] \in Trees /\ index[p] \in Indexes \cup {Absent, Tracked}
  BY DEF HandoffTypeOK, TypeOK
<1>2. Sent(p, tree[p]) \in Trees
  BY <1>1 DEF Sent, Trees, Contents
<1> QED
  BY <1>1, <1>2 DEF Archive, Archives, IndexOf, Indexes

LEMMA DeliveredIsArchive ==
    ASSUME NEW archive \in Archives, NEW got \in Delivered(archive)
    PROVE  got \in Archives
<1>1. [archive.files EXCEPT !["bundle"] = Damaged] \in Trees
  BY DEF Archives, Trees, Contents
<1>2. [archive.files EXCEPT !["gate"] = Absent] \in Trees
  BY DEF Archives, Trees, Contents
<1> QED
  BY <1>1, <1>2 DEF Delivered, Archives

\* A job that ends, or writes files, leaves the types.
LEMMA EndJobTypes ==
    ASSUME HandoffTypeOK, NEW p \in Producers, EndJob(p)
    PROVE  /\ tree' \in [Producers -> Trees]
           /\ index' \in [Producers -> Indexes \cup {Absent, Tracked}]
           /\ step' = [step EXCEPT ![p] = "failed"]
<1>1. [f \in Files |-> Absent] \in Trees
  BY DEF Trees, Contents
<1> QED
  BY <1>1 DEF EndJob, Then, HandoffTypeOK, TypeOK

LEMMA WriteFilesTypes ==
    ASSUME HandoffTypeOK, NEW p \in Producers, NEW files, WriteFiles(p, files)
    PROVE  /\ tree' \in [Producers -> Trees]
           /\ \A f \in Files : tree'[p][f] = IF f \in files THEN p ELSE tree[p][f]
           /\ \A q \in Producers \ {p} : tree'[q] = tree[q]
<1>1. tree[p] \in Trees
  BY DEF HandoffTypeOK, TypeOK
<1>2. [f \in Files |-> IF f \in files THEN p ELSE tree[p][f]] \in Trees
  BY <1>1 DEF Trees, Contents
<1> QED
  BY <1>2 DEF WriteFiles, HandoffTypeOK, TypeOK

\* An upload appends, and nothing that was there is changed.
LEMMA UploadStores ==
    ASSUME HandoffTypeOK, NEW p \in Producers, Upload(p)
    PROVE  /\ store' \in Seq(Artifacts)
           /\ Len(store') = Len(store) + 1
           /\ Kept
           /\ store'[Len(store')] = [name |-> NameOf[p], run |-> RunOf[p],
                                     archive |-> Archive(p), life |-> "live"]
           /\ DOMAIN store' = DOMAIN store \cup {Len(store')}
           /\ Len(store) \in Nat
<1> DEFINE new == [name |-> NameOf[p], run |-> RunOf[p],
                   archive |-> Archive(p), life |-> "live"]
<1>1. new \in Artifacts
  BY ArchiveIsArchive DEF Artifacts, Lives
<1>2. store \in Seq(Artifacts) /\ store' = Append(store, new)
  BY DEF HandoffTypeOK, Upload
<1> HIDE DEF new
<1>3. /\ store' \in Seq(Artifacts)
      /\ Len(store') = Len(store) + 1
      /\ \A i \in 1..Len(store) : store'[i] = store[i]
      /\ store'[Len(store) + 1] = new
  BY <1>1, <1>2, AppendProperties
<1>4. /\ Len(store) \in Nat
      /\ DOMAIN store = 1..Len(store) /\ DOMAIN store' = 1..Len(store')
  BY <1>2, <1>3, LenProperties
<1>5. DOMAIN store' = DOMAIN store \cup {Len(store')}
  BY <1>3, <1>4
<1>6. Kept
  BY <1>3, <1>4, <1>5 DEF Kept
<1> QED
  BY <1>3, <1>4, <1>5, <1>6 DEF new

\* Retention changes the life of one artifact, and that is all.
LEMMA RetireStores ==
    ASSUME HandoffTypeOK, NEW i \in DOMAIN store, Retire(i)
    PROVE  /\ store' \in Seq(Artifacts) /\ Len(store') = Len(store)
           /\ DOMAIN store' = DOMAIN store /\ Kept
<1>1. PICK life \in Lives : store' = [store EXCEPT ![i].life = life]
  BY DEF Retire
<1>2. store \in Seq(Artifacts) /\ i \in 1..Len(store)
  BY LenProperties DEF HandoffTypeOK
<1>3. store[i] \in Artifacts
  BY <1>2, ElementOfSeq
<1>4. [store[i] EXCEPT !.life = life] \in Artifacts
  BY <1>3 DEF Artifacts
<1>5. store' = [store EXCEPT ![i] = [store[i] EXCEPT !.life = life]]
  BY <1>1
<1>6. /\ store' \in Seq(Artifacts) /\ Len(store') = Len(store)
      /\ \A j \in 1..Len(store) : store'[j] = IF j = i THEN [store[i] EXCEPT !.life = life]
                                                     ELSE store[j]
  BY <1>2, <1>4, <1>5, ExceptSeq
<1>7. DOMAIN store' = DOMAIN store /\ DOMAIN store = 1..Len(store)
  BY <1>2, <1>6, LenProperties
<1>8. Kept
  BY <1>3, <1>6, <1>7 DEF Kept, Artifacts
<1> QED
  BY <1>6, <1>7, <1>8

-----------------------------------------------------------------------------
(* Every step keeps the types and the store.                               *)

\* Every request there can be has its shape.
LEMMA RequestsHaveShape ==
    ASSUME HandoffTypeOK, Described, NEW c \in Consumers, NEW r \in Requests(c)
    PROVE  r \in RequestsOfAnyKind
<1>1. ASSUME NEW p \in Producers, descriptor[p] # Absent
      PROVE  DescriptorRequest(descriptor[p]) \in RequestsOfAnyKind
  <2> DEFINE d == descriptor[p]
  <2>a. d = [id |-> d.id, name |-> NameOf[p], run |-> RunOf[p], digest |-> d.digest,
             subject |-> SubjectOf[p]]
    BY <1>1, Zenon DEF Described, Describes
  <2>b. d.id \in DOMAIN store /\ d.digest = store[d.id].archive
    BY <1>1 DEF Described, Describes, Stores
  <2>1. /\ d.id \in DOMAIN store
        /\ d.digest = store[d.id].archive
        /\ d.name = NameOf[p] /\ d.run = RunOf[p] /\ d.subject = SubjectOf[p]
    <3> HIDE DEF d
    <3> QED
      BY <2>a, <2>b
  <2>2. descriptor[p].id \in Nat
    BY <2>1, LenProperties DEF HandoffTypeOK
  <2>3. descriptor[p].digest \in Archives
    BY <2>1 DEF HandoffTypeOK, TypeOK
  <2> QED
    BY <2>1, <2>2, <2>3 DEF DescriptorRequest, RequestsOfAnyKind, Runs
<1>2. ASSUME NEW p \in Producers
      PROVE  CurrentRunRequest(c, p) \in RequestsOfAnyKind
  BY DEF CurrentRunRequest, RequestsOfAnyKind, Runs
<1> QED
  BY <1>1, <1>2 DEF Requests

\* What a retrieval selects answers its request.
LEMMA SelectedAnswers ==
    ASSUME HandoffTypeOK, Described, Retrievals, NEW c \in Consumers, at[c] = "download",
           NEW i \in Selected(request[c])
    PROVE  Answers(i, c)
<1>1. PICK p \in Producers : RequestOf(c, p)
  BY DEF Retrievals, Retrieves
<1>2. CASE request[c] = DescriptorRequest(descriptor[p]) /\ descriptor[p] # Absent
  <2>1. request[c].id = descriptor[p].id /\ request[c].mode = "descriptor"
    BY <1>2 DEF DescriptorRequest
  <2> QED
    BY <1>2, <2>1 DEF Described, Describes, Stores, Selected, Answers
<1>3. CASE request[c] = CurrentRunRequest(c, p)
  <2>1. request[c].mode = "current-run"
    BY <1>3 DEF CurrentRunRequest
  <2> QED
    BY <2>1 DEF Selected, Answers, Named
<1> QED
  BY <1>1, <1>2, <1>3 DEF RequestOf

LEMMA TypeStep ==
    ASSUME HandoffInvariant, [Next]_vars
    PROVE  HandoffTypeOK' /\ Kept
<1>b. HandoffTypeOK /\ Described /\ Retrievals
  BY DEF HandoffInvariant
<1> USE <1>b DEF HandoffTypeOK, TypeOK
<1>a. Len(store) \in Nat
  BY LenProperties
<1>1. ASSUME UNCHANGED store PROVE Kept /\ (store \in Seq(Artifacts))'
  BY <1>1 DEF Kept
<1>2. ASSUME NEW p \in Producers, Route(p) PROVE HandoffTypeOK' /\ Kept
  BY <1>1, <1>2, WriteFilesTypes DEF Route, Then, consumer
<1>3. ASSUME NEW p \in Producers, Stage(p) PROVE HandoffTypeOK' /\ Kept
  BY <1>1, <1>3, WriteFilesTypes DEF Stage, Then, consumer
<1>4. ASSUME NEW p \in Producers, Manifest(p) PROVE HandoffTypeOK' /\ Kept
  BY <1>1, <1>4, ArchiveIsArchive DEF Manifest, Then, consumer
<1>5. ASSUME NEW p \in Producers, Upload(p) PROVE HandoffTypeOK' /\ Kept
  <2>1. /\ store' \in Seq(Artifacts) /\ Len(store') = Len(store) + 1 /\ Kept
        /\ \A i \in DOMAIN store' : store'[i] \in Artifacts
    BY <1>5, UploadStores, ElementOfSeq, LenProperties
  <2>2. /\ tree' \in [Producers -> Trees]
        /\ index' \in [Producers -> Indexes \cup {Absent, Tracked}]
        /\ step' \in [Producers -> {"route", "stage", "manifest", "upload", "handoff",
                                    "done", "failed"}]
    BY <1>5, EndJobTypes DEF Upload, Then
  <2>3. uploaded' \in [Producers -> 0..Len(store')]
    BY <1>a, <1>5, <2>1 DEF Upload
  <2>4. UNCHANGED <<descriptor, consumer>>
    BY <1>5 DEF Upload
  <2> QED
    BY <2>1, <2>2, <2>3, <2>4 DEF Artifacts, consumer
<1>6. ASSUME NEW p \in Producers, Handoff(p) PROVE HandoffTypeOK' /\ Kept
  <2>1. /\ tree' \in [Producers -> Trees]
        /\ index' \in [Producers -> Indexes \cup {Absent, Tracked}]
        /\ step' \in [Producers -> {"route", "stage", "manifest", "upload", "handoff",
                                    "done", "failed"}]
    BY <1>6, EndJobTypes DEF Handoff, Then
  <2>2. /\ descriptor' = [q \in Producers |-> descriptor'[q]]
        /\ UNCHANGED <<uploaded, store, consumer>>
    BY <1>6 DEF Handoff
  <2> QED
    BY <1>1, <2>1, <2>2 DEF consumer
<1>7. ASSUME NEW p \in Producers, Fail(p) PROVE HandoffTypeOK' /\ Kept
  BY <1>1, <1>7, EndJobTypes DEF Fail, consumer
<1>8. ASSUME NEW i \in DOMAIN store, Retire(i) PROVE HandoffTypeOK' /\ Kept
  <2>1. /\ store' \in Seq(Artifacts) /\ Len(store') = Len(store) /\ Kept
        /\ \A j \in DOMAIN store' : store'[j] \in Artifacts
    BY <1>8, RetireStores, ElementOfSeq, LenProperties
  <2> QED
    BY <1>8, <2>1 DEF Retire, producer, consumer, Artifacts
<1>9. ASSUME NEW c \in Consumers, Prepare(c) PROVE HandoffTypeOK' /\ Kept
  <2>1. PICK r \in Requests(c) : /\ request' = [request EXCEPT ![c] = r]
                                 /\ at' \in [Consumers -> {"prepare", "server", "download",
                                                "verify", "accepted", "refused"}]
    BY <1>9 DEF Prepare, Goto
  <2>2. r \in RequestsOfAnyKind
    BY RequestsHaveShape
  <2>3. UNCHANGED <<producer, store, destination>>
    BY <1>9 DEF Prepare
  <2> QED
    BY <1>1, <2>1, <2>2, <2>3 DEF producer
<1>10. ASSUME NEW c \in Consumers, VerifyServer(c) PROVE HandoffTypeOK' /\ Kept
  BY <1>1, <1>10 DEF VerifyServer, Goto, producer
<1>11. ASSUME NEW c \in Consumers, Download(c) PROVE HandoffTypeOK' /\ Kept
  <2>1. /\ at[c] = "download"
        /\ \/ \E i \in Selected(request[c]) : \E got \in Delivered(store[i].archive) :
                destination' = [destination EXCEPT ![c] = got]
           \/ UNCHANGED destination
        /\ at' \in [Consumers -> {"prepare", "server", "download",
                                  "verify", "accepted", "refused"}]
        /\ UNCHANGED <<producer, store, request>>
    BY <1>11 DEF Download, Goto
  <2>2. ASSUME NEW i \in Selected(request[c]), NEW got \in Delivered(store[i].archive)
        PROVE  got \in Archives
    BY <2>1, SelectedAnswers, DeliveredIsArchive DEF Answers
  <2>3. destination' \in [Consumers -> Archives \cup {Absent}]
    BY <2>1, <2>2
  <2> QED
    BY <1>1, <2>1, <2>3 DEF producer
<1>12. ASSUME NEW c \in Consumers, Verify(c) PROVE HandoffTypeOK' /\ Kept
  BY <1>1, <1>12 DEF Verify, Goto, producer
<1>13. ASSUME NEW c \in Consumers, Retry(c) PROVE HandoffTypeOK' /\ Kept
  BY <1>1, <1>13 DEF Retry, Goto, producer
<1>14. CASE UNCHANGED vars
  BY <1>1, <1>14 DEF vars
<1> QED
  BY <1>2, <1>3, <1>4, <1>5, <1>6, <1>7, <1>8, <1>9, <1>10, <1>11, <1>12, <1>13, <1>14
     DEF Next

-----------------------------------------------------------------------------
(* Every step keeps what the jobs have gathered, stored and described.     *)

LEMMA StoresKept ==
    ASSUME Kept, NEW p, NEW i, NEW archive, Stores(p, i, archive)
    PROVE  Stores(p, i, archive)'
BY DEF Kept, Stores

\* The archive of a job that has its index is the set of its files.
LEMMA ArchiveIsSet ==
    ASSUME HandoffTypeOK, JobSteps, NEW p \in Producers, step[p] \in {"upload", "handoff"}
    PROVE  Archive(p) = SetOf(p, tree[p]) /\ Made(p, Archive(p))
<1>1. /\ tree[p] \in Trees /\ index[p] = IndexOf(p)
      /\ Gathered(p, tree[p])
  BY DEF HandoffTypeOK, TypeOK, JobSteps, Gathers, Gathered
<1>2. Archive(p) = SetOf(p, tree[p])
  BY <1>1 DEF Archive, SetOf, IndexOf
<1> QED
  BY <1>1, <1>2 DEF Made, SetOf

LEMMA StoreStep ==
    ASSUME HandoffInvariant, [Next]_vars
    PROVE  StoreMade'
<1>1. Kept /\ HandoffTypeOK /\ StoreMade /\ JobSteps
  BY TypeStep DEF HandoffInvariant
<1>2. CASE DOMAIN store' = DOMAIN store
  BY <1>1, <1>2 DEF Kept, StoreMade, Stores, Made
<1>3. ASSUME NEW p \in Producers, Upload(p) PROVE StoreMade'
  <2>1. /\ DOMAIN store' = DOMAIN store \cup {Len(store')}
        /\ store'[Len(store')] = [name |-> NameOf[p], run |-> RunOf[p],
                                  archive |-> Archive(p), life |-> "live"]
    BY <1>1, <1>3, UploadStores
  <2>2. Made(p, Archive(p))
    BY <1>1, <1>3, ArchiveIsSet DEF Upload
  <2> SUFFICES ASSUME NEW i \in DOMAIN store'
               PROVE  \E q \in Producers : Stores(q, i, store[i].archive)'
                                           /\ Made(q, store[i].archive)'
    BY DEF StoreMade
  <2>3. CASE i \in DOMAIN store
    BY <1>1, <2>3 DEF Kept, StoreMade, Stores, Made
  <2>4. CASE i = Len(store')
    <3>1. store'[i].name = NameOf[p] /\ store'[i].run = RunOf[p]
          /\ store'[i].archive = Archive(p)
      BY <2>1, <2>4
    <3>2. Stores(p, i, store[i].archive)' /\ Made(p, store[i].archive)'
      BY <2>2, <3>1 DEF Stores, Made
    <3> QED
      BY <3>2
  <2> QED
    BY <2>1, <2>3, <2>4
<1>4. ASSUME NEW i \in DOMAIN store, Retire(i) PROVE StoreMade'
  BY <1>1, <1>2, <1>4, RetireStores
<1>5. CASE UNCHANGED store
  BY <1>2, <1>5
<1>6. ASSUME NEW p \in Producers,
             Route(p) \/ Stage(p) \/ Manifest(p) \/ Handoff(p) \/ Fail(p)
      PROVE  UNCHANGED store
  BY <1>6 DEF Route, Stage, Manifest, Handoff, Fail
<1>7. ASSUME NEW c \in Consumers,
             Prepare(c) \/ VerifyServer(c) \/ Download(c) \/ Verify(c) \/ Retry(c)
      PROVE  UNCHANGED store
  BY <1>7 DEF Prepare, VerifyServer, Download, Verify, Retry
<1> QED
  BY <1>3, <1>4, <1>5, <1>6, <1>7 DEF Next, vars

\* Nothing that others do changes what a job has gathered or described.
LEMMA OtherJob ==
    ASSUME Kept, NEW p \in Producers, Gathers(p), Describes(p),
           UNCHANGED <<tree[p], index[p], step[p], uploaded[p], descriptor[p]>>
    PROVE  Gathers(p)' /\ Describes(p)'
<1>1. Archive(p)' = Archive(p) /\ IndexOf(p)' = IndexOf(p)
  BY DEF Archive, IndexOf
<1>2. Gathers(p)'
  BY <1>1, StoresKept DEF Gathers
<1>3. Describes(p)'
  BY StoresKept DEF Describes
<1> QED
  BY <1>2, <1>3

LEMMA JobStep ==
    ASSUME HandoffInvariant, [Next]_vars
    PROVE  JobSteps' /\ Described'
<1> DEFINE Good(p) == Gathers(p)' /\ Describes(p)'
<1>1. /\ Kept /\ HandoffTypeOK /\ TypeOK
      /\ \A p \in Producers : Gathers(p) /\ Describes(p)
  BY TypeStep DEF HandoffInvariant, HandoffTypeOK, JobSteps, Described
<1>2. ASSUME UNCHANGED producer, NEW p \in Producers PROVE Good(p)
  BY <1>1, <1>2, OtherJob DEF producer
<1>3. ASSUME NEW p \in Producers, NEW q \in Producers \ {p},
             Route(p) \/ Stage(p) \/ Manifest(p) \/ Upload(p) \/ Handoff(p) \/ Fail(p)
      PROVE  Good(q)
  <2>1. UNCHANGED <<tree[q], index[q], step[q], uploaded[q], descriptor[q]>>
    <3>1. step'[q] = step[q] /\ tree'[q] = tree[q]
      BY <1>1, <1>3 DEF Route, Stage, Manifest, Upload, Handoff, Fail, WriteFiles, EndJob,
         Then, TypeOK
    <3>2. index'[q] = index[q]
      BY <1>1, <1>3 DEF Route, Stage, Manifest, Upload, Handoff, Fail, EndJob, HandoffTypeOK
    <3>3. uploaded'[q] = uploaded[q]
      BY <1>1, <1>3 DEF Route, Stage, Manifest, Upload, Handoff, Fail, TypeOK
    <3>4. descriptor'[q] = descriptor[q]
      BY <1>1, <1>3, Zenon DEF Route, Stage, Manifest, Upload, Handoff, Fail, HandoffTypeOK
    <3> QED
      BY <3>1, <3>2, <3>3, <3>4
  <2> QED
    BY <1>1, <2>1, OtherJob
<1>4. ASSUME NEW p \in Producers, step[p] \notin {"done", "failed"} PROVE descriptor[p] = Absent
  BY <1>1, <1>4 DEF Describes
<1>5. ASSUME NEW p \in Producers, Route(p) PROVE Good(p)
  <2>1. /\ step[p] = "route" /\ step'[p] = "stage" /\ descriptor'[p] = descriptor[p]
        /\ \A f \in Files : tree'[p][f] = IF f \in Routed(p) THEN p ELSE tree[p][f]
    BY <1>1, <1>5, WriteFilesTypes DEF Route, Then, TypeOK
  <2>2. Gathers(p)'
    BY <1>1, <2>1 DEF Gathers, Routed, Required, Files, Sarif
  <2> QED
    BY <1>4, <2>1, <2>2 DEF Describes
<1>6. ASSUME NEW p \in Producers, Stage(p) PROVE Good(p)
  <2>1. /\ step[p] = "stage" /\ step'[p] = "manifest" /\ descriptor'[p] = descriptor[p]
        /\ \A f \in Files : tree'[p][f] = IF f \in {"gate"} THEN p ELSE tree[p][f]
    BY <1>1, <1>6, WriteFilesTypes DEF Stage, Then, TypeOK
  <2>2. Gathers(p)'
    BY <1>1, <2>1 DEF Gathers, Required, Files
  <2> QED
    BY <1>4, <2>1, <2>2 DEF Describes
<1>7. ASSUME NEW p \in Producers, Manifest(p) PROVE Good(p)
  <2>1. /\ step[p] = "manifest" /\ step'[p] = "upload" /\ descriptor'[p] = descriptor[p]
        /\ tree' = tree /\ index'[p] = IndexOf(p)
    BY <1>1, <1>7 DEF Manifest, Then, TypeOK, HandoffTypeOK
  <2>2. Gathers(p)'
    BY <1>1, <2>1 DEF Gathers, IndexOf
  <2> QED
    BY <1>4, <2>1, <2>2 DEF Describes
<1>8. ASSUME NEW p \in Producers, step[p] \notin {"done", "failed"}, EndJob(p),
             descriptor'[p] = descriptor[p]
      PROVE  Good(p)
  BY <1>1, <1>4, <1>8 DEF EndJob, Then, TypeOK, Gathers, Describes
<1>9. ASSUME NEW p \in Producers, Upload(p) PROVE Good(p)
  <2>1. /\ step[p] = "upload" /\ descriptor'[p] = descriptor[p]
        /\ \/ /\ uploaded'[p] = Len(store') /\ step'[p] = "handoff"
              /\ tree' = tree /\ index' = index
           \/ EndJob(p)
    BY <1>1, <1>9 DEF Upload, Then, TypeOK
  <2>2. CASE EndJob(p)
    BY <1>8, <2>1, <2>2
  <2>3. CASE uploaded'[p] = Len(store') /\ step'[p] = "handoff" /\ tree' = tree /\ index' = index
    <3>1. Archive(p)' = Archive(p) /\ IndexOf(p)' = IndexOf(p)
      BY <2>3 DEF Archive, IndexOf
    <3>a. /\ DOMAIN store' = DOMAIN store \cup {Len(store')}
          /\ store'[Len(store')] = [name |-> NameOf[p], run |-> RunOf[p],
                                    archive |-> Archive(p), life |-> "live"]
      BY <1>1, <1>9, UploadStores
    <3>b. /\ Len(store') \in DOMAIN store'
          /\ store'[Len(store')].name = NameOf[p]
          /\ store'[Len(store')].run = RunOf[p]
          /\ store'[Len(store')].archive = Archive(p)
      BY <3>a
    <3>2. Stores(p, uploaded[p], Archive(p))'
      BY <2>3, <3>1, <3>b DEF Stores
    <3>3. Gathers(p)'
      BY <1>1, <2>1, <2>3, <3>1, <3>2 DEF Gathers
    <3> QED
      BY <1>4, <2>1, <3>3 DEF Describes
  <2> QED
    BY <2>1, <2>2, <2>3
<1>10. ASSUME NEW p \in Producers, Handoff(p) PROVE Good(p)
  <2>1. /\ step[p] = "handoff" /\ step'[p] \in {"done", "failed"}
        /\ descriptor'[p] = DescriptorOf(p)
    BY <1>1, <1>10 DEF Handoff, EndJob, Then, TypeOK, HandoffTypeOK
  <2>2. Stores(p, uploaded[p], Archive(p)) /\ Made(p, Archive(p))
    BY <1>1, <2>1, ArchiveIsSet DEF Gathers, JobSteps
  <2>3. Gathers(p)'
    BY <2>1 DEF Gathers
  <2>4. Describes(p)'
    <3>2. /\ DescriptorOf(p).id = uploaded[p] /\ DescriptorOf(p).digest = Archive(p)
          /\ DescriptorOf(p) = [id |-> uploaded[p], name |-> NameOf[p], run |-> RunOf[p],
                                digest |-> Archive(p), subject |-> SubjectOf[p]]
      BY DEF DescriptorOf
    <3>3. Stores(p, DescriptorOf(p).id, DescriptorOf(p).digest)
      BY <2>2, <3>2
    <3> QED
      BY <1>1, <2>1, <2>2, <3>2, <3>3, StoresKept DEF Describes
  <2> QED
    BY <2>3, <2>4
<1>11. ASSUME NEW p \in Producers, Fail(p) PROVE Good(p)
  BY <1>8, <1>11 DEF Fail
<1>12. ASSUME NEW p \in Producers,
              Route(p) \/ Stage(p) \/ Manifest(p) \/ Upload(p) \/ Handoff(p) \/ Fail(p),
              NEW q \in Producers
       PROVE  Good(q)
  BY <1>3, <1>5, <1>6, <1>7, <1>9, <1>10, <1>11, <1>12
<1>13. ASSUME NEW i \in DOMAIN store, Retire(i) PROVE UNCHANGED producer
  BY <1>13 DEF Retire
<1>14. ASSUME NEW c \in Consumers,
              Prepare(c) \/ VerifyServer(c) \/ Download(c) \/ Verify(c) \/ Retry(c)
       PROVE  UNCHANGED producer
  BY <1>14 DEF Prepare, VerifyServer, Download, Verify, Retry
<1>15. CASE UNCHANGED vars
  BY <1>2, <1>15 DEF vars, producer, JobSteps, Described
<1>16. \A q \in Producers : Good(q)
  BY <1>2, <1>12, <1>13, <1>14, <1>15 DEF Next, vars, producer
<1> QED
  BY <1>16 DEF JobSteps, Described

-----------------------------------------------------------------------------
(* Every step keeps what the consumers have retrieved.                     *)

\* A set that verifies is as its producer made it, whatever the transfer did.
LEMMA VerifiedIsWhole ==
    ASSUME StoreMade, NEW i \in DOMAIN store, NEW set \in Delivered(store[i].archive),
           NEW r, Verified(r, set)
    PROVE  set = store[i].archive
<1> DEFINE a == store[i].archive
<1>1. PICK p \in Producers : Made(p, a)
  BY DEF StoreMade
<1> DEFINE files == a.index.entries
<1>2. /\ files \in Trees /\ files["bundle"] = p
      /\ a = SetOf(p, files)
  BY <1>1 DEF Made, Gathered, Required
<1>3. CASE set = [a EXCEPT !.files["bundle"] = Damaged]
  <2>1. set.index.entries["bundle"] = p /\ set.files["bundle"] = Damaged
    BY <1>2, <1>3, "bundle" \notin LeftBehind(p) DEF SetOf, Sent, LeftBehind, Trees, Files
  <2> QED
    BY <2>1, HandoffAssumption DEF Verified, EntriesMatch
<1>4. CASE set = [a EXCEPT !.files["gate"] = Absent]
  <2>1. set.files["gate"] = Absent
    BY <1>2, <1>4 DEF SetOf, Sent, Trees, Files
  <2> QED
    BY <2>1 DEF Verified, Complete, Required
<1>5. CASE set = [a EXCEPT !.index = Absent]
  <2>1. set.index = Absent
    BY <1>2, <1>5 DEF SetOf
  <2> QED
    BY <2>1 DEF Verified
<1> QED
  BY <1>3, <1>4, <1>5 DEF Delivered

\* A descriptor stands.
LEMMA DescriptorStays ==
    ASSUME HandoffInvariant, [Next]_vars, NEW p \in Producers, descriptor[p] # Absent
    PROVE  descriptor'[p] = descriptor[p]
<1>1. step[p] \in {"done", "failed"} /\ HandoffTypeOK
  BY DEF HandoffInvariant, Described, Describes
<1>2. ASSUME NEW q \in Producers, Handoff(q) PROVE descriptor'[p] = descriptor[p]
  <2>1. p # q /\ descriptor' = [descriptor EXCEPT ![q] = DescriptorOf(q)]
    BY <1>1, <1>2 DEF Handoff
  <2> QED
    BY <1>1, <2>1, Zenon DEF HandoffTypeOK
<1>3. ASSUME NEW q \in Producers, Route(q) \/ Stage(q) \/ Manifest(q) \/ Upload(q) \/ Fail(q)
      PROVE  descriptor' = descriptor
  BY <1>3 DEF Route, Stage, Manifest, Upload, Fail
<1>4. ASSUME NEW i \in DOMAIN store, Retire(i) PROVE descriptor' = descriptor
  BY <1>4 DEF Retire, producer
<1>5. ASSUME NEW c \in Consumers,
             Prepare(c) \/ VerifyServer(c) \/ Download(c) \/ Verify(c) \/ Retry(c)
      PROVE  descriptor' = descriptor
  BY <1>5 DEF Prepare, VerifyServer, Download, Verify, Retry, producer
<1> QED
  BY <1>2, <1>3, <1>4, <1>5 DEF Next, vars

LEMMA RetrievalStep ==
    ASSUME HandoffInvariant, [Next]_vars
    PROVE  Retrievals'
<1>1. /\ Kept /\ HandoffTypeOK /\ TypeOK /\ StoreMade /\ Described /\ Retrievals
      /\ \A c \in Consumers : Retrieves(c)
      /\ \A p \in Producers : descriptor[p] # Absent => descriptor'[p] = descriptor[p]
  BY TypeStep, DescriptorStays DEF HandoffInvariant, HandoffTypeOK, Retrievals
<1>2. ASSUME NEW c \in Consumers, NEW p \in Producers, RequestOf(c, p),
             request'[c] = request[c]
      PROVE  RequestOf(c, p)'
  BY <1>1, <1>2 DEF RequestOf, DescriptorRequest, CurrentRunRequest
<1>3. ASSUME NEW c \in Consumers, NEW i, Answers(i, c), request'[c] = request[c]
      PROVE  Answers(i, c)' /\ store'[i].archive = store[i].archive
  BY <1>1, <1>3 DEF Answers, Kept
<1>4. ASSUME NEW c \in Consumers, UNCHANGED <<request[c], destination[c], at[c]>>
      PROVE  Retrieves(c)'
  <2>1. at'[c] \in {"server", "download", "verify", "accepted"} =>
          (\E p \in Producers : RequestOf(c, p))'
    BY <1>1, <1>2, <1>4 DEF Retrieves
  <2>2. at'[c] = "verify" => (\E i \in DOMAIN store :
          Answers(i, c) /\ destination[c] \in Delivered(store[i].archive))'
    BY <1>1, <1>3, <1>4 DEF Retrieves, Kept, Delivered
  <2>3. at'[c] = "accepted" => (\E i \in DOMAIN store :
          /\ Answers(i, c) /\ destination[c] = store[i].archive
          /\ Verified(request[c], destination[c]))'
    <3> SUFFICES ASSUME at[c] = "accepted"
                 PROVE  (\E i \in DOMAIN store :
                           /\ Answers(i, c) /\ destination[c] = store[i].archive
                           /\ Verified(request[c], destination[c]))'
      BY <1>4
    <3>1. PICK i \in DOMAIN store : /\ Answers(i, c) /\ destination[c] = store[i].archive
                                   /\ Verified(request[c], destination[c])
      BY <1>1 DEF Retrieves
    <3>2. Verified(request[c], destination[c])'
      BY <1>4, <3>1 DEF Verified, EntriesMatch, Complete
    <3>3. Answers(i, c)' /\ store'[i].archive = store[i].archive /\ i \in DOMAIN store'
      BY <1>1, <1>3, <1>4, <3>1 DEF Kept
    <3> QED
      BY <1>4, <3>1, <3>2, <3>3
  <2> QED
    BY <2>1, <2>2, <2>3 DEF Retrieves
<1>5. CASE UNCHANGED consumer
  BY <1>4, <1>5 DEF consumer, Retrievals
<1>6. ASSUME NEW c \in Consumers, NEW d \in Consumers \ {c},
             Prepare(c) \/ VerifyServer(c) \/ Download(c) \/ Verify(c) \/ Retry(c)
      PROVE  Retrieves(d)'
  <2>1. UNCHANGED <<request[d], destination[d], at[d]>>
    BY <1>1, <1>6 DEF Prepare, VerifyServer, Download, Verify, Retry, Goto, HandoffTypeOK, TypeOK
  <2> QED
    BY <1>4, <2>1
<1>7. ASSUME NEW c \in Consumers, Prepare(c) PROVE Retrieves(c)'
  <2>1. PICK r \in Requests(c) : /\ request' = [request EXCEPT ![c] = r]
                                 /\ at'[c] \in {"refused", "server", "download"}
    BY <1>1, <1>7 DEF Prepare, Goto, TypeOK
  <2>2. PICK p \in Producers :
          \/ descriptor[p] # Absent /\ r = DescriptorRequest(descriptor[p])
          \/ RunOf[p] = ConsumerRun[c] /\ r = CurrentRunRequest(c, p)
    BY DEF Requests
  <2>3. request'[c] = r /\ descriptor' = descriptor
    BY <1>1, <1>7, <2>1 DEF HandoffTypeOK, Prepare, producer
  <2>4. RequestOf(c, p)'
    BY <2>2, <2>3 DEF RequestOf, DescriptorRequest, CurrentRunRequest
  <2> QED
    BY <2>1, <2>4 DEF Retrieves
<1>8. ASSUME NEW c \in Consumers, VerifyServer(c) PROVE Retrieves(c)'
  <2>1. /\ at[c] = "server" /\ at'[c] \in {"download", "refused"} /\ request' = request
    BY <1>1, <1>8 DEF VerifyServer, Goto, TypeOK
  <2> QED
    BY <1>1, <1>2, <2>1 DEF Retrieves
<1>9. ASSUME NEW c \in Consumers, Download(c) PROVE Retrieves(c)'
  <2>1. /\ at[c] = "download" /\ at'[c] \in {"verify", "refused"} /\ UNCHANGED <<request, store>>
        /\ at'[c] = "verify" => \E i \in Selected(request[c]) :
              destination'[c] \in Delivered(store[i].archive)
    BY <1>1, <1>9 DEF Download, Goto, TypeOK, HandoffTypeOK
  <2>2. at'[c] \in {"server", "download", "verify", "accepted"} =>
          (\E p \in Producers : RequestOf(c, p))'
    BY <1>1, <1>2, <2>1 DEF Retrieves
  <2>3. at'[c] = "verify" => \E i \in DOMAIN store :
          Answers(i, c) /\ destination'[c] \in Delivered(store[i].archive)
    BY <1>1, <2>1, SelectedAnswers DEF Answers
  <2>4. at'[c] = "verify" => (\E i \in DOMAIN store :
          Answers(i, c) /\ destination[c] \in Delivered(store[i].archive))'
    BY <1>3, <2>1, <2>3 DEF Delivered
  <2> QED
    BY <2>1, <2>2, <2>4 DEF Retrieves
<1>10. ASSUME NEW c \in Consumers, Verify(c) PROVE Retrieves(c)'
  <2>1. /\ at[c] = "verify" /\ at'[c] \in {"accepted", "refused"}
        /\ at'[c] = "accepted" => Verified(request[c], destination[c])
        /\ UNCHANGED <<request, store, destination>>
    BY <1>1, <1>10 DEF Verify, Goto, TypeOK
  <2>2. at'[c] = "accepted" => (\E p \in Producers : RequestOf(c, p))'
    <3>1. PICK p \in Producers : RequestOf(c, p)
      BY <1>1, <2>1 DEF Retrieves
    <3> QED
      BY <1>2, <2>1, <3>1
  <2>3. at'[c] = "accepted" => \E i \in DOMAIN store :
          Answers(i, c) /\ destination[c] = store[i].archive
    BY <1>1, <2>1, VerifiedIsWhole DEF Retrieves
  <2>4. at'[c] = "accepted" => (\E i \in DOMAIN store :
          /\ Answers(i, c) /\ destination[c] = store[i].archive
          /\ Verified(request[c], destination[c]))'
    BY <1>3, <2>1, <2>3 DEF Verified, EntriesMatch, Complete
  <2> QED
    BY <2>1, <2>2, <2>4 DEF Retrieves
<1>11. ASSUME NEW c \in Consumers, Retry(c) PROVE Retrieves(c)'
  BY <1>1, <1>11 DEF Retry, Goto, TypeOK, Retrieves
<1>12. ASSUME NEW c \in Consumers,
              Prepare(c) \/ VerifyServer(c) \/ Download(c) \/ Verify(c) \/ Retry(c)
       PROVE  Retrievals'
  BY <1>6, <1>7, <1>8, <1>9, <1>10, <1>11, <1>12 DEF Retrievals
<1>13. ASSUME NEW p \in Producers,
              Route(p) \/ Stage(p) \/ Manifest(p) \/ Upload(p) \/ Handoff(p) \/ Fail(p)
       PROVE  UNCHANGED consumer
  BY <1>13 DEF Route, Stage, Manifest, Upload, Handoff, Fail
<1>14. ASSUME NEW i \in DOMAIN store, Retire(i) PROVE UNCHANGED consumer
  BY <1>14 DEF Retire
<1> QED
  BY <1>5, <1>12, <1>13, <1>14 DEF Next, vars, consumer

-----------------------------------------------------------------------------
(* The theorems.                                                           *)

(* Each set in GitHub's store is one attempt's, each descriptor stands for *)
(* such a set, and each retrieval follows one of them, for any producers   *)
(* and consumers, any expiry, damage and number of retries.                *)
THEOREM HandoffInvariantHolds == Spec => []HandoffInvariant
<1>1. Init => HandoffInvariant
  <2> SUFFICES ASSUME Init PROVE HandoffInvariant
    OBVIOUS
  <2>1. PICK files \in Checkouts :
          /\ tree = [p \in Producers |-> [f \in Files |->
                       IF f = "raw" /\ p \in Projecting THEN p
                       ELSE IF f \in files THEN Tracked ELSE Absent]]
          /\ index = [p \in Producers |-> IF "index" \in files THEN Tracked ELSE Absent]
    BY DEF Init
  <2>2. tree \in [Producers -> Trees]
    BY <2>1 DEF Trees, Contents
  <2>3. store = <<>> /\ store \in Seq(Artifacts) /\ Len(store) = 0 /\ DOMAIN store = {}
    BY DEF Init
  <2>4. HandoffTypeOK
    BY <2>1, <2>2, <2>3 DEF Init, HandoffTypeOK, TypeOK
  <2>5. JobSteps
    BY <2>1 DEF Init, JobSteps, Gathers, Files
  <2>6. StoreMade /\ Described /\ Retrievals
    BY <2>3 DEF Init, StoreMade, Described, Describes, Retrievals, Retrieves
  <2> QED
    BY <2>4, <2>5, <2>6 DEF HandoffInvariant
<1>2. HandoffInvariant /\ [Next]_vars => HandoffInvariant'
  BY TypeStep, StoreStep, JobStep, RetrievalStep DEF HandoffInvariant
<1> QED
  BY <1>1, <1>2, PTL DEF Spec

(* What verify_server.py and retrieve.py accept is what was asked for.     *)
THEOREM AcceptedIsRequestedHolds == Spec => []AcceptedIsRequested
<1>1. HandoffInvariant => AcceptedIsRequested
  <2> SUFFICES ASSUME HandoffInvariant, NEW c \in Consumers, at[c] = "accepted"
               PROVE  LET r == request[c] IN
                      IF r.mode = "descriptor"
                      THEN /\ destination[c] = r.digest
                           /\ \E p \in Producers : /\ descriptor[p] # Absent
                                                   /\ r = DescriptorRequest(descriptor[p])
                      ELSE \E i \in DOMAIN store : /\ store[i].archive = destination[c]
                                                   /\ store[i].name = r.name
                                                   /\ store[i].run = ConsumerRun[c]
    BY DEF AcceptedIsRequested
  <2>1. PICK p \in Producers : RequestOf(c, p)
    BY DEF HandoffInvariant, Retrievals, Retrieves
  <2>2. PICK i \in DOMAIN store : Answers(i, c) /\ destination[c] = store[i].archive
    BY DEF HandoffInvariant, Retrievals, Retrieves
  <2>3. CASE descriptor[p] # Absent /\ request[c] = DescriptorRequest(descriptor[p])
    <3>1. /\ request[c].mode = "descriptor" /\ request[c].id = descriptor[p].id
          /\ request[c].digest = descriptor[p].digest
      BY <2>3 DEF DescriptorRequest
    <3>2. store[descriptor[p].id].archive = descriptor[p].digest
      BY <2>3 DEF HandoffInvariant, Described, Describes, Stores
    <3> QED
      BY <2>2, <2>3, <3>1, <3>2 DEF Answers
  <2>4. CASE request[c] = CurrentRunRequest(c, p)
    <3>1. request[c].mode = "current-run" /\ request[c].run = ConsumerRun[c]
      BY <2>4 DEF CurrentRunRequest
    <3> QED
      BY <2>2, <3>1 DEF Answers
  <2> QED
    BY <2>1, <2>3, <2>4 DEF RequestOf
<1> QED
  BY <1>1, HandoffInvariantHolds, PTL

(* Nothing that a checkout brings below artifacts/ passes for a report,    *)
(* but SARIF with an attempt that projects none.                           *)
THEOREM AcceptedFromOneAttemptHolds == Spec => []AcceptedFromOneAttempt
<1>1. HandoffInvariant => AcceptedFromOneAttempt
  <2> SUFFICES ASSUME HandoffInvariant, NEW c \in Consumers, at[c] = "accepted"
               PROVE  \E p \in Producers :
                        /\ SubjectOf[p] = request[c].subject
                        /\ \A f \in Required : destination[c].files[f] = p
                        /\ destination[c].files["sarif"] \in
                             IF p \in Projecting THEN {p} ELSE {Absent, Tracked}
    BY DEF AcceptedFromOneAttempt
  <2>1. PICK i \in DOMAIN store : /\ destination[c] = store[i].archive
                                  /\ Verified(request[c], destination[c])
    BY DEF HandoffInvariant, Retrievals, Retrieves
  <2>2. PICK p \in Producers : Made(p, destination[c])
    BY <2>1 DEF HandoffInvariant, StoreMade
  <2> DEFINE files == destination[c].index.entries
  <2>3. /\ Gathered(p, files) /\ destination[c] = SetOf(p, files)
    BY <2>2 DEF Made
  <2>4. files = destination[c].files /\ SubjectOf[p] = request[c].subject
    BY <2>1, <2>3 DEF Verified, EntriesMatch, SetOf
  <2> QED
    BY <2>3, <2>4 DEF Gathered, Sarif
<1> QED
  BY <1>1, HandoffInvariantHolds, PTL

\* What a made set says of itself.
LEMMA MadeSaysWhat ==
    ASSUME NEW p \in Producers, NEW set, Made(p, set)
    PROVE  /\ set.index.name = NameOf[p] /\ set.index.subject = SubjectOf[p]
           /\ \A f \in Required : set.files[f] = p
           /\ EntriesMatch(set) <=> \A f \in LeftBehind(p) : set.index.entries[f] = Absent
<1> DEFINE files == set.index.entries
<1>1. /\ files \in [Files -> Contents] /\ Gathered(p, files)
      /\ set = SetOf(p, files)
  BY DEF Made, Trees
<1> HIDE DEF files
<1>2. /\ set.files = Sent(p, files)
      /\ set.index = [name |-> NameOf[p], subject |-> SubjectOf[p], entries |-> files]
  BY <1>1 DEF SetOf
<1>3. \A f \in Required : set.files[f] = p
  BY <1>1, <1>2 DEF Gathered, Sent, LeftBehind, Required, Files
<1>4. set.index.entries = files
  BY <1>2
<1>5. \A f \in LeftBehind(p) : f \in Files /\ set.files[f] = Absent
  BY <1>2 DEF Sent, LeftBehind, Files
<1>6. (\A f \in LeftBehind(p) : files[f] = Absent) => set.files = files
  BY <1>1, <1>2 DEF Sent
<1> QED
  BY <1>2, <1>3, <1>4, <1>5, <1>6 DEF EntriesMatch

(* create-artifact-handoff names the upload of its own job.                *)
THEOREM DescriptorNamesUploadHolds == Spec => []DescriptorNamesUpload
<1>1. HandoffInvariant => DescriptorNamesUpload
  <2> SUFFICES ASSUME HandoffInvariant, NEW p \in Producers, descriptor[p] # Absent
               PROVE  LET d == descriptor[p]
                          a == store[d.id]
                      IN /\ a.name = d.name /\ a.run = d.run
                         /\ a.archive = d.digest
                         /\ a.archive.index.name = d.name
                         /\ a.archive.index.subject = d.subject
                         /\ a.archive.files["bundle"] = p
    BY DEF DescriptorNamesUpload
  <2> DEFINE d == descriptor[p]
  <2>1. /\ d = [id |-> d.id, name |-> NameOf[p], run |-> RunOf[p], digest |-> d.digest,
                subject |-> SubjectOf[p]]
        /\ Made(p, d.digest) /\ Stores(p, d.id, d.digest)
    BY DEF HandoffInvariant, Described, Describes
  <2> HIDE DEF d
  <2>2. d.name = NameOf[p] /\ d.run = RunOf[p] /\ d.subject = SubjectOf[p]
    BY <2>1
  <2> QED
    BY <2>1, <2>2, MadeSaysWhat DEF d, Stores, Required
<1> QED
  BY <1>1, HandoffInvariantHolds, PTL

(* An upload can be retrieved, unless manifest.py indexed a file that its  *)
(* workflow does not upload.                                               *)
THEOREM UploadsVerifyUnlessLeftBehindHolds == Spec => []UploadsVerifyUnlessLeftBehind
<1>1. HandoffInvariant => UploadsVerifyUnlessLeftBehind
  <2> SUFFICES ASSUME HandoffInvariant, NEW i \in DOMAIN store
               PROVE  LET set == store[i].archive
                          p   == set.files["bundle"]
                      IN /\ p \in Producers
                         /\ Complete(set.files)
                         /\ EntriesMatch(set) <=>
                              \A f \in LeftBehind(p) : set.index.entries[f] = Absent
    BY DEF UploadsVerifyUnlessLeftBehind
  <2>1. PICK p \in Producers : Made(p, store[i].archive)
    BY DEF HandoffInvariant, StoreMade
  <2>2. store[i].archive.files["bundle"] = p
    BY <2>1, MadeSaysWhat DEF Required
  <2> QED
    BY <2>1, <2>2, MadeSaysWhat, HandoffAssumption DEF Complete
<1> QED
  BY <1>1, HandoffInvariantHolds, PTL

-----------------------------------------------------------------------------
(* Retrieval implements ArtifactExchange.                                  *)

Published == {store[i].archive : i \in DOMAIN store}
Taken     == [c \in Consumers |-> IF at[c] = "accepted" THEN destination[c] ELSE Absent]

\* Only an upload publishes, and only Verify accepts: each for one.
LEMMA ExchangeStep ==
    ASSUME HandoffInvariant, [Next]_vars
    PROVE  [Exchange!Publish \/ \E c \in Consumers : Exchange!Accept(c)]_(Exchange!vars)
<1> USE DEF Published, Taken
<1>1. HandoffTypeOK /\ TypeOK /\ Kept /\ StoreMade /\ Retrievals'
  BY TypeStep, RetrievalStep DEF HandoffInvariant, HandoffTypeOK
<1>2. ASSUME UNCHANGED Published, UNCHANGED Taken PROVE UNCHANGED Exchange!vars
  BY <1>2 DEF Exchange!vars
<1>3. ASSUME UNCHANGED <<destination, at>> PROVE UNCHANGED Taken
  BY <1>3
<1>4. ASSUME NEW p \in Producers, Upload(p) PROVE Exchange!Publish
  <2>1. /\ DOMAIN store' = DOMAIN store \cup {Len(store')}
        /\ store'[Len(store')] = [name |-> NameOf[p], run |-> RunOf[p],
                                  archive |-> Archive(p), life |-> "live"]
    BY <1>1, <1>4, UploadStores
  <2>2. store'[Len(store')].archive = Archive(p)
    BY <2>1
  <2>3. Published' = Published \cup {Archive(p)}
    <3>1. \A i \in DOMAIN store : i \in DOMAIN store' /\ store'[i].archive = store[i].archive
      BY <1>1 DEF Kept
    <3>2. ASSUME NEW i \in DOMAIN store' PROVE store'[i].archive \in Published \cup {Archive(p)}
      BY <2>1, <2>2, <3>1
    <3>3. Archive(p) \in Published'
      BY <2>1, <2>2
    <3>4. ASSUME NEW i \in DOMAIN store PROVE store[i].archive \in Published'
      BY <3>1
    <3> QED
      BY <3>2, <3>3, <3>4
  <2>4. Archive(p) \in Archives
    BY <1>1, ArchiveIsArchive
  <2>5. UNCHANGED Taken
    BY <1>3, <1>4 DEF Upload, consumer
  <2>6. Archive(p) \in Published'
    BY <2>3
  <2> QED
    BY <2>3, <2>4, <2>5, <2>6 DEF Exchange!Publish
<1>5. ASSUME NEW i \in DOMAIN store, Retire(i) PROVE UNCHANGED Exchange!vars
  <2>1. DOMAIN store' = DOMAIN store
    BY <1>1, <1>5, RetireStores
  <2>2. UNCHANGED Published
    BY <1>1, <2>1 DEF Kept
  <2> QED
    BY <1>2, <1>3, <1>5, <2>2 DEF Retire, consumer
<1>6. ASSUME NEW p \in Producers,
             Route(p) \/ Stage(p) \/ Manifest(p) \/ Handoff(p) \/ Fail(p)
      PROVE  UNCHANGED Exchange!vars
  <2>1. UNCHANGED <<store, destination, at>>
    BY <1>6 DEF Route, Stage, Manifest, Handoff, Fail, consumer
  <2> QED
    BY <1>2, <1>3, <2>1
<1>7. ASSUME NEW c \in Consumers, Verify(c)
      PROVE  UNCHANGED Exchange!vars \/ Exchange!Accept(c)
  <2>1. /\ at[c] = "verify" /\ UNCHANGED <<store, destination>>
        /\ \/ at' = [at EXCEPT ![c] = "refused"]
           \/ at' = [at EXCEPT ![c] = "accepted"] /\ Verified(request[c], destination[c])
    BY <1>7 DEF Verify, Goto
  <2>2. CASE at' = [at EXCEPT ![c] = "refused"]
    BY <1>1, <1>2, <2>1, <2>2 DEF TypeOK
  <2>3. CASE at' = [at EXCEPT ![c] = "accepted"] /\ Verified(request[c], destination[c])
    <3>1. \E i \in DOMAIN store : destination[c] = store[i].archive
      BY <1>1, <2>1, <2>3 DEF TypeOK, Retrievals, Retrieves
    <3>2. destination[c] \in Published /\ destination[c].index.entries = destination[c].files
      BY <2>3, <3>1 DEF Verified, EntriesMatch
    <3>3. Taken[c] = Absent /\ Taken' = [Taken EXCEPT ![c] = destination[c]]
      BY <1>1, <2>1, <2>3 DEF TypeOK
    <3>4. UNCHANGED Published
      BY <2>1
    <3> QED
      BY <3>2, <3>3, <3>4 DEF Exchange!Accept, Exchange!Whole
  <2> QED
    BY <2>1, <2>2, <2>3
<1>8. ASSUME NEW c \in Consumers, Prepare(c) \/ VerifyServer(c) \/ Download(c) \/ Retry(c)
      PROVE  UNCHANGED Exchange!vars
  <2>1. /\ UNCHANGED store /\ at[c] # "accepted" /\ at'[c] # "accepted"
        /\ \A d \in Consumers \ {c} : UNCHANGED <<at[d], destination[d]>>
    BY <1>1, <1>8 DEF Prepare, VerifyServer, Download, Retry, Goto, HandoffTypeOK, TypeOK
  <2>2. UNCHANGED Taken
    BY <2>1
  <2> QED
    BY <1>2, <2>1, <2>2
<1>9. CASE UNCHANGED vars
  BY <1>2, <1>9 DEF vars
<1> QED
  BY <1>4, <1>5, <1>6, <1>7, <1>8, <1>9 DEF Next

(* The whole path, with expiry, damage and retries, implements the         *)
(* exchange of whole sets: a consumer has nothing or one published set     *)
(* that its index describes, and keeps it.                                 *)
THEOREM ImplementsExchangeHolds == Spec => ImplementsExchange
<1>1. Init => Exchange!Init
  BY DEF Init, Exchange!Init
<1>2. HandoffInvariant /\ [Next]_vars =>
        [Exchange!Publish \/ \E c \in Consumers : Exchange!Accept(c)]_(Exchange!vars)
  BY ExchangeStep
<1> QED
  BY <1>1, <1>2, HandoffInvariantHolds, PTL DEF Spec, ImplementsExchange
=============================================================================

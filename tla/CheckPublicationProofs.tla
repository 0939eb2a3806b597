------------------------- MODULE CheckPublicationProofs -------------------------
(***************************************************************************)
(* Proofs about CheckPublication: one check run per identity, and what it  *)
(* shows, for any number of analyses, of attempts, of pages and of check   *)
(* runs of others, with requests that are lost, late or never answered.    *)
(***************************************************************************)
EXTENDS CheckPublication, FiniteSetTheorems, SequenceTheorems, WellFoundedInduction, TLAPS

Check == [identity : Job \cup {Other}, shows : Conclusion]

-----------------------------------------------------------------------------
(* The inductive invariant.                                                *)

\* What the current attempt of j sends.
Sent(j) == [job |-> j, attempt |-> attempt[j], target |-> target[j], verdict |-> verdict[j]]

\* A request is its attempt's only one, and the attempt has then stopped
\* looking anything up; one that succeeded has none left.
RequestsOK ==
    \A r \in wire : /\ r.attempt <= attempt[r.job]
                    /\ r.attempt = attempt[r.job] =>
                         r = Sent(r.job) /\ stage[r.job] \in {"wait", "failed"}

\* An update is aimed at a check run of the identity it carries.
Aimed(id, j) == id = None \/ (id \in DOMAIN checks /\ checks[id].identity = j)

TargetsOK == /\ \A j \in Job : Aimed(target[j], j)
             /\ \A r \in wire : Aimed(r.target, r.job)

\* Only elected writers get as far as a lookup, a request or a check run.
Writer(j) == Outcome(j) = "prepare"

ElectionOK == /\ \A j \in Job : stage[j] \in Active => Writer(j)
              /\ \A r \in wire : Writer(r.job)
              /\ \A id \in DOMAIN checks : checks[id].identity # Other => Writer(checks[id].identity)

\* Every lookup starts afresh.
LookupStart == \A j \in Job : /\ stage[j] = "prepare" => page[j] = 1
                              /\ stage[j] \in {"prepare", "scan"} => target[j] = None

\* The pages j has read held no check run of its own: check runs created since
\* then have pushed none of them forward.
Ahead(j) == \A id \in Published(j) : id + (page[j] - 1) * PageSize <= Len(checks)

\* What j is about to write is a first check run, or its newest one.
Fits(j) == IF target[j] = None THEN Published(j) = {}
           ELSE target[j] \in Published(j) /\ \A id \in Published(j) : id <= target[j]

Shown(j) == \E id \in Published(j) : /\ checks[id].shows = verdict[j]
                                     /\ \A other \in Published(j) : other <= id

Lookup(j) == /\ stage[j] = "scan" => Ahead(j)
             /\ stage[j] = "send" => Fits(j)
             /\ stage[j] = "wait" => IF Own(j) = {} THEN Shown(j) ELSE Fits(j)
             /\ stage[j] = "published" => Shown(j)

AtMostOne(j) == \A id, other \in Published(j) : id = other

WireInvariant == RequestsOK /\ TargetsOK /\ ElectionOK /\ LookupStart

PublicationInvariant ==
    /\ TypeOK
    /\ WireInvariant
    /\ late \subseteq straggled
    /\ \A j \in Job \ late : Lookup(j)
    /\ \A j \in Job \ straggled : AtMostOne(j)

-----------------------------------------------------------------------------
(* The commit's check runs.                                                *)

LEMMA ChecksAre ==
    ASSUME TypeOK
    PROVE  /\ checks \in Seq(Check) /\ Len(checks) \in Nat /\ DOMAIN checks = 1..Len(checks)
           /\ \A id \in DOMAIN checks : id \in Nat /\ checks[id] \in Check
<1>1. checks \in Seq(Check)
  BY DEF TypeOK, Check
<1> QED
  BY <1>1, LenProperties, ElementOfSeq

LEMMA UnreadIsConclusion == Unread \in Conclusion
BY ConclusionAssumption DEF Unread

\* A check run that is created takes the next id.
LEMMA Appended ==
    ASSUME TypeOK, NEW check \in Check, checks' = Append(checks, check)
    PROVE  /\ checks' \in Seq(Check) /\ Len(checks') = Len(checks) + 1
           /\ DOMAIN checks' = DOMAIN checks \cup {Len(checks) + 1}
           /\ \A id \in DOMAIN checks : checks'[id] = checks[id]
           /\ checks'[Len(checks) + 1] = check
<1>1. /\ checks' \in Seq(Check) /\ Len(checks') = Len(checks) + 1
      /\ \A id \in DOMAIN checks : checks'[id] = checks[id]
      /\ checks'[Len(checks) + 1] = check
  BY ChecksAre, AppendProperties
<1>2. DOMAIN checks' = 1..(Len(checks) + 1) /\ DOMAIN checks = 1..Len(checks)
  BY <1>1, ChecksAre, LenProperties
<1> QED
  BY <1>1, <1>2, ChecksAre

\* One that is updated keeps its id.
LEMMA Updated ==
    ASSUME TypeOK, NEW check \in Check, NEW target_ \in DOMAIN checks,
           checks' = [checks EXCEPT ![target_] = check]
    PROVE  /\ checks' \in Seq(Check) /\ Len(checks') = Len(checks)
           /\ DOMAIN checks' = DOMAIN checks
           /\ \A id \in DOMAIN checks : checks'[id] = IF id = target_ THEN check ELSE checks[id]
BY ChecksAre, ExceptSeq, LenProperties

\* The newest of some check runs is one of them, and is the newest.
LEMMA NewestIsNewest ==
    ASSUME TypeOK, NEW ids \in SUBSET DOMAIN checks, ids # {}
    PROVE  Newest(ids) \in ids /\ \A other \in ids : Newest(ids) >= other
<1> DEFINE Age(id) == Len(checks) - id
           Ages == {Age(id) : id \in ids}
<1>1. \A id \in ids : id \in Nat /\ Age(id) \in Nat
  BY ChecksAre
<1>2. Ages \subseteq Nat /\ Ages # {}
  BY <1>1
<1> DEFINE Less == {pair \in Nat \X Nat : pair[1] < pair[2]}
<1>a. IsWellFoundedOn(Less, Nat)
  BY NatLessThanWellFounded DEF OpToRel
<1>3. PICK least \in Ages : \A age \in Ages : ~(<<age, least>> \in Less)
  <2> HIDE DEF Ages, Less
  <2> QED
    BY <1>2, <1>a, WFMin
<1>4. \A age \in Ages : ~(age < least)
  <2> HIDE DEF Ages
  <2> QED
    BY <1>2, <1>3
<1>5. PICK newest \in ids : least = Age(newest)
  BY <1>3
<1>6. ASSUME NEW other \in ids PROVE newest >= other
  <2>1. ~(Age(other) < Age(newest))
    BY <1>4, <1>5
  <2> QED
    BY <1>1, <2>1, ChecksAre
<1> QED
  BY <1>6 DEF Newest

\* A page that is not full is the last one: whatever lies behind the pages
\* before it lies on it.
LEMMA ShortPageIsLast ==
    ASSUME TypeOK, NEW p \in 1..MaxPages, Cardinality(OnPage(p)) < PageSize,
           NEW id \in DOMAIN checks, id + (p - 1) * PageSize <= Len(checks)
    PROVE  id \in OnPage(p)
<1> DEFINE before == (p - 1) * PageSize
           last == Len(checks) - before
<1>1. /\ PageSize \in Nat \ {0} /\ MaxPages \in Nat /\ p \in Nat /\ before \in Nat
      /\ p * PageSize = before + PageSize
  BY BoundAssumption
<1>2. Len(checks) \in Nat /\ id \in Nat /\ id >= 1 /\ DOMAIN checks = 1..Len(checks)
  BY ChecksAre
<1> HIDE DEF before
<1>3. SUFFICES ASSUME id + (before + PageSize) <= Len(checks) PROVE FALSE
  BY <1>1, <1>2 DEF OnPage, before
<1>4. OnPage(p) = (last - PageSize + 1)..last
  BY <1>1, <1>2, <1>3 DEF OnPage, before
<1>5. Cardinality(OnPage(p)) = PageSize
  <2>1. last \in Int /\ last - PageSize + 1 \in Int /\ ~(last - PageSize + 1 > last)
    BY <1>1, <1>2
  <2>2. last - (last - PageSize + 1) + 1 = PageSize
    BY <1>1, <1>2
  <2> QED
    BY <1>4, <2>1, <2>2, FS_Interval
<1> QED
  BY <1>1, <1>5

\* What is neither on the pages before nor on this one is on a later one.
LEMMA BehindThePage ==
    ASSUME TypeOK, NEW p \in 1..MaxPages, NEW id \in DOMAIN checks, id \notin OnPage(p),
           id + (p - 1) * PageSize <= Len(checks)
    PROVE  id + ((p + 1) - 1) * PageSize <= Len(checks)
<1>1. (p + 1) - 1 = p /\ p * PageSize \in Nat
  BY BoundAssumption
<1> QED
  BY <1>1, ChecksAre DEF OnPage

-----------------------------------------------------------------------------
(* Types, and what a step of one analysis leaves alone.                    *)

Local(j) == Begin(j) \/ Step(j) \/ Fail(j)

\* What a request writes, and that it is an update or creates a check run.
LEMMA RequestIs ==
    ASSUME TypeOK, NEW r \in wire
    PROVE  /\ r.job \in Job /\ r.attempt \in Nat /\ r.target \in Nat /\ r.verdict \in Conclusion
           /\ [identity |-> r.job, shows |-> r.verdict] \in Check
           /\ r = [job |-> r.job, attempt |-> r.attempt, target |-> r.target,
                   verdict |-> r.verdict]
<1>1. r \in Request
  BY DEF TypeOK
<1> QED
  BY <1>1 DEF Request, Check

LEMMA TypeStep ==
    ASSUME TypeOK, TargetsOK, [Next]_vars
    PROVE  TypeOK'
<1> DEFINE Checks == checks' \in Seq(Check)
           Rest == /\ mode' \in [Job -> Mode] /\ elected' \in [Job -> BOOLEAN]
                   /\ stage' \in [Job -> Stage] /\ attempt' \in [Job -> Nat]
                   /\ verdict' \in [Job -> Conclusion] /\ page' \in [Job -> 1..MaxPages]
                   /\ target' \in [Job -> Nat] /\ wire' \in SUBSET Request
                   /\ late' \in SUBSET Job /\ straggled' \in SUBSET Job
<1>1. SUFFICES Checks /\ Rest
  BY DEF TypeOK, Check
<1> USE DEF inputs, history
<1>2. CASE UNCHANGED vars
  BY <1>2, ChecksAre DEF TypeOK, vars
<1>3. CASE Intrude
  <2>1. [identity |-> Other, shows |-> Unread] \in Check
    BY UnreadIsConclusion DEF Check
  <2> QED
    BY <1>3, <2>1, Appended DEF Intrude, TypeOK
<1>4. ASSUME NEW r \in wire, Land(r) PROVE Checks /\ Rest
  <2> DEFINE check == [identity |-> r.job, shows |-> r.verdict]
  <2>1. check \in Check /\ r.job \in Job
    BY RequestIs
  <2>2. Checks
    <3>1. CASE r.target = None
      BY <1>4, <2>1, <3>1, Appended DEF Land, Execute
    <3>2. CASE r.target # None
      <4>1. r.target \in DOMAIN checks
        BY <3>2 DEF TargetsOK, Aimed
      <4> QED
        BY <1>4, <2>1, <3>2, <4>1, Updated DEF Land, Execute
    <3> QED
      BY <3>1, <3>2
  <2> QED
    BY <1>4, <2>1, <2>2 DEF Land, TypeOK
<1>5. ASSUME NEW j \in Job, Local(j) PROVE Checks /\ Rest
  <2> USE DEF Goto
  <2>a. /\ Stage = {"idle", "skipped", "published", "failed", "prepare", "scan", "send", "wait"}
        /\ 1 \in 1..MaxPages /\ None \in Nat
    BY BoundAssumption DEF Stage, Active, None
  <2>1. CASE Begin(j)
    <3>1. Outcome(j) \in Stage /\ attempt[j] + 1 \in Nat
      BY <2>a DEF Outcome, TypeOK
    <3>2. verdict' \in [Job -> Conclusion]
      BY <2>1 DEF Begin, TypeOK
    <3> QED
      BY <2>1, <2>a, <3>1, <3>2, ChecksAre DEF Begin, TypeOK
  <2>2. CASE Prepare(j)
    BY <2>2, <2>a, ChecksAre DEF Prepare, TypeOK
  <2>3. CASE Scan(j)
    <3>1. CASE UNCHANGED <<page, target>> /\ stage' \in [Job -> Stage]
      BY <2>3, <3>1, ChecksAre DEF Scan, TypeOK
    <3>2. CASE page[j] < MaxPages /\ page' = [page EXCEPT ![j] = @ + 1]
               /\ UNCHANGED <<stage, target>>
      <4>1. page[j] + 1 \in 1..MaxPages
        BY <3>2, BoundAssumption DEF TypeOK
      <4> QED
        BY <2>3, <3>2, <4>1, ChecksAre DEF Scan, TypeOK
    <3>3. CASE Matches(j, OnPage(page[j])) # {} /\ UNCHANGED page /\ Goto(j, "send")
               /\ target' = [target EXCEPT ![j] = Newest(Matches(j, OnPage(page[j])))]
      <4>1. Matches(j, OnPage(page[j])) \in SUBSET DOMAIN checks
        BY DEF Matches, OnPage
      <4>2. Newest(Matches(j, OnPage(page[j]))) \in Nat
        BY <3>3, <4>1, NewestIsNewest, ChecksAre
      <4> QED
        BY <2>3, <2>a, <3>3, <4>2, ChecksAre DEF Scan, TypeOK
    <3> QED
      BY <2>3, <2>a, <3>1, <3>2, <3>3 DEF Scan, TypeOK
  <2>4. CASE Send(j)
    <3>1. Sent(j) \in Request
      BY DEF TypeOK, Sent, Request
    <3> QED
      BY <2>4, <2>a, <3>1, ChecksAre DEF Send, Sent, TypeOK
  <2>5. CASE Respond(j)
    BY <2>5, <2>a, ChecksAre DEF Respond, TypeOK
  <2>6. CASE Fail(j)
    BY <2>6, <2>a, ChecksAre DEF Fail, TypeOK
  <2> QED
    BY <1>5, <2>1, <2>2, <2>3, <2>4, <2>5, <2>6 DEF Local, Step
<1> QED
  BY <1>2, <1>3, <1>4, <1>5 DEF Next, Local

\* A step of one analysis changes no other's, and no check run.
LEMMA LocalFrame ==
    ASSUME TypeOK, NEW j \in Job, Local(j)
    PROVE  /\ UNCHANGED <<mode, elected, checks, straggled>>
           /\ \A k \in Job \ {j} :
                /\ stage'[k] = stage[k] /\ attempt'[k] = attempt[k] /\ verdict'[k] = verdict[k]
                /\ page'[k] = page[k] /\ target'[k] = target[k]
           /\ late' \in {late, late \ {j}}
           /\ wire' \in {wire, wire \cup {Sent(j)}, wire \ Own(j)}
<1> USE DEF Goto, inputs, history, TypeOK
<1>1. CASE Begin(j)
  BY <1>1 DEF Begin
<1>2. CASE Prepare(j)
  BY <1>2 DEF Prepare
<1>3. CASE Scan(j)
  <2>1. /\ \E t : target' = [target EXCEPT ![j] = t] \/ target' = target
        /\ \E s : stage' = [stage EXCEPT ![j] = s] \/ stage' = stage
        /\ \E p : page' = [page EXCEPT ![j] = p] \/ page' = page
    BY <1>3 DEF Scan
  <2> QED
    BY <1>3, <2>1 DEF Scan
<1>4. CASE Send(j)
  BY <1>4 DEF Send, Sent
<1>5. CASE Respond(j)
  BY <1>5 DEF Respond
<1>6. CASE Fail(j)
  BY <1>6 DEF Fail
<1> QED
  BY <1>1, <1>2, <1>3, <1>4, <1>5, <1>6 DEF Local, Step

-----------------------------------------------------------------------------
(* What a step does to the check runs.                                     *)

Stable == \A id \in DOMAIN checks : /\ id \in DOMAIN checks'
                                    /\ checks'[id].identity = checks[id].identity

\* The check runs of j stay as they are.
Untouched(j) == /\ Published(j)' = Published(j)
                /\ \A id \in Published(j) : checks'[id] = checks[id]

LEMMA PublishedIs ==
    ASSUME TypeOK, NEW j \in Job
    PROVE  \A id \in Published(j) : id \in DOMAIN checks /\ id \in Nat /\ id <= Len(checks)
BY ChecksAre DEF Published

LEMMA IntrudeMakes ==
    ASSUME TypeOK, Intrude
    PROVE  /\ Stable /\ Len(checks') \in Nat /\ Len(checks) <= Len(checks')
           /\ \A j \in Job : Untouched(j)
           /\ \A id \in DOMAIN checks' \ DOMAIN checks : checks'[id].identity = Other
<1>1. [identity |-> Other, shows |-> Unread] \in Check
  BY UnreadIsConclusion DEF Check
<1>2. /\ Len(checks') = Len(checks) + 1 /\ Len(checks) \in Nat
      /\ DOMAIN checks' = DOMAIN checks \cup {Len(checks) + 1}
      /\ \A id \in DOMAIN checks : checks'[id] = checks[id]
      /\ checks'[Len(checks) + 1].identity = Other
  BY <1>1, Appended, ChecksAre DEF Intrude
<1>3. ASSUME NEW j \in Job PROVE Untouched(j)
  <2>1. j # Other
    BY JobAssumption
  <2> QED
    BY <1>2, <2>1 DEF Untouched, Published
<1> QED
  BY <1>2, <1>3 DEF Stable

LEMMA LandMakes ==
    ASSUME TypeOK, TargetsOK, NEW r \in wire, Land(r)
    PROVE  /\ Stable /\ Len(checks') \in Nat /\ Len(checks) <= Len(checks')
           /\ \A j \in Job \ {r.job} : Untouched(j)
           /\ \A id \in DOMAIN checks' \ DOMAIN checks : checks'[id].identity = r.job
           /\ r.target = None =>
                \E id \in DOMAIN checks' :
                  /\ Published(r.job)' = Published(r.job) \cup {id} /\ checks'[id].shows = r.verdict
                  /\ \A other \in Published(r.job) : other <= id
           /\ r.target # None =>
                Published(r.job)' = Published(r.job) /\ checks'[r.target].shows = r.verdict
<1> DEFINE check == [identity |-> r.job, shows |-> r.verdict]
<1>1. check \in Check /\ r.job \in Job
  BY RequestIs
<1>2. CASE r.target = None
  <2> DEFINE new == Len(checks) + 1
  <2>1. /\ Len(checks') = Len(checks) + 1 /\ Len(checks) \in Nat
        /\ DOMAIN checks' = DOMAIN checks \cup {new}
        /\ \A id \in DOMAIN checks : checks'[id] = checks[id]
        /\ checks'[new] = check
    BY <1>1, <1>2, Appended, ChecksAre DEF Land, Execute
  <2>2. Published(r.job)' = Published(r.job) \cup {new} /\ checks'[new].shows = r.verdict
    BY <2>1 DEF Published
  <2>3. \A other \in Published(r.job) : other <= new
    BY <1>1, <2>1, PublishedIs
  <2>4. \A j \in Job \ {r.job} : Untouched(j)
    BY <2>1 DEF Untouched, Published
  <2>5. \A id \in DOMAIN checks' \ DOMAIN checks : checks'[id].identity = r.job
    BY <2>1
  <2>6. Stable
    BY <2>1 DEF Stable
  <2> QED
    BY <1>2, <2>1, <2>2, <2>3, <2>4, <2>5, <2>6
<1>3. CASE r.target # None
  <2>1. r.target \in DOMAIN checks /\ checks[r.target].identity = r.job
    BY <1>3 DEF TargetsOK, Aimed
  <2>2. /\ Len(checks') = Len(checks) /\ Len(checks) \in Nat
        /\ DOMAIN checks' = DOMAIN checks
        /\ \A id \in DOMAIN checks :
             checks'[id] = IF id = r.target THEN check ELSE checks[id]
    BY <1>1, <1>3, <2>1, Updated, ChecksAre DEF Land, Execute
  <2>3. /\ Published(r.job)' = Published(r.job) /\ checks'[r.target].shows = r.verdict
        /\ Stable
    BY <2>1, <2>2 DEF Published, Stable
  <2>4. \A j \in Job \ {r.job} : Untouched(j)
    BY <2>1, <2>2 DEF Untouched, Published
  <2> QED
    BY <1>3, <2>2, <2>3, <2>4
<1> QED
  BY <1>2, <1>3

LEMMA StableStep ==
    ASSUME TypeOK, TargetsOK, [Next]_vars
    PROVE  Stable
<1>1. CASE UNCHANGED checks
  BY <1>1 DEF Stable
<1>2. CASE \E j \in Job : Local(j)
  BY <1>1, <1>2, LocalFrame
<1> QED
  BY <1>1, <1>2, LandMakes, IntrudeMakes DEF Next, Local, vars

-----------------------------------------------------------------------------
(* Requests and their targets.                                             *)

LEMMA RequestStep ==
    ASSUME TypeOK, RequestsOK, [Next]_vars
    PROVE  RequestsOK'
<1> USE DEF RequestsOK
<1>1. CASE UNCHANGED vars
  BY <1>1 DEF vars, Sent
<1>2. CASE Intrude \/ \E r \in wire : Land(r)
  <2>1. wire' \subseteq wire /\ UNCHANGED <<stage, attempt, verdict, target>>
    BY <1>2 DEF Intrude, Land
  <2> QED
    BY <2>1 DEF Sent
<1>3. ASSUME NEW j \in Job, Local(j) PROVE RequestsOK'
  <2>1. ASSUME NEW r \in wire', r.job \in Job \ {j}
        PROVE  /\ r.attempt <= attempt'[r.job]
               /\ r.attempt = attempt'[r.job] =>
                    r = Sent(r.job)' /\ stage'[r.job] \in {"wait", "failed"}
    <3>1. r \in wire
      BY <1>3, <2>1, LocalFrame DEF Sent
    <3> QED
      BY <1>3, <2>1, <3>1, LocalFrame DEF Sent
  <2> DEFINE OK(r) == /\ r.attempt <= attempt'[j]
                      /\ r.attempt = attempt'[j] =>
                           r = Sent(j)' /\ stage'[j] \in {"wait", "failed"}
  <2>2. ASSUME NEW r \in wire', r.job = j
        PROVE  OK(r)
    <3> USE DEF Goto, TypeOK
    <3>1. CASE Begin(j)
      <4>1. r \in wire /\ attempt'[j] = attempt[j] + 1
        BY <2>2, <3>1 DEF Begin
      <4>2. r.attempt <= attempt[j] /\ r.attempt \in Nat /\ attempt[j] \in Nat
        BY <2>2, <4>1, RequestIs
      <4> QED
        BY <4>1, <4>2
    <3>2. CASE Prepare(j) \/ Scan(j)
      <4>1. r \in wire /\ UNCHANGED attempt /\ stage[j] \in {"prepare", "scan"}
        BY <2>2, <3>2 DEF Prepare, Scan
      <4> QED
        BY <2>2, <4>1
    <3>3. CASE Send(j)
      <4>1. /\ stage[j] = "send" /\ stage'[j] = "wait" /\ UNCHANGED <<attempt, target, verdict>>
            /\ wire' = wire \cup {Sent(j)} /\ attempt[j] \in Nat
        BY <3>3 DEF Send, Sent
      <4>2. CASE r \in wire
        BY <2>2, <4>1, <4>2
      <4>3. CASE r = Sent(j)
        BY <4>1, <4>3 DEF Sent
      <4> QED
        BY <4>1, <4>2, <4>3
    <3>4. CASE Respond(j)
      <4>1. r \in wire /\ Own(j) = {} /\ UNCHANGED attempt
        BY <2>2, <3>4 DEF Respond
      <4>2. r.attempt # attempt[j]
        BY <2>2, <4>1 DEF Own
      <4> QED
        BY <2>2, <4>1, <4>2
    <3>5. CASE Fail(j)
      <4>1. /\ r \in wire /\ UNCHANGED <<attempt, target, verdict>> /\ stage'[j] = "failed"
        BY <2>2, <3>5 DEF Fail
      <4> QED
        BY <2>2, <4>1 DEF Sent
    <3> QED
      BY <1>3, <3>1, <3>2, <3>3, <3>4, <3>5 DEF Local, Step
  <2>3. \A r \in wire' : r.job \in Job
    <3>1. Sent(j).job = j
      BY DEF Sent
    <3> QED
      BY <1>3, <3>1, LocalFrame, RequestIs
  <2> QED
    BY <2>1, <2>2, <2>3
<1> QED
  BY <1>1, <1>2, <1>3 DEF Next, Local

LEMMA TargetStep ==
    ASSUME TypeOK, TargetsOK, [Next]_vars
    PROVE  TargetsOK'
<1>1. \A j \in Job, id \in Nat : Aimed(id, j) => Aimed(id, j)'
  BY StableStep DEF Stable, Aimed
<1>2. ASSUME wire' \subseteq wire, target' = target PROVE TargetsOK'
  <2>1. \A j \in Job : target[j] \in Nat
    BY DEF TypeOK
  <2> QED
    BY <1>1, <1>2, <2>1, RequestIs DEF TargetsOK
<1>3. CASE UNCHANGED vars \/ Intrude \/ \E r \in wire : Land(r)
  BY <1>2, <1>3 DEF vars, Intrude, Land
<1>4. ASSUME NEW j \in Job, Local(j) PROVE TargetsOK'
  <2>1. UNCHANGED checks
    BY <1>4, LocalFrame
  <2>2. target'[j] = target[j] \/ target'[j] = None \/ Aimed(target'[j], j)
    <3>1. CASE Scan(j)
      <4>1. CASE UNCHANGED target
        BY <4>1
      <4>2. CASE /\ Matches(j, OnPage(page[j])) # {}
                 /\ target' = [target EXCEPT ![j] = Newest(Matches(j, OnPage(page[j])))]
        <5>1. Matches(j, OnPage(page[j])) \in SUBSET DOMAIN checks
          BY DEF Matches, OnPage
        <5>2. target'[j] \in Matches(j, OnPage(page[j]))
          BY <4>2, <5>1, NewestIsNewest DEF TypeOK
        <5> QED
          BY <5>2, <5>1 DEF Matches, Aimed
      <4> QED
        BY <3>1, <4>1, <4>2 DEF Scan
    <3>2. CASE Begin(j)
      BY <3>2 DEF Begin, TypeOK
    <3>3. CASE Prepare(j) \/ Send(j) \/ Respond(j) \/ Fail(j)
      BY <3>3 DEF Prepare, Send, Respond, Fail
    <3> QED
      BY <1>4, <3>1, <3>2, <3>3 DEF Local, Step
  <2>3. Aimed(target'[j], j)
    BY <2>2 DEF TargetsOK, Aimed
  <2>4. \A k \in Job : Aimed(target'[k], k)
    BY <1>4, <2>3, LocalFrame DEF TargetsOK
  <2>5. \A r \in wire' : Aimed(r.target, r.job)
    <3>1. Sent(j).target = target[j] /\ Sent(j).job = j
      BY DEF Sent
    <3> QED
      BY <1>4, <3>1, LocalFrame DEF TargetsOK
  <2> QED
    BY <2>1, <2>4, <2>5 DEF TargetsOK, Aimed
<1> QED
  BY <1>3, <1>4 DEF Next, Local

LEMMA ElectionStep ==
    ASSUME TypeOK, TargetsOK, ElectionOK, [Next]_vars
    PROVE  ElectionOK'
<1>1. UNCHANGED <<mode, elected>>
  BY LocalFrame DEF Next, Local, Intrude, Land, vars, inputs
<1>2. \A j : Writer(j)' <=> Writer(j)
  BY <1>1 DEF Writer, Outcome
<1>3. ASSUME wire' \subseteq wire, stage' = stage,
             \A id \in DOMAIN checks' \ DOMAIN checks :
               checks'[id].identity # Other => Writer(checks'[id].identity)
      PROVE  ElectionOK'
  BY <1>2, <1>3, StableStep DEF ElectionOK, Stable
<1>4. CASE UNCHANGED vars
  BY <1>3, <1>4 DEF vars
<1>5. CASE Intrude
  BY <1>3, <1>5, IntrudeMakes DEF Intrude
<1>6. ASSUME NEW r \in wire, Land(r) PROVE ElectionOK'
  BY <1>3, <1>6, LandMakes DEF Land, ElectionOK
<1>7. ASSUME NEW j \in Job, Local(j) PROVE ElectionOK'
  <2>1. stage'[j] \in Active => Writer(j)
    <3> USE DEF Goto, TypeOK, Active
    <3>1. CASE Begin(j)
      BY <3>1 DEF Begin, Outcome, Writer
    <3>2. CASE Prepare(j) \/ Scan(j) \/ Send(j)
      BY <3>2 DEF Prepare, Scan, Send, ElectionOK
    <3>3. CASE Respond(j) \/ Fail(j)
      BY <3>3 DEF Respond, Fail
    <3> QED
      BY <1>7, <3>1, <3>2, <3>3 DEF Local, Step
  <2>2. ASSUME NEW r \in wire' PROVE Writer(r.job)
    <3>1. CASE r \in wire
      BY <3>1 DEF ElectionOK
    <3>2. CASE Send(j) /\ r = Sent(j)
      BY <3>2 DEF Send, Sent, ElectionOK, Active
    <3> QED
      BY <1>7, <3>1, <3>2 DEF Local, Step, Begin, Prepare, Scan, Send, Sent, Respond, Fail
  <2>3. UNCHANGED checks /\ \A k \in Job \ {j} : stage'[k] = stage[k]
    BY <1>7, LocalFrame
  <2> QED
    BY <1>2, <2>1, <2>2, <2>3 DEF ElectionOK
<1> QED
  BY <1>4, <1>5, <1>6, <1>7 DEF Next, Local

LEMMA LookupStartStep ==
    ASSUME TypeOK, LookupStart, [Next]_vars
    PROVE  LookupStart'
<1>1. CASE UNCHANGED <<stage, page, target>>
  BY <1>1 DEF LookupStart
<1>2. CASE UNCHANGED vars \/ Intrude \/ \E r \in wire : Land(r)
  BY <1>1, <1>2 DEF vars, Intrude, Land
<1>3. ASSUME NEW j \in Job, Local(j) PROVE LookupStart'
  <2>1. /\ stage'[j] = "prepare" => page'[j] = 1
        /\ stage'[j] \in {"prepare", "scan"} => target'[j] = None
    <3> USE DEF Goto, TypeOK
    <3>1. CASE Begin(j)
      BY <3>1 DEF Begin
    <3>2. CASE Prepare(j)
      BY <3>2 DEF Prepare, LookupStart
    <3>3. CASE Scan(j)
      BY <3>3 DEF Scan, LookupStart
    <3>4. CASE Send(j) \/ Respond(j) \/ Fail(j)
      BY <3>4 DEF Send, Respond, Fail
    <3> QED
      BY <1>3, <3>1, <3>2, <3>3, <3>4 DEF Local, Step
  <2> QED
    BY <1>3, <2>1, LocalFrame DEF LookupStart
<1> QED
  BY <1>2, <1>3 DEF Next, Local

-----------------------------------------------------------------------------
(* What a lookup found still holds when it is used, unless a straggler     *)
(* landed in between.                                                      *)

LEMMA LookupKept ==
    ASSUME TypeOK, TypeOK', NEW j \in Job, Lookup(j),
           Untouched(j), Len(checks) <= Len(checks'), Own(j)' = Own(j),
           stage'[j] = stage[j], page'[j] = page[j], target'[j] = target[j],
           verdict'[j] = verdict[j]
    PROVE  Lookup(j)'
<1>1. Published(j)' = Published(j) /\ \A id \in Published(j) : checks'[id] = checks[id]
  BY DEF Untouched
<1>2. Ahead(j) => Ahead(j)'
  <2> SUFFICES ASSUME Ahead(j), NEW id \in Published(j)
               PROVE  id + (page[j] - 1) * PageSize <= Len(checks')
    BY <1>1 DEF Ahead
  <2> DEFINE before == (page[j] - 1) * PageSize
  <2>1. before \in Int /\ Len(checks) \in Nat /\ Len(checks') \in Nat /\ id \in Nat
    BY BoundAssumption, ChecksAre, PublishedIs, LenProperties DEF TypeOK
  <2>2. id + before <= Len(checks)
    BY DEF Ahead
  <2> HIDE DEF before
  <2>3. id + before <= Len(checks')
    BY <2>1, <2>2
  <2> QED
    BY <2>3 DEF before
<1>3. Fits(j) => Fits(j)'
  BY <1>1 DEF Fits
<1>4. Shown(j) => Shown(j)'
  BY <1>1 DEF Shown
<1> QED
  BY <1>2, <1>3, <1>4 DEF Lookup

\* The answer that is awaited shows what the lookup prepared.
LEMMA AnswerShown ==
    ASSUME TypeOK, TypeOK', RequestsOK, TargetsOK, NEW r \in wire, Land(r),
           r \in Own(r.job), stage[r.job] = "wait", Lookup(r.job)
    PROVE  Lookup(r.job)'
<1> DEFINE j == r.job
<1>1. j \in Job /\ UNCHANGED <<stage, verdict, attempt, target>> /\ wire' = wire \ {r}
  BY RequestIs DEF Land
<1>2. \A q \in Own(j) : q = Sent(j)
  BY DEF RequestsOK, Own
<1>3. r = Sent(j) /\ r.target = target[j] /\ r.verdict = verdict[j]
  BY <1>2 DEF Sent
<1>4. Own(j)' = {}
  BY <1>1, <1>2, <1>3 DEF Own
<1>5. Fits(j)
  BY DEF Lookup
<1>6. Shown(j)'
  <2>1. CASE r.target = None
    <3>1. PICK id \in DOMAIN checks' :
            Published(j)' = Published(j) \cup {id} /\ checks'[id].shows = r.verdict
      BY <2>1, LandMakes
    <3>2. Published(j)' = {id}
      BY <1>3, <1>5, <2>1, <3>1 DEF Fits
    <3>3. id <= id
      <4>1. id \in Nat
        BY <3>1, LenProperties DEF TypeOK
      <4> QED
        BY <4>1
    <3> QED
      BY <1>1, <1>3, <3>1, <3>2, <3>3 DEF Shown
  <2>2. CASE r.target # None
    <3>1. Published(j)' = Published(j) /\ checks'[r.target].shows = r.verdict
      BY <2>2, LandMakes
    <3>2. r.target \in Published(j) /\ \A id \in Published(j) : id <= r.target
      BY <1>3, <1>5, <2>2 DEF Fits
    <3> QED
      BY <1>1, <1>3, <3>1, <3>2 DEF Shown
  <2> QED
    BY <2>1, <2>2
<1> QED
  BY <1>1, <1>4, <1>6 DEF Lookup

\* Reading one more page, or enough of them, finds the newest check run or
\* that there is none.
LEMMA ScanLooks ==
    ASSUME TypeOK, LookupStart, NEW j \in Job, Scan(j), Lookup(j)
    PROVE  Lookup(j)'
<1> DEFINE p == page[j]
           found == Matches(j, OnPage(p))
<1>1. /\ stage[j] = "scan" /\ target[j] = None /\ Ahead(j) /\ p \in 1..MaxPages
      /\ UNCHANGED checks /\ Published(j)' = Published(j)
  BY DEF Scan, LookupStart, Lookup, TypeOK, Published
<1>2. \A id \in Published(j) : id \in DOMAIN checks /\ id + (p - 1) * PageSize <= Len(checks)
  BY <1>1, PublishedIs DEF Ahead
<1>3. found = Published(j) \cap OnPage(p)
  BY DEF Matches, Published, OnPage
<1> USE DEF Goto
<1>4. CASE found # {} /\ target' = [target EXCEPT ![j] = Newest(found)] /\ Goto(j, "send")
  <2>1. target'[j] = Newest(found) /\ stage'[j] = "send"
    BY <1>4 DEF TypeOK
  <2>2. Newest(found) \in found /\ \A other \in found : other <= Newest(found)
    <3>1. found \in SUBSET DOMAIN checks
      BY DEF Matches, OnPage
    <3>2. Newest(found) \in found /\ \A other \in found : Newest(found) >= other
      BY <1>4, <3>1, NewestIsNewest
    <3> QED
      BY <3>1, <3>2, ChecksAre
  <2>3. ASSUME NEW other \in Published(j) \ OnPage(p) PROVE other <= Newest(found)
    <3> DEFINE behind == p * PageSize
    <3>1. other + behind <= Len(checks)
      <4>1. (p + 1) - 1 = p
        BY <1>1, BoundAssumption
      <4> QED
        BY <1>1, <1>2, <4>1, BehindThePage
    <3>2. Newest(found) + behind > Len(checks)
      BY <1>3, <2>2 DEF OnPage
    <3>3. /\ behind \in Nat /\ other \in Nat /\ Newest(found) \in Nat /\ Len(checks) \in Nat
      BY <1>1, <1>3, <2>2, BoundAssumption, PublishedIs, ChecksAre
    <3> HIDE DEF behind, found
    <3> QED
      BY <3>1, <3>2, <3>3
  <2>4. Newest(found) # None
    <3>1. Newest(found) \in 1..Len(checks)
      BY <1>3, <2>2, ChecksAre, PublishedIs
    <3> QED
      BY <3>1, ChecksAre DEF None
  <2>5. Fits(j)'
    BY <1>1, <1>3, <2>1, <2>2, <2>3, <2>4 DEF Fits
  <2> QED
    BY <2>1, <2>5 DEF Lookup
<1>5. CASE found = {} /\ Cardinality(OnPage(p)) < PageSize /\ Goto(j, "send")
           /\ UNCHANGED target
  <2>1. Published(j) = {}
    BY <1>1, <1>2, <1>3, <1>5, ShortPageIsLast
  <2>2. Fits(j)' /\ stage'[j] = "send"
    BY <1>1, <1>5, <2>1 DEF Fits, TypeOK
  <2> QED
    BY <2>2 DEF Lookup
<1>6. CASE found = {} /\ page' = [page EXCEPT ![j] = @ + 1] /\ UNCHANGED <<stage, target>>
  <2>1. page'[j] = p + 1
    BY <1>6 DEF TypeOK
  <2>2. Ahead(j)'
    BY <1>1, <1>2, <1>3, <1>6, <2>1, BehindThePage DEF Ahead
  <2> QED
    BY <1>1, <1>6, <2>2 DEF Lookup
<1>7. CASE Goto(j, "failed")
  BY <1>7 DEF Lookup, TypeOK
<1> QED
  BY <1>4, <1>5, <1>6, <1>7 DEF Scan

LEMMA LookupStep ==
    ASSUME TypeOK, TypeOK', WireInvariant, \A j \in Job \ late : Lookup(j), [Next]_vars,
           NEW k \in Job \ late'
    PROVE  Lookup(k)'
<1> USE DEF WireInvariant
<1>1. ASSUME UNCHANGED <<checks, stage, attempt, page, target, verdict, wire, late>>
      PROVE  Lookup(k)'
  <2>1. k \notin late /\ Untouched(k) /\ Own(k)' = Own(k)
    BY <1>1 DEF Untouched, Published, Own
  <2>2. Len(checks) <= Len(checks')
    BY <1>1, ChecksAre
  <2> QED
    BY <1>1, <2>1, <2>2, LookupKept
<1>2. CASE UNCHANGED vars
  BY <1>1, <1>2 DEF vars
<1>3. CASE Intrude
  <2>1. /\ UNCHANGED <<stage, attempt, page, target, verdict, wire, late>>
    BY <1>3 DEF Intrude, history
  <2>2. k \notin late /\ Own(k)' = Own(k)
    BY <2>1 DEF Own
  <2> QED
    BY <1>3, <2>1, <2>2, IntrudeMakes, LookupKept
<1>4. ASSUME NEW r \in wire, Land(r) PROVE Lookup(k)'
  <2>1. /\ UNCHANGED <<stage, attempt, page, target, verdict>> /\ wire' = wire \ {r}
        /\ r.job \in Job /\ late \subseteq late'
        /\ ~(r \in Own(r.job) /\ stage[r.job] = "wait") => r.job \in late'
    BY <1>4, RequestIs DEF Land
  <2>2. CASE r.job = k
    BY <1>4, <2>1, <2>2, AnswerShown
  <2>3. CASE r.job # k
    <3>1. Own(k)' = Own(k)
      BY <2>1, <2>3 DEF Own
    <3> QED
      BY <1>4, <2>1, <2>3, <3>1, LandMakes, LookupKept
  <2> QED
    BY <2>2, <2>3
<1>5. ASSUME NEW j \in Job, Local(j) PROVE Lookup(k)'
  <2>1. CASE j # k
    <3>1. /\ UNCHANGED checks /\ k \notin late
          /\ stage'[k] = stage[k] /\ attempt'[k] = attempt[k] /\ page'[k] = page[k]
          /\ target'[k] = target[k] /\ verdict'[k] = verdict[k]
          /\ wire' \in {wire, wire \cup {Sent(j)}, wire \ Own(j)}
      BY <1>5, <2>1, LocalFrame
    <3>2. Own(k)' = Own(k)
      <4>1. Sent(j).job = j /\ \A r \in Own(j) : r.job = j
        BY DEF Sent, Own
      <4> QED
        BY <2>1, <3>1, <4>1 DEF Own
    <3>3. Untouched(k) /\ Len(checks) <= Len(checks')
      BY <3>1, ChecksAre DEF Untouched, Published
    <3> QED
      BY <3>1, <3>2, <3>3, LookupKept
  <2>2. CASE j = k
    <3> USE DEF Goto, TypeOK
    <3>1. CASE Begin(k)
      <4>1. stage'[k] \in {"failed", "prepare", "skipped"}
        BY <3>1 DEF Begin, Outcome
      <4> QED
        BY <4>1 DEF Lookup
    <3>2. CASE Prepare(k)
      <4>1. stage'[k] = "scan" /\ page'[k] = 1 /\ UNCHANGED checks
        BY <3>2 DEF Prepare, LookupStart
      <4>2. ASSUME NEW id \in Published(k) PROVE id + (1 - 1) * PageSize <= Len(checks)
        <5> DEFINE none == (1 - 1) * PageSize
        <5>1. none = 0
          BY BoundAssumption
        <5>2. id \in Nat /\ id <= Len(checks)
          BY PublishedIs
        <5> HIDE DEF none
        <5>3. id + none <= Len(checks)
          BY <5>1, <5>2
        <5> QED
          BY <5>3 DEF none
      <4>3. Ahead(k)'
        BY <4>1, <4>2 DEF Ahead, Published
      <4> QED
        BY <4>1, <4>3 DEF Lookup
    <3>3. CASE Scan(k)
      <4>1. k \notin late
        BY <3>3 DEF Scan, history
      <4> QED
        BY <3>3, <4>1, ScanLooks
    <3>4. CASE Send(k)
      <4>1. /\ stage[k] = "send" /\ stage'[k] = "wait" /\ k \notin late
            /\ UNCHANGED <<checks, attempt, target>> /\ wire' = wire \cup {Sent(k)}
        BY <3>4 DEF Send, Sent, history
      <4>2. Sent(k) \in Own(k)'
        BY <4>1 DEF Own, Sent
      <4>3. Fits(k) /\ Published(k)' = Published(k)
        BY <4>1 DEF Lookup, Published
      <4>4. Fits(k)'
        BY <4>1, <4>3 DEF Fits
      <4> QED
        BY <4>1, <4>2, <4>4 DEF Lookup
    <3>5. CASE Respond(k)
      <4>1. /\ stage[k] = "wait" /\ stage'[k] = "published" /\ k \notin late
            /\ UNCHANGED <<checks, verdict>> /\ Own(k) = {}
        BY <3>5 DEF Respond, history
      <4>2. Shown(k)
        BY <4>1 DEF Lookup
      <4>3. Shown(k)'
        BY <4>1, <4>2 DEF Shown, Published
      <4> QED
        BY <4>1, <4>3 DEF Lookup
    <3>6. CASE Fail(k)
      BY <3>6 DEF Fail, Lookup
    <3> QED
      BY <1>5, <2>2, <3>1, <3>2, <3>3, <3>4, <3>5, <3>6 DEF Local, Step
  <2> QED
    BY <2>1, <2>2
<1> QED
  BY <1>2, <1>3, <1>4, <1>5 DEF Next, Local

\* Only the answer that is awaited creates a check run of j, and it creates the
\* first.
LEMMA OneStep ==
    ASSUME TypeOK, WireInvariant, late \subseteq straggled,
           \A j \in Job \ late : Lookup(j), \A j \in Job \ straggled : AtMostOne(j),
           [Next]_vars
    PROVE  late' \subseteq straggled' /\ \A j \in Job \ straggled' : AtMostOne(j)'
<1>1. CASE UNCHANGED <<checks, straggled>> /\ late' \subseteq late
  BY <1>1 DEF AtMostOne, Published
<1>2. CASE UNCHANGED vars
  BY <1>1, <1>2 DEF vars
<1>3. CASE Intrude
  BY <1>3, IntrudeMakes DEF Intrude, history, AtMostOne, Untouched
<1>4. ASSUME NEW r \in wire, Land(r)
      PROVE  late' \subseteq straggled' /\ \A j \in Job \ straggled' : AtMostOne(j)'
  <2>1. late' \subseteq straggled' /\ straggled \subseteq straggled'
    BY <1>4 DEF Land
  <2>2. TargetsOK /\ RequestsOK
    BY DEF WireInvariant
  <2>3. ASSUME NEW j \in Job \ straggled' PROVE AtMostOne(j)'
    <3>1. CASE j # r.job
      BY <1>4, <2>1, <2>2, <2>3, <3>1, LandMakes DEF AtMostOne, Untouched
    <3>2. CASE j = r.job /\ r.target # None
      BY <1>4, <2>1, <2>2, <2>3, <3>2, LandMakes DEF AtMostOne
    <3>3. CASE j = r.job /\ r.target = None
      <4>1. r \in Own(j) /\ stage[j] = "wait" /\ j \notin late
        BY <1>4, <2>1, <3>3 DEF Land
      <4>2. r = Sent(j)
        BY <2>2, <4>1 DEF RequestsOK, Own
      <4>3. Published(j) = {}
        BY <3>3, <4>1, <4>2 DEF Lookup, Fits, Sent
      <4> QED
        BY <1>4, <2>2, <3>3, <4>3, LandMakes DEF AtMostOne
    <3> QED
      BY <3>1, <3>2, <3>3
  <2> QED
    BY <2>1, <2>3
<1>5. CASE \E j \in Job : Local(j)
  BY <1>1, <1>5, LocalFrame DEF TypeOK
<1> QED
  BY <1>2, <1>3, <1>4, <1>5 DEF Next, Local

-----------------------------------------------------------------------------
(* The theorems.                                                           *)

\* In every order of requests, losses, answers and reruns: requests fit their
\* lookups and lookups fit the check runs.
THEOREM PublicationInvariantHolds == Spec => []PublicationInvariant
<1>1. Init => PublicationInvariant
  <2> SUFFICES ASSUME Init PROVE PublicationInvariant
    OBVIOUS
  <2>1. TypeOK
    BY UnreadIsConclusion, EmptySeq, BoundAssumption DEF Init, TypeOK, Stage, None
  <2>2. WireInvariant
    BY DEF Init, WireInvariant, RequestsOK, TargetsOK, Aimed, ElectionOK, LookupStart,
       Active, None
  <2>3. \A j \in Job : Lookup(j) /\ AtMostOne(j)
    BY DEF Init, Lookup, AtMostOne, Published
  <2>4. late \subseteq straggled
    BY DEF Init
  <2> QED
    BY <2>1, <2>2, <2>3, <2>4 DEF PublicationInvariant
<1>2. PublicationInvariant /\ [Next]_vars => PublicationInvariant'
  <2> SUFFICES ASSUME PublicationInvariant, [Next]_vars PROVE PublicationInvariant'
    OBVIOUS
  <2>1. TypeOK'
    BY TypeStep DEF PublicationInvariant, WireInvariant
  <2>2. WireInvariant'
    BY RequestStep, TargetStep, ElectionStep, LookupStartStep
    DEF PublicationInvariant, WireInvariant
  <2>3. \A j \in Job \ late' : Lookup(j)'
    BY <2>1, LookupStep DEF PublicationInvariant
  <2>4. late' \subseteq straggled' /\ \A j \in Job \ straggled' : AtMostOne(j)'
    BY OneStep DEF PublicationInvariant
  <2> QED
    BY <2>1, <2>2, <2>3, <2>4 DEF PublicationInvariant
<1> QED
  BY <1>1, <1>2, PTL DEF Spec

\* Whatever was lost, interrupted or rerun, an identity has at most one check
\* run on the commit, unless a request was executed after its sender gave up.
THEOREM OneCheckPerIdentityHolds == Spec => []OneCheckPerIdentity
<1>1. PublicationInvariant => OneCheckPerIdentity
  <2> SUFFICES ASSUME PublicationInvariant, NEW j \in Job \ straggled
               PROVE  Cardinality(Published(j)) <= 1
    BY DEF OneCheckPerIdentity
  <2>1. CASE Published(j) = {}
    <3>1. Cardinality(Published(j)) = 0
      BY <2>1, FS_EmptySet
    <3> QED
      BY <3>1
  <2>2. ASSUME NEW id \in Published(j) PROVE Cardinality(Published(j)) <= 1
    <3>1. Published(j) = {id}
      BY DEF PublicationInvariant, AtMostOne
    <3>2. Cardinality({id}) = 1
      BY FS_Singleton
    <3> QED
      BY <3>1, <3>2
  <2> QED
    BY <2>1, <2>2
<1> QED
  BY <1>1, PublicationInvariantHolds, PTL

\* What was reported as published is what the newest check run shows.
THEOREM PublishedShowsVerdictHolds == Spec => []PublishedShowsVerdict
<1>1. PublicationInvariant => PublishedShowsVerdict
  BY DEF PublicationInvariant, Lookup, Shown, PublishedShowsVerdict
<1> QED
  BY <1>1, PublicationInvariantHolds, PTL

\* A mode that only observes, or an unelected write, leaves no check run.
THEOREM ObserversLeaveNoCheckHolds == Spec => []ObserversLeaveNoCheck
<1>1. PublicationInvariant => ObserversLeaveNoCheck
  <2> SUFFICES ASSUME PublicationInvariant, NEW j \in Job,
                      mode[j] \in {"shadow", "disabled", "unknown"} \/ ~elected[j]
               PROVE  Published(j) = {}
    BY DEF ObserversLeaveNoCheck
  <2>1. ~Writer(j) /\ j # Other
    BY JobAssumption DEF Writer, Outcome
  <2> QED
    BY <2>1 DEF PublicationInvariant, WireInvariant, ElectionOK, Published
<1> QED
  BY <1>1, PublicationInvariantHolds, PTL

\* No publication takes over a check run that is not its own.
THEOREM IdentitiesStableHold == Spec => IdentitiesStable
<1>1. PublicationInvariant /\ [Next]_vars => [Stable]_vars
  BY StableStep DEF PublicationInvariant, WireInvariant
<1> QED
  BY <1>1, PublicationInvariantHolds, PTL DEF Spec, IdentitiesStable, Stable
=============================================================================

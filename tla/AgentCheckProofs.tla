----------------------------- MODULE AgentCheckProofs ----------------------------
(***************************************************************************)
(* Proofs about AgentCheck: what a verdict says of the tree, of the        *)
(* results and of the reports, for any number of edits and of checks, any  *)
(* plans, and a check that may escape or be killed anywhere.               *)
(***************************************************************************)
EXTENDS AgentCheck, TLAPS

Subjects == [head : Version, policy : Version, extra : Version,
             diff : {<< >>} \cup (Version \X Version)]

CheckTypeOK == TypeOK /\ subject \in Subjects

-----------------------------------------------------------------------------
(* The workspace over time.  A commit takes what was staged and staging    *)
(* takes what was edited, so all contents only grow, and one commit has    *)
(* one tracked content.                                                    *)

Staged(w) == w.base <= w.index /\ w.index <= w.work

Before(v, w) == /\ v.head <= w.head /\ v.policy <= w.policy
                /\ v.work <= w.work /\ v.extra <= w.extra
                /\ v.head = w.head => v.base = w.base

\* Every content has the number of the edit that made it.
Numbered == \A n \in {ws.head, ws.base, ws.index, ws.work, ws.policy, ws.extra} : n <= edits

WorkspaceOK == Numbered /\ \A w \in {ws, began} \cup seen : Staged(w)

-----------------------------------------------------------------------------
(* The two readings.                                                       *)

\* The parts of the subject s were read no later than w was there.
ReadHead(s, w)   == s.head <= w.head
ReadPolicy(s, w) == s.policy <= w.policy
ReadDiff(s, w)   == s.diff # << >> => s.diff[2] <= w.work

FirstReading ==
    /\ at \in {"resolve", "structural", "gates", "phases"} => part = 1
    /\ at \in {"resolve", "capture"} => seen = {}
    /\ at = "capture" => /\ part > 1 => ReadHead(subject, ws)
                         /\ part > 2 => ReadPolicy(subject, ws)
                         /\ part > 3 => ReadDiff(subject, ws)

\* Everything that ran, ran between the two readings.
InBetween ==
    at \in {"structural", "gates", "phases", "prove"} =>
        /\ ReadHead(subject, began) /\ ReadPolicy(subject, began) /\ ReadDiff(subject, began)
        /\ subject.extra = began.extra
        /\ Before(began, ws)
        /\ \A w \in seen : Before(began, w) /\ Before(w, ws)

\* What the second has found the same, was the same all along: the policy,
\* then the worktree unless something was committed, then the rest.
SecondReading ==
    (at = "prove" /\ ~moved) =>
        /\ part > 2 => \A w \in seen \cup {began} : w.policy = subject.policy
        /\ part > 3 /\ ws.head = subject.head => \A w \in seen : w.work = began.work

OneTree == proved.head = subject.head =>
             /\ \A w \in seen : SameTree(w, began)
             /\ subject.head = began.head /\ subject.policy = began.policy

\* The readings' result is in the ledger.
Read == IF moved THEN Blocking("infrastructure") ELSE OneTree

ReadingInvariant ==
    /\ FirstReading /\ InBetween /\ SecondReading
    /\ at \in {"json", "markdown"} => Read

-----------------------------------------------------------------------------
(* The reports.                                                            *)

\* The Markdown report, written last, is this check's only when it is done:
\* then both say what the check exits with.
ReportInvariant ==
    /\ markdown.run <= run
    /\ at = "idle" => run = 0
    /\ at \in Busy => markdown.run < run
    /\ at = "markdown" => json = Evidence
    /\ at = "exited" /\ (markdown.run = run \/ exit = 0) =>
         json = Evidence /\ markdown = Evidence /\ exit = Overall /\ Read

CheckInvariant == CheckTypeOK /\ WorkspaceOK /\ ReadingInvariant /\ ReportInvariant

-----------------------------------------------------------------------------
(* The types.                                                              *)

LEMMA OriginalIsWorkspace == Original \in Workspace /\ NoReport \in Report
BY BoundAssumption DEF Original, Workspace, Version, NoReport, Report

LEMMA PlanShrinks ==
    ASSUME NEW p \in Seq(BOOLEAN), p # << >>
    PROVE  Head(p) \in BOOLEAN /\ Tail(p) \in Seq(BOOLEAN)
OBVIOUS

\* The parts in their order, and what is read of each.
LEMMA PartRead ==
    ASSUME CheckTypeOK
    PROVE  /\ part = 1 => Parts[part] = "head" /\ Observe("head", ws) = ws.head
           /\ part = 2 => Parts[part] = "policy" /\ Observe("policy", ws) = ws.policy
           /\ part = 3 => /\ Parts[part] = "diff"
                          /\ Observe("diff", ws) = IF ws.work = ws.base THEN << >>
                                                   ELSE <<ws.base, ws.work>>
           /\ part = 4 => Parts[part] = "extra" /\ Observe("extra", ws) = ws.extra
           /\ part \in 1..4 /\ Len(Parts) = 4
BY DEF CheckTypeOK, TypeOK, Parts, Observe

\* What an edit makes of the workspace: one of the five changes, each of them
\* a number higher than all before, or what was there.
LEMMA EditMakes ==
    ASSUME CheckTypeOK, WorkspaceOK, Edit
    PROVE  /\ edits' = edits + 1 /\ edits' \in Version
           /\ ws' \in Workspace
           /\ Numbered' /\ Staged(ws')
           /\ Before(ws, ws')
<1>1. edits \in Nat /\ edits < Edits /\ edits' = edits + 1 /\ edits' \in Version
  BY BoundAssumption DEF Edit, CheckTypeOK, TypeOK, Version
<1>2. PICK h \in Version, b \in Version, i \in Version, k \in Version, p \in Version,
           x \in Version :
        /\ ws = [head |-> h, base |-> b, index |-> i, work |-> k, policy |-> p, extra |-> x]
        /\ b <= i /\ i <= k
        /\ h <= edits /\ k <= edits /\ p <= edits /\ x <= edits
  <2>1. ws \in Workspace
    BY DEF CheckTypeOK, TypeOK
  <2>2. /\ ws.head \in Version /\ ws.base \in Version /\ ws.index \in Version
        /\ ws.work \in Version /\ ws.policy \in Version /\ ws.extra \in Version
        /\ ws = [head |-> ws.head, base |-> ws.base, index |-> ws.index, work |-> ws.work,
                 policy |-> ws.policy, extra |-> ws.extra]
    BY <2>1 DEF Workspace
  <2>3. /\ ws.base <= ws.index /\ ws.index <= ws.work
        /\ ws.head <= edits /\ ws.work <= edits /\ ws.policy <= edits /\ ws.extra <= edits
    BY DEF WorkspaceOK, Staged, Numbered
  <2> QED
    BY <2>2, <2>3
<1>b. Fresh = edits + 1
  BY DEF Fresh
<1>3. CASE ws' = [ws EXCEPT !.work = Fresh]
  <2>1. ws' = [head |-> h, base |-> b, index |-> i, work |-> Fresh,
                policy |-> p, extra |-> x]
    BY <1>2, <1>3
  <2> QED
    BY <1>1, <1>2, <1>b, <2>1 DEF Workspace, Numbered, Staged, Before, Version
<1>4. CASE ws' = [ws EXCEPT !.work = Fresh, !.policy = Fresh]
  <2>1. ws' = [head |-> h, base |-> b, index |-> i, work |-> Fresh,
                policy |-> Fresh, extra |-> x]
    BY <1>2, <1>4
  <2> QED
    BY <1>1, <1>2, <1>b, <2>1 DEF Workspace, Numbered, Staged, Before, Version
<1>5. CASE ws' = [ws EXCEPT !.extra = Fresh]
  <2>1. ws' = [head |-> h, base |-> b, index |-> i, work |-> k,
                policy |-> p, extra |-> Fresh]
    BY <1>2, <1>5
  <2> QED
    BY <1>1, <1>2, <1>b, <2>1 DEF Workspace, Numbered, Staged, Before, Version
<1>6. CASE ws' = [ws EXCEPT !.index = ws.work]
  <2>1. ws' = [head |-> h, base |-> b, index |-> k, work |-> k,
                policy |-> p, extra |-> x]
    BY <1>2, <1>6
  <2> QED
    BY <1>1, <1>2, <1>b, <2>1 DEF Workspace, Numbered, Staged, Before, Version
<1>7. CASE ws' = [ws EXCEPT !.head = Fresh, !.base = ws.index]
  <2>1. ws' = [head |-> Fresh, base |-> i, index |-> i, work |-> k,
                policy |-> p, extra |-> x]
    BY <1>2, <1>7
  <2> QED
    BY <1>1, <1>2, <1>b, <2>1 DEF Workspace, Numbered, Staged, Before, Version
<1> QED
  BY <1>1, <1>3, <1>4, <1>5, <1>6, <1>7 DEF Edit, Changes

\* Every other step leaves the workspace, and remembers only what it was.
LEMMA HistoryStep ==
    ASSUME CheckTypeOK, WorkspaceOK, [Next]_vars
    PROVE  /\ {ws', began', proved'} \cup seen' \subseteq Workspace
           /\ edits' \in Version
           /\ WorkspaceOK'
<1> USE DEF CheckTypeOK, TypeOK, history
<1>1. CASE Edit
  BY <1>1, EditMakes DEF Edit, WorkspaceOK
<1>2. CASE UNCHANGED <<ws, edits>> /\ began' \in {began, ws, Original}
           /\ proved' \in {proved, ws, Original} /\ seen' \subseteq seen \cup {ws}
  <2>1. Staged(Original)
    BY DEF Staged, Original
  <2> QED
    BY <1>2, <2>1, OriginalIsWorkspace DEF WorkspaceOK, Numbered
<1>3. CASE Begin
  BY <1>2, <1>3 DEF Begin
<1>4. CASE Capture
  BY <1>2, <1>4 DEF Capture, Still
<1>5. CASE Structural \/ Gate \/ Phase
  BY <1>2, <1>5 DEF Structural, Gate, Phase, Ran, Still
<1>6. CASE Prove
  BY <1>2, <1>6 DEF Prove, Still
<1>7. CASE ResolveChanges \/ StartPhases \/ WriteJson \/ WriteMarkdown \/ Escape \/ Kill
  BY <1>2, <1>7 DEF ResolveChanges, StartPhases, WriteJson, WriteMarkdown, Escape, Kill, Still
<1>8. CASE UNCHANGED vars
  BY <1>2, <1>8 DEF vars
<1> QED
  BY <1>1, <1>3, <1>4, <1>5, <1>6, <1>7, <1>8 DEF Next

\* Whatever a step adds to the ledger is a result.
LEMMA LedgerStep ==
    ASSUME CheckTypeOK, [Next]_vars
    PROVE  ledger' \subseteq Result
<1>1. ledger \subseteq Result /\ plan \in Seq(BOOLEAN)
  BY DEF CheckTypeOK, TypeOK
<1>2. ASSUME NEW blocking \in BOOLEAN, NEW class \in {"pass", "finding", "infrastructure"},
             Add([blocking |-> blocking, class |-> class])
      PROVE  ledger' \subseteq Result
  <2>1. [blocking |-> blocking, class |-> class] \in Result
    BY DEF Result
  <2> QED
    BY <1>1, <1>2, <2>1, Zenon DEF Add
<1>3. CASE UNCHANGED ledger
  BY <1>1, <1>3
<1>4. CASE ResolveChanges \/ Structural \/ Phase
  <2>1. UNCHANGED ledger \/ \E class \in {"pass", "finding", "infrastructure"} :
          Add([blocking |-> TRUE, class |-> class])
    BY <1>4 DEF ResolveChanges, Structural, Phase, Record
  <2> QED
    BY <1>2, <1>3, <2>1, Zenon
<1>5. CASE Gate
  <2>1. Head(plan) \in BOOLEAN
    BY <1>1, <1>5, PlanShrinks DEF Gate
  <2> QED
    BY <1>2, <1>5, <2>1, Zenon DEF Gate, Record
<1>6. CASE Prove
  <2>1. UNCHANGED ledger \/ \E class \in {"pass", "finding", "infrastructure"} :
          Add([blocking |-> TRUE, class |-> class])
    BY <1>6 DEF Prove
  <2> QED
    BY <1>2, <1>3, <2>1, Zenon
<1>7. CASE Begin
  BY <1>7 DEF Begin
<1>8. CASE \/ Edit \/ Capture \/ StartPhases \/ WriteJson \/ WriteMarkdown \/ Escape \/ Kill
           \/ UNCHANGED vars
  BY <1>3, <1>8 DEF Edit, Capture, StartPhases, WriteJson, WriteMarkdown, Escape, Kill, vars
<1> QED
  BY <1>4, <1>5, <1>6, <1>7, <1>8 DEF Next

LEMMA TypeStep ==
    ASSUME CheckTypeOK, WorkspaceOK, [Next]_vars
    PROVE  CheckTypeOK' /\ WorkspaceOK'
<1> DEFINE TypeRest == /\ run \in 0..Runs
                       /\ at \in Busy \cup {"idle", "killed", "exited"}
                       /\ plan \in Seq(BOOLEAN) /\ part \in 1..4
                       /\ subject \in Subjects
                       /\ moved \in BOOLEAN
                       /\ json \in Report /\ markdown \in Report
                       /\ exit \in {0, 1, 2, 128}
<1>1. TypeRest
  BY PartRead DEF CheckTypeOK, TypeOK
<1>a. SUFFICES TypeRest'
  BY HistoryStep, LedgerStep DEF CheckTypeOK, TypeOK, Subjects, Parts
<1> USE DEF reports
<1>2. CASE UNCHANGED <<run, subject, reports>> /\ part' \in 1..4
           /\ moved' \in BOOLEAN /\ plan' \in Seq(BOOLEAN) /\ exit' \in {0, 1, 2, 128}
           /\ at' \in Busy \cup {"idle", "killed", "exited"}
  BY <1>1, <1>2
<1>b. Overall \in {0, 1, 2}
  BY DEF Overall
<1>3. CASE Edit
  BY <1>1, <1>2, <1>3 DEF Edit
<1>4. CASE Begin
  <2>1. run' \in 0..Runs
    BY <1>1, <1>4, BoundAssumption DEF Begin
  <2>2. NoSubject \in Subjects
    BY BoundAssumption DEF NoSubject, Subjects, Version
  <2>3. << >> \in Seq(BOOLEAN)
    OBVIOUS
  <2> QED
    <3>1. plan' \in Seq(BOOLEAN) /\ subject' \in Subjects
      BY <1>4, <2>2, <2>3, Zenon DEF Begin
    <3>2. /\ at' = "resolve" /\ part' = 1 /\ moved' = FALSE /\ exit' = 2
          /\ json' = json /\ markdown' = markdown
      BY <1>4 DEF Begin
    <3>3. at' \in Busy /\ part' \in 1..4 /\ exit' \in {0, 1, 2, 128}
      BY <3>2 DEF Busy
    <3>4. moved' \in BOOLEAN
      BY <3>2
    <3> QED
      BY <1>1, <2>1, <3>1, <3>2, <3>3, <3>4, Zenon
<1>5. CASE ResolveChanges
  BY <1>1, <1>2, <1>5, PlanAssumption DEF ResolveChanges, Still, Busy
<1>6. CASE Capture
  <2>1. subject' \in Subjects
    BY <1>1, <1>6, PartRead DEF Capture, Subjects, CheckTypeOK, TypeOK, Workspace
  <2> QED
    BY <1>1, <1>6, <2>1 DEF Capture, NextPart, Parts, Still, Busy
<1>7. CASE Structural
  BY <1>1, <1>2, <1>7 DEF Structural, Still, Busy
<1>8. CASE Gate
  BY <1>1, <1>2, <1>8, PlanShrinks DEF Gate, Still
<1>9. CASE StartPhases
  BY <1>1, <1>2, <1>9 DEF StartPhases, Still, Busy
<1>10. CASE Phase
  BY <1>1, <1>2, <1>10, PlanShrinks DEF Phase, Still, Busy
<1>11. CASE Prove
  BY <1>1, <1>2, <1>11 DEF Prove, NextPart, Parts, Still, Busy
<1>12. CASE WriteJson \/ WriteMarkdown
  <2>1. Evidence \in Report
    BY <1>1, <1>b DEF Evidence, Report, Subjects
  <2> QED
    BY <1>1, <1>12, <2>1, <1>b DEF WriteJson, WriteMarkdown, Still, Busy
<1>13. CASE Escape \/ Kill
  BY <1>1, <1>2, <1>13 DEF Escape, Kill, Still
<1>14. CASE UNCHANGED vars
  BY <1>1, <1>2, <1>14 DEF vars
<1> QED
  BY <1>3, <1>4, <1>5, <1>6, <1>7, <1>8, <1>9, <1>10, <1>11, <1>12, <1>13, <1>14 DEF Next

-----------------------------------------------------------------------------
(* Every step keeps what the readings mean.                                *)

LEMMA BeforeIsOrder ==
    ASSUME NEW u \in Workspace, NEW v \in Workspace, NEW w \in Workspace,
           Before(u, v), Before(v, w)
    PROVE  Before(u, w)
BY DEF Before, Workspace, Version

LEMMA BeforeItself == ASSUME NEW w \in Workspace PROVE Before(w, w)
BY DEF Before, Workspace, Version

\* What has been read before v was read before w, if w comes later.
LEMMA ReadBefore ==
    ASSUME NEW s \in Subjects, NEW v \in Workspace, NEW w \in Workspace, Before(v, w)
    PROVE  /\ ReadHead(s, v) => ReadHead(s, w)
           /\ ReadPolicy(s, v) => ReadPolicy(s, w)
           /\ ReadDiff(s, v) => ReadDiff(s, w)
<1>1. s.head \in Nat /\ s.policy \in Nat
  BY DEF Subjects, Version
<1>2. s.diff # << >> => s.diff[2] \in Nat
  <2>1. s.diff \in {<< >>} \cup (Version \X Version)
    BY Zenon DEF Subjects
  <2>2. ASSUME NEW d \in Version \X Version PROVE d[2] \in Nat
    BY DEF Version
  <2> QED
    BY <2>1, <2>2, Zenon
<1>3. /\ v.head \in Nat /\ v.policy \in Nat /\ v.work \in Nat
      /\ w.head \in Nat /\ w.policy \in Nat /\ w.work \in Nat
      /\ v.head <= w.head /\ v.policy <= w.policy /\ v.work <= w.work
  BY DEF Workspace, Version, Before
<1>4. ReadHead(s, v) => ReadHead(s, w)
  BY <1>1, <1>3 DEF ReadHead
<1>5. ReadPolicy(s, v) => ReadPolicy(s, w)
  BY <1>1, <1>3 DEF ReadPolicy
<1>6. ReadDiff(s, v) => ReadDiff(s, w)
  <2> DEFINE old == s.diff[2]
  <2>1. ASSUME old \in Nat, old <= v.work PROVE old <= w.work
    <3> HIDE DEF old
    <3> QED
      BY <1>3, <2>1
  <2> QED
    BY <1>2, <2>1, Zenon DEF ReadDiff
<1> QED
  BY <1>4, <1>5, <1>6

\* An edit comes after everything that was read.
LEMMA EditKeepsReading ==
    ASSUME CheckTypeOK, WorkspaceOK, ReadingInvariant, Edit
    PROVE  ReadingInvariant'
<1>1. /\ ws' \in Workspace /\ Before(ws, ws') /\ subject \in Subjects
      /\ ws \in Workspace /\ began \in Workspace /\ seen \subseteq Workspace
  BY EditMakes DEF CheckTypeOK, TypeOK
<1>2. UNCHANGED <<at, part, subject, ledger, moved, began, proved, seen>>
  BY DEF Edit, history
<1>3. FirstReading'
  <2>1. /\ ReadHead(subject, ws) => ReadHead(subject, ws')
        /\ ReadPolicy(subject, ws) => ReadPolicy(subject, ws')
        /\ ReadDiff(subject, ws) => ReadDiff(subject, ws')
    BY <1>1, ReadBefore
  <2>a. subject' = subject /\ at' = at /\ part' = part /\ seen' = seen
    BY <1>2
  <2>b. FirstReading
    BY DEF ReadingInvariant
  <2>2. /\ at \in {"resolve", "structural", "gates", "phases"} => part = 1
        /\ at \in {"resolve", "capture"} => seen = {}
    BY <2>b, Zenon DEF FirstReading
  <2>3. ASSUME at = "capture"
        PROVE  /\ part > 1 => ReadHead(subject, ws)
               /\ part > 2 => ReadPolicy(subject, ws)
               /\ part > 3 => ReadDiff(subject, ws)
    BY <2>b, <2>3, Zenon DEF FirstReading
  <2>4. at = "capture" => /\ part > 1 => ReadHead(subject, ws')
                          /\ part > 2 => ReadPolicy(subject, ws')
                          /\ part > 3 => ReadDiff(subject, ws')
    BY <2>1, <2>3, Zenon
  <2> QED
    BY <2>a, <2>2, <2>4 DEF FirstReading
<1>4. InBetween'
  <2>1. at \in {"structural", "gates", "phases", "prove"} =>
          Before(began, ws') /\ \A w \in seen : Before(w, ws')
    BY <1>1, BeforeIsOrder DEF ReadingInvariant, InBetween
  <2> QED
    BY <1>2, <2>1 DEF ReadingInvariant, InBetween, ReadHead, ReadPolicy, ReadDiff, Before
<1>5. SecondReading'
  <2>1. at = "prove" /\ ws'.head = subject.head => ws.head = subject.head
    <3>1. at = "prove" => subject.head <= began.head /\ began.head <= ws.head
      BY DEF ReadingInvariant, InBetween, ReadHead, Before
    <3>2. /\ subject.head \in Nat /\ began.head \in Nat /\ ws.head \in Nat /\ ws'.head \in Nat
          /\ ws.head <= ws'.head
      BY <1>1 DEF Subjects, Workspace, Version, Before
    <3> QED
      BY <3>1, <3>2
  <2> QED
    BY <1>2, <2>1 DEF ReadingInvariant, SecondReading
<1>6. Read' <=> Read
  BY <1>2 DEF Read, OneTree, Blocking, SameTree
<1> QED
  BY <1>2, <1>3, <1>4, <1>5, <1>6 DEF ReadingInvariant

\* Each part of the first reading is of the workspace as it is by then.
LEMMA CaptureKeepsReading ==
    ASSUME CheckTypeOK, WorkspaceOK, ReadingInvariant, Capture
    PROVE  ReadingInvariant'
<1>1. /\ at = "capture" /\ ws' = ws /\ began' = ws /\ seen' = seen /\ seen = {}
      /\ ws \in Workspace /\ subject \in Subjects /\ part \in 1..4
  BY PartRead, Zenon DEF Capture, Still, ReadingInvariant, FirstReading, CheckTypeOK, TypeOK
<1>2. /\ part > 1 => ReadHead(subject, ws)
      /\ part > 2 => ReadPolicy(subject, ws)
      /\ part > 3 => ReadDiff(subject, ws)
  BY <1>1, Zenon DEF ReadingInvariant, FirstReading
<1>3. PICK h \in Version, p \in Version, x \in Version, d \in {<< >>} \cup (Version \X Version) :
        subject = [head |-> h, policy |-> p, extra |-> x, diff |-> d]
  BY <1>1 DEF Subjects
<1>w. ws.head \in Nat /\ ws.policy \in Nat /\ ws.work \in Nat /\ ws.base \in Nat
  BY <1>1 DEF Workspace, Version
<1>4. CASE part = 1
  <2>1. /\ subject' = [head |-> ws.head, policy |-> p, extra |-> x, diff |-> d]
        /\ at' = "capture" /\ part' = 2
    <3>1. subject' = [subject EXCEPT !["head"] = ws.head]
      BY <1>4, PartRead, Zenon DEF Capture
    <3>2. at' = "capture" /\ part' = 2
      BY <1>1, <1>4, PartRead DEF Capture, NextPart
    <3> QED
      BY <1>3, <3>1, <3>2
  <2>2. ReadHead(subject', ws)
    BY <1>w, <2>1 DEF ReadHead
  <2>3. FirstReading'
    BY <1>1, <2>1, <2>2 DEF FirstReading
  <2> QED
    BY <1>1, <2>1, <2>3 DEF ReadingInvariant, InBetween, SecondReading
<1>5. CASE part = 2
  <2>1. /\ subject' = [head |-> h, policy |-> ws.policy, extra |-> x, diff |-> d]
        /\ at' = "capture" /\ part' = 3
    <3>1. subject' = [subject EXCEPT !["policy"] = ws.policy]
      BY <1>5, PartRead, Zenon DEF Capture
    <3>2. at' = "capture" /\ part' = 3
      BY <1>1, <1>5, PartRead DEF Capture, NextPart
    <3> QED
      BY <1>3, <3>1, <3>2
  <2>2. ReadHead(subject', ws) /\ ReadPolicy(subject', ws)
    BY <1>2, <1>3, <1>5, <1>w, <2>1 DEF ReadHead, ReadPolicy
  <2>3. FirstReading'
    BY <1>1, <2>1, <2>2 DEF FirstReading
  <2> QED
    BY <1>1, <2>1, <2>3 DEF ReadingInvariant, InBetween, SecondReading
<1>6. CASE part = 3
  <2>1. /\ subject' = [head |-> h, policy |-> p, extra |-> x, diff |-> Observe("diff", ws)]
        /\ at' = "capture" /\ part' = 4
    <3>1. subject' = [subject EXCEPT !["diff"] = Observe("diff", ws)]
      BY <1>6, PartRead, Zenon DEF Capture
    <3>2. at' = "capture" /\ part' = 4
      BY <1>1, <1>6, PartRead DEF Capture, NextPart
    <3> QED
      BY <1>3, <3>1, <3>2
  <2>2. ReadHead(subject', ws) /\ ReadPolicy(subject', ws)
    BY <1>2, <1>3, <1>6, <2>1 DEF ReadHead, ReadPolicy
  <2>3. ReadDiff(subject', ws)
    <3>1. Observe("diff", ws) = << >> \/ Observe("diff", ws) = <<ws.base, ws.work>>
      BY DEF Observe
    <3> QED
      BY <1>w, <2>1, <3>1 DEF ReadDiff
  <2>4. FirstReading'
    BY <1>1, <2>1, <2>2, <2>3 DEF FirstReading
  <2> QED
    BY <1>1, <2>1, <2>4 DEF ReadingInvariant, InBetween, SecondReading
<1>7. CASE part = 4
  <2>1. /\ subject' = [head |-> h, policy |-> p, extra |-> ws.extra, diff |-> d]
        /\ at' = "structural" /\ part' = 1
    BY <1>1, <1>3, <1>7, PartRead DEF Capture, NextPart
  <2>2. ReadHead(subject', ws) /\ ReadPolicy(subject', ws)
    BY <1>2, <1>3, <1>7, <2>1 DEF ReadHead, ReadPolicy
  <2>3. ReadDiff(subject', ws)
    <3>1. subject'.diff = subject.diff /\ ReadDiff(subject, ws)
      BY <1>2, <1>3, <1>7, <2>1
    <3> QED
      BY <3>1, Zenon DEF ReadDiff
  <2>4. subject'.extra = ws.extra /\ Before(ws, ws)
    BY <1>1, <2>1, BeforeItself
  <2>5. FirstReading' /\ SecondReading'
    BY <2>1 DEF FirstReading, SecondReading
  <2>6. InBetween'
    BY <1>1, <2>2, <2>3, <2>4 DEF InBetween
  <2> QED
    BY <2>1, <2>5, <2>6 DEF ReadingInvariant
<1> QED
  BY <1>1, <1>4, <1>5, <1>6, <1>7

\* A command runs over the workspace as it is, after the first reading.
LEMMA CommandKeepsReading ==
    ASSUME CheckTypeOK, WorkspaceOK, ReadingInvariant, Structural \/ Gate \/ Phase
    PROVE  ReadingInvariant'
<1>1. /\ at \in {"structural", "gates", "phases"} /\ at' \in {"gates", "phases", "prove"}
      /\ ws' = ws /\ began' = began /\ seen' = seen \cup {ws}
      /\ UNCHANGED <<part, subject, moved>>
  BY DEF Structural, Gate, Phase, Ran, Still
<1>2. part = 1 /\ ws \in Workspace
  BY <1>1 DEF ReadingInvariant, FirstReading, CheckTypeOK, TypeOK
<1>3. /\ ReadHead(subject, began) /\ ReadPolicy(subject, began) /\ ReadDiff(subject, began)
      /\ subject.extra = began.extra
      /\ Before(began, ws)
      /\ \A w \in seen : Before(began, w) /\ Before(w, ws)
  BY <1>1, Zenon DEF ReadingInvariant, InBetween
<1>4. \A w \in seen \cup {ws} : Before(began, w) /\ Before(w, ws)
  BY <1>2, <1>3, BeforeItself
<1>5. InBetween'
  BY <1>1, <1>3, <1>4 DEF InBetween
<1> QED
  BY <1>1, <1>2, <1>5 DEF ReadingInvariant, FirstReading, SecondReading

\* With the commit the first reading named there was no other since it began.
LEMMA NoCommitBetween ==
    ASSUME CheckTypeOK, InBetween, at = "prove", ws.head = subject.head,
           NEW w \in seen \cup {ws, began}
    PROVE  w.head = subject.head /\ w.base = ws.base /\ w.base = began.base
<1>a. began \in Workspace /\ w \in Workspace /\ ws \in Workspace /\ subject \in Subjects
  BY DEF CheckTypeOK, TypeOK
<1>1. /\ subject.head \in Nat /\ began.head \in Nat /\ w.head \in Nat /\ ws.head \in Nat
  BY <1>a DEF Subjects, Workspace, Version
<1>2. subject.head <= began.head /\ Before(began, w) /\ Before(w, ws)
  <2>1. ReadHead(subject, began) /\ Before(began, ws)
    BY Zenon DEF InBetween
  <2>2. w \in seen => Before(began, w) /\ Before(w, ws)
    BY Zenon DEF InBetween
  <2> QED
    BY <1>a, <1>1, <2>1, <2>2, BeforeItself DEF ReadHead
<1> QED
  BY <1>1, <1>2 DEF Before

\* The final reading of the policy finds it as it was, so it was never edited.
LEMMA PolicyUnmoved ==
    ASSUME CheckTypeOK, InBetween, at = "prove", ws.policy = subject.policy,
           NEW w \in seen \cup {began}
    PROVE  w.policy = subject.policy
<1>a. began \in Workspace /\ w \in Workspace /\ ws \in Workspace /\ subject \in Subjects
  BY DEF CheckTypeOK, TypeOK
<1>1. /\ subject.policy \in Nat /\ began.policy \in Nat /\ w.policy \in Nat /\ ws.policy \in Nat
  BY <1>a DEF Subjects, Workspace, Version
<1>2. subject.policy <= began.policy /\ Before(began, w) /\ Before(w, ws)
  <2>1. ReadPolicy(subject, began) /\ Before(began, ws)
    BY Zenon DEF InBetween
  <2>2. w \in seen => Before(began, w) /\ Before(w, ws)
    BY Zenon DEF InBetween
  <2> QED
    BY <1>a, <1>1, <2>1, <2>2, BeforeItself DEF ReadPolicy
<1> QED
  BY <1>1, <1>2 DEF Before

\* The final reading of the difference finds it as it was, and nothing was
\* committed: the worktree, which only grows, lay between what it was and is.
LEMMA WorktreeUnmoved ==
    ASSUME CheckTypeOK, WorkspaceOK, InBetween, at = "prove",
           Observe("diff", ws) = subject.diff, ws.head = subject.head,
           NEW w \in seen
    PROVE  w.work = began.work
<1>1. /\ began.work \in Nat /\ w.work \in Nat /\ ws.work \in Nat
      /\ began.base \in Nat /\ began.index \in Nat /\ ws.base \in Nat
  BY DEF CheckTypeOK, TypeOK, Workspace, Version
<1>2. began.work <= w.work /\ w.work <= ws.work
  <2>1. Before(began, w) /\ Before(w, ws)
    BY Zenon DEF InBetween
  <2> QED
    BY <2>1 DEF Before
<1>3. began.base <= began.index /\ began.index <= began.work
  BY DEF WorkspaceOK, Staged
<1>4. ws.base = began.base
  BY NoCommitBetween
<1>5. CASE ws.work = ws.base
  BY <1>1, <1>2, <1>3, <1>4, <1>5
<1>6. CASE ws.work # ws.base
  <2>1. subject.diff = <<ws.base, ws.work>>
    BY <1>6 DEF Observe
  <2>2. ReadDiff(subject, began)
    BY Zenon DEF InBetween
  <2>3. ws.work <= began.work
    BY <2>1, <2>2 DEF ReadDiff
  <2> QED
    BY <1>1, <1>2, <2>3
<1> QED
  BY <1>5, <1>6

\* A final reading that finds nothing moved saw the one tree of the check.
LEMMA ProvedOneTree ==
    ASSUME CheckTypeOK, InBetween, SecondReading, at = "prove", part = 4, ~moved,
           ws.extra = subject.extra, ws.head = subject.head
    PROVE  /\ \A w \in seen : SameTree(w, began)
           /\ subject.head = began.head /\ subject.policy = began.policy
<1>1. /\ \A w \in seen \cup {began} : w.policy = subject.policy
      /\ \A w \in seen : w.work = began.work
  BY DEF SecondReading
<1>2. subject.head = began.head
  BY NoCommitBetween
<1>3. ASSUME NEW w \in seen
      PROVE  SameTree(w, began)
  <2>1. w.head = began.head /\ w.base = began.base
    BY <1>2, NoCommitBetween
  <2>2. w.policy = began.policy /\ w.work = began.work
    BY <1>1
  <2>3. w.extra = began.extra
    <3>1. began.extra <= w.extra /\ w.extra <= ws.extra /\ ws.extra = began.extra
      <4>1. Before(began, w) /\ Before(w, ws) /\ subject.extra = began.extra
        BY Zenon DEF InBetween
      <4> QED
        BY <4>1 DEF Before
    <3>2. began.extra \in Nat /\ w.extra \in Nat
      BY DEF CheckTypeOK, TypeOK, Workspace, Version
    <3> QED
      BY <3>1, <3>2
  <2>4. w \in Workspace /\ began \in Workspace
    BY DEF CheckTypeOK, TypeOK
  <2> QED
    BY <2>1, <2>2, <2>3, <2>4 DEF SameTree, Workspace
<1> QED
  BY <1>1, <1>2, <1>3

\* What a part of the final reading did not find changed, did not change; the
\* last part enters the result of all of them in the ledger.
LEMMA ProveKeepsReading ==
    ASSUME CheckTypeOK, WorkspaceOK, ReadingInvariant, Prove
    PROVE  ReadingInvariant'
<1>1. /\ at = "prove" /\ UNCHANGED <<ws, subject, began, seen>> /\ proved' = ws
      /\ moved' = (moved \/ Observe(Parts[part], ws) # subject[Parts[part]])
      /\ part \in 1..4
  BY PartRead DEF Prove, Still
<1>2. InBetween /\ SecondReading /\ InBetween'
  <2>1. InBetween /\ SecondReading
    BY DEF ReadingInvariant
  <2>2. /\ ReadHead(subject, began) /\ ReadPolicy(subject, began) /\ ReadDiff(subject, began)
        /\ subject.extra = began.extra
        /\ Before(began, ws)
        /\ \A w \in seen : Before(began, w) /\ Before(w, ws)
    BY <1>1, <2>1, Zenon DEF InBetween
  <2> QED
    BY <1>1, <2>1, <2>2 DEF InBetween
<1>3. /\ part = 2 /\ ~moved' => ws.policy = subject.policy
      /\ part = 3 /\ ~moved' => Observe("diff", ws) = subject.diff
      /\ part = 4 /\ ~moved' => ws.extra = subject.extra
      /\ ~moved' => ~moved
  BY <1>1, PartRead, Zenon
<1>4. CASE part \in 1..3
  <2>1. at' = "prove" /\ part' = part + 1
    BY <1>1, <1>4, PartRead DEF Prove, NextPart
  <2>2. ASSUME ~moved', part \in 2..3, NEW w \in seen \cup {began}
        PROVE  w.policy = subject.policy
    <3>1. CASE part = 2
      BY <1>1, <1>2, <1>3, <2>2, <3>1, PolicyUnmoved, Zenon
    <3>2. CASE part = 3
      BY <1>1, <1>2, <1>3, <2>2, <3>2 DEF SecondReading
    <3> QED
      BY <2>2, <3>1, <3>2
  <2>3. ASSUME ~moved', part = 3, ws.head = subject.head, NEW w \in seen
        PROVE  w.work = began.work
    BY <1>1, <1>2, <1>3, <2>3, WorktreeUnmoved, Zenon
  <2>4. SecondReading'
    BY <1>1, <1>4, <2>1, <2>2, <2>3 DEF SecondReading
  <2> QED
    BY <1>2, <2>1, <2>4 DEF ReadingInvariant, FirstReading
<1>5. CASE part = 4
  <2>1. at' = "json"
    BY <1>1, <1>5, PartRead DEF Prove, NextPart
  <2>2. ledger' = ledger \cup {[blocking |-> TRUE,
                                class |-> IF moved' THEN "infrastructure" ELSE "pass"]}
    BY <1>5, PartRead DEF Prove, Add
  <2>3. moved' => Blocking("infrastructure")'
    BY <2>2 DEF Blocking
  <2>4. ~moved' => OneTree'
    <3>1. ASSUME ~moved', ws.head = subject.head
          PROVE  /\ \A w \in seen : SameTree(w, began)
                 /\ subject.head = began.head /\ subject.policy = began.policy
      BY <1>1, <1>2, <1>3, <1>5, <3>1, ProvedOneTree, Zenon
    <3> QED
      BY <1>1, <3>1 DEF OneTree, SameTree
  <2> QED
    BY <1>2, <2>1, <2>3, <2>4 DEF ReadingInvariant, FirstReading, SecondReading, Read
<1> QED
  BY <1>1, <1>4, <1>5

\* No other step touches what was read or what was run in between.
LEMMA ReadingStep ==
    ASSUME CheckTypeOK, WorkspaceOK, ReadingInvariant, [Next]_vars
    PROVE  ReadingInvariant'
<1>1. CASE Begin
  BY <1>1 DEF Begin, ReadingInvariant, FirstReading, InBetween, SecondReading
<1>2. CASE ResolveChanges
  <2>1. part = 1 /\ seen = {}
    BY <1>2 DEF ResolveChanges, ReadingInvariant, FirstReading
  <2> QED
    BY <1>2, <2>1
    DEF ResolveChanges, history, ReadingInvariant, FirstReading, InBetween, SecondReading
<1>3. CASE StartPhases
  <2>1. part = 1 /\ InBetween
    BY <1>3 DEF StartPhases, ReadingInvariant, FirstReading
  <2>2. at = "gates" /\ at' = "phases" /\ UNCHANGED <<ws, part, subject, began, seen>>
    BY <1>3 DEF StartPhases, Still, history
  <2>3. InBetween'
    BY <2>1, <2>2 DEF InBetween, ReadHead, ReadPolicy, ReadDiff, Before
  <2> QED
    BY <2>1, <2>2, <2>3 DEF ReadingInvariant, FirstReading, SecondReading
<1>4. CASE WriteJson
  <2>1. at = "json" /\ at' = "markdown" /\ UNCHANGED <<subject, ledger, moved, began, proved, seen>>
    BY <1>4 DEF WriteJson, history
  <2>2. Read'
    BY <2>1 DEF ReadingInvariant, Read, OneTree, Blocking, SameTree
  <2> QED
    BY <2>1, <2>2 DEF ReadingInvariant, FirstReading, InBetween, SecondReading
<1>5. CASE WriteMarkdown \/ Escape \/ Kill
  <2>1. at' \in {"exited", "killed"}
    BY <1>5 DEF WriteMarkdown, Escape, Kill
  <2> QED
    BY <2>1 DEF ReadingInvariant, FirstReading, InBetween, SecondReading
<1>6. CASE UNCHANGED vars
  BY <1>6 DEF vars, history, ReadingInvariant, FirstReading, InBetween, SecondReading, Read,
     OneTree, Blocking, SameTree, ReadHead, ReadPolicy, ReadDiff, Before
<1> QED
  BY <1>1, <1>2, <1>3, <1>4, <1>5, <1>6, EditKeepsReading, CaptureKeepsReading,
     CommandKeepsReading, ProveKeepsReading DEF Next

-----------------------------------------------------------------------------
(* The reports, and the theorems.                                          *)

LEMMA ReportStep ==
    ASSUME CheckInvariant, [Next]_vars
    PROVE  ReportInvariant'
<1>1. /\ run \in Nat /\ run' \in Nat /\ markdown.run \in Nat
      /\ ReportInvariant /\ ReadingInvariant
  <2>1. CheckTypeOK'
    BY TypeStep DEF CheckInvariant
  <2> QED
    BY <2>1, BoundAssumption DEF CheckInvariant, CheckTypeOK, TypeOK, Report
<1>2. CASE UNCHANGED <<run, at, subject, ledger, moved, json, markdown, exit,
                       began, proved, seen>>
  <2>1. /\ Evidence' = Evidence /\ Overall' = Overall /\ Read' = Read
    BY <1>2 DEF Evidence, Overall, Read, OneTree, Blocking, SameTree
  <2> QED
    BY <1>1, <1>2, <2>1 DEF ReportInvariant
<1>3. CASE Begin
  <2>1. run' = run + 1 /\ at' = "resolve" /\ markdown' = markdown
    BY <1>3 DEF Begin, reports
  <2> QED
    BY <1>1, <2>1 DEF ReportInvariant, Busy
<1>4. CASE /\ at \in Busy \ {"json", "markdown"} /\ at' \in Busy \ {"markdown"}
           /\ UNCHANGED <<run, reports>>
  BY <1>1, <1>4 DEF ReportInvariant, reports, Busy
<1>5. CASE ResolveChanges \/ Capture \/ Structural \/ Gate \/ StartPhases \/ Phase \/ Prove
  BY <1>4, <1>5 DEF ResolveChanges, Capture, Structural, Gate, StartPhases, Phase, Prove,
     NextPart, Still, Busy
<1>6. CASE WriteJson
  <2>1. /\ at = "json" /\ at' = "markdown" /\ json' = Evidence
        /\ UNCHANGED <<run, subject, ledger, markdown>>
    BY <1>6 DEF WriteJson, Still
  <2>2. Evidence' = Evidence
    BY <2>1 DEF Evidence, Overall, Blocking
  <2> QED
    BY <1>1, <2>1, <2>2 DEF ReportInvariant, Busy
<1>7. CASE WriteMarkdown
  <2>1. /\ at = "markdown" /\ at' = "exited" /\ markdown' = Evidence /\ exit' = Overall
        /\ UNCHANGED <<run, subject, ledger, moved, json, began, proved, seen>>
    BY <1>7 DEF WriteMarkdown, Still, history
  <2>2. Evidence' = Evidence /\ Overall' = Overall /\ Read' = Read
    BY <2>1 DEF Evidence, Overall, Read, OneTree, Blocking, SameTree
  <2>3. json = Evidence /\ Read
    BY <1>1, <2>1 DEF ReportInvariant, ReadingInvariant
  <2>4. markdown'.run = run
    BY <2>1 DEF Evidence
  <2> QED
    BY <1>1, <2>1, <2>2, <2>3, <2>4 DEF ReportInvariant, Busy
<1>8. CASE Escape \/ Kill
  <2>1. /\ at \in Busy /\ UNCHANGED <<run, reports>>
        /\ at' = "killed" \/ (at' = "exited" /\ exit' # 0)
    BY <1>8 DEF Escape, Kill, Still
  <2>2. markdown'.run < run'
    BY <1>1, <2>1 DEF ReportInvariant, reports
  <2> QED
    BY <1>1, <2>1, <2>2 DEF ReportInvariant, reports, Busy
<1>9. CASE Edit \/ UNCHANGED vars
  BY <1>2, <1>9 DEF Edit, vars, reports, history
<1> QED
  BY <1>3, <1>5, <1>6, <1>7, <1>8, <1>9 DEF Next

\* Whatever happens to the workspace and to the check, the readings enclose
\* what ran and the reports tell it.
THEOREM CheckInvariantHolds == Spec => []CheckInvariant
<1>1. Init => CheckInvariant
  <2> SUFFICES ASSUME Init PROVE CheckInvariant
    OBVIOUS
  <2>1. CheckTypeOK
    <3>1. 0 \in Version /\ 0 \in 0..Runs /\ << >> \in Seq(BOOLEAN) /\ 1 \in DOMAIN Parts
      BY BoundAssumption DEF Version, Parts
    <3>2. subject \in Subjects
      BY <3>1 DEF Init, NoSubject, Subjects
    <3>3. {subject.head, subject.policy, subject.extra} \subseteq Version
      BY <3>2 DEF Subjects
    <3> QED
      BY <3>1, <3>2, <3>3, OriginalIsWorkspace DEF Init, CheckTypeOK, TypeOK
  <2>2. WorkspaceOK
    BY DEF Init, Original, WorkspaceOK, Numbered, Staged
  <2>3. ReadingInvariant /\ ReportInvariant
    BY DEF Init, ReadingInvariant, FirstReading, InBetween, SecondReading,
       ReportInvariant, NoReport, Busy
  <2> QED
    BY <2>1, <2>2, <2>3 DEF CheckInvariant
<1>2. CheckInvariant /\ [Next]_vars => CheckInvariant'
  BY TypeStep, ReadingStep, ReportStep DEF CheckInvariant
<1> QED
  BY <1>1, <1>2, PTL DEF Spec

\* A check that passes ran every gate and every phase over one tree, the one
\* its report names, as long as nobody commits during the final reading.
THEOREM PassMeansOneTreeUnlessCommittedHolds == Spec => []PassMeansOneTreeUnlessCommitted
<1>1. CheckInvariant => PassMeansOneTreeUnlessCommitted
  <2> SUFFICES ASSUME CheckInvariant, Exited(0), proved.head = json.head
               PROVE  /\ \A w \in seen : SameTree(w, began)
                      /\ json.head = began.head /\ json.policy = began.policy
    BY DEF PassMeansOneTreeUnlessCommitted
  <2>1. json = Evidence /\ exit = Overall /\ exit = 0 /\ Read
    BY DEF CheckInvariant, ReportInvariant, Exited
  <2>2. ~Blocking("infrastructure")
    BY <2>1 DEF Overall
  <2>3. OneTree
    BY <2>1, <2>2 DEF Read
  <2>4. json.head = subject.head /\ json.policy = subject.policy
    BY <2>1 DEF Evidence
  <2> QED
    BY <2>3, <2>4, Zenon DEF OneTree
<1> QED
  BY <1>1, CheckInvariantHolds, PTL

\* The verdict of a reported check is what its results say: all blocking ones
\* passed, or something found a defect and nothing failed otherwise.
THEOREM VerdictsMeanHolds == Spec => []VerdictsMean
<1>1. CheckInvariant => VerdictsMean
  <2> SUFFICES ASSUME CheckInvariant, Reported
               PROVE  /\ exit = 0 => ~moved /\ \A r \in ledger : r.blocking => r.class = "pass"
                      /\ exit = 1 => /\ Blocking("finding")
                                     /\ ~Blocking("infrastructure") /\ ~moved
    BY DEF VerdictsMean
  <2>1. exit = Overall /\ Read /\ ledger \subseteq Result
    BY DEF CheckInvariant, ReportInvariant, CheckTypeOK, TypeOK, Reported
  <2>2. moved => exit = 2
    BY <2>1 DEF Read, Overall
  <2>3. exit = 0 => ~Blocking("infrastructure") /\ ~Blocking("finding")
    BY <2>1 DEF Overall
  <2>4. ASSUME exit = 0, NEW r \in ledger, r.blocking
        PROVE  r.class = "pass"
    <3>1. PICK blocking \in BOOLEAN, class \in {"pass", "finding", "infrastructure"} :
            r = [blocking |-> blocking, class |-> class]
      BY <2>1, <2>4 DEF Result
    <3>2. r = [blocking |-> TRUE, class |-> class]
      BY <2>4, <3>1
    <3> QED
      BY <2>3, <2>4, <3>2 DEF Blocking
  <2>5. exit = 1 => Blocking("finding") /\ ~Blocking("infrastructure")
    BY <2>1 DEF Overall
  <2> QED
    BY <2>2, <2>4, <2>5
<1> QED
  BY <1>1, CheckInvariantHolds, PTL

\* A check that passes leaves both reports of this very run, saying so.
THEOREM PassIsReportedHolds == Spec => []PassIsReported
<1>1. CheckInvariant => PassIsReported
  <2> SUFFICES ASSUME CheckInvariant, Exited(0)
               PROVE  json = markdown /\ json.run = run /\ json.exit = 0
    BY DEF PassIsReported
  <2>1. json = Evidence /\ markdown = Evidence /\ exit = Overall /\ exit = 0
    BY DEF CheckInvariant, ReportInvariant, Exited
  <2> QED
    BY <2>1 DEF Evidence
<1> QED
  BY <1>1, CheckInvariantHolds, PTL
=============================================================================

--------------------------- MODULE RepoToolProofs ---------------------------
(***************************************************************************)
(* Proofs about the two parts of l9_repo that stand alone: the lock of     *)
(* locking.py (SingleFlight) and the judgement of Repo.mk in contract.py   *)
(* (RepoMk).                                                               *)
(*                                                                         *)
(* Type correctness of the lock and the absence of leaks need no           *)
(* assumption.  Mutual exclusion is proved twice: under Prompt and         *)
(* SerialRecovery, without which the run lock_overlap refutes it, and      *)
(* without them while no lock outlives stale_after.                        *)
(***************************************************************************)
EXTENDS SingleFlight, RepoMk, SequenceTheorems, TLAPS

(* Every step keeps every variable within its type.                        *)
LEMMA TypeStep == TypeOK /\ [Next]_vars => TypeOK'
<1> SUFFICES ASSUME TypeOK, [Next]_vars PROVE TypeOK'
  OBVIOUS
<1> USE DEF TypeOK, Goto, lock, local, Stages, Running, Recovering, Held, Body
<1>1. ASSUME NEW p \in Proc, Start(p) PROVE TypeOK'
  BY <1>1 DEF Start
<1>2. ASSUME NEW p \in Proc, Mkdir(p) PROVE TypeOK'
  BY <1>2 DEF Mkdir, MakeDir
<1>3. ASSUME NEW p \in Proc, Stat(p) PROVE TypeOK'
  BY <1>3 DEF Stat, GiveUp
<1>4. ASSUME NEW p \in Proc, List(p) PROVE TypeOK'
  BY <1>4 DEF List, GiveUp
<1>5. ASSUME NEW p \in Proc, Inspect(p) PROVE TypeOK'
  BY <1>5 DEF Inspect, GiveUp
<1>6. ASSUME NEW p \in Proc, Probe(p) PROVE TypeOK'
  BY <1>6 DEF Probe
<1>7. ASSUME NEW p \in Proc, Signal(p) PROVE TypeOK'
  BY <1>7 DEF Signal, GiveUp
<1>8. ASSUME NEW p \in Proc, Unlink(p) PROVE TypeOK'
  BY <1>8 DEF Unlink, UnlinkOwner
<1>9. ASSUME NEW p \in Proc, Rmdir(p) PROVE TypeOK'
  BY <1>9 DEF Rmdir, RemoveDir, GiveUp
<1>10. ASSUME NEW p \in Proc, Remkdir(p) PROVE TypeOK'
  BY <1>10 DEF Remkdir, MakeDir, GiveUp
<1>11. ASSUME NEW p \in Proc, Open(p) PROVE TypeOK'
  BY <1>11 DEF Open
<1>12. ASSUME NEW p \in Proc, Write(p) PROVE TypeOK'
  BY <1>12 DEF Write
<1>13. ASSUME NEW p \in Proc, Load(p) PROVE TypeOK'
  BY <1>13 DEF Load
<1>14. ASSUME NEW p \in Proc, Truncate(p) PROVE TypeOK'
  BY <1>14 DEF Truncate
<1>15. ASSUME NEW p \in Proc, Fill(p) PROVE TypeOK'
  BY <1>15 DEF Fill
<1>16. ASSUME NEW p \in Proc, Unmark(p) PROVE TypeOK'
  BY <1>16 DEF Unmark, UnlinkOwner
<1>17. ASSUME NEW p \in Proc, Close(p) PROVE TypeOK'
  BY <1>17 DEF Close, RemoveDir
<1>18. ASSUME NEW p \in Proc, Crash(p) PROVE TypeOK'
  BY <1>18 DEF Crash
<1>19. ASSUME NEW p \in Proc, Reassign(p) PROVE TypeOK'
  BY <1>19 DEF Reassign
<1>20. CASE Age
  BY <1>20 DEF Age
<1>21. CASE Stray
  BY <1>21 DEF Stray
<1>22. CASE Edit
  BY <1>22 DEF Edit
<1>23. CASE UNCHANGED vars
  BY <1>23 DEF vars
<1> QED
  BY <1>1, <1>2, <1>3, <1>4, <1>5, <1>6, <1>7, <1>8, <1>9, <1>10, <1>11,
     <1>12, <1>13, <1>14, <1>15, <1>16, <1>17, <1>18, <1>19, <1>20, <1>21,
     <1>22, <1>23 DEF Next, Step

(* Type correctness of the lock and of the processes that contend for it,  *)
(* whatever the environment does.                                          *)
THEOREM TypeCorrect == Spec => []TypeOK
<1>1. Init => TypeOK
  BY DEF Init, TypeOK, Stages
<1> QED
  BY <1>1, TypeStep, PTL DEF Spec

-----------------------------------------------------------------------------
(* Serial recovery: the invariant of the run lock_serial.                  *)

(* A holder in the body and a process that dismantles the lock exclude     *)
(* each other's next steps, so every step keeps the lock invariant.        *)
LEMMA LockStep ==
  ASSUME Prompt, SerialRecovery, TypeOK, LockInvariant, [Next]_vars
  PROVE  LockInvariant'
<1> USE ProcAssumption DEF TypeOK, LockInvariant, HolderAlone,
      HolderHasDirectory, HolderMarks, AgedMarked, RecovererAlone,
      RecovererJustified, Holders, Held, Body, Recovering, Goto, lock, local
<1>1. ASSUME NEW p \in Proc, Start(p) PROVE LockInvariant'
  BY <1>1 DEF Start
<1>2. ASSUME NEW p \in Proc, Mkdir(p) PROVE LockInvariant'
  BY <1>2 DEF Mkdir, MakeDir
<1>3. ASSUME NEW p \in Proc, Stat(p) PROVE LockInvariant'
  BY <1>3 DEF Stat, GiveUp, MayRecover
<1>4. ASSUME NEW p \in Proc, List(p) PROVE LockInvariant'
  BY <1>4 DEF List, GiveUp
<1>5. ASSUME NEW p \in Proc, Inspect(p) PROVE LockInvariant'
  BY <1>5 DEF Inspect, GiveUp
<1>6. ASSUME NEW p \in Proc, Probe(p) PROVE LockInvariant'
  BY <1>6 DEF Probe
<1>7. ASSUME NEW p \in Proc, Signal(p) PROVE LockInvariant'
  BY <1>7 DEF Signal, GiveUp, Alive, Running
<1>8. ASSUME NEW p \in Proc, Unlink(p) PROVE LockInvariant'
  BY <1>8 DEF Unlink, UnlinkOwner
<1>9. ASSUME NEW p \in Proc, Rmdir(p) PROVE LockInvariant'
  BY <1>9 DEF Rmdir, RemoveDir, GiveUp
<1>10. ASSUME NEW p \in Proc, Remkdir(p) PROVE LockInvariant'
  BY <1>10 DEF Remkdir, MakeDir, GiveUp
<1>11. ASSUME NEW p \in Proc, Open(p) PROVE LockInvariant'
  BY <1>11 DEF Open
<1>12. ASSUME NEW p \in Proc, Write(p) PROVE LockInvariant'
  BY <1>12 DEF Write
<1>13. ASSUME NEW p \in Proc, Load(p) PROVE LockInvariant'
  BY <1>13 DEF Load, MayLeave
<1>14. ASSUME NEW p \in Proc, Truncate(p) PROVE LockInvariant'
  BY <1>14 DEF Truncate
<1>15. ASSUME NEW p \in Proc, Fill(p) PROVE LockInvariant'
  BY <1>15 DEF Fill, MayLeave
<1>16. ASSUME NEW p \in Proc, Unmark(p) PROVE LockInvariant'
  <2>1. owner = p /\ dir /\ \A q \in Proc : pc[q] \in Held => q = p
    BY <1>16 DEF Unmark
  <2>2. \A q \in Proc : pc[q] \notin Recovering
    BY <1>16, <2>1 DEF Unmark
  <2>3. ~aged' /\ dir' = dir
    BY <1>16, <2>1 DEF Unmark, UnlinkOwner
  <2>4. \A q \in Proc : pc'[q] = IF q = p THEN "close" ELSE pc[q]
    BY <1>16 DEF Unmark
  <2> QED
    BY <2>1, <2>2, <2>3, <2>4
<1>17. ASSUME NEW p \in Proc, Close(p) PROVE LockInvariant'
  BY <1>17 DEF Close, RemoveDir
<1>18. ASSUME NEW p \in Proc, Crash(p) PROVE LockInvariant'
  BY <1>18 DEF Crash
<1>19. ASSUME NEW p \in Proc, Reassign(p) PROVE LockInvariant'
  BY <1>19 DEF Reassign
<1>20. CASE Age
  BY <1>20 DEF Age, Unmarked
<1>21. CASE Stray
  BY <1>21 DEF Stray
<1>22. CASE Edit
  BY <1>22 DEF Edit
<1>23. CASE UNCHANGED vars
  BY <1>23 DEF vars
<1> QED
  BY <1>1, <1>2, <1>3, <1>4, <1>5, <1>6, <1>7, <1>8, <1>9, <1>10, <1>11,
     <1>12, <1>13, <1>14, <1>15, <1>16, <1>17, <1>18, <1>19, <1>20, <1>21,
     <1>22, <1>23 DEF Next, Step

(* Under the two assumptions of that run a holder is alone, has the        *)
(* directory and marks it, for any number of processes.                    *)
LEMMA LockInvariantHolds ==
  ASSUME Prompt, SerialRecovery
  PROVE  Spec => [](LockInvariant /\ MutualExclusion /\ OwnerNamesHolder)
<1>1. Init => LockInvariant
  BY DEF Init, LockInvariant, HolderAlone, HolderHasDirectory, HolderMarks,
         AgedMarked, RecovererAlone, RecovererJustified, Holders, Held, Body,
         Recovering
<1>2. TypeOK /\ LockInvariant /\ [Next]_vars => LockInvariant'
  BY LockStep
<1>3. LockInvariant => MutualExclusion /\ OwnerNamesHolder
  BY DEF LockInvariant, HolderAlone, HolderHasDirectory, HolderMarks, MutualExclusion,
         OwnerNamesHolder, Inside, Holders, Held, Body
<1> QED
  BY <1>1, <1>2, <1>3, TypeCorrect, PTL DEF Spec

-----------------------------------------------------------------------------
(* Leaks.                                                                  *)

(* While nobody was killed and nothing strayed in, the directory has a     *)
(* holder, and an owner file one that has yet to remove it.                *)
NoLeak ==
  ~interfered =>
    /\ ~foreign
    /\ dir => Holders # {}
    /\ owner # Nobody => \E p \in Proc : pc[p] \in {"write", "unmark"} \cup Body

(* A directory that cannot be removed on closing has another holder's mark *)
(* in it.                                                                  *)
LEMMA NoLeakStep ==
  ASSUME TypeOK, NoLeak, [Next]_vars
  PROVE  NoLeak'
<1> USE ProcAssumption DEF TypeOK, NoLeak, Holders, Held, Body, Goto, lock, local
<1>1. ASSUME NEW p \in Proc, Start(p) PROVE NoLeak'
  BY <1>1 DEF Start
<1>2. ASSUME NEW p \in Proc, Mkdir(p) PROVE NoLeak'
  BY <1>2 DEF Mkdir, MakeDir
<1>3. ASSUME NEW p \in Proc, Stat(p) \/ List(p) \/ Inspect(p) \/ Probe(p) \/ Signal(p)
      PROVE  NoLeak'
  BY <1>3 DEF Stat, List, Inspect, Probe, Signal, GiveUp
<1>4. ASSUME NEW p \in Proc, Unlink(p) PROVE NoLeak'
  BY <1>4 DEF Unlink, UnlinkOwner
<1>5. ASSUME NEW p \in Proc, Rmdir(p) PROVE NoLeak'
  BY <1>5 DEF Rmdir, RemoveDir, GiveUp
<1>6. ASSUME NEW p \in Proc, Remkdir(p) PROVE NoLeak'
  BY <1>6 DEF Remkdir, MakeDir, GiveUp
<1>7. ASSUME NEW p \in Proc, Open(p) PROVE NoLeak'
  BY <1>7 DEF Open
<1>8. ASSUME NEW p \in Proc, Write(p) PROVE NoLeak'
  BY <1>8 DEF Write
<1>9. ASSUME NEW p \in Proc, Load(p) \/ Truncate(p) \/ Fill(p) PROVE NoLeak'
  BY <1>9 DEF Load, Truncate, Fill
<1>10. ASSUME NEW p \in Proc, Unmark(p) PROVE NoLeak'
  BY <1>10 DEF Unmark, UnlinkOwner
<1>11. ASSUME NEW p \in Proc, Close(p) PROVE NoLeak'
  <2>1. pc[p] = "close" /\ \A q \in Proc \ {p} : pc'[q] = pc[q]
    BY <1>11 DEF Close
  <2>2. CASE owner = Nobody /\ ~interfered
    <3>1. ~dir' /\ ~foreign' /\ owner' = Nobody
      BY <1>11, <2>2 DEF Close, Removable, RemoveDir
    <3> QED
      BY <3>1
  <2>3. CASE owner # Nobody /\ ~interfered
    <3>1. PICK q \in Proc : pc[q] \in {"write", "unmark"} \cup Body
      BY <2>3
    <3>2. q # p /\ pc'[q] = pc[q]
      BY <2>1, <3>1
    <3>3. ~foreign'
      BY <1>11, <2>3 DEF Close, RemoveDir
    <3> QED
      BY <3>1, <3>2, <3>3
  <2>4. CASE interfered
    BY <1>11, <2>4 DEF Close
  <2> QED
    BY <2>2, <2>3, <2>4
<1>12. ASSUME NEW p \in Proc, Crash(p) PROVE NoLeak'
  BY <1>12 DEF Crash
<1>13. ASSUME NEW p \in Proc, Reassign(p) PROVE NoLeak'
  BY <1>13 DEF Reassign
<1>14. CASE Age \/ Stray \/ Edit \/ UNCHANGED vars
  BY <1>14 DEF Age, Stray, Edit, vars
<1> QED
  BY <1>1, <1>2, <1>3, <1>4, <1>5, <1>6, <1>7, <1>8, <1>9, <1>10, <1>11, <1>12, <1>13, <1>14
  DEF Next, Step

(* The lock does not leak: unless a process was killed or a stray file     *)
(* came in the way, the directory exists only while someone holds it, even *)
(* when dismantlings overlap.                                              *)
THEOREM NoLeakWithoutInterferenceHolds == Spec => []NoLeakWithoutInterference
<1>1. Init => NoLeak
  BY DEF Init, NoLeak
<1>2. TypeOK /\ NoLeak /\ [Next]_vars => NoLeak'
  BY NoLeakStep
<1>3. NoLeak => NoLeakWithoutInterference
  BY DEF NoLeak, NoLeakWithoutInterference
<1> QED
  BY <1>1, <1>2, <1>3, TypeCorrect, PTL DEF Spec

-----------------------------------------------------------------------------
(* Fresh locks.                                                            *)

(* While no lock outlives stale_after, nobody dismantles one: a holder is  *)
(* alone, has the directory and has marked it.                             *)
Fresh ==
  /\ \A p \in Proc : pc[p] \notin Recovering \cup {"remkdir"}
  /\ HolderAlone /\ HolderHasDirectory /\ HolderMarks

LEMMA FreshStep ==
  ASSUME TypeOK, Fresh, ~aged, [Next]_vars
  PROVE  Fresh'
<1> USE ProcAssumption DEF TypeOK, Fresh, HolderAlone, HolderHasDirectory, HolderMarks,
      Holders, Held, Body, Recovering, Goto, lock, local
<1>1. ASSUME NEW p \in Proc, Start(p) PROVE Fresh'
  BY <1>1 DEF Start
<1>2. ASSUME NEW p \in Proc, Mkdir(p) PROVE Fresh'
  BY <1>2 DEF Mkdir, MakeDir
<1>3. ASSUME NEW p \in Proc, Stat(p) PROVE Fresh'
  BY <1>3 DEF Stat, GiveUp
<1>4. ASSUME NEW p \in Proc,
             \/ List(p) \/ Inspect(p) \/ Probe(p) \/ Signal(p)
             \/ Unlink(p) \/ Rmdir(p) \/ Remkdir(p)
      PROVE  Fresh'
  BY <1>4 DEF List, Inspect, Probe, Signal, Unlink, Rmdir, Remkdir
<1>5. ASSUME NEW p \in Proc, Open(p) PROVE Fresh'
  BY <1>5 DEF Open
<1>6. ASSUME NEW p \in Proc, Write(p) PROVE Fresh'
  BY <1>6 DEF Write
<1>7. ASSUME NEW p \in Proc, Load(p) PROVE Fresh'
  BY <1>7 DEF Load
<1>8. ASSUME NEW p \in Proc, Truncate(p) \/ Fill(p) PROVE Fresh'
  BY <1>8 DEF Truncate, Fill
<1>9. ASSUME NEW p \in Proc, Unmark(p) PROVE Fresh'
  BY <1>9 DEF Unmark, UnlinkOwner
<1>10. ASSUME NEW p \in Proc, Close(p) PROVE Fresh'
  BY <1>10 DEF Close, RemoveDir
<1>11. ASSUME NEW p \in Proc, Crash(p) PROVE Fresh'
  BY <1>11 DEF Crash
<1>12. ASSUME NEW p \in Proc, Reassign(p) PROVE Fresh'
  BY <1>12 DEF Reassign
<1>13. CASE Age \/ Stray \/ Edit \/ UNCHANGED vars
  BY <1>13 DEF Age, Stray, Edit, vars
<1> QED
  BY <1>1, <1>2, <1>3, <1>4, <1>5, <1>6, <1>7, <1>8, <1>9, <1>10, <1>11, <1>12, <1>13
  DEF Next, Step

LEMMA FreshHolds == Spec /\ []~aged => []Fresh
<1>1. Init => Fresh
  BY DEF Init, Fresh, HolderAlone, HolderHasDirectory, HolderMarks, Holders,
         Held, Body, Recovering
<1>2. TypeOK /\ Fresh /\ ~aged /\ [Next]_vars => Fresh'
  BY FreshStep
<1> QED
  BY <1>1, <1>2, TypeCorrect, PTL DEF Spec

(* `Single-flight locking guards reconcile', whatever the flags say: in a  *)
(* behaviour in which no lock outlives stale_after, for any processes,     *)
(* kills, reused pids and stray files, one process at a time is in the     *)
(* body.                                                                   *)
THEOREM ExclusionUnlessStale == Spec /\ []~aged => []MutualExclusion
<1>1. Fresh => MutualExclusion
  BY DEF Fresh, HolderAlone, MutualExclusion, Inside, Holders, Held, Body
<1> QED
  BY <1>1, FreshHolds, PTL

(* In the same behaviours the owner file names the process in the body: a  *)
(* contender's kill(pid, 0) would ask about the right one.                 *)
THEOREM OwnerNamesHolderUnlessStale == Spec /\ []~aged => []OwnerNamesHolder
<1>1. Fresh => OwnerNamesHolder
  BY DEF Fresh, HolderHasDirectory, HolderMarks, OwnerNamesHolder, Inside,
         Holders, Held, Body
<1> QED
  BY <1>1, FreshHolds, PTL

-----------------------------------------------------------------------------
(* The lock implements its promise.                                        *)

(* Alone in the body, a process finds the file as it left it; a success    *)
(* it is about to report is not undone by another writer.                  *)
LEMMA FileStep ==
  ASSUME TypeOK, HolderAlone, BodyKnowsFile, SuccessMeansCurrent,
         [Next]_vars
  PROVE  BodyKnowsFile' /\ SuccessMeansCurrent'
<1> DEFINE File == BodyKnowsFile /\ SuccessMeansCurrent
<1> SUFFICES File'
  OBVIOUS
<1> USE DEF TypeOK, BodyKnowsFile, SuccessMeansCurrent, Goto, lock, local
<1>1. \A p, q \in Proc : pc[p] \in Held /\ pc[q] \in Held => p = q
  BY DEF HolderAlone, Holders
<1>2. ASSUME NEW p \in Proc, Start(p) PROVE File'
  BY <1>2 DEF Start
<1>3. ASSUME NEW p \in Proc,
             \/ Mkdir(p) \/ Stat(p) \/ List(p) \/ Inspect(p)
             \/ Probe(p) \/ Signal(p) \/ Unlink(p) \/ Rmdir(p)
             \/ Remkdir(p) \/ Write(p) \/ Unmark(p) \/ Close(p)
      PROVE File'
  BY <1>3 DEF Mkdir, Stat, List, Inspect, Probe, Signal, Unlink, Rmdir,
              Remkdir, Write, Unmark, Close, GiveUp
<1>4. ASSUME NEW p \in Proc, Open(p) PROVE File'
  BY <1>4 DEF Open
<1>5. ASSUME NEW p \in Proc, Load(p) PROVE File'
  BY <1>5 DEF Load
<1>6. ASSUME NEW p \in Proc, Truncate(p) PROVE File'
  BY <1>1, <1>6 DEF Truncate, Held, Body
<1>7. ASSUME NEW p \in Proc, Fill(p) PROVE File'
  BY <1>1, <1>7 DEF Fill, Held, Body
<1>8. ASSUME NEW p \in Proc, Crash(p) \/ Reassign(p) PROVE File'
  BY <1>8 DEF Crash, Reassign
<1>9. CASE Age \/ Stray \/ UNCHANGED vars
  BY <1>9 DEF Age, Stray, vars
<1>10. CASE Edit
  BY <1>10 DEF Edit, Inside, Body
<1> QED
  BY <1>2, <1>3, <1>4, <1>5, <1>6, <1>7, <1>8, <1>9, <1>10 DEF Next, Step

LEMMA FileHolds == Spec /\ []~aged => [](BodyKnowsFile /\ SuccessMeansCurrent)
<1>1. Init => BodyKnowsFile /\ SuccessMeansCurrent
  BY DEF Init, BodyKnowsFile, SuccessMeansCurrent
<1>2. TypeOK /\ Fresh /\ (BodyKnowsFile /\ SuccessMeansCurrent)
        /\ [Next]_vars => (BodyKnowsFile /\ SuccessMeansCurrent)'
  BY FileStep DEF Fresh
<1> QED
  BY <1>1, <1>2, TypeCorrect, FreshHolds, PTL DEF Spec

(* In those behaviours, kills between truncate and write included, no      *)
(* other invocation leaves the Makefile half written between the last      *)
(* write of a successful invocation and its release of the lock.           *)
THEOREM SuccessMeansCurrentUnlessStale == Spec /\ []~aged => []SuccessMeansCurrent
BY FileHolds, PTL

(* Under mutual exclusion each step maps to a step of Reconciliation or to *)
(* a stutter.                                                              *)
LEMMA RefinementStep ==
  ASSUME TypeOK, HolderAlone, BodyKnowsFile, [Next]_vars
  PROVE  [Abstract!Next]_(Abstract!vars)
<1> DEFINE Stutter == Inside' = Inside /\ makefile' = makefile
<1> SUFFICES Abstract!Next \/ Stutter
  BY DEF Abstract!vars
<1> USE DEF TypeOK, Goto, local, lock, Inside, Body
<1>1. \A p \in Inside : Inside = {p}
  BY DEF HolderAlone, Holders, Held
<1>2. ASSUME NEW p \in Proc, Start(p) PROVE Stutter
  BY <1>2 DEF Start
<1>3. ASSUME NEW p \in Proc,
             \/ Mkdir(p) \/ Stat(p) \/ List(p) \/ Inspect(p)
             \/ Probe(p) \/ Signal(p) \/ Unlink(p) \/ Rmdir(p)
             \/ Remkdir(p) \/ Open(p) \/ Unmark(p) \/ Close(p)
      PROVE Stutter
  BY <1>3 DEF Mkdir, Stat, List, Inspect, Probe, Signal, Unlink, Rmdir,
              Remkdir, Open, Unmark, Close, GiveUp
<1>4. ASSUME NEW p \in Proc, Write(p) PROVE Abstract!Enter(p)
  <2>1. Inside = {}
    BY <1>4 DEF Write, HolderAlone, Holders, Held
  <2>2. Inside' = {p} /\ makefile' = makefile
    BY <1>4, <2>1 DEF Write
  <2> QED
    BY <2>1, <2>2 DEF Abstract!Enter
<1>5. ASSUME NEW p \in Proc, Load(p) PROVE Abstract!Leave(p) \/ Stutter
  <2>1. Inside = {p}
    BY <1>1, <1>5 DEF Load
  <2>2. CASE pc' = [pc EXCEPT ![p] = "unmark"]
    BY <1>5, <2>1, <2>2 DEF Load, Abstract!Leave
  <2>3. CASE pc' = [pc EXCEPT ![p] = "truncate"]
    BY <1>5, <2>1, <2>3 DEF Load
  <2> QED
    BY <1>5, <2>2, <2>3 DEF Load
<1>6. ASSUME NEW p \in Proc, Truncate(p) PROVE Abstract!Truncate(p)
  <2>1. Inside = {p} /\ Inside' = {p}
    BY <1>1, <1>6 DEF Truncate
  <2> QED
    BY <1>6, <2>1 DEF Truncate, Abstract!Truncate, BodyKnowsFile
<1>7. ASSUME NEW p \in Proc, Fill(p) PROVE Abstract!Finish(p)
  <2>1. Inside = {p} /\ Inside' = {}
    BY <1>1, <1>7 DEF Fill
  <2> QED
    BY <1>7, <2>1 DEF Fill, Abstract!Finish, BodyKnowsFile
<1>8. ASSUME NEW p \in Proc, Crash(p) PROVE Abstract!Leave(p) \/ Stutter
  <2>1. CASE p \in Inside
    BY <1>1, <1>8, <2>1 DEF Crash, Abstract!Leave
  <2>2. CASE p \notin Inside
    BY <1>8, <2>2 DEF Crash
  <2> QED
    BY <2>1, <2>2
<1>9. ASSUME NEW p \in Proc, Reassign(p) PROVE Stutter
  BY <1>9 DEF Reassign
<1>10. CASE Age \/ Stray \/ UNCHANGED vars
  BY <1>10 DEF Age, Stray, vars
<1>11. CASE Edit
  <2>1. Inside = {} /\ Inside' = Inside
    BY <1>11 DEF Edit
  <2>2. makefile' \in {"current", "drifted", "symlink"}
    BY <1>11 DEF Edit
  <2>3. Abstract!Edit
    BY <2>1, <2>2 DEF Abstract!Edit, Abstract!Settled
  <2> QED
    BY <2>3 DEF Abstract!Next
<1> QED
  BY <1>2, <1>3, <1>4, <1>5, <1>6, <1>7, <1>8, <1>9, <1>10, <1>11
     DEF Next, Step, Abstract!Next

(* locked_reconcile implements Reconciliation as long as no lock outlives  *)
(* stale_after: its callers may think of it as one body that runs alone,   *)
(* for any number of contenders and kills.                                 *)
THEOREM ImplementsUnlessStale == Spec /\ []~aged => ImplementsReconciliation
<1>1. Init => Abstract!Init
  BY DEF Init, Abstract!Init, Abstract!Settled, Inside, Body
<1>2. TypeOK /\ Fresh /\ (BodyKnowsFile /\ SuccessMeansCurrent)
        /\ [Next]_vars => [Abstract!Next]_(Abstract!vars)
  BY RefinementStep DEF Fresh
<1> QED
  BY <1>1, <1>2, TypeCorrect, FreshHolds, FileHolds, PTL
     DEF Spec, ImplementsReconciliation, Abstract!Spec

-----------------------------------------------------------------------------
(***************************************************************************)
(* RepoMk: the two readers of a repository's makefile.                     *)
(***************************************************************************)

Variable == [flavor : {"none", "simple", "recursive"}, text : Text]
Known == [Vars -> Variable]

\* The types of what the two readers have gathered.
CoreType ==
  [ifs : Nat, defines : Nat, prefix : Prefix, open : BOOLEAN, vars : Known,
   phony : BOOLEAN, implemented : BOOLEAN, facade : BOOLEAN]
MakeType ==
  [ifs : Seq(BOOLEAN), skipping : BOOLEAN, defines : Nat, defining : Vars \cup {"none"},
   prefix : Prefix, body : SUBSET {"word"}, vars : Known,
   target : {"none", "leaf", "other"}, fresh : BOOLEAN, needs : BOOLEAN,
   recipe : {"absent", "empty", "work"}, phony : BOOLEAN, facade : BOOLEAN,
   failed : BOOLEAN]
ReadersTyped ==
  /\ lines \in Nat /\ misled \in BOOLEAN
  /\ core \in CoreType /\ make \in MakeType

\* Both are in the same block: what Core does not blank, make does not ignore.
SameBlocks ==
  /\ core.ifs = Len(make.ifs)
  /\ IF make.skipping THEN core.defines = 1 /\ make.defines = 0 /\ ~Live
                      ELSE core.defines = make.defines

\* What Core proves of a variable is so for make: no word of its value that
\* make's value lacks, and no definition that make has not seen, of the same
\* flavor unless make's is recursive.
Agrees(c, m) ==
  /\ c.text \subseteq m.text
  /\ c.flavor = "none" => m.flavor \in {"none", "recursive"}
  /\ c.flavor = "simple" => m.flavor \in {"simple", "recursive"}
  /\ c.flavor = "recursive" => m.flavor = "recursive"

SameVariables == \A v \in Vars : Agrees(core.vars[v], make.vars[v])

\* Core looks for the recipe of a rule only while make adds to no other target.
SameRule ==
  /\ core.prefix = make.prefix
  /\ core.open => make.target \in {"leaf", "none"}
  /\ core.implemented => make.needs \/ make.recipe = "work"
  /\ core.phony => make.phony
  /\ make.facade => core.facade

Agreement == SameBlocks /\ SameVariables /\ SameRule

\* Until Core is misled or make stops.
ReadersAgree == ReadersTyped /\ (~misled /\ ~make.failed => Agreement)

---------------------------------------------------------------------------
(***************************************************************************)
(* The operators of the model.                                             *)
(***************************************************************************)

\* The lines that make takes lines for.
Taken == Lines \cup [kind : {"error"}]

\* What is read of a line of each kind.
LEMMA LineFields ==
  ASSUME NEW l \in Taken
  PROVE  /\ l.kind \in {"rule", "specific", "other", "facade", "phony", "blank", "if",
                        "endif", "endef", "recipe", "assign", "undefine", "define",
                        "prefix", "comment", "led", "error"}
         /\ l.kind = "rule" => l.needs \in Text /\ l.inline \in {"absent", "empty", "work"}
         /\ l.kind = "recipe" => l.by \in Prefix /\ l.body \in {"empty", "work"}
         /\ l.kind = "led" => l.by \in Prefix \cup {"space"} /\ l.line \in Plain
         /\ l.kind \in {"recipe", "led"} => AsRecipe(l) \in {"empty", "work"}
         /\ l.kind # "error" => l \in Lines
         /\ l.kind = "assign" => /\ l.var \in Vars /\ l.text \in Text
                                /\ l.op \in {"=", ":=", "+=", "?=", "!="}
         /\ l.kind \in {"undefine", "define"} => l.var \in Vars
         /\ l.kind = "prefix" => l.to \in Prefix
  BY DEF Taken, Lines, Plain, AsRecipe

\* Plain lines are lines.
LEMMA PlainIsLine == Plain \subseteq Taken /\ Lines \subseteq Taken /\ Plain \subseteq Lines
  BY DEF Taken, Lines

\* Longer values reach no fewer variables.
LEMMA ReachedMonotone ==
  ASSUME NEW less, NEW more, NEW text,
         \A v \in Vars : less[v].text \subseteq more[v].text
  PROVE  Reached(less, text) \subseteq Reached(more, text)
  BY DEF Reached, Closed

\* ... so nothing that is proved is lost (_proven_tokens, make's expansion).
LEMMA ProvenMonotone ==
  ASSUME NEW less, NEW more, NEW text,
         \A v \in Vars : less[v].text \subseteq more[v].text,
         Proven(less, text)
  PROVE  Proven(more, text)
  <1>1. CASE "word" \in text
    BY <1>1 DEF Proven
  <1>2. CASE \E v \in Reached(less, text) : "word" \in less[v].text
    <2>1. PICK v \in Reached(less, text) : "word" \in less[v].text
      BY <1>2
    <2>2. v \in Vars
      BY DEF Reached
    <2>3. v \in Reached(more, text)
      BY ReachedMonotone
    <2>4. "word" \in more[v].text
      BY <2>1, <2>2
    <2>5. QED
      BY <2>3, <2>4 DEF Proven
  <1>3. QED
    BY <1>1, <1>2 DEF Proven

\* What is expanded at once keeps the order too.
LEMMA ExpandedMonotone ==
  ASSUME NEW less, NEW more, NEW text,
         \A v \in Vars : less[v].text \subseteq more[v].text
  PROVE  Expanded(less, text) \subseteq Expanded(more, text)
  BY ProvenMonotone DEF Expanded

\* An expansion has words only.
LEMMA ExpandedIsText ==
  ASSUME NEW known, NEW text
  PROVE  Expanded(known, text) \in Text
  BY DEF Expanded, Text

\* Closing the innermost block.
LEMMA ClosedOne ==
  ASSUME NEW s \in Seq(BOOLEAN), s # << >>
  PROVE  /\ SubSeq(s, 1, Len(s) - 1) \in Seq(BOOLEAN)
         /\ Len(SubSeq(s, 1, Len(s) - 1)) = Len(s) - 1
         /\ Len(s) > 0
  <1>1. Len(s) \in Nat \ {0}
    BY EmptySeq
  <1>2. \A i \in 1 .. Len(s) - 1 : s[i] \in BOOLEAN
    <2>1. s \in [1 .. Len(s) -> BOOLEAN]
      BY LenProperties
    <2>2. \A i \in 1 .. Len(s) - 1 : i \in 1 .. Len(s)
      BY <1>1
    <2>3. QED
      BY <2>1, <2>2
  <1>3. 1 \in Int /\ Len(s) - 1 \in Int /\ Len(s) > 0
    BY <1>1
  <1>4. \A n \in Int : (\A i \in 1 .. n : s[i] \in BOOLEAN)
          => /\ SubSeq(s, 1, n) \in Seq(BOOLEAN)
             /\ Len(SubSeq(s, 1, n)) = IF 1 <= n THEN n - 1 + 1 ELSE 0
    BY SubSeqProperties, 1 \in Int, SMT
  <1>5. PICK n \in Int : n = Len(s) - 1
    BY <1>3
  <1>6. \A i \in 1 .. n : s[i] \in BOOLEAN
    BY <1>2, <1>5
  <1>7. /\ SubSeq(s, 1, n) \in Seq(BOOLEAN)
        /\ Len(SubSeq(s, 1, n)) = IF 1 <= n THEN n - 1 + 1 ELSE 0
    BY <1>4, <1>6
  <1>8. Len(SubSeq(s, 1, n)) = n
    BY <1>1, <1>5, <1>7
  <1>9. QED
    BY <1>1, <1>5, <1>7, <1>8

\* Opening one more block.
LEMMA OpenedOne ==
  ASSUME NEW s \in Seq(BOOLEAN), NEW b \in BOOLEAN
  PROVE  /\ Append(s, b) \in Seq(BOOLEAN)
         /\ Len(Append(s, b)) = Len(s) + 1
         /\ Append(s, b)[Len(s) + 1] = b
         /\ \A i \in 1 .. Len(s) : Append(s, b)[i] = s[i]
         /\ DOMAIN s = 1 .. Len(s)
         /\ DOMAIN Append(s, b) = 1 .. Len(s) + 1
  BY AppendProperties, LenProperties

\* Every value that either reader gives a variable is one.
LEMMA AssignedTyped ==
  ASSUME NEW known \in Known, NEW l \in Taken, l.kind = "assign"
  PROVE  /\ CoreAssigned(known, l) \in Variable
         /\ MakeAssigned(known, l) \subseteq Variable
  <1>1. /\ l.var \in Vars /\ l.text \in Text
        /\ l.op \in {"=", ":=", "+=", "?=", "!="}
    BY LineFields
  <1>2. PICK old \in Variable : old = known[l.var]
    BY <1>1 DEF Known
  <1>3. old.text \in Text /\ Expanded(known, l.text) \in Text /\ {} \in Text
        /\ {"word"} \in Text
    BY <1>2, ExpandedIsText DEF Variable, Text
  <1>4. /\ \A t \in Text : Simple(t) \in Variable /\ Recursive(t) \in Variable
        /\ \A t, u \in Text : t \cup u \in Text
    BY DEF Simple, Recursive, Variable, Text
  <1>5. l.op \in {"=", ":=", "+="} => Assigned(known, l) \in Variable
    BY <1>1, <1>2, <1>3, <1>4 DEF Assigned
  <1>6. CASE l.op = "!="
    BY <1>6, <1>3, <1>4 DEF CoreAssigned, MakeAssigned
  <1>7. CASE l.op = "?="
    BY <1>7, <1>1, <1>2, <1>3, <1>4 DEF CoreAssigned, MakeAssigned
  <1>8. CASE l.op \in {"=", ":=", "+="}
    BY <1>8, <1>5 DEF CoreAssigned, MakeAssigned
  <1>9. QED
    BY <1>1, <1>6, <1>7, <1>8

\* The values that both give a variable agree if the old ones did.
LEMMA AssignedAgrees ==
  ASSUME NEW c \in Known, NEW m \in Known, NEW l \in Taken, l.kind = "assign",
         \A v \in Vars : Agrees(c[v], m[v]),
         ~(l.op = "+=" /\ c[l.var].flavor = "simple" /\ m[l.var].flavor = "recursive"),
         NEW x \in MakeAssigned(m, l)
  PROVE  Agrees(CoreAssigned(c, l), x)
  <1>1. /\ l.var \in Vars
        /\ l.op \in {"=", ":=", "+=", "?=", "!="}
    BY LineFields
  <1>2. \A v \in Vars : c[v].text \subseteq m[v].text
    BY DEF Agrees
  <1>3. Expanded(c, l.text) \subseteq Expanded(m, l.text)
    BY <1>2, ExpandedMonotone
  <1>4. /\ c[l.var].flavor \in {"none", "simple", "recursive"}
        /\ m[l.var].flavor \in {"none", "simple", "recursive"}
        /\ Agrees(c[l.var], m[l.var])
    BY <1>1 DEF Known, Variable
  <1> DEFINE old == c[l.var]
             was == m[l.var]
  <1>5. CASE l.op = "="
    <2>1. CoreAssigned(c, l) = Recursive(l.text) /\ x = Recursive(l.text)
      BY <1>5 DEF CoreAssigned, MakeAssigned, Assigned
    <2>2. QED
      BY <2>1 DEF Agrees, Recursive
  <1>6. CASE l.op = ":="
    <2>1. /\ CoreAssigned(c, l) = Simple(Expanded(c, l.text))
          /\ x = Simple(Expanded(m, l.text))
      BY <1>6 DEF CoreAssigned, MakeAssigned, Assigned
    <2>2. QED
      BY <2>1, <1>3 DEF Agrees, Simple
  <1>7. CASE l.op = "+="
    <2>1. /\ CoreAssigned(c, l) = Assigned(c, l)
          /\ x = Assigned(m, l)
      BY <1>7 DEF CoreAssigned, MakeAssigned
    <2>2. CASE old.flavor = "simple"
      <3>1. was.flavor = "simple"
        BY <2>2, <1>4, <1>7 DEF Agrees
      <3>2. /\ CoreAssigned(c, l) = Simple(old.text \cup Expanded(c, l.text))
            /\ x = Simple(was.text \cup Expanded(m, l.text))
        BY <2>1, <2>2, <3>1, <1>7 DEF Assigned
      <3>3. QED
        BY <3>2, <1>2, <1>1, <1>3 DEF Agrees, Simple
    <2>3. CASE old.flavor # "simple"
      <3>1. was.flavor # "simple"
        BY <2>3, <1>4 DEF Agrees
      <3>2. /\ CoreAssigned(c, l) = Recursive(old.text \cup l.text)
            /\ x = Recursive(was.text \cup l.text)
        BY <2>1, <2>3, <3>1, <1>7 DEF Assigned
      <3>3. QED
        BY <3>2, <1>2, <1>1 DEF Agrees, Recursive
    <2>4. QED
      BY <2>2, <2>3
  <1>8. CASE l.op = "?="
    <2>1. /\ CoreAssigned(c, l) = IF old.flavor = "none" THEN Simple({}) ELSE old
          /\ x = IF was.flavor = "none" THEN Recursive(l.text) ELSE was
      BY <1>8 DEF CoreAssigned, MakeAssigned
    <2>2. CASE old.flavor = "none"
      BY <2>1, <2>2, <1>4 DEF Agrees, Simple, Recursive
    <2>3. CASE old.flavor # "none"
      <3>1. was.flavor # "none"
        BY <2>3, <1>4 DEF Agrees
      <3>2. QED
        BY <2>1, <2>3, <3>1, <1>4
    <2>4. QED
      BY <2>2, <2>3
  <1>9. CASE l.op = "!="
    <2>1. /\ CoreAssigned(c, l) = Simple({})
          /\ x \in {Recursive({}), Recursive({"word"})}
      BY <1>9 DEF CoreAssigned, MakeAssigned
    <2>2. QED
      BY <2>1 DEF Agrees, Simple, Recursive
  <1>10. QED
    BY <1>1, <1>5, <1>6, <1>7, <1>8, <1>9

\* Reading a line leaves both readers of their types.
LEMMA CoreReadsTyped ==
  ASSUME core \in CoreType, NEW l \in Taken
  PROVE  CoreReads(l) \in CoreType
  <1>1. /\ core.ifs \in Nat /\ core.defines \in Nat /\ core.vars \in Known
        /\ core.implemented \in BOOLEAN
    BY DEF CoreType
  <1>2. \A e \in BOOLEAN : CoreRule(core, e) \in CoreType
    BY DEF CoreRule, CoreType
  <1>3. [core EXCEPT !.open = FALSE] \in CoreType
    BY DEF CoreType
  <1>4. CoreLine(core, l) \in CoreType
    <2>1. CASE l.kind = "rule"
      <3>1. (Proven(core.vars, l.needs) \/ l.inline = "work") \in BOOLEAN
        BY DEF Proven
      <3>2. QED
        BY <2>1, <3>1, <1>2 DEF CoreLine
    <2>2. CASE l.kind \in {"specific", "recipe", "led", "blank", "comment"}
      BY <2>2, <1>2, <1>3 DEF CoreLine, CoreRecipe
    <2>3. CASE l.kind = "assign"
      <3>1. CoreAssigned(core.vars, l) \in Variable
        BY <2>3, <1>1, AssignedTyped
      <3>2. [core.vars EXCEPT ![l.var] = CoreAssigned(core.vars, l)] \in Known
        BY <3>1, <1>1 DEF Known
      <3>3. CoreLine(core, l) = [core EXCEPT !.open = FALSE,
                 !.vars = [core.vars EXCEPT ![l.var] = CoreAssigned(core.vars, l)]]
        BY <2>3 DEF CoreLine, CoreType
      <3>4. QED
        BY <3>2, <3>3 DEF CoreType
    <2>4. CASE l.kind = "undefine"
      <3>1. [core.vars EXCEPT ![l.var] = Undefined] \in Known
        BY <1>1 DEF Known, Variable, Undefined, Text
      <3>2. CoreLine(core, l) = [core EXCEPT !.open = FALSE,
                                   !.vars = [core.vars EXCEPT ![l.var] = Undefined]]
        BY <2>4 DEF CoreLine, CoreType
      <3>3. QED
        BY <3>1, <3>2 DEF CoreType
    <2>5. CASE l.kind = "prefix"
      BY <2>5, LineFields DEF CoreLine, CoreType
    <2>6. CASE l.kind = "phony"
      BY <2>6 DEF CoreLine, CoreType
    <2>7. CASE l.kind \in {"facade", "other", "if", "endif", "define", "endef", "error"}
      BY <2>7, <1>3 DEF CoreLine
    <2>8. QED
      BY <2>1, <2>2, <2>3, <2>4, <2>5, <2>6, <2>7, LineFields
  <1>5. CASE core.defines > 0
    BY <1>1, <1>5 DEF CoreReads, CoreType
  <1>6. CASE core.defines = 0 /\ l.kind \in {"define", "if"}
    BY <1>1, <1>6 DEF CoreReads, CoreType
  <1>7. CASE core.defines = 0 /\ l.kind = "endif" /\ core.ifs > 0
    BY <1>1, <1>7 DEF CoreReads, CoreType
  <1>8. CASE /\ core.defines = 0 /\ l.kind \notin {"define", "if"}
             /\ ~(l.kind = "endif" /\ core.ifs > 0)
    BY <1>1, <1>4, <1>8 DEF CoreReads
  <1>9. QED
    BY <1>1, <1>5, <1>6, <1>7, <1>8

\* The updates that reading a line makes keep the types.
LEMMA MakeUpdated ==
  ASSUME make \in MakeType
  PROVE  /\ \A p, b \in BOOLEAN, recipe \in {"absent", "empty", "work"} :
              [make EXCEPT !.target = "leaf", !.needs = p, !.fresh = b, !.recipe = recipe] \in MakeType
         /\ \A recipe \in {"absent", "empty", "work"} :
              [make EXCEPT !.fresh = FALSE, !.recipe = recipe] \in MakeType
         /\ \A known \in Known :
              [make EXCEPT !.target = "none", !.vars = known] \in MakeType
         /\ \A to \in Prefix :
              [make EXCEPT !.target = "none", !.prefix = to] \in MakeType
         /\ \A v \in Vars :
              [make EXCEPT !.target = "none", !.defines = 1, !.defining = v] \in MakeType
         /\ [make EXCEPT !.target = "other", !.phony = TRUE] \in MakeType
         /\ [make EXCEPT !.target = "other", !.facade = TRUE] \in MakeType
         /\ [make EXCEPT !.target = "other"] \in MakeType
         /\ \A ifs \in Seq(BOOLEAN) :
              [make EXCEPT !.ifs = ifs] \in MakeType
         /\ \A b \in BOOLEAN :
              [make EXCEPT !.skipping = b] \in MakeType
         /\ \A n \in Nat :
              [make EXCEPT !.defines = n] \in MakeType
         /\ \A words \in SUBSET {"word"} :
              [make EXCEPT !.body = words] \in MakeType
         /\ \A n \in Nat :
              [make EXCEPT !.defines = n, !.body = {"word"}] \in MakeType
         /\ \A known \in Known :
              [make EXCEPT !.defines = 0, !.defining = "none", !.body = {}, !.vars = known] \in MakeType
  <1>1. \A p, b \in BOOLEAN, recipe \in {"absent", "empty", "work"} :
              [make EXCEPT !.target = "leaf", !.needs = p, !.fresh = b, !.recipe = recipe] \in MakeType
    BY DEF MakeType
  <1>2. \A recipe \in {"absent", "empty", "work"} :
              [make EXCEPT !.fresh = FALSE, !.recipe = recipe] \in MakeType
    BY DEF MakeType
  <1>3. \A known \in Known :
              [make EXCEPT !.target = "none", !.vars = known] \in MakeType
    BY DEF MakeType
  <1>4. \A to \in Prefix :
              [make EXCEPT !.target = "none", !.prefix = to] \in MakeType
    BY DEF MakeType
  <1>5. \A v \in Vars :
              [make EXCEPT !.target = "none", !.defines = 1, !.defining = v] \in MakeType
    BY DEF MakeType
  <1>6. [make EXCEPT !.target = "other", !.phony = TRUE] \in MakeType
    BY DEF MakeType
  <1>7. [make EXCEPT !.target = "other", !.facade = TRUE] \in MakeType
    BY DEF MakeType
  <1>8. [make EXCEPT !.target = "other"] \in MakeType
    BY DEF MakeType
  <1>9. \A ifs \in Seq(BOOLEAN) :
              [make EXCEPT !.ifs = ifs] \in MakeType
    BY DEF MakeType
  <1>10. \A b \in BOOLEAN :
              [make EXCEPT !.skipping = b] \in MakeType
    BY DEF MakeType
  <1>11. \A n \in Nat :
              [make EXCEPT !.defines = n] \in MakeType
    BY DEF MakeType
  <1>12. \A words \in SUBSET {"word"} :
              [make EXCEPT !.body = words] \in MakeType
    BY DEF MakeType
  <1>13. \A n \in Nat :
              [make EXCEPT !.defines = n, !.body = {"word"}] \in MakeType
    BY DEF MakeType
  <1>14. \A known \in Known :
              [make EXCEPT !.defines = 0, !.defining = "none", !.body = {}, !.vars = known] \in MakeType
    BY DEF MakeType
  <1>15. QED
    BY <1>1, <1>2, <1>3, <1>4, <1>5, <1>6, <1>7, <1>8, <1>9, <1>10, <1>11, <1>12, <1>13, <1>14

\* Whichever way make takes a line, what it has is of its type.
LEMMA MakeTakesTyped ==
  ASSUME make \in MakeType, NEW l \in Taken
  PROVE  MakeTakes(l) \subseteq MakeType
  <1>1. /\ make.ifs \in Seq(BOOLEAN) /\ make.defines \in Nat /\ make.vars \in Known
        /\ make.needs \in BOOLEAN /\ make.body \subseteq {"word"}
    BY DEF MakeType
  <1>2. Failing \in MakeType /\ Ending \in MakeType
    BY DEF Failing, Ending, MakeType
  <1>3. Live => MakeLine(l) \subseteq MakeType
    <2>1. CASE l.kind = "rule"
      <3>1. Proven(make.vars, l.needs) \in BOOLEAN /\ (l.inline = "absent") \in BOOLEAN
            /\ l.inline \in {"absent", "empty", "work"}
        BY <2>1, LineFields DEF Proven
      <3>2. make.recipe \in {"absent", "empty", "work"}
        BY DEF MakeType
      <3>3. PICK n \in BOOLEAN, f \in BOOLEAN, r \in {"absent", "empty", "work"} :
              /\ n = (make.needs \/ Proven(make.vars, l.needs))
              /\ f = (l.inline = "absent")
              /\ r = IF l.inline = "absent" THEN make.recipe ELSE l.inline
        BY <3>1, <3>2, <1>1
      <3>4. MakeRule(l) = Failing \/
              MakeRule(l) = [make EXCEPT !.target = "leaf", !.needs = n, !.fresh = f, !.recipe = r]
        BY <3>3 DEF MakeRule
      <3>5. MakeRule(l) \in MakeType
        BY <3>4, <1>1, <1>2, MakeUpdated, Zenon
      <3>6. QED
        BY <2>1, <3>5 DEF MakeLine
    <2>2. CASE l.kind \in {"recipe", "led"}
      <3>1. AsRecipe(l) \in {"empty", "work"}
        BY <2>2, LineFields
      <3>2. make.recipe \in {"absent", "empty", "work"}
        BY DEF MakeType
      <3>3. PICK r \in {"absent", "empty", "work"} :
              r = IF make.fresh \/ AsRecipe(l) = "work" THEN AsRecipe(l) ELSE make.recipe
        BY <3>1, <3>2
      <3>4. MakeRecipe(l) \in {Failing, make, [make EXCEPT !.fresh = FALSE, !.recipe = r]}
        BY <3>3 DEF MakeRecipe
      <3>5. MakeRecipe(l) \in MakeType
        BY <3>4, <1>1, <1>2, MakeUpdated
      <3>6. QED
        BY <2>2, <3>5 DEF MakeLine
    <2>3. CASE l.kind = "assign"
      <3>1. MakeAssigned(make.vars, l) \subseteq Variable
        BY <2>3, <1>1, AssignedTyped
      <3>2. \A x \in MakeAssigned(make.vars, l) : [make.vars EXCEPT ![l.var] = x] \in Known
        BY <3>1, <1>1 DEF Known
      <3>3. \A x \in MakeAssigned(make.vars, l) :
              [Ending EXCEPT !.vars[l.var] = x]
                = [make EXCEPT !.target = "none", !.vars = [make.vars EXCEPT ![l.var] = x]]
        BY DEF Ending, MakeType
      <3>4. \A x \in MakeAssigned(make.vars, l) :
              [Ending EXCEPT !.vars[l.var] = x] \in MakeType
        BY <3>2, <3>3, MakeUpdated, Zenon
      <3>5. QED
        BY <2>3, <3>4, <1>2 DEF MakeLine
    <2>4. CASE l.kind = "undefine"
      <3>1. [make.vars EXCEPT ![l.var] = Undefined] \in Known
        BY <1>1 DEF Known, Variable, Undefined, Text
      <3>2. [Ending EXCEPT !.vars[l.var] = Undefined]
               = [make EXCEPT !.target = "none",
                              !.vars = [make.vars EXCEPT ![l.var] = Undefined]]
        BY DEF Ending, MakeType
      <3>3. [Ending EXCEPT !.vars[l.var] = Undefined] \in MakeType
        BY <3>1, <3>2, MakeUpdated, Zenon
      <3>4. QED
        BY <2>4, <3>3 DEF MakeLine
    <2>5. CASE l.kind \in {"specific", "blank", "comment", "endef", "error"}
      BY <2>5, <1>2 DEF MakeLine
    <2>6. CASE l.kind \in {"prefix", "define"}
      <3>1. /\ l.kind = "prefix" => l.to \in Prefix
            /\ l.kind = "define" => l.var \in Vars
        BY LineFields
      <3>2. /\ [Ending EXCEPT !.prefix = l.to] = [make EXCEPT !.target = "none", !.prefix = l.to]
            /\ [Ending EXCEPT !.defines = 1, !.defining = l.var]
                 = [make EXCEPT !.target = "none", !.defines = 1, !.defining = l.var]
        BY DEF Ending, MakeType
      <3>3. /\ l.kind = "prefix" => [Ending EXCEPT !.prefix = l.to] \in MakeType
            /\ l.kind = "define" => [Ending EXCEPT !.defines = 1, !.defining = l.var] \in MakeType
        BY <3>1, <3>2, MakeUpdated, Zenon
      <3>4. QED
        BY <2>6, <3>3 DEF MakeLine
    <2>7. CASE l.kind \in {"phony", "facade", "other"}
      BY <2>7, MakeUpdated DEF MakeLine
    <2>8. CASE l.kind = "if"
      <3>1. \A b \in BOOLEAN : Append(make.ifs, b) \in Seq(BOOLEAN)
        BY <1>1, OpenedOne
      <3>2. \A b \in BOOLEAN : [make EXCEPT !.ifs = Append(make.ifs, b)] \in MakeType
        BY <3>1, MakeUpdated, Zenon
      <3>3. MakeLine(l) = {[make EXCEPT !.ifs = Append(@, b)] : b \in BOOLEAN}
        BY <2>8 DEF MakeLine
      <3>4. QED
        BY <3>2, <3>3, Zenon
    <2>9. CASE l.kind = "endif"
      <3>1. make.ifs # << >> => SubSeq(make.ifs, 1, Len(make.ifs) - 1) \in Seq(BOOLEAN)
        BY <1>1, ClosedOne
      <3>2. QED
        BY <2>9, <3>1, <1>2, MakeUpdated DEF MakeLine
    <2>10. QED
      BY <2>1, <2>2, <2>3, <2>4, <2>5, <2>6, <2>7, <2>8, <2>9, LineFields
  <1>4. make.defines > 0 => MakeDefines(l) \in MakeType
    <2>1. CASE l.kind = "endef" /\ make.defines = 1
      <3>1. [make.vars EXCEPT ![make.defining] = Recursive(make.body)] \in Known
        BY <1>1 DEF Known, Variable, Recursive, Text
      <3>2. MakeDefines(l)
              = [make EXCEPT !.defines = 0, !.defining = "none", !.body = {},
                   !.vars = [make.vars EXCEPT ![make.defining] = Recursive(make.body)]]
        BY <2>1 DEF MakeDefines, MakeType
      <3>3. QED
        BY <3>1, <3>2, MakeUpdated
    <2>2. CASE l.kind = "endef" /\ make.defines > 1
      <3>1. PICK n \in Nat : n = make.defines - 1
        BY <2>2, <1>1
      <3>2. MakeDefines(l) = [make EXCEPT !.defines = n]
        BY <2>2, <3>1 DEF MakeDefines
      <3>3. QED
        BY <3>2, MakeUpdated
    <2>3. CASE l.kind = "define"
      <3>1. PICK n \in Nat : n = make.defines + 1
        BY <1>1
      <3>2. MakeDefines(l) = [make EXCEPT !.defines = n, !.body = {"word"}]
        BY <2>3, <3>1 DEF MakeDefines
      <3>3. QED
        BY <3>2, MakeUpdated
    <2>4. CASE l.kind \notin {"endef", "define"}
      <3>1. PICK words \in SUBSET {"word"} :
              words = IF Whitespace(l) THEN make.body ELSE {"word"}
        BY <1>1
      <3>2. MakeDefines(l) = [make EXCEPT !.body = words]
        BY <2>4, <3>1 DEF MakeDefines
      <3>3. QED
        BY <3>2, MakeUpdated
    <2>5. QED
      BY <2>1, <2>2, <2>3, <2>4, <1>1
  <1>5. ~Live => MakeSkips(l) \in MakeType
    <2>1. ~Live => make.ifs # << >>
      BY <1>1 DEF Live
    <2>2. CASE l.kind = "endif" /\ ~Live /\ ~make.skipping
      <3>1. SubSeq(make.ifs, 1, Len(make.ifs) - 1) \in Seq(BOOLEAN)
        BY <1>1, <2>1, <2>2, ClosedOne
      <3>2. QED
        BY <2>2, <3>1 DEF MakeSkips, MakeType
    <2>3. CASE l.kind = "if" /\ ~make.skipping
      <3>1. Append(make.ifs, FALSE) \in Seq(BOOLEAN)
        BY <1>1, OpenedOne
      <3>2. QED
        BY <2>3, <3>1 DEF MakeSkips, MakeType
    <2>4. CASE make.skipping \/ l.kind \notin {"if", "endif"}
      BY <2>4 DEF MakeSkips, MakeType
    <2>5. QED
      BY <2>2, <2>3, <2>4
  <1>6. QED
    BY <1>1, <1>3, <1>4, <1>5 DEF MakeTakes

\* What make takes a line for is one.
LEMMA HeededIsTaken ==
  ASSUME NEW l \in Lines
  PROVE  Heeded(l) \in Taken /\ Seen(l) \in Lines
  <1>1. /\ \A k \in {"specific", "other"} : [kind |-> k] \in Plain
        /\ [kind |-> "error"] \in Taken
    BY DEF Taken, Plain
  <1>2. l.kind = "led" => l.line \in Plain
    BY LineFields, PlainIsLine
  <1>3. QED
    BY <1>1, <1>2, PlainIsLine DEF Heeded, Seen

\* Whatever it takes the line for, what make has is of its type.
LEMMA MakeReadsTyped ==
  ASSUME make \in MakeType, NEW l \in Lines
  PROVE  MakeReads(l) \subseteq MakeType
  <1>1. Failing \in MakeType
    BY DEF Failing, MakeType
  <1>2. MakeTakes(Heeded(l)) \subseteq MakeType
    BY HeededIsTaken, MakeTakesTyped
  <1>3. QED
    BY <1>1, <1>2 DEF MakeReads

\* Every step keeps both readers within their types.
LEMMA Typing ==
  ASSUME ReadersTyped, [RepoMkNext]_repoMkVars
  PROVE  ReadersTyped'
  <1>1. CASE UNCHANGED repoMkVars
    BY <1>1 DEF repoMkVars, ReadersTyped
  <1>2. ASSUME NEW l \in Lines, Read(l)
        PROVE  ReadersTyped'
    <2>1. core' \in CoreType
      <3> DEFINE c == CoreReads(Seen(l))
      <3>1. c \in CoreType
        BY CoreReadsTyped, HeededIsTaken, PlainIsLine DEF ReadersTyped
      <3>2. core' = [c EXCEPT !.facade = @ \/ l.kind = "facade"]
        BY <1>2 DEF Read
      <3> HIDE DEF c
      <3>3. PICK f \in BOOLEAN : f = (c.facade \/ l.kind = "facade")
        OBVIOUS
      <3>4. core' = [c EXCEPT !.facade = f]
        BY <3>2, <3>3
      <3>5. QED
        BY <3>1, <3>4 DEF CoreType
    <2>2. make' \in MakeType
      BY <1>2, MakeReadsTyped DEF Read, ReadersTyped
    <2>3. misled' \in BOOLEAN
      BY <1>2 DEF Read, Hidden, Led, Deferred, Nested, Emptied
    <2>4. lines' \in Nat
      BY <1>2 DEF Read, ReadersTyped
    <2>5. QED
      BY <2>1, <2>2, <2>3, <2>4 DEF ReadersTyped
  <1>3. QED
    BY <1>1, <1>2 DEF RepoMkNext

\* Both readers take the line for the same, and none of it misleads Core.
Together(l) ==
  /\ core' = [CoreReads(l) EXCEPT !.facade = @ \/ l.kind = "facade"]
  /\ make' \in MakeTakes(l)
  /\ ~Hidden(l) /\ ~Deferred(l) /\ ~Nested(l) /\ ~Emptied

\* Unless a line misleads Core, both take it for the same or neither heeds it.
LEMMA ReadTogether ==
  ASSUME ReadersTyped, SameBlocks, NEW l \in Lines, Read(l), ~misled', ~make'.failed
  PROVE  (\E x \in Lines : Together(x)) \/ (core' = core /\ make' = make)
  <1>1. /\ core' = [CoreReads(Seen(l)) EXCEPT !.facade = @ \/ l.kind = "facade"]
        /\ make' \in MakeTakes(Heeded(l))
        /\ ~Hidden(Heeded(l)) /\ ~Led(l) /\ ~Deferred(l) /\ ~Nested(Heeded(l)) /\ ~Emptied
        /\ make \in MakeType /\ core \in CoreType
    BY DEF Read, MakeReads, Failing, ReadersTyped, MakeType
  <1>2. CASE Seen(l) = l /\ Heeded(l) = l
    BY <1>1, <1>2 DEF Together
  <1>3. CASE l.kind = "led" /\ Seen(l) # l
    <2>1. /\ l.by = "space" /\ l.line.kind \in Directive /\ Seen(l) = l.line
          /\ l.line \in Lines /\ l.line \in Taken
      BY <1>3, LineFields, PlainIsLine DEF Seen
    <2>2. CASE ~Literal(l)
      <3>1. Heeded(l) = l.line
        BY <1>3, <2>1, <2>2 DEF Heeded
      <3>2. ~Deferred(l.line) /\ (l.kind = "facade" <=> l.line.kind = "facade")
        BY <1>3, <2>1 DEF Deferred, Directive
      <3>3. Together(l.line)
        BY <1>1, <2>1, <3>1, <3>2 DEF Together
      <3>4. QED
        BY <2>1, <3>3
    <2>3. CASE Literal(l)
      <3>1. /\ make.defines > 0 /\ l.line.kind \in {"if", "endif"} /\ Heeded(l) = l
        BY <1>1, <2>1, <2>3 DEF Literal, Directive, MakeType, Prefix, Heeded
      <3>2. core.defines > 0
        BY <1>1, <3>1 DEF SameBlocks, MakeType
      <3>3. CoreReads(Seen(l)) = CoreReads(l)
        BY <1>3, <2>1, <3>1, <3>2 DEF CoreReads
      <3>4. Together(l)
        BY <1>1, <3>1, <3>3 DEF Together
      <3>5. QED
        BY <3>4
    <2>4. QED
      BY <2>2, <2>3
  <1>4. CASE Seen(l) = l /\ Heeded(l) # l
    <2>1. l.kind = "led" /\ ~Literal(l)
      BY <1>4 DEF Heeded
    <2>2. QED
      BY <1>1, <1>4, <2>1 DEF Led
  <1>5. QED
    BY <1>2, <1>3, <1>4 DEF Seen

(***************************************************************************)
(* Blocks.                                                                 *)
(***************************************************************************)

\* A line of the unconditional text opens and closes no block.
LEMMA CoreLineKeepsBlocks ==
  ASSUME NEW c \in CoreType, NEW l \in Taken
  PROVE  CoreLine(c, l).ifs = c.ifs /\ CoreLine(c, l).defines = c.defines
  BY LineFields DEF CoreLine, CoreRule, CoreRecipe, CoreType

\* Where Core is after a line.
LEMMA CoreBlocks ==
  ASSUME core \in CoreType, NEW l \in Taken, NEW c, c = CoreReads(l)
  PROVE  /\ c.ifs = IF core.defines = 0 /\ l.kind = "if" THEN core.ifs + 1
                    ELSE IF core.defines = 0 /\ l.kind = "endif" /\ core.ifs > 0
                         THEN core.ifs - 1 ELSE core.ifs
         /\ c.defines = IF core.defines > 0
                        THEN IF l.kind = "define" THEN core.defines + 1
                             ELSE IF l.kind = "endef" THEN core.defines - 1
                             ELSE core.defines
                        ELSE IF l.kind = "define" THEN 1 ELSE 0
         /\ core.ifs > 0 \/ core.defines > 0 =>
              /\ c.prefix = core.prefix /\ c.open = core.open /\ c.vars = core.vars
              /\ c.phony = core.phony /\ c.implemented = core.implemented
         /\ ~(core.ifs > 0 \/ core.defines > 0) /\ l.kind \notin {"define", "if"}
              => c = CoreLine(core, l)
         /\ l.kind \in {"define", "if"} =>
              /\ c.prefix = core.prefix /\ c.open = core.open /\ c.vars = core.vars
              /\ c.phony = core.phony /\ c.implemented = core.implemented
  <1>1. core.ifs \in Nat /\ core.defines \in Nat
    BY DEF CoreType
  <1>2. CASE core.defines > 0
    BY <1>1, <1>2 DEF CoreReads, CoreType
  <1>3. CASE core.defines = 0 /\ l.kind = "define"
    BY <1>1, <1>3 DEF CoreReads, CoreType
  <1>4. CASE core.defines = 0 /\ l.kind = "if"
    BY <1>1, <1>4 DEF CoreReads, CoreType
  <1>5. CASE core.defines = 0 /\ l.kind = "endif" /\ core.ifs > 0
    BY <1>1, <1>5 DEF CoreReads, CoreType
  <1>6. CASE /\ core.defines = 0 /\ l.kind \notin {"define", "if"}
             /\ ~(l.kind = "endif" /\ core.ifs > 0)
    <2>1. c = IF core.ifs > 0 THEN core ELSE CoreLine(core, l)
      BY <1>6 DEF CoreReads
    <2>2. CoreLine(core, l).ifs = core.ifs /\ CoreLine(core, l).defines = core.defines
      BY CoreLineKeepsBlocks
    <2>3. c.ifs = core.ifs /\ c.defines = core.defines
      BY <2>1, <2>2
    <2>4. QED
      BY <1>1, <1>6, <2>1, <2>3
  <1>7. QED
    BY <1>1, <1>2, <1>3, <1>4, <1>5, <1>6

\* Where make is after a line.
LEMMA MakeLineBlocks ==
  ASSUME make \in MakeType, Live, NEW l \in Taken, NEW m \in MakeLine(l), ~m.failed
  PROVE  /\ m.skipping = make.skipping
         /\ l.kind = "if" => Len(m.ifs) = Len(make.ifs) + 1
         /\ l.kind = "endif" => make.ifs # << >> /\ Len(m.ifs) = Len(make.ifs) - 1
         /\ l.kind \notin {"if", "endif"} => m.ifs = make.ifs
         /\ m.defines = IF l.kind = "define" THEN 1 ELSE make.defines
  <1>1. make.ifs \in Seq(BOOLEAN)
    BY DEF MakeType
  <1>2. ~(m = Failing)
    BY DEF Failing, MakeType
  <1>3. CASE l.kind = "if"
    <2>1. PICK b \in BOOLEAN : m = [make EXCEPT !.ifs = Append(@, b)]
      BY <1>3 DEF MakeLine
    <2>2. Len(Append(make.ifs, b)) = Len(make.ifs) + 1
      BY <1>1, OpenedOne
    <2>3. QED
      BY <1>3, <2>1, <2>2 DEF MakeType
  <1>4. CASE l.kind = "endif"
    <2>1. make.ifs # << >> /\ m = [make EXCEPT !.ifs = SubSeq(@, 1, Len(@) - 1)]
      BY <1>4, <1>2 DEF MakeLine
    <2>2. Len(SubSeq(make.ifs, 1, Len(make.ifs) - 1)) = Len(make.ifs) - 1
      BY <1>1, <2>1, ClosedOne
    <2>3. QED
      BY <1>4, <2>1, <2>2 DEF MakeType
  <1>5. CASE l.kind \in {"rule", "recipe", "led"}
    <2>1. m = MakeRule(l) \/ m = MakeRecipe(l)
      BY <1>5 DEF MakeLine
    <2>2. m.ifs = make.ifs /\ m.defines = make.defines /\ m.skipping = make.skipping
      BY <2>1, <1>2 DEF MakeRule, MakeRecipe, MakeType
    <2>3. QED
      BY <1>5, <2>2
  <1>6. CASE l.kind = "assign"
    <2>1. PICK x : m = [Ending EXCEPT !.vars[l.var] = x]
      BY <1>6, <1>2 DEF MakeLine
    <2>2. QED
      BY <1>6, <2>1 DEF Ending, MakeType
  <1>7. CASE l.kind \in {"undefine", "prefix", "specific", "define"}
    BY <1>7 DEF MakeLine, Ending, MakeType
  <1>8. CASE l.kind \in {"blank", "comment", "phony", "facade", "other", "endef", "error"}
    BY <1>8, <1>2 DEF MakeLine, MakeType
  <1>9. QED
    BY <1>3, <1>4, <1>5, <1>6, <1>7, <1>8, LineFields

\* A line that does not mislead Core leaves both in the same block.
LEMMA SameBlocksStep ==
  ASSUME ReadersTyped, SameBlocks, NEW l \in Taken, Together(l), ~make'.failed
  PROVE  SameBlocks'
  <1>1. /\ make \in MakeType /\ make' \in MakeTakes(l)
        /\ core.ifs \in Nat /\ core.defines \in Nat /\ make.defines \in Nat
        /\ make.ifs \in Seq(BOOLEAN) /\ make.skipping \in BOOLEAN
        /\ ~Nested(l)
    BY DEF ReadersTyped, CoreType, MakeType, Together
  <1>2. /\ core'.ifs = IF core.defines = 0 /\ l.kind = "if" THEN core.ifs + 1
                       ELSE IF core.defines = 0 /\ l.kind = "endif" /\ core.ifs > 0
                            THEN core.ifs - 1 ELSE core.ifs
        /\ core'.defines = IF core.defines > 0
                           THEN IF l.kind = "define" THEN core.defines + 1
                                ELSE IF l.kind = "endef" THEN core.defines - 1
                                ELSE core.defines
                           ELSE IF l.kind = "define" THEN 1 ELSE 0
    <2>1. core \in CoreType /\ CoreReads(l) \in CoreType
      BY CoreReadsTyped DEF ReadersTyped
    <2>2. core' = [CoreReads(l) EXCEPT !.facade = @ \/ l.kind = "facade"]
      BY DEF Together
    <2>3. core'.ifs = CoreReads(l).ifs /\ core'.defines = CoreReads(l).defines
      BY <2>1, <2>2 DEF CoreType
    <2>4. QED
      BY <2>1, <2>3, CoreBlocks
  <1>3. CASE make.skipping
    <2>1. core.defines = 1 /\ make.defines = 0 /\ ~Live /\ l.kind # "define"
      BY <1>1, <1>3 DEF SameBlocks, Nested
    <2>2. make' = [make EXCEPT !.skipping = (l.kind # "endef")]
      BY <1>1, <1>3, <2>1 DEF MakeTakes, MakeSkips
    <2>3. /\ make'.ifs = make.ifs /\ make'.defines = 0
          /\ make'.skipping = (l.kind # "endef")
      BY <1>1, <2>1, <2>2 DEF MakeType
    <2>4. core'.ifs = core.ifs /\ core'.defines = IF l.kind = "endef" THEN 0 ELSE 1
      BY <1>2, <2>1
    <2>5. ~Live'
      BY <2>1, <2>3 DEF Live
    <2>6. QED
      BY <2>1, <2>3, <2>4, <2>5 DEF SameBlocks
  <1>4. CASE ~make.skipping /\ make.defines > 0
    <2>1. core.defines = make.defines /\ make' = MakeDefines(l)
      BY <1>1, <1>4 DEF SameBlocks, MakeTakes
    <2>2. /\ make'.ifs = make.ifs /\ make'.skipping = FALSE
          /\ make'.defines = IF l.kind = "define" THEN make.defines + 1
                             ELSE IF l.kind = "endef" THEN make.defines - 1
                             ELSE make.defines
      <3>1. CASE l.kind = "endef" /\ make.defines = 1
        <4>1. make' = [make EXCEPT !.defines = 0, !.defining = "none", !.body = {},
                         !.vars = [make.vars EXCEPT ![make.defining] = Recursive(make.body)]]
          BY <1>1, <2>1, <3>1 DEF MakeDefines, MakeType
        <4>2. QED
          BY <1>1, <1>4, <3>1, <4>1 DEF MakeType
      <3>2. CASE l.kind = "endef" /\ make.defines # 1
        BY <1>1, <1>4, <2>1, <3>2 DEF MakeDefines, MakeType
      <3>3. CASE l.kind = "define"
        BY <1>1, <1>4, <2>1, <3>3 DEF MakeDefines, MakeType
      <3>4. CASE l.kind \notin {"define", "endef"}
        BY <1>1, <1>4, <2>1, <3>4 DEF MakeDefines, MakeType
      <3>5. QED
        BY <3>1, <3>2, <3>3, <3>4
    <2>3. QED
      BY <1>1, <1>2, <1>4, <2>1, <2>2 DEF SameBlocks
  <1>5. CASE ~make.skipping /\ make.defines = 0 /\ Live
    <2>1. core.defines = 0 /\ make' \in MakeLine(l)
      BY <1>1, <1>5 DEF SameBlocks, MakeTakes
    <2>2. /\ make'.skipping = FALSE
          /\ l.kind = "if" => Len(make'.ifs) = Len(make.ifs) + 1
          /\ l.kind = "endif" => make.ifs # << >> /\ Len(make'.ifs) = Len(make.ifs) - 1
          /\ l.kind \notin {"if", "endif"} => make'.ifs = make.ifs
          /\ make'.defines = IF l.kind = "define" THEN 1 ELSE 0
      BY <1>1, <1>5, <2>1, MakeLineBlocks
    <2>3. make.ifs # << >> => Len(make.ifs) > 0
      BY <1>1, ClosedOne
    <2>4. QED
      BY <1>1, <1>2, <2>1, <2>2, <2>3 DEF SameBlocks
  <1>6. CASE ~make.skipping /\ make.defines = 0 /\ ~Live
    <2>1. core.defines = 0 /\ make' = MakeSkips(l) /\ core.ifs = Len(make.ifs)
      BY <1>1, <1>6 DEF SameBlocks, MakeTakes
    <2>2. Len(make.ifs) > 0 /\ Len(make.ifs) \in Nat
      <3>1. make.ifs # << >>
        BY <1>6 DEF Live
      <3>2. QED
        BY <1>1, <3>1, ClosedOne, LenProperties
    <2>3. CASE l.kind = "define"
      <3>1. make'.ifs = make.ifs /\ make'.skipping = TRUE /\ make'.defines = 0
        BY <1>1, <1>6, <2>1, <2>3 DEF MakeSkips, MakeType
      <3>2. ~Live'
        BY <1>6, <3>1 DEF Live
      <3>3. QED
        BY <1>2, <2>1, <2>3, <3>1, <3>2 DEF SameBlocks
    <2>4. CASE l.kind = "if"
      <3>1. /\ make'.ifs = Append(make.ifs, FALSE) /\ make'.skipping = FALSE
            /\ make'.defines = 0
        BY <1>1, <1>6, <2>1, <2>4 DEF MakeSkips, MakeType
      <3>2. Len(Append(make.ifs, FALSE)) = Len(make.ifs) + 1
        BY <1>1, OpenedOne
      <3>3. QED
        BY <1>2, <2>1, <2>4, <3>1, <3>2 DEF SameBlocks
    <2>5. CASE l.kind = "endif"
      <3>1. /\ make'.ifs = SubSeq(make.ifs, 1, Len(make.ifs) - 1)
            /\ make'.skipping = FALSE /\ make'.defines = 0
        BY <1>1, <1>6, <2>1, <2>5 DEF MakeSkips, MakeType
      <3>2. Len(SubSeq(make.ifs, 1, Len(make.ifs) - 1)) = Len(make.ifs) - 1
        BY <1>1, <1>6, ClosedOne DEF Live
      <3>3. QED
        BY <1>2, <2>1, <2>2, <2>5, <3>1, <3>2 DEF SameBlocks
    <2>6. CASE l.kind \notin {"define", "if", "endif"}
      <3>1. make' = make
        BY <1>1, <1>6, <2>1, <2>6 DEF MakeSkips
      <3>2. QED
        BY <1>2, <1>6, <2>1, <2>6, <3>1 DEF SameBlocks
    <2>7. QED
      BY <2>3, <2>4, <2>5, <2>6
  <1>7. QED
    BY <1>1, <1>3, <1>4, <1>5, <1>6

(***************************************************************************)
(* Lines.                                                                  *)
(***************************************************************************)

\* A line that Core does not blank is heeded by make.
LEMMA HeededByBoth ==
  ASSUME ReadersTyped, SameBlocks, core.ifs = 0, core.defines = 0
  PROVE  Live /\ make.defines = 0 /\ ~make.skipping /\ make.ifs = << >>
  <1>1. make.ifs \in Seq(BOOLEAN) /\ make.skipping \in BOOLEAN
    BY DEF ReadersTyped, MakeType
  <1>2. make.ifs = << >>
    <2>1. make.ifs # << >> => Len(make.ifs) > 0
      BY <1>1, ClosedOne
    <2>2. Len(make.ifs) = 0
      BY DEF SameBlocks
    <2>3. QED
      BY <2>1, <2>2
  <1>3. Live
    BY <1>1, <1>2 DEF Live
  <1>4. QED
    BY <1>1, <1>2, <1>3 DEF SameBlocks

\* What the readers have after a line, field by field.
LEMMA CoreAfter ==
  ASSUME core \in CoreType, NEW l \in Taken, Together(l)
  PROVE  /\ core' = [CoreReads(l) EXCEPT !.facade = core'.facade]
         /\ core'.facade = (core.facade \/ l.kind = "facade")
         /\ core'.prefix = CoreReads(l).prefix /\ core'.open = CoreReads(l).open
         /\ core'.vars = CoreReads(l).vars /\ core'.phony = CoreReads(l).phony
         /\ core'.implemented = CoreReads(l).implemented
  <1>1. CoreReads(l) \in CoreType
    BY CoreReadsTyped
  <1>2. core' = [CoreReads(l) EXCEPT !.facade = @ \/ l.kind = "facade"]
    BY DEF Together
  <1>3. CoreReads(l).facade = core.facade
    <2>1. \A c \in CoreType : CoreLine(c, l).facade = c.facade
      BY LineFields DEF CoreLine, CoreRule, CoreRecipe, CoreType
    <2>2. QED
      BY <2>1 DEF CoreReads, CoreType
  <1>4. QED
    BY <1>1, <1>2, <1>3 DEF CoreType

\* A line that Core blanks changes nothing of what make has of the leaf, unless
\* it misleads Core.
LEMMA MakeUnheeded ==
  ASSUME ReadersTyped, SameBlocks, core.ifs > 0 \/ core.defines > 0,
         NEW l \in Taken, Together(l), ~make'.failed
  PROVE  /\ make'.vars = make.vars /\ make'.prefix = make.prefix
         /\ make'.phony = make.phony /\ make'.facade = make.facade
         /\ make'.needs = make.needs /\ make'.target \in {make.target, "none"}
         /\ make.recipe = "work" => make'.recipe = "work"
  <1>1. /\ make \in MakeType /\ make' \in MakeTakes(l) /\ make.defines \in Nat
        /\ ~Hidden(l) /\ ~(make.recipe = "work" /\ make'.recipe = "empty")
    BY DEF ReadersTyped, MakeType, Together, Emptied
  <1>2. make' # Failing
    BY <1>1 DEF Failing, MakeType
  <1>3. CASE make.defines > 0
    <2>1. make' = MakeDefines(l)
      BY <1>1, <1>3 DEF MakeTakes
    <2>2. CASE l.kind = "endef" /\ make.defines = 1
      <3>1. make'.vars = make.vars
        BY <1>1, <2>2 DEF Hidden
      <3>2. make' = [make EXCEPT !.defines = 0, !.defining = "none", !.body = {},
                       !.vars = [make.vars EXCEPT ![make.defining] = Recursive(make.body)]]
        BY <1>1, <2>1, <2>2 DEF MakeDefines, MakeType
      <3>3. QED
        BY <1>1, <3>1, <3>2 DEF MakeType
    <2>3. CASE ~(l.kind = "endef" /\ make.defines = 1)
      BY <1>1, <1>3, <2>1, <2>3 DEF MakeDefines, MakeType
    <2>4. QED
      BY <2>2, <2>3
  <1>4. CASE make.defines = 0 /\ Live
    <2>1. /\ l.kind \in {"blank", "comment", "recipe", "led", "if", "endif", "define", "endef"}
          /\ make' \in MakeLine(l)
      BY <1>1, <1>4 DEF Hidden, Directive, MakeTakes
    <2>2. CASE l.kind \in {"recipe", "led"}
      <3>1. AsRecipe(l) \in {"empty", "work"}
        BY <2>2, LineFields
      <3>2. make' = MakeRecipe(l)
        BY <2>1, <2>2 DEF MakeLine
      <3>3. PICK r : make' = make \/ make' = [make EXCEPT !.fresh = FALSE, !.recipe = r]
        BY <1>2, <3>2 DEF MakeRecipe
      <3>4. r \in {"empty", "work"} \/ r = make.recipe \/ make' = make
        BY <3>1, <3>2, <3>3, <1>1, <1>2 DEF MakeRecipe, MakeType
      <3>5. QED
        BY <1>1, <3>3, <3>4 DEF MakeType
    <2>3. CASE l.kind = "if"
      BY <1>1, <2>1, <2>3 DEF MakeLine, MakeType
    <2>4. CASE l.kind \in {"blank", "comment", "endif", "endef"}
      BY <1>1, <1>2, <2>1, <2>4 DEF MakeLine, MakeType
    <2>5. CASE l.kind = "define"
      BY <1>1, <2>1, <2>5 DEF MakeLine, Ending, MakeType
    <2>6. QED
      BY <2>1, <2>2, <2>3, <2>4, <2>5
  <1>5. CASE make.defines = 0 /\ ~Live
    <2>1. make' = MakeSkips(l)
      BY <1>1, <1>5 DEF MakeTakes
    <2>2. QED
      BY <1>1, <2>1 DEF MakeSkips, MakeType
  <1>6. QED
    BY <1>1, <1>3, <1>4, <1>5

\* ... and the variables in agreement: assignments that only make sees mislead.
LEMMA SameVariablesStep ==
  ASSUME ReadersTyped, Agreement, NEW l \in Taken, Together(l), ~make'.failed
  PROVE  SameVariables'
  <1>1. /\ core \in CoreType /\ make \in MakeType /\ core.vars \in Known
        /\ make.vars \in Known /\ core.ifs \in Nat /\ core.defines \in Nat
        /\ SameBlocks /\ SameVariables
    BY DEF ReadersTyped, CoreType, MakeType, Agreement
  <1>2. core'.vars = CoreReads(l).vars
    BY <1>1, CoreAfter
  <1>3. CASE core.ifs > 0 \/ core.defines > 0
    <2>1. core'.vars = core.vars
      BY <1>1, <1>2, <1>3, CoreBlocks
    <2>2. make'.vars = make.vars
      BY <1>1, <1>3, MakeUnheeded
    <2>3. QED
      BY <1>1, <2>1, <2>2 DEF SameVariables
  <1>4. CASE core.ifs = 0 /\ core.defines = 0
    <2>1. make' \in MakeLine(l) /\ make' # Failing
      <3>1. Live /\ make.defines = 0
        BY <1>1, <1>4, HeededByBoth
      <3>2. QED
        BY <3>1, <1>1 DEF Together, MakeTakes, Failing, MakeType
    <2>2. l.kind \notin {"define", "if"} => CoreReads(l) = CoreLine(core, l)
      BY <1>1, <1>4, CoreBlocks
    <2>3. CASE l.kind = "assign"
      <3>1. l.var \in Vars
        BY <2>3, LineFields
      <3>2. PICK x \in MakeAssigned(make.vars, l) : make' = [Ending EXCEPT !.vars[l.var] = x]
        BY <2>1, <2>3 DEF MakeLine
      <3>3. make'.vars = [make.vars EXCEPT ![l.var] = x]
        BY <3>2, <1>1 DEF Ending, MakeType
      <3>4. core'.vars = [core.vars EXCEPT ![l.var] = CoreAssigned(core.vars, l)]
        BY <1>1, <1>2, <2>2, <2>3 DEF CoreLine, CoreType
      <3>5. ~Deferred(l)
        BY DEF Together
      <3>6. Agrees(CoreAssigned(core.vars, l), x)
        BY <1>1, <2>3, <3>5, AssignedAgrees DEF SameVariables, Deferred
      <3>7. ASSUME NEW v \in Vars
            PROVE  Agrees(core'.vars[v], make'.vars[v])
        BY <1>1, <3>1, <3>3, <3>4, <3>6 DEF SameVariables, Known
      <3>8. QED
        BY <3>7 DEF SameVariables
    <2>4. CASE l.kind = "undefine"
      <3>1. l.var \in Vars
        BY <2>4, LineFields
      <3>2. make'.vars = [make.vars EXCEPT ![l.var] = Undefined]
        BY <2>1, <2>4, <1>1 DEF MakeLine, Ending, MakeType
      <3>3. core'.vars = [core.vars EXCEPT ![l.var] = Undefined]
        BY <1>1, <1>2, <2>2, <2>4 DEF CoreLine, CoreType
      <3>4. Agrees(Undefined, Undefined)
        BY DEF Agrees, Undefined
      <3>5. ASSUME NEW v \in Vars
            PROVE  Agrees(core'.vars[v], make'.vars[v])
        BY <1>1, <3>1, <3>2, <3>3, <3>4 DEF SameVariables, Known
      <3>6. QED
        BY <3>5 DEF SameVariables
    <2>5. CASE l.kind \notin {"assign", "undefine"}
      <3>1. core'.vars = core.vars
        <4>1. CASE l.kind \in {"define", "if"}
          BY <1>1, <1>2, <4>1, CoreBlocks
        <4>2. CASE l.kind \notin {"define", "if"}
          BY <1>1, <1>2, <2>2, <2>5, <4>2, LineFields
            DEF CoreLine, CoreRule, CoreRecipe, CoreType
        <4>3. QED
          BY <4>1, <4>2
      <3>2. make'.vars = make.vars
        <4>1. CASE l.kind \in {"rule", "recipe", "led"}
          <5>1. make' = MakeRule(l) \/ make' = MakeRecipe(l)
            BY <2>1, <4>1 DEF MakeLine
          <5>2. QED
            BY <1>1, <2>1, <5>1 DEF MakeRule, MakeRecipe, MakeType
        <4>2. CASE l.kind \in {"specific", "blank", "comment", "prefix", "define"}
          BY <1>1, <2>1, <4>2 DEF MakeLine, Ending, MakeType
        <4>3. CASE l.kind \in {"phony", "facade", "other", "endif", "endef", "error"}
          BY <1>1, <2>1, <4>3 DEF MakeLine, MakeType
        <4>4. CASE l.kind = "if"
          BY <1>1, <2>1, <4>4 DEF MakeLine, MakeType
        <4>5. QED
          BY <2>5, <4>1, <4>2, <4>3, <4>4, LineFields
      <3>3. QED
        BY <1>1, <3>1, <3>2 DEF SameVariables
    <2>6. QED
      BY <2>3, <2>4, <2>5
  <1>5. QED
    BY <1>1, <1>3, <1>4

\* ... and the leaf: what Core takes for a rule or a recipe, make takes for one.
LEMMA SameRuleStep ==
  ASSUME ReadersTyped, Agreement, NEW l \in Taken, Together(l), ~make'.failed
  PROVE  SameRule'
  <1>1. /\ core \in CoreType /\ make \in MakeType /\ core.ifs \in Nat /\ core.defines \in Nat
        /\ SameBlocks /\ SameVariables /\ SameRule
        /\ core.open \in BOOLEAN /\ core.implemented \in BOOLEAN /\ core.facade \in BOOLEAN
        /\ make.needs \in BOOLEAN /\ make.facade \in BOOLEAN
        /\ make.target \in {"none", "leaf", "other"}
        /\ ~(make.recipe = "work" /\ make'.recipe = "empty")
    BY DEF ReadersTyped, CoreType, MakeType, Agreement, Together, Emptied
  <1> DEFINE c == CoreReads(l)
  <1>2. /\ core'.prefix = c.prefix /\ core'.open = c.open /\ core'.phony = c.phony
        /\ core'.implemented = c.implemented /\ core'.facade = (core.facade \/ l.kind = "facade")
    BY <1>1, CoreAfter
  <1> HIDE DEF c
  <1>3. CASE core.ifs > 0 \/ core.defines > 0
    <2>1. /\ c.prefix = core.prefix /\ c.open = core.open /\ c.phony = core.phony
          /\ c.implemented = core.implemented
      BY <1>1, <1>3, CoreBlocks DEF c
    <2>2. /\ make'.prefix = make.prefix
          /\ make'.phony = make.phony /\ make'.facade = make.facade
          /\ make'.needs = make.needs /\ make'.target \in {make.target, "none"}
          /\ make.recipe = "work" => make'.recipe = "work"
      BY <1>1, <1>3, MakeUnheeded
    <2>3. QED
      BY <1>1, <1>2, <2>1, <2>2 DEF SameRule
  <1>4. CASE core.ifs = 0 /\ core.defines = 0
    <2>1. make' \in MakeLine(l) /\ make' # Failing /\ make.ifs = << >>
      <3>1. Live /\ make.defines = 0 /\ make.ifs = << >>
        BY <1>1, <1>4, HeededByBoth
      <3>2. QED
        BY <3>1, <1>1 DEF Together, MakeTakes, Failing, MakeType
    <2>2. l.kind \notin {"define", "if"} => c = CoreLine(core, l)
      BY <1>1, <1>4, CoreBlocks DEF c
    <2>3. CASE l.kind = "rule"
      <3>1. PICK e \in BOOLEAN : e = (Proven(core.vars, l.needs) \/ l.inline = "work")
        BY DEF Proven
      <3>2. /\ c.prefix = core.prefix /\ c.phony = core.phony
            /\ c.implemented = (core.implemented \/ e) /\ c.open = ~e
        BY <1>1, <2>2, <2>3, <3>1 DEF CoreLine, CoreRule, CoreType
      <3>3. make' = MakeRule(l)
        BY <2>1, <2>3 DEF MakeLine
      <3>4. PICK n \in BOOLEAN : n = (make.needs \/ Proven(make.vars, l.needs))
        BY <1>1 DEF Proven
      <3>5. make' = [make EXCEPT !.target = "leaf", !.needs = n,
                       !.fresh = (l.inline = "absent"),
                       !.recipe = IF l.inline = "absent" THEN make.recipe ELSE l.inline]
        BY <2>1, <3>3, <3>4 DEF MakeRule
      <3>6. /\ make'.prefix = make.prefix /\ make'.phony = make.phony
            /\ make'.facade = make.facade /\ make'.target = "leaf" /\ make'.needs = n
            /\ make'.recipe = IF l.inline = "absent" THEN make.recipe ELSE l.inline
        BY <3>5, <1>1 DEF MakeType
      <3>7. l.inline \in {"absent", "empty", "work"}
        BY <2>3, LineFields
      <3>8. Proven(core.vars, l.needs) => n
        BY <1>1, <3>4, ProvenMonotone DEF SameVariables, Agrees
      <3>9. core.implemented => n \/ make'.recipe = "work"
        BY <1>1, <3>4, <3>6, <3>7 DEF SameRule
      <3>10. e => n \/ make'.recipe = "work"
        BY <3>1, <3>6, <3>7, <3>8
      <3>11. QED
        BY <1>1, <1>2, <2>3, <3>2, <3>6, <3>9, <3>10 DEF SameRule
    <2>4. CASE l.kind \in {"recipe", "led"}
      <3>1. AsRecipe(l) \in {"empty", "work"}
        BY <2>4, LineFields
      <3>2. make' = MakeRecipe(l) /\ c = CoreRecipe(core, l)
        BY <2>1, <2>2, <2>4 DEF MakeLine, CoreLine
      <3>3. CASE l.by = make.prefix /\ make.target = "leaf"
        <4>1. make' = [make EXCEPT !.fresh = FALSE,
                 !.recipe = IF make.fresh \/ AsRecipe(l) = "work" THEN AsRecipe(l) ELSE make.recipe]
          BY <3>2, <3>3 DEF MakeRecipe
        <4>2. /\ make'.prefix = make.prefix /\ make'.phony = make.phony
              /\ make'.facade = make.facade /\ make'.target = "leaf"
              /\ make'.needs = make.needs
              /\ make'.recipe = IF make.fresh \/ AsRecipe(l) = "work" THEN AsRecipe(l) ELSE make.recipe
          BY <3>3, <4>1, <1>1 DEF MakeType
        <4>3. /\ c.prefix = core.prefix /\ c.phony = core.phony
              /\ c.open = (core.open /\ AsRecipe(l) # "work")
              /\ c.implemented = (core.implemented \/ (core.open /\ AsRecipe(l) = "work"))
          BY <1>1, <3>2, <3>3 DEF CoreRecipe, CoreRule, CoreType, SameRule
        <4>4. core.implemented => make'.needs \/ make'.recipe = "work"
          BY <1>1, <3>1, <4>2 DEF SameRule
        <4>5. AsRecipe(l) = "work" => make'.recipe = "work"
          BY <4>2
        <4>6. QED
          BY <1>1, <1>2, <2>4, <4>2, <4>3, <4>4, <4>5 DEF SameRule
      <3>4. CASE ~(l.by = make.prefix /\ make.target = "leaf")
        <4>1. make' = make
          BY <1>1, <2>1, <3>2, <3>4 DEF MakeRecipe
        <4>2. /\ c.prefix = core.prefix /\ c.phony = core.phony
              /\ c.open => core.open
              /\ c.implemented = core.implemented
          <5>1. CASE l.by = make.prefix /\ make.target = "other"
            BY <1>1, <3>2, <5>1 DEF CoreRecipe, CoreType, SameRule
          <5>2. CASE l.by = make.prefix /\ make.target = "none"
            <6>1. AsRecipe(l) = "empty"
              BY <2>1, <2>4, <3>1, <3>2, <5>2 DEF MakeRecipe, Whitespace, AsRecipe
            <6>2. QED
              BY <1>1, <3>2, <5>2, <6>1 DEF CoreRecipe, CoreType, SameRule
          <5>3. CASE l.by # make.prefix
            BY <1>1, <3>2, <5>3 DEF CoreRecipe, CoreType, SameRule
          <5>4. QED
            BY <1>1, <3>4, <5>1, <5>2, <5>3
        <4>3. QED
          BY <1>1, <1>2, <2>4, <4>1, <4>2 DEF SameRule
      <3>5. QED
        BY <3>3, <3>4
    <2>5. CASE l.kind = "assign"
      <3>1. PICK x : make' = [Ending EXCEPT !.vars[l.var] = x]
        BY <2>1, <2>5 DEF MakeLine
      <3>2. /\ make'.prefix = make.prefix /\ make'.phony = make.phony
            /\ make'.facade = make.facade /\ make'.target = "none"
            /\ make'.needs = make.needs /\ make'.recipe = make.recipe
        BY <1>1, <3>1 DEF Ending, MakeType
      <3>3. /\ c.prefix = core.prefix /\ c.phony = core.phony /\ c.open = FALSE
            /\ c.implemented = core.implemented
        BY <1>1, <2>2, <2>5 DEF CoreLine, CoreType
      <3>4. QED
        BY <1>1, <1>2, <2>5, <3>2, <3>3 DEF SameRule
    <2>6. CASE l.kind \in {"specific", "undefine", "prefix"}
      <3>1. /\ make'.prefix = (IF l.kind = "prefix" THEN l.to ELSE make.prefix)
            /\ make'.phony = make.phony /\ make'.facade = make.facade
            /\ make'.target = "none" /\ make'.needs = make.needs
            /\ make'.recipe = make.recipe
        BY <1>1, <2>1, <2>6 DEF MakeLine, Ending, MakeType
      <3>2. /\ c.prefix = (IF l.kind = "prefix" THEN l.to ELSE core.prefix)
            /\ c.phony = core.phony /\ c.implemented = core.implemented
        BY <1>1, <2>2, <2>6 DEF CoreLine, CoreRule, CoreType
      <3>3. QED
        BY <1>1, <1>2, <2>6, <3>1, <3>2 DEF SameRule
    <2>7. CASE l.kind \in {"phony", "facade", "other"}
      <3>1. /\ make'.prefix = make.prefix
            /\ make'.phony = (make.phony \/ l.kind = "phony")
            /\ make'.facade = (make.facade \/ l.kind = "facade")
            /\ make'.needs = make.needs /\ make'.recipe = make.recipe
        BY <1>1, <2>1, <2>7 DEF MakeLine, MakeType
      <3>2. /\ c.prefix = core.prefix /\ c.open = FALSE
            /\ c.phony = (core.phony \/ l.kind = "phony")
            /\ c.implemented = core.implemented
        BY <1>1, <2>2, <2>7 DEF CoreLine, CoreType
      <3>3. QED
        BY <1>1, <1>2, <2>7, <3>1, <3>2 DEF SameRule
    <2>8. CASE l.kind \in {"if", "define", "blank", "comment"}
      <3>1. /\ make'.prefix = make.prefix /\ make'.phony = make.phony
            /\ make'.facade = make.facade /\ make'.target \in {make.target, "none"}
            /\ make'.needs = make.needs /\ make'.recipe = make.recipe
        <4>1. CASE l.kind \in {"blank", "comment"}
          BY <1>1, <2>1, <4>1 DEF MakeLine
        <4>2. CASE l.kind = "if"
          BY <1>1, <2>1, <4>2 DEF MakeLine, MakeType
        <4>3. CASE l.kind = "define"
          BY <1>1, <2>1, <4>3 DEF MakeLine, Ending, MakeType
        <4>4. QED
          BY <2>8, <4>1, <4>2, <4>3
      <3>2. /\ c.prefix = core.prefix /\ c.phony = core.phony /\ c.open = core.open
            /\ c.implemented = core.implemented
        <4>1. CASE l.kind \in {"blank", "comment"}
          BY <2>2, <4>1 DEF CoreLine
        <4>2. CASE l.kind \in {"if", "define"}
          BY <1>1, <4>2, CoreBlocks DEF c
        <4>3. QED
          BY <2>8, <4>1, <4>2
      <3>3. QED
        BY <1>1, <1>2, <2>8, <3>1, <3>2 DEF SameRule
    <2>9. CASE l.kind \in {"endif", "endef", "error"}
      BY <2>1, <2>9 DEF MakeLine
    <2>10. QED
      BY <2>3, <2>4, <2>5, <2>6, <2>7, <2>8, <2>9, LineFields
  <1>5. QED
    BY <1>1, <1>3, <1>4

(***************************************************************************)
(* The readers agree.                                                      *)
(***************************************************************************)

\* Every step preserves the invariant.
LEMMA AgreementStep ==
  ASSUME ReadersAgree, [RepoMkNext]_repoMkVars
  PROVE  ReadersAgree'
  <1>1. ReadersTyped /\ ReadersTyped'
    BY Typing DEF ReadersAgree
  <1>2. CASE UNCHANGED repoMkVars
    <2>1. UNCHANGED <<core, make, misled>>
      BY <1>2 DEF repoMkVars
    <2>2. QED
      BY <1>1, <2>1 DEF ReadersAgree, Agreement, SameBlocks, SameVariables, SameRule, Live
  <1>3. ASSUME NEW l \in Lines, Read(l), ~misled', ~make'.failed
        PROVE  Agreement'
    <2>1. Agreement
      BY <1>3 DEF ReadersAgree, Read
    <2>2. ASSUME NEW x \in Lines, Together(x)
          PROVE  Agreement'
      <3>1. x \in Taken
        BY PlainIsLine
      <3>2. SameBlocks'
        BY <1>1, <1>3, <2>1, <2>2, <3>1, SameBlocksStep DEF Agreement
      <3>3. SameVariables'
        BY <1>1, <1>3, <2>1, <2>2, <3>1, SameVariablesStep
      <3>4. SameRule'
        BY <1>1, <1>3, <2>1, <2>2, <3>1, SameRuleStep
      <3>5. QED
        BY <3>2, <3>3, <3>4 DEF Agreement
    <2>3. CASE core' = core /\ make' = make
      BY <2>1, <2>3 DEF Agreement, SameBlocks, SameVariables, SameRule, Live
    <2>4. (\E x \in Lines : Together(x)) \/ (core' = core /\ make' = make)
      BY <1>1, <1>3, <2>1, ReadTogether DEF Agreement
    <2>5. QED
      BY <2>2, <2>3, <2>4
  <1>4. QED
    BY <1>1, <1>2, <1>3 DEF ReadersAgree, RepoMkNext

\* Before the first line, only the environment is known, to make.
LEMMA AgreementInit ==
  ASSUME RepoMkInit
  PROVE  ReadersAgree
  <1>1. PICK phony \in BOOLEAN,
             env \in [Vars -> {Undefined, Recursive({}), Recursive({"word"})}] :
          /\ lines = 0 /\ misled = FALSE
          /\ core = [ifs |-> 0, defines |-> 0, prefix |-> "tab", open |-> FALSE,
                     vars |-> [v \in Vars |-> Undefined],
                     phony |-> phony, implemented |-> FALSE, facade |-> FALSE]
          /\ make = [ifs |-> << >>, skipping |-> FALSE, defines |-> 0, defining |-> "none",
                     prefix |-> "tab", body |-> {}, vars |-> env, target |-> "none",
                     fresh |-> FALSE, needs |-> FALSE, recipe |-> "absent",
                     phony |-> phony, facade |-> FALSE, failed |-> FALSE]
    BY DEF RepoMkInit
  <1>2. {Undefined, Recursive({}), Recursive({"word"})} \subseteq Variable
    BY DEF Variable, Undefined, Recursive, Text
  <1>3. env \in Known /\ [v \in Vars |-> Undefined] \in Known
    BY <1>2 DEF Known
  <1>4. << >> \in Seq(BOOLEAN) /\ Len(<< >>) = 0
    BY EmptySeq
  <1>5. core \in CoreType
    <2>1. "tab" \in Prefix
      BY DEF Prefix
    <2>2. QED
      BY <1>1, <1>3, <2>1 DEF CoreType
  <1>6. make \in MakeType
    <2>1. "tab" \in Prefix /\ {} \in SUBSET {"word"}
      BY DEF Prefix
    <2>2. QED
      BY <1>1, <1>3, <1>4, <2>1 DEF MakeType
  <1>7. ReadersTyped
    BY <1>1, <1>5, <1>6 DEF ReadersTyped
  <1>8. SameBlocks
    BY <1>1, <1>4 DEF SameBlocks
  <1>9. SameVariables
    <2>1. ASSUME NEW v \in Vars
          PROVE  Agrees(core.vars[v], make.vars[v])
      <3>1. core.vars[v] = Undefined /\ make.vars[v] = env[v]
        BY <1>1
      <3>2. env[v] = Undefined \/ env[v].flavor = "recursive"
        BY DEF Recursive
      <3>3. QED
        BY <3>1, <3>2 DEF Agrees, Undefined
    <2>2. QED
      BY <2>1 DEF SameVariables
  <1>10. SameRule
    BY <1>1 DEF SameRule
  <1>11. QED
    BY <1>7, <1>8, <1>9, <1>10 DEF ReadersAgree, Agreement

\* After any number of lines, over any variables and values: unless make has
\* stopped or a line misled Core, the two readers are in the same block, and
\* what Core has proved of the variables and of the leaf is so for make
\* (implemented_leaves next to GNU Make).
THEOREM ReadersAlwaysAgree == RepoMkSpec => []ReadersAgree
  <1>1. RepoMkInit => ReadersAgree
    BY AgreementInit
  <1>2. ReadersAgree /\ [RepoMkNext]_repoMkVars => ReadersAgree'
    BY AgreementStep
  <1>3. QED
    BY <1>1, <1>2, PTL DEF RepoMkSpec

\* A leaf that validate_repo_mk_text accepts does the repository's work, or
\* make stops with an error, unless a line misled Core.
THEOREM AcceptedLeafWorksHolds == RepoMkSpec => []AcceptedLeafWorks
  <1>1. ReadersAgree => AcceptedLeafWorks
    BY DEF ReadersAgree, Agreement, SameRule, AcceptedLeafWorks, AcceptedLeafNeverIdle,
           Accepted, Stops, DoesWork
  <1>2. QED
    BY <1>1, ReadersAlwaysAgree, PTL
=============================================================================

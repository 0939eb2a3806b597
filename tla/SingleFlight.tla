---------------------------- MODULE SingleFlight ----------------------------
(***************************************************************************)
(* The directory lock of tools/l9_repo/locking.py and the one operation it *)
(* guards, `reconcile', at the granularity of single file-system calls.    *)
(*                                                                         *)
(* A process of Proc is one `python -m tools.l9_repo reconcile' at a time; *)
(* its name stands for its process identifier.  The lock is a directory:   *)
(* mkdir(2) succeeds for one caller.  An `owner' file inside names the     *)
(* holder, so that a contender who finds an old directory can tell a       *)
(* crashed holder from a slow one before it removes the directory.         *)
(***************************************************************************)
EXTENDS FiniteSets

CONSTANTS
  Proc,            \* processes that may run reconcile
  Prompt,          \* TRUE: only the guarded body may outlast stale_after
  SerialRecovery,  \* TRUE: dismantling a stale lock overlaps neither another
                   \*       dismantling nor a slow holder's release
  PidReuse,        \* TRUE: the OS may hand out a dead process's identifier
  Litter           \* TRUE: something else may put a file into the directory

Nobody == "nobody"     \* there is no owner file
Blank == "blank"       \* an owner file created or truncated, not yet written

ASSUME ProcAssumption == Nobody \notin Proc /\ Blank \notin Proc
ASSUME FlagAssumption ==
  {Prompt, SerialRecovery, PidReuse, Litter} \subseteq BOOLEAN

VARIABLES
  pc,        \* [Proc -> where the process stands]
  outcome,   \* [Proc -> how its last invocation ended]
  entries,   \* [Proc -> whether its listing of the lock showed an owner]
  probed,    \* [Proc -> the owner text it read]
  dir,       \* the lock directory exists
  aged,      \* ... and its mtime is more than stale_after in the past
  owner,     \* the owner file: Nobody, Blank or the pid it names
  fds,       \* processes whose open file is the present owner file
  foreign,   \* the directory holds an entry the lock did not make
  makefile,  \* the guarded file
  interfered \* history: a process was killed or a stray file appeared

local == <<pc, outcome, entries, probed>>
lock == <<dir, aged, owner, fds, foreign>>
vars == <<pc, outcome, entries, probed, dir, aged, owner, fds, foreign,
          makefile, interfered>>

Recovering == {"list", "inspect", "probe", "signal", "unlink", "rmdir"}
Body == {"load", "truncate", "fill"}
Held == {"open", "write"} \cup Body \cup {"unmark", "close"}
Running == {"mkdir", "stat", "remkdir"} \cup Recovering \cup Held
Stages == {"idle", "dead", "recycled"} \cup Running

(* os.kill(pid, 0): the pid is borne by a running process, this one or an  *)
(* unrelated one that inherited the number.                                *)
Alive(p) == pc[p] \in Running \cup {"recycled"}

Holders == {p \in Proc : pc[p] \in Held}
Inside == {p \in Proc : pc[p] \in Body}
Unmarked == {p \in Proc : pc[p] \in Held \ Body}

(* What SerialRecovery withholds: leaving the body while another process   *)
(* dismantles the lock, and dismantling it while another process does so   *)
(* or releases it.                                                         *)
MayLeave(p) ==
  SerialRecovery => \A q \in Proc \ {p} : pc[q] \notin Recovering
MayRecover(p) ==
  SerialRecovery =>
    \A q \in Proc \ {p} : pc[q] \notin Recovering \cup {"unmark", "close"}

TypeOK ==
  /\ pc \in [Proc -> Stages]
  /\ outcome \in [Proc -> {"none", "ok", "busy", "failed"}]
  /\ entries \in [Proc -> BOOLEAN]
  /\ probed \in [Proc -> Proc \cup {Nobody, Blank}]
  /\ dir \in BOOLEAN
  /\ aged \in BOOLEAN
  /\ owner \in Proc \cup {Nobody, Blank}
  /\ fds \in SUBSET Proc
  /\ foreign \in BOOLEAN
  /\ makefile \in {"current", "drifted", "partial", "symlink"}
  /\ interfered \in BOOLEAN

Init ==
  /\ pc = [p \in Proc |-> "idle"]
  /\ outcome = [p \in Proc |-> "none"]
  /\ entries = [p \in Proc |-> FALSE]
  /\ probed = [p \in Proc |-> Nobody]
  /\ dir = FALSE
  /\ aged = FALSE
  /\ owner = Nobody
  /\ fds = {}
  /\ foreign = FALSE
  /\ makefile \in {"current", "drifted", "symlink"}
  /\ interfered = FALSE

-----------------------------------------------------------------------------
(* Helpers: moving a process, and what each call does to the directory.    *)

Goto(p, stage) == pc' = [pc EXCEPT ![p] = stage]

(* An exception before the lock is taken: LockBusy, exit status 2.         *)
GiveUp(p) ==
  /\ Goto(p, "idle")
  /\ outcome' = [outcome EXCEPT ![p] = "busy"]
  /\ entries' = [entries EXCEPT ![p] = FALSE]
  /\ probed' = [probed EXCEPT ![p] = Nobody]

(* Path.mkdir on a free path; a new directory has a new mtime.             *)
MakeDir ==
  /\ dir' = TRUE
  /\ aged' = FALSE
  /\ UNCHANGED <<owner, fds, foreign>>

(* owner.unlink(missing_ok=True); removing an entry refreshes the mtime.   *)
UnlinkOwner ==
  /\ owner' = Nobody
  /\ fds' = {}
  /\ aged' = (aged /\ owner = Nobody)
  /\ UNCHANGED <<dir, foreign>>

(* path.rmdir(): only an empty directory goes.                             *)
Removable == dir /\ owner = Nobody /\ ~foreign
RemoveDir ==
  /\ dir' = FALSE
  /\ aged' = FALSE
  /\ UNCHANGED <<owner, fds, foreign>>

-----------------------------------------------------------------------------
(* Plausible wrong versions of steps below.                                *)

StatIgnoringAge(p) ==
  /\ pc[p] = "stat"
  /\ MayRecover(p)
  /\ Goto(p, "list")
  /\ UNCHANGED <<outcome, entries, probed, lock, makefile, interfered>>

StatWaiting(p) ==
  /\ pc[p] = "stat"
  /\ Goto(p, IF dir THEN "stat" ELSE "mkdir")
  /\ UNCHANGED <<outcome, entries, probed, lock, makefile, interfered>>

StatNeverReclaiming(p) ==
  /\ pc[p] = "stat"
  /\ GiveUp(p)
  /\ UNCHANGED <<lock, makefile, interfered>>

WriteUnflushed(p) ==
  /\ pc[p] = "write"
  /\ Goto(p, "load")
  /\ UNCHANGED <<outcome, entries, probed, lock, makefile, interfered>>

MkdirExistOk(p) ==
  /\ pc[p] = "mkdir"
  /\ MakeDir
  /\ Goto(p, "open")
  /\ UNCHANGED <<outcome, entries, probed, makefile, interfered>>

SignalIgnoringHolder(p) ==
  /\ pc[p] = "signal"
  /\ probed' = [probed EXCEPT ![p] = Nobody]
  /\ Goto(p, "unlink")
  /\ UNCHANGED <<outcome, entries, lock, makefile, interfered>>

RemkdirExistOk(p) ==
  /\ pc[p] = "remkdir"
  /\ MakeDir
  /\ Goto(p, "open")
  /\ UNCHANGED <<outcome, entries, probed, makefile, interfered>>

FillEarlyExit(p) ==
  /\ pc[p] = "fill"
  /\ MayLeave(p)
  /\ makefile' = makefile
  /\ outcome' = [outcome EXCEPT ![p] = "ok"]
  /\ Goto(p, "unmark")
  /\ UNCHANGED <<entries, probed, lock, interfered>>

CloseKeepingDirectory(p) ==
  /\ pc[p] = "close"
  /\ Goto(p, "idle")
  /\ UNCHANGED <<outcome, entries, probed, lock, makefile, interfered>>

-----------------------------------------------------------------------------
(* Acquiring.                                                              *)

(* locked_reconcile: the repository has a policy, so the lock is used.     *)
Start(p) ==
  /\ pc[p] = "idle"
  /\ Goto(p, "mkdir")
  /\ outcome' = [outcome EXCEPT ![p] = "none"]
  /\ UNCHANGED <<entries, probed, lock, makefile, interfered>>

Mkdir(p) ==
  /\ pc[p] = "mkdir"
  /\ \/ ~dir /\ MakeDir /\ Goto(p, "open")
     \/ dir /\ Goto(p, "stat") /\ UNCHANGED lock
  /\ UNCHANGED <<outcome, entries, probed, makefile, interfered>>

(* A directory that vanished meanwhile counts as age 0, hence busy.        *)
Stat(p) ==
  /\ pc[p] = "stat"
  /\ \/ /\ ~(dir /\ aged)
        /\ GiveUp(p)
     \/ /\ dir /\ aged
        /\ MayRecover(p)
        /\ Goto(p, "list")
        /\ UNCHANGED <<outcome, entries, probed>>
  /\ UNCHANGED <<lock, makefile, interfered>>

(* list(path.iterdir()): a missing directory is an OSError, a foreign      *)
(* entry makes the lock `not safely removable'.                            *)
List(p) ==
  /\ pc[p] = "list"
  /\ \/ /\ ~dir \/ foreign
        /\ GiveUp(p)
     \/ /\ dir /\ ~foreign
        /\ entries' = [entries EXCEPT ![p] = owner # Nobody]
        /\ Goto(p, "inspect")
        /\ UNCHANGED <<outcome, probed>>
  /\ UNCHANGED <<lock, makefile, interfered>>

(* entry.is_file() runs after the listing: the listed owner may be gone.   *)
Inspect(p) ==
  /\ pc[p] = "inspect"
  /\ \/ /\ entries[p] /\ owner = Nobody
        /\ GiveUp(p)
     \/ /\ ~(entries[p] /\ owner = Nobody)
        /\ entries' = [entries EXCEPT ![p] = FALSE]
        /\ Goto(p, "probe")
        /\ UNCHANGED <<outcome, probed>>
  /\ UNCHANGED <<lock, makefile, interfered>>

(* owner.is_file() and owner.read_text().                                  *)
Probe(p) ==
  /\ pc[p] = "probe"
  /\ probed' = [probed EXCEPT ![p] = owner]
  /\ Goto(p, IF owner = Nobody THEN "unlink" ELSE "signal")
  /\ UNCHANGED <<outcome, entries, lock, makefile, interfered>>

(* int() of a blank file fails and counts as dead; otherwise kill(pid, 0). *)
Signal(p) ==
  /\ pc[p] = "signal"
  /\ \/ /\ probed[p] \in Proc /\ Alive(probed[p])
        /\ GiveUp(p)
     \/ /\ ~(probed[p] \in Proc /\ Alive(probed[p]))
        /\ Goto(p, "unlink")
        /\ probed' = [probed EXCEPT ![p] = Nobody]
        /\ UNCHANGED <<outcome, entries>>
  /\ UNCHANGED <<lock, makefile, interfered>>

Unlink(p) ==
  /\ pc[p] = "unlink"
  /\ UnlinkOwner
  /\ Goto(p, "rmdir")
  /\ UNCHANGED <<outcome, entries, probed, makefile, interfered>>

Rmdir(p) ==
  /\ pc[p] = "rmdir"
  /\ \/ /\ Removable
        /\ RemoveDir
        /\ Goto(p, "remkdir")
        /\ UNCHANGED <<outcome, entries, probed>>
     \/ ~Removable /\ GiveUp(p) /\ UNCHANGED lock
  /\ UNCHANGED <<makefile, interfered>>

Remkdir(p) ==
  /\ pc[p] = "remkdir"
  /\ \/ /\ ~dir
        /\ MakeDir
        /\ Goto(p, "open")
        /\ UNCHANGED <<outcome, entries, probed>>
     \/ dir /\ GiveUp(p) /\ UNCHANGED lock
  /\ UNCHANGED <<makefile, interfered>>

-----------------------------------------------------------------------------
(* Holding: the owner file, the guarded body, the finally block.           *)

(* open(..., "w") creates or truncates the owner file; if the directory is *)
(* gone the error runs the finally block.                                  *)
Open(p) ==
  /\ pc[p] = "open"
  /\ \/ /\ dir
        /\ owner' = Blank
        /\ fds' = fds \cup {p}
        /\ aged' = (aged /\ owner # Nobody)
        /\ Goto(p, "write")
        /\ UNCHANGED <<outcome, dir, foreign>>
     \/ /\ ~dir
        /\ outcome' = [outcome EXCEPT ![p] = "failed"]
        /\ Goto(p, "unmark")
        /\ UNCHANGED lock
  /\ UNCHANGED <<entries, probed, makefile, interfered>>

(* The write reaches the directory only if the opened file is still there. *)
Write(p) ==
  /\ pc[p] = "write"
  /\ owner' = IF p \in fds THEN p ELSE owner
  /\ fds' = fds \ {p}
  /\ Goto(p, "load")
  /\ UNCHANGED <<outcome, entries, probed, dir, aged, foreign, makefile,
                 interfered>>

(* reconcile: a symlink is refused, identical bytes need no write.         *)
Load(p) ==
  /\ pc[p] = "load"
  /\ \/ /\ makefile \in {"current", "symlink"}
        /\ outcome' = [outcome EXCEPT ![p] =
                         IF makefile = "current" THEN "ok" ELSE "failed"]
        /\ MayLeave(p)
        /\ Goto(p, "unmark")
     \/ /\ makefile \in {"drifted", "partial"}
        /\ Goto(p, "truncate")
        /\ UNCHANGED outcome
  /\ UNCHANGED <<entries, probed, lock, makefile, interfered>>

Truncate(p) ==
  /\ pc[p] = "truncate"
  /\ makefile' = "partial"
  /\ Goto(p, "fill")
  /\ UNCHANGED <<outcome, entries, probed, lock, interfered>>

Fill(p) ==
  /\ pc[p] = "fill"
  /\ MayLeave(p)
  /\ makefile' = "current"
  /\ outcome' = [outcome EXCEPT ![p] = "ok"]
  /\ Goto(p, "unmark")
  /\ UNCHANGED <<entries, probed, lock, interfered>>

Unmark(p) ==
  /\ pc[p] = "unmark"
  /\ UnlinkOwner
  /\ Goto(p, "close")
  /\ UNCHANGED <<outcome, entries, probed, makefile, interfered>>

(* A directory that cannot be removed is left behind silently.             *)
Close(p) ==
  /\ pc[p] = "close"
  /\ \/ Removable /\ RemoveDir
     \/ ~Removable /\ UNCHANGED lock
  /\ Goto(p, "idle")
  /\ UNCHANGED <<outcome, entries, probed, makefile, interfered>>

Step(p) ==
  \/ Mkdir(p) \/ Stat(p) \/ List(p) \/ Inspect(p) \/ Probe(p) \/ Signal(p)
  \/ Unlink(p) \/ Rmdir(p) \/ Remkdir(p) \/ Open(p) \/ Write(p) \/ Load(p)
  \/ Truncate(p) \/ Fill(p) \/ Unmark(p) \/ Close(p)

-----------------------------------------------------------------------------
(* The environment: kills, pids, time, stray files and the developer.      *)

(* A kill that runs no finally block; the OS closes the descriptors.       *)
Crash(p) ==
  /\ pc[p] \in Running
  /\ Goto(p, "dead")
  /\ fds' = fds \ {p}
  /\ interfered' = TRUE
  /\ outcome' = [outcome EXCEPT ![p] = "none"]
  /\ entries' = [entries EXCEPT ![p] = FALSE]
  /\ probed' = [probed EXCEPT ![p] = Nobody]
  /\ UNCHANGED <<dir, aged, owner, foreign, makefile>>

(* The pid goes to an unrelated process, is freed, or comes back as an     *)
(* invocation of reconcile.                                                *)
Reassign(p) ==
  /\ PidReuse
  /\ \/ pc[p] = "dead" /\ pc' \in {[pc EXCEPT ![p] = "recycled"],
                                   [pc EXCEPT ![p] = "idle"]}
     \/ pc[p] = "recycled" /\ Goto(p, "dead")
  /\ UNCHANGED <<outcome, entries, probed, lock, makefile, interfered>>

Age ==
  /\ dir /\ ~aged
  /\ Prompt => Unmarked = {}
  /\ aged' = TRUE
  /\ UNCHANGED <<local, dir, owner, fds, foreign, makefile, interfered>>

(* A stray file appears in the directory, or an operator removes it.       *)
Stray ==
  /\ Litter /\ dir
  /\ foreign' = ~foreign
  /\ aged' = FALSE
  /\ interfered' = TRUE
  /\ UNCHANGED <<local, dir, owner, fds, makefile>>

(* The developer edits the Makefile between reconciliations.               *)
Edit ==
  /\ Inside = {}
  /\ makefile' \in {"current", "drifted", "symlink"} \ {makefile}
  /\ UNCHANGED <<local, lock, interfered>>

Next ==
  \/ \E p \in Proc : Start(p) \/ Step(p) \/ Crash(p) \/ Reassign(p)
  \/ Age \/ Stray \/ Edit

Spec == Init /\ [][Next]_vars

(* A started process is scheduled by the OS, and time passes.  Nothing     *)
(* obliges anyone to invoke reconcile, so Start has no fairness.           *)
Fairness == WF_vars(Age) /\ \A p \in Proc : WF_vars(Step(p))
FairSpec == Spec /\ Fairness

-----------------------------------------------------------------------------
(* Properties.                                                             *)

(* `Single-flight locking guards reconcile, the one mutating target': at   *)
(* most one process is inside the guarded body.                            *)
MutualExclusion == \A p, q \in Inside : p = q

(* A process inside the body is the one the owner file names, so whoever   *)
(* probes the lock reaches the right process with kill(pid, 0).            *)
OwnerNamesHolder == \A p \in Inside : dir /\ owner = p

(* An invocation about to report success leaves a complete Makefile: no    *)
(* other writer truncates it behind a success, until the lock is free.     *)
SuccessMeansCurrent ==
  \A p \in Proc : (pc[p] \in {"unmark", "close"} /\ outcome[p] = "ok")
                     => makefile # "partial"

(* The lock does not leak: unless a process was killed or a stray file     *)
(* came in the way, the directory exists only while someone holds it.      *)
NoLeakWithoutInterference == (dir /\ ~interfered) => Holders # {}

(* The lock implements its promise: seen as the set of invocations in the  *)
(* guarded body and the Makefile, locked_reconcile is the abstract         *)
(* Reconciliation, where a body runs alone from its first read on.         *)
Abstract == INSTANCE Reconciliation WITH inside <- Inside
ImplementsReconciliation == Abstract!Spec

(* What mutual exclusion rests on, if recovery is serial and nobody but    *)
(* the body is slow.  A holder is alone and has the directory; ...         *)
HolderAlone == \A p, q \in Holders : p = q
HolderHasDirectory == Holders # {} => dir

(* ... marks it with its own name before the body and until the unlink;    *)
HolderMarks ==
  \A p \in Holders :
    /\ pc[p] = "write" => p \in fds
    /\ pc[p] \in Body \cup {"unmark"} => owner = p

(* ... an old directory is never one that its holder has yet to mark;      *)
AgedMarked == aged => \A p \in Holders : pc[p] \in Body \cup {"unmark"}

(* ... and a process that dismantles the lock is alone in doing so, and    *)
(* past the liveness probe only when nobody holds the lock.                *)
RecovererAlone ==
  \A p, q \in Proc : pc[p] \in Recovering /\ pc[q] \in Recovering => p = q
RecovererJustified ==
  \A p \in Proc : pc[p] \in Recovering =>
    /\ dir
    /\ \A q \in Holders : /\ pc[q] \in Body
                          /\ pc[p] = "signal" => probed[p] = q
                          /\ pc[p] \notin {"unlink", "rmdir"}

LockInvariant ==
  /\ HolderAlone
  /\ HolderHasDirectory
  /\ HolderMarks
  /\ AgedMarked
  /\ RecovererAlone
  /\ RecovererJustified

(* What the body knows of the file it is about to write.                   *)
BodyKnowsFile ==
  \A p \in Proc :
    /\ pc[p] = "truncate" => makefile \in {"drifted", "partial"}
    /\ pc[p] = "fill" => makefile = "partial"

(* Nothing waits for the lock: every invocation ends, acquired or not.     *)
InvocationsEnd ==
  \A p \in Proc : pc[p] \in Running ~> pc[p] \notin Running

(* A lock leaked by a crash is recovered, if only someone keeps trying.    *)
LeakRecovered ==
  ([]<>(\E p \in Proc : pc[p] = "mkdir"))
     => ((dir /\ Holders = {}) ~> ~dir)
=============================================================================

---------------------------- MODULE SdkProvisioning -----------------------------
(***************************************************************************)
(* How an SDK revision reaches the fleet.  Changes of Core's main edit the *)
(* compatibility manifest, the runtime lock (lock_runtime.py) and the      *)
(* action pins of org-ci.yml (advance_core_action_pins.py); each is        *)
(* checked by sdk-contract-check and admitted under the settings of        *)
(* ControlPlane.  Evaluations provision with the action, manifest and lock *)
(* of the pinned revision, in workspaces that other calls, finished,       *)
(* running or killed, have used.                                           *)
(*                                                                         *)
(* A requirements file and the lock derived from it are one value; the     *)
(* integration contract and the CLI paths of a revision are its features.  *)
(***************************************************************************)
EXTENDS ControlPlane, Sequences

CONSTANTS Revisions,    \* revisions of l9-ci-sdk
          Requirements, \* the requirements.txt of each
          Provides,     \* the features of each
          Proposals,    \* changes proposed: sets of edits, see Apply
          Calls,        \* provision-sdk steps
          Workspace,    \* where each call runs
          First,        \* the tree of Core at the beginning
          None          \* no entry, nothing evaluated, selected or installed

VARIABLES
  history,   \* main: trees [entries, default, lock, pin]
  evaluated, \* the length of main each proposal was last green on
  gated,     \* ghost: GitHub demanded the gate of main's last change, see Gated
  step,      \* what each call did last
  selected,  \* its revision, and the entry and lock it selected
  runtime    \* .l9/runtime/sdk of each workspace

promotion == <<history, evaluated, gated>>
vars == <<controlVars, promotion, step, selected, runtime>>
control == <<settings, reading, results, evidence, held>>
core == <<controlVars, promotion>>

main == history[Len(history)]

(***************************************************************************)
(* Selection, the same in the gate and in the fleet.                       *)
(***************************************************************************)

\* select_manifest_entry, after the allowlist admitted the revision.
Selectable(tree, v) == tree.entries[v] # None

\* Mutant: the lock's digest is not compared with the entry's.
LockOfAnything(lock, entry) == lock # None

\* select_runtime_lock: one lock per platform, for one requirements.txt.
LockFits(lock, entry) == lock = entry.requirements

\* verify_requirements_file and verify_contract_file.
CheckoutFits(v, entry) == Requirements[v] = entry.requirements

\* What the SDK must have for the probes to succeed.
Probed(v, entry) == entry.features \subseteq Provides[v]

Provisionable(tree, v) ==
    /\ Selectable(tree, v)
    /\ CheckoutFits(v, tree.entries[v])
    /\ LockFits(tree.lock, tree.entries[v])
    /\ Probed(v, tree.entries[v])

\* The trees and the runtimes there can be.
Values(field) == {e.value : e \in {d \in UNION Proposals : d.field = field}}
Entries       == {First.entries[v] : v \in Revisions} \cup Values("entry")
Locks         == {First.lock} \cup Values("lock")
Trees         == [entries : [Revisions -> Entries], lock : Locks, pin : Nat \ {0},
                  default : {First.default} \cup Values("default")]
Runtimes      == [by : SUBSET Calls, source : Revisions \cup {None},
                  deps : Locks \cup {None}]

\* sdk-contract-check passed on the tree at the beginning.
ASSUME FirstAssumption == /\ First \in Trees /\ First.pin = 1
                          /\ Provisionable(First, First.default)
ASSUME NoneAssumption  == None \notin Nat \cup Runtimes

Init == /\ ControlInit
        /\ history = <<First>>
        /\ evaluated = [p \in Proposals |-> None]
        /\ gated = TRUE
        /\ step = [c \in Calls |-> "idle"]
        /\ selected = [c \in Calls |-> None]
        /\ runtime = [w \in {Workspace[c] : c \in Calls} |-> None]

(***************************************************************************)
(* Promotion.                                                              *)
(***************************************************************************)

Edited(p, field, old) ==
    IF \E e \in p : e.field = field THEN (CHOOSE e \in p : e.field = field).value ELSE old

\* An edit is a field with a value: an entry is that of one revision, the
\* lock is what lock_runtime.py derived, the pin is moved to main.
Apply(tree, p) ==
    [entries |-> [v \in Revisions |->
                   IF \E e \in p : e.field = "entry" /\ e.revision = v
                   THEN (CHOOSE e \in p : e.field = "entry" /\ e.revision = v).value
                   ELSE tree.entries[v]],
     default |-> Edited(p, "default", tree.default),
     lock    |-> Edited(p, "lock", tree.lock),
     pin     |-> IF \E e \in p : e.field = "pin" THEN Len(history) ELSE tree.pin]

\* Mutant: the gate provisions with the pinned action, not the one in-tree.
GateAtPin(tree) == Provisionable(history[tree.pin], main.default)

\* sdk-contract-check provisions the default with the tree's own action.
Gate(tree) == Provisionable(tree, tree.default)

\* A pull request is checked merged with the main of that time.  (Two are
\* open at a time, a bound.)
Evaluate(p) == /\ activities < MaxActivities
               /\ \A q, r \in Proposals \ {p} :
                    evaluated[q] # None /\ evaluated[r] # None => q = r
               /\ evaluated' = [evaluated EXCEPT ![p] =
                    IF Gate(Apply(main, p)) THEN Len(history) ELSE None]
               /\ UNCHANGED <<controlVars, history, gated, step, selected, runtime>>

\* GitHub's rule.  Only what is required is waited for; a merge queue waits
\* for it on the group, where sdk-contract-check, not triggered, never answers.
Admitted(p) == "sdk-contract" \in settings.contexts =>
                 /\ ~settings.queue
                 /\ evaluated[p] # None
                 /\ settings.strict => evaluated[p] = Len(history)

\* The settings under which the rule demands the gate of the merged tree.
Gated == "sdk-contract" \in settings.contexts /\ settings.strict

\* Some actors may bypass the rules, always.
Merge(p) == /\ Another
            /\ \E bypass \in BOOLEAN :
                 /\ bypass \/ Admitted(p)
                 /\ gated' = (Gated /\ ~bypass)
            /\ history' = Append(history, Apply(main, p))
            /\ evaluated' = [evaluated EXCEPT ![p] = None]
            /\ UNCHANGED <<control, step, selected, runtime>>

(***************************************************************************)
(* provision.py                                                            *)
(***************************************************************************)
Moves(c, from, to) == step[c] = from /\ step' = [step EXCEPT ![c] = to]

\* Inputs, allowlist and entry, from the tree the pin names at this time;
\* the revision is org-ci.yml's own or one its caller asked for.
Select(c) ==
    LET tree == history[main.pin] IN
    /\ \E v \in Revisions :
         /\ Selectable(tree, v)
         /\ selected' = [selected EXCEPT ![c] =
              [revision |-> v, entry |-> tree.entries[v], lock |-> tree.lock]]
    /\ Moves(c, "idle", "selected")
    /\ Another
    /\ UNCHANGED <<control, promotion, runtime>>

\* Mutant: mkdir(exist_ok=True), in a directory without a checkout.
CreateExistOk(c) ==
    LET w == Workspace[c] IN
    /\ Moves(c, "selected", "created")
    /\ runtime' = [runtime EXCEPT ![w] =
         IF @ = None THEN [by |-> {c}, source |-> None, deps |-> None] ELSE @]
    /\ UNCHANGED <<core, selected>>

\* mkdir is exclusive: two calls that both saw nothing there do not share.
Create(c) ==
    LET w == Workspace[c] IN
    /\ runtime[w] = None
    /\ Moves(c, "selected", "created")
    /\ runtime' = [runtime EXCEPT ![w] = [by |-> {c}, source |-> None, deps |-> None]]
    /\ UNCHANGED <<core, selected>>

Writes(c, part, value) ==
    runtime' = [runtime EXCEPT ![Workspace[c]][part] = value,
                               ![Workspace[c]].by = @ \cup {c}]

\* checkout_sdk, with HEAD compared, in a directory it makes.
Checkout(c) ==
    /\ Moves(c, "created", "fetched")
    /\ runtime[Workspace[c]].source = None
    /\ Writes(c, "source", selected[c].revision)
    /\ UNCHANGED <<core, selected>>

\* Contract, requirements and lock; then venv, wheels, .pth and launcher.
Build(c) ==
    LET s == selected[c] IN
    /\ Moves(c, "fetched", "built")
    /\ CheckoutFits(s.revision, s.entry)
    /\ LockFits(s.lock, s.entry)
    /\ Writes(c, "deps", s.lock)
    /\ UNCHANGED <<core, selected>>

\* probe_cli, then the outputs.
Emit(c) ==
    /\ Moves(c, "built", "emitted")
    /\ Probed(runtime[Workspace[c]].source, selected[c].entry)
    /\ UNCHANGED <<core, selected, runtime>>

\* A check or a command fails, or the process is killed: what it made stays.
Fail(c) ==
    /\ step[c] \in {"selected", "created", "fetched", "built"}
    /\ step' = [step EXCEPT ![c] = "failed"]
    /\ UNCHANGED <<core, selected, runtime>>

Next == \/ (Administer \/ Attest) /\ UNCHANGED <<promotion, step, selected, runtime>>
        \/ \E p \in Proposals : Evaluate(p) \/ Merge(p)
        \/ \E c \in Calls : \/ Select(c) \/ Create(c) \/ Checkout(c)
                            \/ Build(c) \/ Emit(c) \/ Fail(c)

Spec == Init /\ [][Next]_vars

(***************************************************************************)
(* Properties.                                                             *)
(***************************************************************************)

\* After a change that GitHub admitted by rules that require sdk-contract and
\* are strict, the default revision of main provisions from main's own
\* manifest and lock: proposals that are green each by itself cannot break it
\* together, whatever was required, bypassed or merged before.  (The settings
\* an attestation passes do not suffice: they may require another check only.)
DefaultProvisions == gated => Provisionable(main, main.default)

\* An executable that was handed out runs the revision that was selected,
\* over exactly the dependencies locked for that revision, and has every
\* feature the entry promised, although manifest and lock of one tree, and
\* tree and pin, change by separate edits.
RuntimeIsVerified ==
    \A c \in Calls : step[c] = "emitted" =>
        LET r == runtime[Workspace[c]] IN
        /\ r.source = selected[c].revision
        /\ r.deps = Requirements[r.source]
        /\ selected[c].entry.features \subseteq Provides[r.source]

\* No other call, concurrent, earlier or killed, wrote into a runtime that
\* was handed out, and none does so later.
OneWriterPerRuntime ==
    \A c \in Calls : step[c] = "emitted" => runtime[Workspace[c]].by = {c}
=============================================================================

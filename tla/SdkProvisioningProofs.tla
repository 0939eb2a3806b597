-------------------------- MODULE SdkProvisioningProofs -------------------------
(***************************************************************************)
(* Proofs about SdkProvisioning and the ControlPlane it is composed with:  *)
(* its four properties, for any revisions, proposals, calls and bounds.    *)
(***************************************************************************)
EXTENDS SdkProvisioning, SequenceTheorems, TLAPS

-----------------------------------------------------------------------------
(* The attestation.                                                        *)

ControlTypeOK ==
    /\ settings \in Settings
    /\ reading \in Checks \cup {"none", "enforcement", "conclusion"}
    /\ results \in [Checks -> {"PASS", "FAIL", "UNKNOWN"}]
    /\ evidence \in {"PASS", "FAIL", "UNKNOWN"}
    /\ held \subseteq Checks

\* While an attestation reads, held has all that holds now; it has each check
\* that passed, the binding as soon as it was found, and at the end them all.
Witnessed ==
    /\ reading # "none" => \A c \in Checks : Holds(c, settings) => c \in held
    /\ \A c \in Checks : results[c] = "PASS" => c \in held
    /\ reading = "enforcement" => "binding" \in held
    /\ AttestedWasSo

ControlInvariant == ControlTypeOK /\ Witnessed

-----------------------------------------------------------------------------
(* The promotion.                                                          *)

HistoryOK ==
    /\ history \in Seq(Trees)
    /\ Len(history) > 0
    /\ main.pin <= Len(history)
    /\ evaluated \in [Proposals -> 1..Len(history) \cup {None}]
    /\ gated \in BOOLEAN

\* A proposal that is green on the main of now would leave it provisionable.
GreenIsCurrent ==
    \A p \in Proposals : evaluated[p] = Len(history) => Gate(Apply(main, p))

PromotionInvariant == HistoryOK /\ GreenIsCurrent /\ DefaultProvisions

-----------------------------------------------------------------------------
(* The provisioning.                                                       *)

Selections == [revision : Revisions, entry : Entries, lock : Locks]

CallsOK ==
    /\ step \in [Calls -> {"idle", "selected", "created", "fetched", "built",
                           "emitted", "failed"}]
    /\ selected \in [Calls -> Selections \cup {None}]
    /\ \A c \in Calls : step[c] # "idle" => selected[c] \in Selections
    /\ runtime \in [{Workspace[c] : c \in Calls} -> Runtimes \cup {None}]

\* From its mkdir to its end a call alone has written into its runtime, ...
Owned ==
    \A c \in Calls : step[c] \in {"created", "fetched", "built", "emitted"} =>
        /\ runtime[Workspace[c]] \in Runtimes
        /\ runtime[Workspace[c]].by = {c}

\* ... which has what the call has checked so far.
Verified ==
    \A c \in Calls :
        LET r == runtime[Workspace[c]]
            s == selected[c]
        IN /\ step[c] \in {"fetched", "built", "emitted"} => r.source = s.revision
           /\ step[c] \in {"built", "emitted"} =>
                /\ CheckoutFits(s.revision, s.entry) /\ LockFits(s.lock, s.entry)
                /\ r.deps = s.lock
           /\ step[c] = "emitted" => Probed(r.source, s.entry)

CallInvariant == CallsOK /\ Owned /\ Verified

ProvisioningInvariant == ControlInvariant /\ PromotionInvariant /\ CallInvariant

-----------------------------------------------------------------------------
(* Every step keeps the invariant of the attestation.                      *)

LEMMA ControlStep ==
    ASSUME ControlInvariant, (Administer \/ Attest) \/ UNCHANGED control
    PROVE  ControlInvariant'
<1> USE DEF ControlInvariant, ControlTypeOK, Witnessed, AttestedWasSo, Checks
<1>1. CASE Administer
  <2>1. settings' \in Settings
    BY <1>1 DEF Administer, Settings
  <2>2. /\ held' = held \cup {c \in Checks : Holds(c, settings')}
        /\ UNCHANGED <<reading, results, evidence>>
    BY <1>1 DEF Administer
  <2>3. Witnessed'
    BY <2>2
  <2> QED
    BY <2>1, <2>2, <2>3
<1>2. CASE Begin
  BY <1>2 DEF Begin
<1>3. CASE ReadBinding
  BY <1>3 DEF ReadBinding, Verdict, Record, After
<1>4. CASE ReadEnforcement
  BY <1>4 DEF ReadEnforcement, Record, After
<1>5. CASE Conclude
  BY <1>5 DEF Conclude, Conclusion
<1>6. CASE Die
  BY <1>6 DEF Die
<1>7. ASSUME NEW c \in Checks \ {"binding"}, ReadRules(c) PROVE ControlInvariant'
  BY <1>7 DEF ReadRules, Verdict, Record, After
<1>8. CASE UNCHANGED control
  BY <1>8 DEF control
<1> QED
  BY <1>1, <1>2, <1>3, <1>4, <1>5, <1>6, <1>7, <1>8 DEF Attest

-----------------------------------------------------------------------------
(* Every step keeps the invariant of the promotion.                        *)

LEMMA MainIsTree == HistoryOK => /\ Len(history) \in Nat
                                 /\ main \in Trees
                                 /\ main.pin \in 1..Len(history)
                                 /\ history[main.pin] \in Trees
<1> SUFFICES ASSUME HistoryOK PROVE /\ Len(history) \in Nat
                                    /\ main \in Trees
                                    /\ main.pin \in 1..Len(history)
                                    /\ history[main.pin] \in Trees
  OBVIOUS
<1>1. Len(history) \in Nat
  BY LenProperties DEF HistoryOK
<1>2. main \in Trees
  BY <1>1, ElementOfSeq DEF HistoryOK, main
<1>3. main.pin \in 1..Len(history)
  BY <1>1, <1>2 DEF HistoryOK, Trees
<1> QED
  BY <1>1, <1>2, <1>3, ElementOfSeq DEF HistoryOK

\* What a proposal makes of a field is the old value or one of an edit.
LEMMA EditedValue ==
    ASSUME NEW p \in Proposals, NEW field, NEW old
    PROVE  Edited(p, field, old) \in {old} \cup Values(field)
<1>1. CASE \E e \in p : e.field = field
  <2> DEFINE e == CHOOSE d \in p : d.field = field
  <2>1. e \in p /\ e.field = field
    BY <1>1
  <2>2. e \in {d \in UNION Proposals : d.field = field}
    BY <2>1
  <2> QED
    BY <1>1, <2>2 DEF Edited, Values
<1>2. CASE ~\E e \in p : e.field = field
  BY <1>2 DEF Edited
<1> QED
  BY <1>1, <1>2

LEMMA ApplyIsTree ==
    ASSUME NEW tree \in Trees, NEW p \in Proposals, Len(history) \in Nat \ {0}
    PROVE  Apply(tree, p) \in Trees
<1> DEFINE Of(v) == CHOOSE e \in p : e.field = "entry" /\ e.revision = v
           Entry(v) == IF \E e \in p : e.field = "entry" /\ e.revision = v
                       THEN Of(v).value ELSE tree.entries[v]
<1>1. ASSUME NEW v \in Revisions PROVE Entry(v) \in Entries
  <2>1. CASE \E e \in p : e.field = "entry" /\ e.revision = v
    <3>1. Of(v) \in p /\ Of(v).field = "entry"
      BY <2>1
    <3>2. Of(v) \in {d \in UNION Proposals : d.field = "entry"}
      BY <3>1
    <3> QED
      BY <2>1, <3>2 DEF Entries, Values
  <2>2. CASE ~\E e \in p : e.field = "entry" /\ e.revision = v
    BY <2>2 DEF Trees
  <2> QED
    BY <2>1, <2>2
<1>2. [v \in Revisions |-> Entry(v)] \in [Revisions -> Entries]
  BY <1>1
<1>3. Edited(p, "lock", tree.lock) \in Locks
  BY EditedValue DEF Trees, Locks
<1>4. Edited(p, "default", tree.default) \in {First.default} \cup Values("default")
  BY EditedValue DEF Trees
<1>5. (IF \E e \in p : e.field = "pin" THEN Len(history) ELSE tree.pin) \in Nat \ {0}
  BY DEF Trees
<1> QED
  BY <1>2, <1>3, <1>4, <1>5 DEF Apply, Trees

\* The merged tree is the new main.
LEMMA MergeAppends ==
    ASSUME HistoryOK, NEW p \in Proposals, history' = Append(history, Apply(main, p))
    PROVE  /\ history' \in Seq(Trees)
           /\ Len(history') = Len(history) + 1
           /\ main' = Apply(main, p)
<1>1. Apply(main, p) \in Trees
  BY MainIsTree, ApplyIsTree DEF HistoryOK
<1> QED
  BY <1>1, AppendProperties DEF HistoryOK, main

LEMMA PromotionStep ==
    ASSUME PromotionInvariant, [Next]_vars
    PROVE  PromotionInvariant'
<1> USE DEF PromotionInvariant
<1>a. Len(history) \in Nat \ {0}
  BY MainIsTree DEF HistoryOK
<1>1. ASSUME NEW p \in Proposals, Evaluate(p) PROVE PromotionInvariant'
  <2>1. /\ evaluated' = [evaluated EXCEPT ![p] =
              IF Gate(Apply(main, p)) THEN Len(history) ELSE None]
        /\ UNCHANGED <<history, gated>>
    BY <1>1 DEF Evaluate
  <2>2. HistoryOK'
    BY <1>a, <2>1 DEF HistoryOK, main
  <2>3. GreenIsCurrent'
    <3> SUFFICES ASSUME NEW q \in Proposals, evaluated'[q] = Len(history)
                 PROVE  Gate(Apply(main, q))
      BY <2>1 DEF GreenIsCurrent, Gate, Apply, Edited, main
    <3>1. CASE q = p
      BY <1>a, <2>1, <3>1, NoneAssumption DEF HistoryOK
    <3>2. CASE q # p
      BY <2>1, <3>2 DEF GreenIsCurrent, HistoryOK
    <3> QED
      BY <3>1, <3>2
  <2>4. DefaultProvisions'
    BY <2>1 DEF DefaultProvisions, main
  <2> QED
    BY <2>2, <2>3, <2>4
<1>2. ASSUME NEW p \in Proposals, Merge(p) PROVE PromotionInvariant'
  <2>1. /\ gated' \in BOOLEAN
        /\ gated' => Gated /\ Admitted(p)
        /\ history' = Append(history, Apply(main, p))
        /\ evaluated' = [evaluated EXCEPT ![p] = None]
    BY <1>2 DEF Merge, Gated
  <2>2. /\ history' \in Seq(Trees)
        /\ Len(history') = Len(history) + 1
        /\ main' = Apply(main, p)
    BY <2>1, MergeAppends
  <2>3. main'.pin <= Len(history')
    BY <1>a, <2>2, MainIsTree DEF Apply
  <2>4. \A q \in Proposals : evaluated'[q] \in 1..Len(history) \cup {None}
    BY <2>1 DEF HistoryOK
  <2>5. HistoryOK'
    BY <1>a, <2>1, <2>2, <2>3, <2>4 DEF HistoryOK
  <2>6. GreenIsCurrent'
    BY <1>a, <2>2, <2>4, NoneAssumption DEF GreenIsCurrent
  <2>7. gated' => Gate(Apply(main, p))
    <3>1. Gated /\ Admitted(p) => evaluated[p] = Len(history)
      BY DEF Gated, Admitted
    <3> QED
      BY <2>1, <3>1 DEF GreenIsCurrent
  <2>8. DefaultProvisions'
    BY <2>1, <2>2, <2>7 DEF DefaultProvisions, Gate, Provisionable, Selectable,
       CheckoutFits, LockFits, Probed
  <2> QED
    BY <2>5, <2>6, <2>8
<1>3. CASE UNCHANGED promotion
  <2> USE DEF promotion
  <2>1. HistoryOK'
    BY <1>3 DEF HistoryOK, main
  <2>2. GreenIsCurrent'
    BY <1>3 DEF GreenIsCurrent, Gate, Apply, main
  <2>3. DefaultProvisions'
    BY <1>3 DEF DefaultProvisions, main
  <2> QED
    BY <2>1, <2>2, <2>3
<1>4. ASSUME NEW c \in Calls,
             \/ Select(c) \/ Create(c) \/ Checkout(c) \/ Build(c) \/ Emit(c) \/ Fail(c)
      PROVE  PromotionInvariant'
  <2>1. UNCHANGED promotion
    BY <1>4 DEF Select, Create, Checkout, Build, Emit, Fail, core
  <2> QED
    BY <1>3, <2>1
<1>5. CASE UNCHANGED vars
  BY <1>3, <1>5 DEF vars
<1> QED
  BY <1>1, <1>2, <1>3, <1>4, <1>5 DEF Next

-----------------------------------------------------------------------------
(* Every step keeps the invariant of the provisioning.                     *)

\* A call that owns its runtime keeps every other call out of it.
LEMMA OwnerIsAlone ==
    ASSUME CallInvariant, NEW c \in Calls, NEW d \in Calls,
           step[c] \in {"created", "fetched", "built", "emitted"},
           step[d] \in {"created", "fetched", "built", "emitted"},
           Workspace[c] = Workspace[d]
    PROVE  c = d
BY DEF CallInvariant, Owned

\* A call's write into its own runtime: the checkout, ...
LEMMA OwnCheckout ==
    ASSUME CallInvariant, NEW c \in Calls, NEW value \in Revisions,
           step[c] \in {"created", "fetched", "built", "emitted"},
           Writes(c, "source", value)
    PROVE  /\ runtime' \in [{Workspace[d] : d \in Calls} -> Runtimes \cup {None}]
           /\ runtime'[Workspace[c]] \in Runtimes
           /\ runtime'[Workspace[c]].by = {c}
           /\ runtime'[Workspace[c]].source = value
           /\ \A d \in Calls : Workspace[d] # Workspace[c] =>
                 runtime'[Workspace[d]] = runtime[Workspace[d]]
<1> DEFINE w == Workspace[c]
           new == [[runtime[w] EXCEPT !.source = value] EXCEPT !.by = @ \cup {c}]
<1>1. runtime[w] \in Runtimes /\ runtime[w].by = {c}
  BY DEF CallInvariant, Owned
<1>2. runtime' = [runtime EXCEPT ![w] = new]
  BY DEF Writes, CallInvariant, CallsOK
<1>3. new \in Runtimes
  BY <1>1 DEF Runtimes
<1> QED
  BY <1>1, <1>2, <1>3 DEF CallInvariant, CallsOK, Runtimes

\* ... and the dependencies, which leave the checkout as it is.
LEMMA OwnBuild ==
    ASSUME CallInvariant, NEW c \in Calls, NEW value \in Locks,
           step[c] \in {"created", "fetched", "built", "emitted"},
           Writes(c, "deps", value)
    PROVE  /\ runtime' \in [{Workspace[d] : d \in Calls} -> Runtimes \cup {None}]
           /\ runtime'[Workspace[c]] \in Runtimes
           /\ runtime'[Workspace[c]].by = {c}
           /\ runtime'[Workspace[c]].deps = value
           /\ runtime'[Workspace[c]].source = runtime[Workspace[c]].source
           /\ \A d \in Calls : Workspace[d] # Workspace[c] =>
                 runtime'[Workspace[d]] = runtime[Workspace[d]]
<1> DEFINE w == Workspace[c]
           new == [[runtime[w] EXCEPT !.deps = value] EXCEPT !.by = @ \cup {c}]
<1>1. runtime[w] \in Runtimes /\ runtime[w].by = {c}
  BY DEF CallInvariant, Owned
<1>2. runtime' = [runtime EXCEPT ![w] = new]
  BY DEF Writes, CallInvariant, CallsOK
<1>3. new \in Runtimes
  BY <1>1 DEF Runtimes
<1> QED
  BY <1>1, <1>2, <1>3 DEF CallInvariant, CallsOK, Runtimes

LEMMA CallStep ==
    ASSUME PromotionInvariant, CallInvariant, [Next]_vars
    PROVE  CallInvariant'
<1> USE DEF CallInvariant
<1>0. CallsOK /\ Owned /\ Verified
  OBVIOUS
<1>1. ASSUME NEW c \in Calls, Select(c) PROVE CallInvariant'
  <2> DEFINE tree == history[main.pin]
  <2>1. tree \in Trees
    BY MainIsTree DEF PromotionInvariant
  <2>2. PICK v \in Revisions :
          selected' = [selected EXCEPT ![c] = [revision |-> v, entry |-> tree.entries[v],
                                               lock |-> tree.lock]]
    BY <1>1 DEF Select
  <2>3. [revision |-> v, entry |-> tree.entries[v], lock |-> tree.lock] \in Selections
    BY <2>1 DEF Selections, Trees
  <2>4. step[c] = "idle" /\ step' = [step EXCEPT ![c] = "selected"] /\ runtime' = runtime
    BY <1>1 DEF Select, Moves
  <2>5. CallsOK'
    BY <1>0, <2>2, <2>3, <2>4 DEF CallsOK
  <2>6. Owned'
    BY <1>0, <2>4 DEF CallsOK, Owned
  <2>7. Verified'
    BY <1>0, <2>2, <2>4 DEF CallsOK, Verified
  <2> QED
    BY <2>5, <2>6, <2>7
<1>2. ASSUME NEW c \in Calls, Create(c) PROVE CallInvariant'
  <2> DEFINE w == Workspace[c]
             new == [by |-> {c}, source |-> None, deps |-> None]
  <2>1. /\ runtime[w] = None /\ runtime' = [runtime EXCEPT ![w] = new]
        /\ step[c] = "selected" /\ step' = [step EXCEPT ![c] = "created"]
        /\ selected' = selected
    BY <1>2 DEF Create, Moves
  <2>2. new \in Runtimes
    BY DEF Runtimes
  <2>3. CallsOK'
    BY <1>0, <2>1, <2>2 DEF CallsOK
  <2>4. \A d \in Calls : step[d] \in {"created", "fetched", "built", "emitted"} =>
          Workspace[d] # w
    BY <1>0, <2>1, NoneAssumption DEF Owned
  <2>5. Owned'
    BY <1>0, <2>1, <2>2, <2>4 DEF CallsOK, Owned
  <2>6. Verified'
    BY <1>0, <2>1, <2>4 DEF CallsOK, Verified
  <2> QED
    BY <2>3, <2>5, <2>6
<1>3. ASSUME NEW c \in Calls, Checkout(c) PROVE CallInvariant'
  <2>1. /\ Writes(c, "source", selected[c].revision)
        /\ step[c] = "created" /\ step' = [step EXCEPT ![c] = "fetched"]
        /\ selected' = selected /\ selected[c].revision \in Revisions
    BY <1>0, <1>3 DEF Checkout, Moves, CallsOK, Selections
  <2>2. /\ runtime' \in [{Workspace[d] : d \in Calls} -> Runtimes \cup {None}]
        /\ runtime'[Workspace[c]] \in Runtimes
        /\ runtime'[Workspace[c]].by = {c}
        /\ runtime'[Workspace[c]].source = selected[c].revision
        /\ \A d \in Calls : Workspace[d] # Workspace[c] =>
              runtime'[Workspace[d]] = runtime[Workspace[d]]
    BY <2>1, OwnCheckout
  <2>3. \A d \in Calls : step[d] \in {"created", "fetched", "built", "emitted"} =>
          (Workspace[d] = Workspace[c] => d = c)
    BY <2>1, OwnerIsAlone
  <2>4. CallsOK'
    BY <1>0, <2>1, <2>2 DEF CallsOK
  <2>5. Owned'
    BY <1>0, <2>1, <2>2, <2>3 DEF CallsOK, Owned
  <2>6. Verified'
    BY <1>0, <2>1, <2>2, <2>3 DEF CallsOK, Verified
  <2> QED
    BY <2>4, <2>5, <2>6
<1>4. ASSUME NEW c \in Calls, Build(c) PROVE CallInvariant'
  <2>1. /\ Writes(c, "deps", selected[c].lock)
        /\ step[c] = "fetched" /\ step' = [step EXCEPT ![c] = "built"]
        /\ selected' = selected /\ selected[c].lock \in Locks
        /\ CheckoutFits(selected[c].revision, selected[c].entry)
        /\ LockFits(selected[c].lock, selected[c].entry)
    BY <1>0, <1>4 DEF Build, Moves, CallsOK, Selections
  <2>2. /\ runtime' \in [{Workspace[d] : d \in Calls} -> Runtimes \cup {None}]
        /\ runtime'[Workspace[c]] \in Runtimes
        /\ runtime'[Workspace[c]].by = {c}
        /\ runtime'[Workspace[c]].deps = selected[c].lock
        /\ runtime'[Workspace[c]].source = runtime[Workspace[c]].source
        /\ \A d \in Calls : Workspace[d] # Workspace[c] =>
              runtime'[Workspace[d]] = runtime[Workspace[d]]
    BY <2>1, OwnBuild
  <2>3. \A d \in Calls : step[d] \in {"created", "fetched", "built", "emitted"} =>
          (Workspace[d] = Workspace[c] => d = c)
    BY <2>1, OwnerIsAlone
  <2>4. CallsOK'
    BY <1>0, <2>1, <2>2 DEF CallsOK
  <2>5. Owned'
    BY <1>0, <2>1, <2>2, <2>3 DEF CallsOK, Owned
  <2>6. Verified'
    BY <1>0, <2>1, <2>2, <2>3 DEF CallsOK, Verified
  <2> QED
    BY <2>4, <2>5, <2>6
<1>5. ASSUME NEW c \in Calls, Emit(c) PROVE CallInvariant'
  <2>1. /\ step[c] = "built" /\ step' = [step EXCEPT ![c] = "emitted"]
        /\ UNCHANGED <<selected, runtime>>
        /\ Probed(runtime[Workspace[c]].source, selected[c].entry)
    BY <1>5 DEF Emit, Moves
  <2>2. CallsOK' /\ Owned'
    BY <1>0, <2>1 DEF CallsOK, Owned
  <2>3. Verified'
    BY <1>0, <2>1 DEF CallsOK, Verified
  <2> QED
    BY <2>2, <2>3
<1>6. ASSUME NEW c \in Calls, Fail(c) PROVE CallInvariant'
  BY <1>0, <1>6 DEF Fail, CallsOK, Owned, Verified
<1>7. CASE UNCHANGED <<step, selected, runtime>>
  BY <1>0, <1>7 DEF CallsOK, Owned, Verified
<1>8. ASSUME NEW p \in Proposals, Evaluate(p) \/ Merge(p) PROVE CallInvariant'
  BY <1>7, <1>8 DEF Evaluate, Merge
<1> QED
  BY <1>1, <1>2, <1>3, <1>4, <1>5, <1>6, <1>7, <1>8 DEF Next, vars

-----------------------------------------------------------------------------
(* The theorems.                                                           *)

(* The invariant of promotion, attestation and provisioning together, for  *)
(* any number of calls and any proposals, whatever administrators do.      *)
THEOREM ProvisioningInvariantHolds == Spec => []ProvisioningInvariant
<1>1. Init => ControlInvariant
  <2> SUFFICES ASSUME Init PROVE ControlInvariant
    OBVIOUS
  <2>1. ControlTypeOK
    BY DEF Init, ControlInit, ControlTypeOK, Settings, Checks
  <2>2. Witnessed
    BY DEF Init, ControlInit, Witnessed, AttestedWasSo
  <2> QED
    BY <2>1, <2>2 DEF ControlInvariant
<1>2. Init => PromotionInvariant
  <2> SUFFICES ASSUME Init PROVE PromotionInvariant
    OBVIOUS
  <2>1. history \in Seq(Trees) /\ Len(history) = 1 /\ main = First
    BY FirstAssumption DEF Init, main
  <2>2. \A p \in Proposals : evaluated[p] = None
    BY DEF Init
  <2>3. HistoryOK
    BY <2>1, FirstAssumption DEF Init, HistoryOK
  <2>4. GreenIsCurrent
    BY <2>1, <2>2, NoneAssumption DEF GreenIsCurrent
  <2>5. DefaultProvisions
    BY <2>1, FirstAssumption DEF DefaultProvisions
  <2> QED
    BY <2>3, <2>4, <2>5 DEF PromotionInvariant
<1>3. Init => CallInvariant
  BY DEF Init, CallInvariant, CallsOK, Owned, Verified
<1>4. ProvisioningInvariant /\ [Next]_vars => ProvisioningInvariant'
  <2> SUFFICES ASSUME ProvisioningInvariant, [Next]_vars PROVE ProvisioningInvariant'
    OBVIOUS
  <2>1. (Administer \/ Attest) \/ UNCHANGED control
    BY DEF Next, Evaluate, Merge, Select, Create, Checkout, Build, Emit, Fail, core,
       control, controlVars, vars
  <2> QED
    BY <2>1, ControlStep, PromotionStep, CallStep DEF ProvisioningInvariant
<1> QED
  BY <1>1, <1>2, <1>3, <1>4, PTL DEF Spec, ProvisioningInvariant

(* A passing document of control-plane-attestation.yml means that every    *)
(* requirement was met at some time since its run began.                   *)
THEOREM AttestedWasSoHolds == Spec => []AttestedWasSo
<1>1. ProvisioningInvariant => AttestedWasSo
  BY DEF ProvisioningInvariant, ControlInvariant, Witnessed
<1> QED
  BY <1>1, ProvisioningInvariantHolds, PTL

(* Whatever is proposed, merged, bypassed and administered: main's default *)
(* revision provisions after each change that was admitted by rules that   *)
(* require sdk-contract of a head that has all of main.                    *)
THEOREM DefaultProvisionsHolds == Spec => []DefaultProvisions
<1>1. ProvisioningInvariant => DefaultProvisions
  BY DEF ProvisioningInvariant, PromotionInvariant
<1> QED
  BY <1>1, ProvisioningInvariantHolds, PTL

(* provision.py hands out the revision it selected over the dependencies   *)
(* locked for it, whoever else works in the same workspace.                *)
THEOREM RuntimeIsVerifiedHolds == Spec => []RuntimeIsVerified
<1>1. ProvisioningInvariant => RuntimeIsVerified
  BY DEF ProvisioningInvariant, CallInvariant, Verified, RuntimeIsVerified,
     CheckoutFits, LockFits, Probed
<1> QED
  BY <1>1, ProvisioningInvariantHolds, PTL

(* The exclusive mkdir of provision.py gives each runtime one writer.      *)
THEOREM OneWriterPerRuntimeHolds == Spec => []OneWriterPerRuntime
<1>1. ProvisioningInvariant => OneWriterPerRuntime
  BY DEF ProvisioningInvariant, CallInvariant, Owned, OneWriterPerRuntime
<1> QED
  BY <1>1, ProvisioningInvariantHolds, PTL
=============================================================================

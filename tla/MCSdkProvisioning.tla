--------------------------- MODULE MCSdkProvisioning ----------------------------
(***************************************************************************)
(* Two revisions with different requirements, the second with one more     *)
(* feature; a promotion in one change or in two, a refreshed lock, a       *)
(* retired entry, an entry typed with the wrong digest, and an advanced    *)
(* pin.  Two calls share a workspace.                                      *)
(***************************************************************************)
EXTENDS SdkProvisioning

MCRequirements == [v \in {"v1", "v2"} |-> IF v = "v1" THEN "q1" ELSE "q2"]
MCProvides     == [v \in {"v1", "v2"} |-> IF v = "v1" THEN {"f"} ELSE {"f", "g"}]
MCWorkspace    == [c \in {"c1", "c2"} |-> "w"]

Entry(requirements, features) == [requirements |-> requirements, features |-> features]
MCFirst == [entries |-> [v \in {"v1", "v2"} |->
                           IF v = "v1" THEN Entry("q1", {"f"}) ELSE None],
            default |-> "v1", lock |-> "q1", pin |-> 1]

EditEntry(v, e) == [field |-> "entry", revision |-> v, value |-> e]
EditTo(f, x)    == [field |-> f, revision |-> None, value |-> x]

Listed   == EditEntry("v2", Entry("q2", {"f", "g"}))
MCProposals == {{Listed}, {Listed, EditTo("default", "v2"), EditTo("lock", "q2")},
                {EditTo("default", "v2"), EditTo("lock", "q2")},
                {EditTo("default", "v1"), EditTo("lock", "q1")},
                {EditEntry("v2", None)}, {EditEntry("v2", Entry("q1", {"f"}))},
                {EditTo("pin", "main")}}
=============================================================================

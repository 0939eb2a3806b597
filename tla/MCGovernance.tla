------------------------------ MODULE MCGovernance ------------------------------
(***************************************************************************)
(* Two profiles, a consumer that refers to a waiver and one that does not, *)
(* a waiver with its renewal under the same id, and one without a scope.   *)
(***************************************************************************)
EXTENDS Governance

MCProfiles      == {"merge", "nightly"}
MCAdmittedEvent == [p \in MCProfiles |-> IF p = "merge" THEN "push" ELSE "nightly"]
MCDefaultMode   == [p \in MCProfiles |-> IF p = "merge" THEN "blocking" ELSE "advisory"]

W1      == [id |-> "w1", created |-> 0, expires |-> 1,
            repositories |-> {"app"}, profiles |-> {}]
Renewed == [W1 EXCEPT !.created = 1, !.expires = 2]
W2      == [id |-> "w2", created |-> 1, expires |-> 1,
            repositories |-> {}, profiles |-> {}]

MCInitial == [mode     |-> [p \in MCProfiles |-> MCDefaultMode[p]],
              override |-> [p \in MCProfiles |-> Unset],
              required |-> [p \in MCProfiles |-> p = "merge"],
              policy   |-> [p \in MCProfiles |-> "policy1"],
              maps     |-> 1,
              waivers  |-> {W1}]

Edit(field, profile, value) == [field |-> field, profile |-> profile, value |-> value]
MCEdits == {Edit("mode", "nightly", "disabled"), Edit("override", "merge", "disabled"),
            Edit("mode", "merge", Unset), Edit("mode", "merge", "enforced"),
            Edit("required", "merge", FALSE), Edit("policy", "merge", "policy2"),
            Edit("maps", "merge", 2), Edit("policy", "merge", Unset), Edit("waivers", "merge", W1),
            Edit("waivers", "merge", Renewed), Edit("waivers", "merge", W2)}

MCInitialRefs == [r \in {"app", "lib"} |-> IF r = "app" THEN {"w1"} ELSE {}]
=============================================================================

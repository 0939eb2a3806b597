---------------------------- MODULE ArtifactExchange ----------------------------
(***************************************************************************)
(* What the artifact protocol promises (docs/artifact-protocol.md, and     *)
(* the actions route-artifacts to retrieve-artifacts): producers publish   *)
(* artifact sets, and a consumer ends with nothing or with one published   *)
(* set that is whole, which it then keeps.  A set is a record of its       *)
(* files, by content, and of the index that travels with it.               *)
(***************************************************************************)
CONSTANTS Consumers,  \* the jobs that retrieve
          Sets,       \* the artifact sets that can be published
          NoSet       \* what a consumer holds before it accepts

VARIABLES published,  \* the sets published so far
          accepted    \* the set each consumer has accepted

vars == <<published, accepted>>

\* The index lists each file of the set with its digest, and no other.
Whole(set) == set.index.entries = set.files

Init == /\ published = {}
        /\ accepted = [c \in Consumers |-> NoSet]

Publish == /\ \E set \in published' : /\ set \in Sets
                                       /\ published' = published \cup {set}
           /\ UNCHANGED accepted

Accept(c) == /\ accepted[c] = NoSet
             /\ \E set \in published :
                  /\ Whole(set)
                  /\ accepted' = [accepted EXCEPT ![c] = set]
             /\ UNCHANGED published

Next == Publish \/ \E c \in Consumers : Accept(c)

Spec == Init /\ [][Next]_vars
=============================================================================

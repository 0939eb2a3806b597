------------------------- MODULE MCCheckPublication -------------------------
(* Model-checking definitions for CheckPublication.                        *)
EXTENDS CheckPublication

CONSTANTS a, b

(* One analysis may be rerun.                                              *)
TwoAndOne == [j \in Job |-> IF j = a THEN 2 ELSE 1]

Writes(j) == elected[j] /\ mode[j] = "blocking"

(* Both analyses write, or one is disabled and the other has any inputs.   *)
MixedInit ==
  Init /\ \/ \A j \in Job : Writes(j)
          \/ mode[b] = "disabled" /\ ~elected[b]
MixedSpec == MixedInit /\ [][Next]_vars /\ Fairness
=============================================================================

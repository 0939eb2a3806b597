--------------------------- MODULE MCArtifactHandoff ---------------------------
(***************************************************************************)
(* Two attempts whose jobs took one artifact name in one run, one that     *)
(* projects SARIF and one that does not, and a consumer in that run next   *)
(* to one outside it.                                                      *)
(***************************************************************************)
EXTENDS ArtifactHandoff, TLC

CONSTANTS p1, p2, c1, c2

MCNameOf      == [p \in {p1, p2} |-> "name"]
MCRunOf       == [p \in {p1, p2} |-> 1]
MCSubjectOf   == p1 :> "s1" @@ p2 :> "s2"
MCCheckouts   == {{}, {"gate", "extra", "index"}, {"bundle"}, {"raw"}, {"sarif"},
                  {"stray"}, {"hidden"}}
MCConsumerRun == c1 :> 1 @@ c2 :> 2
=============================================================================

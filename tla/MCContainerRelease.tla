--------------------------- MODULE MCContainerRelease ---------------------------
(***************************************************************************)
(* One commit released to staging and to production by two runs that share *)
(* the image tag.                                                          *)
(***************************************************************************)
EXTENDS ContainerRelease

MCCommit      == [r \in {"r1", "r2"} |-> "c"]
MCEnvironment == [r \in {"r1", "r2"} |-> IF r = "r1" THEN "staging" ELSE "production"]
=============================================================================

------------------------- MODULE MCArtifactCleanup -------------------------
(***************************************************************************)
(* ArtifactCleanup with one managed path, of a material or of a package,   *)
(* and two processes.                                                      *)
(***************************************************************************)
EXTENDS ArtifactCleanup

CONSTANTS p1, w1, w2

MCRows    == {p1}
MCWorkers == {w1, w2}
=============================================================================

---------------------------- MODULE MCMediaRuns ----------------------------
(***************************************************************************)
(* MediaRuns with two generations of one plan entry and one analysis, and  *)
(* with one run of each for the liveness property.                         *)
(***************************************************************************)
EXTENDS MediaRuns

CONSTANTS g1, g2, a1

MCRuns        == {g1, g2, a1}
MCGenerations == {g1, g2}
MCEntry       == [r \in MCRuns |-> "cover"]

MCFewRuns        == {g1, a1}
MCFewGenerations == {g1}
=============================================================================

------------------------------- MODULE MCJobs -------------------------------
(***************************************************************************)
(* Jobs with one external job and one shop job.                            *)
(***************************************************************************)
EXTENDS Jobs

CONSTANTS j1, s1

MCJobs == {j1, s1}
MCShop == {s1}
=============================================================================

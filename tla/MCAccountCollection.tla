------------------------ MODULE MCAccountCollection ------------------------
(***************************************************************************)
(* AccountCollection with one job, three processes of which two may run at *)
(* a time, and one database or file error.                                 *)
(***************************************************************************)
EXTENDS AccountCollection

CONSTANT j1

MCJob == {j1}
=============================================================================

------------------------ MODULE MCQianfanCollection ------------------------
(***************************************************************************)
(* QianfanCollection with two batches of two scopes.                       *)
(***************************************************************************)
EXTENDS QianfanCollection

CONSTANTS c1, c2, s1, s2

MCCollections == {c1, c2}
MCScopes      == {s1, s2}
=============================================================================

------------------------------ MODULE MCAccess ------------------------------
(* Two readers of one person, under one token or under one each.  Readers,  *)
(* tokens and requests are interchangeable.                                 *)
EXTENDS Access, TLC
MCRows == 1 .. 4
Interchangeable == Permutations(Tokens) \cup Permutations(Ids) \cup Permutations(Requests)
=============================================================================

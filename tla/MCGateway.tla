----------------------------- MODULE MCGateway ------------------------------
(* Instances of Gateway for TLC.  The handlers are interchangeable, where  *)
(* no liveness is checked.                                                 *)
EXTENDS Gateway, TLC

Symmetric == Permutations(Author)
=============================================================================

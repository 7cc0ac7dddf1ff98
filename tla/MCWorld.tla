------------------------------ MODULE MCWorld -------------------------------
(* Instances of World for TLC.  Requests and scenes are interchangeable.   *)
EXTENDS World, TLC

Symmetric == Permutations(Handler) \cup Permutations(Scene)
=============================================================================

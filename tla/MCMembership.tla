---------------------------- MODULE MCMembership ----------------------------
(* Instances of Membership for TLC.  Requests are interchangeable, and so  *)
(* are the users other than the founder.                                   *)
EXTENDS Membership, TLC

Symmetric == Permutations(Request) \cup Permutations(User \ {Founder})
=============================================================================

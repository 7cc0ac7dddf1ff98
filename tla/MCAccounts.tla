----------------------------- MODULE MCAccounts -----------------------------
(* Instances of Accounts for TLC.  Names and clients are interchangeable.  *)
EXTENDS Accounts, TLC

Symmetric == Permutations(Name) \cup Permutations(Client)
=============================================================================

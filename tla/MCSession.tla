----------------------------- MODULE MCSession ------------------------------
(* The session model for TLC.                                              *)
EXTENDS Session, TLC

(* Keys are interchangeable: nothing in the outbox compares them.          *)
KeySymmetry == Permutations(Key)
=============================================================================

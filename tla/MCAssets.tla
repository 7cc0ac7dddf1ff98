------------------------------ MODULE MCAssets ------------------------------
(* Instances of Assets for TLC.  Worlds, contents and uploads are          *)
(* interchangeable.                                                        *)
EXTENDS Assets, TLC

Symmetric == Permutations(World) \cup Permutations(Content) \cup Permutations(Uploader)
=============================================================================

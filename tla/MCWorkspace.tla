---------------------------- MODULE MCWorkspace -----------------------------
(* Instance of Workspace for TLC: two files, two contents, which nothing    *)
(* tells apart; every property is about safety, so symmetry is sound.       *)
EXTENDS Workspace, TLC

Symmetry == Permutations(Files) \cup Permutations(Contents)
=============================================================================

------------------------------ MODULE MCMiniDb ------------------------------
(***************************************************************************)
(* Model-checking instance of MiniDb.  Keys and writers are interchangeable *)
(* and only invariants are checked, so that permuting them is sound.       *)
(***************************************************************************)
EXTENDS MiniDb, TLC

Symmetry == Permutations(Keys) \cup Permutations(Writers)
=============================================================================

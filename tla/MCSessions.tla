----------------------------- MODULE MCSessions -----------------------------
(***************************************************************************)
(* Small instances of Sessions, and of the reset flow in it.               *)
(***************************************************************************)
EXTENDS Sessions, TLC

Symmetry == Permutations(Initiation) \cup Permutations(Submission)
=============================================================================

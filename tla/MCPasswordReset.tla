-------------------------- MODULE MCPasswordReset --------------------------
(***************************************************************************)
(* Small instances of PasswordReset.                                       *)
(***************************************************************************)
EXTENDS PasswordReset, TLC

Symmetry == Permutations(Initiation) \cup Permutations(Submission)
=============================================================================

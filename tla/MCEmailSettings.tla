-------------------------- MODULE MCEmailSettings --------------------------
(***************************************************************************)
(* Small instances of EmailSettings.                                       *)
(***************************************************************************)
EXTENDS EmailSettings, TLC

Symmetry == Permutations(Setting) \cup Permutations(Org) \cup Permutations(Call)
=============================================================================

-------------------------- MODULE MCFolderListing --------------------------
(***************************************************************************)
(* Small instances of FolderListing.                                       *)
(***************************************************************************)
EXTENDS FolderListing, TLC

Symmetry ==
    Permutations(Folder) \cup Permutations(Name) \cup Permutations(File) \cup Permutations(Call)
=============================================================================

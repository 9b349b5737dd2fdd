--------------------------- MODULE MCFileStorage ---------------------------
(***************************************************************************)
(* Small instances of FileStorage.                                         *)
(***************************************************************************)
EXTENDS FileStorage, FiniteSetsExt, TLC

CONSTANTS r1, r2, r3, k1, k2, o1, o2

\* An ordinary file and a larger one.
SizeOf(k) == IF k = k1 THEN 1 ELSE 2

\* The same with an empty file in place of the larger one.
SizeOrEmpty(k) == IF k = k1 THEN 1 ELSE 0

TotalBytes ==
    [S \in SUBSET FileId |-> MapThenSumSet(LAMBDA f : SizeOf(ObjectKey(f)), S)]
TotalWithEmpty ==
    [S \in SUBSET FileId |-> MapThenSumSet(LAMBDA f : SizeOrEmpty(ObjectKey(f)), S)]

Symmetry == Permutations(Request)
=============================================================================

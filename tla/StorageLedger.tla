--------------------------- MODULE StorageLedger ---------------------------
(***************************************************************************)
(* What the file subsystem promises an organization: files appear and are  *)
(* deleted in batches, each in one step, and the usage figure moves with   *)
(* them.  FileStorage implements this when calls do not overlap.           *)
(***************************************************************************)
EXTENDS Integers

CONSTANTS File, Total   \* files, and Total[S]: the bytes of a set of them

VARIABLES active, deleted, usage

Init == active = {} /\ deleted = {} /\ usage = 0

Confirm(S) ==
    /\ S \cap (active \cup deleted) = {}
    /\ active' = active \cup S
    /\ usage' = usage + Total[S]
    /\ UNCHANGED deleted

Delete(S) ==
    /\ S \subseteq active
    /\ active' = active \ S
    /\ deleted' = deleted \cup S
    /\ usage' = usage - Total[S]

Next == \E S \in SUBSET File : Confirm(S) \/ Delete(S)

Spec == Init /\ [][Next]_<<active, deleted, usage>>

\* The figure is the size of what is there, and a file is not both present
\* and deleted (usedStorage is 'Total storage used by the organization').
UsageIsTotal ==
    /\ active \subseteq File
    /\ active \cap deleted = {}
    /\ usage = Total[active]

=============================================================================

--------------------------- MODULE FolderListing ---------------------------
(***************************************************************************)
(* A client that pages through a folder while folders and files are        *)
(* created, renamed and deleted.  Folders and files are two lists, sorted  *)
(* by updatedAt, latest first; a page holds Limit of each, and the number  *)
(* of pages is computed from the sum of both counts.                       *)
(***************************************************************************)
EXTENDS FolderTree, FiniteSets

CONSTANTS
    File,       \* ids of files
    Limit       \* items of each list on a page

ASSUME ListingAssumption ==
    /\ Limit \in Nat \ {0}
    /\ File \cap Folder = {} /\ {Root, None} \cap File = {}

VARIABLES
    newer,      \* the rows that precede each row by updatedAt, latest first
    folderOf,   \* the folder of every active file, None for other ids
    place,      \* the folder the client lists, None when it does not
    page,       \* the page it asks for
    rows,       \* per list: what the query for the rows found, None before
    count,      \* per list: what the query for the count found, None before
    due         \* history: listed when it began, not touched or shown since

client == <<place, page, rows, count>>
vars == <<treeVars, newer, folderOf, client, due>>

Kind == {"folder", "file"}
Item == Folder \cup File
Present == Stored \cup {x \in File : folderOf[x] # None}

\* updatedAt orders the rows; TypeORM breaks ties by id.
LatestFirst ==
    \A i, j \in Present :
        /\ i # j => (i \in newer[j] <=> j \notin newer[i])
        /\ i \in newer[j] => newer[i] \subseteq newer[j]

TypeOK ==
    /\ TreeTypeOK
    /\ folderOf \in [File -> Stored \cup {Root, None}]
    /\ newer \in [Item -> SUBSET Present]
    /\ \A i \in Item : i \notin newer[i]
    /\ LatestFirst
    /\ place \in Stored \cup {Root, None}
    /\ page \in Nat
    /\ rows \in [Kind -> (SUBSET Item) \cup {None}]
    /\ count \in [Kind -> Nat \cup {None}]
    /\ due \subseteq Item

Unread == [k \in Kind |-> None]

Init ==
    /\ TreeInit
    /\ newer = [i \in Item |-> {}]
    /\ folderOf = [x \in File |-> None]
    /\ place = None /\ page = 0
    /\ rows = Unread /\ count = Unread
    /\ due = {}

\* The two lists of a folder, as getFolders and getFiles select them.
FoldersIn(p) == {f \in Folder : parent[f] = p}
FilesIn(p) == {x \in File : folderOf[x] = p}
List(k, p) == IF k = "folder" THEN FoldersIn(p) ELSE FilesIn(p)

\* The row i comes right behind the rows B, all those later than some time.
Latest(B) == \A i \in B : newer[i] \subseteq B
PutBehind(i, B) ==
    /\ newer' = [j \in Item |->
           IF j = i THEN B
           ELSE IF j \in Present \ B THEN newer[j] \cup {i}
           ELSE newer[j] \ {i}]
    /\ due' = due \ {i}

\* Mutant: the latest updated item comes last.
TouchLast(i) == PutBehind(i, Present \ {i})

\* updatedAt is set anew.
Touch(i) == PutBehind(i, {})

-----------------------------------------------------------------------------
(* What others do.                                                          *)

Insert(c, f) == InsertFolder(c, f) /\ Touch(f) /\ UNCHANGED <<folderOf, client>>

Rename(f, n) == RenameFolder(f, n) /\ Touch(f) /\ UNCHANGED <<folderOf, client>>

OtherCalls ==
    /\ \/ \E c \in Call, p \in Folder \cup {Root}, n \in Name : StartCreate(c, p, n)
       \/ \E c \in Call, f \in Folder : StartWalk(c, f)
       \/ \E c \in Call : WalkUp(c) \/ EndWalk(c)
    /\ UNCHANGED <<newer, folderOf, client, due>>

\* A confirmed file names the folder it goes to, which the foreign key checks.
\* Its updatedAt is when the transaction of its confirmation began, so that it
\* appears behind the rows updated since.
AddFile(x, p) ==
    /\ folderOf[x] = None /\ p \in Stored \cup {Root}
    /\ folderOf' = [folderOf EXCEPT ![x] = p]
    /\ \E B \in SUBSET Present : Latest(B) /\ PutBehind(x, B)
    /\ UNCHANGED <<treeVars, client>>

RenameFile(x) ==
    /\ folderOf[x] # None
    /\ Touch(x)
    /\ UNCHANGED <<treeVars, folderOf, client>>

\* The files behind it in its folder move up one place: a client may skip them.
RemoveFile(x) ==
    /\ folderOf[x] # None
    /\ folderOf' = [folderOf EXCEPT ![x] = None]
    /\ newer' = [i \in Item |-> IF i = x THEN {} ELSE newer[i] \ {x}]
    /\ due' = due \ ({x} \cup {i \in FilesIn(folderOf[x]) : x \in newer[i]})
    /\ UNCHANGED <<treeVars, client>>

-----------------------------------------------------------------------------
(* The client.                                                              *)

StartListing(p) ==
    /\ place = None /\ p \in Stored \cup {Root}
    /\ place' = p /\ page' = 1
    /\ rows' = Unread /\ count' = Unread
    /\ due' = FoldersIn(p) \cup FilesIn(p)
    /\ UNCHANGED <<treeVars, newer, folderOf>>

\* The rows from (page - 1) * limit on.
Before(i, S) == Cardinality(newer[i] \cap S)
OnPage(S) == {i \in S : (page - 1) * Limit <= Before(i, S) /\ Before(i, S) < page * Limit}

\* getManyAndCount(): the rows first, the count afterwards; the two lists are
\* fetched in parallel.
FetchRows(k) ==
    /\ place # None /\ rows[k] = None
    /\ rows' = [rows EXCEPT ![k] = OnPage(List(k, place))]
    /\ UNCHANGED <<treeVars, newer, folderOf, place, page, count, due>>

FetchCount(k) ==
    /\ place # None /\ rows[k] # None /\ count[k] = None
    /\ count' = [count EXCEPT ![k] = Cardinality(List(k, place))]
    /\ UNCHANGED <<treeVars, newer, folderOf, place, page, rows, due>>

TotalPages == (count["folder"] + count["file"] + Limit - 1) \div Limit

\* The answer; the client asks for the next page while there is one.
Shown == rows["folder"] \cup rows["file"]
Answered == place # None /\ \A k \in Kind : count[k] # None
ShowPage ==
    /\ Answered /\ page < TotalPages
    /\ due' = due \ Shown
    /\ page' = page + 1
    /\ rows' = Unread /\ count' = Unread
    /\ UNCHANGED <<treeVars, newer, folderOf, place>>

LastPage ==
    /\ Answered /\ page >= TotalPages
    /\ place' = None /\ page' = 0
    /\ rows' = Unread /\ count' = Unread
    /\ due' = {}
    /\ UNCHANGED <<treeVars, newer, folderOf>>

Next ==
    \/ \E c \in Call, f \in Folder : Insert(c, f)
    \/ \E f \in Folder, n \in Name : Rename(f, n)
    \/ OtherCalls
    \/ \E x \in File, p \in Folder \cup {Root} : AddFile(x, p)
    \/ \E x \in File : RenameFile(x) \/ RemoveFile(x)
    \/ \E p \in Folder \cup {Root} : StartListing(p)
    \/ \E k \in Kind : FetchRows(k) \/ FetchCount(k)
    \/ ShowPage \/ LastPage

Spec == Init /\ [][Next]_vars

-----------------------------------------------------------------------------
(* Properties.                                                              *)

\* A client that has read all pages was shown every folder and file that was
\* there when it began and that nobody touched, although rows move while it
\* pages; a deletion may make it skip files (listFilesAndFolders).
PagingMissesNothing == [][LastPage => due \subseteq Shown]_vars
=============================================================================

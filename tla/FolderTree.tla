----------------------------- MODULE FolderTree -----------------------------
(***************************************************************************)
(* The folders of an organization.  createFolder copies the path of the    *)
(* parent folder into the new row, rename-folder changes the name only,    *)
(* and the breadcrumb is read one row after the other.  Nothing deletes or *)
(* moves a folder, and no call takes a lock.                               *)
(***************************************************************************)
EXTENDS Naturals, Sequences

CONSTANTS
    Folder,     \* ids of folders
    Root,       \* parentId NULL
    None,       \* no row, no request
    Name,       \* names of folders
    Call        \* bound: createFolder and breadcrumb calls at one time

ASSUME FolderAssumption == Root \notin Folder /\ None \notin Folder \cup {Root}

VARIABLES
    parent,     \* the parent of every folder, None when there is no row
    name,
    path,       \* the path column, as the names between the slashes
    step,       \* where each call is: "idle", "insert" or "walk"
    draft,      \* the folder createFolder is going to insert
    trail,      \* the folders getParentFolderIds has read, the last one first
    renamed     \* history: folders whose name was changed

tree == <<parent, name, path>>
treeCalls == <<step, draft, trail>>
treeVars == <<tree, treeCalls, renamed>>

Drafts == [parent : Folder \cup {Root}, name : Name, path : Seq(Name)]

TreeTypeOK ==
    /\ parent \in [Folder -> Folder \cup {Root, None}]
    /\ \A f \in Folder : parent[f] \in Folder => parent[parent[f]] # None
    /\ name \in [Folder -> Name \cup {None}]
    /\ path \in [Folder -> Seq(Name)]
    /\ step \in [Call -> {"idle", "insert", "walk"}]
    /\ draft \in [Call -> Drafts \cup {None}]
    /\ trail \in [Call -> Seq(Folder)]
    /\ renamed \subseteq Folder

TreeInit ==
    /\ parent = [f \in Folder |-> None]
    /\ name = [f \in Folder |-> None]
    /\ path = [f \in Folder |-> <<>>]
    /\ step = [c \in Call |-> "idle"]
    /\ draft = [c \in Call |-> None]
    /\ trail = [c \in Call |-> <<>>]
    /\ renamed = {}

Stored == {f \in Folder : parent[f] # None}
PathOf(p) == IF p = Root THEN <<>> ELSE path[p]

-----------------------------------------------------------------------------
(* create-folder.                                                           *)

\* Mutant: the parent is not looked up first.
StartCreateUnchecked(c, p, n) ==
    /\ step[c] = "idle" /\ p \in Folder \cup {Root}
    /\ step' = [step EXCEPT ![c] = "insert"]
    /\ draft' = [draft EXCEPT ![c] =
           [parent |-> p, name |-> n, path |-> Append(PathOf(p), n)]]
    /\ UNCHANGED <<tree, trail, renamed>>

\* The controller reads the parent folder, which must exist.
StartCreate(c, p, n) ==
    /\ step[c] = "idle" /\ p \in Stored \cup {Root}
    /\ step' = [step EXCEPT ![c] = "insert"]
    /\ draft' = [draft EXCEPT ![c] =
           [parent |-> p, name |-> n, path |-> Append(PathOf(p), n)]]
    /\ UNCHANGED <<tree, trail, renamed>>

InsertFolder(c, f) ==
    /\ step[c] = "insert" /\ f \notin Stored
    /\ parent' = [parent EXCEPT ![f] = draft[c].parent]
    /\ name' = [name EXCEPT ![f] = draft[c].name]
    /\ path' = [path EXCEPT ![f] = draft[c].path]
    /\ step' = [step EXCEPT ![c] = "idle"]
    /\ draft' = [draft EXCEPT ![c] = None]
    /\ UNCHANGED <<trail, renamed>>

-----------------------------------------------------------------------------
(* rename-folder: two look-ups that find the row, and one UPDATE.           *)

\* Mutant: the folder's path is made of its new name alone.
RenameWithPath(f, n) ==
    /\ f \in Stored
    /\ name' = [name EXCEPT ![f] = n]
    /\ path' = [path EXCEPT ![f] = <<n>>]
    /\ renamed' = renamed \cup {f}
    /\ UNCHANGED <<parent, treeCalls>>

RenameFolder(f, n) ==
    /\ f \in Stored
    /\ name' = [name EXCEPT ![f] = n]
    /\ renamed' = renamed \cup {f}
    /\ UNCHANGED <<parent, path, treeCalls>>

-----------------------------------------------------------------------------
(* The breadcrumb.                                                          *)

StartWalk(c, f) ==
    /\ step[c] = "idle" /\ f \in Stored
    /\ step' = [step EXCEPT ![c] = "walk"]
    /\ trail' = [trail EXCEPT ![c] = <<f>>]
    /\ UNCHANGED <<tree, draft, renamed>>

\* One turn of the loop: the parent is read and put in front.  Mutant: it is
\* put at the end.
WalkUpPush(c) ==
    /\ step[c] = "walk" /\ parent[Head(trail[c])] # Root
    /\ trail' = [trail EXCEPT ![c] = Append(trail[c], parent[Head(trail[c])])]
    /\ UNCHANGED <<tree, step, draft, renamed>>
WalkUp(c) ==
    /\ step[c] = "walk" /\ parent[Head(trail[c])] # Root
    /\ trail' = [trail EXCEPT ![c] = <<parent[Head(trail[c])]>> \o trail[c]]
    /\ UNCHANGED <<tree, step, draft, renamed>>

EndWalk(c) ==
    /\ step[c] = "walk" /\ parent[Head(trail[c])] = Root
    /\ step' = [step EXCEPT ![c] = "idle"]
    /\ trail' = [trail EXCEPT ![c] = <<>>]
    /\ UNCHANGED <<tree, draft, renamed>>

TreeNext ==
    \/ \E c \in Call, p \in Folder \cup {Root}, n \in Name : StartCreate(c, p, n)
    \/ \E c \in Call, f \in Folder : InsertFolder(c, f) \/ StartWalk(c, f)
    \/ \E f \in Folder, n \in Name : RenameFolder(f, n)
    \/ \E c \in Call : WalkUp(c) \/ EndWalk(c)

TreeSpec == TreeInit /\ [][TreeNext]_treeVars

-----------------------------------------------------------------------------
(* Properties.                                                              *)

\* The path of a folder is the path of its parent and a name, its own one
\* until it is renamed, whatever is renamed and created meanwhile: the zip
\* download puts a folder below its parent (createFolder, addFolderToArchive).
PathExtendsParent ==
    \A f \in Stored : \E n \in Name :
        /\ path[f] = Append(PathOf(parent[f]), n)
        /\ f \notin renamed => n = name[f]

\* The breadcrumb of a folder that exists reads only rows that exist, and it
\* reads none of them twice, so it comes to an end (getParentFolderIds).
WalkClimbs ==
    \A c \in Call : step[c] = "walk" =>
        /\ trail[c] # <<>> /\ Head(trail[c]) \in Stored
        /\ \A i \in 1..Len(trail[c]) - 1 :
              Len(path[trail[c][i]]) < Len(path[trail[c][i + 1]])
=============================================================================

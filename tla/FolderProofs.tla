---------------------------- MODULE FolderProofs ----------------------------
(***************************************************************************)
(* Proofs about the folders of FolderListing for every number of folders,  *)
(* names and calls.                                                        *)
(***************************************************************************)
EXTENDS FolderListing, FiniteSetTheorems, WellFoundedInduction, TLAPS

\* A draft is to be put below a folder that exists; a breadcrumb holds folders
\* that exist.  With the properties themselves this is inductive.
DraftsNested ==
    \A c \in Call : step[c] = "insert" =>
        /\ draft[c] \in Drafts
        /\ draft[c].parent \in Stored \cup {Root}
        /\ draft[c].path = Append(PathOf(draft[c].parent), draft[c].name)

TrailsStored ==
    \A c \in Call : \A i \in 1..Len(trail[c]) : trail[c][i] \in Stored

NamesStored == \A f \in Stored : name[f] \in Name

TreeInv ==
    /\ TreeTypeOK /\ NamesStored /\ DraftsNested /\ TrailsStored
    /\ PathExtendsParent /\ WalkClimbs

\* Init establishes it.
LEMMA TreeInitInv == TreeInit => TreeInv
<1> SUFFICES ASSUME TreeInit PROVE TreeInv
  OBVIOUS
<1>1. Stored = {} /\ \A c \in Call : step[c] = "idle" /\ trail[c] = <<>>
  BY DEF TreeInit, Stored
<1>2. TreeTypeOK
  BY FolderAssumption DEF TreeInit, TreeTypeOK
<1>3. QED
  BY <1>1, <1>2 DEF TreeInv, NamesStored, DraftsNested, TrailsStored, PathExtendsParent,
                   WalkClimbs

\* A folder that exists is in a folder that exists or in the root.
LEMMA ParentStored ==
    ASSUME TreeTypeOK, NEW f \in Stored
    PROVE  f \in Folder /\ parent[f] \in Stored \cup {Root}
BY DEF TreeTypeOK, Stored

\* The controller's half of createFolder.
LEMMA StartCreateInv ==
    ASSUME TreeInv, NEW c \in Call, NEW p \in Folder \cup {Root}, NEW n \in Name,
           StartCreate(c, p, n)
    PROVE  TreeInv'
<1> USE DEF TreeInv
<1> DEFINE d == [parent |-> p, name |-> n, path |-> Append(PathOf(p), n)]
<1>1. /\ p \in Stored \cup {Root} /\ tree' = tree /\ trail' = trail /\ renamed' = renamed
      /\ step' = [step EXCEPT ![c] = "insert"] /\ draft' = [draft EXCEPT ![c] = d]
  BY DEF StartCreate
<1>2. PathOf(p) \in Seq(Name)
  BY <1>1 DEF PathOf, Stored, TreeTypeOK
<1>3. d \in Drafts
  BY <1>2 DEF Drafts
<1>4. TreeTypeOK'
  BY <1>1, <1>3 DEF TreeTypeOK, tree
<1>5. Stored' = Stored /\ \A q : PathOf(q)' = PathOf(q)
  BY <1>1 DEF Stored, PathOf, tree
<1>6. DraftsNested'
  <2>1. ASSUME NEW e \in Call, step'[e] = "insert"
        PROVE  (/\ draft[e] \in Drafts /\ draft[e].parent \in Stored \cup {Root}
                /\ draft[e].path = Append(PathOf(draft[e].parent), draft[e].name))'
    <3>1. CASE e = c
      BY <1>1, <1>3, <3>1 DEF TreeTypeOK, PathOf, Stored, tree
    <3>2. CASE e # c
      BY <1>1, <2>1, <3>2 DEF TreeTypeOK, DraftsNested, PathOf, Stored, tree
    <3>3. QED
      BY <3>1, <3>2
  <2>2. QED
    BY <2>1 DEF DraftsNested
<1>7. NamesStored' /\ TrailsStored' /\ PathExtendsParent'
  BY <1>1, <1>5 DEF NamesStored, TrailsStored, PathExtendsParent, tree, PathOf
<1>8. WalkClimbs'
  BY <1>1, <1>5 DEF WalkClimbs, tree, TreeTypeOK
<1>9. QED
  BY <1>4, <1>6, <1>7, <1>8

\* The INSERT: rows that exist keep their parents and paths.
LEMMA InsertInv ==
    ASSUME TreeInv, NEW c \in Call, NEW f \in Folder, InsertFolder(c, f)
    PROVE  TreeInv'
<1> USE DEF TreeInv
<1> DEFINE d == draft[c]
<1>1. /\ step[c] = "insert" /\ f \notin Stored /\ trail' = trail /\ renamed' = renamed
      /\ parent' = [parent EXCEPT ![f] = d.parent]
      /\ name' = [name EXCEPT ![f] = d.name] /\ path' = [path EXCEPT ![f] = d.path]
      /\ step' = [step EXCEPT ![c] = "idle"] /\ draft' = [draft EXCEPT ![c] = None]
  BY DEF InsertFolder
<1>2. /\ d \in Drafts /\ d.parent \in Stored \cup {Root}
      /\ d.path = Append(PathOf(d.parent), d.name)
      /\ d.parent \in Folder \cup {Root} /\ d.name \in Name /\ d.path \in Seq(Name)
  BY <1>1 DEF DraftsNested, Drafts
<1>3. \A g \in Folder \ {f} : parent'[g] = parent[g] /\ name'[g] = name[g] /\ path'[g] = path[g]
  BY <1>1 DEF TreeTypeOK
<1>4. parent'[f] = d.parent /\ name'[f] = d.name /\ path'[f] = d.path
  BY <1>1 DEF TreeTypeOK
<1>5. Stored' = Stored \cup {f} /\ Stored \subseteq Folder
  BY <1>2, <1>3, <1>4, FolderAssumption DEF Stored
<1>6. \A q \in Stored \cup {Root} : PathOf(q)' = PathOf(q)
  BY <1>1, <1>3, <1>5 DEF PathOf
<1>7. TreeTypeOK'
  <2>1. \A g \in Folder : parent'[g] \in Folder => parent'[parent'[g]] # None
    <3>1. \A g \in Stored : parent[g] \in Stored \cup {Root}
      BY ParentStored
    <3>2. QED
      BY <1>2, <1>3, <1>4, <1>5, <3>1, FolderAssumption DEF Stored
  <2>2. QED
    BY <1>1, <1>2, <2>1 DEF TreeTypeOK
<1>8. NamesStored' /\ TrailsStored'
  BY <1>1, <1>2, <1>3, <1>4, <1>5 DEF NamesStored, TrailsStored
<1>9. DraftsNested'
  <2>1. ASSUME NEW e \in Call, step'[e] = "insert"
        PROVE  (/\ draft[e] \in Drafts /\ draft[e].parent \in Stored \cup {Root}
                /\ draft[e].path = Append(PathOf(draft[e].parent), draft[e].name))'
    <3>1. e # c /\ draft'[e] = draft[e] /\ step[e] = "insert"
      BY <1>1, <2>1 DEF TreeTypeOK
    <3>2. QED
      BY <1>1, <1>3, <1>5, <3>1 DEF DraftsNested, PathOf
  <2>2. QED
    BY <2>1 DEF DraftsNested
<1>10. PathExtendsParent'
  <2>1. ASSUME NEW g \in Stored'
        PROVE  (\E n \in Name : /\ path[g] = Append(PathOf(parent[g]), n)
                                /\ g \notin renamed => n = name[g])'
    <3>1. CASE g = f
      BY <1>1, <1>2, <1>3, <1>4, <1>5, <3>1 DEF PathOf
    <3>2. CASE g # f
      <4>1. g \in Stored /\ g \in Folder /\ parent[g] \in Stored \cup {Root}
        BY <1>5, <2>1, <3>2, ParentStored
      <4>2. QED
        BY <1>1, <1>3, <1>5, <3>2, <4>1 DEF PathExtendsParent, PathOf
    <3>3. QED
      BY <3>1, <3>2
  <2>2. QED
    BY <2>1 DEF PathExtendsParent
<1>11. WalkClimbs'
  <2>1. ASSUME NEW e \in Call, step'[e] = "walk"
        PROVE  /\ trail[e] # <<>> /\ Head(trail[e]) \in Stored
               /\ \A i \in 1..Len(trail[e]) - 1 :
                     Len(path'[trail[e][i]]) < Len(path'[trail[e][i + 1]])
    <3>1. step[e] = "walk"
      BY <1>1, <2>1 DEF TreeTypeOK
    <3>2. \A i \in 1..Len(trail[e]) : path'[trail[e][i]] = path[trail[e][i]]
      BY <1>1, <1>3, <1>5 DEF TrailsStored
    <3>3. Len(trail[e]) \in Nat
      BY DEF TreeTypeOK
    <3>4. ASSUME NEW i \in 1..Len(trail[e]) - 1
          PROVE  Len(path'[trail[e][i]]) < Len(path'[trail[e][i + 1]])
      <4>1. i \in 1..Len(trail[e]) /\ i + 1 \in 1..Len(trail[e])
        BY <3>3
      <4>2. Len(path[trail[e][i]]) < Len(path[trail[e][i + 1]])
        BY <3>1 DEF WalkClimbs
      <4>3. QED
        BY <3>2, <4>1, <4>2
    <3>5. QED
      BY <3>1, <3>4 DEF WalkClimbs
  <2>2. QED
    BY <1>1, <1>5, <2>1 DEF WalkClimbs
<1>12. QED
  BY <1>7, <1>8, <1>9, <1>10, <1>11

\* A folder is renamed: no path and no parent changes.
LEMMA RenameInv ==
    ASSUME TreeInv, NEW f \in Folder, NEW n \in Name, RenameFolder(f, n)
    PROVE  TreeInv'
<1> USE DEF TreeInv
<1>1. /\ parent' = parent /\ path' = path /\ step' = step /\ draft' = draft /\ trail' = trail
      /\ name' = [name EXCEPT ![f] = n] /\ renamed' = renamed \cup {f} /\ f \in Stored
  BY DEF RenameFolder, treeCalls
<1>2. Stored' = Stored
  BY <1>1 DEF Stored
<1>3. TreeTypeOK'
  BY <1>1 DEF TreeTypeOK
<1>4. NamesStored'
  BY <1>1, <1>2 DEF NamesStored, TreeTypeOK
<1>5. DraftsNested' /\ TrailsStored' /\ WalkClimbs'
  BY <1>1, <1>2 DEF DraftsNested, TrailsStored, WalkClimbs, PathOf
<1>6. PathExtendsParent'
  <2>1. \A g \in Stored : g # f => name'[g] = name[g]
    BY <1>1 DEF TreeTypeOK, Stored
  <2>2. QED
    BY <1>1, <1>2, <2>1 DEF PathExtendsParent, PathOf
<1>7. QED
  BY <1>3, <1>4, <1>5, <1>6

\* A turn of the breadcrumb's loop goes to a folder with a shorter path.
LEMMA WalkUpInv == ASSUME TreeInv, NEW c \in Call, WalkUp(c) PROVE TreeInv'
<1> USE DEF TreeInv
<1> DEFINE t == trail[c]
           p == parent[Head(t)]
<1>1. /\ step[c] = "walk" /\ p # Root /\ tree' = tree /\ step' = step /\ draft' = draft
      /\ renamed' = renamed /\ trail' = [trail EXCEPT ![c] = <<p>> \o t]
  BY DEF WalkUp
<1>2. t \in Seq(Folder) /\ t # <<>> /\ Head(t) \in Stored /\ Head(t) = t[1] /\ Len(t) \in Nat \ {0}
  BY <1>1 DEF TreeTypeOK, WalkClimbs
<1>3. p \in Stored /\ p \in Folder
  BY <1>1, <1>2, ParentStored DEF Stored
<1>4. /\ <<p>> \o t \in Seq(Folder) /\ Len(<<p>> \o t) = Len(t) + 1
      /\ Head(<<p>> \o t) = p /\ (<<p>> \o t)[1] = p
      /\ \A i \in 1..Len(t) : (<<p>> \o t)[i + 1] = t[i]
  BY <1>2, <1>3
<1>5. Len(path[p]) < Len(path[t[1]])
  <2>1. PICK n \in Name : path[Head(t)] = Append(PathOf(p), n)
    BY <1>2 DEF PathExtendsParent
  <2>2. PathOf(p) = path[p] /\ path[p] \in Seq(Name)
    BY <1>1, <1>3 DEF PathOf, TreeTypeOK
  <2>3. QED
    BY <1>2, <2>1, <2>2
<1>6. Stored' = Stored /\ parent' = parent /\ name' = name /\ path' = path
  BY <1>1 DEF Stored, tree
<1>7. TreeTypeOK'
  BY <1>1, <1>4, <1>6 DEF TreeTypeOK
<1>8. NamesStored' /\ DraftsNested' /\ PathExtendsParent'
  BY <1>1, <1>6 DEF NamesStored, DraftsNested, PathExtendsParent, PathOf
<1>9. \A i \in 1..Len(<<p>> \o t) : (<<p>> \o t)[i] \in Stored
  <2>1. ASSUME NEW i \in 1..Len(<<p>> \o t), i # 1 PROVE (<<p>> \o t)[i] \in Stored
    <3>1. i - 1 \in 1..Len(t) /\ (i - 1) + 1 = i
      BY <1>2, <1>4, <2>1
    <3>2. (<<p>> \o t)[i] = t[i - 1]
      BY <1>4, <3>1
    <3>3. QED
      BY <3>1, <3>2 DEF TrailsStored
  <2>2. QED
    BY <1>3, <1>4, <2>1
<1>10. TrailsStored'
  BY <1>1, <1>6, <1>9 DEF TrailsStored, TreeTypeOK
<1>11. \A i \in 1..Len(<<p>> \o t) - 1 :
          Len(path[(<<p>> \o t)[i]]) < Len(path[(<<p>> \o t)[i + 1]])
  <2>1. ASSUME NEW i \in 1..Len(<<p>> \o t) - 1, i # 1
        PROVE  Len(path[(<<p>> \o t)[i]]) < Len(path[(<<p>> \o t)[i + 1]])
    <3>1. i - 1 \in 1..Len(t) - 1 /\ i - 1 \in 1..Len(t) /\ i \in 1..Len(t) /\ (i - 1) + 1 = i
      BY <1>2, <1>4, <2>1
    <3>2. (<<p>> \o t)[i] = t[i - 1] /\ (<<p>> \o t)[i + 1] = t[i]
      BY <1>4, <3>1
    <3>3. Len(path[t[i - 1]]) < Len(path[t[i]])
      BY <1>1, <3>1 DEF WalkClimbs
    <3>4. QED
      BY <3>2, <3>3
  <2>2. (<<p>> \o t)[1 + 1] = t[1]
    BY <1>2, <1>4
  <2>3. QED
    BY <1>4, <1>5, <2>1, <2>2
<1>12. WalkClimbs'
  <2>1. ASSUME NEW e \in Call, step'[e] = "walk"
        PROVE  (/\ trail[e] # <<>> /\ Head(trail[e]) \in Stored
                /\ \A i \in 1..Len(trail[e]) - 1 :
                      Len(path[trail[e][i]]) < Len(path[trail[e][i + 1]]))'
    <3>1. CASE e = c
      <4>1. trail'[e] = <<p>> \o t /\ <<p>> \o t # <<>>
        BY <1>1, <1>2, <1>4, <3>1 DEF TreeTypeOK
      <4>2. QED
        BY <1>3, <1>4, <1>6, <1>11, <4>1
    <3>2. CASE e # c
      BY <1>1, <1>6, <2>1, <3>2 DEF WalkClimbs, TreeTypeOK
    <3>3. QED
      BY <3>1, <3>2
  <2>2. QED
    BY <2>1 DEF WalkClimbs
<1>13. QED
  BY <1>7, <1>8, <1>10, <1>12

\* A breadcrumb begins with the folder itself, and ends.
LEMMA WalkEndsInv ==
    ASSUME TreeInv, NEW c \in Call, EndWalk(c) \/ \E f \in Folder : StartWalk(c, f)
    PROVE  TreeInv'
<1> USE DEF TreeInv
<1>1. /\ tree' = tree /\ draft' = draft /\ renamed' = renamed
      /\ \/ /\ step' = [step EXCEPT ![c] = "idle"]
            /\ trail' = [trail EXCEPT ![c] = <<>>]
         \/ /\ step' = [step EXCEPT ![c] = "walk"]
            /\ \E f \in Stored : trail' = [trail EXCEPT ![c] = <<f>>]
  BY DEF EndWalk, StartWalk
<1>2. ASSUME NEW f \in Stored
      PROVE  /\ <<f>> \in Seq(Folder) /\ Len(<<f>>) = 1 /\ Head(<<f>>) = f
             /\ <<f>>[1] = f /\ <<f>> # <<>>
  <2>1. f \in Folder
    BY DEF Stored
  <2>2. QED
    BY <2>1
<1>3. Stored' = Stored /\ parent' = parent /\ name' = name /\ path' = path
  BY <1>1 DEF Stored, tree
<1>4. <<>> \in Seq(Folder) /\ Len(<<>>) = 0
  OBVIOUS
<1>5. TreeTypeOK'
  BY <1>1, <1>2, <1>3, <1>4 DEF TreeTypeOK
<1>6. NamesStored' /\ DraftsNested' /\ PathExtendsParent'
  BY <1>1, <1>3 DEF NamesStored, DraftsNested, PathExtendsParent, PathOf, TreeTypeOK
<1>7. \A e \in Call \ {c} : trail'[e] = trail[e] /\ step'[e] = step[e]
  BY <1>1 DEF TreeTypeOK
<1>8. \/ step'[c] = "idle" /\ trail'[c] = <<>>
      \/ \E f \in Stored : trail'[c] = <<f>>
  BY <1>1 DEF TreeTypeOK
<1>9. TrailsStored'
  <2>1. ASSUME NEW e \in Call, NEW i \in 1..Len(trail'[e]) PROVE trail'[e][i] \in Stored
    <3>1. CASE e = c
      BY <1>2, <1>4, <1>8, <2>1, <3>1
    <3>2. CASE e # c
      BY <1>7, <2>1, <3>2 DEF TrailsStored
    <3>3. QED
      BY <3>1, <3>2
  <2>2. QED
    BY <1>3, <2>1 DEF TrailsStored
<1>10. WalkClimbs'
  <2>1. ASSUME NEW e \in Call, step'[e] = "walk"
        PROVE  (/\ trail[e] # <<>> /\ Head(trail[e]) \in Stored
                /\ \A i \in 1..Len(trail[e]) - 1 :
                      Len(path[trail[e][i]]) < Len(path[trail[e][i + 1]]))'
    <3>1. CASE e = c
      <4>1. PICK f \in Stored : trail'[e] = <<f>>
        BY <1>8, <2>1, <3>1
      <4>2. 1..Len(<<f>>) - 1 = {}
        BY <1>2
      <4>3. QED
        BY <1>2, <1>3, <4>1, <4>2
    <3>2. CASE e # c
      BY <1>3, <1>7, <2>1, <3>2 DEF WalkClimbs
    <3>3. QED
      BY <3>1, <3>2
  <2>2. QED
    BY <2>1 DEF WalkClimbs
<1>11. QED
  BY <1>5, <1>6, <1>9, <1>10

\* Every step of the listing keeps the tree's invariant: it takes one of the
\* tree's steps or leaves the tree alone.
LEMMA NextTreeInv == TreeInv /\ [Next]_vars => TreeInv'
<1> SUFFICES ASSUME TreeInv, [Next]_vars PROVE TreeInv'
  OBVIOUS
<1>1. CASE \E c \in Call, f \in Folder : Insert(c, f)
  BY <1>1, InsertInv DEF Insert
<1>2. CASE \E f \in Folder, n \in Name : Rename(f, n)
  BY <1>2, RenameInv DEF Rename
<1>3. CASE OtherCalls
  BY <1>3, StartCreateInv, WalkUpInv, WalkEndsInv DEF OtherCalls
<1>4. CASE UNCHANGED treeVars
  BY <1>4 DEF treeVars, tree, treeCalls, TreeInv, TreeTypeOK, NamesStored, DraftsNested,
              TrailsStored, PathExtendsParent, WalkClimbs, PathOf, Stored
<1>5. QED
  BY <1>1, <1>2, <1>3, <1>4 DEF Next, AddFile, RenameFile, RemoveFile, StartListing, FetchRows,
     FetchCount, ShowPage, LastPage, vars

-----------------------------------------------------------------------------
(* Theorems.                                                                *)

\* The invariant holds in every state.
LEMMA Invariant == Spec => []TreeInv
<1>1. Init => TreeInv
  BY TreeInitInv DEF Init
<1>2. QED
  BY <1>1, NextTreeInv, PTL DEF Spec

\* The types of the folders' rows and calls; parents exist.
THEOREM TreeTypeCorrect == Spec => []TreeTypeOK
<1>1. TreeInv => TreeTypeOK
  BY DEF TreeInv
<1>2. QED
  BY <1>1, Invariant, PTL

\* Paths stay nested through any overlap of creations and renames.
THEOREM PathsNested == Spec => []PathExtendsParent
<1>1. TreeInv => PathExtendsParent
  BY DEF TreeInv
<1>2. QED
  BY <1>1, Invariant, PTL

\* The breadcrumb climbs: every folder it reads has a shorter path than the
\* one before, so it reads at most as many rows as the first path has names.
THEOREM BreadcrumbClimbs == Spec => []WalkClimbs
<1>1. TreeInv => WalkClimbs
  BY DEF TreeInv
<1>2. QED
  BY <1>1, Invariant, PTL

\* While a breadcrumb is read, the rows read so far and the path of the last
\* one read make up the path of the folder it is for.
Origin(c) == trail[c][Len(trail[c])]
TrailMeasured ==
    \A c \in Call : step[c] = "walk" =>
        Len(trail[c]) + Len(path[Head(trail[c])]) = Len(path[Origin(c)]) + 1

LEMMA InitMeasured == Init => TrailMeasured
BY DEF Init, TreeInit, TrailMeasured

\* Paths never change once their row is there.
LEMMA PathsStay ==
    ASSUME TreeInv, [Next]_vars, NEW f \in Stored PROVE path'[f] = path[f]
<1>1. CASE \E c \in Call, g \in Folder : InsertFolder(c, g)
  BY <1>1 DEF InsertFolder, TreeInv, TreeTypeOK
<1>2. CASE path' = path
  BY <1>2
<1>3. [Next]_vars => path' = path \/ \E c \in Call, g \in Folder : InsertFolder(c, g)
  BY DEF Next, Insert, Rename, RenameFolder, OtherCalls, StartCreate, StartWalk, WalkUp, EndWalk,
     AddFile, RenameFile, RemoveFile, StartListing, FetchRows, FetchCount, ShowPage, LastPage,
     vars, treeVars, tree
<1>4. QED
  BY <1>1, <1>2, <1>3

\* A breadcrumb that goes on is left alone by whatever else happens.
LEMMA TrailStep ==
    ASSUME TreeInv, [Next]_vars, NEW c \in Call, step'[c] = "walk"
    PROVE  \/ step[c] = "walk" /\ trail'[c] = trail[c]
           \/ WalkUp(c)
           \/ \E f \in Stored : trail'[c] = <<f>>
<1> USE DEF TreeInv, TreeTypeOK
<1>1. CASE \E d \in Call, f \in Folder : Insert(d, f)
  BY <1>1 DEF Insert, InsertFolder
<1>2. CASE OtherCalls
  BY <1>2 DEF OtherCalls, StartCreate, StartWalk, WalkUp, EndWalk
<1>3. CASE step' = step /\ trail' = trail
  BY <1>3
<1>4. QED
  BY <1>1, <1>2, <1>3 DEF Next, Rename, RenameFolder, AddFile, RenameFile, RemoveFile,
     StartListing, FetchRows, FetchCount, ShowPage, LastPage, vars, treeVars, treeCalls

LEMMA NextMeasured == TreeInv /\ TrailMeasured /\ [Next]_vars => TrailMeasured'
<1> SUFFICES ASSUME TreeInv, TrailMeasured, [Next]_vars, NEW c \in Call, step'[c] = "walk"
             PROVE  (Len(trail[c]) + Len(path[Head(trail[c])]) = Len(path[Origin(c)]) + 1)'
  BY DEF TrailMeasured
<1> DEFINE t == trail[c]
<1>1. CASE step[c] = "walk" /\ trail'[c] = trail[c]
  <2>1. /\ t \in Seq(Folder) /\ t # <<>> /\ Head(t) \in Stored
        /\ t[Len(t)] \in Stored
    BY <1>1 DEF TreeInv, TreeTypeOK, WalkClimbs, TrailsStored
  <2>2. path'[Head(t)] = path[Head(t)] /\ path'[t[Len(t)]] = path[t[Len(t)]]
    BY <2>1, PathsStay
  <2>3. QED
    BY <1>1, <2>2 DEF TrailMeasured, Origin
<1>2. CASE WalkUp(c)
  <2> DEFINE p == parent[Head(t)]
             u == <<p>> \o t
  <2>1. step[c] = "walk" /\ p # Root /\ path' = path /\ trail' = [trail EXCEPT ![c] = u]
    BY <1>2 DEF WalkUp, tree
  <2>2. t \in Seq(Folder) /\ t # <<>> /\ Head(t) \in Stored /\ trail'[c] = u
    BY <2>1 DEF TreeInv, TreeTypeOK, WalkClimbs
  <2>3. p \in Stored /\ p \in Folder
    BY <2>1, <2>2, ParentStored DEF TreeInv, Stored
  <2>4. Len(u) = Len(t) + 1 /\ Head(u) = p /\ u[Len(u)] = t[Len(t)] /\ Len(t) \in Nat
    BY <2>2, <2>3
  <2>5. PICK n \in Name : path[Head(t)] = Append(PathOf(p), n)
    BY <2>2 DEF TreeInv, PathExtendsParent
  <2>6. path[p] \in Seq(Name) /\ PathOf(p) = path[p]
    BY <2>1, <2>3 DEF TreeInv, TreeTypeOK, PathOf
  <2>7. Len(path[Head(t)]) = Len(path[p]) + 1 /\ Len(path[p]) \in Nat
    BY <2>5, <2>6
  <2>8. Len(t) + Len(path[Head(t)]) = Len(path[t[Len(t)]]) + 1
    BY <2>1 DEF TrailMeasured, Origin
  <2>9. Origin(c)' = t[Len(t)] /\ Head(trail'[c]) = p /\ Len(trail'[c]) = Len(t) + 1
    BY <2>2, <2>4 DEF Origin
  <2>10. Len(path'[Head(trail'[c])]) = Len(path[p])
         /\ Len(path'[Origin(c)']) = Len(path[t[Len(t)]])
    BY <2>1, <2>9
  <2>11. (Len(t) + 1) + Len(path[p]) = Len(path[t[Len(t)]]) + 1
    <3> DEFINE q == Len(path[Head(t)])
               r == Len(path[p])
               k == Len(path[t[Len(t)]])
               l == Len(t)
    <3>1. q = r + 1 /\ r \in Nat /\ l \in Nat /\ l + q = k + 1
      BY <2>4, <2>7, <2>8
    <3> HIDE DEF q, r, k, l
    <3>2. (l + 1) + r = k + 1
      BY <3>1
    <3>3. QED
      BY <3>2 DEF r, k, l
  <2>12. QED
    BY <2>9, <2>10, <2>11
<1>3. CASE \E f \in Stored : trail'[c] = <<f>>
  <2>1. PICK f \in Stored : trail'[c] = <<f>>
    BY <1>3
  <2>2. path'[f] \in Seq(Name) /\ f \in Folder
    BY <2>1, NextTreeInv DEF TreeInv, TreeTypeOK, Stored
  <2>3. Len(<<f>>) = 1 /\ Head(<<f>>) = f /\ <<f>>[1] = f /\ Len(path'[f]) \in Nat
    BY <2>2
  <2>4. QED
    BY <2>1, <2>3 DEF Origin
<1>4. QED
  BY <1>1, <1>2, <1>3, TrailStep

\* The breadcrumb comes to an end: it never holds more folders than the path
\* of its folder has names, and exactly as many when it is answered, however
\* many folders are created and renamed meanwhile (getParentFolderIds).
BreadcrumbLength ==
    \A c \in Call : step[c] = "walk" =>
        /\ Len(trail[c]) <= Len(path[Origin(c)])
        /\ parent[Head(trail[c])] = Root => Len(trail[c]) = Len(path[Origin(c)])

THEOREM BreadcrumbEnds == Spec => []BreadcrumbLength
<1>1. TreeInv /\ TrailMeasured => BreadcrumbLength
  <2> SUFFICES ASSUME TreeInv, TrailMeasured, NEW c \in Call, step[c] = "walk"
               PROVE  /\ Len(trail[c]) <= Len(path[Origin(c)])
                      /\ parent[Head(trail[c])] = Root => Len(trail[c]) = Len(path[Origin(c)])
    BY DEF BreadcrumbLength
  <2> DEFINE f == Head(trail[c])
  <2>1. f \in Stored /\ f \in Folder /\ trail[c] \in Seq(Folder) /\ trail[c] # <<>>
    BY DEF TreeInv, TreeTypeOK, WalkClimbs, Stored
  <2>2. Origin(c) \in Folder /\ Len(trail[c]) \in Nat
    BY <2>1 DEF Origin
  <2>3. PICK n \in Name : path[f] = Append(PathOf(parent[f]), n)
    BY <2>1 DEF TreeInv, PathExtendsParent
  <2>4. PathOf(parent[f]) \in Seq(Name)
    BY <2>1, ParentStored DEF TreeInv, TreeTypeOK, PathOf, Stored
  <2>5. Len(path[f]) >= 1 /\ Len(path[f]) \in Nat /\ (parent[f] = Root => Len(path[f]) = 1)
    BY <2>3, <2>4 DEF PathOf
  <2>6. Len(path[Origin(c)]) \in Nat
    BY <2>2 DEF TreeInv, TreeTypeOK
  <2>7. Len(trail[c]) + Len(path[f]) = Len(path[Origin(c)]) + 1
    BY DEF TrailMeasured
  <2> DEFINE l == Len(trail[c])
             q == Len(path[f])
             k == Len(path[Origin(c)])
  <2>8. /\ l \in Nat /\ q \in Nat /\ k \in Nat /\ q >= 1
        /\ parent[f] = Root => q = 1
        /\ l + q = k + 1
    BY <2>2, <2>5, <2>6, <2>7
  <2> HIDE DEF l, q, k
  <2>9. l <= k /\ (parent[f] = Root => l = k)
    BY <2>8
  <2>10. QED
    BY <2>9 DEF l, k
<1>2. Init => TreeInv /\ TrailMeasured
  BY TreeInitInv, InitMeasured DEF Init
<1>3. QED
  BY <1>1, <1>2, NextTreeInv, NextMeasured, PTL DEF Spec

-----------------------------------------------------------------------------
(* The folders form a tree, whatever else happens.                          *)

\* A set of folders each of which has its parent in the set is empty, so that
\* no chain of parents comes back to where it began or goes on for ever.
NoFolderCycle ==
    \A S \in SUBSET Stored : (\A f \in S : parent[f] \in S) => S = {}

\* The zip download and the breadcrumb walk a tree: creations and renames never
\* put a folder below itself (addFolderToArchive, getParentFolderIds).
THEOREM FoldersFormTree == Spec => []NoFolderCycle
<1>1. TreeInv => NoFolderCycle
  <2> SUFFICES ASSUME TreeInv, NEW S \in SUBSET Stored, \A f \in S : parent[f] \in S,
                      S # {}
               PROVE  FALSE
    BY DEF NoFolderCycle
  <2> DEFINE T == {Len(path[f]) : f \in S}
  <2>1. \A f \in S : f \in Folder /\ path[f] \in Seq(Name)
    BY DEF TreeInv, TreeTypeOK, Stored
  <2>2. T \subseteq Nat /\ T # {}
    <3>1. \A f \in S : Len(path[f]) \in Nat
      BY <2>1
    <3>2. PICK f \in S : TRUE
      OBVIOUS
    <3>3. Len(path[f]) \in T
      OBVIOUS
    <3>4. QED
      BY <3>1, <3>3
  <2>3. PICK x \in T : \A y \in T : ~(<<y, x>> \in OpToRel(<, Nat))
    BY <2>2, NatLessThanWellFounded, WFMin
  <2>4. PICK f \in S : x = Len(path[f])
    OBVIOUS
  <2>5. parent[f] \in S /\ parent[f] # Root
    BY <2>1, FolderAssumption
  <2>6. PICK n \in Name : path[f] = Append(path[parent[f]], n)
    BY <2>5 DEF TreeInv, PathExtendsParent, PathOf
  <2>7. Len(path[parent[f]]) < Len(path[f]) /\ Len(path[parent[f]]) \in T
    BY <2>1, <2>5, <2>6
  <2>8. <<Len(path[parent[f]]), x>> \in OpToRel(<, Nat)
    BY <2>2, <2>4, <2>7 DEF OpToRel
  <2>9. QED
    BY <2>3, <2>7, <2>8
<1>2. QED
  BY <1>1, Invariant, PTL

\* What the listing adds leaves the folders' own specification alone: the
\* folders go on as FolderTree says, whoever lists them.
THEOREM TreeImplemented == Spec => TreeSpec
<1>1. Init => TreeInit
  BY DEF Init
<1>2. [Next]_vars => [TreeNext]_treeVars
  BY DEF Next, Insert, Rename, OtherCalls, AddFile, RenameFile, RemoveFile, StartListing,
     FetchRows, FetchCount, ShowPage, LastPage, vars, TreeNext
<1>3. QED
  BY <1>1, <1>2, PTL DEF Spec, TreeSpec

-----------------------------------------------------------------------------
(* The listing: its rows are ordered, and the client's pages cover them.    *)

\* The order of the rows, as part of TypeOK.
Ordered ==
    /\ newer \in [Item -> SUBSET Present]
    /\ \A i \in Item : i \notin newer[i]
    /\ LatestFirst

\* A row put behind all those later than some time keeps the rows in order.
LEMMA PutBehindOrdered ==
    ASSUME Ordered, NEW i \in Item, NEW B \in SUBSET Present, i \notin B, Latest(B),
           PutBehind(i, B), Present' = Present \cup {i}
    PROVE  Ordered'
<1> USE DEF Ordered
<1>0. Present \subseteq Item /\ Present' \subseteq Item
  BY DEF Present, Stored, Item
<1>1. newer' = [j \in Item |-> IF j = i THEN B
                               ELSE IF j \in Present \ B THEN newer[j] \cup {i}
                               ELSE newer[j] \ {i}]
  BY DEF PutBehind
<1>2. newer' \in [Item -> SUBSET Present'] /\ \A j \in Item : j \notin newer'[j]
  BY <1>0, <1>1
<1>3. newer'[i] = B
  BY <1>1
<1>4. \A j \in Item \ {i} : /\ newer'[j] \ {i} = newer[j] \ {i}
                            /\ i \in newer'[j] <=> j \in Present \ B
  BY <1>1
<1>5. ASSUME NEW j \in Present', NEW k \in Present', j # k
      PROVE  j \in newer'[k] <=> k \notin newer'[j]
  <2>1. CASE j = i
    BY <1>0, <1>3, <1>4, <1>5, <2>1
  <2>2. CASE k = i
    BY <1>0, <1>3, <1>4, <1>5, <2>2
  <2>3. CASE j # i /\ k # i
    <3>1. j \in Present /\ k \in Present
      BY <2>3
    <3>2. j \in newer[k] <=> k \notin newer[j]
      BY <1>5, <3>1 DEF LatestFirst
    <3>3. QED
      BY <1>0, <1>4, <2>3, <3>1, <3>2
  <2>4. QED
    BY <2>1, <2>2, <2>3
<1>6. ASSUME NEW j \in Present', NEW k \in Present', j \in newer'[k]
      PROVE  newer'[j] \subseteq newer'[k]
  <2>1. CASE j = i
    <3>1. k # i /\ k \in Present \ B
      BY <1>0, <1>2, <1>4, <1>6, <2>1
    <3>2. ASSUME NEW b \in B PROVE b \in newer[k]
      <4>1. b \in Present /\ b # k /\ k \notin newer[b]
        BY <3>1 DEF Latest
      <4>2. QED
        BY <3>1, <4>1 DEF LatestFirst
    <3>3. QED
      BY <1>0, <1>3, <1>4, <2>1, <3>1, <3>2
  <2>2. CASE k = i
    <3>1. j \in B /\ j # i /\ newer[j] \subseteq B
      BY <1>3, <1>6, <2>2 DEF Latest
    <3>2. j \in Item \ {i} /\ i \notin newer'[j]
      BY <1>0, <1>4, <3>1
    <3>3. QED
      BY <1>3, <1>4, <2>2, <3>1, <3>2
  <2>3. CASE j # i /\ k # i
    <3>1. j \in Present /\ k \in Present /\ j \in newer[k]
      BY <1>0, <1>4, <1>6, <2>3
    <3>2. newer[j] \subseteq newer[k]
      BY <3>1 DEF LatestFirst
    <3>3. k \in B => j \in B
      BY <3>1 DEF Latest
    <3>4. i \in newer'[j] => i \in newer'[k]
      BY <1>0, <1>4, <2>3, <3>1, <3>3
    <3>5. QED
      BY <1>0, <1>4, <2>3, <3>1, <3>2, <3>4
  <2>4. QED
    BY <2>1, <2>2, <2>3
<1>7. QED
  BY <1>2, <1>5, <1>6 DEF LatestFirst

\* No row precedes a row that is gone.
LEMMA RemoveOrdered ==
    ASSUME Ordered, NEW x \in File, RemoveFile(x), Present' = Present \ {x}
    PROVE  Ordered'
<1> USE DEF Ordered
<1>1. newer' = [i \in Item |-> IF i = x THEN {} ELSE newer[i] \ {x}]
  BY DEF RemoveFile
<1>2. Present \subseteq Item
  BY DEF Present, Stored, Item
<1>3. LatestFirst'
  BY <1>1, <1>2 DEF LatestFirst
<1>4. QED
  BY <1>1, <1>2, <1>3

\* What the client has still to be shown is not behind it: it precedes no page
\* that was shown, is on the page just read, or makes the count exceed it.
Ahead(d, k) ==
    IF rows[k] = None
    THEN (page - 1) * Limit <= Before(d, List(k, place))
    ELSE d \notin rows[k] =>
            /\ page * Limit <= Before(d, List(k, place))
            /\ count[k] # None => page * Limit < count[k]

DueListed == place # None => due \subseteq FoldersIn(place) \cup FilesIn(place)

DueAhead == \A k \in Kind : \A d \in due \cap List(k, place) : Ahead(d, k)

ListingTypes ==
    /\ folderOf \in [File -> Stored \cup {Root, None}]
    /\ Ordered
    /\ place \in Stored \cup {Root, None}
    /\ page \in Nat
    /\ rows \in [Kind -> (SUBSET Item) \cup {None}]
    /\ count \in [Kind -> Nat \cup {None}]
    /\ due \subseteq Item

ListingInv ==
    /\ TreeInv /\ ListingTypes
    /\ IsFiniteSet(Present)
    /\ place = None => due = {}
    /\ place # None => page # 0
    /\ \A k \in Kind : rows[k] = None => count[k] = None
    /\ DueListed
    /\ DueAhead

\* The lists hold rows that exist.
LEMMA ListFacts ==
    ASSUME NEW p, p # None, NEW k \in Kind
    PROVE  List(k, p) \subseteq Present /\ List(k, p) \subseteq Item
BY DEF List, FoldersIn, FilesIn, Present, Stored, Item

\* How many rows of a list precede a row is at most what the list holds.
LEMMA BeforeFacts ==
    ASSUME ListingTypes, IsFiniteSet(Present), place # None,
           NEW k \in Kind, NEW d \in List(k, place)
    PROVE  /\ Before(d, List(k, place)) \in Nat
           /\ Cardinality(List(k, place)) \in Nat
           /\ Before(d, List(k, place)) < Cardinality(List(k, place))
<1> DEFINE L == List(k, place)
           A == newer[d] \cap L
<1>1. L \subseteq Present /\ L \subseteq Item
  BY ListFacts
<1>2. IsFiniteSet(L)
  BY <1>1, FS_Subset
<1>3. IsFiniteSet(A) /\ IsFiniteSet(L \ {d}) /\ A \subseteq L \ {d}
  BY <1>1, <1>2, FS_Subset DEF ListingTypes, Ordered
<1>4. Cardinality(A) <= Cardinality(L \ {d})
  BY <1>3, FS_Subset
<1>5. Cardinality(L \ {d}) = Cardinality(L) - 1
  BY <1>2, FS_RemoveElement
<1>6. Cardinality(A) \in Nat /\ Cardinality(L) \in Nat
  BY <1>2, <1>3, FS_CardinalityType
<1>7. QED
  BY <1>4, <1>5, <1>6 DEF Before

\* Whatever others do, the rows before one that is still due stay before it.
LEMMA OthersKeepDue ==
    ASSUME ListingInv, ListingTypes', IsFiniteSet(Present)', UNCHANGED client,
           due' \subseteq due,
           place # None =>
               \A k \in Kind : \A d \in due' \cap List(k, place) :
                   /\ d \in List(k, place)'
                   /\ newer[d] \cap List(k, place) \subseteq (newer[d] \cap List(k, place))'
    PROVE  /\ place' = None => due' = {}
           /\ place' # None => page' # 0
           /\ \A k \in Kind : rows'[k] = None => count'[k] = None
           /\ DueListed' /\ DueAhead'
<1>1. place' = place /\ page' = page /\ rows' = rows /\ count' = count
  BY DEF client
<1>2. /\ place' = None => due' = {}
      /\ place' # None => page' # 0
      /\ \A k \in Kind : rows'[k] = None => count'[k] = None
  BY <1>1 DEF ListingInv
<1>3. CASE place = None
  BY <1>1, <1>2, <1>3 DEF DueListed, DueAhead
<1>4. CASE place # None
  <2>1. ASSUME NEW k \in Kind, NEW d \in due' \cap List(k, place)' PROVE d \in List(k, place)
    BY <1>1, <1>4, <2>1, ListingAssumption
       DEF ListingInv, DueListed, List, FoldersIn, FilesIn, Kind
  <2>2. ASSUME NEW k \in Kind, NEW d \in due' \cap List(k, place)
        PROVE  d \in List(k, place)' /\ Ahead(d, k)'
    <3> DEFINE A == newer[d] \cap List(k, place)
               L == List(k, place)'
    <3>1. d \in L /\ A \subseteq (newer[d] \cap List(k, place))'
      BY <1>4
    <3>2. L \subseteq Present'
      BY <1>1, <1>4 DEF List, FoldersIn, FilesIn, Present, Stored, Item
    <3>3. IsFiniteSet((newer[d] \cap List(k, place))')
      BY <3>2, FS_Subset
    <3>4. /\ Cardinality(A) <= Cardinality((newer[d] \cap List(k, place))')
          /\ Cardinality(A) \in Nat
          /\ Cardinality((newer[d] \cap List(k, place))') \in Nat
      BY <3>1, <3>3, FS_Subset, FS_CardinalityType
    <3>5. Before(d, List(k, place)) <= Before(d, List(k, place))'
      BY <3>4 DEF Before
    <3>6. /\ Before(d, List(k, place)) \in Nat
          /\ Before(d, List(k, place))' \in Nat
      BY <3>4 DEF Before
    <3>7. page * Limit \in Nat /\ (page - 1) * Limit \in Int
      BY ListingAssumption DEF ListingInv, ListingTypes
    <3>8. Ahead(d, k)
      BY DEF ListingInv, DueAhead
    <3>9. QED
      BY <1>1, <3>1, <3>5, <3>6, <3>7, <3>8 DEF Ahead
  <2>3. DueListed'
    BY <1>1, <1>4, <2>2, ListingAssumption
       DEF ListingInv, DueListed, List, FoldersIn, FilesIn, Kind
  <2>4. DueAhead'
    BY <2>1, <2>2 DEF DueAhead
  <2>5. QED
    BY <1>2, <2>3, <2>4
<1>5. QED
  BY <1>3, <1>4

\* A folder or file that is touched takes the first place or, when it is new,
\* a later one; the rows that are due keep theirs or move back.
LEMMA PutBehindKeepsDue ==
    ASSUME ListingInv, TreeInv', NEW i \in Item, NEW B \in SUBSET Present, i \notin B,
           Latest(B), PutBehind(i, B), Present' = Present \cup {i}, UNCHANGED client,
           folderOf' \in [File -> Stored' \cup {Root, None}],
           \A f \in Folder \ {i} : parent'[f] = parent[f],
           \A x \in File \ {i} : folderOf'[x] = folderOf[x],
           \A f \in Stored : parent'[f] = parent[f],
           \A x \in File : folderOf[x] # None => folderOf'[x] = folderOf[x]
    PROVE  ListingInv'
<1>0. ListingTypes /\ Ordered /\ IsFiniteSet(Present)
  BY DEF ListingInv, ListingTypes
<1>1. Ordered'
  BY <1>0, PutBehindOrdered
<1>2. Stored \subseteq Stored'
  BY DEF Stored, ListingInv, TreeInv, TreeTypeOK
<1>3. IsFiniteSet(Present)'
  BY <1>0, FS_AddElement
<1>4. ListingTypes'
  BY <1>0, <1>1, <1>2 DEF ListingTypes, client, PutBehind
<1>5. due' \subseteq due /\ i \notin due'
  BY DEF PutBehind
<1>6. ASSUME place # None, NEW k \in Kind, NEW d \in due' \cap List(k, place)
      PROVE  /\ d \in List(k, place)'
             /\ newer[d] \cap List(k, place) \subseteq (newer[d] \cap List(k, place))'
  <2>1. place' = place
    BY DEF client
  <2>2. List(k, place) \subseteq List(k, place)'
    BY <1>0, <1>6, <2>1 DEF List, FoldersIn, FilesIn, Stored
  <2>3. d \in Item /\ d # i
    BY <1>0, <1>5 DEF ListingTypes
  <2>4. newer[d] \ {i} \subseteq newer'[d]
    BY <2>3 DEF PutBehind
  <2>5. i \in newer[d] => i \in newer'[d]
    <3>1. ASSUME i \in newer[d] PROVE d \notin B
      BY <3>1 DEF Latest
    <3>2. d \in Present
      BY <1>6, ListFacts
    <3>3. QED
      BY <2>3, <3>1, <3>2 DEF PutBehind
  <2>6. QED
    BY <2>2, <2>4, <2>5
<1>7. QED
  BY <1>3, <1>4, <1>5, <1>6, OthersKeepDue DEF ListingInv

\* A new folder, a renamed one, a new file and a renamed one.
LEMMA InsertListing ==
    ASSUME ListingInv, NEW c \in Call, NEW f \in Folder, Insert(c, f) PROVE ListingInv'
<1>1. TreeInv /\ TreeInv'
  BY InsertInv DEF Insert, ListingInv
<1>2. /\ f \notin Stored /\ folderOf' = folderOf /\ UNCHANGED client
      /\ parent' = [parent EXCEPT ![f] = draft[c].parent] /\ PutBehind(f, {})
  BY DEF Insert, InsertFolder, Touch
<1>3. draft[c].parent # None
  BY <1>1, FolderAssumption DEF Insert, InsertFolder, TreeInv, DraftsNested, Drafts
<1>4. Stored' = Stored \cup {f} /\ \A g \in Folder \ {f} : parent'[g] = parent[g]
  BY <1>1, <1>2, <1>3 DEF Stored, TreeInv, TreeTypeOK
<1>5. Present' = Present \cup {f}
  BY <1>2, <1>4 DEF Present
<1>6. folderOf' \in [File -> Stored' \cup {Root, None}]
  BY <1>2, <1>4 DEF ListingInv, ListingTypes
<1>7. \A g \in Stored : parent'[g] = parent[g]
  BY <1>2, <1>4 DEF Stored
<1>8. QED
  BY <1>1, <1>2, <1>4, <1>5, <1>6, <1>7, PutBehindKeepsDue DEF Latest, Item

LEMMA RenameListing ==
    ASSUME ListingInv, NEW f \in Folder, NEW n \in Name, Rename(f, n) PROVE ListingInv'
<1>1. TreeInv /\ TreeInv'
  BY RenameInv DEF Rename, ListingInv
<1>2. f \in Stored /\ folderOf' = folderOf /\ UNCHANGED client /\ parent' = parent /\ PutBehind(f, {})
  BY DEF Rename, RenameFolder, Touch
<1>3. Stored' = Stored /\ Present' = Present \cup {f}
  BY <1>2 DEF Stored, Present
<1>4. folderOf' \in [File -> Stored' \cup {Root, None}]
  BY <1>2, <1>3 DEF ListingInv, ListingTypes
<1>5. QED
  BY <1>1, <1>2, <1>3, <1>4, PutBehindKeepsDue DEF Latest, Item

LEMMA AddFileListing ==
    ASSUME ListingInv, NEW x \in File, NEW p \in Folder \cup {Root}, AddFile(x, p)
    PROVE  ListingInv'
<1>1. TreeInv /\ TreeInv'
  BY NextTreeInv DEF AddFile, ListingInv, Next
<1>2. /\ folderOf[x] = None /\ p \in Stored \cup {Root} /\ parent' = parent /\ UNCHANGED client
      /\ folderOf' = [folderOf EXCEPT ![x] = p]
  BY DEF AddFile, treeVars, tree
<1>3. PICK B \in SUBSET Present : Latest(B) /\ PutBehind(x, B)
  BY DEF AddFile
<1>4. Stored' = Stored /\ p # None
  BY <1>2, FolderAssumption DEF Stored
<1>5. Present' = Present \cup {x} /\ x \notin Present
  BY <1>2, <1>4, ListingAssumption DEF Present, Stored, ListingInv, ListingTypes
<1>6. folderOf' \in [File -> Stored' \cup {Root, None}]
  BY <1>2, <1>4 DEF ListingInv, ListingTypes
<1>7. \A y \in File \ {x} : folderOf'[y] = folderOf[y]
  BY <1>2 DEF ListingInv, ListingTypes
<1>8. QED
  BY <1>1, <1>2, <1>3, <1>5, <1>6, <1>7, PutBehindKeepsDue DEF Item

LEMMA RenameFileListing == ASSUME ListingInv, NEW x \in File, RenameFile(x) PROVE ListingInv'
<1>1. TreeInv /\ TreeInv'
  BY NextTreeInv DEF RenameFile, ListingInv, Next
<1>2. folderOf[x] # None /\ parent' = parent /\ UNCHANGED client /\ folderOf' = folderOf
  BY DEF RenameFile, treeVars, tree
<1>3. PutBehind(x, {})
  BY DEF RenameFile, Touch
<1>4. Stored' = Stored /\ Present' = Present \cup {x}
  BY <1>2 DEF Stored, Present
<1>5. folderOf' \in [File -> Stored' \cup {Root, None}]
  BY <1>2, <1>4 DEF ListingInv, ListingTypes
<1>6. QED
  BY <1>1, <1>2, <1>3, <1>4, <1>5, PutBehindKeepsDue DEF Latest, Item

\* A deletion moves forward only the files behind it in its folder.
LEMMA RemoveFileListing == ASSUME ListingInv, NEW x \in File, RemoveFile(x) PROVE ListingInv'
<1>0. ListingTypes /\ Ordered /\ IsFiniteSet(Present)
  BY DEF ListingInv, ListingTypes
<1>1. TreeInv /\ TreeInv'
  BY NextTreeInv DEF RemoveFile, ListingInv, Next
<1>2. /\ parent' = parent /\ UNCHANGED client
      /\ folderOf' = [folderOf EXCEPT ![x] = None]
      /\ newer' = [i \in Item |-> IF i = x THEN {} ELSE newer[i] \ {x}]
      /\ due' = due \ ({x} \cup {i \in FilesIn(folderOf[x]) : x \in newer[i]})
  BY DEF RemoveFile, treeVars, tree
<1>3. Stored' = Stored /\ Present' = Present \ {x}
  BY <1>0, <1>2, ListingAssumption DEF Stored, Present, ListingTypes
<1>4. Ordered'
  BY <1>0, <1>3, RemoveOrdered
<1>5. ListingTypes'
  BY <1>0, <1>2, <1>3, <1>4 DEF ListingTypes, client
<1>6. IsFiniteSet(Present)'
  BY <1>0, <1>3, FS_RemoveElement
<1>7. ASSUME place # None, NEW k \in Kind, NEW d \in due' \cap List(k, place)
      PROVE  /\ d \in List(k, place)'
             /\ newer[d] \cap List(k, place) \subseteq (newer[d] \cap List(k, place))'
  <2>1. place' = place /\ d \in Item /\ d # x /\ newer'[d] = newer[d] \ {x}
    BY <1>0, <1>2 DEF ListingTypes, client
  <2>2. List(k, place) \ {x} \subseteq List(k, place)'
    BY <1>0, <1>2, <2>1 DEF List, FoldersIn, FilesIn, ListingTypes
  <2>3. x \in List(k, place) => x \notin newer[d]
    BY <1>2, <1>7, ListingAssumption DEF List, FoldersIn, FilesIn
  <2>4. QED
    BY <1>7, <2>1, <2>2, <2>3
<1>8. due' \subseteq due
  BY <1>2
<1>9. QED
  BY <1>1, <1>2, <1>5, <1>6, <1>7, <1>8, OthersKeepDue DEF ListingInv

\* A step of the client alone leaves the rows and the folders alone.
LEMMA ClientTypes ==
    ASSUME ListingInv, UNCHANGED <<treeVars, newer, folderOf>>
    PROVE  /\ TreeInv' /\ Ordered' /\ IsFiniteSet(Present)' /\ Stored' = Stored
           /\ folderOf' \in [File -> Stored' \cup {Root, None}]
           /\ \A p : \A k \in Kind : List(k, p)' = List(k, p)
           /\ \A d, S : Before(d, S)' = Before(d, S)
<1>1. UNCHANGED <<parent, name, path, step, draft, trail, renamed, newer, folderOf>>
  BY DEF treeVars, tree, treeCalls
<1>2. Stored' = Stored /\ Present' = Present
  BY <1>1 DEF Stored, Present
<1>3. TreeInv'
  BY <1>1 DEF ListingInv, TreeInv, TreeTypeOK, NamesStored, DraftsNested, TrailsStored,
     PathExtendsParent, WalkClimbs, PathOf, Stored
<1>4. \A p : \A k \in Kind : List(k, p)' = List(k, p)
  BY <1>1 DEF List, FoldersIn, FilesIn
<1>5. QED
  BY <1>1, <1>2, <1>3, <1>4 DEF ListingInv, ListingTypes, Ordered, LatestFirst, Before

LEMMA StartListingInv ==
    ASSUME ListingInv, NEW p \in Folder \cup {Root}, StartListing(p) PROVE ListingInv'
<1>1. /\ p \in Stored \cup {Root} /\ p # None /\ place' = p /\ page' = 1
      /\ rows' = Unread /\ count' = Unread
      /\ due' = FoldersIn(p) \cup FilesIn(p)
      /\ UNCHANGED <<treeVars, newer, folderOf>>
  BY FolderAssumption DEF StartListing, Stored
<1>2. \A k \in Kind : Unread[k] = None
  BY DEF Unread
<1>3. ListingTypes'
  BY <1>1, ClientTypes DEF ListingTypes, Unread, FoldersIn, FilesIn, Item
<1>4. FoldersIn(p)' = FoldersIn(p) /\ FilesIn(p)' = FilesIn(p)
  BY <1>1 DEF FoldersIn, FilesIn, treeVars, tree
<1>5. DueListed'
  BY <1>1, <1>4 DEF DueListed, FoldersIn, FilesIn
<1>6. ASSUME NEW k \in Kind, NEW d \in (due \cap List(k, place))' PROVE Ahead(d, k)'
  <2>1. Before(d, List(k, place))' \in Nat
    BY <1>1, <1>3, <1>6, ClientTypes, FS_Subset, FS_CardinalityType
       DEF Before, List, FoldersIn, FilesIn, Present, Stored, Item
  <2>2. (page' - 1) * Limit = 0
    BY <1>1, ListingAssumption
  <2>3. QED
    BY <1>1, <1>2, <2>1, <2>2 DEF Ahead
<1>7. QED
  BY <1>1, <1>2, <1>3, <1>5, <1>6, ClientTypes DEF ListingInv, DueAhead

LEMMA FetchRowsInv == ASSUME ListingInv, NEW k \in Kind, FetchRows(k) PROVE ListingInv'
<1> DEFINE L == List(k, place)
<1>1. /\ place # None /\ rows[k] = None /\ rows' = [rows EXCEPT ![k] = OnPage(L)]
      /\ UNCHANGED <<treeVars, newer, folderOf, place, page, count, due>>
  BY DEF FetchRows
<1>2. ListingTypes
  BY DEF ListingInv
<1>3. OnPage(L) \in SUBSET Item
  BY <1>1, ListFacts DEF OnPage
<1>4. ListingTypes'
  BY <1>1, <1>2, <1>3, ClientTypes DEF ListingTypes
<1>5. rows'[k] = OnPage(L) /\ \A j \in Kind \ {k} : rows'[j] = rows[j]
  BY <1>1, <1>2 DEF ListingTypes
<1>6. rows'[k] # None \/ count'[k] = None
  BY <1>1 DEF ListingInv
<1>7. ASSUME NEW j \in Kind, NEW d \in (due \cap List(j, place))' PROVE Ahead(d, j)'
  <2>1. d \in due \cap List(j, place) /\ Ahead(d, j) /\ List(j, place)' = List(j, place)
    BY <1>1, <1>7, ClientTypes DEF ListingInv, DueAhead
  <2>2. Before(d, List(j, place))' = Before(d, List(j, place))
    BY <1>1, <2>1, ClientTypes
  <2>3. CASE j # k
    BY <1>1, <1>5, <2>1, <2>2, <2>3 DEF Ahead
  <2>4. CASE j = k
    <3>1. (page - 1) * Limit <= Before(d, L) /\ count[k] = None
      BY <1>1, <2>1, <2>4 DEF Ahead, ListingInv
    <3>2. Before(d, L) \in Nat /\ page * Limit \in Nat
      BY <1>1, <1>2, <2>1, <2>4, BeforeFacts, ListingAssumption DEF ListingInv, ListingTypes
    <3>3. d \notin OnPage(L) => page * Limit <= Before(d, L)
      BY <2>1, <2>4, <3>1, <3>2 DEF OnPage
    <3>4. QED
      BY <1>1, <1>5, <2>1, <2>2, <2>4, <3>1, <3>3 DEF Ahead
  <2>5. QED
    BY <2>3, <2>4
<1>8. DueListed'
  BY <1>1 DEF ListingInv, DueListed, FoldersIn, FilesIn, treeVars, tree
<1>9. QED
  BY <1>1, <1>4, <1>5, <1>6, <1>7, <1>8, ClientTypes DEF ListingInv, DueAhead

LEMMA FetchCountInv == ASSUME ListingInv, NEW k \in Kind, FetchCount(k) PROVE ListingInv'
<1> DEFINE L == List(k, place)
<1>1. /\ place # None /\ rows[k] # None /\ count' = [count EXCEPT ![k] = Cardinality(L)]
      /\ UNCHANGED <<treeVars, newer, folderOf, place, page, rows, due>>
  BY DEF FetchCount
<1>2. ListingTypes
  BY DEF ListingInv
<1>3. Cardinality(L) \in Nat
  BY <1>1, ListFacts, FS_Subset, FS_CardinalityType DEF ListingInv
<1>4. ListingTypes'
  BY <1>1, <1>2, <1>3, ClientTypes DEF ListingTypes
<1>5. count'[k] = Cardinality(L) /\ \A j \in Kind \ {k} : count'[j] = count[j]
  BY <1>1, <1>2 DEF ListingTypes
<1>6. ASSUME NEW j \in Kind, NEW d \in (due \cap List(j, place))' PROVE Ahead(d, j)'
  <2>1. d \in due \cap List(j, place) /\ Ahead(d, j) /\ List(j, place)' = List(j, place)
    BY <1>1, <1>6, ClientTypes DEF ListingInv, DueAhead
  <2>2. Before(d, List(j, place))' = Before(d, List(j, place))
    BY <1>1, <2>1, ClientTypes
  <2>3. CASE j # k
    BY <1>1, <1>5, <2>1, <2>2, <2>3 DEF Ahead
  <2>4. CASE j = k
    <3>1. Before(d, L) \in Nat /\ Before(d, L) < Cardinality(L) /\ page * Limit \in Nat
      BY <1>1, <1>2, <2>1, <2>4, BeforeFacts, ListingAssumption DEF ListingInv, ListingTypes
    <3>2. QED
      BY <1>1, <1>3, <1>5, <2>1, <2>2, <2>4, <3>1 DEF Ahead
  <2>5. QED
    BY <2>3, <2>4
<1>7. DueListed'
  BY <1>1 DEF ListingInv, DueListed, FoldersIn, FilesIn, treeVars, tree
<1>8. QED
  BY <1>1, <1>4, <1>5, <1>6, <1>7, ClientTypes DEF ListingInv, DueAhead

LEMMA ShowPageInv == ASSUME ListingInv, ShowPage PROVE ListingInv'
<1>1. /\ Answered /\ due' = due \ Shown /\ page' = page + 1 /\ place' = place
      /\ rows' = Unread /\ count' = Unread
      /\ UNCHANGED <<treeVars, newer, folderOf>>
  BY DEF ShowPage
<1>2. ListingTypes /\ place # None /\ page \in Nat \ {0}
  BY <1>1 DEF ListingInv, ListingTypes, Answered
<1>3. ListingTypes'
  BY <1>1, <1>2, ClientTypes DEF ListingTypes, Unread
<1>4. \A k \in Kind : Unread[k] = None /\ rows[k] # None
  BY <1>1 DEF Unread, Answered, ListingInv
<1>5. ASSUME NEW k \in Kind, NEW d \in (due \cap List(k, place))' PROVE Ahead(d, k)'
  <2>1. d \in due \cap List(k, place) /\ Ahead(d, k) /\ d \notin Shown
    BY <1>1, <1>5, ClientTypes DEF ListingInv, DueAhead
  <2>2. d \notin rows[k]
    BY <2>1 DEF Shown, Kind
  <2>3. page * Limit <= Before(d, List(k, place))
    BY <1>4, <2>1, <2>2 DEF Ahead
  <2>4. Before(d, List(k, place))' = Before(d, List(k, place))
    BY <1>1, ClientTypes
  <2>5. page' - 1 = page
    BY <1>1, <1>2
  <2>6. QED
    BY <1>1, <1>4, <2>3, <2>4, <2>5 DEF Ahead
<1>6. DueListed'
  BY <1>1 DEF ListingInv, DueListed, FoldersIn, FilesIn, treeVars, tree
<1>7. QED
  BY <1>1, <1>2, <1>3, <1>4, <1>5, <1>6, ClientTypes DEF ListingInv, DueAhead

LEMMA LastPageInv == ASSUME ListingInv, LastPage PROVE ListingInv'
<1>1. /\ due' = {} /\ page' = 0 /\ place' = None /\ rows' = Unread /\ count' = Unread
      /\ UNCHANGED <<treeVars, newer, folderOf>>
  BY DEF LastPage
<1>2. \A k \in Kind : Unread[k] = None
  BY DEF Unread
<1>3. ListingTypes'
  BY <1>1, ClientTypes DEF ListingInv, ListingTypes, Unread
<1>4. QED
  BY <1>1, <1>2, <1>3, ClientTypes DEF ListingInv, DueListed, DueAhead

LEMMA OtherCallsListing == ASSUME ListingInv, OtherCalls PROVE ListingInv'
<1>1. /\ UNCHANGED <<tree, newer, folderOf, client, due>>
      /\ TreeInv'
  BY NextTreeInv DEF OtherCalls, StartCreate, StartWalk, WalkUp, EndWalk, ListingInv, Next
<1>2. UNCHANGED <<parent, newer, folderOf, place, page, rows, count, due>>
  BY <1>1 DEF tree, client
<1>3. Stored' = Stored /\ Present' = Present
  BY <1>2 DEF Stored, Present
<1>4. ListingTypes'
  BY <1>2, <1>3 DEF ListingInv, ListingTypes, Ordered, LatestFirst
<1>5. DueListed' /\ DueAhead'
  BY <1>2 DEF ListingInv, DueListed, DueAhead, Ahead, Before, List, FoldersIn, FilesIn
<1>6. QED
  BY <1>1, <1>2, <1>3, <1>4, <1>5 DEF ListingInv

LEMMA InitListing == Init => ListingInv
<1> SUFFICES ASSUME Init PROVE ListingInv
  OBVIOUS
<1>1. TreeInv
  BY TreeInitInv DEF Init
<1>2. Present = {} /\ Stored = {}
  BY DEF Init, TreeInit, Present, Stored
<1>3. IsFiniteSet(Present)
  BY <1>2, FS_EmptySet
<1>4. ListingTypes
  BY <1>2 DEF Init, ListingTypes, Ordered, LatestFirst, Unread
<1>5. QED
  BY <1>1, <1>3, <1>4 DEF Init, ListingInv, DueListed, DueAhead, Unread

LEMMA NextListing == ListingInv /\ [Next]_vars => ListingInv'
<1> SUFFICES ASSUME ListingInv, [Next]_vars PROVE ListingInv'
  OBVIOUS
<1>1. CASE UNCHANGED vars
  <2>1. UNCHANGED <<treeVars, newer, folderOf, place, page, rows, count, due>>
    BY <1>1 DEF vars, client
  <2>2. DueListed' /\ DueAhead'
    BY <2>1 DEF ListingInv, DueListed, DueAhead, Ahead, Before, List, FoldersIn, FilesIn,
       treeVars, tree
  <2>3. ListingTypes'
    BY <2>1, ClientTypes DEF ListingInv, ListingTypes
  <2>4. QED
    BY <2>1, <2>2, <2>3, ClientTypes DEF ListingInv
<1>2. CASE Next
  BY <1>2, InsertListing, RenameListing, OtherCallsListing, AddFileListing, RenameFileListing,
     RemoveFileListing, StartListingInv, FetchRowsInv, FetchCountInv, ShowPageInv, LastPageInv
     DEF Next
<1>3. QED
  BY <1>1, <1>2

\* The last page is the last one: the pages up to it hold as many items as
\* both counts together.
LEMMA PagesHoldAll ==
    ASSUME NEW a \in Nat, NEW l \in Nat \ {0}, NEW p \in Nat, p >= (a + l - 1) \div l
    PROVE  a <= p * l
<1> DEFINE q == (a + l - 1) \div l
<1>1. q \in Int /\ l * q <= a + l - 1 /\ a + l - 1 < l * (q + 1)
  OBVIOUS
<1>2. a <= l * q
  BY <1>1
<1>3. l * q <= l * p
  BY <1>1
<1>4. QED
  BY <1>1, <1>2, <1>3

\* The types, the order of the rows and what makes the pages complete.
LEMMA ListingInvariant == Spec => []ListingInv
BY InitListing, NextListing, PTL DEF Spec

\* The rows' types; updatedAt orders the rows, and only rows that exist.
THEOREM ListingTypeCorrect == Spec => []TypeOK
<1>1. ListingInv => TypeOK
  BY DEF ListingInv, TreeInv, ListingTypes, Ordered, TypeOK
<1>2. QED
  BY <1>1, ListingInvariant, PTL

\* Whoever reads all pages is shown every row that was there all the time and
\* that no deletion moved, for any number of rows and any size of pages.
THEOREM PagesMissNothing == Spec => PagingMissesNothing
<1>1. ListingInv /\ LastPage => due \subseteq Shown
  <2> SUFFICES ASSUME ListingInv, LastPage, NEW d \in due, d \notin Shown PROVE FALSE
    OBVIOUS
  <2>1. /\ Answered /\ page >= TotalPages /\ place # None
    BY DEF LastPage, Answered
  <2>2. \A k \in Kind : count[k] \in Nat /\ count[k] # None /\ rows[k] # None
    BY <2>1 DEF Answered, ListingInv, ListingTypes
  <2>3. PICK k \in Kind : d \in List(k, place)
    BY <2>1 DEF ListingInv, DueListed, List, Kind
  <2>4. Ahead(d, k) /\ d \notin rows[k]
    BY <2>3 DEF ListingInv, DueAhead, Shown, Kind
  <2>5. page * Limit < count[k]
    BY <2>2, <2>4 DEF Ahead
  <2>6. count["folder"] + count["file"] <= page * Limit
    <3>1. count["folder"] + count["file"] \in Nat /\ page \in Nat
      BY <2>2 DEF Kind, ListingInv, ListingTypes
    <3>2. QED
      BY <2>1, <3>1, PagesHoldAll, ListingAssumption DEF TotalPages
  <2>7. page * Limit \in Nat
    BY ListingAssumption DEF ListingInv, ListingTypes
  <2>8. QED
    BY <2>2, <2>5, <2>6, <2>7 DEF Kind
<1>2. ListingInv => [LastPage => due \subseteq Shown]_vars
  BY <1>1
<1>3. QED
  BY <1>2, ListingInvariant, PTL DEF PagingMissesNothing
=============================================================================

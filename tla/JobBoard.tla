------------------------------ MODULE JobBoard ------------------------------
(***************************************************************************)
(* Job postings.  publishJob and unpublishJob find the posting, change the *)
(* entity and save() it: TypeORM's save() reads the row again, and updates *)
(* the columns in which the entity differs from it, or inserts the whole   *)
(* entity when there is no row any more.  Nothing is locked meanwhile.     *)
(***************************************************************************)
CONSTANTS
    Job,        \* ids of postings
    Date,       \* values of publishedAt
    None,       \* NULL, and the absent row
    Call        \* bound: calls of publishJob and unpublishJob at one time

ASSUME JobAssumption == None \notin Date \cup Call

Status == {"DRAFT", "PUBLISHED", "UNPUBLISHED"}
Row == [status : Status, publishedAt : Date \cup {None}]

ASSUME RowAssumption == None \notin Row

VARIABLES
    row,        \* the postings
    created,    \* ids that were handed out
    at,         \* where each call is: "idle", "load" or "store"
    job,        \* the posting it is about
    entity,     \* what it is going to save
    columns,    \* what save() writes: {"row"} is an INSERT
    deleted,    \* history: postings deleteJob removed
    stale,      \* history: calls whose posting was written after they read it
    reverted    \* history: postings that a stale unpublishJob wrote

jobCalls == <<at, job, entity, columns>>
jobVars == <<row, created, jobCalls, deleted, stale, reverted>>

JobTypeOK ==
    /\ row \in [Job -> Row \cup {None}]
    /\ created \subseteq Job
    /\ at \in [Call -> {"idle", "load", "store"}]
    /\ job \in [Call -> Job \cup {None}]
    /\ entity \in [Call -> Row \cup {None}]
    /\ columns \in [Call -> SUBSET {"row", "status", "publishedAt"}]
    /\ deleted \subseteq Job
    /\ stale \subseteq Call
    /\ reverted \subseteq Job

JobInit ==
    /\ row = [j \in Job |-> None]
    /\ created = {}
    /\ at = [c \in Call |-> "idle"]
    /\ job = [c \in Call |-> None]
    /\ entity = [c \in Call |-> None]
    /\ columns = [c \in Call |-> {}]
    /\ deleted = {} /\ stale = {} /\ reverted = {}

Exists(j) == row[j] # None
Busy == {c \in Call : at[c] # "idle"}

\* What the careers page lists, whoever asks.
Published == {j \in Job : Exists(j) /\ row[j].status = "PUBLISHED"}

\* Others that have read the posting now hold an old copy of it.
Write(j, r, c) ==
    /\ row' = [row EXCEPT ![j] = r]
    /\ stale' = IF r = row[j] THEN stale \ {c}
                ELSE (stale \cup {d \in Busy : job[d] = j}) \ {c}

\* The calls cs are over.
Answer(cs) ==
    /\ at' = [c \in Call |-> IF c \in cs THEN "idle" ELSE at[c]]
    /\ job' = [c \in Call |-> IF c \in cs THEN None ELSE job[c]]
    /\ entity' = [c \in Call |-> IF c \in cs THEN None ELSE entity[c]]
    /\ columns' = [c \in Call |-> IF c \in cs THEN {} ELSE columns[c]]

-----------------------------------------------------------------------------
(* createJob and deleteJob are one statement each.                          *)

Draft == [status |-> "DRAFT", publishedAt |-> None]

CreateJob(j) ==
    /\ j \notin created
    /\ row' = [row EXCEPT ![j] = Draft]
    /\ created' = created \cup {j}
    /\ UNCHANGED <<jobCalls, deleted, stale, reverted>>

\* A DELETE that matches no row is answered with an error.
DeleteJob(j) ==
    /\ Exists(j)
    /\ Write(j, None, None)
    /\ deleted' = deleted \cup {j}
    /\ UNCHANGED <<created, jobCalls, reverted>>

-----------------------------------------------------------------------------
(* publishJob and unpublishJob.                                             *)

\* A date nobody has seen yet: the clock moves on between two calls.
Fresh(d) ==
    /\ \A j \in Job : Exists(j) => row[j].publishedAt # d
    /\ \A c \in Busy : entity[c].publishedAt # d

\* findOne(), when it finds the posting, and the changes to the entity.
FindJob(c, j, changed) ==
    /\ at[c] = "idle"
    /\ at' = [at EXCEPT ![c] = "load"]
    /\ job' = [job EXCEPT ![c] = j]
    /\ entity' = [entity EXCEPT ![c] = changed]
    /\ UNCHANGED <<row, created, columns, deleted, stale, reverted>>

\* Mutants: a posting that was not found is saved all the same; publishedAt
\* is not set.
PublishUnchecked(c, j) ==
    \E d \in Date :
        /\ j \in created /\ Fresh(d)
        /\ FindJob(c, j, [status |-> "PUBLISHED", publishedAt |-> d])
PublishUndated(c, j) ==
    /\ Exists(j)
    /\ FindJob(c, j, [row[j] EXCEPT !.status = "PUBLISHED"])

PublishJob(c, j) ==
    \E d \in Date :
        /\ Exists(j) /\ Fresh(d)
        /\ FindJob(c, j, [status |-> "PUBLISHED", publishedAt |-> d])

UnpublishJob(c, j) ==
    /\ Exists(j)
    /\ FindJob(c, j, [row[j] EXCEPT !.status = "UNPUBLISHED"])

\* PUT /jobs/:id/publish and PUT /jobs/:id/unpublish.
PutJob(c, j) == PublishJob(c, j) \/ UnpublishJob(c, j)

\* save() reads the row and compares it with the entity.
LoadJob(c) ==
    /\ at[c] = "load"
    /\ at' = [at EXCEPT ![c] = "store"]
    /\ columns' = [columns EXCEPT ![c] =
           IF Exists(job[c])
           THEN {col \in {"status", "publishedAt"} : entity[c][col] # row[job[c]][col]}
           ELSE {"row"}]
    /\ UNCHANGED <<row, created, job, entity, deleted, stale, reverted>>

\* The row after the statement: an INSERT needs that the id is free, an UPDATE
\* of no row changes nothing.
Saved(c) ==
    LET j == job[c] IN
    CASE columns[c] = {"row"} -> IF Exists(j) THEN row[j] ELSE entity[c]
      [] columns[c] # {"row"} /\ Exists(j) ->
             [col \in {"status", "publishedAt"} |->
                 IF col \in columns[c] THEN entity[c][col] ELSE row[j][col]]
      [] OTHER -> None

StoreJob(c) ==
    /\ at[c] = "store"
    /\ Write(job[c], Saved(c), c)
    /\ reverted' = IF c \in stale /\ entity[c].status = "UNPUBLISHED"
                   THEN reverted \cup {job[c]} ELSE reverted
    /\ Answer({c})
    /\ UNCHANGED <<created, deleted>>

JobStep(c) == LoadJob(c) \/ StoreJob(c)

JobNext ==
    \/ \E j \in Job : CreateJob(j) \/ DeleteJob(j)
    \/ \E c \in Call, j \in Job : PutJob(c, j)
    \/ \E c \in Call : JobStep(c)

JobSpec == JobInit /\ [][JobNext]_jobVars

-----------------------------------------------------------------------------
(* Properties.                                                              *)

\* A posting on the careers page has the date it is sorted by, whatever
\* publications overlap; only an unpublishJob that worked on an old copy can
\* take it away (updateJobStatus, findPublishedJobs).
PublishedDated ==
    \A j \in Published \ reverted : row[j].publishedAt # None

\* deleteJob is permanent but for calls that had found the posting before:
\* only one of those inserts it again.
BroughtBack ==
    \A j \in deleted :
        ~Exists(j) /\ Exists(j)' =>
            \E c \in stale : job[c] = j /\ at[c] = "store" /\ at'[c] = "idle"
DeletedForGood == [][BroughtBack]_jobVars

=============================================================================

---------------------------- MODULE FileStorage ----------------------------
(***************************************************************************)
(* The file subsystem: confirming uploads and soft-deleting files, and the *)
(* usedStorage column of the organization that both maintain.              *)
(*                                                                         *)
(* Two stores take part.  Postgres keeps one row per file and one per      *)
(* organization; a handler's writes become visible when its transaction    *)
(* commits (READ COMMITTED, the default of database.module.ts).  S3 keeps  *)
(* a dirty bucket, where browsers upload, and a permanent bucket; its      *)
(* calls take effect at once and no rollback undoes them.                  *)
(*                                                                         *)
(* Each member of Request is one HTTP call (or one call the resume         *)
(* consumer makes).  Its row writes stay implicit until its commit: what   *)
(* it will write follows from its batch and from what it read, and the     *)
(* row locks it holds follow from its program counter and, while it marks  *)
(* its batch, from the rows it has marked.                                 *)
(***************************************************************************)
EXTENDS Integers, FiniteSets

CONSTANTS
    Request,        \* calls of confirmUpload and deleteFiles
    Key,            \* S3 object keys handed out by initUpload
    Org,            \* organizations
    Total,          \* Total[S]: the bytes of the set S of files
    MaxConcurrent,  \* bound: requests being served at the same time
    MaxFaults,      \* bound: failed S3 calls, failed statements, crashes
    ListedOnly      \* whether clients delete only files the listing shows

\* A file row is named by the confirmation that inserted it and by its
\* s3ObjectKey.  Nothing in the schema keeps a key from having several rows.
FileId == Request \X Key
Creator(f) == f[1]
ObjectKey(f) == f[2]

\* fileSize is a non-negative integer, and sizes add up.
ASSUME TotalAssumption ==
    /\ Total \in [SUBSET FileId -> Nat]
    /\ \A S, T \in SUBSET FileId :
          S \cap T = {} => Total[S \cup T] = Total[S] + Total[T]
ASSUME BoundsAssumption ==
    /\ Org # {}
    /\ MaxConcurrent \in Nat /\ MaxFaults \in Nat /\ ListedOnly \in BOOLEAN

VARIABLES
    dirty,      \* keys present in the dirty bucket
    permanent,  \* keys present in the permanent bucket
    tagged,     \* permanent objects tagged fileStatus = DELETED
    files,      \* committed status of every file row
    used,       \* committed usedStorage of every organization
    pc,         \* where each request is
    kind,       \* which handler serves it
    org,        \* the organization whose storage it accounts to
    batch,      \* the files it inserts, or the rows it found and deletes
    marked,     \* the rows of its batch its UPDATE has got to
    inFlight,   \* its S3 copy or tag calls that have not settled
    seen,       \* the usedStorage it read
    faults      \* faults so far

database == <<files, used>>
buckets == <<dirty, permanent, tagged>>
request == <<pc, kind, org, batch, marked, inFlight, seen>>
vars == <<database, buckets, request, faults>>

Status == {"absent", "ACTIVE", "DELETED"}
Steps == {"idle", "insert", "mark", "tag", "read", "write", "copy", "commit",
          "done", "failed"}

TypeOK ==
    /\ dirty \in SUBSET Key
    /\ permanent \in SUBSET Key
    /\ tagged \in SUBSET Key
    /\ files \in [FileId -> Status]
    /\ used \in [Org -> Nat]
    /\ pc \in [Request -> Steps]
    /\ kind \in [Request -> {"none", "confirm", "delete"}]
    /\ org \in [Request -> Org]
    /\ batch \in [Request -> SUBSET FileId]
    /\ marked \in [Request -> SUBSET FileId]
    /\ inFlight \in [Request -> SUBSET Key]
    /\ seen \in [Request -> Nat]
    /\ faults \in 0..MaxFaults

Rows(o) == {f \in FileId : files[f] # "absent" /\ org[Creator(f)] = o}
Listed == {f \in FileId : files[f] = "ACTIVE"}
KeysOf(r) == {ObjectKey(f) : f \in batch[r]}
Ended(r) == pc[r] \in {"done", "failed"}
Running == {r \in Request : pc[r] # "idle" /\ ~Ended(r)}

Init ==
    /\ dirty = {} /\ permanent = {} /\ tagged = {}
    /\ files = [f \in FileId |-> "absent"]
    /\ used = [o \in Org |-> 0]
    /\ pc = [r \in Request |-> "idle"]
    /\ kind = [r \in Request |-> "none"]
    /\ org = [r \in Request |-> CHOOSE o \in Org : TRUE]
    /\ batch = [r \in Request |-> {}]
    /\ marked = [r \in Request |-> {}]
    /\ inFlight = [r \in Request |-> {}]
    /\ seen = [r \in Request |-> 0]
    /\ faults = 0

-----------------------------------------------------------------------------
(* What a request writes, and the locks it holds while it is uncommitted.   *)

Bytes(r) == Total[batch[r]]

\* Mutant: softdeleteFiles forgets to give the bytes back.
WritesOrgOnConfirmOnly(r) == kind[r] = "confirm"

\* softdeleteFiles leaves the organization alone when there is nothing to
\* subtract; confirmUpload always updates it.
WritesOrg(r) == kind[r] = "confirm" \/ Bytes(r) > 0

\* Mutants: the clamp is missing; the sign of a deletion's bytes is missing.
NewUsedUnclamped(r) ==
    IF kind[r] = "confirm" THEN seen[r] + Bytes(r) ELSE seen[r] - Bytes(r)
NewUsedUnsigned(r) == seen[r] + Bytes(r)

\* Math.max(0, current + bytes), computed from the value this request read.
NewUsed(r) ==
    IF kind[r] = "confirm" THEN seen[r] + Bytes(r)
    ELSE IF seen[r] >= Bytes(r) THEN seen[r] - Bytes(r) ELSE 0

\* A row that was updated stays locked until its transaction ends.
FilesHeld(q) ==
    IF pc[q] = "mark" THEN marked[q]
    ELSE IF kind[q] = "delete" /\ pc[q] \in {"tag", "read", "write", "commit"}
         THEN batch[q] ELSE {}
FileLocked(f) == \E q \in Request : f \in FilesHeld(q)
HoldsOrg(q) == WritesOrg(q) /\ pc[q] \in {"copy", "commit"}
OrgLocked(o) == \E q \in Request : org[q] = o /\ HoldsOrg(q)

\* r may have to wait for a row q has locked: which of its rows an UPDATE takes
\* next is the planner's choice.
WaitsFor(r, q) ==
    \/ pc[r] = "mark" /\ (batch[r] \ marked[r]) \cap FilesHeld(q) # {}
    \/ pc[r] = "write" /\ HoldsOrg(q) /\ org[q] = org[r]

Goto(r, from, to) ==
    /\ pc[r] = from
    /\ pc' = [pc EXCEPT ![r] = to]

-----------------------------------------------------------------------------
(* Clients.                                                                 *)

\* A browser asks for a presigned URL and puts its file in the dirty bucket.
Upload(k) ==
    /\ k \notin dirty
    /\ dirty' = dirty \cup {k}
    /\ UNCHANGED <<permanent, tagged, database, request, faults>>

\* The files of a confirmation: the keys are the client's, need not be uploaded
\* and may be none at all.
FileData == SUBSET Key

\* uploadConfirmation.
StartConfirm(r) ==
    /\ Cardinality(Running) < MaxConcurrent
    /\ Goto(r, "idle", "insert")
    /\ \E keys \in FileData : batch' = [batch EXCEPT ![r] = {r} \X keys]
    /\ \E o \in Org : org' = [org EXCEPT ![r] = o]
    /\ kind' = [kind EXCEPT ![r] = "confirm"]
    /\ UNCHANGED <<database, buckets, marked, inFlight, seen, faults>>

\* deleteFiles reads the rows before the transaction starts and without
\* looking at their status.  The bytes of all of them are later subtracted
\* from the organization of the first row the query happens to return.
StartDelete(r) ==
    /\ Cardinality(Running) < MaxConcurrent
    /\ Goto(r, "idle", "mark")
    /\ \E found \in SUBSET {f \in FileId : files[f] # "absent"} :
          /\ found # {}
          /\ ListedOnly => found \subseteq Listed
          /\ batch' = [batch EXCEPT ![r] = found]
          /\ \E first \in found : org' = [org EXCEPT ![r] = org[Creator(first)]]
    /\ kind' = [kind EXCEPT ![r] = "delete"]
    /\ UNCHANGED <<database, buckets, marked, inFlight, seen, faults>>

-----------------------------------------------------------------------------
(* confirmUpload.                                                           *)

\* The HEAD of every object of the batch finds it in the dirty bucket.
Uploaded(r) == KeysOf(r) \subseteq dirty

\* The rows are inserted, still uncommitted.
InsertRecords(r) ==
    /\ Uploaded(r)
    /\ Goto(r, "insert", "read")
    /\ UNCHANGED <<database, buckets, kind, org, batch, marked, inFlight, seen, faults>>

\* A missing object has no ContentLength to read: the call throws.
RejectConfirm(r) ==
    /\ ~Uploaded(r)
    /\ Goto(r, "insert", "failed")
    /\ UNCHANGED <<database, buckets, kind, org, batch, marked, inFlight, seen, faults>>

\* One of the parallel copies reaches S3.  It replaces the object and its
\* tags.  It also lands when its request has already given up.
CopyObject(r, k) ==
    /\ kind[r] = "confirm"
    /\ k \in inFlight[r]
    /\ inFlight' = [inFlight EXCEPT ![r] = @ \ {k}]
    /\ permanent' = permanent \cup {k}
    /\ tagged' = tagged \ {k}
    /\ UNCHANGED <<dirty, database, pc, kind, org, batch, marked, seen, faults>>

\* Promise.all rejects on the first failed copy and the transaction rolls
\* back, while the other copies keep going.
CopyFails(r, k) ==
    /\ faults < MaxFaults
    /\ k \in inFlight[r]
    /\ Goto(r, "copy", "failed")
    /\ inFlight' = [inFlight EXCEPT ![r] = @ \ {k}]
    /\ faults' = faults + 1
    /\ UNCHANGED <<database, buckets, kind, org, batch, marked, seen>>

\* Mutants: the copies are not awaited; rows are upserted by their key.
CommitConfirmEarly(r) ==
    /\ Goto(r, "copy", "done")
    /\ files' = [f \in FileId |-> IF f \in batch[r] THEN "ACTIVE" ELSE files[f]]
    /\ used' = [used EXCEPT ![org[r]] = NewUsed(r)]
    /\ UNCHANGED <<buckets, kind, org, batch, marked, inFlight, seen, faults>>
CommitConfirmByKey(r) ==
    /\ inFlight[r] = {}
    /\ Goto(r, "copy", "done")
    /\ files' = [f \in FileId |->
                    IF \/ f \in batch[r]
                       \/ files[f] # "absent" /\ ObjectKey(f) \in KeysOf(r)
                    THEN "ACTIVE" ELSE files[f]]
    /\ used' = [used EXCEPT ![org[r]] = NewUsed(r)]
    /\ UNCHANGED <<buckets, kind, org, batch, marked, inFlight, seen, faults>>

\* All copies are in place: the rows and the new usedStorage become visible.
CommitConfirm(r) ==
    /\ inFlight[r] = {}
    /\ Goto(r, "copy", "done")
    /\ files' = [f \in FileId |-> IF f \in batch[r] THEN "ACTIVE" ELSE files[f]]
    /\ used' = [used EXCEPT ![org[r]] = NewUsed(r)]
    /\ UNCHANGED <<buckets, kind, org, batch, marked, inFlight, seen, faults>>

-----------------------------------------------------------------------------
(* softdeleteFiles.                                                         *)

\* UPDATE the status of the rows.  It locks one after the other, and waits
\* where another transaction has one.
MarkFile(r, f) ==
    /\ pc[r] = "mark"
    /\ f \in batch[r] \ marked[r]
    /\ ~FileLocked(f)
    /\ marked' = [marked EXCEPT ![r] = @ \cup {f}]
    /\ UNCHANGED <<database, buckets, pc, kind, org, batch, inFlight, seen, faults>>

\* The whole batch is marked: the tagging calls are sent.
MarkDeleted(r) ==
    /\ marked[r] = batch[r]
    /\ Goto(r, "mark", "tag")
    /\ marked' = [marked EXCEPT ![r] = {}]
    /\ inFlight' = [inFlight EXCEPT ![r] = KeysOf(r)]
    /\ UNCHANGED <<database, buckets, kind, org, batch, seen, faults>>

\* Transactions wait for each other's rows in a circle: Postgres aborts one.
Deadlock(circle) ==
    /\ \A d \in circle : \E e \in circle \ {d} : WaitsFor(d, e)
    /\ \A e \in circle : \E d \in circle \ {e} : WaitsFor(d, e)
AbortDeadlocked(r) ==
    /\ \E circle \in SUBSET Running : r \in circle /\ Deadlock(circle)
    /\ pc' = [pc EXCEPT ![r] = "failed"]
    /\ marked' = [marked EXCEPT ![r] = {}]
    /\ UNCHANGED <<database, buckets, kind, org, batch, inFlight, seen, faults>>

\* A tagging call reaches S3; only an object that exists can be tagged.
TagObject(r, k) ==
    /\ kind[r] = "delete"
    /\ k \in inFlight[r]
    /\ inFlight' = [inFlight EXCEPT ![r] = @ \ {k}]
    /\ tagged' = tagged \cup ({k} \cap permanent)
    /\ UNCHANGED <<dirty, permanent, database, pc, kind, org, batch, marked, seen, faults>>

\* A tagging call fails: the error is caught and nothing else happens.
TagFails(r, k) ==
    /\ faults < MaxFaults
    /\ kind[r] = "delete"
    /\ k \in inFlight[r]
    /\ inFlight' = [inFlight EXCEPT ![r] = @ \ {k}]
    /\ faults' = faults + 1
    /\ UNCHANGED <<database, buckets, pc, kind, org, batch, marked, seen>>

\* Mutant: the tagging calls are not awaited.
TagsNotAwaited(r) ==
    /\ Goto(r, "tag", IF WritesOrg(r) THEN "read" ELSE "commit")
    /\ UNCHANGED <<database, buckets, kind, org, batch, marked, inFlight, seen, faults>>

\* Mutant: a tagging call that failed is waited for.
TagsAllSucceeded(r) ==
    /\ KeysOf(r) \subseteq tagged
    /\ Goto(r, "tag", IF WritesOrg(r) THEN "read" ELSE "commit")
    /\ UNCHANGED <<database, buckets, kind, org, batch, marked, inFlight, seen, faults>>

\* Every tagging call has settled, one way or the other.
TagsSettled(r) ==
    /\ inFlight[r] = {}
    /\ Goto(r, "tag", IF WritesOrg(r) THEN "read" ELSE "commit")
    /\ UNCHANGED <<database, buckets, kind, org, batch, marked, inFlight, seen, faults>>

CommitDelete(r) ==
    /\ kind[r] = "delete"
    /\ Goto(r, "commit", "done")
    /\ files' = [f \in FileId |-> IF f \in batch[r] THEN "DELETED" ELSE files[f]]
    /\ used' = IF WritesOrg(r) THEN [used EXCEPT ![org[r]] = NewUsed(r)] ELSE used
    /\ UNCHANGED <<buckets, kind, org, batch, marked, inFlight, seen, faults>>

-----------------------------------------------------------------------------
(* updateUsedStorage, inside the caller's transaction.                      *)

\* The SELECT takes no lock and sees what is committed now.
ReadUsedStorage(r) ==
    /\ Goto(r, "read", "write")
    /\ seen' = [seen EXCEPT ![r] = used[org[r]]]
    /\ UNCHANGED <<database, buckets, kind, org, batch, marked, inFlight, faults>>

\* The UPDATE waits for the row lock, then writes the absolute value computed
\* before.  confirmUpload goes on to send its copies.
WriteUsedStorage(r) ==
    /\ ~OrgLocked(org[r])
    /\ IF kind[r] = "confirm"
       THEN /\ Goto(r, "write", "copy")
            /\ inFlight' = [inFlight EXCEPT ![r] = KeysOf(r)]
       ELSE /\ Goto(r, "write", "commit")
            /\ UNCHANGED inFlight
    /\ UNCHANGED <<database, buckets, kind, org, batch, marked, seen, faults>>

-----------------------------------------------------------------------------
(* Faults and the environment.                                              *)

\* A statement fails, the connection is lost or the process dies: Postgres
\* rolls the transaction back.  S3 calls already sent may still arrive.
Abort(r) ==
    /\ faults < MaxFaults
    /\ r \in Running
    /\ pc' = [pc EXCEPT ![r] = "failed"]
    /\ marked' = [marked EXCEPT ![r] = {}]
    /\ faults' = faults + 1
    /\ UNCHANGED <<database, buckets, kind, org, batch, inFlight, seen>>

\* The bucket's lifecycle rule removes tagged objects some time later.
ExpireObject(k) ==
    /\ k \in tagged
    /\ permanent' = permanent \ {k}
    /\ tagged' = tagged \ {k}
    /\ UNCHANGED <<dirty, database, request, faults>>

\* Every call has been served and every S3 call has settled.
Finished ==
    /\ \A r \in Request : Ended(r) /\ inFlight[r] = {}
    /\ UNCHANGED vars

Server(r) ==
    \/ InsertRecords(r) \/ RejectConfirm(r) \/ CommitConfirm(r)
    \/ MarkDeleted(r) \/ TagsSettled(r) \/ CommitDelete(r) \/ AbortDeadlocked(r)
    \/ \E f \in FileId : MarkFile(r, f)
    \/ ReadUsedStorage(r) \/ WriteUsedStorage(r)
    \/ \E k \in Key : CopyObject(r, k) \/ CopyFails(r, k)
                      \/ TagObject(r, k) \/ TagFails(r, k)

Next ==
    \/ \E k \in Key : Upload(k) \/ ExpireObject(k)
    \/ \E r \in Request : StartConfirm(r) \/ StartDelete(r) \/ Server(r) \/ Abort(r)
    \/ Finished

Spec == Init /\ [][Next]_vars

\* Node runs every ready continuation, Postgres grants a free lock to a
\* waiting statement and breaks circles, and every S3 call settles.  Clients
\* owe nothing.
Fairness == \A r \in Request : WF_vars(Server(r))

FairSpec == Spec /\ Fairness

-----------------------------------------------------------------------------
(* Properties.                                                              *)

\* usedStorage is never negative and never exceeds the bytes of all files the
\* organization ever confirmed, however confirmations and deletions interleave:
\* updates may be lost, but none is applied twice (updateUsedStorage,
\* confirmUpload).
UsedWithinConfirmed ==
    \A o \in Org : 0 <= used[o] /\ used[o] <= Total[Rows(o)]

\* What makes it inductive: what a request has read is within the bytes
\* confirmed so far, only committed confirmations have rows, and a request
\* that may still commit a confirmation has none.
SeenWithinConfirmed ==
    \A r \in Request :
        seen[r] <= Total[Rows(org[r])] /\ (pc[r] = "idle" => seen[r] = 0)
RowsAreCommitted ==
    \A f \in FileId :
        files[f] # "absent" => kind[Creator(f)] = "confirm" /\ pc[Creator(f)] = "done"
BatchesFitKind ==
    \A r \in Request :
        /\ pc[r] \in {"insert", "copy"} => kind[r] = "confirm"
        /\ kind[r] = "confirm" => batch[r] \subseteq {r} \X Key
        /\ kind[r] = "delete" => \A f \in batch[r] : files[f] # "absent"
AccountingInv ==
    UsedWithinConfirmed /\ SeenWithinConfirmed /\ RowsAreCommitted /\ BatchesFitKind

\* A client that names the key of an object it wants gone.
DeleteRequested(k) ==
    \E r \in Request : kind[r] = "delete" /\ k \in KeysOf(r)

\* A file the listing shows can be downloaded: its object is in the permanent
\* bucket, unless a deletion of some row with the same key was requested.
\* Copies precede the commit, and rollbacks never take an object away.
ActiveFilesStored ==
    \A f \in Listed : ObjectKey(f) \in permanent \/ DeleteRequested(ObjectKey(f))

\* What makes it inductive: S3 tags only what a deletion named, and a
\* confirmation about to commit has its settled copies in place.
TagsAreRequested == \A k \in tagged : DeleteRequested(k)
CopiesPrecedeCommit ==
    \A r \in Request : pc[r] = "copy" =>
        \A k \in KeysOf(r) \ inFlight[r] : k \in permanent \/ DeleteRequested(k)
CallsFitKind ==
    \A r \in Request :
        /\ pc[r] = "idle" => kind[r] = "none" /\ inFlight[r] = {}
        /\ pc[r] = "copy" => kind[r] = "confirm"
        /\ kind[r] = "delete" => inFlight[r] \subseteq KeysOf(r)
StoredInv ==
    ActiveFilesStored /\ TagsAreRequested /\ CopiesPrecedeCommit /\ CallsFitKind

\* When no S3 call failed and nothing crashed, the object of a deleted file
\* is gone or waits for the lifecycle rule, unless its key was confirmed
\* twice (tagMultipleObjectsWithRollback, copyObject).
DeletedFilesReclaimed ==
    \A f \in FileId :
        files[f] = "DELETED" /\ faults = 0 =>
            \/ ObjectKey(f) \notin permanent \ tagged
            \/ \E r \in Request \ {Creator(f)} :
                  kind[r] = "confirm" /\ ObjectKey(f) \in KeysOf(r)

RowsOnlyAdvance ==
    \A f \in FileId : /\ files[f] = "DELETED" => files'[f] = "DELETED"
                      /\ files[f] # "absent" => files'[f] # "absent"

\* A deletion is final: no step of any request, a confirmation of the same
\* key included, shows the row again, and rows are never lost.
DeletionIsFinal == [][RowsOnlyAdvance]_vars

\* One organization's ledger, read off the committed rows.
Ledger == INSTANCE StorageLedger WITH
    File <- FileId,
    active <- Listed,
    deleted <- {f \in FileId : files[f] = "DELETED"},
    usage <- used[CHOOSE o \in Org : TRUE]

\* Served one call at a time, for clients that delete only what the listing
\* shows, the handlers implement the ledger: batches are atomic, failures
\* change nothing and the usage figure is exact.
ImplementsLedger == Ledger!Spec

\* With no request running, usedStorage is the bytes of the organization's
\* active files, as the comment of the column says.
UsedStorageIsTotal ==
    Running = {} =>
        \A o \in Org : used[o] = Total[Rows(o) \cap Listed]

\* Every call is answered, whatever fails: no wait for a row lock and no
\* abandoned transaction blocks another one forever, so that the finitely
\* many calls leave the server quiet again and again.
EveryCallEnds == []<>(Running = {})

=============================================================================

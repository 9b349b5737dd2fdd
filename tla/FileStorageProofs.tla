------------------------- MODULE FileStorageProofs -------------------------
(***************************************************************************)
(* Proofs about FileStorage for every number of requests, keys and         *)
(* organizations and every bound.                                          *)
(***************************************************************************)
EXTENDS FileStorage, FiniteSetTheorems, TLAPS

\* The initial state has the right types.
LEMMA InitTypeOK == Init => TypeOK
BY BoundsAssumption DEF Init, TypeOK, Status, Steps

\* What a request writes to usedStorage is a number of bytes.
LEMMA NewUsedType ==
    ASSUME TypeOK, NEW r \in Request
    PROVE  Bytes(r) \in Nat /\ NewUsed(r) \in Nat
<1>1. Bytes(r) \in Nat
  BY TotalAssumption DEF TypeOK, Bytes
<1>2. QED
  BY <1>1 DEF TypeOK, NewUsed

\* Every step keeps the types: one case per action.
LEMMA NextTypeOK == TypeOK /\ [Next]_vars => TypeOK'
<1> SUFFICES ASSUME TypeOK, [Next]_vars PROVE TypeOK'
  OBVIOUS
<1> USE DEF TypeOK, Goto, database, buckets, request
<1>1. ASSUME NEW k \in Key, Upload(k) PROVE TypeOK'
  BY <1>1 DEF Upload
<1>2. ASSUME NEW k \in Key, ExpireObject(k) PROVE TypeOK'
  BY <1>2 DEF ExpireObject
<1>3. ASSUME NEW r \in Request, StartConfirm(r) PROVE TypeOK'
  <2>1. PICK keys \in FileData : batch' = [batch EXCEPT ![r] = {r} \X keys]
    BY <1>3 DEF StartConfirm
  <2>2. {r} \X keys \in SUBSET FileId
    BY DEF FileId, FileData
  <2>3. batch' \in [Request -> SUBSET FileId]
    BY <2>1, <2>2
  <2>4. QED
    BY <1>3, <2>3 DEF StartConfirm, Steps
<1>4. ASSUME NEW r \in Request, StartDelete(r) PROVE TypeOK'
  <2>1. PICK found \in SUBSET {f \in FileId : files[f] # "absent"} :
            /\ batch' = [batch EXCEPT ![r] = found]
            /\ \E first \in found : org' = [org EXCEPT ![r] = org[Creator(first)]]
    BY <1>4 DEF StartDelete
  <2>2. \A f \in FileId : Creator(f) \in Request
    BY DEF FileId, Creator
  <2>3. org' \in [Request -> Org] /\ batch' \in [Request -> SUBSET FileId]
    BY <2>1, <2>2
  <2>4. QED
    BY <1>4, <2>3 DEF StartDelete, Steps
<1>5. ASSUME NEW r \in Request, InsertRecords(r) PROVE TypeOK'
  BY <1>5 DEF InsertRecords, Steps
<1>6. ASSUME NEW r \in Request, RejectConfirm(r) PROVE TypeOK'
  BY <1>6 DEF RejectConfirm, Steps
<1>7. ASSUME NEW r \in Request, NEW k \in Key, CopyObject(r, k) PROVE TypeOK'
  BY <1>7 DEF CopyObject
<1>8. ASSUME NEW r \in Request, NEW k \in Key, CopyFails(r, k) PROVE TypeOK'
  BY <1>8, BoundsAssumption DEF CopyFails, Steps
<1>9. ASSUME NEW r \in Request, CommitConfirm(r) PROVE TypeOK'
  BY <1>9, NewUsedType DEF CommitConfirm, Steps, Status
<1>10. ASSUME NEW r \in Request, MarkDeleted(r) PROVE TypeOK'
  <2>1. KeysOf(r) \in SUBSET Key
    BY DEF KeysOf, ObjectKey, FileId
  <2>2. QED
    BY <1>10, <2>1 DEF MarkDeleted, Steps
<1>11. ASSUME NEW r \in Request, NEW k \in Key, TagObject(r, k) PROVE TypeOK'
  BY <1>11 DEF TagObject
<1>12. ASSUME NEW r \in Request, NEW k \in Key, TagFails(r, k) PROVE TypeOK'
  BY <1>12, BoundsAssumption DEF TagFails
<1>13. ASSUME NEW r \in Request, TagsSettled(r) PROVE TypeOK'
  BY <1>13 DEF TagsSettled, Steps
<1>14. ASSUME NEW r \in Request, CommitDelete(r) PROVE TypeOK'
  BY <1>14, NewUsedType DEF CommitDelete, Steps, Status
<1>15. ASSUME NEW r \in Request, ReadUsedStorage(r) PROVE TypeOK'
  BY <1>15 DEF ReadUsedStorage, Steps
<1>16. ASSUME NEW r \in Request, WriteUsedStorage(r) PROVE TypeOK'
  <2>1. KeysOf(r) \in SUBSET Key
    BY DEF KeysOf, ObjectKey, FileId
  <2>2. QED
    BY <1>16, <2>1 DEF WriteUsedStorage, Steps
<1>17. ASSUME NEW r \in Request, Abort(r) PROVE TypeOK'
  BY <1>17, BoundsAssumption DEF Abort, Steps
<1>18. CASE Finished \/ UNCHANGED vars
  BY <1>18 DEF Finished, vars
<1>19. ASSUME NEW r \in Request, NEW f \in FileId, MarkFile(r, f) PROVE TypeOK'
  BY <1>19 DEF MarkFile
<1>20. ASSUME NEW r \in Request, AbortDeadlocked(r) PROVE TypeOK'
  BY <1>20 DEF AbortDeadlocked, Steps
<1>21. QED
  BY <1>1, <1>2, <1>3, <1>4, <1>5, <1>6, <1>7, <1>8, <1>9, <1>10, <1>11, <1>12,
     <1>13, <1>14, <1>15, <1>16, <1>17, <1>18, <1>19, <1>20 DEF Next, Server

\* Type correctness of the whole specification.
THEOREM TypeCorrect == Spec => []TypeOK
BY InitTypeOK, NextTypeOK, PTL DEF Spec

-----------------------------------------------------------------------------
(* usedStorage stays within the bytes confirmed.                            *)

\* More files weigh at least as much.
LEMMA TotalMonotone ==
    ASSUME NEW S \in SUBSET FileId, NEW T \in SUBSET FileId, S \subseteq T
    PROVE  Total[S] \in Nat /\ Total[T] \in Nat /\ Total[S] <= Total[T]
<1>1. S \cap (T \ S) = {} /\ S \cup (T \ S) = T
  OBVIOUS
<1>2. Total[T] = Total[S] + Total[T \ S]
  BY <1>1, TotalAssumption
<1>3. QED
  BY <1>2, TotalAssumption

\* Nothing is used, read or inserted at the start.
LEMMA InitAccounting == Init => AccountingInv
<1> SUFFICES ASSUME Init PROVE AccountingInv
  OBVIOUS
<1>1. \A o \in Org : Total[Rows(o)] \in Nat
  BY TotalMonotone DEF Rows
<1>2. UsedWithinConfirmed
  BY <1>1 DEF Init, UsedWithinConfirmed
<1>3. \A r \in Request : org[r] \in Org
  BY InitTypeOK DEF TypeOK
<1>4. QED
  BY <1>1, <1>2, <1>3 DEF Init, AccountingInv, SeenWithinConfirmed, RowsAreCommitted,
                          BatchesFitKind

\* Steps that touch neither the rows nor a request's account.
LEMMA StorageStep ==
    ASSUME AccountingInv, UNCHANGED <<files, used, kind, org, batch, pc, seen>>
    PROVE  AccountingInv'
BY DEF AccountingInv, UsedWithinConfirmed, SeenWithinConfirmed, RowsAreCommitted,
       BatchesFitKind, Rows

\* Steps of a running request that neither commit nor change its batch: they
\* move it along, and may let it read the committed usedStorage.
LEMMA QuietStep ==
    ASSUME TypeOK, AccountingInv, NEW r \in Request, NEW to \in Steps \ {"idle"},
           UNCHANGED <<files, used, kind, org, batch>>,
           pc[r] \notin {"idle", "done"}, pc' = [pc EXCEPT ![r] = to],
           to \in {"insert", "copy"} => kind[r] = "confirm",
           seen' = seen \/ seen' = [seen EXCEPT ![r] = used[org[r]]]
    PROVE  AccountingInv'
<1>1. UsedWithinConfirmed' /\ RowsAreCommitted'
  <2>1. \A q \in Request : pc[q] = "done" => pc'[q] = "done"
    BY DEF TypeOK
  <2>2. \A f \in FileId : Creator(f) \in Request
    BY DEF FileId, Creator
  <2>3. RowsAreCommitted'
    BY <2>1, <2>2 DEF AccountingInv, RowsAreCommitted
  <2>4. UsedWithinConfirmed'
    BY DEF AccountingInv, UsedWithinConfirmed, Rows
  <2>5. QED
    BY <2>3, <2>4
<1>2. SeenWithinConfirmed'
  <2>1. \A q \in Request : seen'[q] <= Total[Rows(org[q])]
    BY DEF AccountingInv, UsedWithinConfirmed, SeenWithinConfirmed, TypeOK
  <2>2. \A q \in Request : pc'[q] = "idle" => pc[q] = "idle" /\ q # r
    BY DEF TypeOK
  <2>3. \A q \in Request : pc'[q] = "idle" => seen'[q] = 0
    BY <2>2 DEF AccountingInv, SeenWithinConfirmed, TypeOK
  <2>4. QED
    BY <2>1, <2>3 DEF SeenWithinConfirmed, Rows
<1>3. BatchesFitKind'
  BY DEF AccountingInv, BatchesFitKind, TypeOK
<1>4. QED
  BY <1>1, <1>2, <1>3 DEF AccountingInv

\* A request that starts had no rows and had read nothing, so giving it an
\* organization and a batch moves no bytes.
LEMMA StartStep ==
    ASSUME TypeOK, AccountingInv, NEW r \in Request, pc[r] = "idle",
           NEW to \in {"insert", "mark"}, pc' = [pc EXCEPT ![r] = to],
           NEW o \in Org, org' = [org EXCEPT ![r] = o],
           NEW h \in {"confirm", "delete"}, kind' = [kind EXCEPT ![r] = h],
           NEW B \in SUBSET FileId, batch' = [batch EXCEPT ![r] = B],
           to = "insert" => h = "confirm",
           h = "confirm" => B \subseteq {r} \X Key,
           h = "delete" => \A f \in B : files[f] # "absent",
           UNCHANGED <<files, used, seen>>
    PROVE  AccountingInv'
<1>1. \A f \in FileId : Creator(f) \in Request
  BY DEF FileId, Creator
<1>2. \A f \in FileId : files[f] # "absent" => Creator(f) # r
  BY <1>1 DEF AccountingInv, RowsAreCommitted
<1>3. \A p \in Org : Rows(p)' = Rows(p)
  BY <1>1, <1>2 DEF Rows, TypeOK
<1>4. UsedWithinConfirmed'
  BY <1>3 DEF AccountingInv, UsedWithinConfirmed
<1>5. RowsAreCommitted'
  BY <1>1, <1>2 DEF AccountingInv, RowsAreCommitted, TypeOK
<1>6. SeenWithinConfirmed'
  <2>1. \A q \in Request : seen[q] <= Total[Rows(org'[q])]
    <3>1. seen[r] = 0 /\ Total[Rows(o)] \in Nat
      BY TotalMonotone DEF AccountingInv, SeenWithinConfirmed, Rows
    <3>2. QED
      BY <3>1 DEF AccountingInv, SeenWithinConfirmed, TypeOK
  <2>2. \A q \in Request : org'[q] \in Org
    BY DEF TypeOK
  <2>3. \A q \in Request : pc'[q] = "idle" => pc[q] = "idle"
    BY DEF TypeOK
  <2>4. \A q \in Request : Rows(org'[q]) = {f \in FileId : files'[f] # "absent" /\ org'[Creator(f)] = org'[q]}
    BY <2>2, <1>3 DEF Rows
  <2>5. QED
    BY <2>1, <2>3, <2>4 DEF AccountingInv, SeenWithinConfirmed, Rows
<1>7. BatchesFitKind'
  BY DEF AccountingInv, BatchesFitKind, TypeOK
<1>8. QED
  BY <1>4, <1>5, <1>6, <1>7 DEF AccountingInv

\* A confirmation that commits adds rows that weigh what it adds to the
\* usedStorage it read, which was within the bytes confirmed.
LEMMA CommitConfirmStep ==
    ASSUME TypeOK, AccountingInv, NEW r \in Request, CommitConfirm(r)
    PROVE  AccountingInv'
<1> USE DEF CommitConfirm, Goto, buckets
<1>1. kind[r] = "confirm" /\ batch[r] \subseteq {r} \X Key
  BY DEF AccountingInv, BatchesFitKind
<1>2. \A f \in FileId : Creator(f) \in Request /\ (f \in batch[r] => Creator(f) = r)
  BY <1>1 DEF FileId, Creator
<1>3. \A f \in batch[r] : files[f] = "absent"
  BY <1>1, <1>2 DEF AccountingInv, RowsAreCommitted, TypeOK
<1>4. \A f \in FileId : files'[f] # "absent" <=> files[f] # "absent" \/ f \in batch[r]
  BY DEF TypeOK
<1>5. \A o \in Org : Rows(o) \subseteq Rows(o)' /\ Rows(o)' \in SUBSET FileId
  BY <1>4 DEF Rows
<1>6. \A o \in Org : Total[Rows(o)] \in Nat /\ Total[Rows(o)'] \in Nat
                    /\ Total[Rows(o)] <= Total[Rows(o)']
  BY <1>5, TotalMonotone DEF Rows
<1>7. UsedWithinConfirmed'
  <2> SUFFICES ASSUME NEW o \in Org PROVE 0 <= used'[o] /\ used'[o] <= Total[Rows(o)']
    BY DEF UsedWithinConfirmed
  <2>1. CASE o # org[r]
    BY <2>1, <1>6 DEF AccountingInv, UsedWithinConfirmed, TypeOK
  <2>2. CASE o = org[r]
    <3>1. Rows(o)' = Rows(o) \cup batch[r]
      BY <2>2, <1>2, <1>4 DEF Rows, TypeOK
    <3>2. Rows(o) \cap batch[r] = {}
      BY <1>3 DEF Rows
    <3>3. Total[Rows(o)'] = Total[Rows(o)] + Bytes(r)
      BY <3>1, <3>2, TotalAssumption DEF Bytes, TypeOK, Rows
    <3>4. used'[o] = seen[r] + Bytes(r)
      BY <2>2, <1>1 DEF NewUsed, TypeOK
    <3>5. seen[r] <= Total[Rows(o)]
      BY <2>2 DEF AccountingInv, SeenWithinConfirmed
    <3>6. QED
      BY <3>3, <3>4, <3>5, <1>6, NewUsedType DEF TypeOK
  <2>3. QED
    BY <2>1, <2>2
<1>8. SeenWithinConfirmed'
  <2>1. \A q \in Request : seen[q] <= Total[Rows(org[q])']
    BY <1>6 DEF AccountingInv, SeenWithinConfirmed, TypeOK
  <2>2. QED
    BY <2>1 DEF AccountingInv, SeenWithinConfirmed, TypeOK, Rows
<1>9. RowsAreCommitted'
  BY <1>1, <1>2, <1>4 DEF AccountingInv, RowsAreCommitted, TypeOK
<1>10. BatchesFitKind'
  BY <1>4 DEF AccountingInv, BatchesFitKind, TypeOK
<1>11. QED
  BY <1>7, <1>8, <1>9, <1>10 DEF AccountingInv

\* A deletion that commits keeps the set of rows and writes at most what it
\* read.
LEMMA CommitDeleteStep ==
    ASSUME TypeOK, AccountingInv, NEW r \in Request, CommitDelete(r)
    PROVE  AccountingInv'
<1> USE DEF CommitDelete, Goto, buckets
<1>1. \A f \in FileId : files'[f] # "absent" <=> files[f] # "absent"
  BY DEF AccountingInv, BatchesFitKind, TypeOK
<1>2. \A o \in Org : Rows(o)' = Rows(o) /\ Total[Rows(o)] \in Nat
  BY <1>1, TotalMonotone DEF Rows
<1>3. \A o \in Org : used'[o] = used[o] \/ (o = org[r] /\ used'[o] = NewUsed(r))
  BY DEF TypeOK
<1>4. NewUsed(r) <= seen[r]
  BY NewUsedType DEF NewUsed, TypeOK
<1>5. UsedWithinConfirmed'
  <2>1. \A o \in Org : 0 <= used'[o] /\ used'[o] <= Total[Rows(o)]
    BY <1>2, <1>3, <1>4, NewUsedType
       DEF AccountingInv, UsedWithinConfirmed, SeenWithinConfirmed, TypeOK
  <2>2. QED
    BY <1>2, <2>1 DEF UsedWithinConfirmed
<1>6. SeenWithinConfirmed'
  <2>1. \A q \in Request : seen[q] <= Total[Rows(org[q])']
    BY <1>2 DEF AccountingInv, SeenWithinConfirmed, TypeOK
  <2>2. QED
    BY <2>1 DEF AccountingInv, SeenWithinConfirmed, TypeOK, Rows
<1>7. RowsAreCommitted'
  BY <1>1 DEF AccountingInv, RowsAreCommitted, TypeOK, FileId, Creator
<1>8. BatchesFitKind'
  BY <1>1 DEF AccountingInv, BatchesFitKind, TypeOK
<1>9. QED
  BY <1>5, <1>6, <1>7, <1>8 DEF AccountingInv

\* Every step keeps the accounting invariant: one case per action.
LEMMA NextAccounting == TypeOK /\ AccountingInv /\ [Next]_vars => AccountingInv'
<1> SUFFICES ASSUME TypeOK, AccountingInv, [Next]_vars PROVE AccountingInv'
  OBVIOUS
<1> USE DEF Goto, database, buckets, request, Steps
<1>1. ASSUME NEW k \in Key, Upload(k) \/ ExpireObject(k) PROVE AccountingInv'
  BY <1>1, StorageStep DEF Upload, ExpireObject
<1>2. ASSUME NEW r \in Request, StartConfirm(r) PROVE AccountingInv'
  <2>1. PICK keys \in FileData : batch' = [batch EXCEPT ![r] = {r} \X keys]
    BY <1>2 DEF StartConfirm
  <2>2. PICK o \in Org : org' = [org EXCEPT ![r] = o]
    BY <1>2 DEF StartConfirm
  <2>3. {r} \X keys \in SUBSET FileId /\ {r} \X keys \subseteq {r} \X Key
    BY DEF FileId, FileData
  <2>4. QED
    BY <1>2, <2>1, <2>2, <2>3, StartStep DEF StartConfirm
<1>3. ASSUME NEW r \in Request, StartDelete(r) PROVE AccountingInv'
  <2>1. PICK found \in SUBSET {f \in FileId : files[f] # "absent"} :
            /\ batch' = [batch EXCEPT ![r] = found]
            /\ \E first \in found : org' = [org EXCEPT ![r] = org[Creator(first)]]
    BY <1>3 DEF StartDelete
  <2>2. PICK first \in found : org' = [org EXCEPT ![r] = org[Creator(first)]]
    BY <2>1
  <2>3. org[Creator(first)] \in Org
    BY DEF TypeOK, FileId, Creator
  <2>4. found \in SUBSET FileId /\ \A f \in found : files[f] # "absent"
    OBVIOUS
  <2>5. QED
    BY <1>3, <2>1, <2>2, <2>3, <2>4, StartStep DEF StartDelete
<1>4. ASSUME NEW r \in Request, InsertRecords(r) \/ RejectConfirm(r) PROVE AccountingInv'
  BY <1>4, QuietStep DEF InsertRecords, RejectConfirm
<1>5. ASSUME NEW r \in Request, MarkDeleted(r) \/ TagsSettled(r) PROVE AccountingInv'
  BY <1>5, QuietStep DEF MarkDeleted, TagsSettled
<1>6. ASSUME NEW r \in Request, ReadUsedStorage(r) PROVE AccountingInv'
  BY <1>6, QuietStep DEF ReadUsedStorage
<1>7. ASSUME NEW r \in Request, WriteUsedStorage(r) PROVE AccountingInv'
  <2>1. CASE kind[r] = "confirm"
    BY <1>7, <2>1, QuietStep DEF WriteUsedStorage
  <2>2. CASE kind[r] # "confirm"
    BY <1>7, <2>2, QuietStep DEF WriteUsedStorage
  <2>3. QED
    BY <2>1, <2>2
<1>8. ASSUME NEW r \in Request, NEW k \in Key,
             CopyObject(r, k) \/ TagObject(r, k) \/ TagFails(r, k)
      PROVE  AccountingInv'
  BY <1>8, StorageStep DEF CopyObject, TagObject, TagFails
<1>9. ASSUME NEW r \in Request, NEW k \in Key, CopyFails(r, k) PROVE AccountingInv'
  BY <1>9, QuietStep DEF CopyFails
<1>10. ASSUME NEW r \in Request, Abort(r) PROVE AccountingInv'
  BY <1>10, QuietStep DEF Abort, Running, Ended
<1>11. CASE Finished \/ UNCHANGED vars
  BY <1>11, StorageStep DEF Finished, vars
<1>12. ASSUME NEW r \in Request, NEW f \in FileId, MarkFile(r, f) PROVE AccountingInv'
  BY <1>12, StorageStep DEF MarkFile
<1>13. ASSUME NEW r \in Request, AbortDeadlocked(r) PROVE AccountingInv'
  BY <1>13, QuietStep DEF AbortDeadlocked, Running, Ended
<1>14. QED
  BY <1>1, <1>2, <1>3, <1>4, <1>5, <1>6, <1>7, <1>8, <1>9, <1>10, <1>11, <1>12, <1>13,
     CommitConfirmStep, CommitDeleteStep DEF Next, Server

\* usedStorage stays between zero and the bytes confirmed (UsedWithinConfirmed),
\* for any number of overlapping confirmations, deletions and failures.
THEOREM UsedBounded == Spec => []UsedWithinConfirmed
<1>1. Init => TypeOK /\ AccountingInv
  BY InitTypeOK, InitAccounting
<1>2. TypeOK /\ AccountingInv /\ [Next]_vars => TypeOK' /\ AccountingInv'
  BY NextTypeOK, NextAccounting
<1>3. AccountingInv => UsedWithinConfirmed
  BY DEF AccountingInv
<1>4. QED
  BY <1>1, <1>2, <1>3, PTL DEF Spec

-----------------------------------------------------------------------------
(* Deleted rows stay deleted.                                               *)

\* Only a commit changes a row, a confirmation only rows that did not exist
\* and a deletion only to DELETED.
LEMMA RowsAdvance ==
    ASSUME TypeOK, AccountingInv, [Next]_vars, NEW f \in FileId
    PROVE  /\ files[f] = "DELETED" => files'[f] = "DELETED"
           /\ files[f] # "absent" => files'[f] # "absent"
<1>1. CASE \E r \in Request : CommitConfirm(r)
  <2>1. PICK r \in Request : CommitConfirm(r)
    BY <1>1
  <2>2. kind[r] = "confirm" /\ batch[r] \subseteq {r} \X Key /\ pc[r] = "copy"
    BY <2>1 DEF CommitConfirm, Goto, AccountingInv, BatchesFitKind
  <2>3. f \in batch[r] => files[f] = "absent"
    BY <2>2 DEF AccountingInv, RowsAreCommitted, FileId, Creator
  <2>4. QED
    BY <2>1, <2>3 DEF CommitConfirm, TypeOK
<1>2. CASE \E r \in Request : CommitDelete(r)
  BY <1>2 DEF CommitDelete, TypeOK
<1>3. CASE UNCHANGED files
  BY <1>3
<1>4. QED
  BY <1>1, <1>2, <1>3
     DEF Next, Server, vars, database, buckets, request, Upload, ExpireObject,
         StartConfirm, StartDelete, InsertRecords, RejectConfirm, CopyObject,
         CopyFails, MarkFile, MarkDeleted, AbortDeadlocked, TagObject, TagFails,
         TagsSettled,
         ReadUsedStorage, WriteUsedStorage, Abort, Finished

\* A deletion is final (DeletionIsFinal), whatever overlaps and whatever fails.
THEOREM DeletedForGood == Spec => DeletionIsFinal
<1>1. Init => TypeOK /\ AccountingInv
  BY InitTypeOK, InitAccounting
<1>2. TypeOK /\ AccountingInv /\ [Next]_vars => TypeOK' /\ AccountingInv'
  BY NextTypeOK, NextAccounting
<1>3. TypeOK /\ AccountingInv /\ [Next]_vars => [RowsOnlyAdvance]_vars
  BY RowsAdvance DEF RowsOnlyAdvance
<1>4. QED
  BY <1>1, <1>2, <1>3, PTL DEF Spec, DeletionIsFinal

-----------------------------------------------------------------------------
(* Active files have their objects.                                         *)

\* Nothing is stored, tagged or requested at the start.
LEMMA InitStored == Init => StoredInv
BY DEF Init, StoredInv, ActiveFilesStored, TagsAreRequested, CopiesPrecedeCommit,
       CallsFitKind, Listed

\* A request that asked for a deletion is never forgotten.
LEMMA RequestsRemembered ==
    ASSUME TypeOK, StoredInv, [Next]_vars, NEW k \in Key, DeleteRequested(k)
    PROVE  DeleteRequested(k)'
<1>1. PICK q \in Request : kind[q] = "delete" /\ k \in KeysOf(q)
  BY DEF DeleteRequested
<1>2. pc[q] # "idle"
  BY <1>1 DEF StoredInv, CallsFitKind
<1>3. kind'[q] = kind[q] /\ batch'[q] = batch[q]
  BY <1>2 DEF Next, Server, vars, database, buckets, request, Upload, ExpireObject,
         StartConfirm, StartDelete, InsertRecords, RejectConfirm, CopyObject,
         CopyFails, CommitConfirm, MarkFile, MarkDeleted, AbortDeadlocked, TagObject,
         TagFails, TagsSettled,
         CommitDelete, ReadUsedStorage, WriteUsedStorage, Abort, Finished, Goto, TypeOK
<1>4. QED
  BY <1>1, <1>3 DEF DeleteRequested, KeysOf

\* Calls sent to S3 fit the request that sent them.
LEMMA NextCallsFitKind ==
    ASSUME TypeOK, StoredInv, [Next]_vars
    PROVE  CallsFitKind'
<1> USE DEF TypeOK, StoredInv, CallsFitKind, KeysOf, Goto, database, buckets, request
<1>1. ASSUME NEW r \in Request, StartConfirm(r) PROVE CallsFitKind'
  BY <1>1 DEF StartConfirm
<1>2. ASSUME NEW r \in Request, StartDelete(r) PROVE CallsFitKind'
  <2>1. kind[r] = "none" /\ pc[r] = "idle"
    BY <1>2 DEF StartDelete
  <2>2. \A q \in Request \ {r} :
          pc'[q] = pc[q] /\ kind'[q] = kind[q] /\ batch'[q] = batch[q]
    BY <1>2 DEF StartDelete
  <2>3. inFlight[r] = {}
    BY <2>1
  <2>4. QED
    BY <1>2, <2>2, <2>3 DEF StartDelete
<1>3. ASSUME NEW r \in Request, InsertRecords(r) \/ RejectConfirm(r) \/ Abort(r)
                                 \/ AbortDeadlocked(r) \/ TagsSettled(r)
                                 \/ ReadUsedStorage(r)
      PROVE  CallsFitKind'
  BY <1>3 DEF InsertRecords, RejectConfirm, Abort, AbortDeadlocked, TagsSettled, ReadUsedStorage, Running
<1>4. ASSUME NEW r \in Request, CommitConfirm(r) \/ CommitDelete(r) PROVE CallsFitKind'
  BY <1>4 DEF CommitConfirm, CommitDelete
<1>5. ASSUME NEW r \in Request, MarkDeleted(r) \/ WriteUsedStorage(r) PROVE CallsFitKind'
  BY <1>5 DEF MarkDeleted, WriteUsedStorage
<1>6. ASSUME NEW r \in Request, NEW k \in Key,
             CopyObject(r, k) \/ CopyFails(r, k) \/ TagObject(r, k) \/ TagFails(r, k)
      PROVE  CallsFitKind'
  BY <1>6 DEF CopyObject, CopyFails, TagObject, TagFails
<1>7. CASE \/ \E k \in Key : Upload(k) \/ ExpireObject(k)
           \/ \E r \in Request, f \in FileId : MarkFile(r, f)
           \/ Finished \/ UNCHANGED vars
  BY <1>7 DEF Upload, ExpireObject, MarkFile, Finished, vars
<1>8. QED
  BY <1>1, <1>2, <1>3, <1>4, <1>5, <1>6, <1>7 DEF Next, Server

\* An object stays in the permanent bucket until its deletion is requested:
\* only the lifecycle rule removes objects, and only tagged ones.
LEMMA ObjectsKept ==
    ASSUME TypeOK, StoredInv, [Next]_vars, NEW k \in Key,
           k \in permanent \/ DeleteRequested(k)
    PROVE  k \in permanent' \/ DeleteRequested(k)'
<1>1. CASE DeleteRequested(k)
  BY <1>1, RequestsRemembered
<1>2. CASE k \in permanent /\ k \in tagged
  BY <1>2, RequestsRemembered DEF StoredInv, TagsAreRequested
<1>3. CASE k \in permanent /\ k \notin tagged
  BY <1>3 DEF Next, Server, vars, database, buckets, request, Upload, ExpireObject,
         StartConfirm, StartDelete, InsertRecords, RejectConfirm, CopyObject,
         CopyFails, CommitConfirm, MarkFile, MarkDeleted, AbortDeadlocked, TagObject,
         TagFails, TagsSettled,
         CommitDelete, ReadUsedStorage, WriteUsedStorage, Abort, Finished
<1>4. QED
  BY <1>1, <1>2, <1>3

\* Only a deletion tags, and only the keys it named.
LEMMA NextTagsAreRequested ==
    ASSUME TypeOK, StoredInv, [Next]_vars
    PROVE  TagsAreRequested'
<1> SUFFICES ASSUME NEW k \in tagged' PROVE DeleteRequested(k)'
  BY DEF TagsAreRequested
<1>1. TypeOK'
  BY NextTypeOK
<1>2. k \in Key
  BY <1>1 DEF TypeOK
<1>3. CASE k \in tagged
  BY <1>2, <1>3, RequestsRemembered DEF StoredInv, TagsAreRequested
<1>4. CASE \E r \in Request : TagObject(r, k)
  <2>1. DeleteRequested(k)
    BY <1>4 DEF TagObject, StoredInv, CallsFitKind, DeleteRequested
  <2>2. QED
    BY <1>2, <2>1, RequestsRemembered
<1>5. CASE k \notin tagged /\ ~\E r \in Request : TagObject(r, k)
  BY <1>5 DEF Next, Server, vars, database, buckets, request, Upload, ExpireObject,
         StartConfirm, StartDelete, InsertRecords, RejectConfirm, CopyObject,
         CopyFails, CommitConfirm, MarkFile, MarkDeleted, AbortDeadlocked, TagObject,
         TagFails, TagsSettled,
         CommitDelete, ReadUsedStorage, WriteUsedStorage, Abort, Finished
<1>6. QED
  BY <1>3, <1>4, <1>5

\* While a confirmation copies, its settled copies are in place.
LEMMA NextCopiesPrecedeCommit ==
    ASSUME TypeOK, StoredInv, [Next]_vars
    PROVE  CopiesPrecedeCommit'
<1> SUFFICES ASSUME NEW r \in Request, pc'[r] = "copy",
                    NEW k \in KeysOf(r)', k \notin inFlight'[r]
             PROVE  k \in permanent' \/ DeleteRequested(k)'
  BY DEF CopiesPrecedeCommit
<1>1. k \in Key
  <2>1. batch'[r] \in SUBSET FileId
    BY NextTypeOK DEF TypeOK
  <2>2. QED
    BY <2>1 DEF KeysOf, ObjectKey, FileId
<1>2. CASE pc[r] = "copy" /\ k \notin inFlight[r] /\ batch'[r] = batch[r]
  <2>1. k \in permanent \/ DeleteRequested(k)
    BY <1>2 DEF StoredInv, CopiesPrecedeCommit, KeysOf
  <2>2. QED
    BY <1>1, <2>1, ObjectsKept
<1>3. CASE CopyObject(r, k)
  BY <1>3 DEF CopyObject
<1>4. CASE ~CopyObject(r, k) /\ ~(pc[r] = "copy" /\ k \notin inFlight[r] /\ batch'[r] = batch[r])
  <2>1. k \in KeysOf(r) \/ batch'[r] # batch[r]
    BY DEF KeysOf
  <2>2. pc[r] = "copy" => kind[r] = "confirm"
    BY DEF StoredInv, CallsFitKind
  <2>3. FALSE
    BY <1>4, <2>1, <2>2
       DEF TypeOK, Next, Server, vars, database, buckets, request, Upload, ExpireObject,
         StartConfirm, StartDelete, InsertRecords, RejectConfirm, CopyObject,
         CopyFails, CommitConfirm, MarkFile, MarkDeleted, AbortDeadlocked, TagObject,
         TagFails, TagsSettled,
         CommitDelete, ReadUsedStorage, WriteUsedStorage, Abort, Finished, Goto
  <2>4. QED
    BY <2>3
<1>5. QED
  BY <1>2, <1>3, <1>4

\* A row becomes visible only when all the copies of its batch are in place.
LEMMA NextActiveFilesStored ==
    ASSUME TypeOK, StoredInv, [Next]_vars
    PROVE  ActiveFilesStored'
<1> SUFFICES ASSUME NEW f \in FileId, files'[f] = "ACTIVE"
             PROVE  ObjectKey(f) \in permanent' \/ DeleteRequested(ObjectKey(f))'
  BY DEF ActiveFilesStored, Listed
<1>1. ObjectKey(f) \in Key
  BY DEF ObjectKey, FileId
<1>2. ObjectKey(f) \in permanent \/ DeleteRequested(ObjectKey(f))
  <2>1. CASE files[f] = "ACTIVE"
    BY <2>1 DEF StoredInv, ActiveFilesStored, Listed
  <2>2. CASE \E r \in Request : CommitConfirm(r) /\ f \in batch[r]
    BY <2>2 DEF CommitConfirm, Goto, StoredInv, CopiesPrecedeCommit, KeysOf
  <2>3. CASE files[f] # "ACTIVE" /\ ~\E r \in Request : CommitConfirm(r) /\ f \in batch[r]
    BY <2>3
       DEF TypeOK, Next, Server, vars, database, buckets, request, Upload, ExpireObject,
         StartConfirm, StartDelete, InsertRecords, RejectConfirm, CopyObject,
         CopyFails, CommitConfirm, MarkFile, MarkDeleted, AbortDeadlocked, TagObject,
         TagFails, TagsSettled,
         CommitDelete, ReadUsedStorage, WriteUsedStorage, Abort, Finished
  <2>4. QED
    BY <2>1, <2>2, <2>3
<1>3. QED
  BY <1>1, <1>2, ObjectsKept

\* Every listed file has its object unless a deletion named its key
\* (ActiveFilesStored), through rollbacks, late copies and expiry.
THEOREM ListedFilesStored == Spec => []ActiveFilesStored
<1>1. Init => TypeOK /\ StoredInv
  BY InitTypeOK, InitStored
<1>2. TypeOK /\ StoredInv /\ [Next]_vars => TypeOK' /\ StoredInv'
  BY NextTypeOK, NextCallsFitKind, NextTagsAreRequested, NextCopiesPrecedeCommit,
     NextActiveFilesStored DEF StoredInv
<1>3. StoredInv => ActiveFilesStored
  BY DEF StoredInv
<1>4. QED
  BY <1>1, <1>2, <1>3, PTL DEF Spec

-----------------------------------------------------------------------------
(* Deleted files give their objects back.                                   *)

\* Another confirmation names the key of f, and may copy its object anew.
ConfirmedTwice(f) ==
    \E r \in Request \ {Creator(f)} :
        kind[r] = "confirm" /\ ObjectKey(f) \in KeysOf(r)
Reclaimed(f) == ObjectKey(f) \notin permanent \ tagged \/ ConfirmedTwice(f)

\* A confirmation copies only what it names and leaves no copy behind; without
\* a failure a deletion past its tagging calls has reclaimed its batch.
ReclaimInv ==
    /\ \A r \in Request : kind[r] = "confirm" =>
          inFlight[r] \subseteq KeysOf(r) /\ (pc[r] = "done" => inFlight[r] = {})
    /\ faults = 0 =>
          /\ \A f \in FileId : files[f] = "DELETED" => Reclaimed(f)
          /\ \A r \in Request : kind[r] = "delete" =>
                /\ pc[r] \in {"read", "write", "commit"} =>
                      \A f \in batch[r] : Reclaimed(f)
                /\ pc[r] = "tag" =>
                      \A f \in batch[r] : ObjectKey(f) \in inFlight[r] \/ Reclaimed(f)

\* Nothing is copied or deleted at the start.
LEMMA InitReclaim == Init => ReclaimInv
BY DEF Init, ReclaimInv

\* A request past its start keeps its handler and its batch.
LEMMA CallsRemembered ==
    ASSUME TypeOK, StoredInv, [Next]_vars, NEW q \in Request, kind[q] # "none"
    PROVE  kind'[q] = kind[q] /\ batch'[q] = batch[q] /\ KeysOf(q)' = KeysOf(q)
<1>1. pc[q] # "idle"
  BY DEF StoredInv, CallsFitKind
<1>2. kind'[q] = kind[q] /\ batch'[q] = batch[q]
  BY <1>1 DEF Next, Server, vars, database, buckets, request, Upload, ExpireObject,
         StartConfirm, StartDelete, InsertRecords, RejectConfirm, CopyObject,
         CopyFails, CommitConfirm, MarkFile, MarkDeleted, AbortDeadlocked, TagObject,
         TagFails, TagsSettled,
         CommitDelete, ReadUsedStorage, WriteUsedStorage, Abort, Finished, Goto, TypeOK
<1>3. QED
  BY <1>2 DEF KeysOf

\* The object of a file that has a row is not copied again, unless its key is
\* confirmed a second time: what was reclaimed stays so.
LEMMA ReclaimedStays ==
    ASSUME TypeOK, AccountingInv, StoredInv, ReclaimInv, [Next]_vars,
           NEW f \in FileId, files[f] # "absent", Reclaimed(f)
    PROVE  Reclaimed(f)'
<1>1. CASE ConfirmedTwice(f)
  <2>1. PICK r \in Request \ {Creator(f)} :
             kind[r] = "confirm" /\ ObjectKey(f) \in KeysOf(r)
    BY <1>1 DEF ConfirmedTwice
  <2>2. kind'[r] = "confirm" /\ KeysOf(r)' = KeysOf(r)
    BY <2>1, CallsRemembered
  <2>3. QED
    BY <2>1, <2>2 DEF Reclaimed, ConfirmedTwice
<1>2. CASE ~ConfirmedTwice(f)
  <2>1. ObjectKey(f) \notin permanent \ tagged
    BY <1>2 DEF Reclaimed
  <2>2. kind[Creator(f)] = "confirm" /\ inFlight[Creator(f)] = {}
    BY DEF AccountingInv, RowsAreCommitted, ReclaimInv, FileId, Creator
  <2>3. \A r \in Request : ~CopyObject(r, ObjectKey(f))
    BY <1>2, <2>2 DEF CopyObject, ReclaimInv, ConfirmedTwice
  <2>4. ObjectKey(f) \notin permanent' \ tagged'
    BY <2>1, <2>3
       DEF Next, Server, vars, database, buckets, request, Upload, ExpireObject,
         StartConfirm, StartDelete, InsertRecords, RejectConfirm, CopyObject,
         CopyFails, CommitConfirm, MarkFile, MarkDeleted, AbortDeadlocked, TagObject,
         TagFails, TagsSettled,
         CommitDelete, ReadUsedStorage, WriteUsedStorage, Abort, Finished
  <2>5. QED
    BY <2>4 DEF Reclaimed
<1>3. QED
  BY <1>1, <1>2

\* Copies under way belong to their confirmation, and end before it does.
LEMMA NextCopiesSettled ==
    ASSUME TypeOK, StoredInv, ReclaimInv, [Next]_vars,
           NEW r \in Request, kind'[r] = "confirm"
    PROVE  inFlight'[r] \subseteq KeysOf(r)' /\ (pc'[r] = "done" => inFlight'[r] = {})
<1>1. CASE kind[r] # "confirm"
  <2>1. kind[r] = "none"
    BY <1>1, CallsRemembered
  <2>2. StartConfirm(r)
    BY <2>1 DEF Next, Server, vars, database, buckets, request, Upload, ExpireObject,
         StartConfirm, StartDelete, InsertRecords, RejectConfirm, CopyObject,
         CopyFails, CommitConfirm, MarkFile, MarkDeleted, AbortDeadlocked, TagObject,
         TagFails, TagsSettled,
         CommitDelete, ReadUsedStorage, WriteUsedStorage, Abort, Finished, TypeOK
  <2>3. pc'[r] = "insert" /\ inFlight'[r] = {}
    BY <2>2 DEF StartConfirm, Goto, TypeOK, StoredInv, CallsFitKind
  <2>4. QED
    BY <2>3
<1>2. CASE kind[r] = "confirm"
  <2>1. /\ KeysOf(r)' = KeysOf(r)
        /\ inFlight[r] \subseteq KeysOf(r) /\ (pc[r] = "done" => inFlight[r] = {})
    BY <1>2, CallsRemembered DEF ReclaimInv
  <2>2. inFlight'[r] \subseteq inFlight[r]
        \/ (inFlight'[r] = KeysOf(r) /\ pc'[r] \in {"tag", "copy"})
    BY DEF Next, Server, vars, database, buckets, request, Upload, ExpireObject,
         StartConfirm, StartDelete, InsertRecords, RejectConfirm, CopyObject,
         CopyFails, CommitConfirm, MarkFile, MarkDeleted, AbortDeadlocked, TagObject,
         TagFails, TagsSettled,
         CommitDelete, ReadUsedStorage, WriteUsedStorage, Abort, Finished, Goto, TypeOK
  <2>3. pc'[r] = "done" => pc[r] = "done" \/ inFlight[r] = {}
    BY <1>2 DEF Next, Server, vars, database, buckets, request, Upload, ExpireObject,
         StartConfirm, StartDelete, InsertRecords, RejectConfirm, CopyObject,
         CopyFails, CommitConfirm, MarkFile, MarkDeleted, AbortDeadlocked, TagObject,
         TagFails, TagsSettled,
         CommitDelete, ReadUsedStorage, WriteUsedStorage, Abort, Finished, Goto, TypeOK
  <2>4. QED
    BY <2>1, <2>2, <2>3
<1>3. QED
  BY <1>1, <1>2

\* A deletion that runs on without a failure: what it waited for is tagged.
LEMMA NextBatchReclaimed ==
    ASSUME TypeOK, AccountingInv, StoredInv, ReclaimInv, [Next]_vars, faults' = 0,
           NEW r \in Request, kind'[r] = "delete", NEW f \in batch'[r]
    PROVE  /\ pc'[r] \in {"read", "write", "commit"} => Reclaimed(f)'
           /\ pc'[r] = "tag" => ObjectKey(f) \in inFlight'[r] \/ Reclaimed(f)'
<1>0. faults = 0
  BY DEF TypeOK, Next, Server, vars, database, buckets, request, Upload, ExpireObject,
         StartConfirm, StartDelete, InsertRecords, RejectConfirm, CopyObject,
         CopyFails, CommitConfirm, MarkFile, MarkDeleted, AbortDeadlocked, TagObject,
         TagFails, TagsSettled,
         CommitDelete, ReadUsedStorage, WriteUsedStorage, Abort, Finished
<1>1. CASE kind[r] # "delete"
  <2>1. kind[r] = "none"
    BY <1>1, CallsRemembered
  <2>2. StartDelete(r)
    BY <2>1 DEF Next, Server, vars, database, buckets, request, Upload, ExpireObject,
         StartConfirm, StartDelete, InsertRecords, RejectConfirm, CopyObject,
         CopyFails, CommitConfirm, MarkFile, MarkDeleted, AbortDeadlocked, TagObject,
         TagFails, TagsSettled,
         CommitDelete, ReadUsedStorage, WriteUsedStorage, Abort, Finished, TypeOK
  <2>3. QED
    BY <2>2 DEF StartDelete, Goto, TypeOK
<1>2. CASE kind[r] = "delete"
  <2>1. /\ batch'[r] = batch[r] /\ f \in FileId
        /\ files[f] # "absent" /\ ObjectKey(f) \in KeysOf(r)
    BY <1>2, CallsRemembered DEF AccountingInv, BatchesFitKind, TypeOK, KeysOf
  <2>2. CASE Reclaimed(f)
    BY <2>1, <2>2, ReclaimedStays
  <2>3. CASE ~Reclaimed(f) /\ TagObject(r, ObjectKey(f))
    BY <2>3 DEF TagObject, Reclaimed
  <2>4. CASE ~Reclaimed(f) /\ ~TagObject(r, ObjectKey(f))
    <3>1. /\ pc[r] \notin {"read", "write", "commit"}
          /\ pc[r] = "tag" => ObjectKey(f) \in inFlight[r]
      BY <1>0, <1>2, <2>1, <2>4 DEF ReclaimInv
    <3>2. pc[r] # "insert"
      BY <1>2 DEF AccountingInv, BatchesFitKind
    <3>3. /\ pc'[r] \notin {"read", "write", "commit"}
          /\ pc'[r] = "tag" => ObjectKey(f) \in inFlight'[r]
      BY <1>0, <1>2, <2>1, <2>4, <3>1, <3>2
         DEF TypeOK, Next, Server, vars, database, buckets, request, Upload, ExpireObject,
           StartConfirm, StartDelete, InsertRecords, RejectConfirm, CopyObject,
           CopyFails, CommitConfirm, MarkFile, MarkDeleted, AbortDeadlocked, TagObject,
           TagFails, TagsSettled,
           CommitDelete, ReadUsedStorage, WriteUsedStorage, Abort, Finished, Goto
    <3>4. QED
      BY <3>3
  <2>5. QED
    BY <2>2, <2>3, <2>4
<1>3. QED
  BY <1>1, <1>2

\* Every step keeps the invariant: copies, then rows, then batches.
LEMMA NextReclaim ==
    ASSUME TypeOK, AccountingInv, StoredInv, ReclaimInv, [Next]_vars
    PROVE  ReclaimInv'
<1>1. ASSUME NEW f \in FileId, files'[f] = "DELETED", faults' = 0 PROVE Reclaimed(f)'
  <2>1. faults = 0
    BY <1>1 DEF TypeOK, Next, Server, vars, database, buckets, request, Upload,
         ExpireObject, StartConfirm, StartDelete, InsertRecords, RejectConfirm,
         CopyObject, CopyFails, CommitConfirm, MarkFile, MarkDeleted, AbortDeadlocked,
         TagObject, TagFails,
         TagsSettled, CommitDelete, ReadUsedStorage, WriteUsedStorage, Abort, Finished
  <2>2. CASE files[f] = "DELETED"
    BY <2>1, <2>2, ReclaimedStays DEF ReclaimInv
  <2>3. CASE files[f] # "DELETED"
    <3>1. PICK r \in Request : CommitDelete(r) /\ f \in batch[r]
      BY <1>1, <2>3
         DEF TypeOK, Next, Server, vars, database, buckets, request, Upload,
           ExpireObject, StartConfirm, StartDelete, InsertRecords, RejectConfirm,
           CopyObject, CopyFails, CommitConfirm, MarkFile, MarkDeleted,
           AbortDeadlocked, TagObject, TagFails,
           TagsSettled, CommitDelete, ReadUsedStorage, WriteUsedStorage, Abort, Finished
    <3>2. Reclaimed(f) /\ files[f] # "absent"
      BY <2>1, <3>1 DEF CommitDelete, Goto, ReclaimInv, AccountingInv, BatchesFitKind
    <3>3. QED
      BY <3>2, ReclaimedStays
  <2>4. QED
    BY <2>2, <2>3
<1>2. QED
  BY <1>1, NextCopiesSettled, NextBatchReclaimed DEF ReclaimInv

\* Without failures the object of a deleted file is gone or tagged for the
\* lifecycle rule (DeletedFilesReclaimed), for any number of overlapping calls.
THEOREM ObjectsReclaimed == Spec => []DeletedFilesReclaimed
<1>1. Init => TypeOK /\ AccountingInv /\ StoredInv /\ ReclaimInv
  BY InitTypeOK, InitAccounting, InitStored, InitReclaim
<1>2. TypeOK /\ AccountingInv /\ StoredInv /\ ReclaimInv /\ [Next]_vars
      => TypeOK' /\ AccountingInv' /\ StoredInv' /\ ReclaimInv'
  BY NextTypeOK, NextAccounting, NextCallsFitKind, NextTagsAreRequested,
     NextCopiesPrecedeCommit, NextActiveFilesStored, NextReclaim DEF StoredInv
<1>3. ReclaimInv => DeletedFilesReclaimed
  BY DEF ReclaimInv, DeletedFilesReclaimed, Reclaimed, ConfirmedTwice
<1>4. QED
  BY <1>1, <1>2, <1>3, PTL DEF Spec

-----------------------------------------------------------------------------
(* The ledger, and calls served one at a time.                              *)

Deleted == {f \in FileId : files[f] = "DELETED"}
Usage == used[CHOOSE o \in Org : TRUE]

\* A ledger's step keeps its figure exact.
LEMMA LedgerStepExact ==
    ASSUME Ledger!UsageIsTotal, [Ledger!Next]_<<Listed, Deleted, Usage>>
    PROVE  Ledger!UsageIsTotal'
<1> USE DEF Ledger!UsageIsTotal, Deleted, Usage
<1>1. ASSUME NEW S \in SUBSET FileId, Ledger!Confirm(S) PROVE Ledger!UsageIsTotal'
  <2>1. Total[Listed \cup S] = Total[Listed] + Total[S]
    BY <1>1, TotalAssumption DEF Ledger!Confirm
  <2>2. QED
    BY <1>1, <2>1 DEF Ledger!Confirm
<1>2. ASSUME NEW S \in SUBSET FileId, Ledger!Delete(S) PROVE Ledger!UsageIsTotal'
  <2>1. Listed = (Listed \ S) \cup S /\ (Listed \ S) \cap S = {}
    BY <1>2 DEF Ledger!Delete
  <2>2. Total[Listed] = Total[Listed \ S] + Total[S]
    BY <2>1, TotalAssumption
  <2>3. Total[Listed \ S] \in Nat /\ Total[S] \in Nat
    BY TotalAssumption
  <2>4. QED
    BY <1>2, <2>2, <2>3 DEF Ledger!Delete
<1>3. CASE UNCHANGED <<Listed, Deleted, Usage>>
  BY <1>3
<1>4. QED
  BY <1>1, <1>2, <1>3 DEF Ledger!Next

\* The ledger starts exact.
LEMMA LedgerInitExact == Ledger!Init => Ledger!UsageIsTotal
<1>1. Total[{} \cup {}] = Total[{}] + Total[{}] /\ Total[{}] \in Nat
  BY TotalAssumption
<1>2. Total[{}] = 0
  BY <1>1
<1>3. QED
  BY <1>2 DEF Ledger!Init, Ledger!UsageIsTotal

\* Its figure is always the size of what is there: what every implementation
\* of the ledger inherits.
THEOREM LedgerExact == Ledger!Spec => []Ledger!UsageIsTotal
<1>1. Ledger!UsageIsTotal
      /\ [Ledger!Next]_<<Listed, {f \in FileId : files[f] = "DELETED"},
                         used[CHOOSE o \in Org : TRUE]>>
      => Ledger!UsageIsTotal'
  BY LedgerStepExact DEF Deleted, Usage
<1>2. QED
  BY <1>1, LedgerInitExact, PTL DEF Ledger!Spec

\* One call at a time, clients that delete listed files, one organization.
ServedAlone ==
    MaxConcurrent <= 1 /\ ListedOnly /\ \E o \in Org : Org = {o}

\* The call that runs deletes files that are still listed, and writes a figure
\* computed from the one that is still there.
SerialInv ==
    /\ \A r, q \in Running : r = q
    /\ \A r \in Running :
          /\ kind[r] = "delete" => batch[r] \subseteq Listed
          /\ pc[r] \in {"write", "copy"} => seen[r] = used[org[r]]
          /\ pc[r] = "commit" /\ WritesOrg(r) => seen[r] = used[org[r]]
    /\ Ledger!UsageIsTotal

\* The empty ledger is exact.
LEMMA InitSerial == Init => Ledger!Init /\ SerialInv
<1> SUFFICES ASSUME Init PROVE Ledger!Init /\ SerialInv
  OBVIOUS
<1>1. Listed = {} /\ Deleted = {} /\ Usage = 0
  BY BoundsAssumption DEF Init, Listed, Deleted, Usage
<1>2. Ledger!Init
  BY <1>1 DEF Ledger!Init, Deleted, Usage
<1>3. Running = {}
  BY DEF Init, Running, Ended
<1>4. QED
  BY <1>2, <1>3, LedgerInitExact DEF SerialInv

\* A call starts only when none is running.
LEMMA NoneRunning ==
    ASSUME ServedAlone, SerialInv, Cardinality(Running) < MaxConcurrent
    PROVE  Running = {}
<1> SUFFICES ASSUME NEW r \in Running PROVE FALSE
  OBVIOUS
<1>1. Running = {r}
  BY DEF SerialInv
<1>2. Cardinality(Running) = 1
  BY <1>1, FS_Singleton
<1>3. QED
  BY <1>2, BoundsAssumption DEF ServedAlone

\* Every step is one of the ledger or leaves it alone: only commits write, a
\* confirmation new rows and a deletion listed ones, both the exact figure.
LEMMA LedgerStep ==
    ASSUME ServedAlone, TypeOK, AccountingInv, SerialInv, [Next]_vars
    PROVE  [Ledger!Next]_<<Listed, Deleted, Usage>>
<1>0. /\ \A r \in Request : org[r] = CHOOSE o \in Org : TRUE
      /\ (CHOOSE o \in Org : TRUE) \in Org
  BY DEF ServedAlone, TypeOK
<1>1. ASSUME NEW r \in Request, CommitConfirm(r) PROVE Ledger!Next
  <2>1. r \in Running /\ pc[r] = "copy" /\ kind[r] = "confirm" /\ batch[r] \in SUBSET FileId
    BY <1>1 DEF CommitConfirm, Goto, Running, Ended, AccountingInv, BatchesFitKind, TypeOK
  <2>2. seen[r] = used[org[r]]
    BY <2>1 DEF SerialInv
  <2>3. \A f \in batch[r] : files[f] = "absent"
    BY <2>1 DEF AccountingInv, BatchesFitKind, RowsAreCommitted, FileId, Creator
  <2>4. Listed' = Listed \cup batch[r] /\ Deleted' = Deleted
    BY <1>1, <2>1, <2>3 DEF CommitConfirm, Listed, Deleted, TypeOK
  <2>5. batch[r] \cap (Listed \cup Deleted) = {}
    BY <2>3 DEF Listed, Deleted
  <2>6. Usage' = Usage + Total[batch[r]]
    BY <1>0, <1>1, <2>1, <2>2 DEF CommitConfirm, NewUsed, Bytes, Usage, TypeOK
  <2>7. PICK S \in SUBSET FileId : S = batch[r]
    BY <2>1, <2>2
  <2>8. Ledger!Confirm(S)
    BY <2>4, <2>5, <2>6, <2>7 DEF Ledger!Confirm, Deleted, Usage
  <2>9. QED
    BY <2>8 DEF Ledger!Next
<1>2. ASSUME NEW r \in Request, CommitDelete(r) PROVE Ledger!Next
  <2>1. r \in Running /\ pc[r] = "commit" /\ kind[r] = "delete" /\ batch[r] \in SUBSET FileId
    BY <1>2 DEF CommitDelete, Goto, Running, Ended, TypeOK
  <2>2. batch[r] \subseteq Listed /\ (WritesOrg(r) => seen[r] = used[org[r]])
    BY <2>1 DEF SerialInv
  <2>3. Listed' = Listed \ batch[r] /\ Deleted' = Deleted \cup batch[r]
    BY <1>2, <2>1, <2>2 DEF CommitDelete, Listed, Deleted, TypeOK
  <2>4. Total[batch[r]] <= Usage /\ Total[batch[r]] \in Nat /\ Usage \in Nat
    BY <2>1, <2>2, TotalMonotone DEF SerialInv, Ledger!UsageIsTotal, Usage, Listed
  <2>5. Usage' = Usage - Total[batch[r]]
    <3>1. CASE WritesOrg(r)
      BY <1>0, <1>2, <2>1, <2>2, <2>4, <3>1
         DEF CommitDelete, NewUsed, Bytes, Usage, TypeOK
    <3>2. CASE ~WritesOrg(r)
      BY <1>2, <2>1, <2>4, <3>2 DEF CommitDelete, WritesOrg, Bytes, Usage
    <3>3. QED
      BY <3>1, <3>2
  <2>6. PICK S \in SUBSET FileId : S = batch[r]
    BY <2>1, <2>2
  <2>7. Ledger!Delete(S)
    BY <2>2, <2>3, <2>5, <2>6 DEF Ledger!Delete, Deleted, Usage
  <2>8. QED
    BY <2>7 DEF Ledger!Next
<1>3. CASE ~\E r \in Request : CommitConfirm(r) \/ CommitDelete(r)
  <2>1. UNCHANGED <<files, used>>
    BY <1>3 DEF Next, Server, vars, database, buckets, request, Upload, ExpireObject,
         StartConfirm, StartDelete, InsertRecords, RejectConfirm, CopyObject, CopyFails,
         MarkFile, MarkDeleted, AbortDeadlocked, TagObject, TagFails, TagsSettled,
         ReadUsedStorage,
         WriteUsedStorage, Abort, Finished
  <2>2. QED
    BY <2>1 DEF Listed, Deleted, Usage
<1>4. QED
  BY <1>1, <1>2, <1>3

\* Every step keeps the running call alone and its figure current.
LEMMA NextSerial ==
    ASSUME ServedAlone, TypeOK, AccountingInv, SerialInv, [Next]_vars
    PROVE  SerialInv'
<1>0. Ledger!UsageIsTotal'
  BY LedgerStep, LedgerStepExact DEF SerialInv
<1>1. ASSUME NEW r \in Request, StartConfirm(r) \/ StartDelete(r) PROVE SerialInv'
  <2>1. Running = {}
    BY <1>1, NoneRunning DEF StartConfirm, StartDelete
  <2>2. Running' = {r} /\ pc'[r] \in {"insert", "mark"}
    BY <1>1, <2>1 DEF StartConfirm, StartDelete, Goto, Running, Ended, TypeOK
  <2>3. kind'[r] = "delete" => batch'[r] \subseteq Listed'
    BY <1>1 DEF StartConfirm, StartDelete, ServedAlone, TypeOK, Listed, database
  <2>4. QED
    BY <1>0, <2>2, <2>3 DEF SerialInv
<1>2. ASSUME NEW r \in Request, Running \subseteq {r}, Running' = {}
      PROVE  SerialInv'
  BY <1>0, <1>2 DEF SerialInv
<1>3. ASSUME NEW r \in Request,
             \/ CommitConfirm(r) \/ CommitDelete(r) \/ RejectConfirm(r) \/ Abort(r)
             \/ AbortDeadlocked(r) \/ \E k \in Key : CopyFails(r, k)
      PROVE  SerialInv'
  <2>1. r \in Running
    BY <1>3 DEF CommitConfirm, CommitDelete, RejectConfirm, Abort, AbortDeadlocked,
         CopyFails, Goto, Running, Ended
  <2>2. Running' = Running \ {r}
    BY <1>3 DEF CommitConfirm, CommitDelete, RejectConfirm, Abort, AbortDeadlocked,
         CopyFails, Goto, Running, Ended, TypeOK
  <2>3. QED
    BY <1>2, <2>1, <2>2 DEF SerialInv
<1>4. ASSUME NEW r \in Request,
             \/ InsertRecords(r) \/ MarkDeleted(r) \/ TagsSettled(r)
             \/ ReadUsedStorage(r) \/ WriteUsedStorage(r)
      PROVE  SerialInv'
  <2>1. r \in Running /\ Running' = Running
    BY <1>4 DEF InsertRecords, MarkDeleted, TagsSettled, ReadUsedStorage, WriteUsedStorage,
         Goto, Running, Ended, TypeOK
  <2>2. UNCHANGED <<files, used, kind, org, batch>> /\ Listed' = Listed
        /\ WritesOrg(r)' = WritesOrg(r)
    BY <1>4 DEF InsertRecords, MarkDeleted, TagsSettled, ReadUsedStorage, WriteUsedStorage,
         database, Listed, WritesOrg, Bytes
  <2>3. /\ pc'[r] \in {"write", "copy"} => seen'[r] = used[org[r]]
        /\ pc'[r] = "commit" /\ WritesOrg(r) => seen'[r] = used[org[r]]
    BY <1>4, <2>1 DEF InsertRecords, MarkDeleted, TagsSettled, ReadUsedStorage,
         WriteUsedStorage, Goto, SerialInv, TypeOK
  <2>4. QED
    BY <1>0, <2>1, <2>2, <2>3 DEF SerialInv
<1>5. ASSUME UNCHANGED <<files, used, pc, kind, org, batch, seen>> PROVE SerialInv'
  BY <1>0, <1>5 DEF SerialInv, Running, Ended, Listed, WritesOrg, Bytes
<1>6. ASSUME NEW k \in Key,
             \/ Upload(k) \/ ExpireObject(k)
             \/ \E r \in Request : CopyObject(r, k) \/ TagObject(r, k) \/ TagFails(r, k)
      PROVE  SerialInv'
  BY <1>5, <1>6 DEF Upload, ExpireObject, CopyObject, TagObject, TagFails, database, request
<1>7. CASE (\E r \in Request, f \in FileId : MarkFile(r, f)) \/ Finished \/ UNCHANGED vars
  BY <1>5, <1>7 DEF MarkFile, Finished, vars, database, request
<1>8. QED
  BY <1>1, <1>3, <1>4, <1>6, <1>7 DEF Next, Server

\* The serial invariant, with what it rests on.
LEMMA SerialInvariants ==
    ASSUME ServedAlone
    PROVE  Spec => [](TypeOK /\ AccountingInv /\ SerialInv)
<1>1. Init => TypeOK /\ AccountingInv /\ SerialInv
  BY InitTypeOK, InitAccounting, InitSerial
<1>2. TypeOK /\ AccountingInv /\ SerialInv /\ [Next]_vars
      => TypeOK' /\ AccountingInv' /\ SerialInv'
  BY NextTypeOK, NextAccounting, NextSerial
<1>3. QED
  BY <1>1, <1>2, PTL DEF Spec

\* Calls served one at a time implement the ledger (ImplementsLedger), for any
\* number of calls, batches, failed S3 calls and rollbacks.
THEOREM LedgerImplemented == ServedAlone => (Spec => ImplementsLedger)
<1> SUFFICES ASSUME ServedAlone PROVE Spec => ImplementsLedger
  OBVIOUS
<1>1. Init => Ledger!Init
  BY InitSerial
<1>2. TypeOK /\ AccountingInv /\ SerialInv /\ [Next]_vars
      => [Ledger!Next]_<<Listed, {f \in FileId : files[f] = "DELETED"},
                         used[CHOOSE o \in Org : TRUE]>>
  BY LedgerStep DEF Deleted, Usage
<1>3. QED
  BY <1>1, <1>2, SerialInvariants, PTL DEF Spec, ImplementsLedger, Ledger!Spec

\* Served one at a time, calls keep usedStorage exact (UsedStorageIsTotal):
\* it is overlapping that loses updates, not a failure or a rollback.
THEOREM UsageExactAlone == ServedAlone => (Spec => []UsedStorageIsTotal)
<1> SUFFICES ASSUME ServedAlone PROVE Spec => []UsedStorageIsTotal
  OBVIOUS
<1>1. TypeOK /\ AccountingInv /\ SerialInv => UsedStorageIsTotal
  <2> SUFFICES ASSUME TypeOK, SerialInv, NEW o \in Org
               PROVE  used[o] = Total[Rows(o) \cap Listed]
    BY DEF UsedStorageIsTotal
  <2>1. o = CHOOSE p \in Org : TRUE
    BY DEF ServedAlone
  <2>2. Rows(o) \cap Listed = Listed
    BY DEF Rows, Listed, ServedAlone, TypeOK, FileId, Creator
  <2>3. QED
    BY <2>1, <2>2 DEF SerialInv, Ledger!UsageIsTotal
<1>2. QED
  BY <1>1, SerialInvariants, PTL

-----------------------------------------------------------------------------
(* Row locks: what can be said of waiting without liveness.                 *)

\* Only an UPDATE under way has marked a part of its batch, and a deletion
\* sends nothing to S3 before it has marked all of it.
MarkInv ==
    \A r \in Request :
        /\ pc[r] # "mark" => marked[r] = {}
        /\ pc[r] = "mark" => kind[r] = "delete" /\ inFlight[r] = {}

\* No file row and no organization's row is updated by two of them.
LocksExclusive ==
    \A q, r \in Request : q # r =>
        /\ FilesHeld(q) \cap FilesHeld(r) = {}
        /\ HoldsOrg(q) /\ HoldsOrg(r) => org[q] # org[r]

LEMMA InitLocks == Init => MarkInv /\ LocksExclusive
BY DEF Init, MarkInv, LocksExclusive, FilesHeld, HoldsOrg

\* Every step keeps the first: one case per kind of action.
LEMMA NextMark ==
    ASSUME TypeOK, StoredInv, MarkInv, [Next]_vars
    PROVE  MarkInv'
<1> USE DEF TypeOK, MarkInv, Goto, database, buckets, request
<1>1. ASSUME NEW r \in Request, StartConfirm(r) \/ StartDelete(r) PROVE MarkInv'
  <2>1. pc[r] = "idle" /\ inFlight[r] = {}
    BY <1>1 DEF StartConfirm, StartDelete, StoredInv, CallsFitKind
  <2>2. QED
    BY <1>1, <2>1 DEF StartConfirm, StartDelete
<1>2. ASSUME NEW r \in Request,
             \/ InsertRecords(r) \/ RejectConfirm(r) \/ CommitConfirm(r)
             \/ CommitDelete(r) \/ TagsSettled(r) \/ ReadUsedStorage(r)
      PROVE  MarkInv'
  BY <1>2 DEF InsertRecords, RejectConfirm, CommitConfirm, CommitDelete, TagsSettled,
       ReadUsedStorage
<1>3. ASSUME NEW r \in Request,
             MarkDeleted(r) \/ AbortDeadlocked(r) \/ Abort(r) \/ WriteUsedStorage(r)
      PROVE  MarkInv'
  BY <1>3 DEF MarkDeleted, AbortDeadlocked, Abort, WriteUsedStorage
<1>4. ASSUME NEW r \in Request, NEW f \in FileId, MarkFile(r, f) PROVE MarkInv'
  BY <1>4 DEF MarkFile
<1>5. ASSUME NEW r \in Request, NEW k \in Key,
             CopyObject(r, k) \/ CopyFails(r, k) \/ TagObject(r, k) \/ TagFails(r, k)
      PROVE  MarkInv'
  BY <1>5 DEF CopyObject, CopyFails, TagObject, TagFails
<1>6. CASE (\E k \in Key : Upload(k) \/ ExpireObject(k)) \/ Finished \/ UNCHANGED vars
  BY <1>6 DEF Upload, ExpireObject, Finished, vars
<1>7. QED
  BY <1>1, <1>2, <1>3, <1>4, <1>5, <1>6 DEF Next, Server

\* Locks stay exclusive when one request gets free ones and the others none.
LEMMA LocksGrow ==
    ASSUME LocksExclusive, NEW r \in Request,
           \A f \in FilesHeld(r)' : f \in FilesHeld(r) \/ ~FileLocked(f),
           HoldsOrg(r)' => HoldsOrg(r) \/ ~OrgLocked(org[r]),
           HoldsOrg(r)' => org'[r] = org[r],
           \A q \in Request \ {r} :
              /\ pc'[q] = pc[q] /\ kind'[q] = kind[q] /\ org'[q] = org[q]
              /\ batch'[q] = batch[q] /\ marked'[q] = marked[q]
    PROVE  LocksExclusive'
<1>1. \A q \in Request \ {r} : /\ FilesHeld(q)' = FilesHeld(q)
                               /\ HoldsOrg(q)' <=> HoldsOrg(q)
  BY DEF FilesHeld, HoldsOrg, WritesOrg, Bytes
<1>2. ASSUME NEW q \in Request \ {r} PROVE FilesHeld(q)' \cap FilesHeld(r)' = {}
  <2>1. \A f \in FilesHeld(q) : FileLocked(f)
    BY DEF FileLocked
  <2>2. QED
    BY <1>1, <2>1 DEF LocksExclusive
<1>3. ASSUME NEW q \in Request \ {r}, HoldsOrg(q)', HoldsOrg(r)' PROVE org'[q] # org'[r]
  <2>1. OrgLocked(org[q])
    BY <1>1, <1>3 DEF OrgLocked
  <2>2. QED
    BY <1>1, <1>3, <2>1 DEF LocksExclusive
<1>4. QED
  BY <1>1, <1>2, <1>3 DEF LocksExclusive

\* Every step keeps the locks exclusive: one case per action.
LEMMA NextLocks ==
    ASSUME TypeOK, AccountingInv, MarkInv, LocksExclusive, [Next]_vars
    PROVE  LocksExclusive'
<1> USE DEF TypeOK, Goto, database, buckets, request
<1> DEFINE Others(r) == \A q \in Request \ {r} :
                           /\ pc'[q] = pc[q] /\ kind'[q] = kind[q] /\ org'[q] = org[q]
                           /\ batch'[q] = batch[q] /\ marked'[q] = marked[q]
           Same(r) == UNCHANGED <<kind, org, batch>> /\ Others(r)
<1>1. ASSUME UNCHANGED <<pc, kind, org, batch, marked>> PROVE LocksExclusive'
  BY <1>1 DEF LocksExclusive, FilesHeld, HoldsOrg, WritesOrg, Bytes
<1>2. ASSUME NEW r \in Request, Others(r),
             \/ pc'[r] \in {"insert", "done", "failed"}
             \/ pc'[r] = "mark" /\ marked'[r] = {}
      PROVE  LocksExclusive'
  <2>1. FilesHeld(r)' = {} /\ ~HoldsOrg(r)'
    BY <1>2 DEF FilesHeld, HoldsOrg
  <2>2. QED
    BY <1>2, <2>1, LocksGrow
<1>3. ASSUME NEW r \in Request, StartConfirm(r) \/ StartDelete(r) PROVE LocksExclusive'
  BY <1>2, <1>3 DEF StartConfirm, StartDelete, MarkInv
<1>4. ASSUME NEW r \in Request,
             \/ RejectConfirm(r) \/ CommitConfirm(r) \/ CommitDelete(r) \/ Abort(r)
             \/ AbortDeadlocked(r) \/ \E k \in Key : CopyFails(r, k)
      PROVE  LocksExclusive'
  BY <1>2, <1>4 DEF RejectConfirm, CommitConfirm, CommitDelete, Abort, AbortDeadlocked,
       CopyFails
<1>5. ASSUME NEW r \in Request, InsertRecords(r) PROVE LocksExclusive'
  <2>1. kind[r] = "confirm" /\ pc'[r] = "read" /\ Same(r)
    BY <1>5 DEF InsertRecords, AccountingInv, BatchesFitKind
  <2>2. FilesHeld(r)' = {} /\ ~HoldsOrg(r)'
    BY <2>1 DEF FilesHeld, HoldsOrg
  <2>3. QED
    BY <2>1, <2>2, LocksGrow
<1>6. ASSUME NEW r \in Request, NEW f \in FileId, MarkFile(r, f) PROVE LocksExclusive'
  <2>1. /\ pc[r] = "mark" /\ pc'[r] = "mark" /\ Same(r)
        /\ marked'[r] = marked[r] \cup {f} /\ ~FileLocked(f)
    BY <1>6 DEF MarkFile
  <2>2. FilesHeld(r)' = FilesHeld(r) \cup {f} /\ ~HoldsOrg(r)'
    BY <2>1 DEF FilesHeld, HoldsOrg
  <2>3. QED
    BY <2>1, <2>2, LocksGrow
<1>7. ASSUME NEW r \in Request, MarkDeleted(r) PROVE LocksExclusive'
  <2>1. /\ pc[r] = "mark" /\ pc'[r] = "tag" /\ Same(r) /\ marked[r] = batch[r]
        /\ kind[r] = "delete"
    BY <1>7 DEF MarkDeleted, MarkInv
  <2>2. FilesHeld(r)' = FilesHeld(r) /\ ~HoldsOrg(r)'
    BY <2>1 DEF FilesHeld, HoldsOrg
  <2>3. QED
    BY <2>1, <2>2, LocksGrow
<1>8. ASSUME NEW r \in Request, TagsSettled(r) PROVE LocksExclusive'
  <2>1. pc[r] = "tag" /\ pc'[r] = (IF WritesOrg(r) THEN "read" ELSE "commit") /\ Same(r)
    BY <1>8 DEF TagsSettled
  <2>2. FilesHeld(r)' = FilesHeld(r) /\ (WritesOrg(r)' <=> WritesOrg(r))
    BY <2>1 DEF FilesHeld, WritesOrg, Bytes
  <2>3. ~HoldsOrg(r)'
    BY <2>1, <2>2 DEF HoldsOrg
  <2>4. QED
    BY <2>1, <2>2, <2>3, LocksGrow
<1>9. ASSUME NEW r \in Request, ReadUsedStorage(r) PROVE LocksExclusive'
  <2>1. pc[r] = "read" /\ pc'[r] = "write" /\ Same(r)
    BY <1>9 DEF ReadUsedStorage
  <2>2. FilesHeld(r)' = FilesHeld(r) /\ ~HoldsOrg(r)'
    BY <2>1 DEF FilesHeld, HoldsOrg
  <2>3. QED
    BY <2>1, <2>2, LocksGrow
<1>10. ASSUME NEW r \in Request, WriteUsedStorage(r) PROVE LocksExclusive'
  <2>1. /\ pc[r] = "write" /\ pc'[r] \in {"copy", "commit"} /\ Same(r)
        /\ ~OrgLocked(org[r])
    BY <1>10 DEF WriteUsedStorage
  <2>2. FilesHeld(r)' \subseteq FilesHeld(r)
    BY <2>1 DEF FilesHeld
  <2>3. QED
    BY <2>1, <2>2, LocksGrow
<1>11. ASSUME NEW r \in Request, NEW k \in Key,
              CopyObject(r, k) \/ TagObject(r, k) \/ TagFails(r, k)
       PROVE  LocksExclusive'
  BY <1>1, <1>11 DEF CopyObject, TagObject, TagFails
<1>12. CASE (\E k \in Key : Upload(k) \/ ExpireObject(k)) \/ Finished \/ UNCHANGED vars
  BY <1>1, <1>12 DEF Upload, ExpireObject, Finished, vars
<1>13. QED
  BY <1>3, <1>4, <1>5, <1>6, <1>7, <1>8, <1>9, <1>10, <1>11, <1>12 DEF Next, Server

LEMMA LocksInvariants == Spec => [](TypeOK /\ MarkInv /\ LocksExclusive)
<1>1. Init => TypeOK /\ AccountingInv /\ StoredInv /\ MarkInv /\ LocksExclusive
  BY InitTypeOK, InitAccounting, InitStored, InitLocks
<1>2. TypeOK /\ AccountingInv /\ StoredInv /\ MarkInv /\ LocksExclusive /\ [Next]_vars
      => (TypeOK /\ AccountingInv /\ StoredInv /\ MarkInv /\ LocksExclusive)'
  BY NextTypeOK, NextAccounting, NextCallsFitKind, NextTagsAreRequested,
     NextCopiesPrecedeCommit, NextActiveFilesStored, NextMark, NextLocks DEF StoredInv
<1>3. QED
  BY <1>1, <1>2, PTL DEF Spec

\* Between its UPDATE of an organization and its commit a request is the only
\* one there, and so it is from marking a file to committing: updates are lost
\* before the lock is taken, never under it (updateUsedStorage).
THEOREM RowLocksExclusive == Spec => []LocksExclusive
BY LocksInvariants, PTL

-----------------------------------------------------------------------------

\* Who waits is running, and for another running request.
LEMMA WaitersRun ==
    ASSUME TypeOK, NEW r \in Request, NEW q \in Request, WaitsFor(r, q)
    PROVE  r \in Running /\ q \in Running \ {r}
BY DEF TypeOK, WaitsFor, FilesHeld, HoldsOrg, Running, Ended

Waits(r) == \E q \in Request : WaitsFor(r, q)

\* Requests each of which waits for another one of them.
AllWait(S) == \A d \in S : \E e \in S \ {d} : WaitsFor(d, e)

\* When every running request waits, some of them wait for each other: a
\* smallest set of requests that wait within the set is a deadlock.
LEMMA StandstillIsDeadlock ==
    ASSUME TypeOK, IsFiniteSet(Request), Running # {}, \A r \in Running : Waits(r)
    PROVE  \E circle \in SUBSET Running : circle # {} /\ Deadlock(circle)
<1> DEFINE T == {S \in SUBSET Running : S # {} /\ AllWait(S)}
           R == StrictSubsetOrdering(Request)
<1>1. AllWait(Running)
  BY WaitersRun DEF AllWait, Waits, Running
<1>2. IsWellFoundedOn(R, SUBSET Request)
  BY FS_FiniteSubsetsOfFinite, FS_StrictSubsetOrderingWellFounded
<1>3. T \subseteq SUBSET Request /\ T # {}
  <2>1. Running \in T
    BY <1>1
  <2>2. QED
    BY <2>1 DEF Running
<1>4. PICK C \in T : \A D \in T : ~(<<D, C>> \in R)
  <2> HIDE DEF T, R
  <2>1. QED
    BY <1>2, <1>3, WFMin
<1>5. ASSUME NEW e \in C PROVE \E d \in C \ {e} : WaitsFor(d, e)
  <2> SUFFICES ASSUME \A d \in C \ {e} : ~WaitsFor(d, e) PROVE FALSE
    OBVIOUS
  <2>1. AllWait(C)
    OBVIOUS
  <2>2. AllWait(C \ {e})
    BY <2>1 DEF AllWait
  <2>3. C \ {e} # {}
    BY <2>1 DEF AllWait
  <2>4. C \ {e} \in T
    BY <2>2, <2>3
  <2>5. <<C \ {e}, C>> \in R
    BY DEF StrictSubsetOrdering, Running
  <2>6. QED
    BY <1>4, <2>4, <2>5
<1>6. C \in SUBSET Running /\ C # {} /\ AllWait(C)
  OBVIOUS
<1>7. QED
  BY <1>5, <1>6 DEF Deadlock, AllWait

\* Of the running requests one waits for nobody, or is in a deadlock that
\* Postgres breaks.
SomebodyGoesOn ==
    Running # {} =>
        \E r \in Running :
            \/ ~Waits(r)
            \/ \E circle \in SUBSET Running : r \in circle /\ Deadlock(circle)

\* However many confirmations and deletions overlap, they never all wait for
\* each other for ever: a circle of deletions, whose UPDATEs lock overlapping
\* batches in different orders, is the worst, and Postgres aborts one of them.
THEOREM NobodyStuck == IsFiniteSet(Request) => (Spec => []SomebodyGoesOn)
<1> SUFFICES ASSUME IsFiniteSet(Request) PROVE Spec => []SomebodyGoesOn
  OBVIOUS
<1>1. TypeOK => SomebodyGoesOn
  BY StandstillIsDeadlock DEF SomebodyGoesOn
<1>2. QED
  BY <1>1, TypeCorrect, PTL

\* Whom Postgres aborts is a deletion in the middle of its UPDATE, and so are
\* those it waited for: none of them has locked an organization's row or sent
\* a call to S3 that would outlive the rollback.
VictimsMark ==
    \A r \in Request, circle \in SUBSET Running :
        AbortDeadlocked(r) /\ r \in circle /\ Deadlock(circle) =>
            \A q \in circle : /\ kind[q] = "delete" /\ pc[q] = "mark"
                              /\ ~HoldsOrg(q) /\ inFlight[q] = {}

\* Deadlocks are about file rows alone (softDeleteFiles): files come before the
\* organization, so that neither a confirmation nor a deletion past its UPDATE
\* is ever in one.
THEOREM OnlyMarkingAborted == Spec => [][VictimsMark]_vars
<1>1. TypeOK /\ MarkInv => VictimsMark
  <2> SUFFICES ASSUME TypeOK, MarkInv, NEW circle \in SUBSET Running, Deadlock(circle),
                      NEW q \in circle
               PROVE  /\ kind[q] = "delete" /\ pc[q] = "mark"
                      /\ ~HoldsOrg(q) /\ inFlight[q] = {}
    BY DEF VictimsMark
  <2>1. \A d \in circle : d \in Request /\ pc[d] \in {"mark", "write"}
    BY DEF Deadlock, WaitsFor, Running
  <2>2. \A d \in circle : ~HoldsOrg(d)
    BY <2>1 DEF HoldsOrg
  <2>3. PICK e \in circle : WaitsFor(q, e)
    BY DEF Deadlock
  <2>4. pc[q] = "mark"
    BY <2>2, <2>3 DEF WaitsFor
  <2>5. QED
    BY <2>1, <2>2, <2>4 DEF MarkInv
<1>2. QED
  BY <1>1, LocksInvariants, PTL

=============================================================================

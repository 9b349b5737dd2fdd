----------------------- MODULE ResumePipelineProofs -----------------------
(***************************************************************************)
(* Proofs about ResumePipeline for every number of resumes, requests,      *)
(* consumers and faults, and every assignment of keys and addresses.       *)
(***************************************************************************)
EXTENDS ResumePipeline, TLAPS

\* The initial state has the right types.
LEMMA InitTypeOK == Init => TypeOK
BY ResumeAssumption DEF Init, TypeOK, MessageState, Stages

\* Every step keeps the types: one case per action.
LEMMA NextTypeOK == TypeOK /\ [Next]_vars => TypeOK'
<1> SUFFICES ASSUME TypeOK, [Next]_vars PROVE TypeOK'
  OBVIOUS
<1> USE DEF TypeOK, Goto, candidates, files, storage, history, MessageState, Stages,
            Published, Received, Returned, Deleted
<1>1. ASSUME NEW c \in Resume, InsertCandidate(c) PROVE TypeOK'
  BY <1>1 DEF InsertCandidate, Column
<1>2. ASSUME NEW c \in Resume, PublishMessage(c) PROVE TypeOK'
  BY <1>2 DEF PublishMessage
<1>3. ASSUME NEW c \in Resume, Reappear(c) PROVE TypeOK'
  BY <1>3 DEF Reappear
<1>4. ASSUME NEW c \in Resume, RemoveCandidate(c) PROVE TypeOK'
  BY <1>4 DEF RemoveCandidate
<1>5. ASSUME NEW c \in Resume, NEW dto \in Changes(c), EditCandidate(c, dto)
      PROVE  TypeOK'
  <2>1. dto.status \in Column /\ dto.email \in Email \cup {Placeholder}
    BY ResumeAssumption DEF Changes
  <2>2. QED
    BY <1>5, <2>1 DEF EditCandidate
<1>6. ASSUME NEW q \in Request, IntakeFails(q) PROVE TypeOK'
  BY <1>6, ResumeAssumption DEF IntakeFails
<1>7. ASSUME NEW w \in Worker, NEW S \in SUBSET Resume, Receive(w, S) PROVE TypeOK'
  BY <1>7 DEF Receive
<1>8. ASSUME NEW w \in Worker, NEW c \in Resume,
             \/ ExtractText(w, c) \/ ExtractCandidateInfo(w, c)
             \/ Reject(w, c) \/ FindCandidate(w, c)
      PROVE  TypeOK'
  <2>1. /\ UNCHANGED <<candidates, message, broken, files, faults>>
        /\ \E to \in Stages : stage' = [stage EXCEPT ![w][c] = to]
    BY <1>8 DEF ExtractText, ExtractCandidateInfo, Reject, FindCandidate
  <2>2. QED
    BY <2>1
<1>9. ASSUME NEW w \in Worker, NEW c \in Resume, CopyLands(w, c) PROVE TypeOK'
  BY <1>9, ResumeAssumption DEF CopyLands
<1>10. ASSUME NEW w \in Worker, NEW c \in Resume, ConfirmCommits(w, c) PROVE TypeOK'
  BY <1>10, ResumeAssumption DEF ConfirmCommits
<1>11. ASSUME NEW w \in Worker, NEW c \in Resume, UpdateCandidate(w, c) PROVE TypeOK'
  BY <1>11, ResumeAssumption DEF UpdateCandidate, Column
<1>12. ASSUME NEW w \in Worker, NEW c \in Resume, DeleteMessage(w, c) PROVE TypeOK'
  BY <1>12 DEF DeleteMessage
<1>13. ASSUME NEW w \in Worker, NEW C \in SUBSET Resume, Abandon(w, C) PROVE TypeOK'
  <2>1. KeysAt(w, C, "confirm") \subseteq Key /\ KeysAt(w, C, "commit") \subseteq Key
    BY ResumeAssumption DEF KeysAt
  <2>2. permanent' \subseteq Key /\ tagged' \subseteq Key /\ orphaned' \subseteq Key
    BY <1>13, <2>1 DEF Abandon
  <2>3. QED
    BY <1>13, <2>2, ResumeAssumption DEF Abandon
<1>14. ASSUME NEW k \in Key, DeleteFile(k) \/ DeletionFails(k) \/ ExpireObject(k)
       PROVE  TypeOK'
  BY <1>14, ResumeAssumption DEF DeleteFile, DeletionFails, ExpireObject
<1>15. /\ \A dto \in Form : CreateCandidate(dto) => TypeOK'
       /\ \A e \in FormEmail : ChangeEntered(e) => TypeOK'
  BY DEF Form, CreateCandidate, ChangeEntered
<1>16. CASE UNCHANGED vars
  BY <1>16 DEF vars
<1>17. ASSUME NEW w \in Worker, NEW c \in Resume, HeadObject(w, c) PROVE TypeOK'
  <2>1. /\ UNCHANGED <<candidates, message, broken, storage, deletions, dropped,
                       orphaned, faults>>
        /\ raced' = raced \/ raced' = raced \cup {KeyOf[c]}
        /\ \E to \in Stages : stage' = [stage EXCEPT ![w][c] = to]
    BY <1>17 DEF HeadObject, StartConfirming
  <2>2. QED
    BY <2>1, ResumeAssumption
<1>18. QED
  BY <1>1, <1>2, <1>3, <1>4, <1>5, <1>6, <1>7, <1>8, <1>9, <1>10, <1>11, <1>12,
     <1>13, <1>14, <1>15, <1>16, <1>17 DEF Next, Process, CallFails, Restart

\* Type correctness of the whole specification.
THEOREM PipelineTypeCorrect == Spec => []TypeOK
BY InitTypeOK, NextTypeOK, PTL DEF Spec

-----------------------------------------------------------------------------

\* Nothing is queued, parsed or under way at the start.
LEMMA InitPipeline == Init => PipelineInv
BY DEF Init, PipelineInv, NoResumeLost

\* Every step keeps the pipeline invariant: one case per action.
LEMMA NextPipeline == TypeOK /\ PipelineInv /\ [Next]_vars => PipelineInv'
<1> SUFFICES ASSUME TypeOK, PipelineInv, [Next]_vars PROVE PipelineInv'
  OBVIOUS
<1> USE DEF TypeOK, PipelineInv, NoResumeLost, Goto,
            candidates, Published, Received, Returned, Deleted
<1>1. ASSUME NEW c \in Resume, InsertCandidate(c) PROVE PipelineInv'
  BY <1>1 DEF InsertCandidate
<1>2. ASSUME NEW c \in Resume, PublishMessage(c) \/ Reappear(c) PROVE PipelineInv'
  BY <1>2 DEF PublishMessage, Reappear
<1>3. ASSUME NEW c \in Resume, RemoveCandidate(c) PROVE PipelineInv'
  BY <1>3 DEF RemoveCandidate, Exists, Column
<1>4. ASSUME NEW c \in Resume, NEW dto \in Changes(c), EditCandidate(c, dto)
      PROVE  PipelineInv'
  BY <1>4 DEF EditCandidate, Changes, Exists, Column
<1>5. ASSUME NEW q \in Request, IntakeFails(q) PROVE PipelineInv'
  BY <1>5 DEF IntakeFails
<1>6. ASSUME NEW w \in Worker, NEW S \in SUBSET Resume, Receive(w, S) PROVE PipelineInv'
  <2>1. \A v \in Worker, c \in Resume :
          stage'[v][c] = stage[v][c] \/ stage'[v][c] \in {"head", "none"}
    BY <1>6 DEF Receive
  <2>2. \A v \in Worker, c \in Resume :
          stage'[v][c] = "head" => c \in S \/ stage[v][c] = "head"
    BY <1>6 DEF Receive
  <2>3. \A c \in Resume : \/ c \in S /\ message[c] = "visible" /\ message'[c] = "hidden"
                          \/ message'[c] = message[c]
    BY <1>6 DEF Receive, Receivable
  <2>4. QED
    BY <1>6, <2>1, <2>2, <2>3 DEF Receive
<1>7. ASSUME NEW w \in Worker, NEW c \in Resume,
             \/ HeadObject(w, c) \/ ExtractText(w, c) \/ ExtractCandidateInfo(w, c)
             \/ Reject(w, c) \/ FindCandidate(w, c)
      PROVE  PipelineInv'
  <2>1. CASE HeadObject(w, c)
    BY <2>1 DEF HeadObject, StartConfirming
  <2>2. CASE ExtractText(w, c) \/ ExtractCandidateInfo(w, c)
    BY <2>2 DEF ExtractText, ExtractCandidateInfo
  <2>3. CASE Reject(w, c)
    BY <2>3 DEF Reject
  <2>4. CASE FindCandidate(w, c)
    BY <2>4 DEF FindCandidate
  <2>5. QED
    BY <1>7, <2>1, <2>2, <2>3, <2>4
<1>8. ASSUME NEW w \in Worker, NEW c \in Resume, CopyLands(w, c) PROVE PipelineInv'
  BY <1>8 DEF CopyLands
<1>9. ASSUME NEW w \in Worker, NEW c \in Resume, ConfirmCommits(w, c) PROVE PipelineInv'
  BY <1>9 DEF ConfirmCommits
<1>10. ASSUME NEW w \in Worker, NEW c \in Resume, UpdateCandidate(w, c) PROVE PipelineInv'
  <2>1. status[c] # "absent"
    BY <1>10 DEF UpdateCandidate
  <2>2. CASE Exists(c)
    BY <1>10, <2>1, <2>2 DEF UpdateCandidate, Exists, Column
  <2>3. CASE ~Exists(c)
    BY <1>10, <2>1, <2>3 DEF UpdateCandidate, Exists
  <2>4. QED
    BY <2>2, <2>3
<1>11. ASSUME NEW w \in Worker, NEW c \in Resume, DeleteMessage(w, c) PROVE PipelineInv'
  BY <1>11 DEF DeleteMessage
<1>12. ASSUME NEW w \in Worker, NEW C \in SUBSET Resume, Abandon(w, C) PROVE PipelineInv'
  BY <1>12 DEF Abandon
<1>13. ASSUME NEW k \in Key, DeleteFile(k) \/ DeletionFails(k) \/ ExpireObject(k)
       PROVE  PipelineInv'
  BY <1>13 DEF DeleteFile, DeletionFails, ExpireObject
<1>14. /\ \A dto \in Form : CreateCandidate(dto) => PipelineInv'
       /\ \A e \in FormEmail : ChangeEntered(e) => PipelineInv'
  BY DEF CreateCandidate, ChangeEntered
<1>15. CASE UNCHANGED vars
  BY <1>15 DEF vars
<1>16. QED
  BY <1>1, <1>2, <1>3, <1>4, <1>5, <1>6, <1>7, <1>8, <1>9, <1>10, <1>11, <1>12,
     <1>13, <1>14, <1>15 DEF Next, Process, CallFails, Restart

\* No resume leaves the queue unparsed (NoResumeLost), for any number of
\* consumers, redeliveries, failures and restarts.
THEOREM NothingLost == Spec => []NoResumeLost
<1>1. Init => TypeOK /\ PipelineInv
  BY InitTypeOK, InitPipeline
<1>2. TypeOK /\ PipelineInv /\ [Next]_vars => TypeOK' /\ PipelineInv'
  BY NextTypeOK, NextPipeline
<1>3. PipelineInv => NoResumeLost
  BY DEF PipelineInv
<1>4. QED
  BY <1>1, <1>2, <1>3, PTL DEF Spec

\* Removed candidates stay removed (RemovedForGood): the placeholder insert
\* happens once per resume, and a late update misses the row.
THEOREM RemovalIsFinal == Spec => RemovedForGood
<1>1. Init => TypeOK /\ PipelineInv
  BY InitTypeOK, InitPipeline
<1>2. TypeOK /\ PipelineInv /\ [Next]_vars => TypeOK' /\ PipelineInv'
  BY NextTypeOK, NextPipeline
<1>3. TypeOK /\ PipelineInv /\ [Next]_vars => [RemovedStay]_vars
  <2> SUFFICES ASSUME TypeOK, PipelineInv, [Next]_vars,
                      NEW c \in Resume, status[c] = "removed"
               PROVE  status'[c] = "removed"
    BY DEF RemovedStay
  <2>1. message[c] # "unborn" /\ ~Exists(c)
    BY DEF PipelineInv, Exists, Column
  <2>2. QED
    BY <2>1 DEF TypeOK, Next, Process, vars, candidates, InsertCandidate,
         PublishMessage, Reappear, RemoveCandidate, EditCandidate, IntakeFails,
         CreateCandidate, ChangeEntered, Receive, HeadObject, StartConfirming, CopyLands,
         ConfirmCommits, ExtractText, ExtractCandidateInfo, Reject, FindCandidate,
         UpdateCandidate, DeleteMessage, CallFails, Restart, Abandon, DeleteFile,
         DeletionFails, ExpireObject
<1>4. QED
  BY <1>1, <1>2, <1>3, PTL DEF Spec, RemovedForGood

-----------------------------------------------------------------------------
(* The pipeline is a reliable queue.                                        *)

Waiting == {c \in Resume : message[c] \in {"visible", "hidden"}}
Settled == parsed \cup {c \in Resume : status[c] = "removed"}
Gone == {c \in Resume : message[c] = "deleted"}

\* What a consumer works on was delivered, so it is in the queue or was.
Delivered ==
    \A w \in Worker, c \in Resume :
        stage[w][c] # "none" => message[c] \in {"visible", "hidden", "deleted"}

LEMMA InitDelivered == Init => Delivered /\ Queue!Init
BY DEF Init, Delivered, Queue!Init, Waiting, Settled, Gone

\* Steps that move no message: whoever is at work stays at what was delivered.
LEMMA SameMessages ==
    ASSUME Delivered, message' = message,
           \A w \in Worker, c \in Resume : stage'[w][c] # "none" => stage[w][c] # "none"
    PROVE  Delivered'
BY DEF Delivered

\* Every step keeps that, and is a step of the queue or no concern of it.
LEMMA QueueStep ==
    ASSUME TypeOK, PipelineInv, Delivered, [Next]_vars
    PROVE  Delivered' /\ [Queue!Next]_<<Waiting, Settled, Gone>>
<1> USE DEF Waiting, Settled, Gone
<1> DEFINE Same == UNCHANGED <<Waiting, Settled, Gone>>
<1>1. ASSUME NEW c \in Resume, InsertCandidate(c) PROVE Delivered' /\ Same
  <2>1. /\ stage' = stage /\ parsed' = parsed
        /\ message[c] = "unborn" /\ message'[c] = "unsent"
        /\ status[c] = "absent" /\ status'[c] = "PROCESSING"
        /\ \A d \in Resume \ {c} : message'[d] = message[d] /\ status'[d] = status[d]
    BY <1>1 DEF InsertCandidate, TypeOK, PipelineInv
  <2>2. QED
    BY <2>1 DEF Delivered
<1>2. ASSUME NEW c \in Resume, PublishMessage(c) PROVE Delivered' /\ Queue!Publish(c)
  <2>1. /\ UNCHANGED <<stage, parsed, status>>
        /\ message[c] = "unsent" /\ message'[c] = "visible"
        /\ \A d \in Resume \ {c} : message'[d] = message[d]
    BY <1>2 DEF PublishMessage, Published, TypeOK, candidates
  <2>2. QED
    BY <2>1 DEF Delivered, Queue!Publish
<1>3. ASSUME NEW q \in Request, IntakeFails(q) PROVE Delivered' /\ Same
  <2>1. /\ UNCHANGED <<stage, parsed, status>>
        /\ \A d \in Resume : \/ message'[d] = message[d]
                             \/ message[d] = "unsent" /\ message'[d] = "lost"
    BY <1>3 DEF IntakeFails, TypeOK, candidates
  <2>2. QED
    BY <2>1 DEF Delivered
<1>4. ASSUME NEW c \in Resume, Reappear(c) PROVE Delivered' /\ Same
  <2>1. /\ UNCHANGED <<stage, parsed, status>>
        /\ message[c] = "hidden" /\ message'[c] = "visible"
        /\ \A d \in Resume \ {c} : message'[d] = message[d]
    BY <1>4 DEF Reappear, Returned, TypeOK, candidates
  <2>2. QED
    BY <2>1 DEF Delivered
<1>5. ASSUME NEW w \in Worker, NEW S \in SUBSET Resume, Receive(w, S)
      PROVE  Delivered' /\ Same
  <2>1. /\ UNCHANGED <<parsed, status>>
        /\ \A c \in Resume : IF c \in S THEN message[c] = "visible" /\ message'[c] = "hidden"
                             ELSE message'[c] = message[c]
        /\ \A v \in Worker, c \in Resume :
              stage'[v][c] # "none" => c \in S \/ stage[v][c] # "none"
    BY <1>5 DEF Receive, Receivable, Received, TypeOK, candidates
  <2>2. QED
    BY <2>1 DEF Delivered
<1>6. ASSUME NEW c \in Resume, RemoveCandidate(c) PROVE Delivered' /\ Queue!Settle(c)
  BY <1>6, SameMessages DEF RemoveCandidate, TypeOK, Queue!Settle
<1>7. ASSUME NEW c \in Resume, NEW dto \in Changes(c), EditCandidate(c, dto)
      PROVE  Delivered' /\ Same
  <2>1. /\ UNCHANGED <<message, stage, parsed>>
        /\ \A d \in Resume : status'[d] = "removed" <=> status[d] = "removed"
    BY <1>7 DEF EditCandidate, Changes, Exists, Column, TypeOK
  <2>2. QED
    BY <2>1, SameMessages
<1>8. ASSUME \/ \E dto \in Form : CreateCandidate(dto)
             \/ \E e \in FormEmail : ChangeEntered(e)
             \/ \E k \in Key : DeleteFile(k) \/ DeletionFails(k) \/ ExpireObject(k)
             \/ UNCHANGED vars
      PROVE  Delivered' /\ Same
  <2>1. UNCHANGED <<message, stage, parsed, status>>
    BY <1>8 DEF CreateCandidate, ChangeEntered, DeleteFile, DeletionFails, ExpireObject,
         vars, candidates
  <2>2. QED
    BY <2>1, SameMessages
<1>9. ASSUME NEW w \in Worker, NEW c \in Resume, UpdateCandidate(w, c)
      PROVE  Delivered' /\ (Same \/ Queue!Settle(c))
  <2>1. /\ message' = message
        /\ \A v \in Worker, d \in Resume : stage'[v][d] # "none" => stage[v][d] # "none"
    BY <1>9 DEF UpdateCandidate, Goto, TypeOK
  <2>2. CASE Exists(c)
    <3>1. /\ parsed' = parsed \cup {c}
          /\ \A d \in Resume : status'[d] = "removed" <=> status[d] = "removed"
      BY <1>9, <2>2 DEF UpdateCandidate, Exists, Column, TypeOK
    <3>2. QED
      BY <2>1, <3>1, SameMessages DEF Queue!Settle
  <2>3. CASE ~Exists(c)
    BY <1>9, <2>1, <2>3, SameMessages DEF UpdateCandidate
  <2>4. QED
    BY <2>2, <2>3
<1>10. ASSUME NEW w \in Worker, NEW c \in Resume, DeleteMessage(w, c)
       PROVE  Delivered' /\ (Same \/ Queue!Delete(c))
  <2>1. /\ UNCHANGED <<parsed, status>>
        /\ stage[w][c] = "delete" /\ message'[c] = "deleted"
        /\ \A d \in Resume \ {c} : message'[d] = message[d]
        /\ \A v \in Worker, d \in Resume : stage'[v][d] # "none" => stage[v][d] # "none"
    BY <1>10 DEF DeleteMessage, Goto, Deleted, TypeOK, candidates
  <2>2. message[c] \in {"visible", "hidden", "deleted"} /\ c \in Settled
    BY <2>1 DEF Delivered, PipelineInv
  <2>3. Delivered'
    BY <2>1 DEF Delivered
  <2>4. CASE message[c] = "deleted"
    BY <2>1, <2>3, <2>4
  <2>5. CASE message[c] # "deleted"
    BY <2>1, <2>2, <2>3, <2>5 DEF Queue!Delete
  <2>6. QED
    BY <2>4, <2>5
<1>11. ASSUME NEW w \in Worker, NEW c \in Resume,
              \/ HeadObject(w, c) \/ CopyLands(w, c) \/ ConfirmCommits(w, c)
              \/ ExtractText(w, c) \/ ExtractCandidateInfo(w, c) \/ Reject(w, c)
              \/ FindCandidate(w, c)
       PROVE  Delivered' /\ Same
  <2>1. /\ UNCHANGED <<message, parsed, status>>
        /\ \A v \in Worker, d \in Resume : stage'[v][d] # "none" => stage[v][d] # "none"
    BY <1>11 DEF HeadObject, StartConfirming, CopyLands, ConfirmCommits, ExtractText,
         ExtractCandidateInfo, Reject, FindCandidate, Goto, TypeOK, candidates
  <2>2. QED
    BY <2>1, SameMessages
<1>12. ASSUME NEW w \in Worker, NEW C \in SUBSET Resume, Abandon(w, C)
       PROVE  Delivered' /\ Same
  <2>1. /\ UNCHANGED <<message, parsed, status>>
        /\ \A v \in Worker, d \in Resume : stage'[v][d] # "none" => stage[v][d] # "none"
    BY <1>12 DEF Abandon, TypeOK, candidates
  <2>2. QED
    BY <2>1, SameMessages
<1> HIDE DEF Waiting, Settled, Gone
<1>13. \A c \in Resume :
          Queue!Publish(c) \/ Queue!Settle(c) \/ Queue!Delete(c) => Queue!Next
  BY DEF Queue!Next
<1>14. QED
  BY <1>1, <1>2, <1>3, <1>4, <1>5, <1>6, <1>7, <1>8, <1>9, <1>10, <1>11, <1>12, <1>13
     DEF Next, Process, CallFails, Restart

\* The intake and its consumers implement the reliable queue (ImplementsQueue):
\* crashed, late and repeated deliveries neither lose a resume nor bring its
\* message back.
THEOREM QueueImplemented == Spec => ImplementsQueue
<1>1. Init => TypeOK /\ PipelineInv /\ Delivered /\ Queue!Init
  BY InitTypeOK, InitPipeline, InitDelivered
<1>2. TypeOK /\ PipelineInv /\ Delivered /\ [Next]_vars
      => /\ TypeOK' /\ PipelineInv' /\ Delivered'
         /\ [Queue!Next]_<<{c \in Resume : message[c] \in {"visible", "hidden"}},
                           parsed \cup {c \in Resume : status[c] = "removed"},
                           {c \in Resume : message[c] = "deleted"}>>
  BY NextTypeOK, NextPipeline, QueueStep DEF Waiting, Settled, Gone
<1>3. QED
  BY <1>1, <1>2, PTL DEF Spec, ImplementsQueue, Queue!Spec, Queue!vars

-----------------------------------------------------------------------------
(* File rows and stored objects.                                            *)

Past == {"text", "claude", "find", "update", "delete"}

\* Unless two of them ran at once, the only confirmation of an object finds no
\* row of it, and its own copy in place and untagged when it commits.
ConfirmInv ==
    /\ OneRecordPerKey
    /\ \A v, w \in Worker, c, d \in Resume :
          (/\ KeyOf[c] = KeyOf[d] /\ KeyOf[c] \notin raced
           /\ Confirming(v, c) /\ Confirming(w, d)) => v = w /\ c = d
    /\ \A k \in Key \ (raced \cup dropped) : records[k] >= 1 => k \in permanent
    /\ \A w \in Worker, c \in Resume : KeyOf[c] \notin raced \cup dropped =>
          /\ Confirming(w, c) => records[KeyOf[c]] = 0
          /\ stage[w][c] = "commit" => KeyOf[c] \in permanent \ tagged

\* What is stored, parsed or past its confirmation is listed.
ListedInv ==
    \A c \in Resume :
        (\/ KeyOf[c] \in permanent \/ c \in parsed
         \/ \E w \in Worker : stage[w][c] \in Past) => Listed(KeyOf[c])

\* Nothing is stored, recorded or under way at the start.
LEMMA InitFiles == Init => ConfirmInv /\ ListedInv
BY ResumeAssumption
   DEF Init, ConfirmInv, ListedInv, OneRecordPerKey, Confirming, Past

\* A step that touches no file, takes up no confirmation and ends none.
LEMMA QuietFiles ==
    ASSUME ConfirmInv, ListedInv, UNCHANGED files,
           \A c \in parsed' \ parsed : \E w \in Worker : stage[w][c] = "update",
           \A w \in Worker, c \in Resume :
              \/ stage'[w][c] = stage[w][c]
              \/ stage[w][c] # "commit" /\ stage'[w][c] \in {"none", "head"}
              \/ stage[w][c] \in Past /\ stage'[w][c] \in Past
    PROVE  ConfirmInv' /\ ListedInv'
<1>1. ConfirmInv'
  BY DEF ConfirmInv, OneRecordPerKey, Confirming, Past, files, storage, history
<1>2. \A k \in Key : Listed(k) => Listed(k)'
  BY DEF Listed, Past, files, storage, history
<1>3. ListedInv'
  <2> SUFFICES ASSUME NEW c \in Resume,
                      \/ KeyOf[c] \in permanent' \/ c \in parsed'
                      \/ \E w \in Worker : stage'[w][c] \in Past
               PROVE  Listed(KeyOf[c])'
    BY DEF ListedInv
  <2>1. \/ KeyOf[c] \in permanent \/ c \in parsed
        \/ \E w \in Worker : stage[w][c] \in Past
    BY DEF Past, files, storage
  <2>2. QED
    BY <1>2, <2>1, ResumeAssumption DEF ListedInv
<1>4. QED
  BY <1>1, <1>3

\* What every step with one resume does to the stages.
LEMMA OneStage ==
    ASSUME TypeOK, NEW w \in Worker, NEW c \in Resume, NEW to \in Stages,
           stage' = [stage EXCEPT ![w][c] = to]
    PROVE  /\ stage'[w][c] = to
           /\ \A v \in Worker, d \in Resume :
                 stage'[v][d] = stage[v][d] \/ (v = w /\ d = c)
BY DEF TypeOK

\* Listed files stay listed: only a deletion takes a row away, and only a
\* confirmation that commits takes a key off the orphaned ones.
LEMMA StayListed ==
    ASSUME TypeOK, NEW k \in Key, Listed(k),
           records'[k] >= 1 \/ records'[k] = records[k] \/ deletions'[k] > 0,
           deletions[k] > 0 => deletions'[k] > 0,
           k \in orphaned => k \in orphaned' \/ records'[k] >= 1,
           \A w \in Worker, c \in Resume : KeyOf[c] = k /\ stage[w][c] = "commit" =>
              stage'[w][c] = "commit" \/ k \in orphaned' \/ records'[k] >= 1
    PROVE  Listed(k)'
BY DEF TypeOK, Listed

\* Every step keeps both: one case per action that touches files.
LEMMA NextFiles ==
    ASSUME TypeOK, ConfirmInv, ListedInv, [Next]_vars
    PROVE  ConfirmInv' /\ ListedInv'
<1> DEFINE Inv == ConfirmInv /\ ListedInv
<1>0. /\ \A c \in Resume : KeyOf[c] \in Key
      /\ \A k \in Key : records[k] \in Nat /\ deletions[k] \in Nat
  BY ResumeAssumption DEF TypeOK
<1>1. ASSUME \/ \E c \in Resume :
                   \/ InsertCandidate(c) \/ PublishMessage(c) \/ Reappear(c)
                   \/ RemoveCandidate(c) \/ \E dto \in Changes(c) : EditCandidate(c, dto)
             \/ \E q \in Request : IntakeFails(q)
             \/ \E dto \in Form : CreateCandidate(dto)
             \/ \E e \in FormEmail : ChangeEntered(e)
             \/ UNCHANGED vars
      PROVE  Inv'
  <2>1. UNCHANGED <<stage, parsed, files>>
    BY <1>1 DEF InsertCandidate, PublishMessage, Reappear, RemoveCandidate,
         EditCandidate, IntakeFails, CreateCandidate, ChangeEntered, vars, candidates
  <2>2. QED
    BY <2>1, QuietFiles
<1>2. ASSUME NEW w \in Worker, NEW S \in SUBSET Resume, Receive(w, S) PROVE Inv'
  <2>1. /\ UNCHANGED <<parsed, files>>
        /\ \A v \in Worker, c \in Resume :
              \/ stage'[v][c] = stage[v][c]
              \/ stage[v][c] # "commit" /\ stage'[v][c] \in {"none", "head"}
    BY <1>2 DEF TypeOK, Receive, Idle, candidates
  <2>2. QED
    BY <2>1, QuietFiles
<1>3. ASSUME NEW w \in Worker, NEW c \in Resume,
             \/ ExtractText(w, c) \/ ExtractCandidateInfo(w, c) \/ Reject(w, c)
             \/ FindCandidate(w, c) \/ UpdateCandidate(w, c) \/ DeleteMessage(w, c)
      PROVE  Inv'
  <2>1. /\ UNCHANGED files
        /\ parsed' = parsed \/ (stage[w][c] = "update" /\ parsed' = parsed \cup {c})
        /\ stage[w][c] \in Past
        /\ \E to \in Past \cup {"none"} : stage' = [stage EXCEPT ![w][c] = to]
    BY <1>3 DEF ExtractText, ExtractCandidateInfo, Reject, FindCandidate,
         UpdateCandidate, DeleteMessage, Goto, candidates, Past
  <2>2. \A v \in Worker, d \in Resume :
           \/ stage'[v][d] = stage[v][d]
           \/ stage[v][d] # "commit" /\ stage'[v][d] \in {"none", "head"}
           \/ stage[v][d] \in Past /\ stage'[v][d] \in Past
    BY <2>1 DEF TypeOK, Past
  <2>3. QED
    BY <2>1, <2>2, QuietFiles
<1>4. ASSUME NEW w \in Worker, NEW c \in Resume, HeadObject(w, c), KeyOf[c] \in permanent
      PROVE  Inv'
  <2>1. /\ UNCHANGED <<files, storage, history, parsed>> /\ stage[w][c] = "head"
        /\ UNCHANGED <<permanent, tagged, records, raced, deletions, dropped, orphaned>>
        /\ stage'[w][c] = "text"
        /\ \A v \in Worker, d \in Resume :
              stage'[v][d] = stage[v][d] \/ (v = w /\ d = c)
    BY <1>4, OneStage DEF HeadObject, InPermanentBucket, Goto, candidates, files, storage, history, Stages
  <2>2. ConfirmInv'
    BY <2>1 DEF ConfirmInv, OneRecordPerKey, Confirming
  <2>3. \A k \in Key : Listed(k) => Listed(k)'
    BY <1>0, <2>1, StayListed
  <2>4. Listed(KeyOf[c])'
    BY <1>0, <1>4, <2>3 DEF ListedInv
  <2>5. ListedInv'
    BY <1>0, <2>1, <2>3, <2>4 DEF ListedInv
  <2>6. QED
    BY <2>2, <2>5
<1>5. ASSUME NEW w \in Worker, NEW c \in Resume, HeadObject(w, c), KeyOf[c] \notin permanent
      PROVE  Inv'
  <2>1. /\ UNCHANGED <<permanent, tagged, records, deletions, dropped, orphaned, parsed>>
        /\ stage[w][c] = "head" /\ stage'[w][c] = "confirm"
        /\ \A v \in Worker, d \in Resume :
              stage'[v][d] = stage[v][d] \/ (v = w /\ d = c)
    BY <1>5, OneStage DEF HeadObject, InPermanentBucket, StartConfirming, Goto, candidates, storage, Stages
  <2>2. /\ raced \subseteq raced' /\ raced' \subseteq raced \cup {KeyOf[c]}
        /\ \A v \in Worker, d \in Resume :
              KeyOf[d] = KeyOf[c] /\ Confirming(v, d) => KeyOf[c] \in raced'
    BY <1>5 DEF HeadObject, InPermanentBucket, StartConfirming
  <2>3. ConfirmInv'
    <3>1. OneRecordPerKey'
      BY <2>1, <2>2 DEF ConfirmInv, OneRecordPerKey
    <3>2. \A v, u \in Worker, e, d \in Resume :
             (/\ KeyOf[e] = KeyOf[d] /\ KeyOf[e] \notin raced'
              /\ Confirming(v, e)' /\ Confirming(u, d)') => v = u /\ e = d
      BY <2>1, <2>2 DEF ConfirmInv, Confirming
    <3>3. \A v \in Worker, d \in Resume : KeyOf[d] \notin raced' \cup dropped' =>
             /\ Confirming(v, d)' => records'[KeyOf[d]] = 0
             /\ stage'[v][d] = "commit" => KeyOf[d] \in permanent' \ tagged'
      <4>1. KeyOf[c] \notin raced' \cup dropped' => records[KeyOf[c]] = 0
        BY <1>0, <1>5, <2>1, <2>2 DEF ConfirmInv
      <4>2. QED
        BY <2>1, <2>2, <4>1 DEF ConfirmInv, Confirming
    <3>4. \A k \in Key \ (raced' \cup dropped') : records'[k] >= 1 => k \in permanent'
      BY <2>1, <2>2 DEF ConfirmInv
    <3>5. QED
      BY <3>1, <3>2, <3>3, <3>4 DEF ConfirmInv, Confirming
  <2>4. \A k \in Key : Listed(k) => Listed(k)'
    BY <1>0, <2>1, StayListed
  <2>5. ListedInv'
    BY <1>0, <2>1, <2>4 DEF ListedInv, Past
  <2>6. QED
    BY <2>3, <2>5
<1>6. ASSUME NEW w \in Worker, NEW c \in Resume, CopyLands(w, c) PROVE Inv'
  <2>1. /\ UNCHANGED <<records, raced, deletions, dropped, orphaned, parsed>>
        /\ permanent' = permanent \cup {KeyOf[c]} /\ tagged' = tagged \ {KeyOf[c]}
        /\ stage[w][c] = "confirm" /\ stage'[w][c] = "commit"
        /\ \A v \in Worker, d \in Resume :
              stage'[v][d] = stage[v][d] \/ (v = w /\ d = c)
    BY <1>6, OneStage DEF CopyLands, Goto, candidates, history, Stages
  <2>2. ConfirmInv'
    BY <2>1 DEF ConfirmInv, OneRecordPerKey, Confirming
  <2>3. \A k \in Key : Listed(k) => Listed(k)'
    BY <1>0, <2>1, StayListed
  <2>4. Listed(KeyOf[c])'
    BY <2>1 DEF Listed
  <2>5. ListedInv'
    BY <1>0, <2>1, <2>3, <2>4 DEF ListedInv, Past
  <2>6. QED
    BY <2>2, <2>5
<1>7. ASSUME NEW w \in Worker, NEW c \in Resume, ConfirmCommits(w, c) PROVE Inv'
  <2>1. /\ UNCHANGED <<permanent, tagged, raced, deletions, dropped, parsed>>
        /\ orphaned' = orphaned \ {KeyOf[c]}
        /\ stage[w][c] = "commit" /\ stage'[w][c] = "text"
        /\ \A v \in Worker, d \in Resume :
              stage'[v][d] = stage[v][d] \/ (v = w /\ d = c)
    BY <1>7, OneStage DEF ConfirmCommits, Goto, candidates, Stages
  <2>2. /\ records'[KeyOf[c]] = records[KeyOf[c]] + 1
        /\ \A k \in Key \ {KeyOf[c]} : records'[k] = records[k]
    BY <1>0, <1>7 DEF TypeOK, ConfirmCommits
  <2>3. ConfirmInv'
    <3>1. OneRecordPerKey'
      BY <1>0, <2>1, <2>2 DEF ConfirmInv, OneRecordPerKey, Confirming
    <3>2. \A v, u \in Worker, e, d \in Resume :
             (/\ KeyOf[e] = KeyOf[d] /\ KeyOf[e] \notin raced'
              /\ Confirming(v, e)' /\ Confirming(u, d)') => v = u /\ e = d
      BY <2>1 DEF ConfirmInv, Confirming
    <3>3. \A v \in Worker, d \in Resume : KeyOf[d] \notin raced' \cup dropped' =>
             /\ Confirming(v, d)' => records'[KeyOf[d]] = 0
             /\ stage'[v][d] = "commit" => KeyOf[d] \in permanent' \ tagged'
      BY <1>0, <2>1, <2>2 DEF ConfirmInv, Confirming
    <3>4. \A k \in Key \ (raced' \cup dropped') : records'[k] >= 1 => k \in permanent'
      BY <1>0, <2>1, <2>2 DEF ConfirmInv
    <3>5. QED
      BY <3>1, <3>2, <3>3, <3>4 DEF ConfirmInv, Confirming
  <2>4. \A k \in Key : Listed(k) => Listed(k)'
    BY <1>0, <2>1, <2>2, StayListed
  <2>5. Listed(KeyOf[c])'
    BY <1>0, <2>2 DEF Listed
  <2>6. ListedInv'
    BY <1>0, <2>1, <2>4, <2>5 DEF ListedInv, Past
  <2>7. QED
    BY <2>3, <2>6
<1>8. ASSUME NEW w \in Worker, NEW C \in SUBSET Resume, Abandon(w, C) PROVE Inv'
  <2>1. PICK landed \in SUBSET KeysAt(w, C, "confirm") :
           /\ permanent' = permanent \cup landed /\ tagged' = tagged \ landed
           /\ orphaned' = orphaned \cup landed \cup KeysAt(w, C, "commit")
    BY <1>8 DEF Abandon
  <2>2. /\ UNCHANGED <<records, raced, deletions, dropped, parsed>>
        /\ \A v \in Worker, d \in Resume :
              \/ stage'[v][d] = stage[v][d]
              \/ v = w /\ d \in C /\ stage'[v][d] = "none"
    BY <1>8 DEF TypeOK, Abandon, candidates
  <2>3. ConfirmInv'
    BY <2>1, <2>2 DEF ConfirmInv, OneRecordPerKey, Confirming
  <2>4. \A d \in C : stage[w][d] = "commit" => KeyOf[d] \in orphaned'
    BY <2>1 DEF KeysAt
  <2>5. \A k \in Key : Listed(k) => Listed(k)'
    BY <1>0, <2>1, <2>2, <2>4, StayListed
  <2>6. \A k \in landed : Listed(k)'
    BY <2>1 DEF Listed
  <2>7. ListedInv'
    BY <1>0, <2>1, <2>2, <2>5, <2>6 DEF ListedInv, Past
  <2>8. QED
    BY <2>3, <2>7
<1>9. ASSUME NEW k \in Key, DeleteFile(k) \/ DeletionFails(k) PROVE Inv'
  <2>1. /\ UNCHANGED <<stage, permanent, raced, dropped, orphaned, parsed>>
        /\ records[k] >= 1 /\ tagged' \subseteq tagged \cup {k}
        /\ \/ UNCHANGED <<records, deletions>>
           \/ /\ records'[k] = records[k] - 1 /\ deletions'[k] = deletions[k] + 1
              /\ \A j \in Key \ {k} : records'[j] = records[j] /\ deletions'[j] = deletions[j]
    BY <1>9 DEF TypeOK, DeleteFile, DeletionFails, candidates
  <2>2. ConfirmInv'
    <3>1. k \notin raced \cup dropped => \A w \in Worker, c \in Resume :
             KeyOf[c] = k => ~Confirming(w, c)
      BY <1>0, <2>1 DEF ConfirmInv
    <3>2. QED
      BY <1>0, <2>1, <3>1 DEF ConfirmInv, OneRecordPerKey, Confirming
  <2>3. \A j \in Key : Listed(j) => Listed(j)'
    BY <1>0, <2>1, StayListed
  <2>4. ListedInv'
    BY <1>0, <2>1, <2>3 DEF ListedInv
  <2>5. QED
    BY <2>2, <2>4
<1>10. ASSUME NEW k \in Key, ExpireObject(k) PROVE Inv'
  <2>1. /\ UNCHANGED <<stage, tagged, records, raced, deletions, orphaned, parsed>>
        /\ k \in tagged /\ permanent' = permanent \ {k}
        /\ dropped \subseteq dropped' /\ (records[k] >= 1 => k \in dropped')
    BY <1>10 DEF ExpireObject, candidates
  <2>2. ConfirmInv'
    BY <1>0, <2>1 DEF ConfirmInv, OneRecordPerKey, Confirming
  <2>3. \A j \in Key : Listed(j) => Listed(j)'
    BY <1>0, <2>1, StayListed
  <2>4. ListedInv'
    BY <1>0, <2>1, <2>3 DEF ListedInv
  <2>5. QED
    BY <2>2, <2>4
<1>11. QED
  BY <1>1, <1>2, <1>3, <1>4, <1>5, <1>6, <1>7, <1>8, <1>9, <1>10
     DEF Next, Process, CallFails, Restart

\* What the theorems on files rest on.
LEMMA FilesInductive == Spec => [](ConfirmInv /\ ListedInv)
<1>1. Init => TypeOK /\ ConfirmInv /\ ListedInv
  BY InitTypeOK, InitFiles
<1>2. TypeOK /\ ConfirmInv /\ ListedInv /\ [Next]_vars
      => TypeOK' /\ ConfirmInv' /\ ListedInv'
  BY NextTypeOK, NextFiles
<1>3. QED
  BY <1>1, <1>2, PTL DEF Spec

\* Retries give an object a second file row (OneRecordPerKey) only when two
\* confirmations of it ran at once or the object of a listed file expired, for
\* any number of consumers, failures and redeliveries.
THEOREM OneRow == Spec => []OneRecordPerKey
<1>1. ConfirmInv => OneRecordPerKey
  BY DEF ConfirmInv
<1>2. QED
  BY <1>1, FilesInductive, PTL

\* The resume of a parsed candidate is in the file listing unless a user took
\* it out or its copy outlived its confirmation (ParsedFilesRecorded).
THEOREM ParsedAreListed == Spec => []ParsedFilesRecorded
<1>1. TypeOK /\ ListedInv => ParsedFilesRecorded
  BY DEF TypeOK, ListedInv, ParsedFilesRecorded
<1>2. QED
  BY <1>1, FilesInductive, PipelineTypeCorrect, PTL

=============================================================================

-------------------------- MODULE DevServerProofs --------------------------
(***************************************************************************)
(* Proofs about DevServer for every number of postings and calls, and for  *)
(* every length of the timeout.                                            *)
(***************************************************************************)
EXTENDS DevServer, TLAPS

-----------------------------------------------------------------------------
(* Types.                                                                   *)

\* A draft and a changed entity are rows.
LEMMA RowFacts ==
    /\ Draft \in Row
    /\ \A d \in Date : [status |-> "PUBLISHED", publishedAt |-> d] \in Row
    /\ \A r \in Row : [r EXCEPT !.status = "UNPUBLISHED"] \in Row
BY DEF Row, Status, Draft

\* What save() leaves is a row or none.
LEMMA SavedFacts ==
    ASSUME JobTypeOK, NEW c \in Call, job[c] \in Job, entity[c] \in Row
    PROVE  /\ Saved(c) \in Row \cup {None}
           /\ columns[c] = {"row"} =>
                 Saved(c) = IF Exists(job[c]) THEN row[job[c]] ELSE entity[c]
           /\ columns[c] # {"row"} /\ ~Exists(job[c]) => Saved(c) = None
           /\ columns[c] # {"row"} /\ Exists(job[c]) =>
                 \A col \in {"status", "publishedAt"} :
                    Saved(c)[col] = IF col \in columns[c] THEN entity[c][col]
                                    ELSE row[job[c]][col]
<1>1. row[job[c]] \in Row \cup {None}
  BY DEF JobTypeOK
<1>2. CASE columns[c] = {"row"}
  BY <1>1, <1>2 DEF Saved
<1>3. CASE columns[c] # {"row"} /\ ~Exists(job[c])
  BY <1>3 DEF Saved
<1>4. CASE columns[c] # {"row"} /\ Exists(job[c])
  <2> DEFINE S == [col \in {"status", "publishedAt"} |->
                     IF col \in columns[c] THEN entity[c][col] ELSE row[job[c]][col]]
  <2>1. Saved(c) = S
    BY <1>4 DEF Saved
  <2>2. row[job[c]] \in Row
    BY <1>1, <1>4 DEF Exists
  <2>3. S \in Row
    BY <2>2 DEF Row
  <2>4. QED
    BY <1>4, <2>1, <2>3
<1>5. QED
  BY <1>2, <1>3, <1>4

\* The board's part of the invariant: a running call has a posting and an
\* entity; ids are handed out before they are used; a pending date is nobody
\* else's; a call that is not stale has an exact copy of its posting.
CallsWhole ==
    \A c \in Busy :
        /\ job[c] \in Job /\ entity[c] \in Row
        /\ entity[c].status \in {"PUBLISHED", "UNPUBLISHED"}

IdsCreated ==
    /\ \A j \in Job : Exists(j) \/ j \in deleted => j \in created
    /\ \A c \in Busy : job[c] \in created

Pending(c) == c \in Busy /\ entity[c].status = "PUBLISHED"
DatesNew ==
    \A c \in Call : Pending(c) =>
        /\ entity[c].publishedAt # None
        /\ \A j \in Job : Exists(j) => row[j].publishedAt # entity[c].publishedAt
        /\ \A d \in Busy \ {c} : entity[d].publishedAt # entity[c].publishedAt
        /\ at[c] = "store" => columns[c] = {"row"} \/ "publishedAt" \in columns[c]

CopiesExact ==
    \A c \in Busy \ stale :
        /\ Exists(job[c])
        /\ at[c] = "store" => columns[c] # {"row"}
        /\ entity[c].status = "UNPUBLISHED" =>
              /\ row[job[c]].publishedAt = entity[c].publishedAt
              /\ at[c] = "store" => "publishedAt" \notin columns[c]

JobInv ==
    JobTypeOK /\ CallsWhole /\ IdsCreated /\ DatesNew /\ CopiesExact /\ PublishedDated

\* Init establishes it.
LEMMA JobInitInv == JobInit => JobInv
BY DEF JobInit, JobInv, JobTypeOK, CallsWhole, IdsCreated, DatesNew, CopiesExact,
       PublishedDated, Published, Pending, Busy, Exists

\* A call that has found its posting.
LEMMA FindInv ==
    ASSUME JobInv, NEW c \in Call, NEW j \in Job, NEW r \in Row, Exists(j),
           \/ /\ r.status = "UNPUBLISHED" /\ r.publishedAt = row[j].publishedAt
           \/ r.status = "PUBLISHED" /\ r.publishedAt # None /\ Fresh(r.publishedAt),
           FindJob(c, j, r)
    PROVE  JobInv'
<1> USE DEF JobInv
<1>1. JobTypeOK'
  BY DEF JobTypeOK, FindJob
<1>2. /\ at[c] = "idle" /\ row' = row /\ deleted' = deleted /\ created' = created
      /\ stale' = stale /\ reverted' = reverted /\ columns' = columns
      /\ Busy' = Busy \cup {c} /\ c \notin Busy
      /\ at'[c] = "load" /\ job'[c] = j /\ entity'[c] = r
      /\ \A d \in Call \ {c} : at'[d] = at[d] /\ job'[d] = job[d] /\ entity'[d] = entity[d]
  BY DEF FindJob, Busy, JobTypeOK
<1>3. CallsWhole'
  BY <1>2 DEF CallsWhole, Busy
<1>4. IdsCreated'
  BY <1>2 DEF IdsCreated, Exists, Busy
<1>5. DatesNew'
  <2> SUFFICES ASSUME NEW d \in Call, Pending(d)'
               PROVE  /\ entity'[d].publishedAt # None
                      /\ \A i \in Job : Exists(i)' => row'[i].publishedAt # entity'[d].publishedAt
                      /\ \A e \in Busy' \ {d} : entity'[e].publishedAt # entity'[d].publishedAt
                      /\ at'[d] = "store" => columns'[d] = {"row"} \/ "publishedAt" \in columns'[d]
    BY DEF DatesNew
  <2>1. CASE d = c
    BY <1>2, <2>1 DEF Fresh, Pending, Exists, Busy
  <2>2. CASE d # c
    BY <1>2, <2>2 DEF DatesNew, Fresh, Pending, Exists, Busy
  <2>3. QED
    BY <2>1, <2>2
<1>6. CopiesExact'
  BY <1>2 DEF CopiesExact, Busy, Exists
<1>7. PublishedDated'
  BY <1>2 DEF PublishedDated, Published, Exists
<1>8. QED
  BY <1>1, <1>3, <1>4, <1>5, <1>6, <1>7

\* save()'s own read.
LEMMA LoadInv == ASSUME JobInv, NEW c \in Call, LoadJob(c) PROVE JobInv'
<1> USE DEF JobInv
<1>0. /\ row' = row /\ created' = created /\ job' = job /\ entity' = entity
      /\ deleted' = deleted /\ stale' = stale /\ reverted' = reverted
      /\ Busy' = Busy /\ c \in Busy
      /\ \A d \in Call \ {c} : at'[d] = at[d] /\ columns'[d] = columns[d]
  BY DEF LoadJob, Busy, JobTypeOK
<1>1. columns'[c] = IF Exists(job[c])
           THEN {col \in {"status", "publishedAt"} : entity[c][col] # row[job[c]][col]}
           ELSE {"row"}
  BY DEF LoadJob, JobTypeOK
<1>2. JobTypeOK'
  BY DEF JobTypeOK, LoadJob
<1>3. CallsWhole' /\ IdsCreated' /\ PublishedDated'
  BY <1>0 DEF CallsWhole, IdsCreated, PublishedDated, Published, Exists
<1>4. DatesNew'
  <2>1. Pending(c) => columns'[c] = {"row"} \/ "publishedAt" \in columns'[c]
    BY <1>0, <1>1 DEF DatesNew, CallsWhole, Pending
  <2>2. QED
    BY <1>0, <2>1 DEF DatesNew, Pending, Exists
<1>5. CopiesExact'
  <2>1. ASSUME c \notin stale PROVE /\ Exists(job[c]) /\ "row" \notin columns'[c]
                                    /\ entity[c].status = "UNPUBLISHED" =>
                                          "publishedAt" \notin columns'[c]
    BY <1>0, <1>1, <2>1 DEF CopiesExact
  <2>2. ASSUME NEW d \in Busy' \ stale'
        PROVE  /\ Exists(job[d])'
               /\ at'[d] = "store" => columns'[d] # {"row"}
               /\ entity'[d].status = "UNPUBLISHED" =>
                     /\ row'[job'[d]].publishedAt = entity'[d].publishedAt
                     /\ at'[d] = "store" => "publishedAt" \notin columns'[d]
    <3>1. CASE d = c
      BY <1>0, <2>1, <2>2, <3>1 DEF CopiesExact, Exists
    <3>2. CASE d # c
      BY <1>0, <2>2, <3>2 DEF CopiesExact, Exists, Busy
    <3>3. QED
      BY <3>1, <3>2
  <2>3. QED
    BY <2>2 DEF CopiesExact
<1>6. QED
  BY <1>2, <1>3, <1>4, <1>5

\* A row is written: calls that had read it are stale from now on.
LEMMA WriteStale ==
    ASSUME JobInv, NEW j \in Job, NEW r, NEW c, Write(j, r, c), NEW d \in Busy, d # c
    PROVE  /\ d \notin stale' => d \notin stale
           /\ d \notin stale' => row'[job[d]] = row[job[d]]
           /\ \A i \in Job : row'[i] = IF i = j THEN r ELSE row[i]
<1>1. \A i \in Job : row'[i] = IF i = j THEN r ELSE row[i]
  BY DEF Write, JobInv, JobTypeOK
<1>2. job[d] \in Job
  BY DEF JobInv, CallsWhole
<1>3. d \notin stale' => d \notin stale /\ (job[d] # j \/ r = row[j])
  BY DEF Write
<1>4. QED
  BY <1>1, <1>2, <1>3

\* deleteJob.
LEMMA DeleteInv == ASSUME JobInv, NEW j \in Job, DeleteJob(j), None \notin Call PROVE JobInv'
<1> USE DEF JobInv
<1>0. /\ Exists(j) /\ Write(j, None, None) /\ deleted' = deleted \cup {j}
      /\ created' = created /\ at' = at /\ job' = job /\ entity' = entity
      /\ columns' = columns /\ reverted' = reverted
  BY DEF DeleteJob, jobCalls
<1>1. Busy' = Busy /\ Busy \subseteq Call
  BY <1>0 DEF Busy
<1>2. \A i \in Job : row'[i] = IF i = j THEN None ELSE row[i]
  BY <1>0 DEF Write, JobTypeOK
<1>3. JobTypeOK'
  BY <1>0, <1>1 DEF JobTypeOK, Write
<1>4. CallsWhole' /\ IdsCreated'
  BY <1>0, <1>1, <1>2 DEF CallsWhole, IdsCreated, Exists
<1>5. DatesNew'
  BY <1>0, <1>1, <1>2 DEF DatesNew, Pending, Exists
<1>6. CopiesExact'
  <2>1. ASSUME NEW d \in Busy' \ stale'
        PROVE  d \notin stale /\ row'[job[d]] = row[job[d]]
    BY <1>0, <1>1, <2>1, WriteStale
  <2>2. QED
    BY <1>0, <1>1, <2>1 DEF CopiesExact, Exists
<1>7. PublishedDated'
  BY <1>0, <1>2 DEF PublishedDated, Published, Exists
<1>8. QED
  BY <1>3, <1>4, <1>5, <1>6, <1>7

\* createJob.
LEMMA CreateInv == ASSUME JobInv, NEW j \in Job, CreateJob(j) PROVE JobInv'
<1> USE DEF JobInv
<1>0. /\ j \notin created /\ created' = created \cup {j} /\ deleted' = deleted
      /\ stale' = stale /\ at' = at /\ job' = job /\ entity' = entity
      /\ columns' = columns /\ reverted' = reverted
      /\ \A i \in Job : row'[i] = IF i = j THEN Draft ELSE row[i]
      /\ Busy' = Busy /\ Busy \subseteq Call
  BY DEF CreateJob, jobCalls, JobTypeOK, Busy
<1>1. JobTypeOK'
  BY RowFacts DEF JobTypeOK, CreateJob, jobCalls
<1>2. CallsWhole' /\ IdsCreated'
  BY <1>0 DEF CallsWhole, IdsCreated, Exists
<1>3. DatesNew'
  BY <1>0 DEF DatesNew, Pending, Exists, Draft
<1>4. CopiesExact'
  <2>1. \A d \in Busy : job[d] \in Job /\ job[d] # j
    BY <1>0 DEF CallsWhole, IdsCreated
  <2>2. \A d \in Busy : row'[job[d]] = row[job[d]]
    BY <1>0, <2>1
  <2>3. QED
    BY <1>0, <2>2 DEF CopiesExact, Exists
<1>5. PublishedDated'
  BY <1>0 DEF PublishedDated, Published, Exists, Draft
<1>6. QED
  BY <1>1, <1>2, <1>3, <1>4, <1>5

\* save()'s statement: the date it leaves is the entity's or the row's own, a
\* publication that is pending is left with both, and only a stale
\* unpublishJob leaves a published posting without a date.
LEMMA StoreInv == ASSUME JobInv, NEW c \in Call, StoreJob(c), None \notin Row PROVE JobInv'
<1> USE DEF JobInv
<1> DEFINE j == job[c]
<1>0. /\ at[c] = "store" /\ c \in Busy /\ j \in Job /\ entity[c] \in Row
      /\ Write(j, Saved(c), c)
      /\ Busy' = Busy \ {c} /\ Busy \subseteq Call
      /\ \A d \in Busy \ {c} : /\ at'[d] = at[d] /\ job'[d] = job[d]
                               /\ entity'[d] = entity[d] /\ columns'[d] = columns[d]
      /\ deleted' = deleted /\ created' = created
      /\ \A i \in Job : row'[i] = IF i = j THEN Saved(c) ELSE row[i]
      /\ reverted' = IF c \in stale /\ entity[c].status = "UNPUBLISHED"
                     THEN reverted \cup {j} ELSE reverted
  BY DEF StoreJob, Answer, Busy, CallsWhole, Write, JobTypeOK
<1>1. /\ Saved(c) \in Row \cup {None}
      /\ columns[c] = {"row"} => Saved(c) = IF Exists(j) THEN row[j] ELSE entity[c]
      /\ columns[c] # {"row"} /\ ~Exists(j) => Saved(c) = None
      /\ columns[c] # {"row"} /\ Exists(j) =>
            \A col \in {"status", "publishedAt"} :
               Saved(c)[col] = IF col \in columns[c] THEN entity[c][col] ELSE row[j][col]
  BY <1>0, SavedFacts
<1>2. Saved(c) # None => \/ Saved(c).publishedAt = entity[c].publishedAt
                         \/ Exists(j) /\ Saved(c).publishedAt = row[j].publishedAt
  BY <1>1
<1>3. JobTypeOK'
  <2>1. row' \in [Job -> Row \cup {None}] /\ stale' \subseteq Call /\ reverted' \subseteq Job
    BY <1>0, <1>1 DEF JobTypeOK, Write
  <2>2. QED
    BY <1>0, <2>1 DEF JobTypeOK, StoreJob, Answer
<1>4. CallsWhole' /\ IdsCreated'
  BY <1>0 DEF CallsWhole, IdsCreated, Exists
<1>5. DatesNew'
  <2> SUFFICES ASSUME NEW d \in Call, Pending(d)'
               PROVE  /\ entity'[d].publishedAt # None
                      /\ \A i \in Job : Exists(i)' => row'[i].publishedAt # entity'[d].publishedAt
                      /\ \A e \in Busy' \ {d} : entity'[e].publishedAt # entity'[d].publishedAt
                      /\ at'[d] = "store" => columns'[d] = {"row"} \/ "publishedAt" \in columns'[d]
    BY DEF DatesNew
  <2>1. d # c /\ Pending(d) /\ entity'[d] = entity[d]
    BY <1>0 DEF Pending
  <2>2. entity[d].publishedAt # entity[c].publishedAt
    BY <1>0, <2>1 DEF DatesNew
  <2>3. \A i \in Job : Exists(i)' => row'[i].publishedAt # entity'[d].publishedAt
    BY <1>0, <1>2, <2>1, <2>2 DEF DatesNew, Exists
  <2>4. QED
    BY <1>0, <2>1, <2>3 DEF DatesNew, Pending
<1>6. CopiesExact'
  <2>1. ASSUME NEW d \in Busy' \ stale'
        PROVE  d \in Busy \ {c} /\ d \notin stale /\ row'[job[d]] = row[job[d]]
    BY <1>0, <2>1, WriteStale
  <2>2. QED
    BY <1>0, <2>1 DEF CopiesExact, Exists
<1>7. PublishedDated'
  <2> SUFFICES ASSUME NEW i \in Job, i \in Published', i \notin reverted'
               PROVE  row'[i].publishedAt # None
    BY DEF PublishedDated, Published
  <2>1. CASE i # j
    BY <1>0, <2>1 DEF PublishedDated, Published, Exists
  <2>2. CASE i = j /\ entity[c].status = "PUBLISHED"
    <3>1. entity[c].publishedAt # None /\ (columns[c] = {"row"} \/ "publishedAt" \in columns[c])
      BY <1>0, <2>2 DEF DatesNew, Pending
    <3>2. Saved(c) # None /\ Saved(c) = row'[j]
      BY <1>0, <2>2 DEF Published, Exists
    <3>3. CASE columns[c] = {"row"}
      BY <1>0, <1>1, <2>2, <3>1, <3>2, <3>3 DEF PublishedDated, Published, Exists
    <3>4. CASE columns[c] # {"row"}
      BY <1>1, <2>2, <3>1, <3>2, <3>4
    <3>5. QED
      BY <3>3, <3>4
  <2>3. CASE i = j /\ entity[c].status = "UNPUBLISHED"
    <3>1. c \notin stale
      BY <1>0, <2>3
    <3>2. Exists(j) /\ columns[c] # {"row"} /\ "publishedAt" \notin columns[c]
      BY <1>0, <2>3, <3>1 DEF CopiesExact
    <3>3. Saved(c).publishedAt = row[j].publishedAt
      BY <1>1, <3>2
    <3>4. Saved(c).status = "PUBLISHED" => row[j].status = "PUBLISHED"
      BY <1>1, <2>3, <3>2
    <3>5. QED
      BY <1>0, <2>3, <3>2, <3>3, <3>4 DEF PublishedDated, Published, Exists
  <2>4. QED
    BY <1>0, <2>1, <2>2, <2>3 DEF CallsWhole
<1>8. QED
  BY <1>3, <1>4, <1>5, <1>6, <1>7

\* A machine that goes down takes its calls with it.
LEMMA GoDownInv == ASSUME JobInv, GoDown PROVE JobInv'
<1> USE DEF JobInv
<1>0. /\ Busy' = {} /\ row' = row /\ created' = created /\ deleted' = deleted
      /\ reverted' = reverted
  BY DEF GoDown, Answer, Busy
<1>1. JobTypeOK'
  BY <1>0 DEF JobTypeOK, GoDown, Answer
<1>2. QED
  BY <1>0, <1>1 DEF CallsWhole, IdsCreated, DatesNew, CopiesExact, PublishedDated, Published,
                   Pending, Exists

\* Every step of the server keeps the board's invariant: one case per action.
LEMMA NextJobInv == JobInv /\ [Next]_vars => JobInv'
<1> SUFFICES ASSUME JobInv, [Next]_vars PROVE JobInv'
  OBVIOUS
<1>1. ASSUME NEW j \in Job, CreateJob(j) PROVE JobInv'
  BY <1>1, CreateInv
<1>2. ASSUME NEW j \in Job, DeleteJob(j) PROVE JobInv'
  BY <1>2, DeleteInv, JobAssumption
<1>3. ASSUME NEW c \in Call, NEW j \in Job, PublishJob(c, j) PROVE JobInv'
  <2>1. PICK d \in Date : Exists(j) /\ Fresh(d)
                          /\ FindJob(c, j, [status |-> "PUBLISHED", publishedAt |-> d])
    BY <1>3 DEF PublishJob
  <2>2. d # None
    BY JobAssumption
  <2> DEFINE r == [status |-> "PUBLISHED", publishedAt |-> d]
  <2>3. r \in Row /\ r.status = "PUBLISHED" /\ r.publishedAt = d
    BY RowFacts
  <2> HIDE DEF r
  <2>4. FindJob(c, j, r)
    BY <2>1 DEF r
  <2>5. QED
    BY <2>1, <2>2, <2>3, <2>4, FindInv
<1>4. ASSUME NEW c \in Call, NEW j \in Job, UnpublishJob(c, j) PROVE JobInv'
  <2> DEFINE r == [row[j] EXCEPT !.status = "UNPUBLISHED"]
  <2>1. Exists(j) /\ FindJob(c, j, r)
    BY <1>4 DEF UnpublishJob
  <2>2. row[j] \in Row
    BY <2>1 DEF Exists, JobInv, JobTypeOK
  <2>3. r \in Row /\ r.status = "UNPUBLISHED" /\ r.publishedAt = row[j].publishedAt
    BY <2>2 DEF Row, Status
  <2> HIDE DEF r
  <2>4. QED
    BY <2>1, <2>3, FindInv
<1>5. ASSUME NEW c \in Call, JobStep(c) PROVE JobInv'
  BY <1>5, LoadInv, StoreInv, RowAssumption DEF JobStep
<1>6. CASE Serve
  BY <1>1, <1>2, <1>3, <1>4, <1>5, <1>6 DEF Serve, JobNext, PutJob
<1>7. CASE GoDown
  BY <1>7, GoDownInv
<1>8. CASE UNCHANGED jobVars
  BY <1>8 DEF jobVars, jobCalls, JobInv, JobTypeOK, CallsWhole, IdsCreated, DatesNew, CopiesExact,
              PublishedDated, Published, Pending, Busy, Exists
<1>9. QED
  BY <1>6, <1>7, <1>8 DEF Next, Timing, vars

-----------------------------------------------------------------------------
(* The timer.                                                               *)

\* An armed timeout runs out when the machine has been idle for the whole
\* period: what is left of it and what has passed add up.
TimerInv ==
    /\ TimerTypeOK /\ StopsOnlyWhenIdle
    /\ \A t \in timers : t + idle = Timeout

\* Init establishes it.
LEMMA TimerInitInv == TimerInit => TimerInv
<1>1. TimerInit => up \in BOOLEAN /\ stopFailed \in BOOLEAN
  BY Zenon DEF TimerInit
<1>2. TimerInit => /\ timers = {} /\ stops \in 0..MaxStops
                   /\ idle \in 0..Timeout /\ lastIdle \in 0..Timeout /\ lastIdle = Timeout
  BY TimerAssumption DEF TimerInit
<1>3. QED
  BY <1>1, <1>2 DEF TimerInv, TimerTypeOK, StopsOnlyWhenIdle

\* Every step keeps it.
LEMMA NextTimerInv == TimerInv /\ [Next]_vars => TimerInv'
<1> SUFFICES ASSUME TimerInv, [Next]_vars PROVE TimerInv'
  OBVIOUS
<1> USE TimerAssumption DEF TimerInv, TimerTypeOK, StopsOnlyWhenIdle
<1>0. up' \in BOOLEAN /\ stopFailed' \in BOOLEAN
  BY Zenon DEF Next, Serve, GoDown, Timing, Boot, UpdateActivity, Tick, ShutdownEC2Instance,
     StopSucceeds, StopFails, timerVars, vars
<1>1. CASE Boot
  <2>1. timers' = {Timeout} /\ idle' = 0 /\ stops' = stops /\ lastIdle' = lastIdle
    BY <1>1 DEF Boot, ResetTimer
  <2>2. QED
    BY <1>0, <2>1
<1>2. CASE UpdateActivity
  <2>1. timers' = {Timeout} /\ idle' = 0 /\ stops' = stops /\ lastIdle' = lastIdle
    BY <1>2 DEF UpdateActivity, ResetTimer
  <2>2. QED
    BY <1>0, <2>1
<1>3. CASE Tick
  <2>1. idle' \in 0..Timeout
    BY <1>3 DEF Tick
  <2>2. ASSUME NEW t \in timers' PROVE t \in 0..Timeout /\ t + idle' = Timeout
    <3>1. PICK u \in timers : t = IF u = 0 THEN 0 ELSE u - 1
      BY <1>3 DEF Tick
    <3>2. u \in 0..Timeout /\ u + idle = Timeout /\ idle \in 0..Timeout
      BY <3>1
    <3>3. idle' = IF idle = Timeout THEN idle ELSE idle + 1
      BY <1>3 DEF Tick
    <3>4. QED
      BY <3>1, <3>2, <3>3
  <2>3. \A t, u \in timers' : t = u
    BY <2>1, <2>2
  <2>4. QED
    BY <1>0, <1>3, <2>1, <2>2, <2>3 DEF Tick
<1>4. CASE ShutdownEC2Instance
  BY <1>0, <1>4 DEF ShutdownEC2Instance
<1>5. CASE StopSucceeds
  BY <1>0, <1>5 DEF StopSucceeds
<1>6. CASE StopFails
  BY <1>0, <1>6 DEF StopFails
<1>7. CASE UNCHANGED timerVars
  BY <1>0, <1>7 DEF timerVars
<1>8. QED
  BY <1>1, <1>2, <1>3, <1>4, <1>5, <1>6, <1>7 DEF Next, Serve, GoDown, Timing, vars

-----------------------------------------------------------------------------
(* Theorems.                                                                *)

\* Both invariants hold in every state.
LEMMA Invariant == Spec => [](JobInv /\ TimerInv)
<1>1. Init => JobInv /\ TimerInv
  BY JobInitInv, TimerInitInv DEF Init
<1>2. (JobInv /\ TimerInv) /\ [Next]_vars => (JobInv /\ TimerInv)'
  BY NextJobInv, NextTimerInv
<1>3. QED
  BY <1>1, <1>2, PTL DEF Spec

\* The types of the board and of the timer, with one timeout armed at most.
THEOREM TypeCorrect == Spec => []TypeOK
<1>1. JobInv /\ TimerInv => TypeOK
  BY DEF JobInv, TimerInv, TypeOK
<1>2. QED
  BY <1>1, Invariant, PTL

\* Published postings have their date unless a stale unpublishJob wrote them,
\* for any number of overlapping calls and of stops of the machine.
THEOREM PublicationsDated == Spec => []PublishedDated
<1>1. JobInv => PublishedDated
  BY DEF JobInv
<1>2. QED
  BY <1>1, Invariant, PTL

\* Only a call that had found a posting before its deletion brings it back.
THEOREM DeletionSticks == Spec => DeletedForGood
<1>1. JobInv /\ [Next]_vars => [BroughtBack]_jobVars
  <2> SUFFICES ASSUME JobInv, [Next]_vars, NEW j \in deleted, ~Exists(j), Exists(j)'
               PROVE  \E c \in stale : job[c] = j /\ at[c] = "store" /\ at'[c] = "idle"
    BY DEF BroughtBack
  <2>0. j \in Job
    BY DEF JobInv, JobTypeOK
  <2>1. CASE \E i \in Job : CreateJob(i)
    <3>1. PICK i \in Job : CreateJob(i)
      BY <2>1
    <3>2. i # j
      BY <2>0, <3>1 DEF CreateJob, JobInv, IdsCreated
    <3>3. row'[j] = row[j]
      BY <2>0, <3>1, <3>2 DEF CreateJob, JobInv, JobTypeOK
    <3>4. QED
      BY <3>3 DEF Exists
  <2>2. CASE \E i \in Job : DeleteJob(i)
    BY <2>0, <2>2 DEF DeleteJob, Write, JobInv, JobTypeOK, Exists
  <2>3. CASE \E c \in Call : StoreJob(c)
    <3>1. PICK c \in Call : StoreJob(c)
      BY <2>3
    <3>2. c \in Busy /\ job[c] \in Job /\ entity[c] \in Row /\ at[c] = "store" /\ at'[c] = "idle"
      BY <3>1 DEF StoreJob, Answer, Busy, JobInv, CallsWhole
    <3>3. row' = [row EXCEPT ![job[c]] = Saved(c)]
      BY <3>1 DEF StoreJob, Write
    <3>4. job[c] = j
      BY <2>0, <3>2, <3>3 DEF Exists, JobInv, JobTypeOK
    <3>5. c \in stale
      BY <3>2, <3>4 DEF JobInv, CopiesExact
    <3>6. QED
      BY <3>2, <3>4, <3>5
  <2>4. CASE row' = row
    BY <2>4 DEF Exists
  <2>5. QED
    BY <2>1, <2>2, <2>3, <2>4 DEF Next, Serve, JobNext, PutJob, JobStep, LoadJob, PublishJob, UnpublishJob,
       FindJob, GoDown, Timing, vars, jobVars
<1>2. QED
  BY <1>1, Invariant, PTL DEF Spec, DeletedForGood

\* The machine asks to be stopped only after an idle period of full length.
THEOREM StopsAreDue == Spec => []StopsOnlyWhenIdle
<1>1. TimerInv => StopsOnlyWhenIdle
  BY DEF TimerInv
<1>2. QED
  BY <1>1, Invariant, PTL
=============================================================================

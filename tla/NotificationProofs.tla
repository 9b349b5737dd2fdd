-------------------------- MODULE NotificationProofs --------------------------
(***************************************************************************)
(* Proofs about Notifications for every number of notifications, devices,  *)
(* consumers and logins, and any number of failures.                       *)
(***************************************************************************)
EXTENDS Notifications, FiniteSetTheorems, TLAPS

-----------------------------------------------------------------------------
(* What the helpers return.                                                 *)

LEMMA JobAtType ==
    ASSUME NEW at \in {"none", "start", "send", "drop", "delete"},
           NEW D \in SUBSET Device, NEW k \in 0..Attempts
    PROVE  /\ JobAt(at, D, k) \in Job
           /\ JobAt(at, D, k).at = at /\ JobAt(at, D, k).to = D
           /\ JobAt(at, D, k).left = k /\ JobAt(at, D, k).moved = {}
           /\ \A d \in Device : JobAt(at, D, k).copies[d] = 0
BY DEF JobAt, Job

LEMMA JobShapes ==
    /\ NoJob \in Job /\ NewJob \in Job /\ Handled \in Job
    /\ NoJob.at = "none" /\ NewJob.at = "start" /\ Handled.at = "delete"
    /\ \A d \in Device : NoJob.copies[d] = 0 /\ NewJob.copies[d] = 0 /\ Handled.copies[d] = 0
BY JobAtType DEF NoJob, NewJob, Handled, Attempts

LEMMA LookedUpType ==
    ASSUME NEW D \in SUBSET Device
    PROVE  /\ JobAt("send", D, Attempts) \in Job
           /\ JobAt("send", D, Attempts).at = "send" /\ JobAt("send", D, Attempts).to = D
           /\ JobAt("send", D, Attempts).left = Attempts
           /\ JobAt("send", D, Attempts).moved = {}
           /\ \A d \in Device : JobAt("send", D, Attempts).copies[d] = 0
BY DEF JobAt, Job, Attempts

\* There is always an id that no login holds: ids are fewer than candidates.
LEMMA FreshIdExists ==
    ASSUME TypeOK, NEW d \in Device, row[d] = NoRow
    PROVE  FreshId(d) \in Nat \ {0}
<1> DEFINE N == Cardinality(Login)
           Held == {login[l].id : l \in Login}
<1>1. IsFiniteSet(Login) /\ N \in Nat
  BY NotificationAssumption, FS_CardinalityType
<1>2. IsFiniteSet(Held) /\ Cardinality(Held) <= N
  <2> DEFINE f == [l \in Login |-> login[l].id]
  <2>1. f \in Surjection(Login, Held)
    BY DEF Surjection
  <2>2. QED
    BY <1>1, <2>1, FS_Surjection
<1>3. IsFiniteSet(1..(N + 1)) /\ Cardinality(1..(N + 1)) = N + 1
  BY <1>1, FS_Interval
<1>4. ~(1..(N + 1) \subseteq Held)
  <2> SUFFICES ASSUME 1..(N + 1) \subseteq Held PROVE FALSE
    OBVIOUS
  <2>1. Cardinality(1..(N + 1)) <= Cardinality(Held)
    BY <1>2, FS_Subset
  <2> HIDE DEF N, Held
  <2>2. Cardinality(Held) \in Nat
    BY <1>2, FS_CardinalityType
  <2>3. QED
    BY <1>1, <1>2, <1>3, <2>1, <2>2
<1>5. PICK i \in 1..(N + 1) : i \notin Held
  BY <1>4
<1>6. i # row[d].id /\ \A l \in Login : login[l].device = d => login[l].id # i
  BY <1>5 DEF NoRow
<1>7. \E k \in 1..(Cardinality(Login) + 1) :
          k # row[d].id /\ \A l \in Login : login[l].device = d => login[l].id # k
  BY <1>5, <1>6
<1>8. FreshId(d) \in 1..(Cardinality(Login) + 1)
  BY <1>7 DEF FreshId
<1>9. QED
  BY <1>1, <1>8

\* What goes on with a job whose round was answered is a job.
LEMMA AfterType ==
    ASSUME NEW j \in Job, NEW ok \in SUBSET Device, NEW failed \in SUBSET Device,
           NEW k \in 0..Attempts
    PROVE  /\ Accepted(j, ok) \in Job
           /\ After(Accepted(j, ok), failed, k) \in Job
           /\ After(Accepted(j, ok), failed, k).at = "send" => k # 0
<1>1. Accepted(j, ok) \in Job
  BY DEF Accepted, Job
<1>2. CASE failed = {}
  BY <1>1, <1>2, JobShapes DEF After
<1>3. CASE failed # {}
  BY <1>1, <1>3 DEF After, Job
<1>4. QED
  BY <1>1, <1>2, <1>3

\* Marking devices as moved changes nothing else of a job.
LEMMA MovedInType ==
    ASSUME NEW j \in Job, NEW D \in SUBSET Device
    PROVE  /\ MovedIn(j, D) \in Job
           /\ MovedIn(j, D).at = j.at /\ MovedIn(j, D).left = j.left
           /\ MovedIn(j, D).to = j.to /\ MovedIn(j, D).copies = j.copies
           /\ j.at = "send" => MovedIn(j, D).moved = j.moved \cup D
<1>1. CASE j.at = "send"
  BY <1>1 DEF MovedIn, Job
<1>2. CASE j.at # "send"
  BY <1>2 DEF MovedIn
<1>3. QED
  BY <1>1, <1>2

LEMMA MovedType ==
    ASSUME TypeOK, NEW D \in SUBSET Device
    PROVE  WithMoved(D) \in [Consumer -> [Message -> Job]]
<1>1. \A c \in Consumer, n \in Message : MovedIn(job[c][n], D) \in Job
  BY MovedInType DEF TypeOK
<1>2. QED
  BY <1>1 DEF WithMoved

\* A job stored for one consumer and message leaves all the others alone.
LEMMA JobStored ==
    ASSUME TypeOK, NEW c \in Consumer, NEW n \in Message, NEW j \in Job,
           job' = [job EXCEPT ![c][n] = j]
    PROVE  /\ job' \in [Consumer -> [Message -> Job]]
           /\ \A e \in Consumer, k \in Message :
                 job'[e][k] = IF e = c /\ k = n THEN j ELSE job[e][k]
BY DEF TypeOK

JobsTyped ==
    /\ job \in [Consumer -> [Message -> Job]]
    /\ \A c \in Consumer, n \in Message : job[c][n].at = "send" => job[c][n].left # 0

\* What a consumer's step on one message does to the types of its job.
LEMMA SendJobsTyped ==
    ASSUME TypeOK, NEW c \in Consumer, NEW n \in Message,
           Send(c, n) \/ CallFails(c, n) \/ \E ok \in SUBSET Device : MulticastThrows(c, n, ok)
    PROVE  JobsTyped'
<1> DEFINE j == job[c][n]
<1>0. j \in Job /\ (j.at = "send" => j.left # 0)
  BY DEF TypeOK
<1>1. ASSUME NEW i \in Job, i.at = "send" => i.left # 0, job' = [job EXCEPT ![c][n] = i]
      PROVE  JobsTyped'
  BY <1>1, JobStored DEF JobsTyped, TypeOK
<1>2. CASE SendMail(c, n)
  <2>1. [j EXCEPT !.at = "delete"] \in Job /\ [j EXCEPT !.at = "delete"].at = "delete"
    BY <1>0 DEF Job
  <2>2. job' = [job EXCEPT ![c][n] = [j EXCEPT !.at = "delete"]]
    BY <1>2 DEF SendMail, TypeOK
  <2>3. QED
    BY <1>1, <2>1, <2>2
<1>3. CASE LookupTokens(c, n)
  <2> DEFINE D == Registered(UserOf[n])
  <2>1. D \in SUBSET Device
    BY DEF Registered
  <2> HIDE DEF D
  <2>2. JobAt("send", D, Attempts) \in Job /\ JobAt("send", D, Attempts).left # 0
    BY <2>1, LookedUpType DEF Attempts
  <2>3. QED
    BY <1>1, <1>3, <2>2 DEF LookupTokens, D
<1>4. CASE Reject(c, n) \/ DeleteMessage(c, n) \/ CallFails(c, n)
  BY <1>1, <1>4, JobShapes DEF Reject, DeleteMessage, CallFails
<1>5. ASSUME NEW ok \in SUBSET Device, Multicast(c, n, ok)
      PROVE  JobsTyped'
  <2> DEFINE i == After(Accepted(j, ok), j.to \ ok, j.left - 1)
  <2>1. j.left - 1 \in 0..Attempts /\ j.to \ ok \in SUBSET Device
    BY <1>0, <1>5 DEF Multicast, Job, Attempts
  <2>2. i \in Job /\ (i.at = "send" => i.left # 0)
    <3>1. i.at = "send" => i.left = j.left - 1
      BY <1>0, <2>1, AfterType, JobShapes DEF After, Accepted, Job
    <3>2. QED
      BY <1>0, <2>1, <3>1, AfterType
  <2>3. QED
    BY <1>1, <1>5, <2>2 DEF Multicast, Sent
<1>6. ASSUME NEW ok \in SUBSET Device, MulticastThrows(c, n, ok)
      PROVE  JobsTyped'
  <2> DEFINE i == [Accepted(j, ok) EXCEPT !.at = "drop"]
  <2>1. i \in Job /\ i.at = "drop"
    <3>1. Accepted(j, ok) \in Job
      BY <1>0, AfterType DEF Attempts
    <3> HIDE DEF j
    <3>2. QED
      BY <3>1 DEF Job
  <2>2. QED
    BY <1>1, <1>6, <2>1 DEF MulticastThrows, Sent
<1>7. CASE DropTokens(c, n)
  <2> DEFINE W == WithMoved(j.to)
  <2>0. j.to \in SUBSET Device
    BY <1>0 DEF Job
  <2>1. W \in [Consumer -> [Message -> Job]]
    BY <2>0, MovedType
  <2>2. \A e \in Consumer, k \in Message :
           W[e][k].at = job[e][k].at /\ W[e][k].left = job[e][k].left
    BY <2>0, MovedInType DEF TypeOK, WithMoved
  <2> HIDE DEF W
  <2>3. job' = [W EXCEPT ![c][n] = Handled]
    BY <1>7 DEF DropTokens, W
  <2>4. job' \in [Consumer -> [Message -> Job]]
    BY <2>1, <2>3, JobShapes
  <2>5. \A e \in Consumer, k \in Message :
           job'[e][k] = IF e = c /\ k = n THEN Handled ELSE W[e][k]
    BY <2>1, <2>3
  <2>6. ASSUME NEW e \in Consumer, NEW k \in Message, job'[e][k].at = "send"
        PROVE  job'[e][k].left # 0
    BY <2>2, <2>5, <2>6, JobShapes DEF TypeOK
  <2>7. QED
    BY <2>4, <2>6 DEF JobsTyped
<1>8. QED
  BY <1>2, <1>3, <1>4, <1>5, <1>6, <1>7 DEF Send

\* The initial state has the right types.
LEMMA InitTypeOK == Init => TypeOK
<1> SUFFICES ASSUME Init PROVE TypeOK
  OBVIOUS
<1>1. job \in [Consumer -> [Message -> Job]]
  BY JobShapes DEF Init
<1>2. \A c \in Consumer, n \in Message : job[c][n].at = "none"
  BY JobShapes DEF Init
<1>3. row \in [Device -> {NoRow} \cup [id : Nat \ {0}, user : User]]
  BY DEF Init
<1>4. login \in [Login -> {NoLogin} \cup [user : User, device : Device, id : Nat]]
  BY DEF Init
<1>5. faults \in 0..MaxFaults /\ failures \in 0..MaxFailures
  BY NotificationAssumption DEF Init
<1>6. message \in [Message -> {"unborn", "visible", "hidden", "deleted"}]
  BY DEF Init
<1>7. sent \subseteq Message /\ unreachable \subseteq Message /\ outage \in BOOLEAN
  BY DEF Init
<1>8. QED
  BY <1>1, <1>2, <1>3, <1>4, <1>5, <1>6, <1>7 DEF TypeOK

\* Every step keeps the types: one case per action.
LEMMA NextTypeOK == TypeOK /\ [Next]_vars => TypeOK'
<1> SUFFICES ASSUME TypeOK, [Next]_vars PROVE TypeOK'
  OBVIOUS
<1>1. ASSUME NEW n \in Message, Publish(n) \/ Reappear(n) PROVE TypeOK'
  BY <1>1 DEF Publish, Reappear, Published, Returned, TypeOK, history, faulty
<1>2. ASSUME NEW c \in Consumer, NEW S \in SUBSET Message, Receive(c, S) PROVE TypeOK'
  <2>1. [n \in Message |-> IF n \in S THEN NewJob ELSE NoJob] \in [Message -> Job]
    BY JobShapes
  <2>2. JobsTyped'
    BY <1>2, <2>1, JobShapes DEF Receive, TypeOK, JobsTyped
  <2>3. QED
    BY <1>2, <2>2 DEF Receive, Received, TypeOK, JobsTyped, history, faulty
<1>3. ASSUME NEW c \in Consumer, NEW n \in Message, Send(c, n) PROVE TypeOK'
  <2>1. JobsTyped'
    BY <1>3, SendJobsTyped
  <2>2. CASE SendMail(c, n) \/ LookupTokens(c, n) \/ Reject(c, n) \/ DeleteMessage(c, n)
    BY <2>1, <2>2 DEF SendMail, LookupTokens, Reject, DeleteMessage, Deleted, TypeOK, JobsTyped,
                      history, faulty
  <2>3. ASSUME NEW ok \in SUBSET Device, Multicast(c, n, ok) PROVE TypeOK'
    <3>1. Cardinality((job[c][n].to \cap Live) \ ok) \in Nat
      BY NotificationAssumption, FS_Subset, FS_CardinalityType
    <3>2. failures' \in 0..MaxFailures
      BY <2>3, <3>1, NotificationAssumption DEF Multicast, TypeOK
    <3>3. QED
      BY <2>1, <2>3, <3>2 DEF Multicast, Sent, TypeOK, JobsTyped
  <2>4. CASE DropTokens(c, n)
    <3>1. row' \in [Device -> {NoRow} \cup [id : Nat \ {0}, user : User]]
      BY <2>4 DEF DropTokens, TypeOK
    <3>2. QED
      BY <2>1, <2>4, <3>1 DEF DropTokens, TypeOK, JobsTyped, history, faulty
  <2>5. QED
    BY <1>3, <2>2, <2>3, <2>4 DEF Send
<1>4. ASSUME NEW c \in Consumer, NEW n \in Message, CallFails(c, n) PROVE TypeOK'
  <2>1. JobsTyped'
    BY <1>4, SendJobsTyped
  <2>2. QED
    BY <1>4, <2>1, NotificationAssumption DEF CallFails, TypeOK, JobsTyped
<1>5. ASSUME NEW c \in Consumer, NEW n \in Message, NEW ok \in SUBSET Device,
             MulticastThrows(c, n, ok)
      PROVE  TypeOK'
  <2>1. JobsTyped'
    BY <1>5, SendJobsTyped
  <2>2. QED
    BY <1>5, <2>1, NotificationAssumption DEF MulticastThrows, Sent, TypeOK, JobsTyped
<1>6. ASSUME NEW c \in Consumer, Restart(c) PROVE TypeOK'
  <2>1. [n \in Message |-> NoJob] \in [Message -> Job]
    BY JobShapes
  <2>2. JobsTyped'
    BY <1>6, <2>1, JobShapes DEF Restart, TypeOK, JobsTyped
  <2>3. QED
    BY <1>6, <2>2, NotificationAssumption DEF Restart, TypeOK, JobsTyped, history
<1>7. ASSUME NEW l \in Login, NEW u \in User, NEW d \in Device, FindToken(l, u, d)
      PROVE  TypeOK'
  <2>1. row[d].id \in Nat
    BY DEF TypeOK, NoRow
  <2>2. QED
    BY <1>7, <2>1 DEF FindToken, TypeOK, history, faulty
<1>8. ASSUME NEW l \in Login, SaveToken(l) PROVE TypeOK'
  <2>1. login[l] \in [user : User, device : Device, id : Nat]
    BY <1>8 DEF SaveToken, TypeOK
  <2>2. login[l].id = 0 => FreshId(login[l].device) \in Nat \ {0}
    BY <1>8, <2>1, FreshIdExists DEF SaveToken, TypeOK, NoRow
  <2>3. row' \in [Device -> {NoRow} \cup [id : Nat \ {0}, user : User]]
    BY <1>8, <2>1, <2>2 DEF SaveToken, TypeOK
  <2>4. JobsTyped'
    <3>1. CASE job' = job
      BY <3>1 DEF TypeOK, JobsTyped
    <3>2. CASE job' = WithMoved({login[l].device})
      <4>1. {login[l].device} \in SUBSET Device
        BY <2>1
      <4>2. \A e \in Consumer, k \in Message :
               job'[e][k].at = job[e][k].at /\ job'[e][k].left = job[e][k].left
        BY <3>2, <4>1, MovedInType DEF TypeOK, WithMoved
      <4>3. QED
        BY <3>2, <4>1, <4>2, MovedType DEF TypeOK, JobsTyped
    <3>3. QED
      BY <1>8, <3>1, <3>2 DEF SaveToken
  <2>5. QED
    BY <1>8, <2>3, <2>4 DEF SaveToken, TypeOK, JobsTyped, history, faulty
<1>9. ASSUME NEW l \in Login, LoginFails(l) PROVE TypeOK'
  BY <1>9 DEF LoginFails, TypeOK, history, faulty
<1>10. CASE UNCHANGED vars
  BY <1>10 DEF vars, history, faulty, TypeOK
<1>11. QED
  BY <1>1, <1>2, <1>3, <1>4, <1>5, <1>6, <1>7, <1>8, <1>9, <1>10 DEF Next

\* The notification subsystem keeps its types, and a job that sends has
\* attempts left, whatever fails and however many consumers there are.
THEOREM NotificationTypeCorrect == Spec => []TypeOK
BY InitTypeOK, NextTypeOK, PTL DEF Spec

-----------------------------------------------------------------------------
(* The jobs' invariant.                                                     *)

\* What every step does to the rest of the state a job's invariant reads.
Grows ==
    /\ sent \subseteq sent' /\ unreachable \subseteq unreachable'
    /\ failures \in Nat /\ failures' \in Nat /\ failures <= failures'
    /\ outage \in BOOLEAN /\ outage' \in BOOLEAN /\ (outage => outage')

\* A job that no step touches keeps its invariant while its devices' rows do.
LEMMA JobKept ==
    ASSUME TypeOK, Grows, NEW c \in Consumer, NEW n \in Message, JobInv(job[c][n], n),
           job'[c][n] = job[c][n],
           job[c][n].at = "send" => \A d \in job[c][n].to : row'[d] = row[d]
    PROVE  JobInv(job[c][n], n)'
<1> DEFINE j == job[c][n]
<1>1. j \in Job
  BY DEF TypeOK
<1>2. j.to \subseteq Device /\ j.left \in Nat
  BY <1>1 DEF Job, Attempts
<1>3. QED
  BY <1>2 DEF JobInv, Grows, Attempts

\* So does a job whose devices D changed hands, once it knows.
LEMMA JobMoved ==
    ASSUME TypeOK, Grows, NEW c \in Consumer, NEW n \in Message, JobInv(job[c][n], n),
           NEW D \in SUBSET Device,
           job'[c][n] = MovedIn(job[c][n], D),
           \A d \in Device \ D : row'[d] = row[d]
    PROVE  JobInv(job[c][n], n)'
<1> DEFINE j == job[c][n]
           i == job'[c][n]
<1>1. j \in Job
  BY DEF TypeOK
<1>2. j.to \subseteq Device /\ j.left \in Nat
  BY <1>1 DEF Job, Attempts
<1>3. /\ i.at = j.at /\ i.left = j.left /\ i.to = j.to /\ i.copies = j.copies
      /\ j.at = "send" => i.moved = j.moved \cup D
  BY <1>1, MovedInType
<1>4. QED
  BY <1>2, <1>3 DEF JobInv, Grows, Attempts

\* A job that has not looked anything up, or is over.
LEMMA JobFresh ==
    ASSUME NEW c \in Consumer, NEW n \in Message, job'[c][n] \in {NoJob, NewJob}
    PROVE  JobInv(job[c][n], n)'
BY JobShapes DEF JobInv

LEMMA JobHandled ==
    ASSUME NEW c \in Consumer, NEW n \in Message, job'[c][n] = Handled,
           n \in sent' \/ n \in Push \cap unreachable'
    PROVE  JobInv(job[c][n], n)'
BY JobShapes DEF JobInv

\* An accepted push: the job's next state after a round or an outage.
LEMMA JobSent ==
    ASSUME TypeOK, TypeOK', Grows, NEW c \in Consumer, NEW n \in Message,
           JobInv(job[c][n], n),
           NEW ok \in SUBSET Device,
           Multicast(c, n, ok) \/ MulticastThrows(c, n, ok)
    PROVE  JobInv(job[c][n], n)'
<1> DEFINE j == job[c][n]
           a == Accepted(j, ok)
<1>1. /\ j \in Job /\ j.at = "send" /\ ok \subseteq j.to \cap Live /\ n \in Push
      /\ j.to \subseteq Device /\ j.left \in 0..Attempts /\ j.left # 0
  BY DEF Multicast, MulticastThrows, Sent, TypeOK, Job, JobInv
<1>2. /\ a \in Job /\ a.to = j.to /\ a.left = j.left /\ a.moved = j.moved /\ a.at = j.at
      /\ \A d \in Device : a.copies[d] = IF d \in ok THEN j.copies[d] + 1 ELSE j.copies[d]
  <2>1. j.copies \in [Device -> Nat]
    BY <1>1 DEF Job
  <2>2. QED
    BY <1>1, <2>1 DEF Accepted, Job
<1>3. /\ ok # {} => n \in sent'
      /\ \A d \in Device : a.copies[d] <= 1 /\ (a.copies[d] # 0 => n \in sent')
      /\ \A d \in j.to \ ok : a.copies[d] = 0
  <2>1. ok # {} => n \in sent'
    BY DEF Multicast, MulticastThrows, Sent
  <2>2. \A d \in Device : j.copies[d] <= 1 /\ (j.copies[d] # 0 => n \in sent)
    BY DEF JobInv
  <2>3. \A d \in j.to : j.copies[d] = 0
    BY <1>1 DEF JobInv
  <2>4. sent \subseteq sent'
    BY DEF Grows
  <2>5. QED
    BY <1>1, <1>2, <2>1, <2>2, <2>3, <2>4
<1>4. \A d \in j.to \ j.moved : row'[d].user = UserOf[n]
  <2>1. row' = row
    BY DEF Multicast, MulticastThrows
  <2>2. QED
    BY <1>1, <2>1 DEF JobInv
<1>5. ASSUME NEW i \in Job, i.at = "drop", i.copies = a.copies, job' = [job EXCEPT ![c][n] = i],
             unreachable' = IF i.at = "drop" /\ NobodyAccepted(i)
                            THEN unreachable \cup {n} ELSE unreachable
      PROVE  n \in sent' \/ n \in Push \cap unreachable'
  <2>1. CASE \A d \in Device : a.copies[d] = 0
    BY <1>1, <1>5, <2>1 DEF NobodyAccepted
  <2>2. CASE \E d \in Device : a.copies[d] # 0
    BY <1>3, <2>2
  <2>3. QED
    BY <2>1, <2>2
<1>6. CASE MulticastThrows(c, n, ok)
  <2> DEFINE i == [a EXCEPT !.at = "drop"]
  <2>1. /\ i \in Job /\ i.at = "drop" /\ i.copies = a.copies /\ i.to = a.to
    BY <1>2 DEF Job
  <2> HIDE DEF i
  <2>2. job' = [job EXCEPT ![c][n] = i] /\ outage' = TRUE
    BY <1>6 DEF MulticastThrows, Sent, i
  <2>3. job'[c][n] = i
    BY <2>2 DEF TypeOK
  <2>4. n \in sent' \/ n \in Push \cap unreachable'
    BY <1>5, <1>6, <2>1, <2>2 DEF MulticastThrows, Sent, i
  <2>5. QED
    BY <1>1, <1>3, <2>1, <2>2, <2>3, <2>4 DEF JobInv
<1>7. CASE Multicast(c, n, ok)
  <2> DEFINE failed == j.to \ ok
             k == j.left - 1
             i == After(a, failed, k)
  <2>1. k \in 0..Attempts /\ failed \in SUBSET Device
    BY <1>1 DEF Attempts
  <2>2. i \in Job
    BY <1>1, <2>1, AfterType
  <2>3. job' = [job EXCEPT ![c][n] = i] /\ job'[c][n] = i
    BY <1>7 DEF Multicast, Sent, TypeOK
  <2>4. CASE failed = {}
    <3>1. i = Handled
      BY <2>4 DEF After
    <3>2. n \in sent'
      BY <1>1, <1>3, <2>4 DEF JobInv
    <3>3. QED
      BY <2>3, <3>1, <3>2, JobHandled
  <2>5. CASE failed # {}
    <3>1. /\ i.at = (IF k = 0 THEN "drop" ELSE "send") /\ i.to = failed /\ i.left = k
          /\ i.copies = a.copies /\ i.moved = a.moved
      BY <1>2, <2>5 DEF After, Job
    <3>2. \A d \in failed \cap Live : failures' >= Attempts - k
      <4>1. SUFFICES ASSUME NEW d \in failed \cap Live PROVE failures' >= Attempts - k
        OBVIOUS
      <4>2. failures >= Attempts - j.left
        BY <1>1, <4>1 DEF JobInv
      <4>3. /\ IsFiniteSet((j.to \cap Live) \ ok)
            /\ Cardinality((j.to \cap Live) \ ok) \in Nat
        BY <1>1, NotificationAssumption, FS_Subset, FS_CardinalityType
      <4>4. Cardinality((j.to \cap Live) \ ok) # 0
        BY <4>1, <4>3, FS_EmptySet
      <4>5. failures' = failures + Cardinality((j.to \cap Live) \ ok)
        BY <1>7 DEF Multicast
      <4>6. failures \in Nat
        BY DEF Grows
      <4>7. QED
        BY <1>1, <4>2, <4>3, <4>4, <4>5, <4>6 DEF Attempts
    <3>3. k = 0 => n \in sent' \/ n \in Push \cap unreachable'
      BY <1>5, <1>7, <2>2, <2>3, <3>1 DEF Multicast, Sent
    <3>4. \A d \in failed : i.copies[d] = 0
      BY <1>3, <3>1
    <3> HIDE DEF i
    <3>5. QED
      BY <1>1, <1>2, <1>3, <1>4, <2>1, <2>3, <2>5, <3>1, <3>2, <3>3, <3>4 DEF JobInv, Attempts
  <2>6. QED
    BY <2>4, <2>5
<1>8. QED
  BY <1>6, <1>7

\* The conditions under which the rest of a step's jobs keep theirs.
JobsInv == \A c \in Consumer, n \in Message : JobInv(job[c][n], n)

\* A consumer's step on one message.
LEMMA SendKeepsJobs ==
    ASSUME TypeOK, TypeOK', Grows, JobsInv, NEW c \in Consumer, NEW n \in Message,
           Send(c, n) \/ CallFails(c, n) \/ \E ok \in SUBSET Device : MulticastThrows(c, n, ok)
    PROVE  JobsInv'
<1>0. JobInv(job[c][n], n)
  BY DEF JobsInv
<1>1. ASSUME row' = row, JobInv(job[c][n], n)',
             \A e \in Consumer, k \in Message : e # c \/ k # n => job'[e][k] = job[e][k]
      PROVE  JobsInv'
  <2>1. ASSUME NEW e \in Consumer, NEW k \in Message, e # c \/ k # n
        PROVE  JobInv(job[e][k], k)'
    BY <1>1, <2>1, JobKept DEF JobsInv
  <2>2. QED
    BY <1>1, <2>1 DEF JobsInv
<1>2. CASE Reject(c, n) \/ DeleteMessage(c, n) \/ CallFails(c, n)
  <2>1. job' = [job EXCEPT ![c][n] = NoJob] /\ row' = row
    BY <1>2 DEF Reject, DeleteMessage, CallFails
  <2>2. job'[c][n] = NoJob /\ \A e \in Consumer, k \in Message :
           e # c \/ k # n => job'[e][k] = job[e][k]
    BY <2>1 DEF TypeOK
  <2>3. QED
    BY <1>1, <2>1, <2>2, JobFresh
<1>3. CASE SendMail(c, n)
  <2> DEFINE i == [job[c][n] EXCEPT !.at = "delete"]
  <2>1. job' = [job EXCEPT ![c][n] = i] /\ row' = row /\ n \in sent'
    BY <1>3 DEF SendMail, TypeOK
  <2>2. /\ i.at = "delete" /\ i.copies = job[c][n].copies
    BY DEF TypeOK, Job
  <2> HIDE DEF i
  <2>3. job'[c][n] = i /\ \A e \in Consumer, k \in Message :
           e # c \/ k # n => job'[e][k] = job[e][k]
    BY <2>1 DEF TypeOK
  <2>4. JobInv(job[c][n], n)'
    BY <1>0, <2>1, <2>2, <2>3 DEF JobInv
  <2>5. QED
    BY <1>1, <2>1, <2>3, <2>4
<1>4. CASE LookupTokens(c, n)
  <2> DEFINE D == Registered(UserOf[n])
  <2>1. /\ D \in SUBSET Device /\ D # {} /\ n \in Push
        /\ \A d \in D : row[d].user = UserOf[n]
    BY <1>4 DEF LookupTokens, Registered
  <2>2. job' = [job EXCEPT ![c][n] = JobAt("send", D, Attempts)] /\ row' = row
    BY <1>4 DEF LookupTokens
  <2> HIDE DEF D
  <2>3. job'[c][n] = JobAt("send", D, Attempts) /\ \A e \in Consumer, k \in Message :
           e # c \/ k # n => job'[e][k] = job[e][k]
    BY <2>2 DEF TypeOK
  <2>4. JobInv(job[c][n], n)'
    <3>1. failures' \in Nat
      BY DEF Grows
    <3>2. QED
      BY <2>1, <2>2, <2>3, <3>1, LookedUpType DEF JobInv, Attempts
  <2>5. QED
    BY <1>1, <2>2, <2>3, <2>4
<1>5. ASSUME NEW ok \in SUBSET Device, Multicast(c, n, ok) \/ MulticastThrows(c, n, ok)
      PROVE  JobsInv'
  <2>1. row' = row
    BY <1>5 DEF Multicast, MulticastThrows
  <2>2. \A e \in Consumer, k \in Message : e # c \/ k # n => job'[e][k] = job[e][k]
    BY <1>5 DEF Multicast, MulticastThrows, Sent, TypeOK
  <2>3. JobInv(job[c][n], n)'
    BY <1>0, <1>5, JobSent
  <2>4. QED
    BY <1>1, <2>1, <2>2, <2>3
<1>6. CASE DropTokens(c, n)
  <2> DEFINE D == job[c][n].to
             W == WithMoved(D)
  <2>1. D \in SUBSET Device
    BY DEF TypeOK, Job
  <2>2. n \in sent' \/ n \in Push \cap unreachable'
    BY <1>0, <1>6 DEF DropTokens, JobInv, Grows
  <2>3. job' = [W EXCEPT ![c][n] = Handled] /\ \A d \in Device \ D : row'[d] = row[d]
    BY <1>6 DEF DropTokens
  <2>4. /\ job'[c][n] = Handled
        /\ \A e \in Consumer, k \in Message :
              e # c \/ k # n => job'[e][k] = MovedIn(job[e][k], D)
    <3>1. W = [e \in Consumer |-> [k \in Message |-> MovedIn(job[e][k], D)]]
      BY DEF WithMoved
    <3> HIDE DEF W, D
    <3>2. QED
      BY <2>3, <3>1
  <2>5. JobInv(job[c][n], n)'
    BY <2>2, <2>4, JobHandled
  <2>6. ASSUME NEW e \in Consumer, NEW k \in Message, e # c \/ k # n
        PROVE  JobInv(job[e][k], k)'
    BY <2>1, <2>3, <2>4, <2>6, JobMoved DEF JobsInv
  <2>7. QED
    BY <2>5, <2>6 DEF JobsInv
<1>7. QED
  BY <1>2, <1>3, <1>4, <1>5, <1>6 DEF Send

\* A step changes the history one way only.
LEMMA NextGrows == TypeOK /\ TypeOK' /\ [Next]_vars => Grows
<1> SUFFICES ASSUME TypeOK, TypeOK', [Next]_vars PROVE Grows
  OBVIOUS
<1>1. /\ failures \in Nat /\ failures' \in Nat /\ outage \in BOOLEAN /\ outage' \in BOOLEAN
  BY NotificationAssumption DEF TypeOK
<1>2. ASSUME UNCHANGED <<history, failures, outage>> PROVE Grows
  BY <1>1, <1>2 DEF Grows, history
<1>3. ASSUME NEW c \in Consumer, NEW n \in Message, Send(c, n) PROVE Grows
  <2>1. CASE SendMail(c, n)
    BY <1>1, <2>1 DEF SendMail, Grows, faulty
  <2>2. CASE LookupTokens(c, n) \/ Reject(c, n) \/ DropTokens(c, n) \/ DeleteMessage(c, n)
    BY <1>2, <2>2 DEF LookupTokens, Reject, DropTokens, DeleteMessage, faulty
  <2>3. ASSUME NEW ok \in SUBSET Device, Multicast(c, n, ok) PROVE Grows
    <3>1. Cardinality((job[c][n].to \cap Live) \ ok) \in Nat
      BY NotificationAssumption, FS_Subset, FS_CardinalityType
    <3>2. QED
      BY <1>1, <2>3, <3>1 DEF Multicast, Sent, Grows
  <2>4. QED
    BY <1>3, <2>1, <2>2, <2>3 DEF Send
<1>4. ASSUME NEW c \in Consumer, NEW n \in Message, CallFails(c, n) PROVE Grows
  BY <1>1, <1>4 DEF CallFails, Grows
<1>5. ASSUME NEW c \in Consumer, NEW n \in Message, NEW ok \in SUBSET Device,
             MulticastThrows(c, n, ok)
      PROVE  Grows
  BY <1>1, <1>5 DEF MulticastThrows, Sent, Grows
<1>6. CASE \E n \in Message : Publish(n) \/ Reappear(n)
  BY <1>2, <1>6 DEF Publish, Reappear, faulty
<1>7. CASE \E c \in Consumer : Restart(c) \/ \E S \in SUBSET Message : Receive(c, S)
  BY <1>2, <1>7 DEF Restart, Receive, faulty
<1>8. CASE \E l \in Login : \/ \E u \in User, d \in Device : FindToken(l, u, d)
                          \/ SaveToken(l) \/ LoginFails(l)
  BY <1>2, <1>8 DEF FindToken, SaveToken, LoginFails, faulty
<1>9. CASE UNCHANGED vars
  BY <1>2, <1>9 DEF vars, faulty
<1>10. QED
  BY <1>3, <1>4, <1>5, <1>6, <1>7, <1>8, <1>9 DEF Next

\* Nothing is queued, under way or registered at the start.
LEMMA InitInv == Init => NotificationInv
<1> SUFFICES ASSUME Init PROVE NotificationInv
  OBVIOUS
<1>1. \A c \in Consumer, n \in Message : job[c][n] = NoJob
  BY DEF Init
<1>2. \A n \in Message : message[n] # "deleted"
  BY DEF Init
<1>3. \A c \in Consumer, n \in Message : JobInv(job[c][n], n)
  BY <1>1, JobShapes DEF JobInv
<1>4. QED
  BY <1>2, <1>3 DEF NotificationInv, NoNotificationLost

\* Every step keeps the invariant.
LEMMA NextInv == TypeOK /\ TypeOK' /\ NotificationInv /\ [Next]_vars => NotificationInv'
<1> SUFFICES ASSUME TypeOK, TypeOK', NotificationInv, [Next]_vars PROVE NotificationInv'
  OBVIOUS
<1>1. Grows
  BY NextGrows
<1>2. JobsInv
  BY DEF NotificationInv, JobsInv
<1>3. ASSUME \A n \in Message : message'[n] = "deleted" => message[n] = "deleted"
      PROVE  NoNotificationLost'
  BY <1>1, <1>3 DEF Grows, NotificationInv, NoNotificationLost
<1>4. ASSUME NoNotificationLost', JobsInv' PROVE NotificationInv'
  BY <1>4 DEF NotificationInv, JobsInv
<1>5. ASSUME job' = job, row' = row PROVE JobsInv'
  BY <1>1, <1>2, <1>5, JobKept DEF JobsInv
<1>6. ASSUME NEW n \in Message, Publish(n) \/ Reappear(n) PROVE NotificationInv'
  BY <1>3, <1>4, <1>5, <1>6 DEF Publish, Reappear, Published, Returned, TypeOK
<1>7. ASSUME NEW c \in Consumer, NEW n \in Message,
             Send(c, n) \/ CallFails(c, n) \/ \E ok \in SUBSET Device : MulticastThrows(c, n, ok)
      PROVE  NotificationInv'
  <2>1. JobsInv'
    BY <1>1, <1>2, <1>7, SendKeepsJobs
  <2>2. NoNotificationLost'
    <3>1. CASE message' = message
      BY <1>3, <3>1
    <3>2. CASE DeleteMessage(c, n)
      <4>1. n \in sent \/ n \in Push \cap unreachable
        BY <1>2, <3>2 DEF DeleteMessage, JobsInv, JobInv
      <4>2. \A k \in Message \ {n} : message'[k] = message[k]
        BY <3>2 DEF DeleteMessage, Deleted, TypeOK
      <4>3. QED
        BY <1>1, <4>1, <4>2 DEF Grows, NotificationInv, NoNotificationLost
    <3>3. message' = message \/ DeleteMessage(c, n)
      BY <1>7 DEF Send, SendMail, LookupTokens, Reject, Multicast, DropTokens, CallFails,
                  MulticastThrows
    <3>4. QED
      BY <3>1, <3>2, <3>3
  <2>3. QED
    BY <1>4, <2>1, <2>2
<1>8. ASSUME NEW c \in Consumer, NEW S \in SUBSET Message, Receive(c, S)
      PROVE  NotificationInv'
  <2>1. NoNotificationLost'
    BY <1>3, <1>8 DEF Receive, Received, TypeOK
  <2>2. ASSUME NEW e \in Consumer, NEW n \in Message PROVE JobInv(job[e][n], n)'
    <3>1. CASE e = c
      <4>1. job'[e][n] \in {NoJob, NewJob}
        BY <1>8, <3>1 DEF Receive, TypeOK
      <4>2. QED
        BY <4>1, JobFresh
    <3>2. CASE e # c
      <4>1. job'[e][n] = job[e][n] /\ row' = row
        BY <1>8, <3>2 DEF Receive, TypeOK
      <4>2. QED
        BY <1>1, <1>2, <4>1, JobKept DEF JobsInv
    <3>3. QED
      BY <3>1, <3>2
  <2>3. QED
    BY <1>4, <2>1, <2>2 DEF JobsInv
<1>9. ASSUME NEW c \in Consumer, Restart(c) PROVE NotificationInv'
  <2>1. NoNotificationLost'
    BY <1>3, <1>9 DEF Restart
  <2>2. ASSUME NEW e \in Consumer, NEW n \in Message PROVE JobInv(job[e][n], n)'
    <3>1. CASE e = c
      <4>1. job'[e][n] = NoJob
        BY <1>9, <3>1 DEF Restart, TypeOK
      <4>2. QED
        BY <4>1, JobFresh
    <3>2. CASE e # c
      <4>1. job'[e][n] = job[e][n] /\ row' = row
        BY <1>9, <3>2 DEF Restart, TypeOK
      <4>2. QED
        BY <1>1, <1>2, <4>1, JobKept DEF JobsInv
    <3>3. QED
      BY <3>1, <3>2
  <2>3. QED
    BY <1>4, <2>1, <2>2 DEF JobsInv
<1>10. ASSUME NEW l \in Login,
              LoginFails(l) \/ \E u \in User, d \in Device : FindToken(l, u, d)
       PROVE  NotificationInv'
  <2>1. UNCHANGED <<message, job, row>>
    BY <1>10 DEF FindToken, LoginFails
  <2>2. QED
    BY <1>3, <1>4, <1>5, <2>1
<1>11. ASSUME NEW l \in Login, SaveToken(l) PROVE NotificationInv'
  <2> DEFINE d == login[l].device
  <2>0. d \in Device
    BY <1>11 DEF SaveToken, TypeOK
  <2>1. NoNotificationLost'
    BY <1>3, <1>11 DEF SaveToken
  <2>2. \A g \in Device \ {d} : row'[g] = row[g]
    BY <1>11 DEF SaveToken, TypeOK
  <2>3. CASE row[d].user = login[l].user
    <3>1. job' = job /\ \A g \in Device : row'[g].user = row[g].user
      BY <1>11, <2>0, <2>3 DEF SaveToken, TypeOK
    <3>2. ASSUME NEW e \in Consumer, NEW n \in Message PROVE JobInv(job[e][n], n)'
      <4>1. job[e][n] \in Job /\ job'[e][n] = job[e][n]
        BY <3>1 DEF TypeOK
      <4>2. job[e][n].to \subseteq Device /\ job[e][n].left \in Nat
        BY <4>1 DEF Job, Attempts
      <4>3. JobInv(job[e][n], n)
        BY <1>2 DEF JobsInv
      <4>4. QED
        BY <1>1, <3>1, <4>1, <4>2, <4>3 DEF JobInv, Grows, Attempts
    <3>3. QED
      BY <1>4, <2>1, <3>2 DEF JobsInv
  <2>4. CASE row[d].user # login[l].user
    <3>1. job' = WithMoved({d})
      BY <1>11, <2>4 DEF SaveToken
    <3>2. ASSUME NEW e \in Consumer, NEW n \in Message PROVE JobInv(job[e][n], n)'
      <4>1. job'[e][n] = MovedIn(job[e][n], {d}) /\ {d} \in SUBSET Device
        BY <2>0, <3>1 DEF WithMoved
      <4>2. QED
        BY <1>1, <1>2, <2>2, <4>1, JobMoved DEF JobsInv
    <3>3. QED
      BY <1>4, <2>1, <3>2 DEF JobsInv
  <2>5. QED
    BY <2>3, <2>4
<1>12. CASE UNCHANGED vars
  BY <1>3, <1>4, <1>5, <1>12 DEF vars
<1>13. QED
  BY <1>6, <1>7, <1>8, <1>9, <1>10, <1>11, <1>12 DEF Next

\* What every notification and every job owes, for any number of consumers,
\* redeliveries, logins and failures.
THEOREM JobsAccounted == Spec => []NotificationInv
<1>1. TypeOK /\ NotificationInv /\ [Next]_vars => (TypeOK /\ NotificationInv)'
  BY NextTypeOK, NextInv
<1>2. QED
  BY <1>1, InitTypeOK, InitInv, PTL DEF Spec

\* No message leaves the queue before somebody accepted its notification, or
\* every device of a push was found unusable (sendNotifications).
THEOREM NothingLost == Spec => []NoNotificationLost
<1>1. NotificationInv => NoNotificationLost
  BY DEF NotificationInv
<1>2. QED
  BY <1>1, JobsAccounted, PTL

\* The recursion of sendNotification retries only the devices that failed.
THEOREM CopiesBounded == Spec => []OneCopyPerDelivery
<1>1. NotificationInv => OneCopyPerDelivery
  BY DEF NotificationInv, JobInv, OneCopyPerDelivery
<1>2. QED
  BY <1>1, JobsAccounted, PTL

\* A push goes to devices of its user, but for those that changed hands since
\* they were looked up (getActiveTokensForUser).
THEOREM PushesStayHome == Spec => []PushesToOwnDevices
<1>1. NotificationInv => PushesToOwnDevices
  BY DEF NotificationInv, JobInv, PushesToOwnDevices
<1>2. QED
  BY <1>1, JobsAccounted, PTL

\* A device FCM accepts stays registered until three sends failed or FCM was
\* out (sendNotification, handleNotificationResponse).
THEOREM RegistrationsStand == Spec => LiveDevicesKept
<1>1. TypeOK /\ TypeOK' /\ NotificationInv /\ [Next]_vars => [LiveRegistrationsStand]_vars
  <2> SUFFICES ASSUME TypeOK, TypeOK', NotificationInv, Next, NEW d \in Live,
                      row[d] # NoRow, row'[d] = NoRow
               PROVE  failures >= 3 \/ outage
    BY DEF LiveRegistrationsStand
  <2>0. d \in Device
    BY NotificationAssumption
  <2>1. ASSUME NEW c \in Consumer, NEW n \in Message, DropTokens(c, n)
        PROVE  failures >= 3 \/ outage
    <3>1. d \in job[c][n].to
      BY <2>0, <2>1 DEF DropTokens
    <3>2. QED
      BY <2>1, <3>1 DEF DropTokens, NotificationInv, JobInv, Attempts
  <2>2. ASSUME NEW l \in Login, SaveToken(l) PROVE FALSE
    <3>1. login[l] \in [user : User, device : Device, id : Nat]
      BY <2>2 DEF SaveToken, TypeOK
    <3>2. login[l].device = d
      BY <2>0, <2>2 DEF SaveToken, TypeOK
    <3>3. row'[d].user = login[l].user
      BY <2>0, <2>2, <3>2 DEF SaveToken, TypeOK
    <3>4. QED
      BY <3>1, <3>3, NotificationAssumption DEF NoRow
  <2>3. row' # row
    OBVIOUS
  <2>4. \/ \E c \in Consumer, n \in Message : DropTokens(c, n)
        \/ \E l \in Login : SaveToken(l)
    BY <2>3 DEF Next, Publish, Reappear, Receive, Send, SendMail, LookupTokens, Reject,
               Multicast, DeleteMessage, CallFails, MulticastThrows, Restart, FindToken,
               LoginFails
  <2>5. QED
    BY <2>1, <2>2, <2>4
<1>2. QED
  BY <1>1, NotificationTypeCorrect, JobsAccounted, PTL DEF Spec, LiveDevicesKept

-----------------------------------------------------------------------------
(* Publishers and consumers are a reliable queue.                           *)

Waiting == {n \in Message : message[n] \in {"visible", "hidden"}}
Settled == sent \cup (Push \cap unreachable)
Gone == {n \in Message : message[n] = "deleted"}

\* What a consumer works on was delivered, so it is in the queue or was.
Delivered ==
    \A c \in Consumer, n \in Message : job[c][n].at # "none" => message[n] # "unborn"

LEMMA InitQueue == Init => Delivered /\ Queue!Init
<1> SUFFICES ASSUME Init PROVE Delivered /\ Queue!Init
  OBVIOUS
<1>1. Delivered
  BY JobShapes DEF Init, Delivered
<1>2. Queue!Init
  BY DEF Init, Queue!Init
<1>3. QED
  BY <1>1, <1>2

\* A consumer works on what it was already working on.
LEMMA SendStays ==
    ASSUME TypeOK, NEW c \in Consumer, NEW n \in Message,
           \/ Send(c, n) \/ CallFails(c, n)
           \/ \E ok \in SUBSET Device : MulticastThrows(c, n, ok)
    PROVE  /\ job[c][n].at # "none"
           /\ \A e \in Consumer, k \in Message :
                 e # c \/ k # n => job'[e][k].at = job[e][k].at
<1>1. CASE DropTokens(c, n)
  <2> DEFINE D == job[c][n].to
  <2>1. D \in SUBSET Device
    BY DEF TypeOK, Job
  <2>2. \A e \in Consumer, k \in Message : WithMoved(D)[e][k].at = job[e][k].at
    BY <2>1, MovedInType DEF WithMoved, TypeOK
  <2>3. \A e \in Consumer, k \in Message :
            e # c \/ k # n => job'[e][k] = WithMoved(D)[e][k]
    BY <1>1, <2>1, MovedType DEF DropTokens
  <2>4. job[c][n].at = "drop"
    BY <1>1 DEF DropTokens
  <2>5. QED
    BY <2>2, <2>3, <2>4
<1>2. CASE SendMail(c, n) \/ LookupTokens(c, n) \/ Reject(c, n) \/ DeleteMessage(c, n)
           \/ CallFails(c, n)
  BY <1>2 DEF SendMail, LookupTokens, Reject, DeleteMessage, CallFails, TypeOK
<1>3. CASE \E ok \in SUBSET Device : Multicast(c, n, ok) \/ MulticastThrows(c, n, ok)
  BY <1>3 DEF Multicast, MulticastThrows, Sent, TypeOK
<1>4. QED
  BY <1>1, <1>2, <1>3 DEF Send

\* Every step keeps Delivered, and is a step of the queue or none of its.
LEMMA QueueStep ==
    ASSUME TypeOK, NotificationInv, Delivered, [Next]_vars
    PROVE  Delivered' /\ [Queue!Next]_<<Waiting, Settled, Gone>>
<1> USE DEF Waiting, Settled, Gone
<1> DEFINE Same == UNCHANGED <<Waiting, Settled, Gone>>
<1>1. ASSUME NEW n \in Message, Publish(n) PROVE Delivered' /\ Queue!Publish(n)
  <2>1. /\ UNCHANGED <<job, sent, unreachable>>
        /\ message[n] = "unborn" /\ message'[n] = "visible"
        /\ \A k \in Message \ {n} : message'[k] = message[k]
    BY <1>1 DEF Publish, Published, TypeOK, history
  <2>2. QED
    BY <2>1 DEF Delivered, Queue!Publish
<1>2. ASSUME NEW n \in Message, Reappear(n) PROVE Delivered' /\ Same
  <2>1. /\ UNCHANGED <<job, sent, unreachable>>
        /\ message[n] = "hidden" /\ message'[n] = "visible"
        /\ \A k \in Message \ {n} : message'[k] = message[k]
    BY <1>2 DEF Reappear, Returned, TypeOK, history
  <2>2. QED
    BY <2>1 DEF Delivered
<1>3. ASSUME NEW c \in Consumer, NEW S \in SUBSET Message, Receive(c, S)
      PROVE  Delivered' /\ Same
  <2>1. /\ UNCHANGED <<sent, unreachable>>
        /\ \A n \in Message : IF n \in S THEN message[n] = "visible" /\ message'[n] = "hidden"
                              ELSE message'[n] = message[n]
    BY <1>3 DEF Receive, Receivable, Received, TypeOK, history
  <2>2. \A e \in Consumer, n \in Message :
            job'[e][n].at # "none" => n \in S \/ job[e][n].at # "none"
    BY <1>3, JobShapes DEF Receive, TypeOK
  <2>3. QED
    BY <2>1, <2>2 DEF Delivered
<1>4. ASSUME NEW c \in Consumer, NEW n \in Message, DeleteMessage(c, n)
      PROVE  Delivered' /\ (Same \/ Queue!Delete(n))
  <2>1. /\ UNCHANGED <<sent, unreachable>>
        /\ job[c][n].at = "delete" /\ message'[n] = "deleted"
        /\ \A k \in Message \ {n} : message'[k] = message[k]
    BY <1>4 DEF DeleteMessage, Deleted, TypeOK, history
  <2>2. message[n] \in {"visible", "hidden", "deleted"} /\ n \in Settled
    BY <2>1 DEF Delivered, NotificationInv, JobInv, TypeOK
  <2>3. \A e \in Consumer, k \in Message : e # c \/ k # n => job'[e][k].at = job[e][k].at
    BY <1>4, SendStays DEF Send
  <2>4. Delivered'
    BY <2>1, <2>3 DEF Delivered
  <2>5. CASE message[n] = "deleted"
    BY <2>1, <2>4, <2>5
  <2>6. CASE message[n] # "deleted"
    BY <2>1, <2>2, <2>4, <2>6 DEF Queue!Delete
  <2>7. QED
    BY <2>5, <2>6
<1>5. ASSUME NEW c \in Consumer, NEW n \in Message, message' = message,
             \/ Send(c, n) \/ CallFails(c, n)
             \/ \E ok \in SUBSET Device : MulticastThrows(c, n, ok)
      PROVE  Delivered' /\ (Same \/ Queue!Settle(n))
  <2>1. Delivered'
    BY <1>5, SendStays DEF Delivered
  <2>2. sent' \in {sent, sent \cup {n}} /\ unreachable' \in {unreachable, unreachable \cup {n}}
    BY <1>5 DEF Send, SendMail, LookupTokens, Reject, Multicast, DropTokens, DeleteMessage,
         CallFails, MulticastThrows, Sent, history
  <2>3. Settled' \in {Settled, Settled \cup {n}}
    BY <2>2
  <2>4. QED
    BY <1>5, <2>1, <2>3 DEF Queue!Settle
<1>6. ASSUME NEW c \in Consumer, Restart(c) PROVE Delivered' /\ Same
  <2>1. /\ UNCHANGED <<message, sent, unreachable>>
        /\ \A e \in Consumer, n \in Message :
              job'[e][n].at # "none" => job[e][n].at # "none"
    BY <1>6, JobShapes DEF Restart, TypeOK, history
  <2>2. QED
    BY <2>1 DEF Delivered
<1>7. ASSUME NEW l \in Login,
             \/ \E u \in User, d \in Device : FindToken(l, u, d)
             \/ SaveToken(l) \/ LoginFails(l)
      PROVE  Delivered' /\ Same
  <2>1. UNCHANGED <<message, sent, unreachable>>
    BY <1>7 DEF FindToken, SaveToken, LoginFails, history
  <2>2. CASE job' = job
    BY <2>1, <2>2 DEF Delivered
  <2>3. CASE SaveToken(l)
    <3>1. {login[l].device} \in SUBSET Device
      BY <2>3 DEF SaveToken, TypeOK
    <3>2. job' = job \/ job' = WithMoved({login[l].device})
      BY <2>3 DEF SaveToken
    <3>3. \A e \in Consumer, n \in Message : job'[e][n].at = job[e][n].at
      BY <3>1, <3>2, MovedInType DEF WithMoved, TypeOK
    <3>4. QED
      BY <2>1, <3>3 DEF Delivered
  <2>4. QED
    BY <1>7, <2>2, <2>3 DEF FindToken, LoginFails
<1>8. CASE UNCHANGED vars
  BY <1>8 DEF vars, history, Delivered
<1> HIDE DEF Waiting, Settled, Gone
<1>9. \A n \in Message :
         Queue!Publish(n) \/ Queue!Settle(n) \/ Queue!Delete(n) => Queue!Next
  BY DEF Queue!Next
<1>10. ASSUME NEW c \in Consumer, NEW n \in Message,
              \/ Send(c, n) \/ CallFails(c, n)
              \/ \E ok \in SUBSET Device : MulticastThrows(c, n, ok)
       PROVE  message' = message \/ DeleteMessage(c, n)
  BY <1>10 DEF Send, SendMail, LookupTokens, Reject, Multicast, DropTokens, CallFails,
     MulticastThrows
<1>11. QED
  BY <1>1, <1>2, <1>3, <1>4, <1>5, <1>6, <1>7, <1>8, <1>9, <1>10 DEF Next

\* Publishers and consumers implement the reliable queue (ImplementsQueue):
\* crashed, late and repeated deliveries neither lose a notification nor bring
\* its message back.
THEOREM QueueImplemented == Spec => ImplementsQueue
<1>1. Init => Delivered /\ Queue!Init
  BY InitQueue
<1>2. TypeOK /\ NotificationInv /\ Delivered /\ [Next]_vars
      => /\ Delivered'
         /\ [Queue!Next]_<<{n \in Message : message[n] \in {"visible", "hidden"}},
                           sent \cup (Push \cap unreachable),
                           {n \in Message : message[n] = "deleted"}>>
  BY QueueStep DEF Waiting, Settled, Gone
<1>3. QED
  BY <1>1, <1>2, NotificationTypeCorrect, JobsAccounted, PTL
     DEF Spec, ImplementsQueue, Queue!Spec, Queue!vars

==============================================================================

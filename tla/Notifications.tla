---------------------------- MODULE Notifications ----------------------------
(***************************************************************************)
(* Mails and web pushes.  Handlers queue notifications; consumers poll the *)
(* queue, hand every message to the strategy of its type and delete it     *)
(* when the strategy returns.  A mail goes out through the settings of the *)
(* user's organization; a push goes to every device registered for the     *)
(* user, failed devices are tried again and unregistered in the end.       *)
(* Logins register devices meanwhile.                                      *)
(***************************************************************************)
EXTENDS Integers, FiniteSets, SqsQueue

CONSTANTS
    Message,    \* notifications
    Mail, Push, \* those of type email and webPush; no strategy has the others
    User, NoUser,
    UserOf,     \* the user a notification is for
    Mailable,   \* users that exist and whose organization has mail settings
    Device,     \* FCM tokens of browsers
    Live,       \* tokens FCM accepts; it rejects the others for good
    Login,      \* login requests at a time
    Consumer,   \* processes that poll the queue
    BatchSize,  \* messages taken by one poll, 5 in the code
    MaxFaults,  \* bound: failed calls, outages and crashes
    MaxFailures \* bound: sends to a live device that fail

ASSUME NotificationAssumption ==
    /\ Mail \subseteq Message /\ Push \subseteq Message /\ Mail \cap Push = {}
    /\ NoUser \notin User
    /\ UserOf \in [Message -> User] /\ Mailable \subseteq User
    /\ Live \subseteq Device /\ IsFiniteSet(Device) /\ IsFiniteSet(Login)
    /\ BatchSize \in Nat /\ MaxFaults \in Nat /\ MaxFailures \in Nat

VARIABLES
    message,    \* where every notification's message is
    job,        \* what every consumer is doing with every message it took
    row,        \* every device's row in the token table
    login,      \* upsertToken calls under way
    sent,       \* history: notifications that a mail server or device accepted
    unreachable,\* history: pushes that no device accepted on some delivery
    faults, failures, outage

history == <<sent, unreachable>>
faulty == <<faults, failures, outage>>
vars == <<message, job, row, login, history, faulty>>

\* Attempts is the default of sendNotification's parameter retries.
TwoAttempts == 2    \* mutant
Attempts == 3

\* to: devices still to be reached, or to be unregistered; copies: how often
\* every device accepted the push in this delivery; moved (history): devices
\* whose row changed since the lookup.
JobAt(at, D, k) ==
    [at |-> at, to |-> D, left |-> k, copies |-> [d \in Device |-> 0], moved |-> {}]
NoJob == JobAt("none", {}, 0)
NewJob == JobAt("start", {}, 0)
Handled == JobAt("delete", {}, 0)
Job == [at : {"none", "start", "send", "drop", "delete"}, to : SUBSET Device,
        left : 0..Attempts, copies : [Device -> Nat],
        moved : SUBSET Device]
NoRow == [id |-> 0, user |-> NoUser]
NoLogin == [user |-> NoUser, device |-> NoUser, id |-> 0]

TypeOK ==
    /\ message \in [Message -> {"unborn", "visible", "hidden", "deleted"}]
    /\ job \in [Consumer -> [Message -> Job]]
    /\ \A c \in Consumer, n \in Message : job[c][n].at = "send" => job[c][n].left # 0
    /\ row \in [Device -> {NoRow} \cup [id : Nat \ {0}, user : User]]
    /\ login \in [Login -> {NoLogin} \cup [user : User, device : Device, id : Nat]]
    /\ sent \subseteq Message /\ unreachable \subseteq Message
    /\ faults \in 0..MaxFaults /\ failures \in 0..MaxFailures
    /\ outage \in BOOLEAN

Registered(u) == {d \in Device : row[d].user = u}
Deliverable(n) ==
    \/ n \in Mail /\ UserOf[n] \in Mailable
    \/ n \in Push /\ Registered(UserOf[n]) # {}
AllRegistered == {d \in Device : row[d] # NoRow}     \* of a mutant

Idle(c) == \A n \in Message : job[c][n].at = "none"

Init ==
    /\ message = [n \in Message |-> "unborn"]
    /\ job = [c \in Consumer |-> [n \in Message |-> NoJob]]
    /\ row = [d \in Device |-> NoRow]
    /\ login = [l \in Login |-> NoLogin]
    /\ sent = {} /\ unreachable = {}
    /\ faults = 0 /\ failures = 0 /\ outage = FALSE

-----------------------------------------------------------------------------
(* publishNotification, and the queue.                                      *)

Publish(n) ==
    /\ message[n] = "unborn"
    /\ message' = Published(message, n)
    /\ UNCHANGED <<job, row, login, history, faulty>>

\* A consumer polls again only when all it took has settled.
Receive(c, S) ==
    /\ Idle(c)
    /\ S # {} /\ Receivable(message, S, BatchSize)
    /\ message' = Received(message, S)
    /\ job' = [job EXCEPT ![c] = [n \in Message |-> IF n \in S THEN NewJob ELSE NoJob]]
    /\ UNCHANGED <<row, login, history, faulty>>

Reappear(n) ==
    /\ message[n] = "hidden"
    /\ message' = Returned(message, n)
    /\ UNCHANGED <<job, row, login, history, faulty>>

-----------------------------------------------------------------------------
(* upsertToken: find the device's row, then save.                           *)

FindToken(l, u, d) ==
    /\ login[l] = NoLogin
    /\ login' = [login EXCEPT ![l] = [user |-> u, device |-> d, id |-> row[d].id]]
    /\ UNCHANGED <<message, job, row, history, faulty>>

\* An id no row of the device has had while a login that read it goes on.
FreshId(d) ==
    CHOOSE i \in 1..(Cardinality(Login) + 1) :
        i # row[d].id /\ \A l \in Login : login[l].device = d => login[l].id # i

\* Jobs that looked the devices D up and have not sent to them yet.
MovedIn(j, D) == IF j.at = "send" THEN [j EXCEPT !.moved = @ \cup D] ELSE j
WithMoved(D) == [c \in Consumer |-> [n \in Message |-> MovedIn(job[c][n], D)]]

\* save() updates the row it finds under the id, and inserts one when there
\* is none: also when the row was found before and deleted since.
SaveToken(l) ==
    LET by == login[l].user
        d == login[l].device
        i == login[l].id
    IN  /\ login[l] # NoLogin
        /\ row[d] = NoRow \/ row[d].id = i
        /\ row' = [row EXCEPT ![d] = [id |-> IF i = 0 THEN FreshId(d) ELSE i, user |-> by]]
        /\ job' = IF row[d].user = by THEN job ELSE WithMoved({d})
        /\ login' = [login EXCEPT ![l] = NoLogin]
        /\ UNCHANGED <<message, history, faulty>>

\* Another row has the token by now: the unique constraint fails the login.
LoginFails(l) ==
    /\ login[l] # NoLogin
    /\ row[login[l].device].id \notin {0, login[l].id}
    /\ login' = [login EXCEPT ![l] = NoLogin]
    /\ UNCHANGED <<message, job, row, history, faulty>>

-----------------------------------------------------------------------------
(* sendNotifications: the strategy's send, then deleteMessage.              *)

SendMail(c, n) ==
    /\ n \in Mail /\ UserOf[n] \in Mailable
    /\ job[c][n].at = "start"
    /\ job' = [job EXCEPT ![c][n].at = "delete"]
    /\ sent' = sent \cup {n}
    /\ UNCHANGED <<message, row, login, unreachable, faulty>>

\* Mutants: the devices of every user are looked up; a user without devices
\* is no error, and the message is deleted.
LookupAllTokens(c, n) ==
    /\ n \in Push /\ job[c][n].at = "start"
    /\ AllRegistered # {}
    /\ job' = [job EXCEPT ![c][n] = JobAt("send", AllRegistered, Attempts)]
    /\ UNCHANGED <<message, row, login, history, faulty>>
LookupNoTokens(c, n) ==
    LET D == Registered(UserOf[n]) IN
    /\ n \in Push /\ job[c][n].at = "start"
    /\ job' = [job EXCEPT ![c][n] =
                   IF D = {} THEN Handled ELSE JobAt("send", D, Attempts)]
    /\ UNCHANGED <<message, row, login, history, faulty>>

LookupTokens(c, n) ==
    LET D == Registered(UserOf[n]) IN
    /\ n \in Push /\ job[c][n].at = "start"
    /\ D # {}
    /\ job' = [job EXCEPT ![c][n] = JobAt("send", D, Attempts)]
    /\ UNCHANGED <<message, row, login, history, faulty>>

\* The strategy is missing or throws.  The message is not deleted.
Reject(c, n) ==
    /\ job[c][n].at = "start" /\ ~Deliverable(n)
    /\ job' = [job EXCEPT ![c][n] = NoJob]
    /\ UNCHANGED <<message, row, login, history, faulty>>

\* Mutants of the recursion in sendNotification: all devices are sent to
\* again; the call for the failed ones keeps all its retries.
AfterAll(j, failed, k) ==
    IF failed = {} THEN Handled
    ELSE IF k = 0 THEN [j EXCEPT !.at = "drop", !.to = failed, !.left = 0]
    ELSE [j EXCEPT !.to = failed \cup {d \in Device : j.copies[d] # 0}, !.left = k]
AfterSame(j, failed, k) == IF failed = {} THEN Handled ELSE [j EXCEPT !.to = failed]

\* How a job goes on when some devices failed and k attempts are left.
After(j, failed, k) ==
    IF failed = {} THEN Handled
    ELSE [j EXCEPT !.at = IF k = 0 THEN "drop" ELSE "send", !.to = failed, !.left = k]

NobodyAccepted(j) == \A d \in Device : j.copies[d] = 0
Accepted(j, ok) ==
    [j EXCEPT !.copies = [d \in Device |-> j.copies[d] + (IF d \in ok THEN 1 ELSE 0)]]

\* The devices ok accepted the push; next is how the job goes on.
Sent(c, n, ok, next) ==
    /\ ok \subseteq job[c][n].to \cap Live
    /\ job' = [job EXCEPT ![c][n] = next]
    /\ sent' = IF ok = {} THEN sent ELSE sent \cup {n}
    /\ unreachable' = IF next.at = "drop" /\ NobodyAccepted(next)
                      THEN unreachable \cup {n} ELSE unreachable

\* One sendEachForMulticast, and what its answers make of the job.
Multicast(c, n, ok) ==
    LET j == job[c][n] IN
    /\ j.at = "send"
    /\ Sent(c, n, ok, After(Accepted(j, ok), j.to \ ok, j.left - 1))
    /\ failures' = failures + Cardinality((j.to \cap Live) \ ok)
    /\ failures' <= MaxFailures
    /\ UNCHANGED <<message, row, login, faults, outage>>

\* sendEachForMulticast throws, whoever it reached: all its devices count as
\* failed, without another attempt.
MulticastThrows(c, n, ok) ==
    /\ faults < MaxFaults
    /\ job[c][n].at = "send"
    /\ Sent(c, n, ok, [Accepted(job[c][n], ok) EXCEPT !.at = "drop"])
    /\ faults' = faults + 1 /\ outage' = TRUE
    /\ UNCHANGED <<message, row, login, failures>>

\* deleteTokens, whoever's rows they are by now.
DropTokens(c, n) ==
    LET D == job[c][n].to IN
    /\ job[c][n].at = "drop"
    /\ row' = [d \in Device |-> IF d \in D THEN NoRow ELSE row[d]]
    /\ job' = [WithMoved(D) EXCEPT ![c][n] = Handled]
    /\ UNCHANGED <<message, login, history, faulty>>

DeleteMessage(c, n) ==
    /\ job[c][n].at = "delete"
    /\ message' = Deleted(message, n)
    /\ job' = [job EXCEPT ![c][n] = NoJob]
    /\ UNCHANGED <<row, login, history, faulty>>

\* A query, the mail server or the queue fails.  The server may have accepted
\* the mail all the same.
CallFails(c, n) ==
    /\ faults < MaxFaults
    /\ job[c][n].at \in {"start", "drop", "delete"}
    /\ job' = [job EXCEPT ![c][n] = NoJob]
    /\ sent' \in {sent} \cup (IF n \in Mail /\ UserOf[n] \in Mailable /\ job[c][n].at = "start"
                             THEN {sent \cup {n}} ELSE {})
    /\ faults' = faults + 1
    /\ UNCHANGED <<message, row, login, unreachable, failures, outage>>

\* The process stops with its whole batch and starts polling anew.
Restart(c) ==
    /\ faults < MaxFaults
    /\ ~Idle(c)
    /\ job' = [job EXCEPT ![c] = [n \in Message |-> NoJob]]
    /\ faults' = faults + 1
    /\ UNCHANGED <<message, row, login, history, failures, outage>>

Send(c, n) ==
    \/ SendMail(c, n) \/ LookupTokens(c, n) \/ Reject(c, n)
    \/ \E ok \in SUBSET Device : Multicast(c, n, ok)
    \/ DropTokens(c, n) \/ DeleteMessage(c, n)

Next ==
    \/ \E n \in Message : Publish(n) \/ Reappear(n)
    \/ \E c \in Consumer :
          \/ \E S \in SUBSET Message : Receive(c, S)
          \/ \E n \in Message :
                \/ Send(c, n) \/ CallFails(c, n)
                \/ \E ok \in SUBSET Device : MulticastThrows(c, n, ok)
          \/ Restart(c)
    \/ \E l \in Login :
          \/ \E u \in User, d \in Device : FindToken(l, u, d)
          \/ SaveToken(l) \/ LoginFails(l)

Spec == Init /\ [][Next]_vars

\* Consumers run, the visibility timeout passes, and the queue hands out every
\* message that keeps being visible when somebody asks.  Nobody has to log in.
Fairness ==
    \A n \in Message :
        /\ WF_vars(Reappear(n))
        /\ SF_vars(\E c \in Consumer : \E S \in SUBSET Message : n \in S /\ Receive(c, S))
        /\ \A c \in Consumer : WF_vars(Send(c, n))

FairSpec == Spec /\ Fairness

-----------------------------------------------------------------------------
(* Properties.                                                              *)

\* No notification is lost: its message leaves the queue only when somebody
\* accepted it, or when every device of a push was found unusable, whatever
\* failed and however often it was delivered (sendNotifications).
NoNotificationLost ==
    \A n \in Message : message[n] = "deleted" =>
        n \in sent \/ n \in Push \cap unreachable

\* Publishers and consumers are a reliable queue: a notification is settled
\* when somebody accepted it, or every device of a push was found unusable.
Queue == INSTANCE ReliableQueue WITH
    queued <- {n \in Message : message[n] \in {"visible", "hidden"}},
    settled <- sent \cup (Push \cap unreachable),
    gone <- {n \in Message : message[n] = "deleted"}

\* A notification's message leaves the queue once and for good, and in the
\* step that deletes it the notification is settled (sendNotifications).
ImplementsQueue == Queue!Spec

\* Retries go to the devices that failed: in one delivery no device accepts a
\* push twice.
OneCopyPerDelivery ==
    \A c \in Consumer, n \in Message :
        \A d \in Device : job[c][n].copies[d] <= 1

\* The devices a push is about to go to belong to its user, except those that
\* changed hands since the lookup.
PushesToOwnDevices ==
    \A c \in Consumer, n \in Message : job[c][n].at = "send" =>
        \A d \in job[c][n].to \ job[c][n].moved : row[d].user = UserOf[n]

\* What makes these inductive, and says of every job how it came to where it
\* is: devices to be unregistered have failed three times or met an outage.
JobInv(j, n) ==
    /\ j.at \in {"send", "drop"} => n \in Push
    /\ j.at \in {"drop", "delete"} => n \in sent \/ n \in Push \cap unreachable
    /\ \A d \in Device : j.copies[d] <= 1 /\ (j.copies[d] # 0 => n \in sent)
    /\ j.at = "send" =>
          /\ j.to # {}
          /\ \A d \in j.to : j.copies[d] = 0
          /\ \A d \in j.to \ j.moved : row[d].user = UserOf[n]
          /\ \A d \in j.to \cap Live : failures >= Attempts - j.left
    /\ j.at = "drop" => \A d \in j.to \cap Live : failures >= Attempts \/ outage
NotificationInv ==
    /\ NoNotificationLost
    /\ \A c \in Consumer, n \in Message : JobInv(job[c][n], n)

\* A registration is taken from a user by a login with that device, or when
\* sends to the device failed; a live device keeps it until three sends failed
\* or FCM was out.
LiveRegistrationsStand ==
    \A d \in Live : row[d] # NoRow /\ row'[d] = NoRow => failures >= 3 \/ outage
LiveDevicesKept == [][LiveRegistrationsStand]_vars

\* A mail to a user with mail settings and a push to a user with a device end
\* up sent and deleted, although messages that can never be handled come back
\* for ever.
DeliverableSent ==
    \A n \in Message :
        message[n] \in {"visible", "hidden"} ~> message[n] = "deleted" \/ ~Deliverable(n)

=============================================================================

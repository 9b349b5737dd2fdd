--------------------------- MODULE PasswordReset ---------------------------
(***************************************************************************)
(* The forgot-password flow of one user.  An initiation stores a new reset *)
(* link in the user row and mails it; a submission presents a mailed link  *)
(* and sets a new password.                                                *)
(*                                                                         *)
(* Both read the row into an entity, hash for a while, and hand the entity *)
(* to TypeORM's save().  save() reads the row once more and updates the    *)
(* columns in which the entity differs from what it then finds.            *)
(***************************************************************************)
EXTENDS Naturals, FiniteSets

CONSTANTS
    Initiation,     \* calls of initiateForgetPassword, each with its own link
    Submission,     \* calls of submitForgotPassword, each with its own password
    None,           \* NULL, and the password the user starts with
    MaxConcurrent,  \* bound: calls being served at the same time
    MaxFaults       \* bound: failed statements, failed publishes and crashes

Call == Initiation \cup Submission

ASSUME ResetAssumption ==
    /\ Initiation \cap Submission = {}
    /\ None \notin Call
    /\ MaxConcurrent \in Nat /\ MaxFaults \in Nat

VARIABLES
    row,        \* the committed user row
    mailed,     \* links whose mail was queued
    expired,    \* links older than three hours
    pc,         \* where each call is
    link,       \* the link a submission presents
    entity,     \* the entity a call is working on
    loaded,     \* what its save() found in the database
    overlapped, \* history: calls served at the same time as another one
    faults      \* faults so far

calls == <<pc, link, entity, loaded, overlapped>>
vars == <<row, mailed, expired, calls, faults>>

\* The four columns the flow writes.  A link stands for the request id, the
\* hash of the token and the expiry it was created with.
Row == [password : Submission \cup {None},
        token    : Initiation \cup {None},
        expires  : Initiation \cup {None},
        rid      : Initiation \cup {None}]

Steps == {"idle", "hash", "update", "publish", "commit", "done", "failed"}

TypeOK ==
    /\ row \in Row
    /\ mailed \subseteq Initiation
    /\ expired \subseteq Initiation
    /\ pc \in [Call -> Steps]
    /\ link \in [Submission -> Initiation \cup {None}]
    /\ entity \in [Call -> Row]
    /\ loaded \in [Call -> Row]
    /\ overlapped \subseteq Call
    /\ faults \in 0..MaxFaults

Fresh == [password |-> None, token |-> None, expires |-> None, rid |-> None]

Init ==
    /\ row = Fresh
    /\ mailed = {} /\ expired = {}
    /\ pc = [c \in Call |-> "idle"]
    /\ link = [s \in Submission |-> None]
    /\ entity = [c \in Call |-> Fresh]
    /\ loaded = [c \in Call |-> Fresh]
    /\ overlapped = {}
    /\ faults = 0

Running == {c \in Call : pc[c] \notin {"idle", "done", "failed"}}

\* A call begins to be served, next to those that are.
Begin(c) ==
    /\ Cardinality(Running) < MaxConcurrent
    /\ overlapped' = IF Running = {} THEN overlapped
                     ELSE overlapped \cup Running \cup {c}

Goto(c, from, to) ==
    /\ pc[c] = from
    /\ pc' = [pc EXCEPT ![c] = to]

\* The row as the UPDATE of c's save() leaves it.
Saved(c) ==
    [col \in DOMAIN row |->
        IF entity[c][col] # loaded[c][col] THEN entity[c][col] ELSE row[col]]

\* An initiation's transaction keeps the row locked from its UPDATE on.
Locked == \E i \in Initiation : pc[i] \in {"publish", "commit"}

-----------------------------------------------------------------------------
(* initiateForgetPassword, one transaction.                                 *)

\* Mutant: the user comes out of a cache.
ReadUserCached(i) ==
    /\ Begin(i)
    /\ Goto(i, "idle", "hash")
    /\ entity' = [entity EXCEPT ![i] = Fresh]
    /\ UNCHANGED <<row, mailed, expired, link, loaded, faults>>

ReadUser(i) ==
    /\ Begin(i)
    /\ Goto(i, "idle", "hash")
    /\ entity' = [entity EXCEPT ![i] = row]
    /\ UNCHANGED <<row, mailed, expired, link, loaded, faults>>

\* Mutant: the expiry of the previous link is kept.
StoreLinkKeepsExpiry(i) ==
    /\ Goto(i, "hash", "update")
    /\ entity' = [entity EXCEPT ![i].token = i, ![i].rid = i]
    /\ loaded' = [loaded EXCEPT ![i] = row]
    /\ UNCHANGED <<row, mailed, expired, link, overlapped, faults>>

\* The token is hashed, the entity gets the new link, save() reads the row.
StoreLink(i) ==
    /\ Goto(i, "hash", "update")
    /\ entity' = [entity EXCEPT ![i].token = i, ![i].expires = i, ![i].rid = i]
    /\ loaded' = [loaded EXCEPT ![i] = row]
    /\ UNCHANGED <<row, mailed, expired, link, overlapped, faults>>

UpdateUser(i) ==
    /\ ~Locked
    /\ i \in Initiation
    /\ Goto(i, "update", "publish")
    /\ UNCHANGED <<row, mailed, expired, link, entity, loaded, overlapped, faults>>

\* The mail is queued before the transaction commits.
PublishLink(i) ==
    /\ Goto(i, "publish", "commit")
    /\ mailed' = mailed \cup {i}
    /\ UNCHANGED <<row, expired, link, entity, loaded, overlapped, faults>>

\* Mutant: the transaction commits without waiting for the queue.
CommitUnpublished(i) ==
    /\ pc[i] \in {"publish", "commit"}
    /\ pc' = [pc EXCEPT ![i] = "done"]
    /\ row' = Saved(i)
    /\ UNCHANGED <<mailed, expired, link, entity, loaded, overlapped, faults>>

CommitLink(i) ==
    /\ Goto(i, "commit", "done")
    /\ row' = Saved(i)
    /\ UNCHANGED <<mailed, expired, link, entity, loaded, overlapped, faults>>

-----------------------------------------------------------------------------
(* submitForgotPassword, no transaction of its own.                         *)

\* findResetPasswordUser and the expiry check accept the link.
AcceptLink(s) ==
    /\ Begin(s)
    /\ \E l \in mailed :
          /\ row.rid = l /\ row.token # None /\ row.expires # None
          /\ row.expires \notin expired
          /\ link' = [link EXCEPT ![s] = l]
    /\ Goto(s, "idle", "hash")
    /\ entity' = [entity EXCEPT ![s] = row]
    /\ UNCHANGED <<row, mailed, expired, loaded, faults>>

\* The link is unknown by now, or too old.
RejectLink(s) ==
    /\ \E l \in mailed :
          /\ row.rid # l \/ row.token = None \/ row.expires = None
             \/ row.expires \in expired
          /\ link' = [link EXCEPT ![s] = l]
    /\ Goto(s, "idle", "failed")
    /\ UNCHANGED <<row, mailed, expired, entity, loaded, overlapped, faults>>

\* The token presented with the request id is not the mailed one, and does
\* not match the stored hash.
RejectToken(s) ==
    /\ s \in Submission
    /\ Goto(s, "hash", "failed")
    /\ UNCHANGED <<row, mailed, expired, link, entity, loaded, overlapped, faults>>

\* Mutant: the reset token fields are not cleared.
StorePasswordOnly(s) ==
    /\ entity[s].token = link[s]
    /\ Goto(s, "hash", "update")
    /\ entity' = [entity EXCEPT ![s].password = s]
    /\ loaded' = [loaded EXCEPT ![s] = row]
    /\ UNCHANGED <<row, mailed, expired, link, overlapped, faults>>

\* The password is hashed, the token fields are cleared, save() reads the row.
StorePassword(s) ==
    /\ entity[s].token = link[s]
    /\ Goto(s, "hash", "update")
    /\ entity' = [entity EXCEPT ![s] = [Fresh EXCEPT !.password = s]]
    /\ loaded' = [loaded EXCEPT ![s] = row]
    /\ UNCHANGED <<row, mailed, expired, link, overlapped, faults>>

\* The UPDATE waits for the row lock and commits at once.
UpdatePassword(s) ==
    /\ ~Locked
    /\ s \in Submission
    /\ Goto(s, "update", "done")
    /\ row' = Saved(s)
    /\ UNCHANGED <<mailed, expired, link, entity, loaded, overlapped, faults>>

-----------------------------------------------------------------------------

\* A statement or the publish fails, or the process dies: nothing is written.
Fails(c) ==
    /\ faults < MaxFaults
    /\ c \in Running
    /\ pc' = [pc EXCEPT ![c] = "failed"]
    /\ faults' = faults + 1
    /\ UNCHANGED <<row, mailed, expired, link, entity, loaded, overlapped>>

\* Three hours pass.
Expire(l) ==
    /\ l \in mailed
    /\ expired' = expired \cup {l}
    /\ UNCHANGED <<row, mailed, calls, faults>>

\* No call is being served, and no client owes another one.
Quiet ==
    /\ Running = {}
    /\ UNCHANGED vars

\* POST auth/forget-password and POST auth/forgot-password/submit.
RequestForgetPassword(i) ==
    ReadUser(i) \/ StoreLink(i) \/ UpdateUser(i) \/ PublishLink(i) \/ CommitLink(i)

SubmitForgotPassword(s) ==
    \/ AcceptLink(s) \/ RejectLink(s) \/ RejectToken(s)
    \/ StorePassword(s) \/ UpdatePassword(s)

Next ==
    \/ \E i \in Initiation : RequestForgetPassword(i) \/ Expire(i)
    \/ \E s \in Submission : SubmitForgotPassword(s)
    \/ \E c \in Call : Fails(c)
    \/ Quiet

Spec == Init /\ [][Next]_vars

-----------------------------------------------------------------------------
(* Properties.                                                              *)

\* The request id, the token hash and the expiry in the row always belong to
\* one link, although overlapping saves write columns one by one.
LinkColumnsAgree == row.token = row.rid /\ row.expires = row.rid

\* A link stored in the row was mailed: an initiation that could not queue
\* its mail leaves the user's previous link alone (initiateForgetPassword).
StoredLinkMailed == row.rid # None => row.rid \in mailed

Together(r) == r.token = r.rid /\ r.expires = r.rid

\* What makes both inductive: entities and what save() found are consistent
\* too, and a call about to write holds its own link, or none.
ResetInv ==
    /\ LinkColumnsAgree
    /\ StoredLinkMailed
    /\ \A c \in Call : Together(entity[c]) /\ Together(loaded[c])
    /\ \A i \in Initiation :
          /\ pc[i] \in {"update", "publish", "commit"} => entity[i].rid = i
          /\ pc[i] = "commit" => i \in mailed
    /\ \A s \in Submission :
          /\ pc[s] \in {"idle", "hash", "update", "done", "failed"}
          /\ pc[s] = "update" => entity[s].rid = None

Changes(c, from, to) == pc[c] = from /\ pc'[c] = to
Resets(s) == Changes(s, "update", "done") /\ row'.password = s

\* Only a submission that succeeds changes the password, to its own: what
\* 'Password has been reset successfully.' tells the user stays true, and an
\* initiation only updates the reset token and its expiry.
PasswordKept ==
    row'.password # row.password => \E s \in Submission : Resets(s)
ResetsStick == [][PasswordKept]_vars

\* The same for calls served one at a time: only an initiation that overlapped
\* another call can write an older password back.
PasswordKeptAlone ==
    row'.password # row.password =>
        \/ \E s \in Submission : Resets(s)
        \/ \E i \in Initiation \cap overlapped : Changes(i, "commit", "done")
ResetsStickAlone == [][PasswordKeptAlone]_vars

\* A link that has reset the password is never accepted again, whatever calls
\* overlap: what an initiation writes back does not bring it back.  (Submissions
\* of one link that were accepted before it was used do all succeed.)
LinkNotReused ==
    \A s, t \in Submission :
        Changes(s, "idle", "hash") /\ pc[t] = "done" => link'[s] # link[t]
LinkWorksOnce == [][LinkNotReused]_vars

=============================================================================

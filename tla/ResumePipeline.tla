--------------------------- MODULE ResumePipeline ---------------------------
(***************************************************************************)
(* Candidates created from uploaded resumes.  An intake request inserts a  *)
(* placeholder candidate for each resume and queues a message; consumers   *)
(* poll the queue, confirm the resume's file, have it parsed, fill in the  *)
(* candidate and delete the message.  Recruiters edit and remove           *)
(* candidates meanwhile, enter others by hand, whose addresses count, and  *)
(* delete files, whose objects expire.                                     *)
(*                                                                         *)
(* Confirming and deleting files is FileStorage's business; here a         *)
(* confirmation is a copy that lands and a row that is committed, and a    *)
(* deletion is one step.                                                   *)
(***************************************************************************)
EXTENDS Naturals, FiniteSets, SqsQueue

CONSTANTS
    Resume,     \* resumes, each with its candidate row and its message
    Request,    \* createCandidatesWithResumeParsing calls
    RequestOf,  \* the call a resume is part of
    Key,        \* S3 object keys
    KeyOf,      \* the object a resume is stored under
    Email,      \* addresses, '' among them
    EmailOf,    \* the address found on a resume, '' when there is none
    FormEmail,  \* the addresses recruiters type in
    Parseable,  \* resumes of a supported type that Claude makes sense of
    Worker,     \* processes that poll the queue
    BatchSize,  \* messages taken by one poll
    MaxDeletions, \* bound: deletions of the files of every key
    MaxFaults   \* bound: failed calls and crashes

ASSUME ResumeAssumption ==
    /\ RequestOf \in [Resume -> Request]
    /\ KeyOf \in [Resume -> Key]
    /\ EmailOf \in [Resume -> Email]
    /\ FormEmail \subseteq Email /\ Parseable \subseteq Resume
    /\ MaxDeletions \in [Key -> Nat]
    /\ BatchSize \in Nat /\ MaxFaults \in Nat

VARIABLES
    status,     \* status column of every candidate
    email,      \* email column: unique, except for the placeholder's own
    parsed,     \* candidates whose resume column holds parsed data
    entered,    \* addresses of the candidates entered by hand
    message,    \* where every resume's message is
    broken,     \* intake requests that failed half way
    stage,      \* what every worker is doing with every message it took
    permanent,  \* keys present in the permanent bucket
    tagged,     \* keys whose object a deletion tagged, until it is copied anew
    records,    \* number of ACTIVE file rows of every key
    raced,      \* history: keys two confirmations of which ran at once
    deletions,  \* history: how many files of every key users deleted
    dropped,    \* history: keys whose object expired while a row listed it
    orphaned,   \* history: keys whose copy outlived its confirmation, until one commits
    faults      \* faults so far

candidates == <<status, email, parsed, entered>>
storage == <<permanent, tagged, records>>
history == <<raced, deletions, dropped, orphaned>>
files == <<storage, history>>
vars == <<candidates, message, broken, stage, files, faults>>

\* DECIDED stands for PENDING, INTERVIEWED, OFFERED, REJECTED, HIRED and IDLE.
Column == {"PROCESSING", "REVIEWING", "DECIDED"}
Placeholder == "temp"
MessageState == {"unborn", "unsent", "lost", "visible", "hidden", "deleted"}
Stages == {"none", "head", "confirm", "commit", "text", "claude", "find", "update",
           "delete"}

TypeOK ==
    /\ status \in [Resume -> Column \cup {"absent", "removed"}]
    /\ email \in [Resume -> Email \cup {Placeholder}]
    /\ parsed \subseteq Resume
    /\ entered \subseteq FormEmail
    /\ message \in [Resume -> MessageState]
    /\ broken \subseteq Request
    /\ stage \in [Worker -> [Resume -> Stages]]
    /\ permanent \subseteq Key /\ tagged \subseteq Key
    /\ records \in [Key -> Nat]
    /\ raced \subseteq Key /\ dropped \subseteq Key /\ orphaned \subseteq Key
    /\ deletions \in [Key -> Nat]
    /\ faults \in 0..MaxFaults

Exists(c) == status[c] \in Column
Idle(w) == \A c \in Resume : stage[w][c] = "none"

\* The unique constraint of the email column lets c have the address e.
Taken(e) == e \in entered \/ \E d \in Resume : Exists(d) /\ email[d] = e
Free(e, c) ==
    e \notin entered /\ \A d \in Resume \ {c} : Exists(d) => email[d] # e

Init ==
    /\ status = [c \in Resume |-> "absent"]
    /\ email = [c \in Resume |-> Placeholder]
    /\ parsed = {} /\ entered = {}
    /\ message = [c \in Resume |-> "unborn"]
    /\ broken = {}
    /\ stage = [w \in Worker |-> [c \in Resume |-> "none"]]
    /\ permanent = {} /\ tagged = {} /\ records = [k \in Key |-> 0]
    /\ raced = {} /\ deletions = [k \in Key |-> 0] /\ dropped = {} /\ orphaned = {}
    /\ faults = 0

-----------------------------------------------------------------------------
(* Intake: one resume after the other, insert then publish, no transaction. *)

\* The resumes a request lists: their object keys and names are the client's.
ResumeFiles(q) == {c \in Resume : RequestOf[c] = q}

InsertCandidate(c) ==
    /\ message[c] = "unborn"
    /\ RequestOf[c] \notin broken
    /\ \A d \in ResumeFiles(RequestOf[c]) : message[d] # "unsent"
    /\ status' = [status EXCEPT ![c] = "PROCESSING"]
    /\ message' = [message EXCEPT ![c] = "unsent"]
    /\ UNCHANGED <<email, parsed, entered, broken, stage, files, faults>>

PublishMessage(c) ==
    /\ message[c] = "unsent"
    /\ message' = Published(message, c)
    /\ UNCHANGED <<candidates, broken, stage, files, faults>>

\* Two placeholders of the same millisecond clash, the queue is unreachable
\* or the process dies: the rest of the list is given up, and a candidate
\* already inserted keeps its placeholder without a message.
IntakeFails(q) ==
    /\ faults < MaxFaults
    /\ q \notin broken
    /\ \E c \in ResumeFiles(q) : message[c] \in {"unborn", "unsent"}
    /\ broken' = broken \cup {q}
    /\ message' = [c \in Resume |->
                      IF c \in ResumeFiles(q) /\ message[c] = "unsent" THEN "lost"
                      ELSE message[c]]
    /\ faults' = faults + 1
    /\ UNCHANGED <<candidates, stage, files>>

-----------------------------------------------------------------------------
(* Recruiters.                                                              *)

\* What a recruiter fills in for a new candidate, and changes of one: what the
\* body of a PATCH leaves out keeps its value.
Form == [status : Column, email : FormEmail]
Changes(c) == [status : Column, email : FormEmail \cup {email[c]}]

EditCandidate(c, dto) ==
    /\ Exists(c)
    /\ dto.email = email[c] \/ Free(dto.email, c)
    /\ status' = [status EXCEPT ![c] = dto.status]
    /\ email' = [email EXCEPT ![c] = dto.email]
    /\ UNCHANGED <<parsed, entered, message, broken, stage, files, faults>>

RemoveCandidate(c) ==
    /\ Exists(c)
    /\ status' = [status EXCEPT ![c] = "removed"]
    /\ UNCHANGED <<email, parsed, entered, message, broken, stage, files, faults>>

\* POST /candidate: the unique constraint refuses an address that is taken.
CreateCandidate(dto) ==
    /\ ~Taken(dto.email)
    /\ entered' = entered \cup {dto.email}
    /\ UNCHANGED <<status, email, parsed, message, broken, stage, files, faults>>

\* A candidate entered by hand is removed or gets another address.
ChangeEntered(e) ==
    LET rest == entered \ {e} IN
    /\ e \in entered
    /\ entered' \in {rest} \cup {rest \cup {f} : f \in {g \in FormEmail : ~Taken(g)}}
    /\ UNCHANGED <<status, email, parsed, message, broken, stage, files, faults>>

-----------------------------------------------------------------------------
(* The queue.                                                               *)

\* A worker polls again only when everything it took has settled.
Receive(w, S) ==
    /\ Idle(w)
    /\ Receivable(message, S, BatchSize)
    /\ message' = Received(message, S)
    /\ stage' = [stage EXCEPT ![w] =
                    [c \in Resume |-> IF c \in S THEN "head" ELSE "none"]]
    /\ UNCHANGED <<candidates, broken, files, faults>>

Reappear(c) ==
    /\ message[c] = "hidden"
    /\ message' = Returned(message, c)
    /\ UNCHANGED <<candidates, broken, stage, files, faults>>

-----------------------------------------------------------------------------
(* processResumeParserMessage.                                              *)

Goto(w, c, from, to) ==
    /\ stage[w][c] = from
    /\ stage' = [stage EXCEPT ![w][c] = to]

\* The consumer v is in the middle of confirming the file of c.
Confirming(v, c) == stage[v][c] \in {"confirm", "commit"}

\* The HEAD of the object of c finds it in the permanent bucket.
InPermanentBucket(c) == KeyOf[c] \in permanent

\* confirmUpload is called: raced notes whether it is the only one.
StartConfirming(w, c) ==
    /\ Goto(w, c, "head", "confirm")
    /\ raced' = IF \E v \in Worker, d \in Resume :
                       KeyOf[d] = KeyOf[c] /\ Confirming(v, d)
                THEN raced \cup {KeyOf[c]} ELSE raced
    /\ UNCHANGED <<candidates, message, broken, storage, deletions, dropped,
                   orphaned, faults>>

\* Mutant: the file is confirmed on every delivery.
HeadIgnored(w, c) == StartConfirming(w, c)

\* A file that already is in the permanent bucket is not confirmed again.
HeadObject(w, c) ==
    IF InPermanentBucket(c)
    THEN /\ Goto(w, c, "head", "text")
         /\ UNCHANGED <<candidates, message, broken, files, faults>>
    ELSE StartConfirming(w, c)

\* confirmUpload: the copy, which has no tag, lands before the row commits.
CopyLands(w, c) ==
    /\ Goto(w, c, "confirm", "commit")
    /\ permanent' = permanent \cup {KeyOf[c]}
    /\ tagged' = tagged \ {KeyOf[c]}
    /\ UNCHANGED <<candidates, message, broken, records, history, faults>>

\* Mutant: the row is written by something else later on.
ConfirmWithoutRecord(w, c) ==
    /\ Goto(w, c, "commit", "text")
    /\ UNCHANGED <<candidates, message, broken, files, faults>>

ConfirmCommits(w, c) ==
    /\ Goto(w, c, "commit", "text")
    /\ records' = [records EXCEPT ![KeyOf[c]] = @ + 1]
    /\ orphaned' = orphaned \ {KeyOf[c]}
    /\ UNCHANGED <<candidates, message, broken, permanent, tagged, raced,
                   deletions, dropped, faults>>

\* The object is streamed and the parser of its content type reads it.
ExtractText(w, c) ==
    /\ InPermanentBucket(c)
    /\ Goto(w, c, "text", "claude")
    /\ UNCHANGED <<candidates, message, broken, files, faults>>

\* Claude answers with JSON that has all the parts the code picks out.
ExtractCandidateInfo(w, c) ==
    /\ c \in Parseable
    /\ Goto(w, c, "claude", "find")
    /\ UNCHANGED <<candidates, message, broken, files, faults>>

\* Any error is caught and logged: there is no object, nothing can be made of
\* it, the candidate is not found or its address is taken.  The message stays.
Reject(w, c) ==
    /\ \/ stage[w][c] = "text" /\ ~InPermanentBucket(c)
       \/ stage[w][c] \in {"text", "claude"} /\ c \notin Parseable
       \/ stage[w][c] = "find" /\ ~Exists(c)
       \/ stage[w][c] = "update" /\ Exists(c) /\ ~Free(EmailOf[c], c)
    /\ stage' = [stage EXCEPT ![w][c] = "none"]
    /\ UNCHANGED <<candidates, message, broken, files, faults>>

FindCandidate(w, c) ==
    /\ Exists(c)
    /\ Goto(w, c, "find", "update")
    /\ UNCHANGED <<candidates, message, broken, files, faults>>

\* Mutant: TypeORM's save() in place of update() inserts a missing row.
SaveCandidate(w, c) ==
    /\ Free(EmailOf[c], c)
    /\ Goto(w, c, "update", "delete")
    /\ status' = [status EXCEPT ![c] = "REVIEWING"]
    /\ email' = [email EXCEPT ![c] = EmailOf[c]]
    /\ parsed' = parsed \cup {c}
    /\ UNCHANGED <<entered, message, broken, files, faults>>

\* UPDATE ... WHERE id: no effect when the candidate was removed meanwhile.
UpdateCandidate(w, c) ==
    /\ Goto(w, c, "update", "delete")
    /\ IF Exists(c)
       THEN /\ Free(EmailOf[c], c)
            /\ status' = [status EXCEPT ![c] = "REVIEWING"]
            /\ email' = [email EXCEPT ![c] = EmailOf[c]]
            /\ parsed' = parsed \cup {c}
       ELSE UNCHANGED <<status, email, parsed>>
    /\ UNCHANGED <<entered, message, broken, files, faults>>

DeleteMessage(w, c) ==
    /\ Goto(w, c, "delete", "none")
    /\ message' = Deleted(message, c)
    /\ UNCHANGED <<candidates, broken, files, faults>>

\* Mutant: the message is deleted in a finally.
CallFailsAndDeletes(w, c) ==
    /\ faults < MaxFaults
    /\ stage[w][c] # "none"
    /\ stage' = [stage EXCEPT ![w][c] = "none"]
    /\ message' = Deleted(message, c)
    /\ faults' = faults + 1
    /\ UNCHANGED <<candidates, broken, files>>

\* The consumer w gives up the messages of C.  Their confirmations roll back:
\* a copy that has landed stays, and one that was under way may still land.
KeysAt(w, C, at) == {KeyOf[c] : c \in {d \in C : stage[w][d] = at}}
Abandon(w, C) ==
    /\ faults < MaxFaults
    /\ stage' = [stage EXCEPT ![w] = [c \in Resume |->
                    IF c \in C THEN "none" ELSE stage[w][c]]]
    /\ \E landed \in SUBSET KeysAt(w, C, "confirm") :
          /\ permanent' = permanent \cup landed
          /\ tagged' = tagged \ landed
          /\ orphaned' = orphaned \cup landed \cup KeysAt(w, C, "commit")
    /\ faults' = faults + 1
    /\ UNCHANGED <<candidates, message, broken, records, raced, deletions, dropped>>

\* A call fails, whichever it is.
CallFails(w, c) == stage[w][c] # "none" /\ Abandon(w, {c})

\* The process stops with its whole batch and starts polling anew.
Restart(w) == ~Idle(w) /\ Abandon(w, Resume)

Process(w, c) ==
    \/ HeadObject(w, c) \/ CopyLands(w, c) \/ ConfirmCommits(w, c)
    \/ ExtractText(w, c) \/ ExtractCandidateInfo(w, c) \/ Reject(w, c)
    \/ FindCandidate(w, c) \/ UpdateCandidate(w, c) \/ DeleteMessage(w, c)

-----------------------------------------------------------------------------
(* Users delete files, and the lifecycle rule of the bucket removes what is *)
(* tagged.                                                                  *)

\* softdeleteFiles: the row is DELETED and the object, if there is one, tagged.
DeleteFile(k) ==
    /\ records[k] >= 1 /\ deletions[k] < MaxDeletions[k]
    /\ records' = [records EXCEPT ![k] = @ - 1]
    /\ tagged' = tagged \cup ({k} \cap permanent)
    /\ deletions' = [deletions EXCEPT ![k] = @ + 1]
    /\ UNCHANGED <<candidates, message, broken, stage, permanent, raced,
                   dropped, orphaned, faults>>

\* A tag that fails is only logged, and a deletion that rolls back later leaves
\* its tag behind.
DeletionFails(k) ==
    /\ faults < MaxFaults
    /\ records[k] >= 1 /\ deletions[k] < MaxDeletions[k]
    /\ \/ /\ records' = [records EXCEPT ![k] = @ - 1]
          /\ deletions' = [deletions EXCEPT ![k] = @ + 1]
          /\ UNCHANGED tagged
       \/ /\ tagged' = tagged \cup ({k} \cap permanent)
          /\ UNCHANGED <<records, deletions>>
    /\ faults' = faults + 1
    /\ UNCHANGED <<candidates, message, broken, stage, permanent, raced,
                   dropped, orphaned>>

\* The lifecycle rule removes a tagged object; dropped notes the rows it leaves.
ExpireObject(k) ==
    /\ k \in tagged \cap permanent
    /\ permanent' = permanent \ {k}
    /\ dropped' = IF records[k] >= 1 THEN dropped \cup {k} ELSE dropped
    /\ UNCHANGED <<candidates, message, broken, stage, tagged, records, raced,
                   deletions, orphaned, faults>>

-----------------------------------------------------------------------------

Next ==
    \/ \E c \in Resume :
          \/ InsertCandidate(c) \/ PublishMessage(c) \/ Reappear(c)
          \/ RemoveCandidate(c)
          \/ \E dto \in Changes(c) : EditCandidate(c, dto)
    \/ \E q \in Request : IntakeFails(q)
    \/ \E dto \in Form : CreateCandidate(dto)
    \/ \E e \in FormEmail : ChangeEntered(e)
    \/ \E k \in Key : DeleteFile(k) \/ DeletionFails(k) \/ ExpireObject(k)
    \/ \E w \in Worker :
          \/ \E S \in SUBSET Resume : Receive(w, S)
          \/ \E c \in Resume : Process(w, c) \/ CallFails(w, c)
          \/ Restart(w)

Spec == Init /\ [][Next]_vars

\* Workers run, the visibility timeout passes, and the queue hands out every
\* message that keeps being visible when somebody asks.
Fairness ==
    \A c \in Resume :
        /\ WF_vars(Reappear(c))
        /\ SF_vars(\E w \in Worker : \E S \in SUBSET Resume : c \in S /\ Receive(w, S))
        /\ \A w \in Worker : WF_vars(Process(w, c))

FairSpec == Spec /\ Fairness

-----------------------------------------------------------------------------
(* Properties.                                                              *)

\* No resume is lost: its message leaves the queue only when the parsed data
\* is in the candidate, or the candidate is gone, whatever failed and however
\* often the message was delivered (processResumeParserMessage).
NoResumeLost ==
    \A c \in Resume : message[c] = "deleted" => c \in parsed \/ status[c] = "removed"

\* What makes it inductive.
PipelineInv ==
    /\ NoResumeLost
    /\ \A w \in Worker, c \in Resume :
          /\ stage[w][c] = "delete" => c \in parsed \/ status[c] = "removed"
          /\ stage[w][c] # "none" => message[c] # "unborn"
    /\ \A c \in Resume : status[c] = "absent" <=> message[c] = "unborn"

RemovedStay ==
    \A c \in Resume : status[c] = "removed" => status'[c] = "removed"

\* A candidate a recruiter removed never comes back, not even when a worker
\* had already looked it up (CandidateService.update).
RemovedForGood == [][RemovedStay]_vars

\* The intake and its consumers are a reliable queue: a resume is settled when
\* its data is in the candidate, or the candidate is removed.
Queue == INSTANCE ReliableQueue WITH
    Message <- Resume,
    queued <- {c \in Resume : message[c] \in {"visible", "hidden"}},
    settled <- parsed \cup {c \in Resume : status[c] = "removed"},
    gone <- {c \in Resume : message[c] = "deleted"}

\* A resume's message leaves the queue once and for good, and in the step that
\* deletes it the resume is settled, whatever crashed, came back or ran twice.
ImplementsQueue == Queue!Spec

\* Retries never give one object two file rows, whatever failed in between:
\* that is what the check before confirmUpload is for (parseResume).  It does
\* not help against two consumers that confirm the object at once, nor when
\* the object of a listed file expired.
OneRecordPerKey ==
    \A k \in Key : records[k] <= 1 \/ k \in raced \cup dropped

\* The file of the object k is, or is about to be, in the file listing.  It is
\* not when a user deleted it, or when the copy outlived its confirmation: then
\* every retry takes the object for a confirmed file.
Listed(k) ==
    \/ records[k] >= 1
    \/ deletions[k] > 0 \/ k \in orphaned
    \/ \E w \in Worker, c \in Resume : KeyOf[c] = k /\ stage[w][c] = "commit"

\* The resume of a parsed candidate is in the file listing, also when a retry
\* or another consumer took the short cut past confirmUpload.
ParsedFilesRecorded ==
    \A c \in parsed : Listed(KeyOf[c])

\* A resume that can be parsed is parsed in the end, unless its candidate is
\* removed, another candidate has its address for a while or a user deletes
\* its file.  Messages that can never succeed go round and round without
\* starving it.
Unparsed(c) == message[c] \in {"visible", "hidden"} /\ c \in Parseable
QueuedResumesParsed ==
    \A c \in Resume :
        Unparsed(c) ~> \/ c \in parsed \/ status[c] = "removed"
                       \/ ~Free(EmailOf[c], c) \/ deletions[KeyOf[c]] > 0

=============================================================================

# Formal model of the HRM backend

TLA+ specifications of the NestJS backend under `src/src/` (TypeScript,
TypeORM over Postgres, S3, SQS, Firebase), the TLC configurations that check
them on small instances, and TLAPS proofs for every size.

## Inventory

Every handler is an `async` function of one Node process; several processes may
run against the same database. `@Transactional()` (typeorm-transactional) wraps
a handler in a Postgres transaction of the default isolation level,
READ COMMITTED (`database/database.module.ts` sets none). So two handlers
interleave at every `await`, reads take no lock unless they ask for one, and
S3, SQS and Firebase calls made inside a transaction are not undone with it.

| Component | State | Operations | What is hard | What makes it correct |
|---|---|---|---|---|
| File records, storage accounting (`file-management`, `organization.service`) | `FileMgt` rows, `Organization.usedStorage`, dirty and permanent S3 buckets, object tags | `initUpload`, `confirmUpload`, `softdeleteFiles`, `updateUsedStorage`, tagging with rollback | absolute write of a value read earlier; parallel S3 calls that outlive a rollback; rows looked up before the transaction | usage equals the bytes of the active files; a listed file has its object; deletion is final |
| Folders, listings, downloads | `Folder` rows with a denormalised `path`, `updatedAt` order | create, rename, breadcrumbs, paged listing | a parent read before the insert; rows that move between pages and between the query for the rows and the one for the count | a path is the parent's path and a name; the breadcrumb climbs; paging shows what nobody touched |
| S3 adapter | none | copy, tag, head, presign, stream | partial failure of a batch | – |
| Candidates, resume intake | `Candidate` rows (unique email) | create, create with resumes, update, remove, search | insert, then publish, in no transaction | every placeholder gets its data |
| Resume consumer | its batch of SQS messages | poll, confirm file, parse, update candidate, delete message | at-least-once delivery, retries after partial work, several consumers, files deleted meanwhile | no message leaves before its data is stored; removed candidates stay removed; a parsed resume is listed once |
| SQS adapter | the queue | publish, receive, delete | redelivery after the visibility timeout | – |
| Password reset (`auth.service`, `user.service`) | four columns of `User` | `initiateForgetPassword`, `submitForgotPassword` | `save()` of an entity read before two hashes; mail queued before the commit | columns of a link agree; stored link was mailed; a reset sticks; a used link is dead |
| Login, sessions, guards | session table | login, logout, expiry | a password that changes while bcrypt compares | a session is opened with the password of that moment |
| Email settings | `EmailSettings` rows, `isPrimary` | create, update, remove | unlocked look-up of the primary setting; the organization is optional and may be another one; the old row is written back whole | one primary setting per organization, never none by accident |
| Notifications, Firebase adapter | queue, push tokens | publish, consume, send mail or push, drop failed tokens, `upsertToken` at login | at-least-once sends, recursive retries, tokens deleted after exceptions, logins that move a device between look-up and push | message deleted only after a send; retries reach failed devices only; working devices stay registered |
| Jobs | `Job` rows, `DRAFT`/`PUBLISHED`/`UNPUBLISHED`, `publishedAt` | create, publish, unpublish, delete | find, change, `save()`: old copies are written back, a deleted row is inserted again | what is published has its date; only a call that had found the posting brings it back |
| Permissions, licences, grants, roles | – | – | no request brings one of them into being (see *Not modelled*) | – |
| Users, organizations, general settings | one row each | CRUD, storage report | – | – |
| Activity timer | one timeout | reset on activity, stop the EC2 instance | activity racing the timeout; a failed stop | asks to stop after the whole idle time only; an idle machine stops |
| Caches | map with expiry | get, set, delete | nothing injects them | – |
| Encryption, Turnstile, Sentry, logging, interceptors, employee leaves (stubs), database bootstrap | none of their own | – | – | – |

How they interact: the resume consumer calls `confirmUpload`, which calls
`updateUsedStorage` in its own transaction; candidates and notifications reach
their consumers through SQS; password reset publishes its mail to the
notification queue; the mail strategy reads the email settings; a login reads the
password that a reset writes, and moves the device a push goes to; files and
folders share one listing; the machine that stops itself cuts off every call in
flight.

## Modules

| Module | Models |
|---|---|
| `FileStorage` | confirmations and deletions of files, step by step, with both stores |
| `StorageLedger` | abstract promise of `FileStorage` to one organization |
| `SqsQueue` | what SQS does with one message, for both queues |
| `ReliableQueue` | abstract promise of `ResumePipeline` and of `Notifications` to those who publish |
| `ResumePipeline` | intake, queue, consumers, recruiters, and users who delete the files |
| `PasswordReset` | initiations and submissions over one user row |
| `Sessions` | `PasswordReset` with logins, logouts and sessions of that user |
| `EmailSettings` | create, update and remove over the settings of all organizations |
| `Notifications` | the notification queue, its consumers, mails, pushes and device tokens |
| `JobBoard` | postings and the calls that find, change and save them |
| `ActivityTimer` | the timeout that stops the development machine |
| `DevServer` | `JobBoard` on the machine of `ActivityTimer` |
| `FolderTree` | folders, their paths, renames and breadcrumbs |
| `FolderListing` | `FolderTree` with files and a client that pages through a folder |
| `FileStorageProofs`, `ResumePipelineProofs`, `PasswordResetProofs` (also of `Sessions`), `EmailSettingsProofs`, `NotificationProofs`, `DevServerProofs`, `FolderProofs` | theorems |
| `MC*` | instances for TLC |

**Transactions.** In all modules a transaction's row writes stay implicit until
its commit action, which performs them together. What it is going to write is
a function of what it has read, and the row locks it holds are a function of
its program counter (`HoldsOrg`, `FilesHeld`, `Locked`, `LockedBy`), so a
second writer waits exactly where Postgres lets it wait. A rollback is simply
the end of the request. A statement outside a transaction commits at once.

**`FileStorage`.** A request (`Request`) is one call of `uploadConfirmation` or
`deleteFiles`. `StartConfirm`/`StartDelete` are the controllers (the latter reads
rows by id whatever their status, before the transaction begins, and takes the
organization of the first row found); `InsertRecords`, `ReadUsedStorage`,
`WriteUsedStorage`, `CopyObject`/`CopyFails`, `CommitConfirm` are the steps of
`confirmUpload` in their order; `MarkFile` (the UPDATE, which locks one row after the
other in an order the planner chooses), `MarkDeleted`, `TagObject`/`TagFails`,
`TagsSettled`, then the same accounting, then `CommitDelete` those of
`softdeleteFiles`. S3 calls in flight (`inFlight`) land or fail in any order,
also after their request has given up. `Total` gives the bytes of a set of
files; all that is assumed of it is that it adds up. `ExpireObject` is the
bucket's lifecycle rule. `AbortDeadlocked` is Postgres breaking a circle of transactions
that wait for each other's rows (`Deadlock`), as two deletions of overlapping batches do.
A confirmation may list no file at all; it then writes back the figure it read.

**`ResumePipeline`.** `InsertCandidate`, `PublishMessage`, `IntakeFails` are
`createCandidatesWithResumeParsing`; `Receive` is a poll, allowed when all
messages of the previous one have settled (`Promise.allSettled`); `HeadObject`
to `DeleteMessage` are `processResumeParserMessage` and `parseResume` call by
call (`ExtractText` reads the object, `ExtractCandidateInfo` asks Claude); `Reject`
is the catch block; `Restart` a process that dies. `EditCandidate` and
`RemoveCandidate` are the recruiters' calls for candidates that came by resume;
those entered by hand (`CreateCandidate`, `ChangeEntered`) matter by their addresses
only (`entered`), which the unique constraint holds against the others (`Free`,
`Taken`). The six statuses a recruiter chooses besides PROCESSING and REVIEWING
are one, DECIDED. What Claude reads from a resume is a constant (`EmailOf`,
`Parseable`). A confirmation is two steps here, the copy and the commit, and what a
consumer gives up in between (`Abandon`) leaves or may leave the copy. `DeleteFile` is
`softdeleteFiles` as seen from here, `DeletionFails` the tag that is only logged and the
tag that a rolled-back deletion leaves, `ExpireObject` the lifecycle rule. Of these and of
the confirmations the history keeps `raced` (two consumers confirmed at one time),
`deletions`, `dropped` (the object of a listed file expired) and `orphaned` (a copy
outlived its confirmation).

**`PasswordReset`.** `Saved(c)` is TypeORM's `save()`: it reads the row, compares
it with the entity, and updates the columns that differ. A link stands for
request id, token hash and expiry, which are compared column by column.

**`Sessions`.** `VerifyUser` reads the user, `OpenSession` is passport's `logIn()` after
the comparison, `Login` the rest of the handler. A password stands for its hash.
Logins, logouts and resets interleave freely; `overtaken` records logins whose
password changed under them.

**`EmailSettings`.** `FindPrimary` is an unlocked query that ignores a condition whose
value is undefined (`was` is the organization its answer had); `UnsetPrimary` and
`WriteSetting` are the two UPDATEs (or the INSERT), `Commit` makes both visible. The first
one writes the whole row back as it was read (`WrittenBack`), the second what the body
says, an organization included (`Body`, `Filed`); `AbortDeadlocked` is Postgres breaking a
circle of waiting transactions (`Deadlock`). `remove` has no transaction. Members of
`Call` are slots: when a call is answered another one takes its place, so the number of
calls is not bounded, only how many are served at one time.

**`Notifications`.** `Publish` is `publishNotification`; `Receive` a poll, after all
messages of the last one have settled; what a consumer does with one message is
a job (`JobAt`): `SendMail` or `LookupTokens` is the strategy's beginning, `Reject`
its throw (no strategy, no user, no mail settings, no device), `Multicast` one
round of `sendNotification`, whose recursion is a loop over the devices that are
left (`to`) and the rounds that are left (`left`), `MulticastThrows` its catch block,
`DropTokens` the removal of the failed devices, `DeleteMessage` the end. `CallFails`
and `Restart` put a failure between any two of them. `FindToken` and `SaveToken` are
the two halves of `upsertToken`, which is in no transaction; row ids tell a row
that was found from one inserted again, and `LoginFails` is the unique constraint.
A device is live (FCM accepts it, though single sends may fail) or not. A late
`deleteMessage` deletes also when the message was received again meanwhile, which
SQS may or may not do: for safety that is the worse case.

**`JobBoard`, `ActivityTimer`, `DevServer`.** `PublishJob` and `UnpublishJob` find the
posting and change the entity, `LoadJob` is the SELECT of TypeORM's `save()`,
`StoreJob` its UPDATE of the columns that differ, or its INSERT when the row is
gone. `ActivityTimer` counts ticks: `timers` holds what is left to each armed
timeout, and one that is due (0) waits for the event loop until
`ShutdownEC2Instance` runs, so that an activity can still clear it. `DevServer` stops
the machine under the job board: the transactions in flight are rolled back
(`GoDown`), the rows stay.

**`FolderTree`, `FolderListing`.** `StartCreate` is the controller's look-up of the parent,
which computes the path, and `InsertFolder` the insert; `WalkUp` is one turn of
`getParentFolderIds`. `newer` is the order by `updatedAt` that all listings share, as
the set of rows that come before each row (TypeORM breaks ties by id): an insert and a
rename put their row first, a deletion takes it out, and a confirmed file
appears behind whatever was updated since its transaction began.
A row is on a page by the number of its list's rows that come before it.
The client asks for pages until `totalPages`; each list is two queries (`FetchRows`,
`FetchCount`), and the two lists are fetched in parallel.

History variables (`overlapped`, `orderly`, `promoted`, `overtaken`, `raced`, `dropped`,
`orphaned`, `stale`, `reverted`, `renamed`, `due`, `deleted`, `idle`, `lastIdle`,
`stopFailed`) record what was served at the same time, what was read too early, or what
has happened; no action's guard reads them (`deletions` also bounds what users delete).
They let a property say precisely what overlap may break.

## Runs

| Run | Result | What it shows |
|---|---|---|
| `fs_serial` | pass | One call at a time, clients deleting listed files only, one fault: `FileStorage` implements `StorageLedger` (so usage is exact), and deleted objects are reclaimed. |
| `fs_race` | pass | Three overlapping calls, two keys, two organizations, one fault, any deletion: `usedStorage` stays between zero and what was ever confirmed, listed files are stored, deletion is final, every call is answered, deadlocked deletions included. |
| `fs_lost_update` | violation | Two confirmations overlap and one update of `usedStorage` is lost. |
| `rp_retry` | pass | One consumer, one fault, one resume that can never be parsed, an address typed in by hand, a user who deletes a file: no resume is lost, removals are final, a parseable resume whose file stays is parsed, and the whole implements `ReliableQueue`. |
| `rp_race` | pass | Two consumers, one resume, two faults, two deletions: a second row of one object comes only of two confirmations at one time or of an expired object, and a parsed resume is listed but for a deletion or an orphaned copy. |
| `pr_race` | pass | Three calls at a time out of five, one fault, a browser logging in and out: link columns agree, stored links were mailed; a used link is never accepted again; only an overlapping initiation undoes a reset; sessions are opened with the password of the moment. |
| `pr_revert` | violation | An initiation overlapping a submission writes the old password back. |
| `es_race` | pass | Two calls at a time, any number in all, any body, two settings, two organizations: one primary setting while calls are orderly, none lost by a promotion within its organization, no setting of another organization touched, no primary one deleted but one that became it since the check, every call answered. |
| `nt_push` | pass | One push held by two consumers, two logins over two users and two devices, up to three failed sends: one copy per delivery, pushes to own devices, working devices stay registered. |
| `nt_live` | pass | A mail, a push, a message of no type, one failure of any kind: nothing leaves the queue unsent, what can be delivered is, and the whole implements `ReliableQueue`. |
| `dev_server` | pass | Two overlapping calls on a posting, and the timer: dates, final deletions, no early stop, and an idle machine stops. |
| `folders` | pass | Two folders, two files, one name, one call and a client with one item per page: types with existing parents, nested paths, breadcrumbs that climb, complete paging. |

**Bounds.** The properties relate at most two calls and one bystander, and two keys,
settings or links; three calls with two of each therefore contain the patterns of
interference: two writers on one row, a writer between another's read and write, a batch
that shares one key with another batch, a third call that sees the result. `es_race`
serves two calls at a time, in any number one after the other; its two settings are the
one a call writes and the one it unsets, each of either organization at any time. One or
two faults put a failure between any two steps. Where a safety property is proved the
bound does not matter: more consumers, longer timeouts, deeper trees, more settings,
postings and browsers are covered by the proofs only. `rp_retry` has one consumer and one
fault, which its liveness property can afford; `rp_race` has what only a second consumer,
a second fault or a second deletion shows. `Limit` is 1, the smallest page, at which rows
cross a page border with every move; `Timeout` is two ticks, so that activity can come
before, between and after them. `fs_serial` uses an empty file among its sizes, the others
an ordinary and a larger one. The only deliberate caps on counting are `MaxFaults`,
`MaxDeletions` (deletions of the files of one key), `MaxStops` (stop requests in
`dev_server`) and the finite set of dates there; `MaxConcurrent` limits overlap, and
`MaxFailures` counts sends to live devices that fail: three are what it takes to exhaust
the retries. `BatchSize` is 2 where the code takes 5 messages; a third message of
`nt_live` makes batches that leave one out.

**Mutants.** Definitions marked "Mutant" are plausible mistakes (a clamp or a
guard dropped, a step not awaited, a swapped order). Each property is violated
when one of them takes the place of its original.

**Fairness.** `FileStorage`: weak fairness of each request's steps: Node runs every ready
continuation, Postgres grants a free lock, S3 calls settle. There are finitely many
requests, so weak fairness suffices for lock waits; and Postgres breaks a deadlock after
its timeout. `ResumePipeline`: weak fairness of the consumers' steps and of the visibility
timeout; strong fairness of receiving a given message, since a message is not always
visible but SQS hands out each one that keeps becoming visible. Nothing is assumed of
intake, recruiters, users or the lifecycle rule. `EmailSettings`: strong fairness of each
call's steps, because an endless stream of calls may take a row lock again and again and
Postgres queues those who wait for it. `Notifications`: as in `ResumePipeline`, and
nothing of publishers or logins. `PasswordReset` claims no liveness. `DevServer`: weak
fairness of the clock, of a timeout's callback once it is due (the event loop runs it),
and of EC2's answer, good or bad; nothing of requests. `FolderListing` and `Sessions`
claim no liveness.

## Disagreements between code and documentation

The two violations above are listed with their lines in `PROJECT.json`. More were
met while modelling; they follow directly from the cited lines and have no run of
their own:

- `tagMultipleObjectsWithRollback` catches every failure
  (`file-management.service.ts:292`), so it never throws or rolls back as its doc
  says.
- `deleteFiles` accepts ids of files already deleted
  (`file-management.controller.ts:238`) and their bytes are subtracted again. This
  breaks `UsedStorageIsTotal` without overlap; `fs_serial` excludes it by
  `ListedOnly`.
- two overlapping creations of email settings can both become primary, and
  `remove` can delete a setting promoted after its check
  (`email-settings.service.ts:42` and `:196`); `OnePrimaryOrderly` excuses calls that
  overlap, `PrimaryProtected` the removal whose target was promoted since its check.
- an update may carry any `organizationId` (`create-email-setting.dto.ts:76`), and
  `email-settings.service.ts:128` writes it: one call moves a primary setting into an
  organization that has one, which then has two, or out of its own, which then has none,
  whereas the docs at lines 29 and 102 say that there is one to unset. Such a call is not
  `orderly` (`GoesAround`), and `NeverWithoutPrimary` names it (`MovesOwn`).
- the old primary setting is written back with every column it was read with
  (`email-settings.service.ts:123`, `:49`), so that a move to another organization that
  was committed in between is undone; `NeverWithoutPrimary` names the case
  (`FoundElsewhere`).
- two consumers that handle one message, or two resumes with one object, at the same time
  both confirm it (`resume-parser.service.ts:109`): the comment at line 114 speaks of
  retries only. And a copy that outlives its rolled-back confirmation makes every retry
  skip the row. `OneRecordPerKey` and `ParsedFilesRecorded` name these cases.
- submissions of one reset link that overlap are all accepted (`auth.service.ts:97`);
  `LinkWorksOnce` speaks of later ones.
- `app.service.ts:10` says that the machine stops when there is no API activity; only
  `POST update-activity` counts as such.
- promoting an id that does not exist unsets the primary setting and reports
  success (`email-settings.service.ts:119`); `NeverWithoutPrimary` names the case.
- a redelivered resume writes status REVIEWING over whatever a recruiter decided
  since (`resume-parser-consumer.service.ts:137`, whose comment says "from
  PROCESSING to REVIEWING").
- the mail strategy says it fetches the organization's primary settings
  (`email.strategy.ts:29`); `getEmailSettings` takes any settings of it.
- a failed Firebase initialization is swallowed (`firebase-admin.service.ts:42`; its
  doc promises a throw), after which every push throws, counts all its devices as
  failed and unregisters them. `LiveDevicesKept` excuses such outages.
- an update of email settings that names no organization looks for a primary setting
  of any organization (`email-settings.service.ts:119`), whereas the doc at line 102
  says it unsets "any existing primary setting" and the comment at line 115 "for the
  organization". Such an update is not `orderly`, and `OwnOrganizationOnly` speaks of
  those that name one.
- `PermissionCategoryController` and `SystemPermissionController` are `providers` of their
  module, not `controllers` (`permission.module.ts:13`, `:21`): the routes their
  decorators document do not exist.
- `getParentFolderIds` returns the folder itself as the last id; its doc
  (`file-management.service.ts:244`) ends at "the current folder's parent".
- `formatBytes` (`organization.service.ts:110`) receives bigint columns, which the driver
  hands out as strings: an empty figure "0" is not the number 0 and comes out as
  `NaN undefined`; from 1024^5 bytes on there is no unit.
- a login opens the session before the handler verifies the Turnstile token
  (`local-auth.guard.ts:11`, `auth.controller.ts:66`): an error answer leaves a session.
- a rename leaves the old name in the paths of the folder and of everything below it
  (`file-management.service.ts:85`); `PathExtendsParent` is what still holds.

## Proofs

All theorems hold for every value of the constants that satisfies the named
assumptions: sizes add up (`TotalAssumption`), the ids of different kinds are
disjoint, the maps from resumes to requests, keys and addresses are functions, a page
holds at least one item, and `EmailSettings` serves finitely many calls at one time
(`NobodyStuck` of `FileStorageProofs` assumes the same of its requests).

- `FileStorageProofs`. `TypeCorrect`. `UsedBounded` (`UsedWithinConfirmed`, between zero
  and the bytes ever confirmed): the bound alone is not inductive, because a request
  writes what it read earlier. `AccountingInv` adds that everything read is within the
  bytes confirmed so far (confirmed bytes only grow), that rows exist only for committed
  confirmations, and that a confirmation about to commit brings new rows, whose bytes are
  disjoint from those there. `ListedFilesStored` (`ActiveFilesStored`): `StoredInv` adds
  that settled copies precede the commit and that S3 tags only what a deletion named.
  `DeletedForGood` is an action property. `ObjectsReclaimed` (`DeletedFilesReclaimed`):
  `ReclaimInv` adds that a confirmation copies only what it names and leaves no copy
  behind, so that nothing but a second confirmation can bring a tagged object back.
  `LedgerImplemented`: under `ServedAlone` (one call at a time, listed files, one
  organization) `FileStorage` implements `StorageLedger`; `SerialInv` says that the
  running call's figure is the one still there, and that its files are still listed. With
  `LedgerExact` it gives `UsageExactAlone`: the property that `fs_lost_update` violates
  holds without overlap, through every failure and rollback. `RowLocksExclusive`: no row
  is updated by two uncommitted transactions; `MarkInv` says that who marks rows is a
  deletion and marks what is in its batch. `NobodyStuck`: when all running calls wait,
  some of them are a circle that Postgres breaks; among the sets of calls that all wait
  for calls of the set a smallest one exists, because the calls are finitely many, and it
  is a circle. `OnlyMarkingAborted`: file rows come before the organization's row, so only
  deletions in their UPDATE are ever in a circle, and none of them has sent an S3 call.
- `ResumePipelineProofs`. `PipelineTypeCorrect`; `NothingLost` from `PipelineInv`, which
  says what each stage of a consumer has already secured; `RemovalIsFinal`.
  `QueueImplemented`: every step is a step of `ReliableQueue` or leaves it alone; `Delivered`
  adds that whatever a consumer works on was published, so that a message deleted twice
  is gone already the second time. `OneRow` and `ParsedAreListed` hold for any number of
  consumers, faults and deletions. By `ConfirmInv` the only confirmation of an object that
  was not raced finds no row of it, and its own copy in place when it commits; by
  `ListedInv` whatever is stored, parsed or past its confirmation is listed.
- `PasswordResetProofs`. `LinksWhole` and `LinksMailed` from `ResetInv`: entities and what
  `save()` found have agreeing columns too, so the columns it updates differ together or
  not at all. `SessionsImplementReset`: the composition with logins implements the reset
  flow, so all of it holds there. `AloneInv` says that nothing changes under a call that
  meets no other one, which gives `ResetsStickWhenAlone`; `LinkInv` that a link enters the
  row once, when its initiation ends, and that after a submission which is done it is gone
  from the row, which gives `LinksSpent`. `LoginsChecked` from `LoginsUpToDate`: what a
  login compares with is the password, unless a reset has overtaken it.
- `EmailSettingsProofs`. `SettingsTypeCorrect` needs that a call being served names a
  setting. `RowsInv`: a new setting is no other call's business until it is a row, and
  what a promotion unsets was of the organization it names when it was found.
  `OthersLeftAlone` and `PrimarySwitched` follow; `PrimaryKept` from `CheckedInv` (what a
  removal has checked is no primary setting unless it was promoted since), `OneWhenOrderly`
  from `OrderlyInv`, by which the one call there is has found the one primary setting
  there may be. `RowLocksExclusive` as above. `NobodyStuck` as in
  `FileStorageProofs`.
  `OnlyPromotionsAborted`: only a call that holds one row and wants another can be in a
  circle, and only promotions do.
- `NotificationProofs`. `NotificationTypeCorrect`; `JobsAccounted` proves
  `NotificationInv`, which says of every job how it came to where it is (devices
  still to be sent to have accepted no copy and have failed once per round used;
  a job that may delete its message has a send or an unreachable user behind it);
  `NothingLost`, `CopiesBounded`, `PushesStayHome` follow, and `RegistrationsStand`
  is an action property that needs it. `QueueImplemented` as in `ResumePipelineProofs`.
- `DevServerProofs`. `JobInv` says what the entity of a call that publishes holds, and
  that a call whose posting was written since is stale; `TimerInv` that an armed
  timeout and the idle ticks add up to `Timeout`, the reason a due timeout means idleness
  (`StopsAreDue`). `PublicationsDated` and `DeletionSticks` follow from `JobInv`.
- `FolderProofs`. `TreeInv`: drafts have the path of an existing parent, and paths never
  change; a parent's path is shorter, so a breadcrumb meets no row twice
  (`BreadcrumbClimbs`) and `PathsNested` is inductive with it. `BreadcrumbEnds`: by
  `TrailMeasured` the trail and the path of its first folder add up, so the walk ends at
  the root after as many rows as the path has names. `FoldersFormTree`: a set of folders
  with its parents in it would have no shortest path. `TreeImplemented`: files and
  listings are steps outside `FolderTree`. `PagesMissNothing` (`PagingMissesNothing`) from
  `ListingInv`: a row nobody touched, and with no file before it deleted, is only ever
  pushed back, so it has at least `(page - 1) * Limit` rows before it until it is shown,
  and counts taken after the rows cannot end the paging before it. The order of the rows
  (`ListingTypeCorrect`) is a relation, not a sequence, which is what makes this a proof
  about cardinalities.

Only model-checked: liveness (`EveryCallEnds`, `QueuedResumesParsed`, `EveryRequestAnswered`,
`DeliverableSent`, `IdleMachineStops`), which is out of the prover's reach; of
`EveryCallEnds` and `EveryRequestAnswered` the lock theorems above prove the safety part,
that there is always somebody to wait for or a deadlock to break. Only proved: these lock
theorems, `BreadcrumbEnds`, `FoldersFormTree`, and the type invariants of the modules
whose run does not list `TypeOK`.

## Not modelled

- Rows of other columns, wording, presigned URLs.
- `ResumePipeline` leaves out the steps inside a deletion (they are in `FileStorage`), a
  user who confirms the key of a resume by hand, and a PATCH of `expectedPosition`, a
  column the entity does not have. The redelivery that overwrites a recruiter's decision,
  and the placeholder whose message is lost, are states of the model that no property
  forbids.
- A body of email settings that names an organization which does not exist, or NULL, is
  refused by a constraint and rolled back, as if it had not been sent.
- A confirmation that lists one key twice, whose two rows would be those of two
  confirmations.
- `fileSize` is a 32-bit column; larger files fail on insert, which is an `Abort`.
- Downloads: `@Get(':id')` (`file-management.controller.ts:217`) is declared before
  `@Get('download')` and takes its requests; the handler would change nothing.
- Permissions: the controllers that create categories and system permissions are
  registered as providers (`permission.module.ts:13`), nothing else writes a category
  (`start.sh` does not run the seed, which names columns the entities lack), so that
  `POST /permission` never finds its category and `PUT /permission/:id` never its
  permission. Roles, licences, grants and effective permissions: `POST /role` reads
  `request.organization`, which nothing sets, `PUT /role/:id` is a stub, and
  `assignRolesToUser` and the licence and grant functions of the permission service
  have no caller. There is no reachable state to model.
- Users: creation looks for the organization `'wewe'` (`user.service.ts:26`), no uuid, and
  always fails. General settings: the controller passes the organization id `''`, no
  uuid either. Organizations: update and delete convert the uuid to a number;
  creation inserts a row nothing else depends on.
- `POST /candidate/parse-resume` throws for want of `req.organization`;
  `parseResumeAndCreateCandidate` and `updateCandidateWithParsedData` have no caller.
- The notification table has no writer, so its listing is empty; `deactivateStaleTokens` and
  `updateTokenUsage` have no caller. Nothing injects the caches. Employee leaves are stubs.
- The guards are stateless checks of one request. Encryption, Turnstile, Sentry,
  logging, interceptors and the database bootstrap keep no state of their own.

## What is left

Permissions, roles, licences and general settings, once something calls them.

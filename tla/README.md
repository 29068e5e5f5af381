# Verification of wenyousite-backend

TLA+ models of the backend's concurrent core, TLC configurations that check
them on small instances, and TLAPS proofs for every value of the constants.

The program is a NestJS service on PostgreSQL (Prisma) and Redis. Several
processes may run at once (a blue/green switch, a restart, background
workers), so its correctness rests on row locks, isolation levels, unique
indexes, conditional updates and the transactional outbox. That is what is
modelled. Texts, formatting, DTOs, listings and logging are not.

## The system and its parts

| Part | State | Operations | What makes it hard |
| --- | --- | --- | --- |
| Outbox (`outbox/`) | `domain_outbox` rows: attempts, available_at, processed_at | enqueue in the producer's transaction; claim, deliver, acknowledge, back off; purge | leases that run out, crashes, lost acknowledgements, two dispatchers, rows that always fail |
| User relations (`users/user-relations.service.ts`, `access/`) | `user_follows`, `user_blocks`, user row locks | follow, unfollow, block, unblock | opposite pairs at once, other components on the same locks |
| Economy (`economy/`, `progression/`) | wallets, ledger, check-ins, totals, experience | tipThread, tipUser, tipMoment, checkIn | snapshot older than the locks, retries of 40001, repeated requests, midnight |
| Post activity (`post-activity/`, `mentions/`, `notifications/`, `subscriptions/`) | `post_mentions`, notifications, local variables of a handler | post.created, post.mentions.updated, edits | an attempt that fails half way, redelivery next to a changing world |
| Likes (`threads/thread-reaction.service.ts`, `notifications/`, `redis/`) | `thread_likes`, aggregated notifications, the count in Redis | like, unlike, aggregate, read, delete, rebuild | redelivered events, stale projections, serialization failures |
| Terminals (`auth/`) | `refresh_tokens`, failed logins, account lock | login, refresh, logout, revokeSession, endings of all terminals | updates with and without the user lock, replay grace, time |
| Posting (`threads/`, `subthreads/`, `posts/`, `dice/`, `drafts/`) | threads, subthreads, members, floors, replies, bodies, request ids | create, edit, delete, pin, publish, save as a whole, invite, join | numbers given once, reads older than the lock, repeated requests |
| Direct messages (`direct-messages/`) | conversation, messages, participants | initiate, send, accept, decline, recall, archive, read | no lock before the first write, both sides at once |
| Moderation (`moderation/`, `reports/`, `moments/`) | reports, cases, decisions, appeals, sanctions, hidden content, counters | report, decide, appeal, overturn, sanction, revoke | decisions on rows read before somebody else changed them |
| Media (`media/`) | `media` rows, references, jobs, objects in the store | upload, confirm, process, recover, refer, reclaim | deletion claims next to new references, stalled and doubled jobs, failing storage |
| Mobile releases and downloads (`mobile-releases/`, `app-downloads/`, `scripts/promote-android-release.sh`) | notes, promotions, artifacts; catalogue, cache, journal, environment | edit, confirm, promote, withdraw, recover, pause, resume, prune | a script over four stores that is killed anywhere and undone by the next run |
| Fonts (`text-fonts/`) | catalogues | publish, activate | an operator's tool |
| The rest (`search/`, `bookmarks/`, `tags/`, `taxonomy/`, `meta/`, `config/`, `email/`, `health/`, `common/`, `activity/`, `admin/`, `jobs/`) | | | mostly reads, adapters and text functions |

Components interact in three ways: an operation's transaction enqueues an
outbox row, which the dispatcher delivers to listeners (Economy, UserRelations,
Posting and ThreadLikes produce; post activity, aggregation and push consume);
transactions of different components lock the same user rows
(`lockInteractionUsers`, `SELECT ... FOR UPDATE`); and a component reads the
tables of another (blocks, members, sanctions, deleted accounts).

## Modules

| Module | What it is | Uses |
| --- | --- | --- |
| `OutboxDelivery` | the abstract promise of the outbox | |
| `Outbox` | dispatchers, leases, faults, time | refines `OutboxDelivery` |
| `UserRelations` | relations and the user locks that everybody shares | |
| `Economy` | tips and check-ins composed with the relations | extends `UserRelations` |
| `PostFanout` | notifications of a new post, its mentions and edits | |
| `ThreadLikes` | likes, their aggregated notification and the count in Redis | |
| `AuthSession` | terminals and tokens of one user | |
| `Posting` | one thread from draft to deletion, with its members | |
| `MessageRequest` | the abstract protocol of a message request | |
| `DirectMessages` | the conversation of two users | refines `MessageRequest` |
| `Moments` | comments, likes and counters of one moment | |
| `Moderation` | reports, cases, decisions, appeals and sanctions | extends `Moments` |
| `MediaLifecycle` | one image from its upload to its deletion | |
| `MobileReleases` | release notes and promotions in the data base | |
| `ReleasePromotion` | the script that promotes, with journal, catalogue and environment | extends `MobileReleases` |
| `OutboxProofs` | theorems | `Outbox`, `PostFanout`, `ThreadLikes` |
| `EconomyProofs`, `AuthProofs`, `PostingProofs`, `DirectMessageProofs`, `ModerationProofs`, `MediaProofs` | theorems | the module they are named for |
| `ReleaseProofs` | theorems | `MobileReleases` and `ReleasePromotion` |
| `MC*` | instances for TLC | |

In the modules whose requests read before their transaction (`Posting`,
`DirectMessages`, `Moderation`, `AuthSession`, `Economy`) a request is a record
of what it has read; a `Begin...` or `...Read` action makes it, a `Commit...` or
`...Write` action is the transaction. `load` (or `Loads`) chooses at the start
what occurs in a behaviour, so that TLC covers each combination of operations
that interact without the product of all of them.

### Outbox

A row is `absent`, `pending`, `processed` or `purged`. `available_at` is kept
as the number of ticks until it, so that `Tick` needs no absolute clock.
`Claim` is the one claim statement (oldest claimable row, `SKIP LOCKED`,
attempts + 1, lease). As in the code nothing ends the claims of a row that
fails: a malformed one is claimed and backs off for ever. Only its attempt
number stops growing at `MaxAttempts` (`NextAttempt`).

A dispatcher delivers one row at a time, as the code
awaits each delivery; every listener settles separately (`ListenerSucceeds`,
`ListenerFails`), `AllSettled` is `Promise.allSettled`, and `Ack` and `Fail`
update only `WHERE id, processed_at IS NULL, attempts = row.attempts` (`Owns`).
`AckError` is an acknowledgement that throws after or without committing;
`FailError` the failure of the catch block's own update. A tick in which a
lease runs out under its delivery (`Overrunning`), or in which an idle
dispatcher has left a claimable row alone all the time (`Late`), counts as a fault. `Crash`, `Stop`,
`Exit` and `Start` are the life of the process.

`handled` is a history variable. With it the module refines
`OutboxDelivery` (`AtLeastOnce`): published = every row ever written, done =
processed or purged.

### UserRelations and Economy

`UserRelations` locks the users of a request in the order of their ids and
then reads what is committed, as READ COMMITTED does. Its set `Holder` leaves
room for transactions of other components on the same locks.

A tip in `Economy` has the code's order: replay lookup and checks outside of
any transaction (`Prepare`), first reads of the SERIALIZABLE transaction
(`Begin`: the snapshot `snap`), the user locks, the account checks
(`TipGone`), the wallet locks in the order of *wallet* ids, and then
replay lookup, block, thread or moment, balance (`Outcome`), all of which read
the snapshot. PostgreSQL refuses to lock or update a row that another
transaction has committed since the snapshot; the sets `staleUsers`,
`staleWallets` and `staleContent` hold these rows. `SerializationFailure` is
40001 and the retry (three tries). It may also strike a transaction that holds
everything, as a commit under SERIALIZABLE can be refused; no property relies
on such refusals. `Pay` is the debit, both credits, the totals, the ledger row
and the outbox row, in one commit.

A check-in runs READ COMMITTED: the day is computed before the transaction,
the reward is granted under the user lock, the experience on the day of the
grant. Deleting a thread or moment (`Close`) and making a thread private
(`MakePrivate`) change its row, while a block changes no user row: that is why
`PaidTargetIsLive` holds, of the access to a thread too, and `TipRespectsBlock`
does not. No request takes a member out of a thread (`exitMember` only clears
the player mark), so an audience shrinks by `MakePrivate` alone.

### PostFanout

Each dispatcher that handles `post.created` has the handler's local variables
(`loaded`, `explicit`, `target`, `pending`, `failed`) and passes through the
sections of `handlePostCreated` in their order: load, mentions, target, new
post or reply, replies. A section that throws sets `failed` and the next one
runs; the event is acknowledged only when none failed and the claim is still
the latest. Filtering recipients and storing notifications are two steps.
Edits store content, mention rows and an outbox event together, whoever else
is working on the post. Players and the subscriptions to the author change
meanwhile; the roles of the members stay those of the time of the post.

### ThreadLikes

`like` and `unlike` are one transaction each. A worker delivers one event to
its listeners, which interleave; `AggregateRead` and `AggregateCommit` are the
two ends of the SERIALIZABLE aggregation, `Conflict` says that what it read has
been changed since, `AfterConflict` what then becomes of the event (another try,
or a rejection after the last one). A notification remembers the keys of the
last `KeptKeys` events; `counted` is the history of what was counted into it.
The owner reads and deletes notifications meanwhile. Redis gets the count as it
was read by each delivery (`CacheRead`, `CacheWrite`), a late 0 of the
publication (`LateWrite`), and the value of the periodic rebuild.

### AuthSession

Rows of `refresh_tokens` are a sequence in the order of creation; a terminal
is a family, named by its first token. Transactions under the user lock keep
their updates in `revoking` until they commit; `logout` and `revokeSession`
are single UPDATEs in two steps: the rows they see when they start, and, when
no row among them is locked, those that are still active. `since` remembers
when a request arrived and `stamp` when a row was revoked. The grace of a
rotation is judged as the code does, at the time of the check, which comes
after the wait for the user's lock.

### Posting

`thread`, `sub`, `post`, `member`, `player` and `blocked` are the tables, `call`
the requests in progress. Every transaction that writes the content of a thread
starts with the row lock of the thread and is therefore one action: what it
reads in it is current, what the request kept from before may be stale (the
version of an edit, the body a save started from, whether the thread was
published, who sent the request). `CommitCreate` is `create` with
the guard, the next number (`NextNumber`, which counts deleted floors), the
post, its dice and its outbox row; a unique conflict leads to `Replay`, which
looks for the earlier post of the same `clientRequestId`. `CommitPublish`
settles the drafts, `CommitSave` is the aggregate save of all subthreads
and bodies, `CommitRemoveThread` deletes hard or softly as its earlier read
says. Members, players, invitations, visibility and blocks change in between.

### MessageRequest and DirectMessages

`MessageRequest` is the diagram of a request: it is opened with one letter,
accepted or declined by the other side, cancelled by its own side, and becomes
a conversation. `DirectMessages` has no lock before the first write: `Route`
reads the status and chooses a path, `Check` is `assertPairWritable` inside the
transaction, `Create`, `Transition`, `AcceptRequest`, `DeclineRequest`,
`CancelRequest`, `Blank` and `CommitArchive` are conditional updates on the status that was read. A message
sent into an accepted conversation is inserted and committed in two steps, so
that others see it later than its time of creation.

### Moments and Moderation

`Moments` has comments with their root, the counter of comments, likes and
bookmarks under the lock of the moment. `Moderation` adds reports, cases,
decisions, appeals, sanctions and sessions. A transaction of staff reads cases,
reports and decisions without a lock: one action for what it reads before its
first write and one for its writes, under the lock of the content (`Hide`,
`Unhide`) or of the account (`Sanction`, `RevokeWrite`), with the row read again.
Suspensions are upgraded to bans, run out and are revoked; a decision about an
account ends its sessions. `cause` remembers which decision hid a content.

### MediaLifecycle

`row` is the media row, `store` the objects, `job` the BullMQ job with its
attempts and its stalled flag, `refs` the contents that refer to the media.
The `Confirm...` actions are `confirmUpload` with its claim, its enqueue and the step back
when the enqueue failed; `StartJob`, `Download`, `Upload`, `Complete`, `Clean`,
`Failing` and `EndJob` are a processor's attempt; `RecoverRead` to `RecoverAdd` the recovery of
what stays in PROCESSING; `Attach`, `DetachRead` and `DetachCommit` are the references with the
database trigger that refuses a claimed media; `FindMarked` to `Mark` are the
daily reconciliation of the unreferenced markers, `Claim`, `DeleteObjects` and
`DropRow` the reclamation. Storage, queue and database fail
`MaxFaults` times, a worker dies at any point. Time is counted in days.

### MobileReleases and ReleasePromotion

`MobileReleases` has one action for each transaction: it locks the row of the
release and reads it again. `release[b].lock` is `promotionId`, `by` stands for
`publishedAt` (which promotion set it). `DataSpec` lets anybody call anything in
any order.

`ReleasePromotion` is `promote-android-release.sh` over it. The script holds
`flock` and does one thing after the other, so its state is the rest of its plan
(`todo`): `Plan` is the way forward, with and without the gateway, `Undo` is
`restore_journal` once the status of the promotion is known. Each step is an
action guarded by `At`; `Fail` is the trap, `Crash` a SIGKILL or a failed
compensation, both possible before every step, and the next `Start` begins with
`Restore`, as every run of the script does. A command whose answer is lost is its
effect followed by `Fail`. `journal.files` says which files the directory holds,
`Tear` is a kill inside `rm -rf` or between creating the file of the operation and
writing its id. `policy` is the environment file, `meta` what the running backend
was started with, so that a restart that did not happen shows. The catalogue is
written under the publisher lock by the script's commands and the operator's
(`desk`, in two steps: read, save), but restored without it. `astray` is a history
variable: it becomes true where the code loses, as told below.

## Runs

TLC, two workers, each well below five minutes.

| Run | Instance | Shows |
| --- | --- | --- |
| `outbox` (`MCOutbox`) | 2 dispatchers, 2 events (one malformed), 2 listeners, lease 2, back-off 1..2, 2 faults, attempt numbers told apart up to 3 | ownership, delivery, refinement and liveness; about 168,000 states |
| `economy` (`MCEconomy`) | 2 users and the platform, a thread and a moment, 2 tips, 2 visits, a block, an unblock and a follow in 9 scenarios of 3 requests, 1 content change, 2 days, 2 tries | money, keys, locks, relations; about 260,000 states |
| `tip_block` (`MCEconomyBlock`) | the same | refutes `TipRespectsBlock` |
| `fanout` (`MCPostFanout`) | owner, fan and author, 2 dispatchers (symmetric), 5 kinds of post, 1 fault, 2 changes | who is notified of a post; 1,231,947 states |
| `auth` (`MCAuthSession`) | 3 requests in 10 scenarios, one initial terminal, grace 1, transaction limit 2, life time 3, clock 3 | terminals, tokens, and what an unlocked revocation misses; about 2.3 million states |
| `posting` (`MCPosting`) | owner and guest, 2 requests at once, 3 posts, 2 subthreads, 2 versions, 1 pinned floor, five loads | numbers, admission, announcement, lost updates; 320,320 states |
| `posting_erased` (`MCPostingErase`) | the load of drafts | refutes `PublishedNeverErased` |
| `likes` (`MCThreadLikes`) | 2 users, 2 workers, 3 events, 2 notifications, 1 key kept, 2 tries, 1 fault, four loads | aggregation and the count in Redis; 740,047 states |
| `media` (`MCMediaLifecycle`) | 2 confirmations, 2 workers, 2 contents, 2 attempts, 2 days of grace, 3 days, 2 faults, four loads | references, reclamation, progress; 291,472 states |
| `messages` (`MCDirectMessages`) | 2 users, 2 requests at once, 2 keys, up to 3 messages, seven loads | the protocol of a message request; 577,036 states |
| `moderation` (`MCModeration`) | author, guest and staff, 2 comments, 2 transactions at once (symmetric), 2 reports, 2 sanctions, nine loads | counters, sanctions, cases and appeals; 777,268 states |
| `releases` (`MCReleases`) | 2 builds, 2 APKs, 2 promotions, 2 revisions, 1 published build kept by prune, five loads | release, compensation and recovery; 1,101,181 states |

Every property of a passing run was also tried against a mutated definition
(the `Bug...` operators: a dropped guard, a lock not taken, a wrong order), under
which TLC refutes it.

Bounds. `MaxAttempts` limits no claims: larger attempt numbers are not told
apart, and in return the lease of a delivery with the last number may not run out
(`Tick`), as its guard would no longer tell it from the next one. With two faults
no deliverable event gets beyond it, and the back-off has reached `RetryMax`
before, so only the malformed event repeats its number. Two dispatchers suffice for an overlap of deliveries, since only the
latest claim counts; two faults allow a failure and a failure of its repair.
Two tips give every order of two snapshots and their commits; tips in opposite
directions over three wallets could close a cycle of locks. In `fanout` one fault
and two dispatchers give an attempt that fails at any section next to one that
does not. Three requests on terminals give a pair that races and a third that
makes the outcome matter. Two requests at once on a thread, a conversation or a
case suffice for one that has read what the other changes, and the bounds on
rows leave room for a third change between the two. `KeptKeys` is 1 (100 in the
code), so that a key is forgotten within three events; `MaxPinned` is 1 (9);
`GraceDays` is 2 (7); `MaxTries` is 2 (3). Two promotions are one that is
interrupted and one that finds what it left, for the same build or the next one; runs
of the script, failures and crashes are not bounded at all. `Kept` is 1
(2); the proofs hold for every `Kept` but 0, with which prune would remove the build a
compensation goes back to.

`MaxAttempts`, `Faults`, `FanoutFaults`, `Changes`, `LastDay`, `MaxTime`, `MaxPosts`, `MaxSubs`,
`MaxVersion`, `MaxEvents`, `MaxNotes`, `MaxFaults`, `MaxDays`, `MaxMessages`,
`MaxReports`, `MaxSanctions` and `MaxRevision` are bounds that the code does not have; the loads
bound what occurs together. The deadlock check is off where all requests of a
behaviour may be done.

Fairness. `Outbox` has liveness under `FairSpec`: time passes, a running
dispatcher goes on claiming (its one-second interval), and is late for a whole tick
only as a fault (a tick stands for the 5 s of the shortest back-off at least); its promises
settle, and a stopped process is started again (the service manager, or a second
instance). Listeners are only required to succeed when they do not fail, and
failures are bounded: without that no event need ever be processed. `ThreadLikes`
assumes that deliveries go on (the outbox), that the writes after a commit settle and
that the periodic rebuild runs (`@Cron`). `MediaLifecycle` assumes that a
confirmation and an attempt of a worker proceed or fail, and that time passes and the
recovery runs (`@Interval`). Nothing is assumed of users, staff, the purge or
faults.

## What the code does otherwise than its documents

Each with a run that shows it:

* **A tip can be committed after a block.** `docs/modules/users.md:108` says a
  committed block cannot be passed by a concurrent interaction. The tip reads
  `user_blocks` in the snapshot it took before it locked the users
  (`economy.service.ts:343`, `:360`, `:397`); a block leaves the user rows
  unchanged, so nothing fails. (`TipRespectsBlock`.) Relations themselves are
  READ COMMITTED and do respect it (`FollowRespectsBlock`).
* **A published thread can be erased.** `remove` decides between a hard and a
  soft deletion by what it read before its transaction
  (`threads.service.ts:298`, `:310`); a publication in between makes it erase a
  published thread with all its posts, against `docs/modules/threads.md:79`.
  (`PublishedNeverErased`.)

Met while reading, without a run of their own:

* A repeated recall takes the next request: `recall` asks only whether a request
  of the caller is pending, not whether it is the message's
  (`direct-messages.service.ts:257`). Sent twice, with a new request in between, it
  deletes the new message (`docs/modules/direct-messages.md:59`).
* A promotion that succeeded can be undone by half: when the answer of `finish` is
  lost and the data base cannot be reached for the `status` either, catalogue,
  environment and history are put back (`promote-android-release.sh:350`, `:356`);
  the next run reads SUCCEEDED and drops the journal. The notes are public, the build
  is not recommended (`docs/mobile-release-operations.md:240` promises not to
  compensate a success). In the model: `StatusUnknown`.
* A kill inside the final `rm -rf` of the journal (`:514`) can leave it without the
  file of the operation: the next run puts the old environment back, or deletes the
  history. A kill between creating that file and writing the id (`:453`) leaves a
  journal that no run can restore (`:349`). In the model: `Tear`.
* The catalogue is restored without the publisher lock (`:356` to `:361`). A pause or
  resume in progress saves what it read before over the restored one, and the build
  that was just withdrawn is served again; a pause that came before is lost
  (`docs/app-download-gateway.md:80`). In the model: `OldCatalogue` while `desk` is busy.
* The artifact of a gateway promotion that failed stays registered
  (`mobile-release-publication.ts:132`), so that the build cannot be promoted through
  the gateway with another APK any more.
* A user who is mentioned and subscribed may be told twice of one post: when
  `parseAndCreate` fails, the later sections serve him as a subscriber
  (`post-events.listener.ts:128`) and the retry mentions him
  (`docs/notification-delivery.md:23` promises at most one).
* An "all players" token that was empty is expanded by a later retry
  (`mentions.service.ts:176`; `docs/notification-delivery.md:65`).
* `revokeSession` may answer SESSION_NOT_FOUND for a terminal that a refresh is
  just rotating (`auth-session.service.ts:426`; `docs/modules/auth.md:194`), and a
  copy of a refresh token that was presented within the grace is judged only after its
  wait for the user's lock, by then perhaps as a theft, and its terminal is revoked
  (`auth-session.service.ts:267`, against `docs/modules/auth.md:204`). In the model: the
  first refresh stamps the old token at 0 and commits at 2, the copy presented at 1 waits
  for it and revokes what the first one issued; no property promises the grace.
* A report that is committed into a case that was closed meanwhile stays pending
  (`docs/modules/admin.md:55`); two of the staff may resolve one case, or one
  appeal, with different outcomes; overturning an old decision brings back what
  a later one has hidden (`docs/modules/admin.md:57`), and a reply below a hidden
  root (`docs/modules/admin.md:49`, `restoreDecisionContent` does not look at it). A
  reply below a root that its author deleted can be reported
  (`reports.service.ts:311`) but not hidden (`moderation.service.ts:420`).
* A message of an accepted conversation that commits late may be missed by a
  client that polls with `after`, and may move `lastMessageAt` backwards. A
  delayed retry of a first message that was recalled creates the request again.
* The push listener of direct messages is registered without
  `suppressErrors: false`, unlike the others (`direct-message-push.listener.ts:10`).

## Proofs

Proved by TLAPS for every value of the constants, under the assumptions named
in the modules (`OutboxAssumption`, `RelationsAssumption`, `EconomyAssumption`,
`AuthAssumption`, `PostingAssumption`, `DirectMessagesAssumption`, `MomentsAssumption`,
`ModerationAssumption`, `MediaAssumption`, `ReleasesAssumption`, `PromotionAssumption`,
`FanoutAssumption`, `LikesAssumption`), which TLC evaluates on every run:

* `OutboxProofs`: `TypeCorrect`, `OneOwnerAlways`, `ProcessedMeansHandledAlways`,
  `LeaseUndisturbedAlways`, `AtLeastOnceHolds`. The inductive invariant
  adds to the type that the attempt number a dispatcher remembers is never
  greater than the row's and belongs to one dispatcher only, that a busy
  dispatcher's row was written, that listeners that settled without being
  rejected are in `handled`, and that the last attempt number told apart is under a lease
  while its delivery runs (`LastIsLeased`; the theorems hold for every `MaxAttempts`). `ProcessedMeansHandled` needs the last part: an
  acknowledgement looks at `settled`, which is the memory of one delivery,
  while the property is about all of them. `AtLeastOnceHolds` is the
  refinement: initial states map to initial states and each action to a step
  of `OutboxDelivery` or a stutter.
  *The handler of post.created* (`PostFanout`): `FanoutTypes`, `AttemptsTellOnce`,
  `AcknowledgedIsNotified`, from `FanoutAssumption` (the posts and the edits are well
  formed and `NoUser` is no user). The inductive invariant (`FanoutInv`) is the type; for each attempt
  `Placed` (it stands at a section its post has) and `SentBySection` (whoever it told is a
  recipient of the section that told him, by what the attempt knows now); and, until
  somebody changes something (`Quiet`), `Unchanged` and `Informed`: an attempt that has not
  failed knows what there is to know and has told all recipients of every section behind it
  (`Behind`). `OnePerAttempt` follows because the sections of a post have no common recipient
  (`SectionsApart`). That uses that an attempt never learns anything that would change the
  recipients of a section it has left: the handler looks up the target of an answer before
  it tells its observers. `AckedMeansNotified` follows because the recipients of all
  sections are all whom the post concerns (`AllTold`).
  *The handlers of likes* (`ThreadLikes`): `LikesTypes`, `NoLikeIsLost`,
  `AcknowledgedLikes`, from `LikesAssumption` (finitely many users, `None`
  is no number). The inductive invariant (`LikesInv`) is the type; `Counted` (the total
  of a notification is the length of its history, and the keys it remembers are of that
  history); `Delivered`, of each delivery: a snapshot it holds remembers only what has been
  counted, and if it is done with a like, that like has reached the owner or need not
  (`Reached`); and `AckedMeansCounted`. `CommitEffect` reduces a commit of the aggregation
  to two cases: it leaves the notifications alone, or it writes a row that is the present
  one plus one. The snapshots are needed because an aggregation that finds its event among
  the keys it has read counts nothing and is done: only what a snapshot remembers being
  counted for good (`Lasts`) makes that safe.
* `EconomyProofs`: `TypeCorrect`, `OncePerKeyAlways`,
  `ReplayLookupCurrentAlways`. The inductive invariant is the type, `NotSelf`
  (a tip past its preparation has two different users), `LockedFresh` (a
  locked row is not stale), `StaleOnlyOpen`, `SnapshotMisses` (a ledger row a
  snapshot misses has its sender's wallet among the stale ones) and
  `OncePerKey`. A tip that holds its wallets holds no stale row, so its snapshot
  misses no row of its own sender: its replay lookup is current, and it
  pays only when no row has its key. That is also why the unique index never
  has to refuse a tip.
  *Between components*: `FollowRespectsBlockAlways`, `PaidTargetIsLiveAlways`,
  `AnswerIsOwnTipAlways`. To the invariant they add what requests of
  different components hold against each other: `TipHolds` (what an open tip has read
  about users, content and who may see it holds now or the row is marked stale, none of its locked rows
  is stale, and wallets are locked only after both accounts were found active),
  `TipRests` (a tip outside its transaction holds nothing), `VisitHolds` (a check-in that
  has decided holds its user) and `RelationHolds` (a relation request that has decided
  holds both users, and a permitted follow is not under a block). A block commits only
  with both locks, hence never between the read and the commit of a follow. A deactivation
  makes its user stale for every open tip, and a tip that pays has locked both users.
  *The ledger*: `LedgerBalancesAlways`. Its invariant `Books` adds that the ledger is
  finite and each of its rows belongs to a request that is done, so a commit adds a row
  that was not there. What a sum gains by one more row is proved of the library's
  `MapThenSumSet` itself: since induction is out of reach, "the sum exists, and is the same in
  whatever order it is taken" is proved by its smallest counterexample, a finite set none
  of whose subsets is one (the strict subsets of a finite set are well-founded).
  *The locks*: `NoLockCycleAlways`. `UsersInOrder` (who holds a user holds all of his own
  users with smaller ids) and `WalletsInOrder` (who holds a wallet is a tip that holds its
  users, and its wallets of smaller rank) are inductive; so whoever is waited for can only
  wait for a lock that is greater, and in a finite set of waiting transactions one holds
  the greatest.
* `AuthProofs`: `Typed`, `OneTerminal`, `EndedForGood`, `MissesOnlySuccessors`: every property of
  the run. The inductive invariant is the type, `Families` (a terminal is named by one of
  its tokens, stays on its platform, and only terminals that exist were ended), `Single`
  (one active row per platform), `EndedStayEnded`, and for each request `CallTrue`: past
  the lock it holds the user's row; while it rotates, its token is the only one that may
  be active on the platform; once it has updated the row, nobody else can. Without `Single`,
  `EndedStayEnded` is not inductive: a logout ends the terminal of the rows it revoked, and
  no other active row may be of that terminal. For `MissesOnlySuccessors` a second
  invariant, `Found`, says of a revocation under way that whatever lives of its terminal is
  a token it found or a later one: a refresh inserts its token behind one that was active.
* `PostingProofs`: `Typed`, `RetriesConflict`, `FloorsAreAnnounced`,
  `FewPinned`, `OneBodyOnly`, `FloorsAdmitted`, `NothingLost`. The inductive
  invariant is the type, the predicate `Good` on the rows (every live floor of
  a published thread was announced once, every row lies in a subthread that
  exists, one body each, pinned floors are live and few), that the default
  subthread and the owner's membership exist unless the thread is gone, and, for each
  request in progress, that what it kept from its reads is something that was true
  (`CallTrue`: a thread it saw published stays published, the post it pins exists and
  is a floor, the subthread of its body exists, and a replay has an earlier post of its
  author and request id). The commits preserve `Good` because they look again under the
  lock, whatever their earlier reads say.
* `DirectMessageProofs`: `Typed`, `OneLetter`, `RequestIsListed`, `Refines`. The
  inductive invariant is the type, `Rows` (which messages exist, and
  `lastMessageAt`), `Kinds` (what a status says of the messages), `Shelved` (whose
  side is archived), `Apart` (two messages that are being inserted are different)
  and `CallTrue` for each request: what it has read stays true until the conversation
  is accepted. `Refines` is the
  refinement of `MessageRequest`: a conditional update whose status has not changed
  is a step of the protocol, every other one is a stutter.
* `ReleaseProofs`: `Typed`, `ConfirmedIsPublic`, `OneApk`, `NothingRetracted`, all of
  `DataSpec`, where anybody calls any operation in any order. The inductive invariant is
  the type, `Known` (a promotion is about a revision of a release), `Locked` (a promotion
  under way holds the lock of its release, on the revision it was begun with, and nobody
  else holds one), `Followed` (two promotions of a build that succeed are of one APK, and
  one under way that follows a success knows that there was a public version before it)
  and `Standing` (what is public was confirmed, and a success left it public). `Followed`
  is what makes an abort after a later failure harmless: it takes back only what
  `previous` says was not public.
  *The script*: `Implements`, and by it `ReleasedAsConfirmed`, `ReleasedAsOneApk`
  and `ReleasedForGood` for the whole release. The script's order of steps is not needed
  for them, only that it calls nothing but the operations.
  *Failures and recoveries*: `ServedTruthfully`, `RestsWhole` and `RecoversAlways`: with
  the others, every property of the run. These do need the order of the steps and the
  journal's content. The inductive invariant is `Certain`: `Inv`; `Follows` (the types,
  and what remains of the script's plan is sorted and has steps of that plan only: only a
  promotion has a promotion's steps left, and an abort is left only while the journal names
  a promotion); `Truths` (the catalogue, the journal's copy of it and the one an operator
  edits say of a published build what its promotion and its artifact say); and, until
  `astray`, `Whole`. `Whole` is the argument for the script: what is left of the plan and
  what was done are complements. Forward (`Onward`) the journal has the files, the catalogue
  the build and the policy the aim as soon as the step that does it is no longer left; on
  the way back (`Backward`) what is not left was undone, and a promotion that succeeded is
  never taken back; and in both (`Journalled`) the journal has what it takes to go back: the
  builds it names are public, safe from any promotion under way and still cached.
  `Safe` is the fact that is not visible in a single step: an abort takes
  notes back only if nothing was public when its promotion began, and the build the journal
  goes back to was.
* `ModerationProofs`: `TypeCorrect`, `CountsMatchAlways`, `SanctionedStaysOutAlways`,
  `ReversedIsLiftedAlways`, `SettledStaysAlways`: every property of the run. The inductive
  invariant (`Invariance`) is the type, `Counted` (the counted sets are finite, and the
  counters their sizes), `CauseSays` (a content that a decision hid is hidden, and the
  target of that decision), `SanctionSays` (a sanction belongs to no decision or to one
  that asked for it, and no decision has two) and `AppealSays` (the sanction an appeal has
  read is the only one of its decision that may be in force). The last one is what
  `ReversedIsLifted` needs: an appeal lifts the sanction it read before its transaction's
  first write, and only because no decision ever gets a second one is that enough. The
  proof first shows what each step may do to each table (`ContentEffect`,
  `DecisionEffect`, `AccountEffect`, `CallEffect`) and then that nothing within these
  limits breaks the invariant.
* `MediaProofs`: `TypeCorrect`, `ServableAlways`, `RowOutlivesMasterAlways`,
  `FinishedStaysAlways`, `ClaimGraceAlways`: every safety property of the run. The
  inductive invariant (`Invariance`) is the type, `AttemptsCounted` (a job that can run has
  an attempt left, and its owner knows whether it is the last), `ClaimedAlone` (a claimed
  media has no references and is not being processed), `StillCompleted` (who found the media
  completed finds it so, or deleted), `MasterStays` (the master is there from the upload to the
  claim), `MasterGone`, `FreshMarker` (a media in use carries at most a marker of
  yesterday, and then today's cleanup has not looked yet) and `MarkerLags` (a marker is at
  most one day older than the last use). `Servable` rests on `ClaimedAlone`,
  `StillCompleted` and `MasterStays`: a content that read COMPLETED may insert its reference
  much later, and finds a media that is still completed and whole or one that was claimed
  and refuses it. `ClaimGrace` is `MarkerLags` at the moment of a claim, and `MarkerLags`
  holds when the last reference goes because the marker, if there is one, was fresh.

Only model-checked: liveness (`EventuallyProcessed`, `CacheConverges`, `Settles`),
which is beyond the proof system. Every other property of a passing run is a theorem.
`OutboxProofs` hosts the dispatcher and two of its listeners, and extends all three
modules; that is why the names of `PostFanout` and `ThreadLikes` differ from those of
`Outbox` and from each other (`FanoutInit`, `LikesInit`, `ClaimPost`, `ClaimLike`).

## Not modelled, and why

Per module: payloads and texts; private threads and blocks against the parent
post's author in `PostFanout`; the after-balances of the ledger and wallet
overflow (a balance stays below the database's 64 bits by the amounts that exist);
`createSession` (a login without password check), and the expiry of sanctions in
`AuthSession` (`Moderation` has it); identities, titles, covers and the order of
subthreads in `Posting`; media, stickers and rates of direct messages; threads and
posts as targets of reports and the audit rows in `Moderation`; audio, previews and
the encoders in `MediaLifecycle`; version names, the minimum supported build, preflight,
the deploy lock, download budgets and the checks of the objects in the store in
`ReleasePromotion` (each of these is one of the reasons for which a command may fail).

Whole components: listings, search, export, meta and health read only. E-mail and
object storage are adapters. Stickers, tags, taxonomy, drafts and bookmarks
are single-row writes of one user or of one of the staff. Fonts are published by an
operator's tool. Push and activity
statistics are best effort; nothing depends on them. Each is listed with its reason in
`PROJECT.json`.

## What could come next

* `ThreadLikes`: the other projections (views, reply counts) and tip totals, whose
  events carry a total and may be retried out of order.

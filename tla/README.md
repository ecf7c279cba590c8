# Aura server: verification project

TLA+ specifications of the Aura server (`src/`), a gRPC chat and posting server written in
Rust: tonic services and a console call handlers in `src/logic`, which keep their state in
PostgreSQL through diesel, publish notifications over NATS, send mails, embed texts and
store files. The specifications are checked with TLC; theorems about them are proved with TLAPS.

Paths below are relative to `src/src/` unless they start with `migrations/`.

## 1. Inventory

| component | state | operations | what must be true of it |
|---|---|---|---|
| chat channels (`logic/chat.rs`, `services/chat.rs`, `console/chat.rs`) | tables `channels`, `channel_members` | create, delete, invite, uninvite, set permission | no dangling membership; a channel keeps a manager; only managers manage; a closed user is not added |
| messages (`logic/chat.rs`) | table `messages` | send, read, delete | a message is sent and deleted by those who may; its notifications and its row appear together |
| notifications (`logic/user.rs`, `state/mod.rs`, `types/user.rs`) | `users.notifications` (JSON), NATS subjects | push, subscribe, expiry | none is lost, none is published for something that never happened |
| users and authentication (`logic/user.rs`, `services/user.rs`, `auth.rs`) | table `users`, follows, blocks, tokens | create, update, delete, auth, follow, block | deletion cascades; update changes what was asked and nothing else |
| email registry (`state/email.rs`) | DashMap of codes | register, verify, maintain | a code works once and until it expires; maintenance always ends |
| cooldowns (`state/cooldowns.rs`) | DashMap of times | throttle, maintain | a call is accepted no sooner than a cooldown after the time the one before had taken |
| server state, maintenance, shutdown (`state/mod.rs`, `main.rs`) | exit notification, status lock | maintain, set_exit, status | an exit is seen by everyone; status is answered |
| text embedder (`state/embedder.rs`) | job queue, semaphore | embed | every job is answered |
| database pool (`state/database.rs`) | 16 connections | get | every request gets a connection in the end |
| posts and reactions (`logic/posting.rs`) | `posts`, `post_reactions`, `users.embedding` | create, delete, react | vectors follow reactions; a reaction taken back leaves no trace |
| feed (`logic/feed.rs`) | `users.embedding` | update, reset, init, rank | no update is lost |
| resources (`logic/resource.rs`, `services/resource.rs`) | table `resources`, files | upload, download | a row has its file and the file is the one it describes |
| general service, console, conversions, configuration, ids | none of their own | | |

How they interact: every service method throttles (cooldowns), takes a pooled connection,
authenticates (one read of the user) and calls a handler. Handlers share nothing but the
database and the few in-memory maps of `ServerState`; so the concurrency of the server is the
concurrency of SQL statements of different transactions, of calls into two DashMaps, and of
publications and mails with the statements around them. The console runs the same handlers
in the main task.

What is hard, and what the properties are aimed at:

* **READ COMMITTED.** No transaction asks for another isolation level and no query locks what
  it reads (`FOR UPDATE` is never used). Every check-then-write in a handler can be overtaken.
* **Lock order.** `push_notifications` updates rows of `users` in the order an unordered query
  returns them; foreign keys cascade, and PostgreSQL locks the rows a cascade reaches one by one and keeps them.
* **Effects outside the transaction.** Publications, mails and files happen before the
  commit that makes them true.
* **Maps that are iterated and changed**, codes that are read and then removed.
* **Partial failure.** Several handlers write twice without a transaction.

The list of hazards, each at its line, is in `PROJECT.json`.

## 2. Modules

| module | models |
|---|---|
| `ChannelPermissions` | the permissions of a member and the absence of a row |
| `Channels` | the handlers of the chat channels and the deletion of users, each as one atomic step: the abstract specification |
| `ChannelTx` | the same handlers statement by statement: transactions, row locks, rollbacks, failures, deadlocks. It instantiates `Channels` |
| `Notifications` | messages and the notifications they leave: sending, deleting, `user.update`, subscription and loading, statement by statement |
| `Requests` | what the parts of the server state share: the requests in progress and the time |
| `Cooldowns` | `throttle` and the sweep of `CooldownManager::maintain` |
| `Emails` | the registry of verification codes: register, verify, maintain, shard by shard |
| `ServerState` | composes the two with the main task: maintenance loop, status lock, console exit, draining |
| `Embedder` | the queue, the dispatching task, the permits and the jobs of the text embedder |
| `Threads` | what `Board` and `Posting` share: posts, their authors and parents, and what lies below a post |
| `Board` | posts, reactions and blocks as the tables alone show them, each request at one instant: the abstract specification of `Posting` |
| `Posting` | posts, reactions, blocks, vectors and queries, statement by statement, over the pool of connections and the embedder. It extends `Embedder` and `Threads` and instantiates `Board` |
| `Store` | objects that are written once and go with their owner: the abstract specification of `Resources` |
| `Resources` | rows and files of resources: upload with its encoder, download, registration, deletion. It instantiates `Store` |
| `Channels_proofs`, `ChannelTx_proofs`, `Notifications_proofs`, `Cooldowns_proofs`, `Emails_proofs`, `ServerState_proofs`, `Posting_proofs`, `Resources_proofs` | the theorems and lemmas about the modules they are named after |
| `MCChannels`, `MCChannelTx`, `MCNotifications`, `MCServerState`, `MCPosting`, `MCResources` | small instances for TLC |

### Channels

One action per handler, with all its checks in the order of the code; a handler whose check
fails changes nothing. `users`, `allowInvites`, `status` and `member` are the tables `users`
(presence and the setting `allow_invites`), `channels` and `channel_members`
(`migrations/`). A channel id is `"unused"`, `"live"` or `"deleted"`, since ids come from
Sonyflake and are not given out twice. `CreateChannel` includes the checks of the
service (`services/chat.rs:47-59`); the console creates channels without members
(`console/chat.rs`). `Invite` has no such check: `chat::invite` reads the settings of the invited user (`logic/chat.rs:157-165`) and passes them on for the notification only, so that a manager adds a
user who does not allow invites, in any order of calls. No run is spent on this; the guard `Invite` does not have shows it.

### ChannelTx

A process is a request on its own connection. `pc` is the statement it executes next: `exists`,
`issuer`, `absent`, `target`, `count`, `settings`, `check` are SELECTs, `write` is
the INSERT, UPDATE or DELETE, `notify` the updates of `push_notifications`, `commit` the
COMMIT. `rowLock[c][u]` says who has an uncommitted write on a membership row; a write waits
for it. `userLock[u]` is the same for rows of `users`. An INSERT that references a user waits for
an uncommitted deletion of the user, and keeps one waiting (`BeingDeletedBy`, `Referencing`):
that is what a foreign key does; `ChannelDeletedBy` and `Extending` are the same for the row of a channel. `DropUser` and `DeleteChannel` lock
that row first and are then at `cascade`: each step of `Cascade` locks one more of the memberships and messages that depend on it, in any order, as soon
as nobody else holds it, and what is locked stays locked; `Cascaded` is the end, when there is none left. Of messages (`messages`, `messageLock`) only the rows
count here, as what the cascades of accounts and channels share: `Send` enters one (with the foreign keys as its only guards, since the permission was read by an
earlier statement) and `DeleteMessage` takes one away. `delete_channel` is not a transaction in the code, so its
last statement commits by itself. `Fail` rolls a request back at any point: a lost connection,
a publication NATS refuses, a deadlock.

`stale[p]` is an auxiliary variable: it becomes true when another request commits a change
to the tables `p` depends on. It appears in no guard. `Handler(req[p])` is the action of `Channels` for what `p` was asked to do, with its issuer, target, grants and
permission: `IsolatedCommitsAreSerial` says that a request that is not stale ends with that very step or with the tables as they were.

### Notifications

One channel. The life of a message id is in `messages`; `inbox[u]` is the committed column
`users.notifications`, `pending[u]` what an open transaction has written there while it holds the lock of
the row (`userLock[u]`). A request to send goes through `perm` (the check of the service,
absent for a console command), `channel` and `members` (the two queries of `get_channel`), `insert`, and
for each recipient `notify` (read the list and publish, `PushRead`) and `update` (write the
list back, `PushWrite`), in any order, since the query for the recipients is unordered. The publication is taken
together with the read before it: nothing that happens between the two sees the difference, except a client
that subscribes in between, and it would know more. `UpdateUser` is `user.update`: a
list read with the user by `auth::verify`, written back with the row. Publications
reach whoever subscribed before them at once and stay, whatever becomes of the transaction.

What the handlers of the channel commit meanwhile is the environment: `ChangeMember` for single rows,
`DeleteChannel` with its cascade to the messages. Invitations push notifications in the
same way, to one recipient; they are not repeated here. Accounts are not deleted here, and notifications are named by
their message, since each recipient gets one per message.

`moved[p]`, `arrived[p]` and `underway[u]` are auxiliary and appear in no guard: whether the members
have changed since `p` started, what was stored since `p` started, and what requests in
progress carried for `u` when its client loaded.

`WaitsFor(p)` is who holds the row a request waits to write to. Only `send` keeps such a row, from `update` until it commits;
`user.update` commits by itself.

### Cooldowns, Emails, ServerState

`Cooldowns` splits `throttle` where the code does: the time is taken (`Arrive`) before the entry of the map
is locked (`Admit`, `Refuse`). `maintain` takes one time (`SweepStart`) and applies it to
entry after entry (`SweepKey`). `AdmittedApart` is about the time an admission comes at and the time the one before it had taken, not the time that one came at: a request that
waits for the entry after it has taken its time is admitted late, and the next may follow sooner than a cooldown after that. The clock is a number that stops at `MaxTime`; the theorems do not depend on it.

`Emails` has one entry per address. `register_email` is `Draw` (code and expiry, before the mail), then `Deliver` or
`GiveUp` (the transport fails, which is a panic of the task, or the request times out: the mail may have
left), then `Insert`. `verify_email` is `Compare` and `Remove`, two separate locks of the
shard. `Hang` is what `maintain` does at an expired entry: it iterates over the map, which
holds the shard for reading, and calls `remove`, which waits to lock the same shard for writing. No task
but the one that waits could release it, so the shard stays in `held`; from then on entries there can be read and
not changed. Codes are drawn once each; an accidental match of two draws is left out.

`ServerState` adds the main task (`main`): `select` and `lock` are the two places where it
gives up control, and where the console and the server can run; `scan` and `sweep` are synchronous. The
three futures of its `select!` are one task, so they never run at the same time; handlers are other
tasks and do. `Exit` is `notify_waiters`: the gRPC server always waits for it, `maintain` only in its
`select!`, and misses it while it waits for the status lock. The main task then ends when the server has drained.
A request presents a code its user has read in some mail, or something that is no code.

`raced`, `alone`, `latest`, `mailed`, `spent` and `last` are auxiliary; only `mailed` appears in a
guard, for the code a user can know.

### Embedder and Posting

`Embedder` is `state/embedder.rs`: `embed` sends into a channel of `QueueSize` jobs (`Ask`, which waits for room), one
task takes a job (`Receive`) and waits for one of `Permits` permits (`Acquire`), and a blocking task computes it
and gives the permit back (`Respond`). A job is the request that waits for it; the job of a request that
was dropped goes on as `Orphan` and keeps its place, its permit and its turn (`Abandon`).

In `Posting` a process is a request again, and `pc` its next statement. `connect` is `Database::get`: a request waits there until
fewer than `PoolSize` are `Connected`, reads its user (`auth::verify`) and keeps the connection until it ends, also
at `embed` and `embedding`. Then

* publish (`logic/posting.rs:24`): `parent` (a comment's parent exists), `embed`/`embedding` for one with text, `insert`, `vector` and `write` (the two
  halves of `update_user_vector`), `commit`;
* react: `post`, `previous`, `upsert`, `refer` (the foreign keys of a new row: its post is locked with `upsert`, its user here), `vector`, `write`, `commit`;
* unpublish: `author`, `remove`, which locks the post, and `cascade`;
* block: `target`, `row`; update: `reset`, `embed`, `embedding`, `init`, then `code` (which may fail) and `overwrite`; drop: `drop`, `cascade`;
* get, get_of, search, feed: `posts`, `blocks` author by author (get only), `liked` and `candidates` (feed only), `counts`, `own`, `comments`.

`wrote[p]` says what p has locked until it ends: `"row"` its reaction, `"post"` and `"key"` the share of the post and of the user a row it inserts
refers to, `"user"` the user's row. `held[p]` are the rows the cascade of `unpublish` or `drop` has locked. `Doomed(p)` is what it has come to: posts, reactions and blocks that refer
to the account, and comments and reactions that refer to a post it holds; `Cascade` locks one of them, any that nobody else holds, and `Cascaded` deletes them when all are
held. `WaitsFor(p)` derives from it whose commit a statement waits for, and so which
deadlocks there are. A vector is the sequence of moves it is the result of: `update_user_vector` reads it into `base` and
writes `base` with one move more; the reset leaves `<<>>`, which is NULL. `found`, `todo` and `counted` are what a query
has in its hands between its statements.

`overlapped`, `moved`, `blocked`, `clean` and `interrupted` are auxiliary and appear in no guard.

`Board` has the same posts, reactions, blocks and users, and no requests: `Publish`, `React`, `Unpublish`, `Block`, `Unblock` and `Drop` happen at one
instant and refer only to what is there at that instant. `BoardSpec` is that `Posting` implements it with its own tables, where an id that is taken by a request
that has not committed counts as unused (`Published`). The checks of the handlers are made some statements before the
commit, so that this is a promise of the foreign keys and the locks, not of the checks.

### Resources

`row` is the table `resources`, `file` the directory. A file is the set of the contents there are pieces of, with `"part"` for one that is
incomplete: an encoder or `resource::write` opens the file, which empties it, and writes it from the beginning, so of what
another one wrote in between it may leave the end (`Over`). Upload is `verify`, `authorise` (`is_upload_authorized`), `receive` (the stream into the temporary
file), `encoding`, `stat`, `exists`, `create`. The encoder is a job of its own in `jobs`: when its request is dropped, it goes on
for `Orphan`. Download is `row`, `members`, `open`, `stream`, `more`; two chunks are enough to see two versions of a file. Register is `code`, `settings`,
`user`, `icon`, `write`, `written`, `vector`, each of which commits by itself. A user stands for the key of his icon,
which is his name; all other keys are `Fresh`, from the id factory. Deleting an account takes its rows along and leaves the files.

`Store` knows owners, objects and keys that are spent. An object appears whole (`Put`), is never changed and disappears with its owner (`Leave`); a key whose
upload has ended is not used again (`GiveUp`). `StoreSpec` is that `Resources` implements it for the keys from the id factory: an object is a row with what its file
holds (`Objects`), a key is spent when it was issued and no request uploads to it (`Spent`). Icons are not in it: their files are written over
(`IconIsOwn` says what holds of them).

`mine`, `revoked`, `halfway`, `haunted` and `wasted` are auxiliary: whose contents an icon may show, whose rights have
changed since he asked, and which registrations ended where.

## 3. Runs

| run | instance | shows |
|---|---|---|
| `channels_serial` | 3 users, 2 channels, grants of up to two members with any permission | only the deletion of an account takes the last manager away; then the channel only shrinks |
| `channel_tx` | 2 users, 1 channel, 1 message, 2 processes, every request | consistency under every interleaving, cascades row by row; a request that is not overtaken does what its own handler does in `Channels`; an orphaned channel is revived by a promotion in flight only |
| `channel_tx_live` | 3 users, 2 channels, a message of the user who leaves, 2 processes, requests that lock rows of `users`, and the deletions of an account and a channel, which share a membership and a message | the three shapes of deadlock; every request ends |
| `channel_tx_write_skew` (violation) | 2 users, 1 channel, 2 processes, nobody deletes an account | two managers leave at the same time and the channel has no manager, against `logic/chat.rs:252` and `:339` |
| `notifications` | 3 users, 2 messages of different authors, 2 processes, 3 requests, 1 client; a member comes and goes, the manager may lose the right to write | stored notifications were committed; the only ways to lose or miss a notification or to send without permission are the overlaps the properties name |
| `notifications_live` | 3 users, 2 messages of one author to the two others, an update of one of them, 2 processes, 3 requests | only messages deadlock; every request ends |
| `server_state` | 2 addresses in 2 shards, 2 codes, 2 requests in progress, time up to 2, one method with a cooldown | a code is spent once, except in the overlaps the properties name; no admission comes sooner than a cooldown after the time the one before it had taken |
| `server_live` | the same with 1 code, time up to 1 and no cooldowns (a cooldown refuses at once, nobody waits for it) | every request ends except those that write to the shard `maintain` holds; `exit` ends the server unless the main task hangs |
| `posting` | 2 users, a post and a comment on it, 3 processes, 2 connections, a queue of 1 job and 1 permit; every pair of 16 requests, the triples where a third one matters, and two accounts that leave with a block and a reaction between them | rows stay consistent under every interleaving, and the tables alone behave as `Board`; vectors follow reactions, and blocks and counts hold, but for the overlaps the properties name; the two kinds of deadlock; every request ends |
| `resources` | 2 users (one registered), 3 addresses, 2 contents, 2 fresh keys, 2 processes, 3 requests | a row describes its file, a download is whole, an icon is the account's own, a spent code is accounted for, but for the interruptions the properties name; what is under the keys of channels and posts behaves as `Store` |
| `server_expired` (violation) | 2 addresses in 2 shards, 1 code, time up to 1 | a code is accepted at the time its mail says it expires (`state/email.rs:151`): `verify_email` does not look at it, and maintenance has not come to it |
| `server_hang` (violation) | as `server_live` | `exit` does not end a server whose maintenance met an expired code |

Bounds. Two processes are enough for every anomaly of two transactions, and deadlocks of
more than two need as many handlers in a cycle as two do; three users give a manager, a target and a
bystander. One channel suffices where handlers of different channels share nothing; the run about
deadlocks has two, since rows of `users` are what channels share. One message is enough to have two cascades meet on a membership and a message in
opposite orders; in `channel_tx` it is of a manager, in `channel_tx_live` of the user who leaves. The check of
`allow_invites` happens before the transaction of `create_channel` starts, so even one request at a time can be overtaken by a change of settings: this is the
staleness the hazard at `services/chat.rs:54` describes, and `channel_tx` covers it.

In `notifications`, `MaxRequests` is the number of requests made: two that overlap, and one after or
before them. `Requests` leaves out only who else could ask the same (deletion by `u1`, updates of `u3`),
`Changes` names the changes of members that matter to a check: a right to write that is lost, and a
recipient that appears or disappears. The two processes are interchangeable and no property or constant
distinguishes them, so `Proc` is a symmetry set. In `notifications_live` both messages have the same author, so that they share two recipients, which is what a
deadlock of two takes; the third request is an update that waits for one of them. Nobody watches and no member changes there.

In `posting`, `Workloads` are the sets of requests made together: an anomaly of READ COMMITTED is one of two requests, and three are
taken where the third makes the case (a reaction, its withdrawal and something between; a block, its end and a query; three users of an embedder that
takes two jobs; a post, a reaction and a deletion in a cycle of waiters). Four requests leave two deletions of accounts with a reaction and a block
that both cascades reach; a deletion of an account and one of a post that lock each other's rows need more posts than the two of the run, and the theorem alone covers them. Requests go to the first free
process, since processes are interchangeable. Two connections and three processes make requests wait for the pool, one permit
and one place in the queue make them wait for each other's jobs while they hold connections. Deadlock is not checked, since workloads end; that nobody waits for ever
is `RequestsEnd`.

In `resources`, `MaxRequests` = 3 allows an upload, a deletion and a new registration of the same name to overlap, which is the
longest story the properties know. `Requests` leaves out what differs in names only. Two keys tell the row of one
upload from that of another. Deadlock is not checked, since requests end when all are made.

In `server_state`, two codes are an old and a new one, two requests race for one entry, and `Exp` = 1 with
`MaxTime` = 2 lets codes expire while they are on their way, registered, and read. `CodeLeft` bounds the
mails by the codes. The method that presents codes has the cooldown, since it is not bounded otherwise.
Processes and codes are interchangeable. Deadlock is not checked in the runs about the server: it stops.

Fairness of `ServerState!FairSpec`. A request goes on when it can (tasks are polled when
woken; the tokio mutex is first come first served; a request that waits for it is timed out by
`network.timeout`); `Maintain` goes on when it can, since its interval ticks for ever; `Exit` is
executed because the main task gives up control between two ticks; `Drained` happens since connections
have a maximal age and a grace period (`main.rs:136-137`). These are strong, since the lock is taken and released
in between. Nothing is assumed of the clock, of users, or of what is typed.

Fairness (`FairSpec`) of `ChannelTx`. `SF_vars(Step(p))`: a request goes on when its statement can
execute; PostgreSQL queues the waiters of a lock, so a waiter is not passed over for ever, which is strong
fairness. `WF_vars(Deadlocked(p) /\ Fail(p))`: PostgreSQL looks for cycles of waiters
and aborts one of them. No fairness is assumed of requests, settings or failures.

`Notifications!FairSpec` assumes the same.

Fairness of `Posting!FairSpec` is the same, with one addition: `WF_vars(EmbedderStep)`, since the task of the embedder is
polled when it can go on and a computation ends. Strong fairness of `Step` is needed at `connect`, at `embed` and at the locks: the pool, the channel,
the semaphore and the database queue those who wait.

Deadlock is checked in the runs about channels: a state with no successor is none of the model's, since a
process can always submit or fail. So it is in `notifications` and `notifications_live`, where the environment goes
on. It is not in the runs whose requests run out (`posting`, `resources`) or whose server stops.

## 4. Proofs

`Channels_proofs` proves, for every finite set of users, every set of channels and every set of
grants of the declared type:

* `TypeCorrect`: `Spec => []TypeOK`.
* `Integrity`: `Spec => []ReferentialIntegrity`.
* `OnlyDeletion`: `Spec => OnlyDeletionOrphans`. The argument is the lemma `ManagerStays`: in each
  action but `DeleteUser` either nobody's permission is lowered, or the target is not a manager, or
  the count of managers was more than one (`AnotherManager`, by the cardinality of a singleton).
* `Managed`: if no user may delete an account, `Spec => []EveryChannelManaged`. The inductive
  invariant is `TypeOK` with the property itself: without the guard on the count it is not inductive.
* `OrphanShrinks`: `Spec => OrphanOnlyShrinks`, because every action that adds or promotes
  asks for a manager first.

The assumptions are those `Channels` names: `UserFinite`, `GrantsType`, `LeaverType`. TLC
evaluates them in every run.

`Cooldowns_proofs` proves `Apart` (`CooldownSpec => AdmittedApart`) for every set of keys, cooldowns and requests. The
property is not inductive: it holds because no stamp or sweep lies in the future (`Past`) and because the map holds
the time of the last admission, or nothing once its cooldown is over (`Kept`). The assumptions are
`CooldownType` and `KeyIsKey`.

`ChannelTx_proofs` proves, for every number of requests in progress, users and channels:

* `TypeCorrect` and `Integrity`. The invariant `IInv` adds who holds what: `RowsHeld` (a request that has written to a row of `channel_members` is in the second half of
  its transaction, and what it will commit is allowed, because the deletion of the channel and of the
  user wait for it), `UsersHeld` (an account that is being deleted is referenced by nothing uncommitted), `Deleting` and `Emptying` (the same for a channel), and `Creating` (the id
  of a new channel belongs to one request). `MailInv` is the part about messages: each has its channel and its author, and a cascade holds it only if it is doomed. Without it a commit could add a member to a deleted channel. `AdvanceKeeps`, `FinishKeeps` and `LockRowsKeeps`
  say once what a read, an end and a write preserve; the operations cite them.
* `OrphanStays`: `Spec => OrphanStaysOrphan`, because a promotion passes the check of its issuer before, and no other write makes a manager.
* `IsolatedIsSerial`: `Spec => IsolatedCommitsAreSerial`, the theorem that ties the two levels together: a request that is not stale takes
  the step of its own handler in `Channels` when it commits, with its issuer, target, grants and permission (`Handler`), or changes nothing. The invariant is `Informed`: what a request has read, statement by statement
  (`SeenCreate` ... `SeenSetPerm`), is still true while it is not stale. Each statement adds its part (the lemmas named
  `...Learns`), a step of another request leaves it true or makes the request stale (`SeenStays`, `OtherChannels`), and at the commit the parts are the guard of the handler
  (`CommitIsSerial`, `DeletionIsSerial`, `DropIsSerial`).
* `FreshIsSerial`: a behaviour in which no stale request commits (`Spec /\ [][StaleCommitNothing]_vars`) implements `Channels`, for any number of processes;
  `AloneIsSerial`: with one process and no shy user nothing is ever stale, so that `Spec => SerialSpec`. (`channel_tx_write_skew`
  shows that the hypothesis cannot be dropped: two stale managers commit.) The state of `ChannelTx` maps to that of `Channels` by its committed tables; a step that
  does not commit stutters.
* `FreshIsManaged`: under the same hypothesis, and if nobody deletes his account, every channel keeps a manager. This is `Channels_proofs!Managed`, carried along the
  refinement.
* `DeadlocksOfThreeKinds`: `Spec => []DeadlockShape`, for cascades that lock their rows one by one in any order. No induction along the cycle of waiters is needed: a lock is held only in the second half of a
  transaction, so in a set where everyone waits for someone of the set, the one waited for has reached `notify`, `commit` or `cascade` and waits there itself (`Stuck`). Whoever waits in `notify` waits for a
  request that holds a row of `users` (`UserHolder`), which is another `create_channel` or an account at its cascade (`NotifierInDeadlock`); an account at its cascade waits for a membership or a message, which a removal of that
  user holds, or another cascade (`DropInDeadlock`, `CascadeInDeadlock`; two accounts share no row). This needs `IInv` and `OneRecipient` (only `create_channel` notifies more than one user, so any other request that waits in `notify` holds no row
  of `users`).

The assumptions are `TxGrantsType`, `TxLeaverType`, `TxUserFinite`, `MessageType`, `RequestsType` and `ProcNotFree`.

`Notifications_proofs` proves every safety property of `Notifications`. `MessagesHaveChannel` needs `InsertedLive` (a message that is inserted and not
committed keeps the channel). Three others rest on `Carried`: for each request that is notifying, what it has pending for
a user was read under the lock it still holds, so that the write at its commit adds its own message and takes away
nothing else (`Current`), is of messages committed or its own (`Honest`), and is known to the client or noted as under way
(`Covered`). `Authorised` and `AllNotified` rest on `Informed`: what a request has read of the members is still so while `moved` is false, and each
recipient is still to come, being written or written (`Placed`, `Checked`, `Addressed`, `Distinct`). `OnlyMessagesDeadlock`
(`Spec => []DeadlockShape`) needs both invariants: whoever holds a row that another request waits for is sending a message (`HolderSends`), so in a set where everyone waits for one of the set,
the second and the third along the way are two messages, different by `Distinct`. The assumptions
are `FreeIsNobody`, `ClientType`, `ChangesType`, `RequestsType`, `MaxRequestsType` and `StartType`.

`Posting_proofs` proves every safety property of `Posting`, for any number of users, requests, connections and permits and for comments of
any depth. Next has some thirty statements, and most of them do little; so the module first says, for the request `p` that takes a step, what
changes for `p` alone (`Moved(p)`: `Quiet`, `Ended`, `Began` or one of the commits), and proves once that every step of `Next` has this form
(`StepMoves`). The invariants are proved of the forms:

* `TInv` is the type with the place of each request (`Placed`), and that a job is waited for by one request (`OneJob`, `Linked`).
* `LInv`, for `Integrity`: who holds what (`Locks`), that what an uncommitted row refers to is there (`Refers`), that what a cascade has locked is stored and depends on what is deleted (`Cascades`), that
  nobody holds a reference to a user who is being deleted (`Reserved`), that no row is held by two (`Exclusive`), and that an id belongs to one request (`Distinct`). `Refers` is kept because a cascade takes a
  post only when nobody refers to it; and when a cascade ends, what it holds is all that is below what it deletes (`BelowFacts`, `ReachFacts`, `GoneIs`).
* `SInv`, for `BlockedHidden` and `OwnReaction`: what a query has found is still to be asked about or not blocked.
* `VInv`, for `LostOnlyByOverlap` and `Vectorless`: a request that has not been overtaken is about to write the vector there is and one
  move more.
* `RInv`, for `MoveOnce`: a user without two writing requests at a time has at most one, which nobody overtakes (`Lone`), whose previous
  reaction is the one there is (`Fresh`); so each commit adds one move and changes one reaction (`Balanced`).

`TakesEffectAtOnce` (`Spec => BoardSpec`) is the refinement: every form of `Moved(p)` is a step of `Board` or leaves the tables alone (`MovedBoard`). The commits need `LInv`: what
the committed row refers to is there at that instant (`Refers`), and the cascade of a deletion takes all that is below what it deletes (`GoneIsReach`, `CascadeOnBoard`, `NothingBelow`). That a block is taken away with either of its users is `BlocksRegistered`.

`DeadlocksOfTwoKinds` (`Spec => []DeadlockShape`) follows from `TInv` and `LInv`. A lemma for each waiter says where the holder stands (`HolderWaits`, `WriterWaits`, `DropWaits`): what a reaction or a post waits for
is held by a cascade, or by a request of the same user that waits for a cascade or for nobody. So a set in which everyone waits for one of the set has a deletion at its cascade, and that one waits for another cascade, or for a
reaction that waits for it.

The assumptions are `AuthorType`, `ParentType`, `StartType`, `WorkloadsType`, `QueueSizeType`, `PermitsType` and `ProcNotJob`.

`Emails_proofs` has no theorem of its own, but the lemmas that every operation keeps `EmailInv`: a code is in one place only, in the registry or on the way of one
request (`OnlyHere`), belongs to one address (`OneAddress`), and never returns once it is spent; and the two auxiliary notes are
what they claim (`RaceNoted`, `AloneKnown`). `SpentCodesAreGone` alone is not inductive: a spent code could be entered by a request that still carries
it.

`ServerState_proofs` proves that every step of `ServerState` is a step of `Cooldowns` or leaves it alone
(`CooldownsUsed`), and transfers the property (`RequestsApart`). With `EmailInv` and `ServerTypes` (what the type of the whole says of the main task, the
locks and the requests) it proves `TypeCorrect`, `SpentAreGone`, `VerificationsUnraced` and `LatestWorks`.

`Resources_proofs` proves every property of `Resources`, for any number of processes, users, keys and contents. The type needs
that a request waits for an encoder exactly while one works for it (`OneEncoder`, `KeyKnown`). `FreshInv` is the argument about files: a key from the id factory has one
request, that request one encoder, and once the key is `Settled` no job writes to its file. `RegInv` follows the registration:
uploads of icons are by their owners (`OwnKeys`, `OwnIcons`), so that the row of the icon is free for the registration that bought the account
(`Bought`, `Furnished`). `IconInv`, for `IconIsOwn`, says of each account that is not haunted (`Held`): every encoder and every upload under way for its icon carries
something the account has uploaded, and one that has begun to write found no piece of anybody else's, so that the file stays its own from then on;
a name without account has no row of an icon (`NoRows`), and a new account finds no writer or is haunted.

`ImplementsStore` (`Spec => StoreSpec`) is the refinement. Only three kinds of steps are seen in `Store`: the end of an upload (with its row a `Put`, else a `GiveUp`), a registration and the deletion of an account; a file that
is written has no row (`ShelfStill`, `EncodeShelf`). `FreshInv` gives that the key belongs to this upload alone and its file is whole when the row is entered; `OwnersInv`, that the owner of every row has an account, that the deletion of an account nobody has
takes nothing along. The assumptions are `KeysDiffer`, `DefaultIsNoUpload`, `ParametersType`, `NoEmailIsNone`, `MailboxesType`,
`ProcNotOrphan` and `RequestsType`.

What is model-checked only:

* liveness (both `EveryRequestEnds`, both `RequestsEnd`, `ExitStops`), which needs fairness and ENABLED.

All the safety properties of the passing runs are proved. Some that hold of a module are proved and not part of a run, because a run checks something that says
more: the types and the references of `Channels` (`channel_tx` checks both of `ChannelTx`, whose tables are those of `Channels`), `PostIntegrity` (a board that goes
through the steps of `Board` has it), `SerialSpec` (`IsolatedCommitsAreSerial` is checked without its hypothesis) and `MessagesHaveChannel` (what the foreign key does).

## 5. Plan

Done: all modules of section 2, and the theorems of section 4. What is left, by what it would add:

1. Invitations in `Notifications`, so that the deletion of accounts and of notifications of other kinds meet there too.
2. An abstract specification of the registry of codes (a code is valid from its mail until it is used, replaced or over), and the proof that `Emails` implements it but for the
   overlaps `UnracedVerification` names and the late codes of `server_expired`.
3. Deadlocks across modules: a message, an invitation and the deletion of an account lock the same rows of `users`; `Notifications`, `ChannelTx` and `Posting` show the
   deadlocks among their own requests.

## 6. Not modelled

Threads: a request that waits for a shard `maintain` holds blocks a worker of the runtime, and with all
of them blocked nothing is served; the model has a thread for every request.

The cooldown of `chat.set_user_perm` is configured under a misspelt name (`config.rs:258`,
`chat.set_usre_perm`) and so does not exist; in `Cooldowns` that is a key with cooldown 0.

The feed: weights, blending, normalisation and ranking are floating-point arithmetic over the rows of one query, and the limits
of the query choose among candidates; `Posting` shows every post that could be one. Weights are taken as positive. A
post without text asks for a row with an empty vector, which the column `vector(384)` refuses: in the model it fails at `insert`
(`posting.rs:51`). `react` passes `revert = true` for a new reaction and `false` for one taken back, and treats a dislike like a like
(`posting.rs:379`); nothing says which direction is meant. The model has it as it is where it tells states apart (`Away`: a move away from a post
does nothing to a vector that is NULL).

Follows are single rows with a primary key that only weigh in the ranking. `_meta` and the queries of the console read without asking for blocks; they have no
requesting user. The row of an icon is not changed by a later upload to the same key; its size and format go stale,
which is why `FreshRowDescribesFile` is about other keys.

The encoders of the three kinds of media are one: each is a child process that writes its output over the file. A write of
tokio that is dropped may still go on in its blocking thread; only encoders do that in the model.

Conversions between wire, domain and tables; parsing of command lines; password hashing
and tokens (cryptography); configuration; reads that change nothing. Each is listed in `PROJECT.json`.

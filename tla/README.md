# Crap CMS: verification project

Crap CMS is a headless content management system in Rust: collections and
globals defined in Lua, stored in SQLite, served over gRPC, an admin web
interface and an MCP server, with Lua hooks around every write, a background job
scheduler, uploads with image conversion, versions and drafts. This directory
holds TLA+ models of its stateful core, TLC configurations that check them on
small instances, and TLAPS proofs of their main properties for every instance.
Paths below are relative to the repository (`src/...` in PROJECT.json); the Rust
sources are under `src/`, the documentation under `docs/src/`.

    tlc -config jobs_restart.cfg MCJobQueue      # model-check one instance
    tlapm JobQueueProofs.tla                     # check the proofs of one module

Contents: [inventory](#inventory) · [modules](#modules) ·
[job queue](#the-job-queue) · [uploads](#uploads-and-image-conversion) ·
[documents](#documents-versions-and-the-search-index) ·
[cache and events](#the-populate-cache-and-the-event-bus) · [pools](#connections-and-lua-vms) ·
[authentication](#authentication) · [reading](#what-a-read-returns) ·
[maintenance](#what-deployments-do-to-the-database) ·
[runs and bounds](#runs) · [fairness](#fairness) · [proofs](#proofs) ·
[disagreements](#disagreements-between-documentation-and-code) ·
[what is not modelled](#what-is-not-modelled) · [plan](#plan)

## Inventory

One process runs everything: tokio tasks for the servers and the scheduler,
blocking threads (`spawn_blocking`) for everything that touches the database,
one r2d2 pool of SQLite connections in WAL mode, one pool of Lua VMs. The CLI is
a second process on the same database file. All durable state is in SQLite and in
`uploads/`; what is in memory (poll tasks, `running_jobs`, the populate cache, the
event channel, the rate limiters) is lost when the process ends.

| component | state it keeps | operations | what makes it correct | module |
|---|---|---|---|---|
| job queue and scheduler (`scheduler/`, `db/query/jobs.rs`, `commands/jobs.rs`) | `_crap_jobs`; `running_jobs`; tasks and threads | queue (CLI, gRPC, Lua, cron), poll, claim, run, retry, heartbeat, purge, cancel, recovery, shutdown | one owner per row; effects at most once; attempts and concurrency within their limits; a pending job ends | `JobQueue`, `JobLifecycle` |
| image conversion queue (`db/query/images.rs`, `scheduler/mod.rs`) | `_crap_image_queue` | enqueue, claim, convert, complete, fail, retry, purge, recovery | every entry ends; no entry is left processing; the shown file converts | `Uploads` |
| uploads (`api/upload.rs`, `core/upload/`, admin forms) | files, URL columns, hidden form fields | create, replace, draft save, refuse, resubmit, delete | the file a live document names is there; nobody removes another document's file | `Uploads` |
| document service (`service/`) | collection tables and join tables | create, update, unpublish, delete, bulk update | each write is whole or nothing; row, versions and index agree | `Documents` |
| versions and drafts (`db/query/versions/`) | `_versions_*` | create_version, prune, draft save, restore | one latest version, the newest; the row is what the history says | `Documents` |
| full text search (`db/query/fts/`) | FTS5 tables | upsert, delete, rebuild at start | the index holds the text of the row, in the locale it claims | `Documents`, `Locales` (not tokenising or ranking) |
| relationships and joins (`db/query/join/`, `db/query/populate/`, `db/query/read/`) | join tables | delete and reinsert, hydrate, populate, find references and missing documents | a write replaces the items it names; a read returns them wherever the field lies, to the depth asked for; nobody deletes a document without hearing who names it | `Documents`, `Population`, `FieldStorage` |
| gRPC interface (`api/service/`) | none of its own | handlers over the service; RestoreVersion and bulk calls with their own statements | as the service, but for RestoreVersion; write, clear, event in that order | `Documents`, `LiveReads`, `Pools`, `Paging`, `FieldStorage` |
| populate cache (`db/query/populate/types.rs`) | map (collection, id) to document | fill on read, clear after gRPC writes, periodic clear | a read sees no document older than the last clear before it | `PopulateCache`, `Population` |
| event bus (`core/event.rs`, `hooks/.../broadcast.rs`, SSE and Subscribe) | sequence counter, broadcast channel | publish after commit, subscribe, lag | no event without a commit; a subscriber knows when it missed one | `EventBus`, `LiveReads` |
| database and Lua VM pools (`db/pool.rs`, `vm_pool.rs`) | connections, VMs, the write lock | acquire with timeout, return on drop | no lost wakeup; no VM with another's connection; every request is answered | `Pools` |
| authentication (`db/query/auth.rs`, `api/service/auth.rs`, `core/rate_limit.rs`) | tokens, locks, failed attempts | login, refresh, reset, verify, lock | every session and every reset had a reason; the window counts failures | `Auth` |
| pagination (`db/query/cursor/`, `find.rs`) | none (the cursor is the client's) | cursor, keyset condition, flags | pages neither skip nor repeat | `Paging` |
| admin interface (`admin/`) | none of its own | forms, lists, confirmation pages over the service | an untouched form changes nothing | `FieldStorage`, `Auth`, `Uploads`; rendering is not modelled |
| localisation (`db/query/locale.rs`) | `title__en` columns, `_locale` of join rows | write, read with fallback, restore | a text stays in its language | `Locales` |
| schema migration (`db/migrate/`, `commands/db.rs`) | tables, `_crap_migrations` | sync at start, cleanup, migrate up, down, fresh | after any series of definitions writes and reads work; the records tell what the data has seen | `Locales`, `Migrations` |
| hooks, validation and access control (`hooks/lifecycle/`) | Lua registry | run inside the write's transaction | a refused write changes nothing; none is passed over; what is stored keeps the field's rules | where they run, in `Pools`; `required` and `unique`, in `Rules` |
| export and import (`commands/export.rs`) | a JSON file | dump, replace rows by id | what was exported comes back, and nothing else changes | `Rules` |
| globals (`service/globals.rs`) | one row per global, versions | update, unpublish, restore | as documents | not modelled apart |
| gRPC rate limiter (`api/rate_limit.rs`) | request times per address | check and record under one lock | never more than the limit in a window | not modelled |
| configuration, MCP, rest of the CLI, rich text, email, templates, code generation | none, or read at start | conversions and I/O | | not modelled |

How they meet:

- A write enters through gRPC, the admin interface, MCP or Lua and ends in
  `service::{create,update,delete,unpublish}_document`: one `BEGIN IMMEDIATE`
  transaction that runs the before-hooks, writes row and join tables, inserts a
  version and prunes, updates the index, and commits; files are removed, the
  populate cache cleared and events sent after the commit.
- The scheduler loop (`scheduler/mod.rs`) is one `select!` over four intervals and
  a cancellation token. The poll arm spawns a poll task *and* an image tick without
  waiting for the last ones, so several may be under way. A poll task claims rows
  and spawns a blocking thread for each; a job's handler is Lua run in a
  transaction of its own.
- Uploads write files before their transaction and remove old ones after it; the
  image tick reads those files and writes a URL column of the row.
- A read by gRPC takes related documents from a shared cache that only gRPC writers
  clear; a subscriber reads again when an event tells it of a write.
- Every handler takes connections, Lua VMs and SQLite's one write lock in an order of
  its own, and keeps some while it waits for others.
- A field's value passes through code that walks the tree of its definition anew at
  each station: request, tables, hydration, snapshot, draft, form, restore.
- At start the tables are fitted to the definitions; `db cleanup` and `migrate` run
  as processes of their own, beside the server or each other.
- The CLI cancels, purges, retries and triggers rows behind the server's back.

Hard behaviours: overlapping polls and image ticks; values read before a
transaction and used after it (old file names, running counts, the next version
number, the attempt of a SELECT); a crash between commit and completion; a
restart in the middle of a batch; errors that drop what was already claimed; a
panic that skips the cleanup; copies taken before a clear and stored after it;
waiting in circles; a second walk over a field tree that differs from the first;
a definition that is no longer the one the tables were made for; a rule checked
against what was sent and owed by what is stored; the one restore
path that has no transaction; three copies of a document (row, latest version,
index) that every writer must keep in step. PROJECT.json lists each with its line under `hazards`.

## Modules

| module | what it is |
|---|---|
| `JobLifecycle` | the abstract life of one job row and when its effects may happen |
| `JobQueue` | table, recovery, scheduler loop, poll tasks, workers, CLI; implements `JobLifecycle` |
| `Uploads` | rows, files, image queue, requests and image ticks |
| `Documents` | rows, index, versions, the writers, and the gRPC restore a statement at a time |
| `PopulateCache` | the cache, its readers, the writers that clear it and those that do not |
| `EventBus` | tasks that publish, the bounded channel, its subscribers |
| `LiveReads` | the two composed: a write commits, clears and publishes, in that order |
| `Pools` | requests as scripts of what they take and give back: connections, VMs, the write lock |
| `Auth` | one account, the limiter of each interface, and the requests that race for it, a statement at a time |
| `Paging` | keyset pages and a client that walks them while documents change |
| `Population` | both population algorithms as a stack of batches and documents under way, an id or a field at a time |
| `FieldStorage` | one field at any place in Groups and layout wrappers, through every station |
| `Locales` | one localized field and relationship, definitions that change, sync, cleanup, restore |
| `Migrations` | `migrate up`, `down` and `fresh` run by processes that may stop anywhere |
| `Rules` | one unique field and every way a value comes into its column, `import` included |
| `MCJobQueue`, `MCUploads`, `MCDocuments`, `MCLiveReads`, `MCPools`, `MCAuth` | small instances for TLC: values of constants, symmetry |
| `MCReading` | `Paging`, `Population` and `FieldStorage` in one run |
| `MCMaintenance` | `Locales`, `Migrations` and `Rules` in one run |
| `JobQueueProofs`, `UploadsProofs`, `DocumentsProofs`, `LiveReadsProofs`, `PoolsProofs`, `AuthProofs` | theorems and proofs about the module of that name |
| `ReadingProofs` | theorems and proofs about `FieldStorage`, `Paging` and `Population` |
| `MaintenanceProofs` | theorems and proofs about `Locales`, `Migrations` and `Rules` |

Every module takes the granularity from the code: one action is one transaction,
one statement that runs outside a transaction, or one access to the disk or to a
lock-protected structure. SQLite (transactions are atomic and serialised) and the
file system (a completed write stays) are trusted. Operators named like Rust
functions (`insert_job`, `find_stale_jobs`, `complete_job`, `fail_job`, ...) are those functions; the others
are named for what they do, and PROJECT.json maps each to its lines. Operators
under a comment that begins with "Mutant", or a comment that describes a wrong
variant, are never used by `Next`:
each is a plausible bug that must break one property, which shows that the
property can see it.

## The job queue

`JobQueue.tla`. Sources: `src/scheduler/mod.rs`, `src/scheduler/runner.rs`,
`src/db/query/jobs.rs`, `src/commands/jobs.rs`, `src/core/job/`,
`src/hooks/lifecycle/runner/jobs.rs`, `src/commands/serve.rs`.

State. `status`, `attempt`, `created`, `heartbeat` are columns of `_crap_jobs`
("absent" before INSERT, "gone" after DELETE; ids are nanoids and never reused);
`now` is `datetime('now')`, whole seconds as SQLite compares them. `commits` counts
how often the handler's transaction of a row committed: it stands for everything
the handler did. The process is `mode`, `defined` (job types in the Lua registry,
chosen anew at each start), `stale` (what `find_stale_jobs` returned and `mark_stale`
has not reached), `loop` (the `select!` loop and the arm it is in), `poll` (one record
per `poll_and_execute` task: its counts and its selected rows), `runs` (a `JobRun`
from its claim until its thread is done, with the phase of `execute_job`) and
`tracked` (`running_jobs`). `booted` only remembers the second of the last start.

| actions | code |
|---|---|
| `Enqueue`, `Cancel`, `Purge` | trigger (CLI, gRPC, Lua), `cancel_pending_jobs`, `purge_old_jobs` |
| `Start`, `MarkStale`, `Recovered` | start of the process, `recover_stale_jobs` a row at a time |
| `Shutdown`, `Exit`, `Crash` | cancellation token, `process::exit`, loss of the process |
| `PollTick`, `PollCount`, `PollCountSlugs`, `PollSelect`, `ClaimRow`, `PollClaimed`, `Dispatch`, `PollDone`, `PollFails` | the poll arm, `poll_and_execute` and `claim_pending_jobs`, a statement each |
| `WorkerBegin`, `HandlerOk`, `HandlerErr`, `complete_job`, `fail_job`, `Untrack`, `WorkerFails`, `Panic` | the `spawn_blocking` closure: `execute_job`, then `retain` |
| `CronTick`, `CronCheck`, `CronInsert`, `CronFails`, `CronEnd` | `check_cron_schedules`, and the purge of every tenth tick |
| `HeartbeatTick`, `update_heartbeat`, `HeartbeatEnd` | the heartbeat arm, an id at a time |

Abstracted: cron expressions (any set of scheduled types may be due), the payload,
error texts, and what the handler does inside its transaction. The timeout has no
action because it ends nothing: it only changes the message of a handler that
failed by itself.

`JobLifecycle.tla` is what the system promises about one row whoever runs it: its
effects commit at most once and only while it runs; it completes exactly when
they are committed, fails or is retried only when they are not; a running row is
never deleted, a stale or deleted one never runs again. `JobQueue` implements it
with the identity on `status` and `commits` (`RefinesLifecycle`).

Properties. `RunsOwnRows`: two polls or a retry never put one row into two
threads, and every thread at work owns a row that is running with the attempt it
claimed. `EffectsOnce`. `WithinAttempts`, `WithinConcurrency`: hold while polls do
not overlap; nothing in the code keeps them from overlapping, and then both count
before either claims. `NoneStranded`: after recovery every running row has a
thread, but for rows touched in the second of the start. `PendingResolved`: a
pending row ends or is deleted. A handler that panics leaves its row running and
its id in `running_jobs` for good (`Panic`), against what the documentation says.

## Uploads and image conversion

`Uploads.tla`. Sources: `src/api/upload.rs`, `src/core/upload/`,
`src/admin/handlers/collections/`, `src/service/collections.rs` (deletion),
`src/db/query/images.rs`, `src/scheduler/mod.rs` (`process_image_queue`),
`src/commands/images.rs`.

State. `row` holds, of each document, whether it lives, the file its URL columns
name, and the file of the one format that is converted in the background
(`variant`, which names the upload the variant was made of). `disk` is the content
of `uploads/`; a file of one nanoid stands for all that `process_upload` writes
for it, its variant is a second file. `entry` is `_crap_image_queue`. `kept` are
the files an admin form carries in hidden fields after a validation error. `req`
are the requests under way with the file names they read before their
transaction; `tick` are the image ticks.

| actions | code |
|---|---|
| `CreateUpload`, `CommitCreate` | `process_upload`, `create_document` |
| `LoadOld`, `StoreNew`, `CommitReplace`, `RemoveOld` | update: old names, new files, the transaction (a draft save leaves the row alone), removal of the old files |
| `Reject`, `Cleanup`, `Resubmit` | a refused write, its clean-up, the form sent again with the kept file |
| `Enqueue` | `insert_image_queue_entry` after the commit |
| `ReadForDelete`, `DeleteRow`, `RemoveDeleted`, `DeleteRowOnly` | `delete_document`; the paths that delete only the row (bulk delete, Lua, MCP) |
| `Select`, `MarkProcessing`, `Marked`, `OpenSource`, `WriteVariant`, `SetColumn`, `EndEntry`, `TickEnds`, `ConversionFails`, `TickFails` | one image tick: claim (a SELECT and one UPDATE per entry, no transaction), convert, set the column, complete or fail |
| `Retry`, `Purge` | `images retry`, `images purge` |
| `Crash`, `Start` | the process is lost; `recover_stale_images` |

Properties. `MainServed`: the URL of a live document names a file on disk, whatever
requests overlap, are refused or lost, while nobody saves drafts: a draft save
removes the files that the published row shows. `OnlyOwnFiles`: a
request never removes the file another document shows. `ProcessingOwned`: an entry
marked processing is in a tick's hands. `CurrentConverts`: the conversion of the
file a live document shows does not fail. `Settles`: a queued conversion ends.
A conversion that a replace overtakes still sets its column, on the new row.

## Documents, versions and the search index

`Documents.tla`. Sources: `src/service/collections.rs`, `src/service/persist.rs`,
`src/service/versions.rs`, `src/db/query/versions/`, `src/db/query/fts/sync.rs`,
`src/db/query/join/`, `src/api/service/schema_ops.rs`,
`src/api/service/collection/bulk.rs`,
`src/admin/handlers/collections/item/versions/restore_action.rs`.

State. `row` is the main table and the join tables of each document: a text for its
columns, a set of items for its join rows, `_status`. `index` is the FTS table.
`versions` are the rows of `_versions_*`, with `_version`, `_status`, `_latest` and
the snapshot. `call` are the gRPC RestoreVersion calls under way. `deleted`
remembers used ids. Three history variables say where the code itself gives up an
agreement: `torn` (a restore overlapped another write or stopped midway), `loose`
(UpdateMany wrote past the history), `unindexed` (a restore wrote past the index).
They are sets of documents that later writes repair, so each property is stated for
all others and says exactly how the exception ends.

| actions | code |
|---|---|
| `Create`, `Publish`, `SaveDraft`, `Unpublish`, `Delete` | `create_document`, `update_document` (published, draft), `unpublish_document`, `delete_document`, one transaction each |
| `AddVersion` in them | `create_version_snapshot`: number, clear the flag, insert, prune |
| `UpdateMany` | the bulk update: rows and index, no version |
| `AdminRestore` | `restore_version` in the admin handler's transaction, always "published" |
| `FindVersion`, `WriteColumns`, `ClearItems`, `FillItems`, `WriteStatus`, `ReadNumber`, `ClearLatest`, `InsertVersion`, `RestoreFails` | `restore_version_impl` on a plain connection, a statement each |
| `Restart` | calls are lost, `sync_fts_table` rebuilds the index |

Abstracted: columns (one text), join tables (one set; the INSERTs of one restore are
one step, those of several tables come in the same order), locales (`Locales`),
field types (`FieldStorage`), hooks and validation (a refused write rolls back, which is a stutter). Foreign keys
are modelled: a late insert for a deleted document fails, and versions and join
rows go with their row. `crap-cms user delete` (`commands/user.rs`) deletes a row
without its index entry from a second process and is outside the model. Globals
follow the same pattern without index and deletion. `MaxIds` bounds the versions
recorded in one behaviour.

Properties. `OneLatest`: a document no restore has torn has one latest version, above
all others by number. `HistoryMatches`: when the latest version is a published one
the row is what it records, so drafts stay out of the row. `SearchFresh`: the index
holds the row's text. `DeletedForGood`: nothing of a deleted document comes back,
even from a restore under way. `KeepsNewest`: versions go with their document or by
pruning, and pruning takes the oldest; it is proved and no run checks it. One latest version
without exception, the documented meaning of `_latest`, does not hold when a gRPC
restore and another write overlap.

## The populate cache and the event bus

`PopulateCache.tla`, `EventBus.tla` and their composition `LiveReads.tla`. Sources:
`src/db/query/populate/`, `src/api/service/collection/`, `src/api/server.rs`,
`src/core/event.rs`, `src/hooks/lifecycle/runner/broadcast.rs`,
`src/api/service/schema_ops.rs`, `src/admin/handlers/events/sse.rs`.

State. A row is a version number that every commit raises. `cache` is the shared
map; a copy is `late` if the read that put it there had fetched it before a clear.
`reader` is one reference that one read populates: looked up, fetched, and inserted
once what it refers to is populated too. `writer` is a gRPC write: its handler and
the blocking task that runs on when the handler is dropped. `settled` and `unclean`
are history: the versions at the last clear, and what was written since then by
somebody who never clears. On the bus `nextSeq` is the atomic counter, `tasks` the
spawned publications, `log` what was sent (the channel holds its last `Capacity`),
`sub` the streams with their position.

| actions | code |
|---|---|
| `StartRead`, `LookupHit`, `LookupMiss`, `Fetch`, `Insert`, `EndRead` | the populate functions; a has-many field fetches first, a polymorphic one never looks |
| `BeginWrite`, `Commit`, `Refuse`, `FailAfterCommit`, `Drop`, `Clear`, `Answered` | the write handlers: the task commits, the handler clears and answers, unless it is gone or fails between |
| `OtherWrite` | admin interface, upload API, MCP, Lua, jobs: no clear, an event from the first two |
| `PeriodicClear` | `populate_cache_max_age_secs` |
| `Suppress`, `TakeNumber`, `Send` | the spawned task of `publish_event`; number and send are two steps |
| `Subscribe`, `Unsubscribe`, `Receive` | both kinds of stream; one that is too far behind goes on at the oldest event |

Abstracted: what is in a document (`Population`), several levels of population (each
reference is a reader of its own), access rules of a subscriber (a set of topics).

Properties. `StaleExplained`: a stale copy waits for a clear, was written by one that
never clears, or was carried across a clear by a read. `ReadsSettled`: a read that
begins after a clear is served nothing older, but for such carried copies; nothing
ends them except the next clear. `ReadsAfterEvent`: whoever hears of a write whose
handler clears, and reads again, finds it: the order commit, clear, publish matters.
`LossesShow`: numbers are unique and a subscriber that never lagged has everything it
wants in the order of sending, which is not always that of the numbers.

## Connections and Lua VMs

`Pools.tla`. Sources: `src/db/pool.rs`, `src/db/sqlite.rs`,
`src/hooks/lifecycle/runner/`, `src/api/service/collection/`,
`src/admin/handlers/collections/`, `src/service/`, `src/scheduler/runner.rs`.

State. A request follows the script of its handler: gRPC writes take a connection
for the access check and keep it while the service takes another; the admin form,
with the middleware's gate (`admin.access`) in front of it, gives each back; a read
lives on one; a job records its end on a second. `owner`, `user` and `lock` say who holds each connection, VM and SQLite's write lock;
`context` whose transaction the raw pointer in a VM (`TxContext`) belongs to; `phase`
where a request is in a Lua call, asleep on the condition variable included.

| actions | code |
|---|---|
| `Connect`, `ConnectTimeout`, `Return` | `pool.get()` and the drop of a connection |
| `GateTimeout`, `PassOver` | `load_auth_user`, `check_admin_gate`: no connection, and the request goes on to its handler |
| `Begin`, `Record`, `BusyTimeout`, `Commit` | `BEGIN IMMEDIATE`, an autocommit statement, `busy_timeout` |
| `Acquire`, `Sleep`, `AcquireTimeout`, `WithoutVM` | `VmPool::acquire` and what its callers do when it gives up |
| `CallReturns`, `CallFails`, `CallFailsTolerated`, `DropGuard`, `ClearContext` | the end of a Lua call; the guard's drop wakes one sleeper |
| `WantLock`, `GetLock` | a Lua function that writes |
| `Panic` | a Rust panic below a call: guards are dropped, the pointer stays; at the gate the request goes on |

Abstracted: what functions do, the length of waits (a wait may end whenever nothing
is free), collections without functions (they take no VM), reads in Lua.

Properties. `ContextIsOwn`: a call that may use the database finds its own pointer,
and another's is there only after a panic. `NoLostWakeup`: nobody sleeps beside an
idle VM that no woken waiter is about to take. `KnotsKnown`: requests wait in a
circle only where a handler keeps a connection while it takes a second, or a
function wants the write lock outside its request's transaction. `NothingPassedOver`
(proved, not run): no request succeeds around an access check or write hook that found
no VM; field access and `after_read` are passed over after a wait, and the gate when no
connection is to be had for it or its check panics.
`Answered`: every request is answered, circles included, because every wait ends.

## Authentication

`Auth.tla`. Sources: `src/api/service/auth.rs`, `src/admin/handlers/auth/`,
`src/db/query/auth.rs`, `src/core/rate_limit.rs`, `src/commands/user.rs`.

State. One account: `password`, `locked`, `verified`, `reset` (token and expiry);
`failures`, by interface, since the admin server and the gRPC server each make a
limiter (`admin/server.rs:95`, `api/server.rs:51`), numbered, since two in one instant
count twice; `session`, the expiry of the newest JWT; `mails`, the tokens handed out;
and the `handler`s under way, each a kind, for a login its interface, and the statement
it has come to. `wrong`, `dropped`, `spent` and the flags of a handler record what the properties
speak of. Argon2 and JWT are perfect: a password matches or it does not, a token is
known to those who got it.

| actions | code |
|---|---|
| `Login`, `Verify`, `LockCheck`, `VerifiedCheck`, `Issue`, `Reject`, `RecordFailure` | login in both interfaces; the admin form counts a locked or unverified account as a failure, gRPC does not |
| `Refresh`, `RefreshCheck`, `RefreshIssue` | session refresh |
| `ForgotPassword`, `ResetPassword`, `FindByResetToken`, `UpdatePassword`, `ClearResetToken` | reset: find, update and clear are separate statements |
| `SetVerified`, `SetLocked` | verification link, `user verify`, `unverify`, `lock`, `unlock` |
| `Break`, `Tick` | an error or a client that goes away between two statements; time |

Properties. `GuessesBounded`: a window sees through each interface at most the limit of
wrong passwords, plus those let in together at the last free place, plus those whose
handler was dropped before it counted them. Neither interface knows of the failures of
the other, so that an account may see the two bounds added up. `IssueJustified`: whoever gets a session had, since
the request came, an unlocked account, the right password and a verified address.
`ResetJustified`: a token is used twice only by requests that overlapped. That the token
was stored and not over is the guard of `FindByResetToken`, and no more is claimed of it.
Left out: the deletion of an account and the password set on the command line.

## What a read returns

Three modules in one run. They share no variables.

**`Paging.tla`** (`src/db/query/cursor/`, `src/db/query/read/find.rs`). The values of a
sort column, one query, the page the client has (its documents and the direction in
which they are listed) and its flags. `Begin`, `NextPage`
and `PrevPage` are requests, `Write` is anybody's write between them, `Refuse` the
SQL error of a search without filters from the second page on. The keyset condition
is evaluated as SQLite does, NULLs and ties included, and the cursor carries the sort
value as the document carries it: a timestamp in the form that does not sort like the
stored one; the default locale's text where `fallback` shows it for a NULL
(`Texts`), while the order is that of the NULLs; or anything else (`"other"`), if the
column was not selected, lies in a Group, was populated, is read in all locales, or an
after_read hook changed it. `PagesExact` is two promises. `NothingSkipped`: a walk that ends has shown every
document that lay ahead of it and was left alone, but for NULLs, the days of a page's
end, walks in which a page ended at a document in the default locale's text, and cursors
without the value. `NothingRepeated`: and none twice.

**`Population.tla`** (`src/db/query/populate/`). The algorithms for one document and for
a list. Their recursion is a stack: `levels` are the batches under way, the innermost
last, and a batch has `frames`, the documents under way. A step is what the code does
about one id (`StaysId`, `FromCache`, `Fetch`, `Join`), about one field of a batch
(`QueryField`, `Return`) or at the end of a document (`Populated`); `FindById` and
`Find` start a read, `Answer` ends it. Fields are ordered, polymorphic or not, nested
or not, with `max_depth`; a join field shows the documents that name this one. Answers
are flat: which document is at which place, a place being the fields and positions
that lead to it. `DepthKept`: a read
by id with a cache of its own keeps the depth asked for and shows no document inside
itself. `NothingLeftOut`: every id that stays an id names a document shown elsewhere
in the answer. `ListsAgree`: at depth 1 both show one level, and documents of
the answer itself stay ids. Deeper, lists and shared caches return more levels than were asked for.

**`FieldStorage.tla`** (`src/db/query/write/`, `src/db/query/join/`,
`src/db/query/versions/`, `src/service/`, `src/hooks/lifecycle/`,
`src/admin/handlers/`, `src/db/query/read/`). One field at any place in Groups and wrappers, and its value
at each station: request data (`Sent`, `ColumnData`), tables (`StoredFrom`), what a
read assembles (`Hydrated`), version and draft (`Snapshot`, `DraftSnapshot`), the form
(`FormShows`, `FormData`), restore (`Extracted`), and the two pages that warn
(`Referring`, `Absentees`). Actions are requests: updates, drafts, bulk updates
and form saves of the field or of others, restores, deletes of a target. A form, the
page before a delete and the page before a restore are opened by one request and
submitted by another (`pages`): `OpenForm`, `OpenDelete` and `OpenRestore` keep what was
searched and shown, and `FormUpdateUntouched`, `FormDraftUntouched`, `Delete` and
`Restore` use it, whatever was written and deleted since. Deletes by gRPC, DeleteMany,
Lua, MCP or a bare request (`DeleteUnasked`) and restores by gRPC (`RestoreUnasked`) have
no page. `told` is the value last asked for, by a client or by a form that was left as
it was shown, and Unset if it met a loss.
`KeptAsWritten`: what was last asked for is what a read shows, but for the losses
that `LostInWrite`, `LostInDraft`, `LostInForm` and `LostInRestore` name, each a
finding. `ReferencesKnown`: a document names a deleted one only if a page had listed
it, the client sent it afterwards, or no page could have told. The last is `unwarned`,
and it grows in these steps only: a delete or restore without a page; a delete whose
page was opened when the field did not yet name the target, or had no connection to
search with (the page then lists nothing); a restore whose page was opened before the
target was deleted; a form opened before the delete and saved after it. The code
searches nothing again at the submit, so these gaps are its own; the property is that
there are no others.

## What deployments do to the database

**`Locales.tla`** (`src/db/migrate/`, `src/db/query/locale.rs`, `src/db/query/write/`,
`src/db/query/versions/`, `src/db/query/fts/sync.rs`, `src/commands/db.rs`). A text
field and a has-many relationship, each localized or not, in one collection whose
definition changes. `files` is the definition on disk, `served` the server's; `cols`,
`notNull`, `byLocale`, `keyed` and `indexed` are what the tables have become over all
definitions so far; `cell`, `rows`, `text` and `saved` are one document, its index
entry and a version. A text carries the address it was written to, which is how one
sees it arrive somewhere else. `told` is what a write was accepted for an address: only
writes change it, and restores of what a version was accepted with when it was saved
(`saved.of`, `saved.told`). What a restore clears or fills with another text goes into
`replaced`, and a column that a cleanup drops into `gone`, but only if the definition
the cleanup had loaded (`named`) does not have it; both until the address is written
again. `Expected` is the cleanup's own account of a definition's columns, beside
`Columns` of the sync.

| actions | code |
|---|---|
| `Edit`, `Start` | a deployment, `sync_all` and `sync_fts_table` |
| `Write` | create and update with a locale, none or "all" |
| `Restore` | `restore_version` |
| `CleanupLists`, `CleanupDrops`, `CleanupKilled` | `db cleanup --confirm`, a column at a time, beside the server |

`LanguagesApart`: no text stands in another locale's place, but for what a restore puts
there. `ReadsBack`: reads show what was last accepted, whatever definitions, writes,
restores and cleanups came between, but for localized Groups and for `replaced` and
`gone`; a column that the cleanup's definition names is not excepted.
`WritesServed`: the database refuses no valid write, but for NOT NULL and keys that
stayed as they were. `SearchCurrent`: the index holds no text the document has lost.

**`Migrations.tla`** (`src/commands/db.rs`, `src/db/migrate/`,
`src/hooks/lifecycle/runner/migrations.rs`). Commands of
several processes: each lists what it will do and then takes one file at a time, in
a transaction with its record. `fresh` drops the tables one by one, outside any
transaction. `Stops` ends a command between any two steps. `RecordsTellEffects`: a
recorded file has run once and no other has, except after an interrupted `fresh`
(`torn`) and where a second `down` runs a file that is no longer recorded (`undone`).

**`Rules.tla`** (`src/hooks/lifecycle/validation/`, `src/service/`,
`src/hooks/lifecycle/crud/`, `src/db/query/write/`, `src/commands/export.rs`). One field
that is unique and may be required, and the table's rows as far as they concern it.
`def` says what matters of the definition: where the field lies, whether its column is
as old as the table (only then does SQLite enforce the rules), its DEFAULT, whether
clients may send it in a form that storing changes. If the column was added, there are
documents that have its DEFAULT, or NULL, from the start (`Brought`). A request is a value, or nothing,
an empty text or a null, under the column's name or inside the Group's object, for a
draft or not. `waived` notes, for each document, the rules its value has not been held
to: it is what the properties except, and each way sets it for itself, the addition of
the column included.

| actions | code |
|---|---|
| `Create`, `Update`, `UpdateDraft` | the service: `Validated` looks at what was sent, `Coerced` is what is written |
| `UncheckedCreate`, `UncheckedUpdate` | Lua with `hooks = false`, values set by before_change hooks |
| `UpdateMany`, `RestoreVersion`, `Unpublish`, `Delete` | the writers without validation |
| `Export`, `Import` | the commands; `Replace` is INSERT OR REPLACE, `Imported` what a record becomes |

`RulesKept`: two documents share a value only where the column was added later and both
came by a way that waives uniqueness, or with the column (`UniqueHolds`), and a published
document lacks a required value only where a way waived that or the document is older
than the column (`PublishedComplete`). `ImportKeeps`: after
an import every record of the file is there as exported, though published, and other
documents are gone only where they held a unique value of the file.

## Runs

Twelve runs; none finds an error. Where the code disagrees with its documentation
the properties name the exception, and [the list](#disagreements-between-documentation-and-code)
says what it is.

| run | instance | what it checks and shows |
|---|---|---|
| `jobs_restart` | two rows of one type, one poll, crashes, shutdown, two seconds | attempts and concurrency stay within their limits; recovery leaves nobody running without a thread but those touched in the second of the start |
| `jobs_overlap` | one row, two polls, cron, a type that vanishes between starts, errors, panics, crashes | one owner, effects once, the refinement of `JobLifecycle` |
| `jobs_fair` | two types, one place (`max_concurrent = 1`), one poll | every pending row ends or is deleted, although the rows compete for one place |
| `uploads_safety` | one document, two files, two requests, two ticks, crashes | live documents keep their file, entries processing are owned, shown files convert |
| `uploads_faults` | two documents, two requests, one tick, drafts, errors | requests remove only files of their own document |
| `uploads_fair` | one request, one tick | every queued conversion ends |
| `documents` | one document with drafts, two texts, one item, `max_versions` 1, one gRPC restore, four versions | one latest version, row and history, index, deletion |
| `live_reads` | one document, a read, a gRPC write, writers that never clear, a subscriber, a channel of one event | what a stale copy, a lost event and a late reader may be |
| `pools` | a gRPC write, an admin form or a read, and a job; two connections, one VM, one panic; the last two write in Lua | pointers, wakeups, circles of waiting, and that all are answered |
| `auth` | two handlers, two interfaces, two passwords, one reset token, one attempt, one drop, lifetimes and clock of one | what the limiter lets through, what every session and reset had to show |
| `reading` | four rows of two days and NULL, pages of two, two writes; three documents of four link shapes and four schemas, depth 3, two reads; a field in 84 places, one target and one open page | pages, population, and what a field keeps |
| `maintenance` | two locales, five definitions deployed in any order, two writes; two files, two processes, four commands; two documents, two values, six fields, three writes, exports and imports | texts, reads, writes and index over changing definitions; records of migrations; the rules of a field, and imports |

Why these bounds are enough to mean something:

- Two polls, two ticks or two requests are the smallest number that can overlap,
  and every race the code is exposed to here is between two parties and a third
  change (a cancel, a purge, a restart) that the model allows at any step. With one
  row in `jobs_overlap` the two polls must meet on it; with two rows in
  `jobs_restart` the limits (concurrency 1 of a type, `max_concurrent` 2) matter.
- Two attempts are the least that has a retry and a last attempt. `MaxClock = 1`
  gives a second before and after a restart, all that `heartbeat_at < now` can
  tell apart; where time plays no part it is 0, and every created_at is equal,
  which makes the SELECT's order free. In `jobs_restart` both orders occur.
- Two files let a document be replaced once, with the old one still in a tick or a
  kept form; one document in `uploads_safety` makes every request meet on it, two
  in `uploads_faults` let one hit the other's.
- Four versions let a document be created, changed, restored and changed again
  after a torn restore, with `max_versions = 1` so that each of them prunes, and two
  documents share nothing but the version table of their collection, where the
  proofs cover any number. The run takes `DraftDocs = {d1}`; collections without
  drafts only disable actions, and the proofs leave `DraftDocs` arbitrary.
- In `live_reads` two versions are an old and a new one, one reader is enough to
  carry a copy across a clear and another read of the same reader to meet it, and a
  channel of one event loses one as soon as two are sent. The proofs cover any number.
- In `pools` three requests hold two connections and wait for the third resource,
  which is the shortest circle through connections, VM and lock; each of the four
  scripts takes part. In `auth` one attempt makes every second guess one too many.
- Pages of two over four rows have a first, a middle and a last page, ties within a
  day and across pages. Three documents have cycles of every length up to three and
  a diamond; depth 3 lets an entry be made at one depth and used at another.
  Two levels of nesting tell a Group at the top, in a wrapper and in a Group apart,
  which is all the code tells apart (it recurses by wrapper or by prefix).
- Five definitions hold localisation off, on with one and with two locales, the field
  localized, not, and absent; three of them in a row (two changes) bring a column
  back. Two commands of each kind may overlap on two files.
- Uniqueness is about two documents; three writes let both get a value, one of them
  twice, with an export before, between or after. The six fields have every place,
  constraints or none, drafts or none, a DEFAULT or none, dates or not; a column that
  was added finds the table empty or with both documents in it.
- Symmetry is declared for sets the module only compares for equality (documents,
  files, requests, ticks, handlers, passwords; texts, restores), and only in runs
  without liveness.

The modules in `reading`, and those in `maintenance`, share no variables: while one
moves the others stand still, so a run of the sum is a run of each.

Deadlock is checked in `pools` and `auth`. In the others each bound (rows, files,
versions, writes, clock) lets a behaviour come to a legitimate end, and the code has
nothing to do when nobody asks.

Every property of a run comes with a mutant of the code in PROJECT.json
(`mutants`): a dropped status guard, a rollback left out, a limit off by one, a
clean-up of the wrong files, a recovery left out, a clear of the wrong map, a guard
dropped without a wakeup, a tie that is not broken, a prefix forgotten.

## Fairness

Safety runs have none. `JobQueue!Fairness` assumes:

- strong fairness of the poll arm: `tokio::select!` without `biased` picks at random
  among the ready arms, so the arm is taken however often the cron and heartbeat
  arms are ready too (weak fairness is not enough, since the arm is not enabled
  while another runs);
- weak fairness of each spawned poll task, of the thread of each run, of the steps
  of the cron and heartbeat arms, and of recovery: straight code on the runtime's
  threads, which nothing else blocks. A handler is taken to return, because
  nothing ends one that does not: the timeout is not enforced;
- nothing about requests, errors, crashes, panics or the clock.

`Uploads!FairSpec` assumes weak fairness of each tick's steps: the interval comes
again, and a tick runs straight on. Nobody has to send a request or retry.

`Pools!FairSpec` assumes weak fairness of each request's own progress: threads run,
Lua calls end (`hooks.max_instructions`), and a wait ends in the resource or in its
timeout. That a resource comes free is not assumed.

## Proofs

`tlapm` proves the following for every value of the constants that satisfies the
named assumptions of the modules (TLC evaluates them in every run).

| theorem | statement | assumption beyond the module's |
|---|---|---|
| `JobQueueProofs!TypeCorrect` | `Spec => []TypeOK` | |
| `JobQueueProofs!SingleOwner` | `Spec => []RunsOwnRows` | |
| `JobQueueProofs!AtMostOnce` | `Spec => []EffectsOnce` | |
| `JobQueueProofs!Refinement` | `Spec => RefinesLifecycle` | |
| `JobQueueProofs!AttemptsBounded` | `Spec => []WithinAttempts` | one poll task |
| `JobQueueProofs!ConcurrencyBounded` | `Spec => []WithinConcurrency` | one poll task |
| `JobQueueProofs!NothingStranded` | `Spec => []NoneStranded` | no errors, no panics |
| `UploadsProofs!TypeCorrect` | `Spec => []TypeOK` | |
| `UploadsProofs!Ownership` | `Spec => []Inv` | |
| `UploadsProofs!RemovesOwn` | `Spec => OnlyOwnFiles` | |
| `UploadsProofs!FilesServed` | `Spec => []MainServed` | no draft saves |
| `UploadsProofs!OwnedByTicks` | `Spec => []ProcessingOwned` | no errors |
| `UploadsProofs!ShownConverts` | `Spec => []CurrentConverts` | no errors, no draft saves |
| `DocumentsProofs!TypeCorrect` | `Spec => []TypeOK` | |
| `DocumentsProofs!DeletedStaysDeleted` | `Spec => []DeletedForGood` | |
| `DocumentsProofs!OneLatestHolds` | `Spec => []OneLatest` | |
| `DocumentsProofs!RowMatchesHistory` | `Spec => []HistoryMatches` | |
| `DocumentsProofs!SearchIsFresh` | `Spec => []SearchFresh` | |
| `DocumentsProofs!NewestAreKept` | `Spec => KeepsNewest` | |
| `LiveReadsProofs!Invariance` | `Spec => []Inv` | |
| `LiveReadsProofs!TypeCorrect` | `Spec => []TypeOK` | |
| `LiveReadsProofs!StaleHasReason` | `Spec => []StaleExplained` | |
| `LiveReadsProofs!ReadsAreSettled` | `Spec => []ReadsSettled` | |
| `LiveReadsProofs!EventsFollowClears` | `Spec => []ReadsAfterEvent` | |
| `LiveReadsProofs!LossesAreShown` | `Spec => []LossesShow` | |
| `PoolsProofs!Invariance` | `Spec => []Inv` | |
| `PoolsProofs!TypeCorrect` | `Spec => []TypeOK` | |
| `PoolsProofs!ContextsAreOwn` | `Spec => []ContextIsOwn` | |
| `PoolsProofs!NoWakeupIsLost` | `Spec => []NoLostWakeup` | |
| `PoolsProofs!NothingIsPassedOver` | `Spec => []NothingPassedOver` | |
| `PoolsProofs!KnotsAreKnown` | `Spec => []KnotsKnown` | |
| `AuthProofs!Invariance` | `Spec => []Inv` | |
| `AuthProofs!SessionsJustified` | `Spec => []IssueJustified` | |
| `AuthProofs!ResetsJustified` | `Spec => []ResetJustified` | |
| `AuthProofs!GuessesAreBounded` | `Spec => []GuessesBounded` | |
| `ReadingProofs!FieldTypeCorrect` | `FieldSpec => []FieldTypeOK` | |
| `ReadingProofs!FieldsKeepWhatIsWritten` | `FieldSpec => []KeptAsWritten` | |
| `ReadingProofs!NoReferenceUnknown` | `FieldSpec => []ReferencesKnown` | |
| `ReadingProofs!PagesAreExact` | `PagingSpec => []PagesExact` | |
| `ReadingProofs!NothingIsLeftOut` | `PopulationSpec => []NothingLeftOut` | |
| `ReadingProofs!AlgorithmsAgree` | `PopulationSpec => []ListsAgree` | |
| `ReadingProofs!DepthIsKept` | `PopulationSpec => []DepthKept` | |
| `MaintenanceProofs!LocalesInvariance` | `LocalesSpec => []LocalesInv` | |
| `MaintenanceProofs!LocalesTypeCorrect` | `LocalesSpec => []LocalesTypeOK` | |
| `MaintenanceProofs!TextsStayApart` | `LocalesSpec => []LanguagesApart` | |
| `MaintenanceProofs!TextsReadBack` | `LocalesSpec => []ReadsBack` | |
| `MaintenanceProofs!ValidWritesServed` | `LocalesSpec => []WritesServed` | |
| `MaintenanceProofs!IndexCurrent` | `LocalesSpec => []SearchCurrent` | |
| `MaintenanceProofs!RecordsTellTheTruth` | `MigrationsSpec => []RecordsTellEffects` | |
| `MaintenanceProofs!RulesAreKept` | `RulesSpec => []RulesKept` | |
| `MaintenanceProofs!ImportsKeep` | `RulesSpec => ImportKeeps` | |

`Paging`, `Population`, `FieldStorage`, `Locales`, `Migrations` and `Rules` have specifications of
their own (`PagingSpec`, ...), to which the theorems refer; a run composes them with
their neighbours, which leave their variables alone.

The extra assumptions are real limits, not conveniences: overlapping polls exceed
the limits, a draft save removes the file of the published row, and an error between
two statements of a tick leaves an entry without an owner, and an error or a panic of
a job leaves a running row without a thread.

**Job queue.** `OwnershipInv` adds three facts to `RunsOwnRows` and `EffectsOnce`,
neither of which is inductive alone. `Offline`: a process that is down or
recovering has no threads, or recovery would mark a row stale under a live worker.
`StaleUnowned`: what recovery still has to mark is running. `PhaseTellsEffects`: a
worker's phase says whether its transaction committed; `complete_job` only follows
a commit and `fail_job` only a rollback, although neither looks at the row. Two
polls cannot both claim a row because the UPDATE's `status = 'pending'` fails
for the second, and a row that was retried in between has a higher attempt than
any run in hand (`attempt = seq`). The refinement follows step by step: each
action is the lifecycle step of its name or a stutter; `PhaseTellsEffects` gives
the commit counts `Complete`, `Fail` and `Retry` ask for.

`AttemptsInv` adds, for one poll at a time, `SelectionFresh` (a selected row is
still pending with the attempt that was read, or deleted: only the poll itself
claims) and `AttemptsLeft` (a pending row has an attempt left, and a run's attempt
is the column's). `CapacityInv` adds `CountsBound`: what the poll counted plus
what it claimed bounds what is running, since rows only leave "running" behind
its back. Both fail with a second poll.

`Served` gives `NoneStranded`. A row is `Stray` if it is running and nobody's. A crash
makes strays of all that run, and recovery, which starts with nobody alive, has on its
list every running row but those touched in the second of the start. So afterwards a
stray has `heartbeat = booted` and is on no list of the heartbeat task, which would
otherwise renew it and hide it from the next recovery.

**Uploads.** `Inv` is `TypeOK`, `Own` and `Queued`. `Own` is an argument about
names: a stored file is held by exactly one request, one kept form or one row
(`OneHolder`), and what a request will remove was read from its own document and
is held by nobody else (`OldOwn`); a nanoid is never stored twice. `RemovesOwn`
follows at once. For `FilesServed`, `Served` adds that held files are on disk and
that a request past its commit no longer has the row's file among the old ones: two
replaces of one document read the same old file, but each installs its own before
removing. With a draft save the row keeps the old file, and this is the step that
fails. `ProcessingOwned` is inductive with `Queued`; `FailedGone` (a failed entry's
source is gone for good) gives `ShownConverts`.

**Documents.** `Inv` is `TypeOK`, `Ids`, `Rooted` and `Sound(d)` for each document.
`Sound` is why the exceptions can be as narrow as `torn`: with no restore midway a
document not torn has one latest version and the row it records; with exactly one
midway, which nobody disturbed, `Progress` says what its statements have done so
far, so that its last INSERT puts the document in order again; a second restore
or any other write in between marks it torn, and the next whole write with no
restore midway repairs it (`create_version` clears every flag, so one suffices).
`Rooted` carries the foreign keys and gives `DeletedStaysDeleted`. `SearchIsFresh`
needs only `Basic` (types, ids, foreign keys). `NewestAreKept` is an argument about
one step: `AddVersion` inserts above all numbers and `Kept` drops the lowest.

**Cache and events.** `Inv` is `TypeOK`, `CacheInv` and `BusInv`. `CacheInv` adds to
the two properties `Busy` (what a phase implies about a read), `Held` (what a read
holds is no older than its row at the last clear, unless a clear came since and it is
`late`; if it is older than its row now, there is a reason), `Kept` (the first of these
for what lies in the cache) and `Told` (a handler that has cleared knows versions the
clear settled). `BusInv` is `Heard`: an event of a
handler that clears is never newer than the last clear. `ReadsAfterEvent` is `Heard`
together with `Kept`: this is where the order commit, clear, publish is used.

`LossInv` gives `LossesShow`. `GivenOnce`: no event number is given twice, to tasks
and to the log together. `Follows`, for each subscriber: what it has seen are events
of the log from its start to its place, in the log's order (`InOrder`), and while it
has not been told of a lag all of them (`AllSeen`). The property is stated of the places
that are due, not of a filtered sequence, which would take an induction.

**Pools.** `Inv` is `TypeOK`, `CallInv` (a VM in use belongs to a call in progress, no two of them to the same, and
its pointer is the call's), `ScriptInv` (a
request is where its script says, and every function behind it ran, timed out or is
the gate of a request that missed a connection or panicked there) and
`NoLostWakeup` itself, which is inductive because each guard's drop both adds an idle
VM and wakes a sleeper, and each woken waiter takes one or finds none. It counts,
hence the assumption that requests and VMs are finite.

`KnotsAreKnown` says that nobody waits in a circle but where the documentation's rule
is broken: a second connection, or Lua that writes outside its transaction.
`HolderInv` says at which step of which script a request can hold the write lock or a
connection. Without those two the lock's holder waits at most for a VM, a VM's holder
for nothing, and who waits for its first connection holds none, so each waits for
somebody of a lower rank. Resources exist at all (`PoolsAssumption`), which
`config/types.rs` sees to.

**Authentication.** `Inv` says that a handler's flags follow the account (`SeesNow`:
what holds now was seen by everybody under way), that a handler past a check has seen
what the check asks for (`HasChecked`), that spent tokens were mailed and the stored one is not spent, and that a reset about
to write came with a fresh token (`TokenFresh`): the clear that spends a token also
removes it, and a new token is never one that was mailed.

`LimiterInv` bounds the guesses of one interface by counting two ways; a step of a login
leaves the limiter of the other interface alone (`OthersLeft`). `Matched`: since any moment of
the window, the wrong passwords are no more than the limiter's entries, the handlers
about to record one, and those dropped. It must hold for every such moment, since the
limiter forgets the oldest first. `LetIn`: the wrong passwords of the window and the
handlers that were let in and have not tried yet are together within the bound, since
each was let in at a moment when the limiter had a place left.

**Fields.** `FieldInv` adds `VersionsWhole` and `PagesTrue` to the type invariant and the
two properties: a draft or version shows what was asked for, and has the field under every
name by which any station looks for it; an open page lists what its search could find,
and an open form shows what was asked for unless it is known to lose it. Each station has lemmas of its own: what it
changes is what the request named, or what the property excuses it for (`WriteTells`,
`DraftTells`, `FormTells`, `RestoreTells`), so that a step is a case split over
stations and not over places. `SeenStays` is why stations compose: what a read shows
of a value survives being written again.

**Paging.** `PagingInv` adds `Walked`: what is ahead of the last document of the page
was not shown, what was shown is behind it, and after a page that is not full nothing
is left, each but for NULLs and what a cursor is blind to (`BlindTo`). `CursorReaches` says
where the keyset condition is the order itself. `TopFacts` says what a LIMIT keeps: it
is defined by counting those before, so the proof is that of two unequal documents the
later has more before it (`FewerBefore`).

**Population.** Four invariants, each on top of the first. `PopTypes`: a batch waits for
the next one on the stack, which holds what its first query asks for and the cache
did not have. `Complete` gives `NothingLeftOut`: what is visited is shown, and each id
of a document of a batch is missing, shown, or still to do (`Pending`). It holds for
any cache, since an entry at least shows its own document (`AllRooted`).
`Shallow` is for depth 1 and a cache of the read's own: at most two batches, entries
that are bare documents (`Little`), and in the tree what `OneLevel` says but for what
is still to do (`Coming`). `Bounded` is for a read by id with a cache of its own.
`Fresh`, only documents that have been visited have anything below them in the cache,
is what keeps the depth: an id that is not visited is replaced by a bare document,
whatever depth the entry was made at. A shared cache and the batches of a list, each
with a visited set of its own, break it. `Room` bounds the depth left at each document
under way by its place and the caps above it. `Apart` is for schemas without a join
field: what a document of the tree lies in has been visited, and what is visited is
not shown again.

**Locales.** `LocalesInv` is the type invariant, `RowsWithoutLocale` (without a
`_locale` column all rows are at `Plain`), `LanguagesApart`, `Accepted` (outside a Group
each column that is neither `replaced` nor `gone` holds what was last accepted for its
address), `VersionExact` (a version that was saved for one address holds what was
accepted for it then, which is why a restore keeps `Accepted`) and `ListsUnnamed` (a
cleanup has no column of its definition on its list: `Expected` and `Columns` are the
same set; which is why a drop keeps `Accepted`). `Covered` (every column of the
definition the server works with is in the table, but for what is `gone`) gives
`WritesServed`. `SearchCurrent` is
inductive with `LocalesInv`.

**Migrations.** `MigrationsInv` is the types and `RecordsTellEffects` itself. It is
inductive although processes work from lists they made earlier, because what a stale
list can do wrong fails on the primary key of the record (a file applied twice) or is
what the property excuses (undone twice), and the effect of a file, its record and the
commit are one transaction.

**Rules.** `RulesInv` is the types, what the database enforces in any case
(`Accepts`), `UniqueWaived` and `RequiredWaived` (a rule that a document breaks is one
that some way of writing, or the addition of the column, has waived for it), and `FileApart`: an exported file names no
document twice. `ImportsKeep` is about one step, which folds a file of any length:
`ImportedSoFar(n, ...)` says what the first n documents have done.

**Induction.** The library's induction theorems take a predicate as a parameter, which
no installed prover instantiates. `MaintenanceProofs!Induction` says the same of a set
and is proved from the pigeonhole principle for finite sets; `Recursion` builds the
function a recursive definition promises from it. `ReadingProofs!Least` is the
least-number principle, by the same argument.

Only model-checked: the liveness properties `PendingResolved`, `Settles` and
`Answered` (fairness and ENABLED are beyond the prover). That the recursion of `Population`
ends is not stated: it needs fairness as well. `NothingPassedOver` and `KeepsNewest` are proved and in no
run.

## Disagreements between documentation and code

PROJECT.json (`findings`) quotes each with its lines. The models have them as the
code does, and the properties name them as exceptions or history variables.

- Jobs: a panic leaves the row running (the docs: failed and retried); overlapping
  polls exceed the limits; a row touched in the second of a restart is not
  recovered; stale rows are never queued again; the timeout does not fail a slow job.
- Uploads: a draft save removes the published files; a late conversion overwrites
  the URL of a newer one; bulk, Lua and MCP deletes leave the files.
- Versions: the gRPC restore has no transaction, so two versions can be the latest
  and a failure leaves the row half restored; it sets the version's status, not
  "published"; every restore fails in a collection without drafts, the gRPC one
  after changing the row; a restore neither prunes nor tells the index; UpdateMany
  records no version.
- Cache and events: most writers never clear the populate cache, a gRPC handler that
  fails or is dropped after its commit does not either; events may be sent in another
  order than that of their numbers.
- Pools: without a connection, or after a panic, the gate of the admin interface lets
  the request through; without a VM in five seconds field access answers that nothing
  is denied; a
  woken waiter that comes too late waits five seconds more each time.
- Authentication: a reset token can be used by requests that overlap; guesses that
  overlap share the last place of the limiter; the admin interface and gRPC count
  failures apart.
- Pagination: cursors of timestamps compare with another format than the stored one;
  a search without filters fails from its second page on; NULLs are lost; a sort
  column that is not selected or is populated gives a useless cursor; where the default
  locale's text stands in for a missing one, the cursor holds the one and the order goes
  by the other.
- Population: entries of the cache are served at any depth and locale; a document
  that two fields name is shown in the first only.
- Fields: an update turns a checkbox off that it does not name; restores, drafts,
  forms and API objects each lose some fields in Groups, wrappers and join tables;
  hidden fields are emptied by the form; the page before a delete misses references in
  the join tables of Groups and in Groups of rows. (That references written between a
  page and its submit are not searched again, and that API deletes have no page, is no
  disagreement: nothing promises it. `unwarned` has it.)
- Rules: an update that does not send a required field publishes a draft without it;
  bulk updates, restores, `hooks = false` and before_change hooks are not validated;
  objects sent for a Group are validated under names they do not have; a null becomes
  the text "null"; unique dates are compared as sent; UNIQUE and NOT NULL exist only
  where the column is as old as its table, and one that is added gives the documents that
  are there the same DEFAULT, or NULL; defaults come after the validation. An import deletes
  documents that hold a unique value of the file, drops versions and passwords of those
  it replaces, and publishes drafts; an export fails with localisation on.
- Locales and migrations: writes of a localized Group go to a column nobody reads;
  writes blank the index of localized columns; junction keys and NOT NULL stay behind
  a changed definition; a restore moves texts and rows into the default
  locale and clears what its version did not hold;
  `db cleanup` breaks a running server; `migrate down` may run a file twice; an
  interrupted `migrate fresh` leaves data without records.

## What is not modelled

- What Lua code does. Where hooks and access functions run is in `Pools`; a refusal
  is a rollback, or in the fields a denial. CRUD from a hook is part of the same
  transaction.
- Filters, access constraints as SQL, tokenising and ranking, configuration parsing,
  rendering, rich text, email, templates, code generation: conversions without
  shared state, or text.
- Globals follow the pattern of documents, without index and deletion, and have no
  module of their own. MCP tools call the same service functions; what differs (no
  clear, no event, no files removed) is in the modules as an "other" writer.
- The gRPC rate limiter: one check and one record under one lock, with nothing to
  interleave.
- SQLite, r2d2, tokio and the file system themselves. A statement that finds the
  database busy past its timeout is an error, which the modules allow where the
  code has an error path (`Faults`; always in `RestoreFails`, `Stops`, `Break`).

## Plan

Done: the modules above. What is left, in this order:

1. An abstract versioned document that `Documents` implements where `Restorers = {}`,
   and globals as an instance of it.
2. `Documents` and `Uploads` over one row: a restore brings back the URL of a file
   that a replace has removed.
3. Hooks that write: the depth limit of nested CRUD and what its transaction sees.

# Soundrobe: specifications, model checks and proofs

Soundrobe is a music-library tagger: a Rust backend (`src/src-tauri/src`) that
runs as a Tauri desktop application and as a headless web service (axum), and a
React renderer (`src/src`). This directory models the parts of it that decide
what happens to an album and to a file: the durable worker queue, the scheduler
with its folder watcher, the background tagging pipeline, the queue every media
write passes through and the process lifecycle that depends on it, the journal
that lets a run be reverted, the assistant's action batches, the requests to the
tag providers and the walk of an artist's catalog, and the event stream that tells
a browser about all this.
The modules are written from the code; the documents
(`docs/web-service.md`, `docs/CHANGELOG.md`, `docs/auto-tag-evidence.md`) supply
the promises the code is compared with.

Contents: 1 inventory · 2 modules and how they correspond to the code · 3 runs ·
4 bounds · 5 fairness · 6 proofs · 7 disagreements with the documentation ·
8 narrow limits · 9 what is not modelled.

## 1. Inventory

### The parts modelled here

| Part | Code | State it keeps | Operations | What makes it correct |
|---|---|---|---|---|
| Worker store | `state/worker.rs` | SQLite tables `worker_items`, `worker_retries`, `worker_lineage`, `worker_evidence`, `review_flags`, `worker_ai_circuits`; the file `worker.halted.json` and its copy in memory | enqueue, requeue, claim (server, desktop), cancel, bind, finish, defer, checkpoint, flag, acknowledge, recover | a row has at most one live owner; a deferral always comes back, a bounded number of times; a proof is never half published; the flag of AI-written tags survives until acknowledged; a crash loses nothing |
| Auto-tag pipeline | `server.rs` 362–1067, 1915–2143 | one spawned job with its locals, the pending list a request read, the operation token | scheduler pass, run-now, retry-failed, manual run; bind → claim → look up → resolve → commit → wind down → record → release | what the run's history says is what the rows say; a running row has a worker; a cancellation that was answered is respected; the token comes back |
| Task registry | `state/tasks.rs` | in-memory tasks and cancellation flags | create, with_running, finish, finish_cancellation_failure, cancel | late work never rewrites a cancelled task, except to report that the cancellation was not stored |
| Operation coordinator | `state/operation.rs` | one token | try_start, finish, RAII guard | one long operation at a time |
| Schedule, settings, folder watch | `state/background.rs`, `state/cron.rs`, `server.rs` 856–1067 | settings in memory and on disk, the last slot evaluated, the watcher's backlog, baseline and remembered modification times | set_settings, due, next_after, the loop's poll and survey, WatchQueue, changed_albums | slots fire in order and missed ones are caught up; watching starts quiet; a watched album runs in the end |
| Run history | `state/background.rs` | `background-tagging.json` | record, finish, recover interrupted runs | a record is closed once, and says what happened |
| Write queue | `state/write_queue.rs` | coordination RwLock, global gate, folder gates, activity counter | run, run_for_folder, run_exclusive, try_run_exclusive, is_active | exclusive work runs alone, writes of one gate are serial, the counter is exact, nobody starves |
| Process lifecycle | `desktop.rs`, `state/quit_guard.rs`, `state/updater.rs`, `commands/updater.rs`, `server.rs` 3780–3830 | the force-exit flag, the pending update, the installing flag; the server's shutdown | exit request and prompt, check, install and restart, shutdown after the last write | what was under way when an exit was looked into has ended when the process does, unless it was confirmed; a server told to stop stops |
| Review journal | `commands/auto_tag_review.rs` | per run its manifest with the original bytes, per shared file the stack of its writers, the loaded-run index | begin, mutate, finish, keep, revert, clear | a revert can always be finished, restores what was there before, and discards nobody else's work |
| Assistant batches | `state/assistant.rs`, `state/assistant_task.rs`, `commands/assistant.rs` | the runtime's batches and tasks, their rows in the task database, the files | hydrate, propose, preview, approve (tags, moves, deletions, delegated work), roll back, verify, reject, restart | steps happen in their order, a settled batch passes no status check again, a failed move is undone, what is replaced was previewed |
| Provider requests | `state/providers.rs` 22–198, 580–680, 3090–3180, 3990–4010 | two limiters per process; per lookup and provider the longest Retry-After heard | wait for a turn, send, read the answer, pause, retry, give up, defer the album | a provider's pace holds whoever sends; an album never comes back before it was told to; every request ends |
| Artist catalog | `commands/auto_tag.rs` 2551–2800, `state/sqlite.rs`, `commands/auto_tag_editions.rs` | pages, checkpoint and release details in `cache.db`; per walk its cursor and what it has collected | look, resume or reset, fetch, store page, store checkpoint, rank, examine details, answer | a finished catalog is whole; a stopped walk is resumed and not redone; a release that fits and was not examined is no miss; those that fit are examined in the end |
| Event bus and SSE replay | `state/events.rs`, `server.rs` 1380–1523, `shared/web-adapter.ts` 71–134 | sequence, bounded history, broadcast ring; per connection its replay, receiver and flags; per page its source and last event id | publish, replay and subscribe, next event (gap, replay, live, lagged), subscribe, unsubscribe, reconnect | a page gets each event once and in order, or is told to refresh |

### How they interact

* The scheduler loop (`start_background_library_tagging`) and the HTTP commands
  run concurrently on the tokio runtime. Both reach `start_background_batch`
  with a list of albums they read *earlier*; the operation token decides which
  of them starts, the others leave their albums pending.
* The loop polls the settings, the clock and the library once a minute. Settings
  are changed under it by HTTP requests. What the watcher finds goes into a
  bounded backlog, from there into the store, and only then is remembered as
  accepted.
* The job is a spawned task. It talks to the store through a connection mutex
  (one call = one atomic step, a transaction where the code opens one), to the
  task registry through its lock, and wraps each terminal commit in
  `WriteQueue::run_exclusive` **and** `TaskRegistry::with_running`, so that a
  commit and a cancellation are ordered.
* `task:cancel` changes only the registry; the job notices at its next check and
  withdraws the rows with `cancel_paths`. When that fails it leaves a *halt* in
  memory and in a file: the next start completes the cancellation.
* Every media write is a turn of the write queue. The activity counter is what
  the exit handler, the updater and the server's shutdown look at before they
  end the process.
* A write of an auto-tag run passes through the review journal, which saves the
  file's bytes first; keep and revert settle the run later, and a clear may come
  at any moment, outside the queue.
* The assistant's batches wait in a runtime that is emptied by a restart and
  filled from rows on the next request. An application holds the queue
  exclusively from its preflight to its verification.
* A lookup of the resolver asks two providers through limiters it shares with
  every other request of its process. What it was told to wait and would not wait
  out becomes the deferral of its album in the store. Its walk of an artist's
  catalog is kept in `cache.db`, which the desktop and the server share.
* The desktop shell opens the same `worker.db` (`just web-local` shares
  `~/.soundrobe`) but never recovers it; ownership of a row is the string
  `server:<pid>` or `desktop:<pid>`, checked against the process table.
* Every part publishes to the event bus, which never waits for a reader: a page
  that falls behind loses its connection and asks again with the last id it saw.
* A restart runs `recover_interrupted` and then `recover_interrupted_runs`
  before the scheduler is started; without the first the scheduler stays off.

### Hard behaviours

Stale pending lists; an operator's retry that resets a row a job is working on;
cancellations between two reads of the flag; two-statement calls without a
transaction; a database that refuses one write in the middle of the job; a crash
at any point; a pid reused after the crash; deadlines and attempt budgets spread
over two tables; readers, writers and dropped futures on one lock; two flags read
one after the other before the process ends; a clock that is set back; a
modification time remembered before its album is accepted; a file shared by two
runs that are reverted in either order, half-way; a batch whose status lives in
memory and in a row; a checkpoint written after its page, in a cache that another
process clears; a request that holds a slot while it sleeps; a cursor that outlives the history, the connection or the
process it came from. `PROJECT.json` lists each at its line under "hazards", with
the properties that watch it. Section 9 lists the parts that are not modelled.

## 2. Modules

```
TaggingContract          what the service promises (abstract)
      ^ implements
AutoTagService  --EXTENDS-->  WorkerStore  <-- MCWorkerStore
      ^      ^
      |   AutoTagServiceProofs (the store's theorems, then the service's)
MCAutoTagService

MCAppLifecycle --> AppLifecycle --EXTENDS--> WriteQueue
                        ^
                AppLifecycleProofs (the queue's theorems too)

ReviewJournal,  BackgroundScheduler,  AssistantBatches,  EventBus
      each EXTENDed by its ...Proofs module; an MC module for the first three,
      EventBus is checked as it stands

MCArtistCatalog --> ArtistCatalog <--EXTENDS-- ArtistCatalogProofs
MCProviderRequests --> ProviderRequests <--EXTENDS-- ProviderRequestsProofs
```

**WorkerStore** (`state/worker.rs`). One action per call. `items`, `retries`,
`lineage`, `evidence` and `flags` are the tables (one row per album, "absent"
and attempt 0 standing for no row), `haltFile` is `worker.halted.json`,
`halted` each process's copy, `pid` the process table `process_alive` consults.
A path is an element of `Albums`; a run or task id an element of `Runs`; a
retry deadline is the Boolean *due*; an evidence document is the set of its keys
the store looks at. Calls that return an error and change nothing are no steps;
calls that are not one transaction are split or parametrised (`InsertPending` of
a proper subset, `MarkReviewed(p, whole)`, `CancelFailed(S, filed)`). `StoreNext`
lets a server and a desktop process make every call in any order, which is more
than either does: what holds here holds for any caller.
`worker_ai_circuits` is not consulted by the store itself and is kept by
AutoTagService.

**AutoTagService** (`server.rs` with `tasks.rs`, `operation.rs`,
`background.rs`, and the outcomes of `commands/auto_tag.rs`). It EXTENDS
WorkerStore and uses its actions. Each action is the code between two points
where another thread can interfere. `caller` holds what the scheduler and one
HTTP client are about to do with the list they have read; `job` is the spawned
task with its locals and a program counter:

| pc | code |
|---|---|
| bind | `bind_run` before the first request, 479–490 |
| claim | head of the loop, `mark_running`, 503–547 |
| origin | `retry_origin`, `ai_circuit_open`, 547–563 |
| lookup | evidence checkpoints, 564–597 |
| decide | the resolver: an AI refusal, an AI proposal (flag recorded first) or a result |
| write | the files change |
| settle | `run_exclusive` + `with_running` + completion, 703–749 |
| fail | a manual run's error or cancellation, 2071–2139 |
| wind, judge, close, record, release | withdrawal, verdict, `tasks.finish`, `finish_run_checked`, token, 766–848 |

Manual runs (`start_auto_tag_task`) are jobs of kind "manual" that skip *bind*,
*origin* and the history. The resolver is a nondeterministic choice over
`Results`; the budget in `Budget` says how often the environment may request,
retry, cancel, acknowledge, crash, fail a write, or make the AI answer.
History variables (`aiTagged`, `charged`, `stopped`, `promised`) are read by no
action. `Start` opens the store, recovers it and closes the run history; all
in-memory state starts afresh. The scheduler appears here as a caller that reads
the pending list; when and why it does is BackgroundScheduler's subject.

**TaggingContract**. The promise of `docs/web-service.md`, "Schedule": accepted
albums wait until they are worked on or withdrawn, one is worked on at a time,
and an interrupted one waits again after a restart. An album is idle, queued,
being worked on, or *held*: claimed, and in nobody's hand. Work becomes held when
the process dies under it, when a call of the database fails, or until a
cancellation withdraws it; it stays held until it is withdrawn, asked for again by
the operator, or found by the next start (`Resume`), which must queue all that is
held, withdraw what was recalled and touch nothing else, unless the database
refuses that very call. AutoTagService implements it under the mapping `Contract`:
`work` is "working" for the album the job has in hand, "held" for any other running
row and "queued" for a pending or deferred one; `recalled` is the halt marker and
`faults` the failures the database has left. A recovery that leaves a running row
where it is (the mutant, and a start under the pid of its dead predecessor) breaks
the contract.

**BackgroundScheduler** (`state/background.rs`, `state/cron.rs` and the loop of
`server.rs`). `settings` and `stored` are the settings in memory and in the file,
`clock` the minute it is, `last` the slot `due` evaluated last, `queue` the
watcher's backlog, `seen` and `baseline` what it remembers of the folders, `rows`
what the store knows of an album, `holder` the operation token. `pc` cuts the
loop's pass where it awaits or another thread can come in between: `Wake`,
`PollPending`, `Evaluate`, `RunSlot`, `Watch`, then one step per album taken from
the backlog (`StartWatched`, `StartWatchedFails`, `Refused`). A crontab is the
dates, hours and minutes it matches; `NextAfter` is the search of `cron.rs:185`
with its carries, and `Slots` states independently which minutes it should find.

**WriteQueue** (`state/write_queue.rs`). One writer is one caller. `line` is the
queue of each fair lock, `readers`/`writer` the coordination RwLock, `owner` the
gates, `active` the counter. `Drop` is a handler future dropped by axum:
guards and activity go, `leftover` is the closure that `spawn_blocking` still
runs. tokio's locks are modelled from their documented fairness; the mutex
around the folder map is never held across an await and is left out.

**AppLifecycle** (`desktop.rs`, `quit_guard.rs`, `updater.rs`, shutdown of
`server.rs`). It EXTENDS WriteQueue: the process that owns the queue, in two
forms, chosen by a constant. In the desktop one the exit handler reads the
counter and the updater's flag one after the other, with other threads in
between, and asks or lets the exit go on; the updater checks, holds a pending
update, and installs it as a caller of `try_run_exclusive`. In the server one a
signal stops the listener, main polls the counter, and once it has read zero main
returns. In both the process ends (`Exits`) in a step after the last look
(`HandlerDecides`, `Drained`): calls and installations may begin in between and are
cut off, except for closures of `spawn_blocking`, which tokio's runtime waits for.
`seen` and `begun` are history variables: what was under way when the exit was
looked into and has not ended since. The updater plugin, the dialog and the user
are external: their answers are choices.

**ReviewJournal** (`commands/auto_tag_review.rs`). A run works on one album and
may write a file shared with another (artist art). `content` is what the files
hold, `change` the manifest of each run (what each file held before and after,
and its backup), `owners` the stack of runs that wrote each file, `listed` the
records, `dir` the directory of the backups. A begin is two steps
(`BeginDirectory`, `BeginPush`), a revert one for its search, one for its check,
one per file and one for its end, a clear three (`ClearRecords`, `ClearOwners`,
`ClearDirectory`), for they take different locks; `Mutate`, `Finish` and `Keep` are
one each. A write, a readback or a restore may fail (`MaxFaults`); the user may
edit a file at any moment (`MaxEdits`).

**AssistantBatches** (`state/assistant.rs`, `assistant_task.rs`,
`commands/assistant.rs`). A plan gives each batch its kind (tags, move, delete,
delegated work), its files and the batches it depends on. `first` is the status of
a batch's first entry in the runtime (the one every lookup finds), `again` the
batches listed more than once, `rows` the statuses in the database, `tags` and
`names` the files, `basis` what a contract's preview showed. `calls` holds the
applications under way with a program counter: the status check, the wait for
`guard`, preflight, each file, the way back, verification, and the row.
`SendLoadingAll`, `Hydrate` and `SavePreview` are the points of a request between
which an application or a rejection may come.

**ArtistCatalog** (`artist_catalog` and the artist candidates of
`commands/auto_tag.rs`, the catalog tables of `state/sqlite.rs`, the Discogs
details of `auto_tag_editions.rs`). A cursor is the offset of a page's first
release and a release is its place in the list. `pages`, `checkpoint` and `details`
are the three tables; a stale row is no row, as no reader tells them apart.
`walk` is one lookup per process with a program counter: each call of the cache is
one step (`Look`, `Resume`, `Reset`, `StorePage`, `StoreCheckpoint`, `Finish`), for
the other process may come between any two, and so are the request (`Fetch`), the
window (`Rank`) and each detail. An album is the set of the releases that fit it;
every walk is made for one of `Albums`. `Ranked` is what `rank_releases_for_request`
keeps of the catalog (`auto_tag.rs:1740`: titles that match, tracks enough), and the
window is formed from that; the order in which it ranks them is taken to be the
catalog's, for nothing here depends on which pending release comes first. A read that fails reads as no row (`ReadFails`), a
write that fails ends the walk; `Crash` may come anywhere, `TimePasses` ages the
rows and `ListChanges` changes what the provider lists. `stable` and `disturbed` are
history variables.

**ProviderRequests** (`state/providers.rs`). `stamps` and `maximum` are the Discogs
limiter, `slot` how far ahead the next MusicBrainz slot is, `metrics` what a lookup
has heard of each provider. `request` is one request per caller with a program
counter; `Ask`, `Run` (a turn or a wake), `Reply` (any answer the code tells apart)
and `Cancel` are its steps, `Finish` settles a lookup: answered, cancelled or
deferred until `due`. Time is relative, and `Tick` passes it only while nobody can
run: what sleeps is woken on time, an answer takes any time. `sends`, `lowest` and
`embargo` are history variables.

**EventBus** (`state/events.rs`, the `/api/v1/events` handler, `WebEventBus`). An
event is its sequence number; whether the page subscribes to its channel is
chosen when it is published (`wanted`). History and broadcast ring have one
capacity and hold the latest numbers, so both are the interval `Oldest .. next`.
`stream` is `EventStreamState`: `EmitGap`, `EmitReplay`, `EmitLive`, `SkipLive` and
`LagCloses` are the arms of `next_event`. `source` is the page's `EventSource`
with the cursor in its URL and its own last event id; `Asked` is the handler's
choice between the two. `wire` is what was sent and not yet read; a lost
connection loses it.

## 3. Runs

| Run | Question | Properties |
|---|---|---|
| `worker_store` | Does any sequence of calls of a server and a desktop process, restarts and failed halts included, break the tables? | `DeferredHasRetry` (a deferral has the retry row that brings it back), `ProofIsPublished` (no half proof survives a merge), `NoTakeover` (a live owner keeps its row) |
| `service` | Do scheduler, requests, an operator's retry, a cancellation, a database failure, AI answers and a restart, in any order around two batches, keep rows, tasks and history in agreement? | `HistoryIsSettled`, `RunningHasWorker`, `CancelledStaysStopped`, `AiStaysBlocked`, `AiTagsFlagged`, `CancelledStaysOut`, `ContractSpec` (it implements TaggingContract) |
| `live` | Is everything served in the end? | `PendingServed`, `RunningEnds` |
| `schedule` | Do slots and watched albums survive settings that change under the loop, a clock that is set back, a busy lock, failed saves and a restart? | `SlotsFireInOrder`, `MissedSlotsCatchUp`, `WatchRemembers` (a watched album that no run has read is somewhere), `WatchedAlbumRuns` |
| `write_queue` | The queue inside the process that owns it, with updates, exits, prompts and the server's shutdown: exclusion, exact counting, no starvation, nothing cut off? | `OperationsExclude`, `CountIsExact`, `ExitSparesWhatItSaw` (nothing ends early that was under way when the exit was looked into), `StopsOnceCallsCease` (the server's shutdown comes to its end), `EveryCallRuns` |
| `review_journal` | What does a revert restore after failed writes, failed readbacks, half-way reverts, an edit and a clear, with a file two runs share? | `ListedIsBackedUp`, `OwnWorkIsRevertible` (a revert is not refused without a reason), `RevertSparesOthersWork`, `RevertRestoresOrigin` |
| `assistant_batches` | Two batches of a plan of every kind, two overlapping applications, rejections, later requests, edits, occupied names, failures, a restart | `DependentsWait`, `SettledIsNotPending`, `FailedMoveIsUndone`, `AppliedIsOnDisk`, `ApplicationEnds` |
| `artist_catalog` | Do two processes that walk one catalog, with failed requests, reads and writes, rows that expire, a list that changes, cancellations and crashes between any two calls, end up with the whole of it? | `CatalogIsWhole` (no gap, no repetition), `NoGuessedMiss` (an answer without an error has examined every release that fits, of the catalog and of an unchanged list), `WorkIsKept` (pages are only cleared after a lost checkpoint, an expiry or an overlap), `DiscoveryCompletes` |
| `provider_requests` | Do shared limiters, limits that fall, retries, Retry-After, cancellation and deferral go together? | `PacingHolds`, `DeferralCoversTold` (a deferral is never shorter than what was told), `RequestEnds` |
| `event_stream` | Does a page over breaking connections, lag, a rolling history and a restart of the server miss or repeat anything unannounced? | `StreamOwesTheRest`, `FirstSourceResumes`, `SubscriberCatchesUp` |
| `found_*` | the disagreements of section 7 | one property each |

All but the `found_*` runs pass. Each property has a mutant of the code, written next
to the definition it replaces (comment "Mutant:"), under which its run fails.

Type invariants are proved for every module with a proof module (section 6) and
take no run. Five action properties and invariants that held in the runs of an
earlier state of the project are proved for every instance and no longer checked:
`AiFlagKept`, `RetryBudgetSpent`, `BaselineIsQuiet`, `PreviewIsFresh` and
`RestartIsTold`.

`RunningHasWorker` and `HistoryIsSettled` say nothing once a database write has
failed (`faulted`): a failure between a claim and the resolver leaves the loop
with the row still running until the next start, and one in `finish_run_checked`
leaves the record open. The behaviour is recorded as a hazard at `server.rs:550`;
`RunningEnds` is checked without faults for the same reason. `ContractSpec` goes on
speaking: such a row is held until the next start, which queues it. A hazard that the
named properties cover in part only, or not at all (the torn enqueue, the edit
between a write and its readback), says so in its "note".

## 4. Bounds

* `worker_store`: one album (no call relates two albums except by looping over
  them), two runs (a stale run and the current one), two pids (both runtimes at
  once, or one pid reused), `MaxAttempts = 1` (the code has 3; a first deferral
  and an exhausted budget both occur; the theorems of section 6 cover every
  value). 541 thousand states.
* `service`: two albums and two runs, from one of two budgets: two requests, one
  retry, one cancellation and one crash; or one request, one cancellation, one
  crash, one database fault and two AI answers. The resolver answers with a partial
  recording result that is worth retrying: it flags the album, defers it with a
  proof, and is exhausted the second time; the other outcomes meet faults in
  `worker_store`. Two runs are enough for a stale list, a retry or a recovered row
  to meet another batch. One fault is deliberate: see section 8. 1.3 million
  states, with a view that leaves out `evidence` (no action of the module reads
  it) and symmetry.
* `live`: one album and four runs, more than the one request, cancellation, crash,
  foreign operation and acknowledgement of the instance can use, so that the
  bound itself never stops the service. Neither view nor symmetry.
* `schedule`: three albums, one of which exists at the first start, a backlog of
  two (so that it overflows), a day of two hours of two minutes (so that the search
  carries to the next hour and the next date within five minutes of clock), two
  crontabs, and two budgets, one for the clock and one for the watcher. 268
  thousand states.
* `write_queue`: three callers of the server with one shutdown; two of the desktop
  with one exit, one check and one installation; one with two of each. Two folders:
  two readers around a waiting writer, or two writers of one folder beside another.
  Calls of mode "run" and "exclusive" may be dropped. 192 thousand states.
* `review_journal`: two runs over two albums with one shared file, two byte values,
  two writes a run, one edit, one fault. 943 thousand states; the view leaves out a
  history variable, and symmetry is sound because no liveness is checked. All but
  `RevertRestoresOrigin` is proved for every value of these (section 6); what that
  one owes to the bounds is in section 8.
* `assistant_batches`: two batches, two overlapping calls, three files, five plans,
  each with the budget of requests, applications, edits, occupied names, faults and
  restarts that matters to its kinds. 409 thousand states.
* `artist_catalog`: two processes, at most three releases, pages of up to two (a
  page may be shorter, so that cursors differ between walks) and a window of two
  details, so that a catalog has several pages and a window leaves releases for the
  next walk. An album that all releases fit fills the window, one that a single
  release fits has the others dropped. Two troubles: faults, expiries, changes of the list and walks that
  begin while another runs are counted together, and two are enough for a fault to
  meet an overlap. Proved for every value of all of these except
  `DiscoveryCompletes`. 1.1 million states.
* `provider_requests`: one lookup with two requests and one caller of the interface
  with one; room for two sends in a Discogs window of two ticks, which an announced
  limit can halve; a MusicBrainz slot of one tick; retry delays of one and two ticks
  of which both are waited for; a Retry-After of two ticks is waited out, one of
  three defers. 226 thousand states.
* `event_stream`: a history of 2 and 6 events, so that the window moves past a
  cursor several times; two processes; two events on the wire. Sequence numbers
  are u64 and saturate only after 2^64 events.
* Deadlock is checked for the store and the event stream. The other runs say
  `CHECK_DEADLOCK FALSE`: with its budget used up and nothing left to do, the
  modelled system stops.

## 5. Fairness

* Pipeline, `FairSpec`: weak fairness of the scheduler's steps (the loop polls for
  ever), of request handlers and the job (tokio drives spawned tasks; provider
  calls carry timeouts), of the end of another operation, of deadlines passing,
  and of `Start` (the container or service manager restarts the process). Nothing
  makes the operator, a crash, a fault or the AI act.
* Scheduler: weak fairness of the loop, of a batch that holds the token, and of
  the end of another operation. Nothing makes time pass, settings change or albums
  appear.
* Lifecycle, `LifecycleFairness`: locks wake their waiters and operations end, the
  updater's coroutine and the exit handler run on, closures left behind end, main
  goes on polling and, once it has returned, the process ends. Nobody has to call,
  exit or install. The polls of `wait_for_active_writes` are one step that is enabled
  while the counter is zero; `StopsOnceCallsCease` speaks of behaviours in which new
  calls cease, so that a poll does find it there.
* Assistant: weak fairness of each application under way (the command is awaited
  by the runtime, and the exclusive guard is fair).
* Artist catalog: weak fairness of a walk's own steps (the lookup's future is
  driven, the request times out). Nothing makes anyone walk: `DiscoveryCompletes`
  speaks of behaviours in which walks go on being started, and not always two at
  the same time.
* Provider requests: weak fairness of `Tick` (timers fire), of a request that can
  run, and of its answer (the HTTP client has a timeout).
* Event stream, `FairEventSpec`: a connection is made, served and read.
  `SubscriberCatchesUp` speaks of behaviours in which the connection breaks finitely
  often, for a source with an old cursor in its URL starts over at each reconnect.

Weak fairness is enough: each of these steps, once enabled, stays enabled until
it is taken, or is re-enabled by the loop's next pass.

## 6. Proofs

Every theorem holds for every value of the constants under the module's own
assumption, which only says that the "none" values are not real ones, that limits
are positive or sets finite, and that a parsed crontab names hours and minutes of the
day (`parse` refuses an empty or out-of-range field).

`AutoTagServiceProofs`. First the store, from `StoreAssumption`:

* `TypeCorrect`: `StoreSpec => []TypeOK`. One lemma per group of calls; the
  delicate part is `NextRetryType`, the attempt counter at its limit.
* `DeferralKeepsRetry`: `[]DeferredHasRetry`. Not inductive alone: an exhausted
  retry row decides between "deferred" and "needs_review", and a deferral keeps
  the first origin. The inductive invariant is
  `RetryInv == TypeOK /\ RetryHasOrigin /\ DeferredHasRetry`, where
  `RetryHasOrigin` says every retry row with an attempt has an origin run.
* `ProofsArePublished`: `[]ProofIsPublished`, inductive with `TypeOK`.
* `AiFlagSurvives`, `BudgetIsKept`: the action properties `AiFlagKept` and
  `RetryBudgetSpent`, from `TypeCorrect`.
* `RunningRowsAreSafe`: `NoTakeover`, from `RunningIsOwned` (a running row has
  an owner and a run), itself an invariant proved there.

Then the service around it, from the assumption of AutoTagService as well:

* `ServiceIsSound`: the inductive invariant `ServiceInv`: the types, the operation
  token (its holder is the job or an operation of somebody else), the lists that
  requests hold, the shape of the job at each point of its program, and the open row
  of its album.
* `ServiceUsesStore`: every step of the service is a step of the store or leaves its
  tables alone, and every crash and start is one of the store's. Hence
  `ServiceKeepsPromises`: the store's theorems hold in the service. Both suppose
  that `Calls` contains "review" and "proof", the calls which the job makes; the
  runs' configurations do.
* `ServiceKeepsContract`: `ContractSpec`, the refinement of TaggingContract, step by
  step, supposing that no pid is reused: the step of a start rests on
  `OwnersKnown` (a part of `WorkerInv` below), by which every running row was claimed
  by a process that was started before, so that `recover_interrupted` leaves none of
  them held.
* `CancelledTasksComplete` (`CancelledStaysOut`) and `AiTagsStayFlagged`
  (`AiTagsFlagged`). `ChargedLineagesRest` (`AiStaysBlocked`) from `AiInv`: the lineage of
  an album the AI was charged for has an open circuit, and a batch consults it only
  for an album it was never charged for.
* `RunningRowsHaveWorkers` (`RunningHasWorker`) from `WorkerInv` (the owner of a
  running row is a process that was started, and a row of the server's present
  process is attended by its job), and `HistoryTellsTruth` (`HistoryIsSettled`) from
  `RecordInv` (what the open record, the job's ledger and the rows say of each album
  of the batch). Both suppose that no pid is reused: with reused pids they are
  false, which is what `found_pid_reuse` shows.
* `CancelledAlbumsRest` (`CancelledStaysStopped`), supposing budgets of one fault at
  most, from `MarkerIsLast` and `StoppedRests`: while the halt file is there, it names
  the albums of the last cancellation that could not be stored. With two faults a
  second halt replaces the first (section 8).

`AppLifecycleProofs`. First the queue, from `QueueAssumption`:

* `QueueExcludes` (`OperationsExclude`) from `LockInv`: a call that works holds its
  locks, the locks' holders are exactly those calls, and a write guard excludes
  read guards.
* `QueueTypes`: the types of calls, lines and counter.
* `CounterIsExact`: `[]CountIsExact`. It needs the cardinality of the set of
  counted calls to move by one with each step (`CountUp`, `CountDown`,
  `CountKept`).

Then the processes around it: `LifecycleKeepsTheQueue` is a refinement, `LifecycleSpec
=> QueueSpec`, so that the theorems above hold in both processes;
`LifecycleTypes` and `ExitSparesTheSeen` (`ExitSparesWhatItSaw`) follow from
`LifeInv`: its types, `ExitKnows` (what the handler has read of the counter still
bounds what is left of what was running then, and a process about to end has nothing
of it left, or an answer) and `DesktopInstalls`. That the counter stands for the
calls is `CountIsExact`.

`ReviewJournalProofs`: `JournalTypes`; `BackupsSurvive` (`ListedIsBackedUp`);
`OwnWorkIsNeverRefused` (`OwnWorkIsRevertible`) and `RevertsSpareOthers`
(`RevertSparesOthersWork`). `JournalIsSound` is the invariant they rest on, in six
parts, each inductive on top of the ones before:

* `Typed`: the types; no run is on a stack twice in a row.
* `BackupInv`: a clear holds the lock of nothing it still lists, a run being begun is
  new, and one not begun has touched nothing.
* `RunsInv`: a run that writes is listed and alone on its album, knows files of its
  album and shared files only, and what is reverted is over.
* `WriterInv`: who wrote a file last, or before another run, is over or still
  running with an entry of that file, and once somebody wrote over it, it does not
  come back to it.
* `EntryInv`: a tracked entry was read back and names what the run left, an
  untracked one what was there; the bytes of an edit are what later runs found;
  what a revert that holds its locks still has to restore is what it checked.
* `StackInv`: every run on a file's stack found the work of the run below it
  (`StackFollows`), a running run is on top of its album's stack, and a listed run
  whose work stands is on the stack. That is why the top of the stack is enough for
  the check of a revert: work that stands and was written last is on top.

`BackgroundSchedulerProofs`: `SchedulerTypes`, `WatchingStartsQuiet`
(`BaselineIsQuiet`) and `QueuedAlbumsAreRemembered` (`WatchRemembers`), from
`IInv`: types, `LoopShape` (what the loop holds at each point of its pass),
`Scanned` (a remembered modification time is one the folder has had) and the two
invariants themselves. `SlotsInOrder` (`SlotsFireInOrder`) follows from the types and
from what the crontab arithmetic computes, for days of any length: a minute is the
day, hour and minute read from it (`Reading`, `AtIsRead`), minutes are ordered as
those are (`AtOrder`), and the search finds the first match of one date (`SlotOnIs`)
and of all that follow (`NextAfterIs`), which needs that a set of numbers has a least
one (`LeastIs`).

`AssistantBatchesProofs`: `BatchesTyped`; `StepsInOrder` (`DependentsWait`),
`SettledForGood` (`SettledIsNotPending`) and `OnlyPreviewedIsReplaced` (`PreviewIsFresh`)
from `BatchInv`; `MovesAreWhole` (`FailedMoveIsUndone`) from `MoveInv`, which says, for
each program counter of a move, which files stand under which name; and
`AppliedIsTrue` (`AppliedIsOnDisk`) from `NamesTell` on top of both (a file whose new
name is free is under its old one, and one that was moved stands as itself under its
new name).

`ArtistCatalogProofs`, from the four assumptions of its module: `CatalogTypes`,
`CatalogsAreWhole` (`CatalogIsWhole`), `NothingGuessed` (`NoGuessedMiss`) and
`DiscoveredWorkIsKept` (`WorkIsKept`). The invariants, each inductive on top of the
one before:

* `Typed`: the types, and `PageInHand` (a walk about to store a page has one).
* `ListInv` adds `CachedPagesFollow` (a cached page says which releases come after it) and `ReadsInOrder` (what a walk has read
  is the list up to its cursor). This is why the order of page and checkpoint
  matters nowhere for wholeness: a page says where it ends.
* `AnswerInv` adds `ExaminedOrToDo`: a release that was ranked was examined, is
  still to do, or left an error behind. With `ListInv`, what was ranked is all that
  fits of a list that did not change (`WholeListRanked`).
* `ChainInv`, for `WorkIsKept`: as long as nothing was disturbed, one walk at most
  is under way, the cached pages are one chain from cursor 0, every walk is on it,
  and its end is named by the checkpoint or held by the walk about to write it. A
  walk then only resets an empty cache.

`EventBusProofs`, from `EventAssumption`:

* `EventTypes`: `[]EventTypeOK`.
* `NothingIsForgotten`: `[]StreamOwesTheRest`. The first event of a replay leaves no
  trace of what came before it, so the invariant needs `ReplayReaches` (what is
  left of the replay reaches up to the receiver) and `ReceiverAtMostNext`. That
  the window has not moved past the cursor comes from the negation of `Gap`.
* `RestartNoticed`: `RestartIsTold`, from `SourceKnows` (a source asks with the
  page's cursor or an older one) and `PastIsAnswered` (a stream opened with a
  cursor of another process sends the gap and nothing before it).
* `PagesResume`: `FirstSourceResumes`, from `WireContinues`: what is on the wire
  continues what the page had, event by event or with the gap alone, and the stream
  counts from its end. It holds of sources without a cursor in their URL only, which
  ask for what the page had last.

`ProviderRequestsProofs`, from the two assumptions of its module: `RequestsTypeOK`
(`TypeOK`), `SendsArePaced` (`PacingHolds`) and `DeferralsWait` (`DeferralCoversTold`),
from the inductive invariant of `RequestsAreSound`:

* `WindowOK`: the ages in the limiter's window are in order, its limit is the lowest
  one announced, and the sends it still counts are exactly those Discogs has had in
  the last window. It rests on lemmas about ages: those that leave a window are a
  prefix (`LeavingIs`, by the least such prefix), and who has left stays out
  (`OlderRecent`).
* `SlotsOK`: the next slot, every booked one and the last send to MusicBrainz lie a
  spacing apart, so that a request which wakes in its slot finds no recent send.
* `DeferralInv`: a deferral only says something of providers whose attempt gave up, so
  it adds why nothing is left of what the others asked for: the longest delay is
  noted (`ToldIsNoted`), and until an attempt gives up a lookup sleeps for it
  (`ToldIsSlept`), unless it was cancelled, and then it is not deferred.

Model-checked only: liveness under fairness (`EveryCallRuns`, `StopsOnceCallsCease`,
`PendingServed`, `RunningEnds`, `SubscriberCatchesUp`, `MissedSlotsCatchUp`, `WatchedAlbumRuns`,
`ApplicationEnds`, `DiscoveryCompletes`, `RequestEnds`), which is out of this prover's
reach; and `RevertRestoresOrigin`, which holds in the run's bounds and not beyond them
(section 8).

## 7. Disagreements with the documentation

| Run | Code | Statement it contradicts |
|---|---|---|
| `found_pid_reuse` | `recover_interrupted` (`worker.rs:366`) keeps a running row whose owner's pid is alive; the server's own pid is. After a crash and a restart under the same pid (pid 1 in the container of `Dockerfile`) the interrupted album stays running and is skipped by every pass. | `docs/web-service.md:126`: "A restart converts an interrupted item back to pending work instead of losing it or starting concurrent duplicate work." |
| `found_watch_lost` | The watcher remembers a folder's new modification time before it asks for a run (`server.rs:876`, `:1052`). An album changed while its own run is past reading it is refused as active, kept out of the queue, and never seen to change again. | `docs/CHANGELOG.md:145`: "Background tagging no longer loses music added while a run is in progress." |

Read in the code, or seen in a run of an earlier state of the project, and kept
without a run:

* After a restart only pending batches come back (`assistant_task.rs:577`), and an
  application takes a dependency it does not find for missing
  (`commands/assistant.rs:5044`): a batch whose predecessor was applied before the
  restart can never be applied. `state/assistant.rs:100` speaks of "Pending action
  batches that must be applied before this batch." A run of AssistantBatches with
  two batches and one restart showed it.
* The events handler prefers `after` in the query to `Last-Event-ID`
  (`server.rs:1439`), and the query of an `EventSource` is fixed when it is opened. A
  source opened after a gap asks for 0 at every reconnect: after a lag, events that
  have left the history are skipped and no gap is declared. `server.rs:1516` says
  "Closing makes EventSource reconnect with Last-Event-ID so the bounded replay
  window can be applied deterministically." A run of EventBus showed it;
  `FirstSourceResumes` is about the sources without such a cursor.
* `docs/auto-tag-evidence.md:15` says "Edition discovery checks at most eight uncached
  release details per pass"; the windows hold 40 (`auto_tag_editions.rs:183`,
  `auto_tag.rs:2549`).

* Cancelling a batch withdraws every path it was given, an album it had finished
  and that was accepted again since included (`server.rs:768`; the comment at
  `server.rs:385` says accepted albums are left pending).
* `run` takes the global gate and `run_for_folder` a folder gate, both under a
  read guard: a single-file write and a batch write of the same folder overlap
  (`write_queue.rs:96`; the comment at `:18` says no two UI actions race on a file).
* When the awaiting handler is dropped, its guards and its activity go while the
  blocking write goes on (`write_queue.rs:157`).
* An edit made between two writes of a run, the second of which fails, is taken for
  the run's own work and discarded by its revert (`auto_tag_review.rs:442`). So is the work of
  another run, when that run was reverted and its file written again in between.
  `mixed` remembers such files; the journal's properties except them.
* Hydration adds a batch that is already listed a second time, although
  `state/assistant.rs:141` calls it idempotent: a settled batch stays on the list of
  pending ones, and applying that entry overwrites the row's verification evidence.

## 8. Narrow limits

What the properties above may not be read to say.

* Pipeline. A second cancellation that cannot be stored replaces the halt marker
  of the first (`worker.rs:453`); after a restart the first one's albums run again.
  `CancelledStaysStopped` holds with one fault. The flag of AI tags is recorded
  before the files change and can be acknowledged in between
  (`auto_tag.rs:4824`), which leaves tags written afterwards unflagged;
  `AiTagsFlagged` is checked without acknowledgements. A resolver that fails after
  such an acknowledgement leaves an album that has failed and has no flag. `mark_running` accepts a
  deferred row whether or not it is due.
* Lifecycle. "Quit Anyway" sets a flag that is never reset (`quit_guard.rs:24` says
  it lets the exit through exactly once). When the exit it asks for is refused because
  an installation has begun meanwhile, and that installation fails, the next exit is
  not asked about; `ExitSparesWhatItSaw` counts it as confirmed. What begins between
  the last look and the end of the process is cut off: on the desktop a call or an
  installation that begins while the event loop winds up, on the server an exclusive
  call of a background job after the last poll. No property speaks of either. The
  restart after an installation asks nobody and ends writes that waited behind it or
  began after it. `finish_install` and the restart are one step; on Windows the
  installer ends the process itself. `OperationsExclude` is about calls that hold
  their guards, not about the closures a dropped call has left behind.
* Scheduler. A slot is dropped before the first firing when a survey takes longer
  than a minute; a restart within the minute fires a slot twice; watching switched
  off and on between two polls takes no fresh baseline; with the schedule off, an
  album accepted while the lock is busy waits for the next request; two concurrent
  savers share one temporary file (`background.rs:486`). The five-year end of
  `next_after`'s search, folders replaced by ones with an older time,
  `skip_unchanged` and the refusal of a malformed crontab are left out.
* Journal. A write whose readback fails is not on the stack of its file. When the
  first write of a file failed and left it as it was, and the second could not be read
  back (`auto_tag_review.rs:441-463`), the entry says that nothing was changed: the
  revert skips the file and calls the run reverted. This takes two faults. A revert
  that stopped half-way takes the bytes it was to restore for its own work when
  another run has written the same bytes since (`auto_tag_review.rs:590-607`); when
  that other run is reverted afterwards, the file has the first run's bytes again
  and the first run counts it as restored. This takes a third run, whose bytes both
  come back to. `RevertRestoresOrigin` holds in the bounds of its run, which allow
  neither. A run
  that is cleared while its revert waits is refused as unknown. I/O errors while a revert is
  still checking, and the refusal of symbolic links, are left out; the order in
  which a revert restores its files is any.
* Assistant. A rejection that was answered can be overturned by an application
  that had passed its status check; of two overlapping applications of one batch
  the second finds its preview stale and turns an applied batch to failed, or,
  without a contract, writes twice (`SettledIsNotPending` is about requests that come
  after the row was settled); a crash or a database failure between the files
  and the row leaves the row pending, and it is offered again; a crash between two moves leaves
  files half moved; a failed unlink leaves a file under both names.
* Artist catalog. A release that the ranking drops, for a title that does not match
  or a track count below the album's, is never examined, and an answer without an
  error says nothing of it; the scores that order the others are left out. Two walks of one artist that overlap, one in each process, clear
  each other's pages, and can do so for ever; a crash or a failed write between a
  page and its checkpoint throws the pages before it away, as a failed read does,
  which reads as a missing row. The provider's total is taken as known (the last
  page says there is no next one), and a cached page that no longer parses is left
  out.
* Provider requests. An interface that never stops asking can starve a lookup of
  Discogs places, hence the bounded requests; a lookup whose request was deferred
  sends its next search at once, and other requests do not wait for a Retry-After
  told to one of them; a MusicBrainz caller that need not wait does not look at its
  cancellation. The limiters belong to one process and start afresh with it: two
  processes together send at twice the pace.
* Event stream. After a gap the page closes its source and opens another only
  when something subscribes again (`web-adapter.ts:126`). `SubscriberCatchesUp` says
  nothing of a page without a source.

## 9. Not modelled

Inside the modelled parts: the text of evidence, reasons and messages; the
validation of receipts (a proof key is published or not); schema migration;
`tasks.cancel_all` (desktop page reload); two HTTP clients at once (one client
interleaves with the scheduler and the job); SQLite itself (a call commits or
rolls back); a desktop process next to the web service in AutoTagService (it is
in WorkerStore); several pages and a page's listener that throws; a persistence
failure of `recover_interrupted_runs` at start; the assistant's model loop with
its repairs and deadline, its cancellation flag, which every request shares
(`commands/assistant.rs:808`), the conversation store, requests that overlap, and
edits between a preflight and its write.

| Part | Code | Why not |
|---|---|---|
| Batch writes and tag I/O | `commands/mutations.rs`, `infra/tag_io.rs` | how a write takes the queue is in WriteQueue; encoding and atomic replacement are byte-level |
| Album and track matching | `commands/track_matcher.rs`, `auto_tag_acoustid.rs`, `auto_tag_editions.rs` | scoring over strings, durations and fingerprints |
| Providers' protocols and the rest of the cache | `state/providers.rs`, `infra/http.rs`, `state/sqlite.rs` | parsing of answers and tables with one row read and written by one call; pacing, retries and the artist catalog are modelled |
| The resolver | `commands/auto_tag.rs`, `auto_tag_ai.rs` | its outcomes and durable effects are in AutoTagService, its discovery in ArtistCatalog; its evidence and decisions are data |
| Renderer state | `src/src` | one thread per page; the events it consumes are in EventBus |
| Configuration, audit, organizer, lyrics, covers, inventory | remaining `commands/*`, `state/config.rs` | single requests over the file system without a protocol of their own |
| Evaluation, benchmark and scripts | `commands/auto_tag_eval.rs`, `scripts` | offline measurement tools |

Half of the implementation's lines are tests inside the source files.

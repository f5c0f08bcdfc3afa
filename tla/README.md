# Meologue: a TLA+ verification

Meologue is a local-first journal and task list. Every Device keeps its own
SQLite store and is usable without a network; a Device that has a Server URL
reconciles with a Rust/Postgres Server through `POST /v1/sync`. The Server also
runs workers of its own (embeddings, Digests) and answers Questions about the
journal. This directory models the parts of that which keep state under
concurrency, failure or both. TLC checks the models on small instances; TLAPS
proves the main safety results for every value of the constants.

Contents: 1 the system, 2 the modules, 3 the runs, 4 fairness, 5 the proofs,
6 where code and documentation disagree, 7 assumptions and limits, 8 the plan.

Commands, from this directory:

    tlc -workers 2 -config SyncServer.cfg MCSyncServer
    tlc -workers 2 -config EntrySyncConflicts.cfg MCEntrySync
    tlc -workers 2 -config SyncRunner.cfg SyncRunner
    tlc -workers 2 -config Backups.cfg MCBackups
    tlc -workers 2 -config ServerWorkers.cfg MCServerWorkers
    tlc -workers 2 -config Todo.cfg MCTodo
    tlc -workers 2 -config Sessions.cfg MCReflection
    tlc -workers 2 -config HistoryPasses.cfg MCHistoryPasses
    tlapm SyncServerProofs.tla
    tlapm ServerWorkersProofs.tla
    tlapm HistoryPassesProofs.tla
    tlapm TodoProofs.tla
    tlapm BackupsProofs.tla

`PROJECT.json` lists every run, the lines of the repository each definition
stands for, the hazards, and for each property a plausible bug (the operators
marked `Defect:` in the modules) that makes it fail.

## 1. The system

On a Device, the user interface calls the **stores** (Entries, Tasks, Projects
with Sections, Labels, Comments, Events) and then `requestSync`. The **sync
runner** makes sure one `sync()` runs at a time. The **Sync engine**, `sync()`,
reads the pending rows and the Cursor of every stream, posts them, and applies
the answer to the stores. **Backup, Restore and Merge** use the same database
connection and know nothing of a `sync()` in flight. When the Composer's layout
mounts, two **Entry migrations** go over the stored Entries: the Tasks backfill
makes Tasks of old checkboxes; the soft-break pass after it reads the Entries
and, since paragraphs end at every newline, rewrites none. On the **Server**,
`run_sync` takes the streams one after another, a transaction and a read each.
Its **embedding worker** and **Digest worker** read the same `entries` table,
**settings** switch them on and off while they run, and **Reflection** answers
Questions and keeps them in **Sessions**.

| Component | State | Operations | What is hard | What makes it correct |
|---|---|---|---|---|
| Server Sync (`server/src/sync.rs`) | `entries`, its `seq` sequence, the advisory lock, one transaction per request | `sync_handler`, `insert_entries`, `fetch_entries_since` | requests interleave at every statement; the Cursor read is outside the lock; a transaction may die anywhere | no row appears behind a Cursor handed out; a push is atomic; a deleted row never changes; every request ends |
| Sync engine (`core/src/sync-engine.ts`) | locals of one run; the Cursor and the row-shape epoch in `kv` | `sync()` | every `await` admits a user write, a lost response, a closed tab, another Device's push | nothing the user wrote is lost in silence; the Cursor covers what it has passed; copies converge; the loop ends |
| Entry store (`core/src/sqlite/sqlite-entry-store.ts`) | `entries`, `kv`, the search index | capture, `edit`, `remove`, `applyPulled`, `applyAcknowledged`, `pending` | conflict guards inside single statements, compared by wall clocks of several Devices | the same as the engine's |
| Sync runner (`web/src/lib/sync-runner.ts`, `sync-transport.ts`, `sync-status.ts`, `hooks/use-sync-loop.ts`) | `syncInFlight`, `rerunRequested`, the Server URL, the last attempt | `requestSync`, the interval query, saving the Server URL | callers overlap a run, the URL changes under it, `finally` runs a microtask late | every call is followed by a run that began after it; the status tells of the Server in use |
| The other streams (Tasks, Projects, Sections, Labels, Comments, Events) | a table, a Cursor and an epoch each | as for Entries; Events are never changed | seven transactions per request; one loop decision for all; guards differ by stream | each stream is complete up to its own Cursor, and converges |
| Backup, Restore, Merge (`core/src/backup`) | the whole store; a transaction everybody's statements fall into | dump; replace all rows; merge row by row | a sync or a write between two statements, ROLLBACK, a closed tab | a Restore is the file; a Merge loses nothing; no Server row is left behind a Cursor |
| Task and Section operations (`sqlite-task-store.ts`, `sqlite-project-store.ts`, `task-store.ts`) | `tasks`, `sections` | `complete`, `setParent`, `advanceRecurring`, `deleteSection`, ... | a call is a chain of awaited statements that overlaps others, pulls and a closed tab | no Task is its own ancestor; cascades reach and spare what they should; an overtaken write leaves a tombstone alone; calls end |
| Recurrence (`core/src/recurrence`) | none (pure) | first and next occurrence | clamped month ends, bounds, dates off their rule | the nearest day the rule names |
| Embedding worker (`server/src/embedding.rs`) | embedding columns, hint channel, attempts | scan, hint, load, store | edits while the model computes; lost hints; exhausted rows fill the scan | a stored vector is of the current body; every Entry gets one, or is given up on |
| Digest worker (`server/src/digest.rs`, `period.rs`) | digests and revisions, attempts | scan, generate, write, regenerate | a Period fails; rows change during the chat call; readers and worker race | a Digest not reported stale is true; every Period is written or given up on |
| Server settings (`server/src/settings.rs`) | the settings row and the flags that cache it | PATCH, boot | load, merge, write and flags are four steps | the flags are what the row says |
| Sessions and Reflection (`sessions.rs`, `reflect.rs`, `harness/`) | an append-only entry tree and a leaf per Session | ask, compaction, agent loop, corrective turn, delete | asks of one Session overlap; a compaction reads the leaf without a lock; rejected corrections are kept | the tree is whole; a reload says what the reader was told; the model and the summary survive compactions |
| Web SQLite worker driver (`sqlite-worker-driver.ts`) | waiters, the worker's health | open, execute, transaction | open timeout, second tab, worker failure | every statement is answered or rejected |
| Entry migrations (`web/src/lib/backfill-tasks.ts`, `promote-tasks.ts`, `task-reference-sync.ts`, `soft-break-migration.ts`) | `entries`, `tasks`, a flag in localStorage | the backfill of a mount, Promotion on Send and edit, the refresh of References | a pass awaits every statement and writes back what it listed; mounts overlap; a throw or a closed tab stops it; a Restore changes both tables under it | no Reference without its Task; no checkbox behind the flag |
| Order keys, filter queries, quick add, Export, search index, models, health, dictation, backup endpoint, LLM client, user interface | little or none | parsing, formatting, request-response I/O | no protocol of their own | not modelled, section 7 |

## 2. The modules

| Part | Modules | Composed of |
|---|---|---|
| Server Sync | `EntryRows`, `ChangeLog`, `SyncServer` | `SyncServer` implements `ChangeLog` |
| Entry stream | `EntryRows`, `EntrySync` | Devices and a one-step Server; uses `ChangeLog` |
| Sync runner | `SyncRunner` | |
| All streams; Backups | `SyncStreams`, `Backups` | `Backups` extends `SyncStreams` with the jobs of the Data section |
| Server workers | `ServerState`, `EmbeddingWorker`, `DigestWorker`, `ServerSettings`, `ServerWorkers` | `ServerWorkers` puts the three over one `entries` table, with pushes and restarts |
| Tasks | `Calendar`, `Recurrence`, `TaskStore`, `Todo`, `Duties` | `Todo` puts overlapping calls, pulls, midnight and a closed tab over `TaskStore`; `Duties` says what a call has still to do |
| Sessions | `Sessions`, `Reflection`, `Conversations` | `Reflection` is requests over the tree of `Sessions`; `Conversations` says what its paths look like |
| Entry migrations | `HistoryPasses` | |

Each `MC...` module gives TLC its instance; each `...Proofs` module holds the
theorems about the module it is named for: `EntrySyncProofs` also those that
relate `EntrySync` to the Server's log, `TodoProofs` also those about
`Recurrence`, and `BackupsProofs` those about `SyncStreams`.

**Entry rows and the Server.** `EntryRows` is the vocabulary: a row (body,
deleted, `updated_at` in milliseconds, `seq`) and, one operator per SQL
statement, the rule that decides whether a write lands on it. `seq = 0`
(`Pending`) stands for `seq IS NULL`. `Changes` is the `on conflict ... where`
of `insert_entries`, `PullApplies` and `AckApplies` are the `setWhere` clauses of
`applyPulled` and `applyAcknowledged`. A rule is never split over two steps,
since SQLite and Postgres never split it. `ChangeLog` is the abstract
specification: a table on which a push takes effect at one instant; a changed
row re-enters the log above every row there, an unchanged or deleted row does
not move. `SyncServer` is the Server as Postgres runs it: `Receive` takes a
request with a Cursor that was handed out before; `AcquireLock` is
`pg_advisory_xact_lock`; `UpsertRow` is one turn of the loop in
`insert_entries`; `CommitTx` selects the acknowledged rows and commits, which
also frees the lock; `Fetch` is the Cursor read, on another connection and
outside the lock; `Abort` is every way out before the answer. `Atomic` says
this implements `ChangeLog`.

**The Entry stream.** `EntrySync` is `sync()` on several Devices against one
change log. Its `sync` variable holds a run's program counter and locals:

| pc | what comes next in the code | action |
|---|---|---|
| `idle` | nothing runs; `requestSync` calls `sync()` | `StartSync` |
| `epoch`, `stamp` | the two statements of `catchUpRowShapeEpoch` | `CatchUp` |
| `loop` | the no-progress guard, `pending()`, `getCursor()`, the request | `GiveUp`, `Push` |
| `sent` | the Server inserts the push | `Commit` |
| `committed` | the Server reads the page, the response comes back | `Respond` |
| `apply` | `applyAcknowledged`, a statement per row, then `applyPulled` | `ApplyAck`, `ApplyPulled` |
| `cursor` | `setCursor` and the loop decision | `EndIteration` |

`UserWrite` may happen between any two of them, on any Device: a capture, an
edit (guarded by `deleted_at is null`) or a deletion (not guarded). `Fail` cuts a
run short anywhere; if its request was on the way, `late` keeps it and
`CommitLate` may deliver it at any later time. `Upgrade` restarts the app as a
build with a newer row-shape epoch. Three variables are history, which nothing
but the bounds reads: `unsent` (the user's last write to a row, until a push
carries it or it loses its conflict), `outdated` (rows written by an older
build) and `mishaps`. The Server in `EntrySync` is one step per push. That is
what `SyncServer` is proved to implement, and `PushesAreAtomic` says that what
the Devices send is within what `ChangeLog` takes; the two modules therefore meet
at `ChangeLog`.

**The runner.** `SyncRunner` is `requestSync`. JavaScript runs a callback to its
end, so a step is the code between two awaits. The state `settling` is the
microtask between the end of the async function and its `finally` callback, in
which `syncInFlight` is still set. `SendRequest` reads the Server URL again, as
`syncTransport` does. `waiting` is history: callers for whom no run has begun
since they called.

**All streams.** `SyncStreams` is `sync()` and `run_sync` over a sequence of
streams. What a run still has to execute is a list of SQL statements, records
of one of six kinds: the guarded upserts `ack` and `pull`, the unguarded `write`
(Events, Restore, Merge), `delete`, and the two `kv` writes `cursor` and
`epoch`. `Statement` executes the first of them, so anything else on the Device
falls between any two. On the Server, `Commit` and `Read` take one stream at a
time. The no-progress guard and the loop decision go over all streams together.
Events are written once (`on conflict do nothing`), applied without a guard,
and have no row-shape epoch above 0, so nothing ever makes `sync()` read them
again.

**Backups.** `Backups` adds a `job` per Device: `Dump` reads one table after
another into `file`; `Begin` is BEGIN; `Plan` reads a table whole and decides
the statements from that read; `JobStatement` executes the next one;
`CommitJob`, `Reload` (the page reloads after COMMIT), `FailJob` (ROLLBACK and no
reload) and `Crash` end it. The app has one connection, so what Sync and the
user execute between BEGIN and COMMIT belongs to that transaction and is undone
with it: `saved` is the database ROLLBACK goes back to. History: `torn` (streams
whose Cursor a running Sync may have carried over a reset or a ROLLBACK) and
`alone` (nobody else has written since BEGIN).

**Server workers.** `ServerState` is the `entries` table, the flags and `host`,
what a process is set up to do. `EmbeddingWorker`: `Scan` takes the lowest
`ScanBatch` seqs without a vector, `TakeHint` the bounded channel that
`insert_entries` fills with `try_send`; `LoadBody`, `StoreVector` and
`EmbedFails` are the two statements around the model call. A vector is the body
it is of. `overtaken` is history: rows changed during a call. `DigestWorker`:
`Tick` lists the Periods after the anchor, `ReadPeriod` reads one,
`WriteDigest` stores the first revision, within a budget of calls per tick and
of attempts per Period; a reader's regenerate reads, calls and writes a further
revision. `ServerSettings` is a PATCH in its statements: load, merge, write, set
the flags. `ServerWorkers` composes them, with `Push` (a changed row loses its
vector) and `Restart` (hints, attempts and calls are gone, tables stay).

**Tasks.** A call of the Task or Project store is, in `TaskStore`, the list of
awaited steps it still has to make: `complete` then a step per child, `setParent`
a step per ancestor and then the link, `deleteSection` a walk of descendants and
then a step per member. `Todo` runs two such calls at once, with the
single-statement setters, pulled rows, acknowledged pushes, midnight and a closed
tab. `pending` is the rows whose `seq` is null: every local write that lands puts
its row there, `Pull` and `Acknowledge` (`applyAcknowledged`) take it out. The
setters write only a live row (`UpdateIfLive`); `remove` writes any
(`RemoveRow`), so a second removal of a Task makes its tombstone pending again.
History: `raced` (a parent was written during another's walk), `owed` (Tasks a
call has to reach) and `kept` (completions it must leave alone). What is owed is
read off the table when the call begins (`Promise`); a completion of a Task that
is already deleted owes nothing, as `complete` returns early. `Duties` relates
`owed` to the steps a call has left, for the proof that it is delivered.
`Calendar` is the proleptic Gregorian calendar on day numbers; `Recurrence` is
the engine's next and first occurrence. `NextIsNearest` compares it with
`Nearest`, which says which days a rule names without stepping.

**Sessions.** `Sessions` is the entry tree, `append`, and the reads that walk
from the leaf to the root: the Turns to replay, the latest summary, the model
in force. `Reflection` takes an ask through loading, the window, an optional
compaction (summary, leaf read, append), runs of the agent loop (`LoopRun` says
which sequences of replies and tool results one can be), the two corrective
turns, and the append of the Turn. History: `passedOver` (Turns a compaction
could not have summarised), `sure` (the model in force was in sight and nobody
else wrote) and `response` (what the reader was told). `Conversations` adds the
inductive invariant: what every path an append can go onto is made of, and what
an ask under way knows of it.

**Entry migrations.** `HistoryPasses` is one Device's Entries and Tasks and what
rewrites them. Of a body it keeps the checkbox line: none, bare, or a Reference to
a Task. The rest of the body, which each round trip through the editor's document
normalises, no property reads. `pass[m]` is where the backfill of mount `m` of
`EntryStoreLayout` has got to:

| pc | what comes next in the code | action |
|---|---|---|
| `unborn` | the layout mounts and its effect reads the flag, which may fail | `Mount` |
| `list` | `store.list()` | `ListForBackfill` |
| `fill`, `edit` | per Entry, oldest first: `taskStore.upsert`, then `store.edit` | `BackfillTask`, `BackfillEdit` |
| `fill`, nothing left | `markBackfilled` | `BackfillDone` |

`found` is what the scan returned and is still to be rewritten: bodies are
written back as they were listed, over whatever has happened since. Next to the
passes run a Send or an edit (`Compose`, `PromoteDraft`, `SaveDraft`), `Remove`,
the refresh of References after a Task was renamed or completed
(`FindReferences`, `RefreshReference`), rows from elsewhere (`Pull`, `MergeRow`),
`TakeBackup` and `Restore`. A Backup carries the flag with the device settings,
and a Restore can set it but never clears it. `Throw` ends a pass at any
statement and `Close` ends everything that is not stored. A mount that is left
keeps its pass going, and the next mount has refs of its own, so nothing stops
two passes from overlapping. History: `untouched` (Entries only passes have
written) and `lost` (Tasks a Restore took).

## 3. The runs

| Run | Instance | What it shows |
|---|---|---|
| `sync_server` | 2 requests, 2 ids, batch 1, pushes received up to seq 2 | `IInv`; `NoLateArrival`: nothing commits behind a Cursor handed out; `Atomic`: implements `ChangeLog`; `EveryRequestEnds` |
| `entry_conflicts` | 2 Devices, 1 Entry, 2 bodies, 2 clock values, 1 failure, 1 upgrade | `NoSilentLoss`; `CursorCovers`; `EpochCovers`; `ConfirmedDeleteIsFinal`; `PushesAreAtomic` |
| `entry_settles` | 1 Device, 2 Entries, batch 1, 1 body, 4 clock values, 1 failure | `SyncEnds`: `sync()` returns although the user keeps adding to a backlog larger than a batch; `Converges`: the Device ends up equal to the Server with nothing pending |
| `sync_runner` | 2 callers, 2 Servers and Off, 2 requests a run, 2 saves | `IInv` with `MissedCallsRerun`; `EveryCallServed`; `StatusCatchesUp` |
| `backups` | up to 2 Devices, a stream of changing rows and Events, 2 ids, batch 1, at most 1 failure; seven scenes | `IInv`; `CursorsCover`: no Server row is left behind a Cursor; `RestoreIsTheBackup`; `MergeLosesNothing`; `StreamsConverge` for two Devices writing one row |
| `server_workers` | 4 Entries in 3 Periods and a fourth running, scan batch 1, 2 attempts, 1 regenerate, 2 PATCHes, 1 restart; one process per worker | `VectorsAreCurrent`, `FreshIsTrue`, `WorkerWritesFirst`, `FlagsFollowRow`; `EmbeddingsFill` and `DigestsCatchUp` |
| `tasks` | 5 Tasks in trees of depth up to 4, 1 Section, 2 callers; 18 rules on 5 dates | `IInv` with `NoCycle` and `OwedIsDue`; `TombstonesStay`: an overtaken write neither changes a tombstone nor has it pushed again; `CallsDeliver`; `CompletionsKept`; `CallsEnd`; `NextIsNearest` |
| `sessions` | 3 Questions, 2 models, window 1; three scenarios | `IInv` with `TreeWhole`; `OneAnswer`; `LiveEqualsReload`; `ModelAsRun`; `Remembered`; `OneCorrection` |
| `history_passes` | 2 mounts, 2 Entries, 3 Tasks to mint; 2 writes, 1 mishap, 1 Restore | `ReferencesHaveTasks`: a Reference is never stored before its Task; `CheckboxesPromoted`: behind the flag no checkbox is bare |
| `delete_resurrected`, `digest_retried`, `turn_lost` | as small as the behaviour allows | expected violations: section 6 |

Seven more configurations belong to no run and are kept to reproduce a
disagreement of section 6: `SyncRunnerOff.cfg`, `SyncRunnerRerun.cfg` (both of
`SyncRunner`), `TodoDepth.cfg`, `TodoTombstone.cfg` (both of `MCTodo`),
`BackupsRace.cfg` (of `MCBackups`), `HistoryPassesCrash.cfg` and
`HistoryPassesRestore.cfg` (both of `MCHistoryPasses`). TLC finds each of them
violated.
`EntrySyncPages.cfg` (of `MCEntrySync`) passes: two Devices, two Entries and a
batch of one, where pages fill and acknowledgements run ahead of the Cursor. It
is no run because all it checks is proved.

Why the bounds are enough.

- *Server Sync.* Two requests are all it takes for seqs to be drawn in one order
  and committed in another, and for a read to fall in between; further requests
  only queue. `MaxSeq` bounds `Receive` alone, so a push once admitted always
  finishes.
- *Entry stream.* A batch of one makes every page with a row a full page and
  every second pending row a backlog, so the boundary cases (`BatchSize`
  exactly, one more) are the normal case. Two clock values per Device give the
  three outcomes a comparison of `updated_at` can have in both directions, and
  let one Device write twice. One failure already covers a response lost after
  the commit, a run cut between any two statements, and a late push.
  `entry_settles` has four clock values because the no-progress guard takes that
  many writes to fire: an edit back to what the Server already holds moves
  nothing there, so the answer is empty, and a further edit during the request
  keeps the acknowledgement from applying. Two Devices converging is the
  business of `backups`, whose scene of Sync alone has them change one row with
  a failure.
- *Backups.* A scene says who may write, sync and start which job: a Device
  going back to a Backup taken at any earlier moment (shared rows, a fresh
  install with a failure, Events); its own or another Device's Backup merged,
  offline and online; Sync alone, twice. One row per table is enough for every
  case of `restoreTable` and `mergeTable`, which decide row by row; two are
  given where a backlog matters.
- *Server workers.* The workers share no state but the table, the flags and the
  process, so a process runs one of them with a PATCH of its switch; two PATCHes
  of every kind are run alone. Three Entries before the scan batch of one make
  starvation possible, three closed Periods let a later one succeed past an
  earlier one. One restart already empties every in-memory cap.
- *Tasks.* A scene is a small table with the calls that are interesting on it:
  three roots dragged under each other; a Section removed while its Tasks are
  moved, added to and removed, one of them by another Device before; completed
  and active Tasks under each other; each rule at each date around the ends of a
  month, a year and a leap February, once on completion and once when it is
  given. Two callers, since every race in the code is between one call's read and
  another's write.
- *Sessions.* One ask with every outcome of the loop up to two tool calls and
  both corrections; three overlapping asks that may each compact; a Session
  deleted under asks. A window of one puts every earlier Turn at its edge.

- *Entry migrations.* Two mounts are all that is needed for two scans to return
  the same Entry; two Entries make a pass stop between one and the next. Three
  Tasks let a line be minted twice and another once. A mishap, a Restore and two
  writes, at any point, cover a pass with an edit, a renamed Task or a Backup in it
  and one more write after that; Backups of the first moment are there without a
  write.

The safety runs of `EntrySync` use symmetry over Devices and bodies; the runs
with liveness do not. Deadlock is checked where something can always go on (the
interval tick can always start another sync). The runs of `ServerWorkers`,
`Todo` and `Reflection` end when every request of the scene was made and
answered, that of `HistoryPasses` when its passes have, so there it is switched
off; that nobody waits for ever is then said
by a liveness property (`EmbeddingsFill`, `DigestsCatchUp`, `CallsEnd`).

## 4. Fairness

- `SyncServer`: strong fairness of `AcquireLock`, because Postgres hands an
  advisory lock to its waiters in queue order and so passes nobody over for
  ever; weak fairness of a transaction's own next statement. Requests need not
  arrive, and nothing obliges `Abort`.
- `EntrySync`: weak fairness, per Device, of `StartSync` (the interval tick of
  `use-sync-loop.ts`) and of the next step of a run. Users need not write, and
  an abandoned request need not arrive. A failure is possible at any moment up
  to the bound and never obliged.
- `SyncRunner`: weak fairness of the interval's call and of the runner's own
  next step. This assumes a visible tab (a hidden one does not tick) and a
  browser that settles every `fetch` in the end: the code sets no timeout of
  its own, so without that assumption nothing would end a hung run.
- `Backups`: weak fairness, per Device, of the tick and a run's own steps
  together, and of a job's next step. Nobody has to write, start a job or fail.
- `ServerWorkers`: strong fairness of the embedding `Scan`, because tokio's
  `select!` takes a ready branch at random, so an interval that keeps firing is
  not passed over for ever by hints; weak fairness of each worker's own next
  step and of the Digest tick. A model call ends, well or badly; neither is
  obliged. The liveness properties ask for the worker's flag to stay on in the
  end.
- `Todo`: the next step of a call in flight, since the database answers each
  statement. It is written out as `Answered` (the step is enabled while the call
  is busy). Requests, pulls and days need not come.
- `Reflection` and `HistoryPasses` state safety only and have no fairness: a pass
  that throws is only run again when the layout next mounts.

## 5. The proofs

All are for any sets of ids, bodies, requests, Devices, callers, Servers,
Periods, readers and Questions, any batch sizes, budgets, caps and bounds, under
the modules' named assumptions. Three of these ask for finiteness: of the ids of
a Device (`SyncAssumption`, `StreamsAssumption`), since the loop counts pending
rows, and of the Tasks (`TaskStoreAssumption`), since a query lists them.

**Server (`SyncServerProofs`).** `IInv` is inductive and has five parts besides
the types. `LockHeld`: being between the lock and the commit is the same as
holding the lock, so only one transaction inserts. `SeqsDrawn`: every seq in
sight has been drawn. `WritesAhead`: an open transaction's seqs are above every
committed row and every Cursor handed out; this is where `LockHeld` is needed,
because a second writer could otherwise commit above the first.
`WritesFollowPush`: an open transaction has written exactly the rows of its push
that differ from the committed table, as far as it has got; this also makes the
types inductive. `CursorsServed`: a request's Cursor was handed out. From it
follow `NoRowArrivesLate` (only `CommitTx` changes `rows`, and `WritesAhead`
holds just before) and `ImplementsChangeLog` (a commit is one `ChangeLog` push
by `WritesFollowPush`; every other step stutters).

**Devices (`EntrySyncProofs`).** `IInv` is proved; the runs check what it is for.
`NothingLostSilently` proves `NoSilentLoss`, the
promise of ADR 0068. By itself it is not inductive. An acknowledgement
overwrites the row whenever its `updated_at` equals the pushed row's, so it must
be known that a write not yet carried by a push is later than what the answer in
hand is about (`PushIsOlder`), which holds because a Device's clock bounds the
stamps of its own pending rows (`PendingIsOwn`), because acknowledgements are
only about pushed rows (`AcksFollowPush`), and because the rows the Server holds
or sends are never pending (`ServerRowsHaveSeq`). A pull refuses a pending row
that is strictly newer; where it does not refuse, the write has lost its
conflict by the rule of ADR 0065, and is no longer counted as unsent.
`CommitLate` is covered: a late push only changes the Server.

**Devices and the log (`EntrySyncProofs`).** `LogInv` is inductive on top of
`IInv` and says how a Device stands to the Server's table. `CursorHolds`: a run
moves the Cursor only in `catchUpRowShapeEpoch` and at the end of an iteration,
so the one it pushed with is still there, and no Cursor, held or on its way, is
beyond the log. `RowsAreKnown`: whatever is not pending came from the Server.
`AnswersAreFresh`: a row that moved after it was put in an answer is beyond the
Cursor of that answer, since an insert always goes beyond what the log has
reached (`InsertMoves`). `PageIsWhole`: a page cut at the batch size has every
row up to its own last seq (`PageSkipsNothing`), so after `applyPulled` the
Device has them all up to the next Cursor. `PushIsPending`: an acknowledgement
finds its row still pending. `DeletionsAreKnown`: a tombstone that is not
pending is a tombstone on the Server and in any page on its way. `RequestsFit`:
requests carry pending rows with stamps the clock allows. From these follow
`CursorsCovered` and `EpochsCovered` (conjuncts of `LogInv`),
`ConfirmedDeletesAreFinal` (the three actions that write a row leave such a
tombstone one) and `ImplementsChangeLog` (`Commit` and `CommitLate` are one push
of `ChangeLog` each, by `InsertIsAPush`; every other step stutters). Together
with the theorem of the same name about `SyncServer`, this is why one step may
stand for the Server's transaction.

**Runner (`SyncRunnerProofs`).** `MissedCallsGetARun` proves `MissedCallsRerun`:
while a run is still being made, a caller it may have missed has set
`rerunRequested`. It stops short of the `settling` state, where it is false
(section 6).

**Server workers (`ServerWorkersProofs`).** Four results rest on one invariant.
`VectorsCurrent`: a vector is stored by id alone, so what has to be carried from
`LoadBody` to `StoreVector` is that a row which kept its seq kept its body
(`BodyAsRead`, by `RowsDrawn`: a change draws a seq never seen before); a row
that did not keep it is in `overtaken`. `FreshDigestsTrue`: while a chat call
runs, what was read is either still the Period's live rows or some row of the
Period is newer than all of it (`ReadsHold`), and the same is kept for every
revision ever written (`RevisionsHold`), not just the newest, because a
regenerate may end after one that began later. `WorkerNeverOverrules`: the
worker's insert is conditional. `FlagsFollow`: between a PATCH's write and its
flags the row runs ahead of them by exactly that PATCH (`FlagsOrPatch`), and a
PATCH nothing overlapped is the only one in flight (`AloneIsAlone`).

**Sessions (`ReflectionProofs`).** Any Questions, models, windows, shapes of loop
runs, failures and deletions. `TreeInvariance` is the first part of `IInv`
(`TreeInv`): the tree stays whole, with every parent older than its child and
present, through overlapping appends and a Session deleted and created again, so
`walk_to_root` always arrives. `CorrectedOnce`: no ask runs the loop more than
twice, because `retried` is set by either corrective turn (`TriesCounted`).

**Conversations (`ReflectionProofs`).** The other properties are about what a reload
computes from a path of any length, and need the rest of `IInv` (module
`Conversations`):

- `ConversationsWhole`: every path an append can still go onto (`Ends`: the leaf, and
  the leaf each compaction under way has read) is made of whole Turns. A Question is
  of an ask that is done and is followed by exactly its steps (`Told`), a reply or a
  result lies in the reach of a Question before it (`Belongs`), a `model_change` is
  followed by its Question, and the model in force at the Question of a `sure` ask is
  the one it ran on. The leaf alone would not be inductive: a compaction appends to
  an older one.
- `AnswersKnown`: from the first run on, the reply an ask has settled on is among its
  steps, also when a corrective reply was rejected; what the reader was told is read
  off the same steps.
- `LeafKnown`: while nobody else writes, the leaf a compaction has read is still the
  leaf, and an ask that records no `model_change` runs on the model in force.
- `SummariesCover`: each Question of the tree that a compaction under way would
  neither replay nor put in its summary is one it may pass over. `Remembered` is only
  inductive with this.

From these follow `EachTurnHasOneAnswer` (Questions and marked replies are counted by
a bijection), `ReloadsSayWhatWasTold` (the marked reply found between two Questions is
the ask's, and the results before it give the same two facts),
`ReloadsNameTheModel` (`model_before_projection` and the projection together see the
model in force on the whole path, `ForceProjected`) and `NothingIsForgotten`.

`PathTo` and `TurnsOf` are recursive functions. That they exist is proved
(`PathsExist`, `TurnsExist`), along the ids and along the positions, and with it their
equations; `PathStays` and `PathChained` then say what an append does to a path, and
the rest is about sequences: the last entry of a kind (`LastFound`), what a projection
keeps (`ProjectionOf`), what is appended to whole Turns (`WholeRecorded`,
`WholeCompacted`). For this `TurnsOf` is a recursive function over the positions and
not a `SelectSeq`, of which the provers know nothing. What a step does is first proved
of any asks and any tree (`RestLocal`, `RestCompacted`, `RestRecorded`,
`RestDeleted`), then of the actions.

**Entry migrations (`HistoryPassesProofs`).** One invariant, in two parts besides
the types, each needed because a pass writes what it read long before.
`ReferencesKnown`: a line that is stored, listed or in the Composer refers to a Task
that was upserted; only a Restore takes Tasks away, and what it takes is in `lost`.
It gives `ReferencesResolve`. `ScansComplete`: what a scan has left covers every
bare checkbox of an Entry only passes have written, and no later write brings a bare
line back there, which gives `Promoted`. The number of mounts, mishaps, writes and
Restores is arbitrary.

**Tasks (`TodoProofs`).** `Invariance` proves the `IInv` of the run, in two parts.
`TasksInvariant` is the first (`TasksInv`): the types and six conjuncts. `NoCycle`
alone is not inductive, because `setParent` links on the strength of a walk of
many awaited reads. `WalksAreSound` says what such a walk has established and what
stays true of it until the link: what it has seen is whole branches upwards from
the new parent, and the moved Task is not among them. `WalksComeFirst` keeps a
walk or a link the first step of its call, so no other step of that call comes in
between. `StepsKnow` (the rows a step names are there), `NewIsNoParent` (a Task
still to be added is nobody's parent) and `KeptIsApart` (a cascade has no step
left for a completion it must spare) are about the steps a call still has to make.
The argument is about that list: a statement replaces the first step by others
that are fit (`Harmless`), and no write of anybody else takes the fitness of the
rest away. `NestingHasNoCycle` and `WalksStaySound` hold until a parent is written
during another's walk or a pull closes a cycle (`raced`), as the code has no guard
against either. `TombstonesAreFinal` (nothing but a pull changes a deleted row, and
nothing but another `remove` has it wait for a push again)
and `CompletionsAreKept` follow from the same invariant, step by step.

**Cascades (`TodoProofs`, part "What a cascade still owes").**
`CallsReachWhatTheyOwe` proves `CallsDeliver`: a `complete`, `completeForever`,
`deleteSection` or `archiveSection` that ends has reached every Task it was for,
at any depth and with anything in between its statements. `OwedStaysDue` proves
the invariant it needs, the second part of `IInv`, `OwedIsDue` (module `Duties`):
of each Task owed, one of three holds. It is reached; it is listed, that is, a
step is about it or has found it; or it is ahead. Ahead is said without recursion:
the Task is in every set of Tasks that holds those the steps will visit and is
closed under "has a parent in the set, is owed, and is gone through". Three things
make it inductive. A step says what it owes to those below the Task it is about
(`Provides`): a `remove` of a parent needs the removal of its children in the
list, since nobody will find them afterwards; an update of `completedAt` has the
query for the children behind it. Each kind of step has a lemma on constants
(`...IsDue`, `...AreDue`), which says what becomes of the three cases when it is
replaced by what follows it, and one on the state (`...Keeps`). And another's
write takes what it touched and everything below it off what is owed
(`OthersLeaveDue`): `Below` is the least such set, so no branch that is left hangs
from one that is gone. The one step that gives a promise up is a Section found
deleted, which ends the call and which `CallsDeliver` exempts (`~At(c, "open")`).
The attempt to prove it corrected the model once: `Promise` had a completion of a
tombstone owe the live Tasks under it, which the code never looks for.

**Dates (`TodoProofs`, first part).** About the operators of `Recurrence`, for every
rule and day. `StepMovesForward`: the step of each frequency leads to a later day.
It rests on the calendar: a year has at least 365 days and a month at least 28, and
a date and its day number are each other's, all by linear arithmetic over the
divisions of `Calendar`. `OccurrenceClears`: what `nextOccurrence` returns clears
the floor and the start and is not after the end, and so the search does end. The
search is a recursive function over the days. The library's theorems about
induction and recursion have an operator for a parameter; here they are said with
sets and functions instead (`Smallest`, `Induction`, `Recursion`, from the fact that
the naturals are well-founded), so that the search can be shown to be a function of
the days: each step goes forward, to a day from which the search is known.

**The nearest day (`TodoProofs`, "The days a rule names").** `CompletionsSkipNoDay`
proves `NextIsNearest`: a completion and a new rule date the Task with the nearest
day within the bounds that the rule names, and a series ends, or a rule is refused,
only when no such day is left. What a rule names (`Named`) is said of each day by
itself, without the engine's arithmetic. `StepIsNext` is the heart of it: from a day
the rule names, or from its origin, one step of the engine leads to the next day it
names and passes over none (`IsFirst`). Four kinds of sets of days cover the ten
frequencies:

- one day of each of some months (`ByDay`, `ByWeekday`, with `Yearly` and `Every` for
  the months): a day is named iff it is the one of its own month
  (`ByDayIsTold`, `ByWeekdayIsTold`), so the next is in the next of those months
  (`EachMonthIsNext`, `EachYearIsNext`, `EachNthIsNext`);
- every n-th day or week from the origin (`Multiples`);
- days by weekday, where the next one on each weekday is less than a week away; of
  workdays, every n-th is counted from the origin, and `AddWorkdays` passes exactly
  n (`AddWorkdaysCounts`);
- several such sets at once, a list of entries or of weekdays: the least of what each
  names next (`FirstOfAll`).

`SearchIsNearest` carries this through the search, `OccurrenceIsNearest` through the
bounds, and the last lemmas show that the two steps which ask the engine, and only
those, write what it found. The exceptions are those of `Steady`, which sections 6
and 7 say of the code. The proof added one to them: a fifth weekday in a list of
entries can be missing from its month just as a single one can. No rule of the run
has one, so TLC had not objected to its absence.

**Backups (`BackupsProofs`).** `BackupsInvariant` proves the `IInv` of the run, over
any number of Devices, streams and rows. Its parts, per Device:

- `CursorsInLog`: every Cursor, kept, saved for ROLLBACK, in a file or on its way,
  is within the Server's log (`InLog`), so a row that changes later is beyond it.
- `RunSide`: the statements a run has left are those of its place in the loop, and
  what it holds of an answer is within the log.
- `Tracked`, for every stream the next run will not read from 0 anyway: the Device
  has every row up to its Cursor, or a pending one of its own. A run at the Server
  adds `AnswerIsWhole`, a run that applies adds `StatementsAreWhole`: any Cursor it
  is still to set comes after statements that bring what the Device lacks below it,
  and a row it is still to write is the Server's, or the Server's newer one is
  beyond the Cursor and will be read. These outlive every move of the log.
- `ResetsComeLast`: whatever a Restore still writes of a stream, it resets the
  Cursor afterwards, and the epoch after that. So while a Restore is under way,
  nothing is claimed of the tables it replaces (`Restoring`), and at its last reset
  nothing has to be. `EpochFollowsCursor` is the other side: a run that is about to
  record an epoch finds the Cursor reset, by itself or by a Restore.
- `saved` covers as the store did at BEGIN, which is what a ROLLBACK or a closed
  tab goes back to.
- `RestoreFollowsFile` and `MergeFollowsRules`: what a Restore or Merge nobody writes
  into has done, and what the rest of its list will do.

From it follow `CursorsCovered`, `RestoresAreTheBackup` (with its list empty, a
Restore has nothing left to do) and `MergesLoseNothing` (what `mergeTable` decides
of one row, `MergedRow`). Most of the module is about data: where the statements of
a stream lie in a concatenation of lists, and what one statement makes of one row.
The attempt to prove it showed that `Plan` chose a Merge's statements by a `CASE`
whose arms overlapped, which TLC reads in order and the logic does not; it is a
nested condition now.

Only model-checked: liveness (`EveryRequestEnds`, `SyncEnds`, `Converges`,
`EveryCallServed`, `StatusCatchesUp`, `StreamsConverge`, `EmbeddingsFill`,
`DigestsCatchUp`, `CallsEnd`), which with ENABLED is out of the prover's reach.
Every invariant and action property of a passing run is a theorem.

## 6. Where code and documentation disagree

Each of these was met while modelling. The first three are runs.

- **A deletion can be undone by a pull** (`delete_resurrected`). ADR 0068 says
  a skewed clock "cannot resurrect a deleted row". `applyPulled` lets any
  incoming live row replace a *pending* tombstone that is not newer. A user who
  deletes an Entry while a response is on its way loses the deletion if the
  page carries another Device's edit stamped by a faster clock; the tombstone
  is never pushed. Once the Server has confirmed a deletion it is final, which
  is what `ConfirmedDeleteIsFinal` checks.
- **A Period that fails once is not retried** (`digest_retried`). `digest.rs:96`
  says it is, on the next tick, up to `MAX_ATTEMPTS`. The scan goes on to later
  Periods; writing one moves `latest_digest_start`, the anchor of the next scan,
  beyond the failed one. A regenerate of a later Period moves it too.
- **A compaction can take another ask's Turn out of the Conversation**
  (`turn_lost`). `append_compaction` reads the leaf without `FOR UPDATE` and
  waits for the row later; a Turn committed in between is overtaken, although
  `sessions.rs:960` says the shared transaction prevents it.
- **A call in the last microtask of a run gets no rerun** (`SyncRunnerRerun.cfg`).
  `sync-runner.ts` says an overlapping caller schedules exactly one more run. A
  call made after `while (rerunRequested)` was false and before `finally` ran is
  only served by the next tick. `EveryCallServed` shows it is served then.
- **A request to the empty Server URL** (`SyncRunnerOff.cfg`). `runSyncOnce`
  checks the URL once, `syncTransport` reads it per request; clearing it during
  a run that pages sends the next batch to the page's own origin.
- **Nesting is not capped at four levels** (`TodoDepth.cfg`). `task-types.ts:276`
  says `setParent` enforces it; it counts the ancestors of the new parent and
  not the depth of the branch that is moved, and `upsert` checks nothing.
- **A backfill that is interrupted makes a Task twice**
  (`HistoryPassesCrash.cfg`). `backfill-tasks.ts:30` and ADR 0053 say that
  interrupting and resuming it "does no harm". A Task is upserted before the
  Entry refers to it; stopped in between, the line is still bare and the next run
  mints another Task for it. Two mounts that overlap do the same without any
  failure: `entry-store-layout.tsx:1217` guards against it with a ref, of which
  each mount has its own.
- **A Restore can bring checkboxes that stay bare** (`HistoryPassesRestore.cfg`).
  `backfill-tasks.ts:36` calls its flag "a performance optimisation, never the source
  of correctness". A Restore of a Backup taken before the backfill puts bare lines
  back, and clears the marker of the soft-break pass (`rearm-migrations.ts`) but not
  this flag, which is in localStorage and which `applyDeviceSettings` can only set.
  No later mount looks at those Entries; one that is edited is promoted then.
- **A removed Task removed again is pushed again** (`TodoTombstone.cfg`).
  `sqlite-task-store.ts:876` says "A local mutation against an unknown or
  already-tombstoned id is a no-op", "applied to every one of a Task's local
  mutations". `remove` (`:699`) has no such guard: it stamps the tombstone anew and
  sets `seq` to null. The configuration has `deleteSection` list a Task, a pull bring
  its tombstone, and the loop then remove it.
- **A Restore may leave a hole among Events** (`BackupsRace.cfg`). `restore.ts`
  resets every Cursor and epoch so that the store "reconciles against the Server
  honestly". A Sync in flight puts its Cursor back; the epoch, reset with it,
  heals that on the next run for every stream but Events, whose build epoch is 0
  and so never behind. The page reload 1.2 s later ends the race, not its effect.

Smaller ones, found reading and modelling the code, with no configuration:

- Streams of one request do not "always arrive together" (`sync-engine.ts:71`):
  they are separate transactions and reads, a page ends each on its own, and a
  failure between two leaves one behind until the next run.
- A ROLLBACK of a Restore or Merge undoes what Sync and the user wrote since
  BEGIN, while the Sync that wrote it goes on and moves its Cursor past it.
- A Merge decides from a table it read whole; what a pull or an edit puts there
  before its write is overwritten on a comparison that no longer holds.
- Two overlapping PATCHes lose an update, and may set the flags in the other
  order than the row (`settings.rs:1002`).
- A vector stored after its row changed is never recomputed: the row has one
  again, and no scan looks at it. Switching embeddings off does not stop a scan
  that is under way. Entries given up on still fill the scan batch.
- A Digest whose Period's newest row is a tombstone stays stale for ever,
  however often it is regenerated: `source_seq` is taken over live rows.
- The model in force is forgotten when a compaction hides its change and the
  Turn after it fails; the next ask runs on the default and is read back as run
  by the former (`reflect.rs:217`). Overlapping asks misattribute models.
- A compaction hides Turns that `CONVERSATION_WINDOW` had already cut from what
  it summarised, though `sessions.rs` says it covers every Turn not yet
  compacted. An ask in flight can append to a Session deleted and made again.
- `deleteSection` killed between a Task and its child, and run again, leaves the
  child live: the second walk does not descend through a removed Task.
- `complete` does not reach an active sub-task below a completed one, and a
  cascade completes a recurring sub-task for good although `completeForever` is
  documented as the one door to that.
- `listDescendants` has no visited set, so on a cycle (which pulled rows can
  still make) `deleteSection` never returns.
- Recurrence: a date off its rule's pattern skips an occurrence; "for 3 weeks"
  is measured from each new date and so never ends; a chain from the 31st slips
  to shorter days; a fifth weekday runs over into the next month.

One behaviour is by design and easy to mistake for a defect: the Server takes
the last writer by *arrival* (ADR 0028), so an abandoned push that arrives late
puts an older body back. The models allow it; `Converges` shows that all copies
agree afterwards, not that the newest body wins.

## 7. Assumptions and limits

Sync
- One Device never stamps two of its own writes alike. The acknowledgement's
  guard distinguishes a row from its edited self by `updated_at` alone, at
  millisecond resolution; two edits of one Entry within a millisecond around a
  push, or a clock set back, would defeat it. Clocks of different Devices are
  unrelated.
- An id is created by one Device (uuidv7) and never reused. `edit` and `remove`
  are atomic statements. A run's reads of pending rows and Cursors are one step:
  a write in between would only be left for the next round.
- The seqs a conflicting insert burns are not modelled; no row ever carries them
  and only the order of seqs is read.
- A Device talks to one Server for life. The Cursor is not keyed by Server;
  after pointing a Device at another one, only a Restore would reset it.
- At most one abandoned push per Device is in flight at a time in `EntrySync`;
  `SyncStreams` has none, and no upgrade.
- `SyncStreams` has at least one stream and one body (`StreamsAssumption`). Its
  `catchUpRowShapeEpoch` calls come one stream after another, where the code awaits
  them together: they write different keys.
- In `SyncStreams` the tables' own columns are abstracted to one body; a `kv` key
  that is missing reads as 0, as in the code. Filters never leave the Device.
- Left out: the protocol-version gate, metrics, the search index, list and page
  reads, the soft-break flag, device-local preferences.

Backups
- The web build's connection is meant. The pooled one of the desktop build has
  no transactions at all, which the code says.
- The zip, the parser and its version skew, the safety Backup's save panel, the
  device settings, the rebuilt search index and the re-armed migration are left
  out (`HistoryPasses` has the one setting it needs). A Backup is only taken of a
  store the models reach.

Server workers
- One Period type; time zones and daylight saving are `period.rs`'s fixed
  partition of days. Task facts, prompts and read routes are left out. The
  settings that only take effect at the next restart are left out.
- A model call always ends.

Tasks
- A scene starts from a forest, and the ids it adds are fresh (`ScenesAssumption`):
  ids are uuidv7 and only `setParent` and a pull nest.
- A pulled row is one that wins its conflict; which one wins is `EntrySync`'s
  subject. Setters of columns nothing else reads, order keys and the search
  index are left out. The parser from a `dateString` to a rule is not modelled:
  a rule is given.
- `NextIsNearest` does not promise what the code documents otherwise: month ends
  that clamp, a fifth weekday, of a rule or in its list, dates off their rule,
  and the first date of a rule for every n-th workday.

Entry migrations
- One checkbox line per body; of its other text, and of what a stale body undoes in
  it, nothing is said. What quick add reads out of a line, which Project or Label a
  Task is filed under, and the lines that are no tasks are left out. `migrator.ts`
  runs its DDL before anything else has the database, and is not modelled.
- The soft-break pass is left out with its marker. `halved === normalized`
  (`soft-break-migration.ts:265`) for every body the parser reads, so it writes no
  Entry; ADR 0069 says so at 240-258 and `soft-break-migration.test.ts` asserts it.
- A Restore and a Merge are one step each: `Backups` is about their statements.

Sessions
- A run of the agent loop is one step: it shares nothing with other requests.
  Prompts, retrieval, tool queries, events, `transform_context` (which only
  shortens what one run replays), the listing and the operation log are left out.

Not modelled at all
- The web SQLite worker driver: its one hazard, a statement issued after the
  worker has failed, is listed and open.
- Order keys, filter queries, quick add and Export: pure functions over strings,
  with tests of their own. Models, health, dictation, the backup endpoint and the LLM client:
  request-response I/O. The user interface: its writes reach the stores as the
  user's actions in these models.

## 8. The plan

Done: Server Sync, the Entry stream, the runner; all streams with Backup,
Restore and Merge; the Server's workers and settings; Tasks, Sections and
Recurrence; Sessions and Reflection; the Entry migrations; the proofs of
section 5.

Left, most important first:

1. A second Server in `SyncStreams`: the Cursor that is not keyed by Server.
2. The worker driver, with the stores' statements as its clients.
3. Order keys over a small alphabet: strictly between, and what two equal keys
   do to a later insert.

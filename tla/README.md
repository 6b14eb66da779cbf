# ChannelForge: a verification project

TLA+ modules, TLC runs and TLAPS proofs about the server of ChannelForge
(`src/server/src`). The server turns media libraries into television channels: it
schedules programs, transcodes them, and serves them to players. On top of the older
Tunarr code it carries ChannelForge's own persistence: schema migrations with leases and
backups, and the machinery that keeps two representations of the same data in step while
the old one is retired.

Paths are relative to `src/server/src/` unless they start with `docs/`; the docs live in
`src/docs/`. `COMPAT` is `compatibility/tunarr/`, `DB` is `infrastructure/database/`.

## 1. Inventory

Modelled:

| part | state it keeps | operations | talks to | what is hard | what makes it correct |
|---|---|---|---|---|---|
| Reconciliation queue and runner (`DB/repositories/SqliteCompatibilityReconciliationRepository.ts`, `COMPAT/reconciliation/`) | job rows, finding rows; a claim in memory across one await | enqueue, claimNext, checkpoint, retry, complete, fail, cancel, recoverInterrupted, upsertFinding, runNext | worker port (awaited), write coordinator (enqueue) | cancel and other runners during the await, crashes between the statements, retry budgets | one active job per scope, one runner per running job, every item counted once, history frozen, every job ends that its runner does not strand |
| Write coordinator (`COMPAT/write/CompatibilityWriteCoordinator.ts`) and its status record | one version-guarded row per scope | execute: PENDING, commit, projection, CURRENT / DEGRADED / FAILED, enqueue, link | caller's callbacks (awaited), queue | overlapping executions, one failing call of several, crash after the commit | no divergence unanswered, divergence durable, CURRENT is true |
| Migration lease and preflight session (`DB/preflight/`) | one row with owner and expiry; a lease object per session | acquire, renew, release; prepare around the backup | backup service, other processes | expiry while the owner still works, late release, owner dies | at most one live owner; nobody but the owner ends a lease; nobody blocked for ever |
| Schema migration runner (`DB/migrations/ChannelForgeMigrationRunner.ts`) | ledger rows, the schema | migrate: read, insert, mark, body, APPLIED, FAILED | migrations, the lease (not wired yet) | stops between statements, two processes, builds of different age | ordered, immutable, APPLIED is true, leftovers retried |
| Instance identity (`COMPAT/adapters/`, `COMPAT/identity/`, `modules/migration/application/`) | instance row, mapping, tombstone and idempotency rows; what a read has seen so far | canonical-first read (resolver, lazy mapping), bootstrap, map, verify, retire | other processes on the database | rows change between the statements of a read, a transaction of several writes fails | a canonical answer is true, the map is one-to-one and only grows, a failure leaves no record that refuses the retry |
| Worker pool (`services/TunarrWorkerPool.ts`) | slots, start promises, outstanding requests per index, reply listeners | start, queueTask, started / reply / error / exit events, shutdown | worker threads, search and fill callers | a worker that fails before, while or after it starts, double replacement, late events | no request hangs, an index comes back |
| Scan coordinator (`services/scanner/`, `services/EntityMutex.ts`) | entity locks, queue of one, abort controllers, run states of the scanners | add, addLocal, cancelAll, the queued job | scanners, the database, tasks and API as callers | failures and cancellations between what three callbacks give back | locks and controllers are those of the scans that wait or run, every scan ends |
| TV guide (`services/TvGuideService.ts`) | lineups loaded for a build (shared fields), cached guide, a lock per channel | buildAllChannels, refreshGuide | lineup files, the scheduled task, commands and API as callers | calls overlap at every await and share fields that the first to end clears | a call that overlaps no other and returns without an error of a build leaves a fresh guide, every call ends |
| On-demand channels (`services/OnDemandChannelService.ts`, `tasks/OnDemandChannelStateTask.ts`) | state, cursor and times in the lineup, its file | pauseChannel, resumeChannel | sessions, a task every minute, the editor of the lineup | the same stretch paused by several callers, late and under different locks, file behind memory, restarts | played time is counted once, a channel nobody watches is paused |
| HLS stream sessions (`stream/`) | session map, session state, idle timer, viewers, two FIFO locks, transcode loops | getOrCreateSession, endSession, start, stop, run, cleanup task, idle timer, segment requests | ffmpeg processes, players, scheduler | callbacks while a lock is held or awaited, errors at any time, retries, restarts | no session lost, errors shut down, requests answered, abandoned sessions removed |

Not modelled (each is an entry of `PROJECT.json` with its reason, and its hazards are
listed there at their lines):

| part | why not, or what is planned |
|---|---|
| Concat, hls_slower and mpegts sessions | they use the session map and the locks of `StreamSession` under keys of their own; a concat session is besides a viewer of the channel. With a second kind of session `StreamSession` leaves TLC's reach (1.09M states for two requests of one kind) |
| HLS playlist mutator | a function of a playlist and of the previous poll; what is hard in it is the parsing of real playlists, not an order of events |
| Lineup files | the items are changed without an await between reading and changing the object in memory; `TvGuide` sees a saved lineup as a new version, `OnDemandChannel` the file behind the object |
| Scheduler and scheduled tasks | node-schedule's timers and a flag nobody but the tasks page reads; `CleanupSessionsTask` is an action of `StreamSession` |
| Backup preflight and integrity checks | files and SQLite pages; `MigrationLease` sees a step that succeeds or fails |
| Shadow reads, read adapters; legacy registries, freeze guard, metrics | pure comparisons, constant tables and counters |
| Scheduling algorithms | deterministic functions of programs and random choices, with many unit tests; no state shared with anything |
| ffmpeg command lines, search, media source clients, artwork, HTTP routes, settings, web client, packaging | I/O and wording; the events of an ffmpeg process are external actions of `StreamSession` |

How the modelled parts meet: a write whose projection fails *enqueues* a job; the runner
*claims* it and awaits a worker, which compares and repairs. `CompatibilityRecovery`
composes the two. The lease is meant to serialize calls of the migration runner; the
repository has not wired preflight, lease and runner into the start of the server, so the
runner is checked both with calls that interleave freely and with one call at a time.
The instance identity lives in the same database and relies on its transactions and unique
indexes. The sessions, the worker pool, the scans and the guide share no state with these or
with each other; a saved lineup is what the guide and the sessions read. The first session of an
on-demand channel resumes it, its last viewer's leaving pauses it, and a task of every minute pauses
what was left playing without viewers: `OnDemandChannel` has the sessions as events only, their inner life is `StreamSession`'s.

## 2. Modules

| module | what it is |
|---|---|
| `Reconciliation` | queue and runner; one action per repository call or per stretch of `runNext` between awaits |
| `MCReconciliation` | its TLC instance |
| `ReconciliationLedger` | what the queue promises: open, advance, close once |
| `ReconciliationProofs` | its theorems |
| `CompatibilityWrite`, `MCCompatibilityWrite` | `execute()` cut at its awaits, for one scope; the TLC instance |
| `CompatibilityWriteProofs` | its theorems |
| `CompatibilityRecovery` | `CompatibilityWrite` (by INSTANCE, the queue as its `job`) with `Reconciliation` and a minimal worker |
| `RecoveryProofs` | its theorems |
| `MigrationLease` | the lease row and the sessions |
| `ExclusiveLease` | what a lease promises: free, or one holder |
| `MigrationRunner`, `MCMigrationRunner` | `migrate()` statement by statement; the TLC instance of an older build |
| `SchemaLog` | what the ledger promises: an append-only log in the order of ids |
| `MigrationRunnerProofs` | its theorems |
| `InstanceIdentity` | the canonical-first read against the processes that map, verify and retire |
| `IdentityMap` | what the identity rows promise: a one-to-one map that only grows |
| `MCPersistence` | the TLC instance of the lease, the runner and the identity |
| `PersistenceProofs` | theorems about the lease and the identity, and about the instance |
| `WorkerPool` | slots, workers, requests |
| `WorkerPoolProofs` | its theorems |
| `ScanCoordinator` | locks, queue, controllers, scanners |
| `TvGuide` | overlapping builds of the guide |
| `OnDemandChannel` | the cursor of a channel, its file, and those who pause and resume it |
| `MCServices` | the TLC instance of the pool, the scans, the guide and the on-demand channel |
| `ServicesProofs` | theorems about the scans, the guide and the on-demand channel, and about the instance |
| `StreamSession`, `MCStreamSession` | map, locks, sessions, loops, viewers of one channel; the TLC instance |
| `StreamSessionProofs` | its theorems |

Seven components keep their constants, variables and safety properties in a module of their own,
`<Component>State`. The component's module extends it with the actions, and so does the TLC
instance, which takes the actions by `INSTANCE`: the runs and the proofs speak of the very same
definitions.

The definitions named "Mutant" in a comment are faulty variants of the definition next to
them. No specification uses them; substituting one shows that a property can fail.

### Reconciliation

`job` holds the rows of `cf_compatibility_reconciliation_job`, `finding` the attempt
counts of the finding rows, `runner` what a `runNext()` remembers across its await
(identifier, checkpoint and attempts as claimed), `up` whether the process runs. SQLite
calls are synchronous, so a repository call is one action, and everything `runNext` does
after the worker's answer is one action too: `CompleteBatch`, `CheckpointBatch`,
`FailBatch`, `DropCanceled`, and `StrandJob`, in which the `retry()` or `fail()` of the catch
block throws in its turn: `runNext` rejects and nobody holds the job, which stays RUNNING
until a process start. `stranded` is a history of such jobs. Only a crash splits it, and `Crash` leaves findings behind
without the job update. `Restart` is a process start that calls `recoverInterrupted`
before it runs a job: `reconciliation-policy.md` says so
("A process restart converts interrupted `RUNNING` jobs back to `QUEUED`"), and no production
code calls it yet. The worker is external: it works through `Items`
from its checkpoint, reports findings, throws, or breaks its contract. Metrics and
queries are left out.

### CompatibilityWrite, CompatibilityRecovery

`row` is the record of the scope, `canonical` and `legacy` are the versions of the two
stores (a legacy version is the canonical version it was derived from), `writer` holds
where an execution awaits and the record it persisted last. The code does not yield
between two awaits, so each such segment is an action: `Begin` (find, PENDING, call of
the command), `Commit` / `CommitFails`, `Project` / `ProjectFails`, `PersistCurrent`,
`Link`. `Persist` is the insert or update guarded by the expected version. Commit and
projection are the caller's callbacks; a rejected projection may or may not have written.
In `CompatibilityRecovery` a job is open exactly while the queue has an active job of the
scope. The repository has no concrete worker yet; the one in the model reads the canonical
version, writes what it read, and answers, the least that a repair needs.

### MigrationLease

Sessions share one clock, so instead of dates the row and the lease objects hold the time
they have left, and `Tick` takes one unit from all of them. `Prepare` is `acquire`: it
replaces a missing or expired row, returns the caller's own unexpired lease, and throws
at another owner's (which changes nothing and is a disabled action; the caller tries
again). `BackupSucceeds` and `BackupFails` end the await in `prepare()`.

### MigrationRunner

A migration is its position in the order of ids, a build knows a prefix of them, and a
definition is its checksum. `ledger` holds the rows, `body` which definitions' bodies
have committed (a history of the schema), `proc` the statement a call is at. Each SQL
statement, and the transaction of a body, is one action; between two of them `Stop` may
happen or another process may move. `leased` is chosen once: whether the callers take the
lease, so that a call starts only while no other is under way. Nothing in the repository makes
them take it yet, so what holds only then is stated as `leased => ...`.

### InstanceIdentity

A row per legacy identifier in `mapping` (its target and whether it is verified), `retired` for
the tombstones, `record` for the idempotency record of the lazy mapping, and `read`: the statement
a read is at, the instance and legacy identifier it began with, and (a history) whether that was
retired already. The read is synchronous, but its statements are transactions of their own and
other processes share the file; the lazy mapping is one immediate transaction, so `Create` and
`Reuse` check everything again and `Fail` rolls everything back. `Map`, `Verify` and `Retire` are
the migration's services, guarded as the unique indexes guard them.

### WorkerPool

Workers are numbered in the order of their creation. `life` follows the thread (`broken` lies
between `error` and `exit`), `setup` the promise of its start, `caught` whether the chain that
created it replaces it once more when that promise is rejected. `Replace` is `setupWorker`, called
once or twice from the handlers: the last of the new workers is in the slot and the other lives on
beside it, as in the code. The timeout of a caller is not an action, for it changes nothing in
the pool.

### ScanCoordinator

`running` is the job of the one-job queue, `signal` the keys of `signalById`, `aborted` those whose
controller has fired. What three callbacks of the job give back (lock, controller, turn) is
`End`, one action, because no event comes between them. An entity in `Unscannable` has a type no
scanner is made for, or its scanner's factory throws: its lock is taken and never given back.

### TvGuide

A lineup is its version and so is the guide built from it. `context` is the pair of fields
`channelsById` and `accumulateTable`, which all calls share; `queue` holds the FIFO locks of the
channels. A continuation runs before the next event (`Turn`). In production `devAssert` only
warns, so a call that lost its context goes on to an error (`LoseContext`); a build may also meet
an error of its own (`Throw`). Both are caught, logged and counted as an update: the call goes on,
returns, and the channel keeps its old guide. `threw` remembers the channels whose build met an
error of its own, for the caller cannot tell them from the others. `LoadFails` is the call that
rejects because a lineup cannot be loaded, `Skip` the guard that passes over a channel another call
has updated in the same millisecond. The clock does not go back, and a call takes a millisecond.

### OnDemandChannel

`lineup` is the object in memory (`onDemandConfig` and `lastUpdated`), `unsaved` its snapshots on
their way to the file (lowdb writes one and keeps the latest of the others), `disk` the file.
`calls` is the FIFO lock of the channel in the SessionManager's instance of the service and
`saving` how many writes its holder awaits. The container is transient by default and nobody binds
the service, so the task has an instance, and a lock, of its own: its pause waits for nobody. A
call that has the lock reads and changes the object before the next event (`Turn`). `Create`,
`Join`, `Leave` and `Stop` are what the sessions do to it (the `stop` event that would ask for a
pause at a session's end is emitted by concat sessions only, so `Stop` asks for none); viewers are players, not the server's
own requests. `played` is a history: it grows while the object, the file or a snapshot says playing.
Left out: the resume by a raw MPEG-TS request, `pauseAllChannels` at shutdown, writes that fail.

### StreamSession

One channel and its key in `SessionManager.#sessions`. A session is named by the request
that created it, a loop by the request whose `start()` spawned it. `ops[i]` is the queue
of the session's lock and `chan` that of the channel's lock, both FIFO (`async-mutex`);
`phase[i]` is what the head of `ops[i]` awaits. `timer`, `viewers` are the
`ConnectionTracker`, `loop` and `screen` where a `run()` loop and its error screen are.

A promise continuation runs in the same step as what settles the promise: microtasks run
before any file, process or timer event. So `Create` makes the session and puts its
`start()` on the queue in one step, and `AfterStop` goes straight on to what the caller
of `stop()` does. A call of `stop()` that nobody awaits, right behind another such call
that still waits, is left out (it would find the session stopped): without this the
queues of the model grow for ever.

Left out here: sessions with other keys (concat, hls_slower, mpegts), the pausing of
on-demand channels (`OnDemandChannel`), the content of the directory, and the short hold of the session lock
by `trimPlaylist`.

## 3. Runs

| run | configuration and bounds | distinct states | what it shows |
|---|---|---|---|
| `reconciliation` | 2 scopes, 2 jobs, 2 runners, 1 finding key, 2 items, ceiling 2, 1 crash, 1 stranded job; fair | 594k | one runner per running job, exact counts, frozen history, the refinement of the ledger (one open job per scope among its promises), every job ends that its runner does not strand |
| `compat_write` | 4 executions; either up to 3 in flight with 1 failing storage call, or one at a time with 2 failing calls and 2 crashes; symmetry | 216k | divergences are answered and, with working storage, requested; links never decorate another record; without overlap CURRENT is exact |
| `compat_recovery` | 2 executions, overlapping; 2 jobs, 1 runner, 1 crash; fair | 374k | a request made while no worker runs leads to a repair, unless its job fails, is canceled or is stranded |
| `persistence` | the lease: 4 sessions, two with a common token, leases of 1 and 3 ticks, fair; the runner: 3 migrations, an old build, a new one, one with an edited last migration, and under the lease a fourth call; the identity: 2 reads, 2 legacy identifiers, 2 instances | 226k | lease exclusivity in all forms and no blocking for ever; what the runner guarantees without the lease and what with it; true identity answers; three refinements |
| `services` | the pool: 2 slots, 5 workers, 2 requests of 2 tries; the scans: 2 libraries, a local source, an entity without a scanner; the guide: 2 channels, 2 calls with each lineup saved once, and 3 that overlap with none saved; the on-demand channel: 2 viewers, 2 sessions, 3 units of time, 1 restart or changed lineup; fair | 373k | no request hangs and a dead index comes back; locks are those of scans and every scan ends; calls one at a time leave a fresh guide, but for channels whose build met an error, and every call ends; the cursor counts played time once and an unwatched channel is paused |
| `stream_session` | 2 requests, 1 endSession; symmetry | 1.09M | no orphan, errors shut down, own stops only |
| `stream_session_live` | 2 requests, or 1 request and 1 endSession; fair | 333k | requests and endSession calls are answered, abandoned sessions removed |
| `compat_write_detect`, `compat_recovery_lost`, `migration_runner_downgrade`, `stream_session_stray`, `on_demand_position` | small instances | | findings, section 5 |

`MCPersistence` and `MCServices` hold three and four components that share no variable. Their product
would multiply their states to no purpose, so a behaviour chooses a `part` at its start and moves
only that one; the state count is the sum. The invariants of a part hold trivially in the others,
its liveness is stated for the behaviours that move it.

Why these bounds are enough to be interesting: two jobs in two scopes and two runners let
runners race for a job, a scope be reused after its job closed, and a crash hit both; two
items make a batch partial; a ceiling of 2 has a retry and an exhaustion. Three
overlapping executions let two outdated ones meet a third's record. In the lease, times of
1 and 3 let a short lease of a second session begin and expire within a long one. Three
migrations have a first, a middle and a last; the builds differ at the last. Two reads of the
identity meet each other and, between any two of their statements, everything another process
does. In the pool, five workers for two slots are what a double replacement at one index needs
while the other goes on. Three scans let one run and two wait, and an abort find each of them. A third call
of the guide is the first to find its channel's lock free and the context cleared. Two sessions of
a channel give it two stretches to count, with time to pass before, in and after the first.
Two requests and an endSession reach a session that is replaced while calls of the old one, its timer and
its loop are still there; a second replacement adds nothing the first does not have, and the
proofs cover any number.

Bounds that are guards of a model: `MaxCrashes`, `MaxFaults`, `MaxInFlight`, `Count`,
`MaxTtl`, `FewStranded` (one job, and before the crash, so that the restart finds it), `FewCleanups` (at most one cleanup event waits in a session's queue), `FewOverlap` (a
fourth call only under the lease), `Limit` with `Room` (a worker may break only while every broken
one can still be replaced), `FewAfterShutdown` (one replacement after a shutdown, which nothing
relies on), `MaxVersion`, `FewCalls` (the third call of the guide only where no lineup is
saved) and `FewErrors` (calls of the guide that overlap meet an error only if they are two and no
lineup is saved), `TwoCallers` (the liveness run of the sessions), `MaxClock`, `MaxCalls`, `MaxSessions`, `MaxChanges` and `FewFaults` (the on-demand channel
sees a changed lineup or a restart, not both). The
sets `JobId`, `Writer`, `Session`, `Proc`, `Reader`, `Request`, `Build`, `Viewer`, `Ender` bound how often something
happens in a behaviour. Deadlock is not checked: the models stop when their finitely many calls
have ended, and that what should go on does is stated by the liveness properties.

Symmetry is used in safety runs only.

## 4. Fairness

- `Reconciliation`: weak fairness of `ClaimNext`, `FinishBatch` and `Restart`. The runner has
  no loop of its own, so the run says: if somebody keeps invoking `runNext`, workers answer
  and a process that died is started, every job ends, unless its runner strands it: nothing
  promises that a process which has not died is started again. Nothing is assumed of callers, of
  cancellations or crashes.
- `CompatibilityRecovery`: the same for the runner and the worker. Executions need not progress.
- `MigrationLease`: time passes, a waiting caller tries again, a backup ends, a session that
  is open is released or dies. Weak fairness of `Prepare` is enough because an expired row
  stays expired until somebody takes it.
- `WorkerPool`: a worker that starts gets there, one that lives replies, and `exit` follows an
  `error`. Nothing is assumed of failures or callers. With it `IndexComesBack`, except for a first
  worker that ends with code 0 before it has started, whose promise stays pending for ever.
- `ScanCoordinator`: a scan returns or throws, and so does that of its collections.
- `TvGuide`: what a call awaits comes: the lineups, its turn at a channel, the guide, the file.
- `OnDemandChannel`: files are written, a lock that is free is taken, the task runs (every minute,
  by the scheduler). Nothing is assumed of viewers and sessions.
- `StreamSession`: weak fairness of the channel's lock (`ChannelStep`), of each session's lock
  (`LockStep`: the file operations and the bounded retries that are awaited under it end), of
  the idle timers and of the cleanup task. Viewers, endSession and transcodes, broken or
  not, owe nothing.

## 5. Findings

Five runs check what the repository says of itself and fail; each counterexample is short
and was followed through the code.

- `compat_write_detect`. A crash after the commit leaves PENDING with the old, equal
  versions; the next execution replaces the record, its command fails, and FAILED with equal
  versions is all that is left. `docs/implementation/04-legacy-compatibility.md` requires that
  partial failure be detectable.
- `compat_recovery_lost`. A divergence that is enqueued while the worker of the scope's
  RUNNING job has already read the canonical version is folded into that job and never
  repaired. `reconciliation-policy.md` says detected divergence is compared and repaired.
- `migration_runner_downgrade`. A stop between the commit of a body and its APPLIED row, or a
  failure of that UPDATE, leaves a newer schema an older build accepts, because the check
  looks at APPLIED rows only. `decision-register.md` says it must not.
- `stream_session_stray`. `stop()` kills the current transcode only; a loop that is setting up
  its next one, or an error screen, transcodes after the session has stopped. `Session.ts`
  says that ending a session stops the stream for all participants.
- `on_demand_position`. A paused channel is watched after the task paused it while its session was
  starting, or after a viewer joined within the cleanup delay of a session whose last viewer had
  left: only the creation of a session resumes it. `getLiveTimestamp` then adds the stretch since
  the last resume to a cursor that contains it, and the next program starts ahead. The user's
  documentation says that watch states only progress while the channel is viewed.

Met on the way, without a run: the first of several overlapping calls of the guide to end clears
the context of all; a call that then gets a channel's lock keeps the old guide (`LoseContext` of
`TvGuide`), which is why `ReturnedIsFresh` is stated for calls that do not overlap. An error inside a
build of the guide is caught, logged and counted as an update, so the retry around it has nothing to
retry and the call returns as if the guide were new (`Throw`): `ReturnedIsFresh` leaves out the
channels it happened to. No HLS session emits the `stop` event by which `SessionManager` would pause
an on-demand channel; the task does it. When the `retry()` or `fail()` in the catch block of `runNext`
throws, the job stays RUNNING and its scope takes no other until a process start (`StrandJob`). And
a cursor
can fall below zero, when a pause as of an earlier time is served behind a resume; the schema reads
it as zero after a restart (`Rem`, `Crash` of `OnDemandChannel`).

## 6. Proofs

TLAPS checks every theorem for every value of the constants; the only assumptions are the
named ones of the modules (`ConstantsAssumption`, `BoundsAssumption`, `RecoveryAssumption`,
`LeaseAssumption`, `RunnerAssumption`, `PoolAssumption`, `DemandAssumption`, `GuideAssumption`,
`StreamAssumption`), which TLC evaluates in the runs. Each argument is an inductive invariant,
checked with TLC before it was proved, with one lemma per action. Every invariant, and every
action property and refinement that a passing run checks, is also a theorem; where a run puts
several components side by side, of the run's own specification.

**ReconciliationProofs.** `IInv` adds to the properties that a runner holds its claim alone and
that the checkpoint it remembers is still the durable one (`HoldsItsClaim`), and that a RUNNING
job is in somebody's hands while the process lives, and one that was stranded in nobody's
(`RunningIsHeld`). Without the first a late
answer could complete a job that was claimed again since, or move its position back. Proved:
`TypeCorrect`, `SingleActiveJob`, `ExclusiveRunning`, `ExactlyOnceCounting`, `BoundedClaims`,
`TerminalJobsAreFrozen`, and `QueueImplementsLedger`: initial states and steps refine
`ReconciliationLedger`. `SingleActiveJob` and `BoundedClaims` are proved only; in the runs the
ledger and the end of every job stand for them.

**CompatibilityWriteProofs.** Each execution decides from the row as it was when it last read it,
so none of the properties is inductive. `IInv` says that executions in flight persisted different
versions, none newer than the row (`VersionInv`); with it, an execution whose record was replaced
after its commit, or which is linking its job, is *doomed* to answer DEGRADED. `DoomInv` says that
while the process lives, stores that differ have a doomed execution, or the one that owns the
current record is about to project the last commit. `AnswerInv` ties each DEGRADED answer to
an open job or to a failed call. Proved: `TypeCorrect`, `NoDivergenceIsSilent`,
`DivergencesAreRequested` and `LinksAreDegraded`, for any number of overlapping executions,
failing calls and crashes.

That a CURRENT record is true holds of executions that do not overlap (`serial`), and there it
needs both stores at once: `AloneInv` says that the execution in flight is the only one, that the
row is not CURRENT meanwhile, and that its commit is the last and, once projected, what the legacy
store shows (`LastCommit`). A crash loses the execution and leaves the row as it was, or DEGRADED.
Proved of the behaviours of the run: `MixedIsSpec`, so that all of the above holds of them, and
`CurrentIsTheTruth`.

**RecoveryProofs.** The composition is related to both of its parts. Its queue takes only steps of
`Reconciliation` (`RecoveryIsQueue`), so whatever is proved of that one holds (`QueueCarriesOver`).
Its coordinator is not `CompatibilityWrite`: the job it sees is closed by the queue, and the worker
writes the legacy store behind its back. But the steps of its executions are steps of that module if
one takes for its `job` not the open job but whether one was ever made (`Asked`), because an
execution only ever asks for a job (`SameWriterStep`, `PortMoves`). `RecoveryInv` takes the
invariant of `CompatibilityWriteProofs` under this reading, and adds `AskedIsDoomed`: while the
process lives, a job was made only if some execution is doomed to answer DEGRADED, and once doomed
one stays so (`DoomedForGood`). That is what a repair needs: it may write an old version over a
newer projection, but a runner has a job in hand, so somebody has been or will be told. Proved, for any
number of executions, jobs, runners, faults and crashes: `RepairsAreNotSilent` and
`DivergencesWereRequested`. They do not say that the divergence is repaired:
`compat_recovery_lost` shows that it need not be.

**MigrationRunnerProofs.** With calls that interleave freely, `IInv` says that a row under work
has the caller's checksum, that a body has a row and only its definition, that what a call has
passed is in the schema, and that the schema is a prefix. It gives `OneDefinition` and
`LedgerIsTruthful`: neither needs the lease. Under the lease (`leased`), `SInv` adds that one call is
active, that it has passed applied migrations only and that the one it is at is not applied.
It gives `ReturnedCallsAreApplied`, `LeftoversDoNotBlock` and `LedgerImplementsLog`; all three
fail for overlapping calls (an APPLIED row can be reset to RUNNING), which is why the lease is
needed.

**PersistenceProofs.** *The lease.* `LeaseInv` adds that a row without an owner has no time left.
Proved: `LeaseKeepsTypes`, `LeasesAreHonoured` (which needs, as the code does, a token no other
session uses), `LeasesAreEndedByOwners`, and `RowImplementsLease`, tokens shared or not.
*The identity.* A read decides from rows it saw statements ago. `IdentityInv` says that the
instance it saw is the instance (it is set once), that a read past the first lookup did not begin
with a retired identifier, that no two identifiers have one target, and that a canonical answer
has its mapping; the last survives other processes because no step takes a mapping away
(`RowsGrow`). Proved: `IdentityKeepsTypes`, `AnswersAreTrue`, `RecordsAreBacked` and
`RowsImplementMap`. *The run.* A behaviour of `MCPersistence` is one of each part
(`EveryPartIsItself`), so all of this and of `MigrationRunnerProofs` holds of it: `TypesAreKept`,
`LeaseCarriesOver`, `LedgerCarriesOver`, `LogCarriesOver`, `IdentityCarriesOver`.

**WorkerPoolProofs.** That no request hangs rests on who may be in a slot. Until a shutdown, a slot
whose first worker has settled its start holds a worker that has not exited, since every exit
behind a settled start puts a fresh one there (`SlotLives`), and a slot whose first worker has not
settled is not ready (`PendingIsFirst`); so nothing is posted to a worker whose exit is over.
Proved: `TypeCorrect` and `NoRequestHangs`, for any number of slots, workers and double
replacements.

**ServicesProofs.** *The scans.* `LocksAreScans` is inductive with the types. The work is in the
queue: what appending a scan and taking the first do to the set of entities in it (`AppendScan`,
`TailScan`). Proved: `LocksAreGivenBack`.
*The on-demand channel.* A pause adds the stretch since the channel was resumed to the cursor, and
a restart brings back a snapshot of the file. So `DemandInv` says of every snapshot that is or may
become the lineup (in memory, on its way to the file, in the file) that its cursor is within what was
played, and if it plays, together with the stretch since it was resumed (`Accounted`); and that no
queued call is dated later than now. The arithmetic is in three lemmas on a pause, a resume and any change
(`PausedAccounted`, `ResumedAccounted`, `ChangeAccounted`). Proved: `PlayedTimeIsCountedOnce`.
*The guide.* While calls run one at a time, `AloneInv` says that the context of a call is its own and
no older than the call, that the locks are those of the channels it has still to build and that what
it has built without an error is recent; a later call wants no less than an earlier one, so it does not undo
what that one was promised. Proved: `GuideKeepsTypes` (calls overlap as they like) and
`SerialCallsAreFresh`: a call that has returned, and overlapped no other, leaves each of its
channels with a guide no older than the call, except those whose build met an error.
*The run.* A step of `MCServices` is a step of one part and a stutter of the others
(`StepOfParts`), and its pool is the one of `WorkerPoolProofs` (`SameNext`). Proved of the run:
`TypesAreKept`, `RequestsAreTracked`, `ScansGiveBack`, `ReturnedGuideIsFresh` and
`CursorCountsOnce`.

**StreamSessionProofs.** `NoOrphan` is not inductive: the stop() it relies on must still be
behind whatever else is queued. `IInv` says that
the channel lock has one holder (`ChanInv`), that a `start()` or an endSession's `stop()` in any
session's queue is that holder's and the only one (`CallerInv`, `UniqueInv`), that while an
endSession waits no other session is in the map, that what waits for a session off the map ends
with a `stop()` (`EndsInv`), and that a session nobody created is untouched (`FreshInv`).
`CallStopGrows` says what a `stop()` does to a queue, and the step lemmas (`GrowStep`,
`StartFinishes`, `PlainStopFinishes`, `EndFinishes`, ...) are stated by effect and shared by
the actions that have it. Proved: `TypeCorrect`, `NoSessionIsOrphaned`, `ErrorsAreShutDown` and
`SessionsLeaveByOwnStop`, for any number of requests and endSession calls.

Only model-checked: all liveness (`EveryJobEnds`, `RequestIsAnswered`, `WaiterGetsLease`,
`IndexComesBack`, `AddedScansEnd`, `EveryBuildEnds`, `UnwatchedIsPaused`, `EveryRequestIsAnswered`,
`AbandonedIsRemoved`), which, like `ENABLED`, is out of the prover's reach. No module declares a recursive operator.

Running it, in this directory:

    tlc -workers 2 -config MCReconciliation.cfg MCReconciliation
    tlapm ReconciliationProofs.tla

`PROJECT.json` names the module and configuration of every run.

## 7. What is left

1. Abstract specifications of the coordinator, the pool and the cursor, in the manner of
   `ReconciliationLedger`, and the refinements.
2. The other sessions (concat, hls_slower, mpegts) as instances of `StreamSession` with other keys,
   on bounds small enough to compose, with the shared directory of a session and its replacement
   and the raw stream that resumes an on-demand channel.
3. `PlaylistMutator` as a function of the last poll, checked over bounded playlists against the
   rules for media and discontinuity sequences.
4. The guide: what makes overlapping calls safe (a context per call), as a second specification.

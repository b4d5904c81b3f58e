# pgro in TLA+

A verification development of the PostgreSQL Restore Operator (`src/`): TLA+
models of the parts of the operator whose correctness depends on the order in
which things happen, TLC runs that check them on small instances, and TLAPS
proofs that hold for every instance.

## The system

pgro is a Kubernetes operator. A `PostgresPhysicalReplica` asks for a database
that is restored again and again from a kopia repository; each restore is a
`PostgresPhysicalRestore` with its own volumes, Deployment and Jobs. The
operator is one process; everything it must remember is in the API server,
except a queue and the results Jobs post back to it, which are in memory.

| Part | State | Operations | Talks to |
|---|---|---|---|
| Replica reconciler (`controllers/replica.rs`) | replica status: `currentRestore`, `verifiedSnapshotId`, `canopyDesiredSnapshotId`, `lastRestoreCompletedAt`, `redactionPhase`, `schemaMigrationPhase`, `nextScheduledRestore`, `consecutiveRestoreFailures`; the Service selector | gates of a switchover, switchover, ephemeral teardown, sweep of stale restores, cleanup of failed ones, snapshot listing, restore creation, triggers | restores (list, patch, delete), Jobs, the queue, canopy |
| Restore reconciler (`controllers/restore.rs`, `restore/migration.rs`) | restore status: phase, run id, version, `migrationBaseline`, `migrationResult` | `Pending`, `Restoring`, `Ready`, `Migrating`, `Switching`, `fail_restore`, `cleanup_previous_jobs` | kopia, version-detect and migration Jobs, Deployments, the replica's status, the queue |
| Readiness wait (`restore/reindex_watch.rs`, end of `reconcile_ready`) | a watch per restore in memory | ask, record, give up, forget | the restore's database, the clock |
| A restore's pod (scripts of `restore/builders.rs`) | the volume: data directory, WAL, flag files; the row `_pgro.restore_info` | setup-auth, background reindex, readiness probe | the server, kubelet |
| Redaction (`replica/redaction.rs`, `redaction/apply.rs`) | `redactionPhase`; in the database the masks, the read-only lock, the role's privileges | mark active, mask, lock, demote, mark done or failed | the new restore's database |
| Schema migration (`replica.rs`, `replica/schema_migration.rs`) | the migration Job, `schemaMigrationPhase` | start, poll, time out, clean up | both databases |
| Scheduling (`replica/scheduling.rs`) | `nextScheduledRestore`, failure count | cron, jitter, backoff | the clock |
| Restore queue (`context.rs`, tick in `bin/operator.rs`) | `active`, `pending` in memory | `can_start`, `enqueue`, `mark_active`, `remove`, `try_promote`, `retain_active` | both reconcilers |
| Job callbacks (`bin/operator.rs`, `context.rs`) | results in memory, taken once | post, take | Jobs |
| Reporting schema build (`replica/schema_build.rs`) | build Job, delivered schema, receipt and attempts in the status | start, deliver, retry, settle | the builder image, canopy |
| Canopy worklist syncer (`controllers/canopy.rs`, `canopy/intent.rs`) | a namespace, a Secret and a replica per worklist entry | fetch, list, provision, offer a snapshot, tear down | canopy's API, the API server |
| Verification reports (`canopy/verification.rs`) | none: the run id and the migration result are the restore's | report a success or a failure | canopy's API |
| Credential broker and proxy (`bin/operator.rs`, `bin/canopy_proxy.rs`) | credentials with an expiry | fetch, refresh | canopy, S3 |
| Builders, kopia parsing, quantities, placement, notifications, metrics, CRD installation | none | pure construction or output | |

What is hard about it:

- a reconcile pass works for its whole length on the status and the list it
  read at its start, while the other controller, the Jobs, the clock and people
  move on;
- what belongs together is written by several API calls, any of which may fail,
  and the operator may be restarted between two of them;
- per-replica status fields (redaction, migration) describe one restore and are
  read for the next;
- results in memory are lost by a restart, the Jobs they came from are not;
- the queue and the restores' statuses are two views of the same thing, updated
  at different times by four parties;
- the scripts of a pod are killed between any two commands, and what they left
  on the volume is all the next one has to go by;
- a session on the restored database is lost with its server, half way through
  statements that undo its own privileges;
- a Job can end in ways that are not one of those the reconciler looks for, and
  a pass can be handed an object that has since moved on;
- the worklist changes while a tick works through the copy it fetched, and a
  name is all that ties an entry to its replica.

The correctness properties of each part are those of the tables below;
`PROJECT.json` lists the hazards, each at its line, with the properties that
would catch it going wrong.

## The modules

| Module | Models |
|---|---|
| `Cluster` | the state: restores, the replica's status, Jobs, what a pass has read; types, `Init` |
| `RestoreController` | `controllers::restore`, one action per status write |
| `ReplicaController` | `controllers::replica::reconcile` and what it calls, one action per API write |
| `BlueGreen` | both controllers over one replica, with Jobs, clock, repository, faults and deletions by hand; the properties |
| `ServedDatabase` | the abstract promise to the clients of the Service |
| `RestoreQueue` | the queue over several replicas, with its users, the tick and restarts |
| `SchemaBuild` | the reporting schema build: the gate pass by pass, its Job, the callback with its receipt, the store in memory |
| `Worklist` | the canopy worklist syncer, with canopy, namespaces that are slow to go, and edits by hand |
| `PostgresPod` | the pod of a restore: setup-auth, the server, the background reindex, the probe, the volume under them |
| `DatabaseSessions` | that pod with the sessions of the switchover on it: redaction, schemas, grants, the outgoing mark; the properties of both |
| `RestoreRun` | the restore reconciler call by call, its three Jobs, the failure count and the reports to canopy, with a cache that may lag |
| `ReadinessWait` | the wait past the readiness budget, with the watch of the reindex and the clock |
| `BlueGreenProofs`, `RestoreQueueProofs`, `SchemaBuildProofs`, `WorklistProofs`, `DatabaseSessionsProofs`, `RestoreRunProofs`, `ReadinessWaitProofs` | theorems about the module each is named after |
| `BlueGreenPromiseProofs` | further theorems about `BlueGreen`: the migration, the reports, the refinement of `ServedDatabase` |

`Cluster`, `RestoreController` and `ReplicaController` are composed by
`BlueGreen`, and `DatabaseSessions` puts the operator's sessions on top of
`PostgresPod`; the others have what they interact with as actions of their own.
Where two of them meet, one side is abstract: `BlueGreen` has the schema build
and the run of a redaction as gates that hold or pass, the syncer as a snapshot
that is offered, and a restore as a phase; `SchemaBuild` and `RestoreRun` have
the switchover as one step; `RestoreRun` has the readiness budget as a flag and
the pod as ready or not, which `ReadinessWait` and `PostgresPod` take apart.

### `BlueGreen` and its parts

**State.** Restore `i` is the i-th restore created. Restores are named after
their creation time, so the API lists them in this order and the code's
`find(..)` is `First`, the smallest number. `phase[i]` is `"absent"` before
creation and after deletion and `"none"` while the status has no phase.
A snapshot is a number; larger is newer. Times are kept as the relation the
code tests: `status.completed` says whether the grace period since
`lastRestoreCompletedAt` is over, `status.due` whether `nextScheduledRestore`
is reached, `status.failing` whether the failure count is positive.
`redacted`, `carried` and `reported` are ghosts: they record what was done to a
restore and no action reads them.

**A reconcile pass.** `Reconcile` reads the status and the list of restores
into `loc`; `pc` then walks through the pass, and every later decision is taken
on `loc` where the code uses what it listed and on the current state where the
code asks again (the guardrail of `create_restore_for_snapshot`, the Jobs).
Each step is at most one API write. `CallFails` ends a pass at any step (the
`?` of the code, `error_policy`), `OperatorRestarts` also empties the memory;
deletes whose error the code only logs have a disjunct of their own. kube's
controller runs one reconcile per object at a time, so there is one `pc`.

**Abstractions.** The watch cache is fresh when a pass starts (`RestoreRun` has
one that lags). Deletion is immediate (no finalizers). `minimumTtl` is unset. The set-up at the start of a
pass (Service, Secrets, kopia cache volume) and updates of conditions, events
and metrics are left out: nothing later reads them. The reporting schema build
and the grants of extra users are gates that hold or pass. The failure count is
zero or not. The Jobs `cleanup_previous_jobs` takes along when a restore starts
are the replica's snapshot list and its schema migration (`ReconcilePending`);
the delete of both is one step, and a failed one leaves them.

### `SchemaBuild`

The Job and the schema held in memory are kept per replica, the receipt of a
delivery on the Job, attempts and result on the restore. A schema is the number
of the restore it was built from, so a schema registered for another restore
shows. A pass first reads the restore, the Job and the store (`AlreadySettled`
... `BuildDelivered`, one action per branch of `reconcile_schema_build`), then
does what it decided on in steps of one write. The callback checks the token,
stores the schema and records the receipt in three steps. A patch that fails
may or may not have been applied. `JobCleanedUp` is the start of another
restore, which deletes the build Job with the rest (`cleanup_previous_jobs`); it
counts as a fault. `removed`, `accepted`, `reported` and
`registered` serve the properties; of these only `removed` is read by actions
(a deleted restore cannot be patched).

Abstractions: the canopy client is configured; a build container waits for the
answer to its POST before it exits with zero; the pod of the last Job has ended
before the next restore gets to its switchover; a Job that expires by its ttl
before any pass has read it is counted as a fault.

### `RestoreQueue`

`active` and `pending` are the queue, `due`, `listing` and `pass` belong to each
replica, `stage` and `owed` to each restore. A pass decides on the list it began
with: `Lists` finds the replica due and nothing in progress (a restore without a
phase is not, so `"created"` does not count), and `StartsListing` or `Waits`
come later, whatever its restores have done since. A status write and the queue
update that goes with it are two steps, `owed` being the second; so are the
tick's list and its `retain_active`. `StartsRestoring` takes a snapshot-list Job
along, as `cleanup_previous_jobs` does. `Second`, `Ephemeral` and `Deletable` say
which replicas may have two restores at once, tear down what they verified, and
lose restores to a deletion by hand.

Abstractions: schedule, backoff and canopy's trigger are `BecomesDue`; a
snapshot-list Job that fails is one that finds nothing to restore; the
switchover and the teardown are a step each (`BlueGreen` has them write by
write).

### `Worklist`

`pc` is where `tick` is; `entries` and `listed` are what it has fetched and
listed; `step[e]` is how far `reconcile_entry` is with entry `e`. All entries
may be under way at once, which includes every value of
`RECONCILE_CONCURRENCY`. A namespace that is being deleted stays `Terminating`
until its Secret and its replica are collected: creating it again answers 409
(and the code goes on), writing to what is still in it works, creating
something new in it does not (`Writable`, `CannotGoOn`). Canopy (external)
offers an entry the newest snapshot or none, and has one entry per declaration
and machine, and one per version for `reporting-schema`. `gap` (names without
an entry at some time since the tick began) and `edited` are ghosts.

Abstractions: slug and hash are free of collisions; a renamed declaration is a
new one; of a spec the version to migrate to is kept, of a status the offered
snapshot; every entry has a target version; the fetch of the credentials is
part of the Secret's step, and the read and the write of `set_desired_snapshot`
are one step (nobody else writes that field).

### `PostgresPod` and `DatabaseSessions`

`pc` is the command the pod is at: of setup-auth, from the check of `pg_wal` to
the row in `_pgro.restore_info`; `"exec"`, where the postgres container starts;
`"main"`, where the server runs and the background reindex (`job`) beside it.
The volume holds what survives: `wal`, the flag files, and for each reason
(`Reasons`) the databases with indexes that are wrong for it, which is what the
flags are to put right. A kill takes the pod back to `"down"` or, for a restart
of the container alone, to `"exec"`; `ServerRefuses` is a server in crash
recovery, on which the script's `psql` calls fail one by one while the script
carries on. `DatabaseSessions` adds `gate`, how far the switchover is, and the
redaction run: `sess` is its next statement and `conn` whether its connection
is alive, which any step of the pod can end (`InPod`). `outcome` is how the run
fared with each column: masked, refused by the database (or absent, or without
an expression that fits), or lost with the connection. The code counts the last
two alike and goes on, and a run with any of them settles as `partial`.
`dbReadOnly` is the lock a run leaves on the database: it outlasts the pod, and
statements of later sessions that do not set it aside are refused. `slips` is a
ghost: the reasons for which indexes in the wrong order were let go of, by a
rebuild that failed or a kill between the locale rewrite and its flag.

Abstractions: the server is PG 15 or later; databases, schemas and columns are
sets, and what a column's mask is, is left out; a truncated table is a masked
column; statements end or fail, none hangs; the extra user's schemas are granted
by one step. The row setup-auth writes into `_pgro.restore_info` always lands:
its `psql` calls (builders.rs:1830-1839, 1964-2004) run without `ON_ERROR_STOP`
and could fail silently, which would leave the row of the run before. The wait
for the server, the stage and the first listing of the background reindex
(builders.rs:2199-2212) are one step, `JobBegins`. The
recorded phase and the connection are one step at the start of a run
(`ReplicaController` has them apart).

### `RestoreRun`

`status[r]` is the restore as the API server has it and `Seen(r)` as a pass is
handed it: `lag[r]` is an older status the cache is stuck at. `pc[r]` is the
next call of the pass, so that a crash (`OperatorDies`) comes between any two.
Run ids and batches of `logs.migrations` are numbers. A Job is `"deadline"` when
it was ended by `activeDeadlineSeconds`: the condition is Failed, but no more
pods failed than the backoff limit. `stale`, `ran`, `reports`, `overwritten` and
`swept` are ghosts.

Abstractions: the volumes are as wide as they need to be; the intent is the
upgrade, whose reports carry a migration; the switchover with its report and
the reset of the count is one step (`BlueGreen` has it write by write); the
readiness budget is a flag, and so is whether the version is known; a pod that
is lost is away for a while. The schemas dropped and the SQL run before a
migration change nothing here. What the reports say of health is left out.

The safety properties of `RestoreRun` have the premise that the cache has not
lagged (`~stale`). With a lagging cache they need not hold: a pass that still
sees `Restoring` after its Job was deleted creates another. The cache follows
within moments and the next requeue is seconds away, but nothing in the code
rules it out.

### `ReadinessWait`

Time passes in ticks of several requeue intervals, and a timestamp is its age,
which stops at the first value nothing compares with anything later. The
database side (`Database`) is a reindex of `Indexes` indexes, that can be at an
index or between two, wedge for ever, or start over in another backend. A pass
that asks postgres is two steps, `Ask` and `Answer` or `AskFails`, and begins
from the watch as it was (`prev`). `idle` is how long the reindex has really
been still; `still` and `unasked` are ghosts.

Abstractions: one restore; what other restores do to its watch is
`OtherStores`. The snapshot's size is what it adds to the budget (`Extra`).

## Runs

Bounds are constants, named where they are declared: `MaxRestores`,
`MaxSnapshots`, `MaxFaults` (failed calls and restarts), `MaxDeletes`,
`MaxRestarts`, `MaxChanges`, `MaxRuns`. `LiveLimit` and `BuildAttempts` stand for
constants of the code (`MAX_RESTORES_PER_REPLICA`, `BUILD_ATTEMPTS`), lowered so
that they are reached.

| Run | Configuration | Shows |
|---|---|---|
| `kept` | persistent schemas, 2 restores, 2 snapshots, 1 fault, fair | `CurrentIsActive`, `Converges` |
| `promise` | redaction and persistent schemas, 3 restores, 2 snapshots, no fault | `ServedIsUpUnlessFault`, `OneRestorePerSnapshot`, `MigrationSourceKept`, `FailedRedactionHolds`, `FailedMigrationHolds`, `KeepsPromise` (refinement of `ServedDatabase`) |
| `ephemeral` | ephemeral canopy replica with `migrateTo`, 2 restores, 2 snapshots, 1 fault, 1 deletion by hand, at most 1 live restore | `LiveRestoresBounded`, `VerifiedNotRepeated`, `ReportedUnlessFault` |
| `queue` | 2 replicas, one of them ephemeral, 1 slot, 1 restart, the restores of the other deleted while running, one restore of a replica at a time, fair | `WaitsOnce`, `IdleSlotsHeal`, `FleetNeverStalls` |
| `schema_build` | 2 restores, 3 attempts, 2 faults, 1 restore deleted under its build, fair | `RegisteredIsOwn`, `ReportCarriesBuild`, `LostSchemaRebuilt`, `BuildSettles` |
| `worklist` | one machine and one schema build of 2 versions, 2 snapshots after none, 4 changes of the worklist or the snapshots, 1 fault or edit by hand, fair | `WantedNotTornDown`, `BuildKeepsVersion`, `OfferNotWithdrawn`, `Synchronises` |
| `database` | three replica specs, every snapshot (locale, collation versions, WAL), 1 database, 1 schema, 1 column whose statement may be refused, 2 faults, fair | `VersionHonest`, `StageHonest`, `ReadyIsReindexed`, `AccessKept`, `RedactedAsRecorded`, `ComesUp`, `RedactionGetsThrough` |
| `restore_run` | 2 restores with a target version, one of them without an application database, 1 fault | `ReportNamesRun`, `AccountedOnce`, `NotOverwritten`, `MigrationAttributed` |
| `readiness` | pinned or derived budget, postgres that tells its progress or not, 2 indexes, stall timeout 5, 3 faults, fair | `MovingNotFailed`, `WaitEnds` |

`kept`, `queue`, `schema_build`, `worklist` and `restore_run` also check the
type invariant.

Why the bounds are enough to meet the hard cases:

- one fault reaches every "crash between two writes"; two, in `schema_build`,
  a restart during the recovery from the first;
- two restores are what a switchover needs; three, in `promise`, are the least
  that have a switchover from a restore that itself replaced one while the first
  is still there. With two snapshots, two of the three compete for one;
- with `LiveLimit = 1` every creation meets the guardrail unless all earlier
  restores have failed or gone;
- one slot for two replicas is full as soon as anything runs, so that a pass
  that listed before its own restore started finds the slot taken by it. A
  second restore of a replica changes nothing a queue of names can see; the
  theorems cover any number of replicas with two;
- three attempts give a first, a last and one between;
- four changes let an entry come, go and come back while its namespace is on
  its way out and a snapshot arrives, or two versions of a build come and one go.
  Two snapshots are what an offer needs to be replaced by an older one. Every entry's intent
  is a known one in this run; the theorems also cover unknown intents.

- the three specs of `database` are read-only without redaction (set by
  setup-auth), read-only with it (locked by the run), and redaction with
  persistent schemas (never locked). Two faults are a kill and another during
  the recovery from it. One database is enough because a branch of the reindex
  treats each alone, and one column because `outcome` tells apart how it can
  fare and the lock is for all;
- in `restore_run` a second restore is what `cleanup_previous_jobs` and the
  shared failure count need. The properties also hold with two faults, in a run
  that takes more than four minutes and is not kept;
- in `readiness` the intervals keep the order the code gives them (`Observe` <
  `Abandon` < `Stall`) at distances of more than one tick; three faults are two
  failed asks and a restart. With two indexes the reindex is between two of
  them before, in the middle and at its end.

`schema_build`, `database` and `restore_run` do not check for deadlock: once
every restore has ended, or the database was replaced and the faults are used
up, there may be nothing left to do.

Three runs show where the code does not do what the repository says of it. Each
checks one property and ends with a counterexample.

| Run | Statement | What happens |
|---|---|---|
| `redacted_when_served` | "An unredacted restore is never made live." (README.md:176) | the phase `complete` of one restore is still recorded when the next one switches over, which then skips redaction |
| `schemas_carried` | schemas migrate "on each switchover" (README.md:113) | a `complete` left from the last switchover skips the migration |
| `run_ends` | "Canopy sees the whole restore cycle as three signals" and pgro reports "at each terminal transition" (canopy/verification.rs:3-6) | a kopia Job ended by its deadline is not seen as failed, expires by its ttl and is created again for ever; no transition comes |

More observations of this kind have no run of their own.

- After a crash between `Active` and the status patch (replica.rs:356) the
  restore the Service selects counts as a leftover and the sweep deletes it
  (replica.rs:521); an ephemeral replica tears it down unreported, although
  replica.rs:464 counts on the report.
- The canopy trigger (replica.rs:1127) does not consult the backoff, which
  triggers that bypass the schedule "must consult" (scheduling.rs:95).
- The limit on concurrent restores (operator.yaml:138) is checked
  (replica.rs:1135) long before the slot is taken, so that more may run.
- Two restores of one replica can be on their way at once, in spite of
  replica.rs:73: a restore without a phase is not in progress, and a snapshot
  list is acted on before the check (`OneRestorePerSnapshot` says what does
  hold).
- A replica whose restore runs can be in the wait list: a pass that listed
  before the restore had a phase (replica.rs:268, 1010) comes to `enqueue`
  (replica.rs:1135) after the restore was marked active. `try_promote` does not
  ask whether it holds a slot already, so it may be given a second; the next
  tick keeps both, and the release of either gives back both.
- `cleanup_previous_jobs` deletes the other restores' running Jobs too, although
  its comment speaks of completed ones (restore.rs:1219), and with them the
  replica's snapshot list, schema migration and schema build, which have no
  restore label. A running migration or build then looks like one that vanished.
- A restore deleted under its schema build leaves its Job to the next restore,
  which may then register the other's schema; `RegisteredIsOwn` says so in its
  premise.
- A redaction run cut short after `ALTER DATABASE ... SET
  default_transaction_read_only` (apply.rs:224) can never be repeated: the next
  one is refused its first statement. `RedactionGetsThrough` names it as an
  exception.
- A statement that fails while masking is counted and tolerated (apply.rs:72,
  160), and a run with failures settles as `partial`, on which the switchover goes
  on like on `complete`: columns may be in the clear on a database that is served
  and locked. A connection lost among the masks counts as so many failed columns
  too. Where the run then locks the database it fails on that and is repeated;
  where it does not, it ends as partial. `RedactedAsRecorded` says what a recorded
  phase does promise.
- A locked database whose pod was replaced has a superuser again, whose grants
  the lock refuses (postgres.rs:460): a switchover that had come to the extra
  user's grants is held there.
- builders.rs:1735-1741 says that every database is reindexed after a log reset
  "before marking the replica Ready". The readiness probe does not look at
  `needs-reindex-all` (builders.rs:2423-2431), and the comment at
  builders.rs:2258-2264 says so: the databases are Ready with torn indexes until
  the background reindex is through. `ReadyIsReindexed` says what holds: the flag
  is there as long as they are.
- On a read-only replica the REFRESH VERSION of a collation is refused
  (builders.rs:2350, 2356), so every setup-auth finds the version outdated and
  flags the reindex once more. `VersionHonest` holds all the more.
- An init container killed between the locale rewrite and its flag
  (builders.rs:1814) comes up Ready with indexes in the old order, and finds
  nothing to do any more; so does a database one of whose rebuilds failed.
  These are the two exceptions (`slips`) of `ReadyIsReindexed`.
- The reindex removes its flag a probe period before the Deployment turns ready;
  a pass past the budget that asks in between fails the restore
  (restore.rs:1054). `MovingNotFailed` is about restores with the flag.

Every property of a passing run has a mutant of the code it is about (a
definition in the same module, named after the bug) that TLC finds.

**Fairness.** `BlueGreen!Fairness`: every reconcile ends with a requeue and the
controllers run for ever, so a pass that can take a step does, and as long as
any restore can, some restore does, and the grace period elapses (weak
fairness). The gates of a switchover can hold it any number of times and are
retried; that a gate that is retried for ever passes at last (a database that
accepts connections, a redaction that works, a migration that succeeds) is what
the code counts on, and is assumed as strong fairness. `RestoreQueue!Fairness`:
replicas are reconciled every 30 s while they wait, a snapshot-list Job ends,
restores move on, the tick comes every minute. `SchemaBuild!Fairness`: the
replica is requeued every 30 s while the gate holds, the callback answers a
delivery it has begun, a Job ends by its `activeDeadlineSeconds`, and a deleted
Job goes. That a build delivers, that canopy takes the schema or that a patch
succeeds is not assumed. `Worklist!FairSpec`: `run_forever` ticks for ever, and
a namespace that is being deleted goes at last; nothing more, since a change or
a fault that is bounded is over at some time. `DatabaseSessions!Fairness`: a
script goes on to its next command, kubelet starts a pod again that is down, a
server in crash recovery comes back, and the replica is reconciled again; a
redaction need not succeed. `RestoreRun!Fairness`, used by `run_ends` alone:
restores are requeued, Jobs and Deployments settle one way or the other, the
cache catches up. `ReadinessWait!Fairness`: time passes and the restore is
reconciled; nothing is assumed of the database. Nothing is assumed about
schedules, snapshots, worklists, faults or deletions.

## Proofs

Nothing is assumed but the named assumptions on the constants. `BlueGreenProofs`
proves for every value of the constants that satisfies
`BoundsAssumption` (the bounds are natural numbers) and `FlagsAssumption` (the
settings are Booleans):

| Theorem | States |
|---|---|
| `TypeCorrect` | `Spec => []TypeOK` |
| `CurrentNeverDangles` | `Spec => []CurrentIsActive` |
| `ServedStaysUp` | `Spec => []ServedIsUpUnlessFault` |
| `GuardrailHolds` | `Spec => []LiveRestoresBounded` |
| `SnapshotsNotShared` | `Spec => []OneRestorePerSnapshot` |
| `RedactionGates` | `Spec => FailedRedactionHolds` |
| `VerifiedGates` | `Spec => VerifiedNotRepeated` |

They follow from one inductive invariant `Inv` (theorem `Invariance`). None of
the properties is inductive, because a pass acts on what it read earlier; `Inv`
adds what a pass knows at each step:

- `Pass`: the steps of a switchover have a restore to switch to, the sweep's
  list never holds the current restore;
- `View`: how far the list may have aged: what it says is Failed has not come
  back, what it says is Switching is still up, and nothing is live that it does
  not have as live until the pass itself creates something. This is what makes
  `snapshot_already_covered` sound on an old list;
- `Handed`: the current restore the sweep spares is the recorded one;
- `Fresh`: the snapshot about to be restored is that of no live restore;
- `Pointed`: without faults the Service selects the current restore but for the
  two steps in the middle of a switchover;
- `Gated`: which recorded phases a pass at a given step relies on.

Each has a lemma with one case per group of actions (`TypeStep`, `PassStep`,
`ViewStep`, `CurrentStep`, `BoundStep`, `OnePerSnapshotStep`, `ServedStep`,
`GatedStep`). `GuardrailHolds` uses the cardinality theorems for finite sets,
`FirstIsMember` the well-foundedness of `<`.

`BlueGreenPromiseProofs` goes on from `Inv`. Some of its theorems name settings
under which they hold; in all other constants they are as general.

| Theorem | Where | States |
|---|---|---|
| `MigrationKeepsItsSource` | `~Ephemeral` | `Spec => []MigrationSourceKept` |
| `MigrationGates` | `~Ephemeral`, `MaxDeletes = 0` | `Spec => FailedMigrationHolds` |
| `ReportedBeforeTeardown` | everywhere | `Spec => ReportedUnlessFault` |
| `PromiseKept` | `~Ephemeral`, `MaxFaults = 0`, `MaxDeletes = 0` | `Spec => KeepsPromise` |

The settings are those of the statements. An ephemeral replica deletes the
restore it serves, so it makes no promise to clients and keeps no source. When
the last Active restore is deleted by hand there is nothing left to migrate
from: the step is "not needed" and the switchover goes on under a recorded
failure, so `FailedMigrationHolds` is not true of such a replica. And after a
crash in a switchover the Service may be left on a restore that is swept.
`MigrationGates` allows any number of failed calls and restarts.

These follow from facts that are kept by every step next to `Inv`, the first of
them (`PassInv`, theorem `PassInvariance`) whatever fails:

- `Known`: what a pass still knows of what it read: until the switchover is
  reported it deletes nothing, so a restore it lists as Active still is (or was
  deleted by hand); the migration phase it was handed is the recorded one up to
  the step that writes it; the sweep only begins past the grace period and with
  no migration running;
- `SourceKept`: without faults a running Job is on record, or about to be, and
  its source is Active; a pass that is concluding the migration has none running;
- `ReportDue`: without faults an Active restore is reported, or the pass that
  made it Active is about to.

`MigrationGates` needs `MigrationGate` besides: as long as a migration is
unfinished there is an Active restore to carry from, which is why "not needed"
cannot be the way past it. `PromiseKept` needs `Recorded`: a switchover on
record has left a current restore.
The refinement is proved step by step: `ReadyToSwitch` is `ComesUp`,
`SelectorMoves` is `Serve`, `GraceElapses` is `Settle`, `SweepDeletes` is
`Retire`, every other action is a stutter (lemmas `PromiseStep`, `Stutter`).

`RestoreQueueProofs` proves from `QueueAssumption` (finitely many replicas, at
least one slot):

| Theorem | States |
|---|---|
| `TypeCorrect` | `Spec => []TypeOK` |
| `NobodyWaitsTwice` | `Spec => []WaitsOnce`, the wait list has no duplicates |

Together the two are inductive. What they rest on is what `Vec::retain`
leaves: `retain` is defined by counting the kept entries up to each place, since
the prover knows nothing of `SelectSeq`, and `RetainKeeps` shows that the result
is a queue of kept entries of the old one, without duplicates if that had none.
That every place of it is filled (`NthKept`) is an argument by the first place up to which
so many entries are kept.

`SchemaBuildProofs` proves from `BuildAssumption` (natural bounds, at least one
attempt):

| Theorem | States |
|---|---|
| `TypeCorrect` | `Spec => []TypeOK`; the attempts recorded stay below `BUILD_ATTEMPTS` |
| `SchemasNotMixedUp` | `Spec => []RegisteredIsOwn` |
| `ReportsAreComplete` | `Spec => []ReportCarriesBuild` |
| `DeliveriesAreRebuilt` | `Spec => LostSchemaRebuilt` |

Its invariant adds `Working` (what a pass at each step has read is still true:
nothing else counts attempts), `Own` (a running Job is that of the switching
restore, only a finished one is ever left over, and whatever is in the store
next to a Job that succeeded is the schema of both: this is what the places
that empty the store are for), `Told` (a report is made from a recorded result)
and `Receipted` (a build about to be settled as empty has delivered nothing or
is out of attempts, also while the pass is between reading and recording).

`WorklistProofs` proves from `WorklistAssumption` (known and building intents
are among the declarations, versions are positive, natural bounds):

| Theorem | States |
|---|---|
| `TypeCorrect` | `Spec => []TypeOK` |
| `WantedStay` | `Spec => WantedNotTornDown` |
| `BuildsKeepVersion` | `Spec => BuildKeepsVersion` |
| `OffersStand` | `Spec => OfferNotWithdrawn` |

Its invariant adds `Orphaned` (what a tick has not fetched an entry for was
without one when it began, and so is everything on its list of orphans),
`Versioned` (a build's replica has the version that is in its namespace's name)
and `Ordered` (no entry, in the worklist or fetched from it, is behind what its
replica was offered). `Ordered` needs that namespaces tell entries apart and
that the entry that takes another's place is not older than it, which is where
the assumption about canopy's offers comes in.

`DatabaseSessionsProofs` proves from `PodAssumption` and `SessionAssumption`
(databases and columns are finite, the specs are sets of options, a natural
bound on faults):

| Theorem | States |
|---|---|
| `TypeCorrect` | `Spec => []TypeOK` |
| `VersionsAreHonest` | `Spec => []VersionHonest` |
| `StagesAreHonest` | `Spec => []StageHonest` |
| `ReadyMeansReindexed` | `Spec => []ReadyIsReindexed` |
| `AccessStays` | `Spec => []AccessKept` |
| `RedactionAsRecorded` | `Spec => []RedactedAsRecorded` |

Its invariant adds what the scripts count on between two commands: `Living` (a
connection or a background job lives no longer than its server), `Clean` (the
database about to be stamped was just rebuilt), `Staged` (once the stage is
recorded flags only go, and a branch of the reindex begins when those before it
have no flag left, which is what makes the last command's "ready" true),
`Flagged` (an index out of order is flagged, about to be, still to be gone
over, or let go of for a reason in `slips`), `Granting` (what each command has
granted the roles by the time the server listens, that a locked database has
nothing left to grant, and that a demotion follows its grant on one connection)
and `Masking` (a connection that is still alive after the masks has lost none of
them: what is not masked was refused).
There is one lemma for each, with a step per action or per group of actions
that leave its variables alone; `BranchFacts` says which branch of the reindex
comes next.

`RestoreRunProofs` proves from `RunAssumption` (a finite set of restores, natural
bounds, and room for one batch more than the backup has):

| Theorem | States |
|---|---|
| `TypeCorrect` | `Spec => []TypeOK`, with a lagging cache too |
| `ReportsNameRuns` | `Spec => []ReportNamesRun` |
| `OutcomesAccounted` | `Spec => []AccountedOnce` |
| `VolumesSafe` | `Spec => []NotOverwritten` |
| `BatchesAttributed` | `Spec => []MigrationAttributed` |

As long as the cache has not lagged, a pass acts on the restore as it is, so the
call it is at tells how far the restore has come (`Placed`). From this follow
`Carries` (the Job has the recorded run id, a restore past its Job has one that
ran, postgres is not started before), `Batches` (the baseline is the backup's
newest batch until the Job has written, and only the cleanup of another restore
takes the Job away before), `Told` (a report is made by the last call of the pass
that ended the restore, so there is one) and `Counted` (the count, read and
written by two calls, is at most the number of failures whose pass is past
them). Each is kept by a lemma of its own; `QuietStep` says which steps touch
neither reports nor ends.

`ReadinessWaitProofs` proves from `WaitAssumption` (natural timeouts, in the
order `Observe` < `Abandon` < `Stall` that the code's constants have):

| Theorem | States |
|---|---|
| `TypeCorrect` | `Spec => []TypeOK` |
| `MovingIsNotFailed` | `Spec => MovingNotFailed` |

Its invariant says that a watch, or the copy a pass asks with, has seen the
reindex at a place it has reached, and when it still is there its clock is not
ahead of how long the reindex has been idle (`Follows`); and that until an ask
fails the clock is ahead of the last answer by no more than the time since
(`Dated`). The places of a reindex are ordered by server and index, so that a
counter of an earlier server is never taken for one of this.

Every invariant was checked by TLC on small instances before it was proved.

Only model-checked: liveness (`Converges`, `IdleSlotsHeal`, `FleetNeverStalls`,
`BuildSettles`, `Synchronises`, `ComesUp`, `RedactionGetsThrough`, `WaitEnds`),
which the prover does not treat. All other properties of the passing runs are
also proved. The three statements that are violated are of course not.

## Not modelled

- The credential broker and the proxy's refresh: apart from the life of a
  replica, and planned.
- Parsing of redaction manifests and the text of mask expressions, kopia's
  output and its filtering, quantities, placement, labels and environment in
  the builders: pure functions over strings and manifests.
- Sizing and growth of the kopia cache volume, and the SQL a migration is
  prepared with.
- Statements and calls that hang: the code has no timeout for them within a
  pass, so a model could say no more than that the pass does not end.
- A lagging cache under the replica controller (`RestoreRun` has it for the
  restore controller).
- Notifications, metrics, CRD installation, tailscale and the command-line
  tools: output only.

`PROJECT.json` has an entry for each part.

## Plan

1. `SchemaBuild` as the gate of `BlueGreen`: the composition, in which the
   switchover's own crashes meet a settled build.
2. Theorems about what holds after a fault: which of the conclusions of
   `ServedIsUpUnlessFault` and `ReportedUnlessFault` survive one that falls
   outside the switchover.
3. The credential broker and the proxy's refresh; growth of the kopia cache
   volume; the watch of the operator's configuration.

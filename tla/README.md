# CouchSync: specifications and proofs

CouchSync (`src/`) is an Obsidian plugin that keeps the vaults of several
devices in step through a CouchDB database. Every device holds a local
database of file documents and content-addressed chunks, orders versions by
vector clocks, and never merges text: two versions that neither includes the
other are shown to the user. There is no lock across the system. The push
loop, the pull loop, the vault's events, the reconcile and the conflict
dialogs all await in the middle of what they do and meet again in the local
database. Around them a supervisor opens and closes sessions, the settings have
a merge of their own, destructive setup steps replace whole databases, and
every device removes chunks it believes nobody needs. This directory models
these in TLA+, checks them with TLC and proves part of them with TLAPS.

## 1. Inventory

Paths are relative to `src/src/`.

| Part | State it keeps | Operations | What makes it hard |
|---|---|---|---|
| Vector clocks, relation (`sync/vector-clock.ts`, `sync/classify-sync-relation.ts`, `conflict/conflict-resolver.ts`) | none | compare, merge, increment; classify two versions; verdict on pull | several call sites judge the same pair with different inputs and must agree |
| Push pipeline (`db/sync/push-pipeline.ts`, `unpushed-ids.ts`, `push-backfill.ts`, `echo-tracker.ts`) | cursor, retry set, echo records, backfill flag | warmup, backfill, one cycle every 2 s: enumerate, classify, revisions, chunks, files, commit | five round trips in a cycle, everyone else writes meanwhile; rows fail one by one; answers are lost |
| Checkpoints (`db/sync/checkpoints.ts`) | pull and push cursor | commit a pull batch, commit a push cycle | a cursor may only pass what is applied, on the server, or remembered |
| Pull (`db/sync/pull-pipeline.ts`, `pull-writer.ts`) | remote cursor, emitted conflicts | catch-up, long poll, classify a batch, commit, apply to the vault, drain records | judges, awaits, then commits; the vault write follows the transaction |
| Pending apply (`db/sync/pending-apply.ts`) | set of documents the vault lacks | record, apply, drain, resolve | drain shared by pull and reconcile; a newer version recorded during a drain |
| Vault sync (`sync/vault-sync.ts`, `last-synced.ts`) | integration baseline per path | `fileToDb`, `dbToFile`, `markDeleted`, `handleRename`, the conflict commits | disk, document and baseline are three states of one path, changed by different actors |
| Change tracker, vault writer (`sync/change-tracker.ts`, `adapters/editor-aware-vault-writer.ts`) | debounced events, ignored paths, open editors | report an edit, write over an open note or decline | an event for what the plugin wrote itself; unsaved typing |
| Reconciler (`sync/reconciler.ts`) | scan cursor, manifest | decide each path of vault and database | works on two snapshots taken at different times |
| Conflict orchestrator (`conflict/conflict-orchestrator.ts`) | queue, dialogs open, newer versions waiting | enqueue, present, apply a choice, recheck | the choice is made minutes after the versions were read |
| Sync engine, session (`db/sync-engine.ts`, `db/sync/sync-session.ts`, `db/reconnect-policy.ts`, `db/visibility-gate.ts`) | state, session, timers, latches | start, stop, reconnect, open a session, halt | reconnect requests of different causes, hidden pages, sessions that outlive their teardown |
| Local database (`db/dexie-store.ts`, `db/handle-guard.ts`, `db/write-transaction.ts`) | documents, chunks, meta rows, update sequence | transactions, compare-and-set with retry, change feed | IndexedDB handles die and are reopened |
| Remote clients (`db/couch-client.ts`, `remote-couch.ts`, `retrying-couch-client.ts`) | the latch for compressed bodies, the calls under way | bulk reads and writes by batches, feeds by pages, long poll, retries, cancellation | each phase of a request has a deadline of its own; an error may be the server's, the network's, the caller's or that of the compression |
| Codecs (`db/encrypting-couch-client.ts`, `compressing-couch-client.ts`, `crypto-provider.ts`) | keys | encode, decode | not a protocol |
| Config sync (`sync/config-*.ts`, `db/sync/config-*.ts`) | config documents, base per path, declared keys, binding | Create, Join, Push, Pull & Reload, Share again, Pull & Overwrite by button | three-way merge by key against a moving server, while the app writes the same files from its memory |
| Vault binding (`sync/vault-binding.ts`, `sync/setup.ts`, `sync/reload-guard.ts`, `db/sync/vault-remote-ops.ts`) | connection state, root of the vault, key | Init, Clone, codec change, agreement check | several destructive steps with a crash between them; another device replaces the database meanwhile |
| Chunk maintenance (`sync/chunk-consistency.ts`, `chunk-repair.ts`, `db/chunk-gc.ts`) | none | diff, repair, sweep | reads references, then deletes |
| History, UI, settings, log | local | presentation | outside the protocol |

How they interact: vault events reach `VaultSync` through the change tracker;
`VaultSync` and the pull write the local database in transactions, each with
the next update sequence; the push reads that sequence as its change feed and
leaves out what the echo tracker knows to be the pull's writes; the pull
applies what it committed through `VaultSync.dbToFile`; push, pull and
reconcile hand divergent versions to the orchestrator by the `concurrent`
event; the reconcile compares vault and database path by path and calls the
same operations again. `PROJECT.json` lists under `hazards` the places where
these orders bite, with the properties that watch them.

## 2. Plan

The order puts what loses data first.

1. `VClock`, `SyncRelation`, `SyncLaws` (done): the judgements every other
   part makes, and the laws that keep call sites in agreement.
2. `PushPipeline` (done): one device's push loop against the pull, the vault,
   the dialogs, failures and another device, the pull as one step.
3. `VaultSync`, `VaultReplication` (done for one path): disk, document and
   baseline, cut at the awaits; the pull with its vault write, pending-apply,
   the reconcile, the dialogs and sessions around them.
4. `EngineLifecycle` (done): reconnect requests, timers, hidden pages, latches,
   sessions opened late; refines `LiveSession`.
5. `ConfigMerge`, `ConfigSync` (done for one device and its peers): the merge by
   key and the buttons that push, pull, create and join.
6. `VaultBinding` (done), `ChunkStore` (done), `CouchClient` (done),
   `LocalStore` (done).
7. Proofs about `VaultSync` and `VaultReplication` (done: the type invariant,
   `NoLostEdit`, `NoUndoneDeletion`, `RecordsOnlyOverSeen`, `NoBlindTombstone`
   and `NoPhantomAfterPull`).
8. Proofs about the newer modules (done: `EngineLifecycle` with its refinement,
   `VaultBinding`, `CouchClient`, `LocalStore`, `ConfigSync`, `ChunkStore`).
9. Rename as two paths, and the presentation queue of the conflicts with its
   batch dialog.
10. An abstract specification of what a path promises a user (a version is
    replaced only by one that has seen it, or by a choice), with `VaultSync`
    shown to implement it where no region is interrupted.

`SyncRelation` is extended by `PushPipeline`, `VaultSync` and `ChunkStore`, so a
change of a judgement reaches each of them. `PushPipeline` and
`VaultReplication` abstract each other: the pull of the first commits in one
step, the push of the second delivers in one step. `ChunkStore` abstracts both
once more and keeps of them what they do with chunks. What these modules take
for one step of the local database `LocalStore` takes apart. `EngineLifecycle`
knows of the loops only how they end; `VaultBinding` knows of a session only
what it takes and seals.

## 3. Modules and the code

| Module | Models | Remarks |
|---|---|---|
| `VClock` | `vector-clock.ts` | clocks are functions over the devices, absent entries are 0 |
| `SyncRelation` | the relation of two versions and the guards built on it, the verdict on a hard remote deletion | |
| `SyncLaws` | one path in any state; the laws as invariants over all of them | a state per combination of two documents, disk, baseline and what the manifest says of a missing file |
| `PushPipeline` | `PushPipeline.runOnce` cut at its round trips, warmup, backfill, retry set, echo records, cursor, the pull's verdicts, the conflict dialog, its newer version and its durable record | |
| `VaultSync` | `fileToDb`, `dbToFile`, `markDeleted`, baselines, the commits of a conflict's answer, the change tracker and the vault writer | one action per stretch between two awaits |
| `VaultReplication` | the pull writer, pending-apply, the reconcile, the dialogs about a file, sessions and the drift stamp | calls the operations of `VaultSync` |
| `LiveSession` | what the engine promises of its sessions | abstract specification |
| `EngineLifecycle` | `sync-engine.ts`, `sync-session.ts`, `reconnect-policy.ts`, `visibility-gate.ts`, `env-listeners.ts` | implements `LiveSession` |
| `VaultBinding` | `vault-binding.ts`, `setup.ts`, `reload-guard.ts`, `vault-remote-ops.ts` | several devices, one database |
| `ConfigMerge` | `config-merge.ts`, the decisions of `config-reconcile.ts` | pure |
| `ConfigSync` | `config-sync.ts`, `config-binding.ts`, `config-setup.ts`, `config-migration.ts`, the config push and pull | one device, databases its peers push to |
| `ChunkStore` | `chunk-gc.ts`, `chunk-refs.ts`, `chunk-consistency.ts`, `chunk-repair.ts` and its command | several devices and the server |
| `CouchClient` | `couch-client.ts`, `retrying-couch-client.ts`, `pagination.ts` | concurrent calls of one client |
| `LocalStore` | `dexie-store.ts`, `local-db.ts`, `write-transaction.ts`, `handle-guard.ts` | concurrent operations on one database |
| `MC...` | bounds for TLC | |
| `..._proofs` | the theorems | |

An operator `name_variant` beside a definition (`Disposed_parked`,
`merge3_remote`) is the code with a plausible bug; no specification uses it, the
runs are tried against it (`mutants` of `PROJECT.json`).

**PushPipeline.** A step of a cycle is an action, named as the code names the
phase (`Enumerate` is `[1]`-`[3]` of `runOnce`, `ClassifyFiles` `[4]`-`[6]`,
`FetchRevs`, `SendChunks` and `SendFiles` are `pushDocs`, `Commit` is
`commitPushCycle`). The local database is `localDoc` with the sequence each row
was last written at (`localSeq`); `seq` is the update sequence. What the vault
does with an accepted version is not modelled here but for its outcome: it takes
it, which closes the path's dialog and drops its conflict record (`AutoResolve`,
the `auto-resolve` event), declines it, or fails. A version it failed to take is
`owed` and taken later (`VaultCatchesUp`, a drain of pending-apply), which closes
and drops in the same way whatever conflict the path has by then. An answer may
fail (`AnswerFails`, the `catch` of `processSingle`): nothing is written and the
record goes. `dropped` (history) marks the files whose record went in one of
these two ways.

**VaultSync, VaultReplication.** A path is `disk`, `doc` and `base`. A
`fileToDb` is a read (`TimerFires`, or a reconcile or the drift stamp) and a
commit (`CommitRead`), which judges with the document and the baseline of its
own moment, as the builder of `runWriteBuilder` does. A `dbToFile` is a `job`
with the stages *check* (the disk is compared with the baseline), *write* and
*baseline*, one per caller. A save is `owed` to the user until the server has
it, the user deletes or gives it up, or everyone wrote the same text; `madeOn`
is the version a text builds on. These history variables are read by the
properties only; no guard reads them. The dialogs of a path come one after the
other (`conflict-orchestrator.ts:285-317`: `drain` presents the next when the
answer of the one before has been applied), so an answer waits until no
`dbToFile` of an earlier one is under way.

**EngineLifecycle.** One JS turn is one step. A session is a record with a
program counter (*prepare*, *catchup*, *warmup*, *live*, the awaits of
`SyncSession`), the loops that still run and the loops that wait for the page
to show. `gate` is an `openSession` that awaits the agreement check, with the
generation it compares afterwards (`superseded`). `chain` is the reconnect in
flight (*verify*, *teardown*, *open*), `queued` the one reason waiting behind
it, `cool` the minimum distance of two restarts. `auth` and `degraded` are the
latches, `retryTimer` and `transientTimer` the two timers; a timer that is set
may fire at any moment. Under the refinement `link <- current`,
`up <- the session has caught up`, `shown <- state = "connected"`.

**VaultBinding.** `conn`, `root`, `enc` are the persisted settings
(`connectionState`, `vaultRoot`, `encryptionEnabled`), `key` the unlocked
provider, `op` an Init, a Clone or the database check with the step it stands
before, `check` an agreement check in flight, `session` the live session with
the key its client was built with, `batch` pulled rows not committed yet,
`local` the local database by the vaults its documents are of. The server is an
incarnation of the database, its meta document and its changes feed; every
document carries the vault it is of and the key it is sealed under. `whole`
(history) says that the last operation that destroyed something ended well.

**ConfigSync.** A file is a function from its keys to values; `store` is the
local config database per remote database (documents, bases, cursor, the root
joined), `disk` the files, `memory` what the app holds of them and writes back.
An operation is `op` with a kind, a step, the plan the code computed and the
paths still to do; its steps are the awaits of `ConfigSync`. `mine` and `told`
(history) say which key the app changed on this device and which a Pull kept
against the shared value. An operation may fail at each of its requests and each
of its local transactions (`OpFails`); `unreloaded` (history) says that a Pull
ended after it wrote without asking for its reload.

**ChunkStore.** Per device `doc`, `store` (the chunks of its database), `feed`
(what its push has not looked at) and `held` (the disk and its baseline); on the
server `remote` and `bodies`. `push`, `refs` and `repair` are a push cycle, a
sweep and a repair in progress; a repair goes through `analysis`, `copy`,
`localCheck`, `deleteLocal`, `remoteCheck`, `deleteRemote`, as `chunk-repair.ts`
does, with the list of each phase.

**CouchClient.** A call is a record: its kind (one stands for the methods that
work alike), the batch or page it is at, the attempt, and where its request is
(*compress*, *fetch*, *errorText*, *body*, *settle*, *sleep*).
`gzipRequestBody` is the latch of the client. What a server took is kept with
the call (`taken`, history).

**LocalStore.** `rows` is the docs table, each row with its `_localSeq`;
`updateSeq` and `vclockMeta` are rows of the meta table, `lastSynced` is the copy
of the baselines `VaultSync` holds in memory. An operation is before its read, in
front of its transaction, or waiting to be run again; a transaction is one step.
Builders are `fileToDb` and `commitOverShown`, each with its refusal; a put is
what the pull or a choice accepted, with the version of the server. `handle` is
`HandleGuard.current`, and an operation whose handle was closed under it finds
that out as it does with a dead one. `feed` and `scan` are an answer of
`changes()` and a reconcile in progress. A reader that meets a dead handle is a
`probe` before its read. `named` and `replayed` are history.

**Abstractions.** Texts are members of `Content`, a chunk is one per content,
the other devices of `PushPipeline`, `VaultReplication` and `ConfigSync` are one
peer that writes any version on top of the server's. The local awaits of
`[1]`-`[3]` are one step. The time to live of an echo, the backoff times,
debounce and minimum intervals are left out: what is scheduled may happen at any
moment. The stat cache is taken at its word. A merged clock that changes no
content is not pushed (the churn guard of `classifyFiles`). A hard remote
deletion (`handlePulledDeletion`) is judged by `acceptedDeletion` and in
`DecisionsTakeEffect`, but happens in no state machine. In `ConfigSync` the
encryption of a database, its passphrase and the cipher floor are part of its
root; nested JSON pointers are flattened to leaves; `store.current` stands for
the equality of the store's and the device's `configDiskWriteId`; backups are a
step without state; the chunks of a base are there. In `VaultBinding` a setting
is on the disk when it changes.

## 4. What the runs check

| Run | Bounds | States | Shows |
|---|---|---|---|
| `sync_laws` | two devices, two contents, counters 0 and 1 | 21 216 | the judgements agree with each other for every combination, with every word of the manifest on a missing file |
| `push_pull_mid` | 1 file, 2 edits, 1 peer write, 1 failure, chunk rows refused, a vault that fails | 195 K | the pull writes in mid-cycle: nothing forgotten, the server moves forward, every file settles or is a visible conflict |
| `push_vault_mid` | 1 file, 2 edits and 1 peer version or 1 and 2, 1 failure, the peer creates paths, a vault that fails | 902 K | the vault writes in mid-cycle: the proof's invariant, chunks before files, no divergence silent |
| `vault_safe` | 2 user changes, 1 peer write | 1.10 M | no saved text lost, no deletion undone, nothing recorded over an unseen version, no deletion of one |
| `vault_restart` | 2 user changes, 1 peer write, 2 failures or quits | 1.05 M | no saved text lost and nothing recorded over an unseen version across crashes at any step; no false tombstone |
| `engine` | 2 sessions, 1 event, 2 failures, mobile, the local database may degrade | 346 K | one session goes on, nothing restarts one that came up, no loop sleeps through the page's return, the engine is a `LiveSession` and recovers by itself |
| `binding` | 2 devices, one from an older build, 3 vaults, 3 events, 1 failure, 6 documents | 128 K | nothing half built syncs, a session seals for its own vault, a replaced database is noticed |
| `config` | 2 files (one merged by key, one whole), 2 databases, 2 roots, 2 acts, 1 failure (of a request, a local transaction or the app) | 209 K | what is sent and what is overwritten is accounted for key by key; disk and shared state become one |
| `chunk_store` | 2 devices, 1 file, 1 content, 3 acts | 98 K | no file the server shows loses its bytes; once the edits stop the stores hold exactly what the files name |
| `local_store` | 2 operations at a time, 1 file, 3 contents, 4 calls (at most 3 operations, feed reads, scans), 1 failure | 1.70 M | no clock names two contents, the push's cursor passes no row, an equal fingerprint means equal documents |
| `couch_client` | 2 calls, 2 batches, 1 retry, 1 fault | 297 K | no write twice but by the probe, the latch learnt, who gave up sends nothing, every call ends |

One run expects a violation, the finding of `PROJECT.json`: `vault_pull_race` (an
edit recorded between a pull's verdict and its commit is overwritten). The
modules state seven more promises of the repository that TLC refutes on the
instances of these runs or a small one beside them; section 8 says what happens.

- `DecidedDeletionsAreMade` (`SyncLaws`, on the instance of `sync_laws`): a file
  the reconcile decides to delete gets its tombstone.
- `NoConflictForgotten` (`PushPipeline`, one file and content, 2 edits, 2 peer
  versions, 1 failure): a remote version the pull passes is resolved or
  remembered.
- `SessionTakesOwn` (`VaultBinding`, three devices, 5 events, 2 documents, no
  encryption, no failure): a session takes no documents of a newer vault. With
  two devices the case cannot happen, so no run lists it.
- `ReloadFollowsWrite` (`ConfigSync`, on the instance of `config`): what a Pull
  wrote, the app reads before it writes.
- `NoPhantomTombstone` (`VaultReplication`, the region *docs* open, no failure):
  a tombstone written unasked is of a file the user deleted.
- `StopIsFinal` (`EngineLifecycle`) and `ClosesOnlyTheDead` (`LocalStore`).

The properties that pass leave these cases out, each by a named exception:
`unprovenDeletion` of the two laws of decisions and refusals, `dropped` of
`NoSilentDivergence`, `unreloaded` of `ConfigInv`.

`EngineInv`, `BindingInv`, `ConfigInv` and `StoreInv` join a module's type
invariant with the property every step must keep: `OneSession`,
`NothingHalfBuilt`, `AppHoldsDisk` and `ClockNamesOneVersion`. `EngineInv` and
`StoreInv` also carry what makes them inductive, so the runs check the very
invariants the proofs use.

**Environment parameters.** `MidCycle`, `PeerCreates`, `ServerErrors`,
`Interrupts` and `Windows` say which interleavings a run lets happen. The code
lets all of them happen: a run that leaves one out shows what holds unless that
race hits. What fails with each of them open:

- `PushPipeline`: with `MidCycle` both *vault* and *pull*, `NoForgottenPush`
  (`pull-writer.ts:376`: a silent merge during a cycle makes the cycle drop the
  row it holds). With `PeerCreates`, `ServerMovesForward`, and with *pull* besides
  `NoForgottenPush` (`push-pipeline.ts:675`: the revision fetched is that of a
  version the device has not judged). With refused *file* rows,
  `NoForgottenPush` (`push-pipeline.ts:800`: the cursor passes a row that the
  server refused). With refused *chunk* rows and two files, `ChunksFirst`
  (`push-pipeline.ts:753`: a file withheld for its chunk is sent by a later
  cycle whose chunk row is not in the feed any more).
- `VaultReplication`: a region is a stretch between a decision and the write it
  decides: *record* (a text was read, not committed), *delete* (a delete event
  on its way), *pull* (a batch judged, not committed), *check* and *write*
  (before a job's look at the disk, and between it and the write), *baseline*
  (written, baseline not set), *vault* and *docs* (after each snapshot of the
  reconcile), *dialog* (a dialog open). Others may run inside the regions of
  `Interrupts` only. `vault_safe` opens *delete*, *check*, *vault*, *docs* and
  *dialog*; `vault_restart` opens *dialog* and adds crashes, which cut every
  region, the one between a write and its baseline included. With *pull* open
  `NoLostEdit` fails (`vault_pull_race`); with *vault* or *docs* open
  `NoPhantomTombstone` does (`reconciler.ts:246`: a file created after the
  vault's snapshot, read in the database's, looks deleted). With *write* open
  `NoLostEdit` fails (`vault-sync.ts:599`: a save between the look and the write
  is overwritten); with *record* open `RecordsOnlyOverSeen` does; with
  *baseline* open two jobs of one path may set their baselines in the wrong
  order. With *docs* open and a crash, a reconcile may apply a tombstone from
  its snapshot to a file restored meanwhile, and a text written before the next
  start is then recorded over the restored version: this is why `vault_safe` has
  no failures. That takes a stop between a write and its baseline, which with
  *delete* and *check* open breaks `NoBlindTombstone` too: after the start the
  remote text on the disk looks like the user's. With *dialog* alone open both
  hold through such a stop, because the start stamps the drift before anything
  is pulled. `NoPhantomTombstone` also fails without any race when the vault
  write of a remote version chosen in a dialog fails: `TakeRemoteDoc` leaves the
  document concurrent with the baseline, and the guard of `markDeleted` refuses
  only a document that dominates it. `NoPhantomAfterPull` and `NoBlindTombstone`
  leave that case out; the first fails with *record*, *delete*, *pull*, *check*,
  *write*, *vault* or *docs* open (by hand, up to 3 peer writes, 3 user changes
  and 1 failure).
- `VaultBinding`: with *inits* (two devices run Init at once) `SessionTakesOwn`
  fails: the later `vault:meta` stands after documents of the earlier vault. It
  also fails with three devices and no window at all: a device that has just
  replaced the vault comes up while a second one replaces it in turn, its push
  reaches the re-created database before that one's meta does, and the third
  device takes those documents. With *check* (the agreement check in flight
  outlives the stop of sync) and with *legacy* (another device's Init replaces
  the database of a device without a recorded root between its unlock and its
  check) `KeyOfRoot` fails. With *batch* (a batch past its last cancellation
  check is committed after the stop) nothing listed fails.
- `ChunkStore`: with *push* open `Recoverable` fails: "Wait for sync & retry"
  runs `pullAll` (`remote-couch.ts:469-517`), which replaces the local version a
  push cycle is sending. With *sweep* or *localCheck* open it fails too: a
  document recorded between the references and the deletion loses its chunk
  (`chunk-gc.ts:88`). `chunk_store` opens *phases* and *remoteCheck*; it also
  passes with *analysis* added at 3 acts, and with *remoteCheck* alone at 4.
  That the stores end with what the files name is a promise to a user who goes
  on asking for repairs.
- `CouchClient`: with *errorText* `EveryCallEnds` fails: the text of an error
  answer is read without a timer (`couch-client.ts:254-257`). `RejectionIsLearnt`
  asks that no request failed on the network: a probe that fails restores the
  latch, over a refusal another request met in between too.

**Bounds.** Two contents tell "the same" from "another" text; every decision
reads at most three versions of a path (document, remote or disk, baseline),
which two edits and a peer write produce in every causal order, and the
violations found need no more than three edits. A conflict that is replaced by a
newer one needs two peer versions, which `push_vault_mid` has; two edits and two
peer versions together (10 M states) pass by hand, and so
do two files that may share a content, with 2 edits and 1 peer version (484 K). One
failure cuts a cycle or a job at each of its steps; two put a crash after a
failed write. Two sessions are the one that opens and the one that winds down;
the engine's second failure hits what the first one started. Three vaults are
the first, its replacement by one device and that replacement's by the other.
Two roots of a config database are the joined one and the one that replaced it.
In `config` one file is merged by key and met by an older store that crossed
with the server, the other is taken whole, belongs to a plugin and is behind.
One content and one file are enough for a chunk to become unneeded and needed
again, which is what a sweep may miss. Three contents are what two versions
under one clock need besides the one that was put. Two calls are enough for one
to find out what the other relies on. `SYMMETRY` permutes contents (and files)
that no definition distinguishes; runs with a temporal property use none.

Deadlock is not checked: with every bound spent, or with a device switched off,
the system may stop.

## 5. Fairness

- `PushPipeline`: `WF` on the steps of a push cycle and on the pull of each
  file, since both loops of a session poll without end (`PushPipeline.run`,
  `PullPipeline`), and on the recheck that follows a closed dialog (`drain`'s
  `finally` block). Users, peers and failures owe nothing: an open dialog may
  stay open, which `EventuallySettled` counts as a visible conflict.
- `EngineLifecycle`: `WF` on the end of every await, each of which has a
  deadline of its own in the client, on the timers, and on a loop's end once its
  session is disposed. `SF` on the health tick: it is an interval timer that
  fires whatever happens between two ticks, so it cannot be missed for ever.
  That answers become good again is the bound `MaxFailures`.
- `VaultBinding`: `WF` on the steps of each device's session, which go on by
  themselves; no user has to act.
- `ConfigSync`: `WF` on the steps of an operation under way and on a reload that
  was asked for; `SF` on the start of Push and of Pull. The buttons are the
  user's, so `EventuallyShared` is a promise to a user who goes on pressing
  them, also when other operations keep taking the lock.
- `ChunkStore`: `WF` on "some device goes on" (loops, dialogs, starts, repairs).
  Nothing is assumed about the order or about which device, so that two repairs
  that undo each other would be seen.
- `CouchClient`: `WF` on the client's own steps and timers, and on the end of a
  body whose bytes keep coming. The server and the network owe nothing.

## 6. What is proved

- `ChunkStore_proofs`, for any devices, contents and clocks:
  - the comparison of two clocks is the causal order, the merge the least upper
    bound, and the clock of a decision dominates both sides; and the four laws
    of `sync_laws` (the variables of `SyncLaws` and `ChunkStore` are disjoint,
    so one module states both), the verdict on hard deletions included, and with
    `unprovenDeletion` as the one decision that is refused and left lying. The
    laws follow from the type of the state alone; the work is in the cases of
    the relation.
  - `NothingIsLost` (`Recoverable`), for any files and acts too, with *push*,
    *sweep* and *localCheck* closed. With any of the three open TLC refutes it
    (section 4), so the condition cannot be dropped.
- `PushPipeline_proofs`, for any number of files, contents, edits, peer writes
  and failures:
  - `PushTypeCorrect`: the types.
  - `EveryVersionAccounted` (`PushInv`), `NothingForgotten` (`NoForgottenPush`)
    and `DivergenceStaysVisible` (`NoSilentDivergence`), where the pull commits
    nothing while a push cycle is open and the server refuses no file row; the
    last of them but for a record that went without an answer (`dropped`).
  - `ChunksAreFirst` (`ChunksFirst`), where it refuses no chunk row.
  - `ServerOnlyForward` (`ServerMovesForward`), where no other device makes a
    path the server does not have.
- `LocalStore_proofs`: `StoreKept`, `FeedComplete` and `FastPathSound`, without
  any assumption.
- `EngineLifecycle_proofs`: `EngineKept`, `NoStrayTimer`, `WokenUp`, and
  `EngineIsLiveSession`, the refinement, without any assumption.
- `VaultBinding_proofs`: `HalfBuiltNeverSyncs` and `ReloadsMeetNoSetup` for any
  devices, vaults and windows; `SealsUnderItsOwnKey` (`KeyOfRoot`) where only the
  window *batch* is open.
- `VaultReplication_proofs`: `TypesKept` for any regions; `NothingSavedIsLost`
  (`NoLostEdit`) where *pull*, *write* and *baseline* are closed;
  `NoDeletionUndone` where *write* is; `NothingSeenIsOverwritten`
  (`RecordsOnlyOverSeen`) and `NoPhantomDeletion` (`NoBlindTombstone`) where
  *record*, *pull*, *write* and *baseline* are and the plugin does not stop
  between a write and its baseline, and both once more through such a stop,
  where all but *dialog* are closed; there `NoPhantomDeletion` states
  `NoPhantomAfterPull` as well. Every other region and every other crash may
  happen in them.
- `CouchClient_proofs`: `CallsTyped`, `CancelStops` and `WritesTakenOnce` without
  any assumption; `RefusalIsLearnt` where at least one fault is allowed, since
  `faults = 0` says "no fault yet" only where one could be counted.
- `ConfigSync_proofs`: `AppFollowsDisk` (`ConfigInv`), `PullsLeaveOwn`
  (`PullKeepsOwn`) and `PushesSendOwn` (`PushSendsOwn`), for any databases, files,
  keys, values, roots and policies, any mix of what an older build left in the
  stores, and any number of acts, crashes and lost answers. The assumptions are
  those on the constants: a key has at least two values, and the model values for
  nothing (`Missing`, `NoFile`, `None`) are no values.

Section 4 names, for each assumption on a race or a failure, a configuration that
breaks the property without it; most of those are about the code rather than
choices of the model. The assumptions are not the weakest: `push_pull_mid` checks
`NoForgottenPush` on an instance where the pull does commit in mid-cycle (and no
vault event does), which no theorem covers yet; `NoSilentDivergence` holds there
too (by hand, 2 edits and 2 peer versions, 1.5 M states).

**PushPipeline.** `NoForgottenPush` is not inductive: it speaks of files that
are at rest, and a file comes to rest by the commit of a cycle that looked at it
earlier. `PushInv` carries what the cycle knows until then: the versions it
holds are still those of the local database or have been replaced at a later
sequence, the documents it sent are on the server or replaced there by ones that
include them, an echo record covers a row only if that row came from the server,
and no clock names an event of the peer that it has not made. The proof has one
lemma per group of actions (environment, pull, cycle, failure) for each of the
two halves of the invariant, clocks and versions. `PushInv` is also an invariant
of `push_vault_mid`. `NoSilentDivergence` needs `JudgedInv` on top of it: what
the push has left is the server's state or a conflict whose record is of the
kind its two versions call for, because a record of any other kind is dropped
when it is presented again (`DivergentStands`). A pull that keeps the local
version of two that differ would break it; `PushInv` says that the push then
still has the file to send. `ChunksFirst` needs `ChunkInv`: a chunk row the
cursor has passed is on the server, one it has not is in the next cycle's hands,
and what a dialog offers of the server was there with its chunk.
`ServerMovesForward` needs `RowsKnown`: a row in flight dominates the version its
revision is of, and a row without a revision is for a path the server does not
have.

**LocalStore.** `StoreInv` bounds every `_localSeq` by the counter and a put by
the version it came with; the feed's answer is complete up to the sequence it
was read at. The fast path is sound because a fingerprint holds the greatest
sequence and the number of rows, and rows only ever get sequences past it.

**EngineLifecycle.** All of the engine's parts are tied together by
`CurrentIsAlive` (the engine's own session is not disposed), `GateIsTold` (an
opening that was superseded knows it) and the count of the openings that the
chain and the gate owe each other. A lemma per JS turn shows that each part is
kept and that the turn is a step of `LiveSession` or a stutter.

**VaultBinding.** `Kept` adds to the two properties that a destructive step runs
only while the persisted state says "setting up", and that a planned reload holds
no lease beside a run. `KeyInv` follows what a device may know: the vault a meta
names is one that was published (`Known`), roots and keys never run ahead of it,
and a check in flight belongs to the session it was started for.

**VaultReplication.** The clock of a version counts the events of two devices
and is ordered lexicographically; a clock has one state, and each side alone
counts its own events. `PullStands` says that what a pull has judged is still
true when it commits. A text not recorded yet (`Unrecorded`) is on the disk and
the baseline does not explain it, so every write to the disk declines. `LookHolds`
says the same of a deletion between a look and a write, `SeenOK` follows which
versions a text was made on. `NoPhantomAfterPull` needs in addition that what an
operation has looked at is still so when it acts, which the closed regions give
(`Settled`), and of a synced file that is gone from the disk though the user did
not remove it, that its document is a deletion or another device's version still
to be written (`Gone`).

**ConfigSync.** None of the three properties is inductive. `IInv` ties the disk
to what the app holds (`AppFollows`: they differ only where a Pull has written,
and no change on record is at such a key) and to the bases (`BaseExplains`:
where a store's base stands for the disk, the two differ at exactly the keys the
app changed or a Pull knowingly kept, except in a file written and not yet
recorded). A store is trusted only while no other database's Pull has written
the disk (`current`), which is why a Pull invalidates the stores before its
first write. `LegacyHolds` says what an older build's store is until its first
use, so that the migration turns it into one `BaseExplains` holds of: the
clocks of its versions order them as the build left them, and whatever a peer
pushes since only adds to the peer's counter. `PushHolds` and `PullHolds` say
of a plan how it relates to base and disk, and that a revision the server still
has is that of the base (`RevKnown`); `Wiped` says that a Create or Join that is
past its first step has an empty store. There is a lemma per action. TLC checks
`IInv` on the instance of `config`, and with three acts on other mixes of older
stores.

**ChunkStore.** `Recoverable` is not inductive: it asks for one of four things and
says nothing of who keeps them. A device counts its own edits, and all others
learn of them from the server (`Counters`: its own entry of a document's clock is
at least the server's, every other at most), so one entry tells whether it has
something of its own there (`own`). What is its own is on its disk, recorded
after what the server knows, and its chunk is in its database (`OwnIsHere`); with
the server's clock a document is the server's version (`CameFromServer`), so a
dialog that keeps this side keeps what is the device's own. `Guarded` names for
every live file a device that has it, or a newer version, or had one that "Wait
for sync & retry" took from its database and not from its disk: only a push
changes the server's version, and the device that pushes then guards it. The
bytes on the server count for nothing, so a repair may delete there what it
likes. `PushReads`, `SweepReads` and `RepairReads` say that what a job has read
is still so when it acts, which the closed windows give. TLC checks the
invariant (by hand) on two devices with one content at 3 acts and two at 2, and
with two files at 3.

**CouchClient.** What the server took of a write is exactly the batches before
the one a call is at, and that one only where the answer is under way or lost
(`UnderWay`, `Accounted`); a call that gave up has no request to come.

## 7. Only model-checked

The liveness properties (`EventuallySettled` of both modules, `RecoversByItself`,
`ReplacementNoticed`, `EventuallyShared`, `EveryCallEnds`) are out of the
prover's reach. What `mergeJson` and `decidePull` make
of a key is a lemma of `ConfigSync_proofs` (`Decided`), for any contents.

## 8. What the code does that its comments or a reader may not expect

Met while modelling; the models have them, so the properties are stated around
them.

- Deletions. A file that is gone, has no baseline and is this device's by its
  last writer or the manifest is decided to be deleted (`reconciler.ts:528`,
  898-910) and counted as deleted, but `markDeleted` returns without a tombstone:
  it takes a missing baseline for a version the vault never held
  (`vault-sync.ts:1073-1086`). If the last writer says so, that repeats on every
  pass and the path stays out of sync; if only the manifest did, the next pass
  restores the file. `reconciler.ts:66` speaks of "Files tombstoned because the
  device deleted them while not watching".
- Conflicts. An answer that throws (`conflict-orchestrator.ts:217-228, 330-346`;
  a chunk that cannot be read or fetched is enough) counts as resolved and
  clears the conflict's durable record, with nothing written: both loops are
  past the file, and nothing tells of the difference until an end is edited.
  `pending-conflict.ts:17` promises "resolving it or remembering it for
  re-presentation". A version that a drain writes late does the same to a newer
  conflict of its path (`pending-apply.ts:256`,
  `conflict-orchestrator.ts:158-175`).
- Vault binding. A live session may take documents of a newer vault
  (`SessionTakesOwn`, section 4); `pull-pipeline.ts:22` says that a re-created
  database "pauses the session before anything of it is applied".

- Engine. A reconnect that awaits `verifyReachable` or the teardown of the old
  session when the engine is stopped opens a session afterwards
  (`sync-engine.ts:553`): nothing compares the lifecycle generation, of which
  `sync-engine.ts:161-164` says that such a continuation "must abort rather than
  resurrect a session on a torn-down / closing engine". `StopIsFinal` of
  `EngineLifecycle` states that, and TLC refutes it. A quota halt leaves the
  state it found, "connected" included. The latch of refused credentials may be
  raised while the state shows another error, which then stays. A terminal error
  is left for "reconnecting" by `network-online`, `manual` and `app-resume`. The
  verdict of a verification is acted upon though the state moved meanwhile.
  `enterError` promises to drop the live session, and does so for terminal kinds
  only. An inconclusive verification arms the retry timer although the local
  database is degraded.
- Local database. An operation that finds its handle expired closes the guard's
  handle of that moment (`handle-guard.ts:143`), which may be the fresh one of
  another operation: `ClosesOnlyTheDead` of `LocalStore` says otherwise and TLC
  refutes it, and after one death of the handle two operations can close each
  other's handles until one of them gives up as "degraded". A commit whose
  answer is lost is run again: the builder finds its content and returns
  nothing, so `onCommit` does not fire and the baseline in memory stays behind
  the one on the disk (`write-transaction.ts:94` says it is "fired after the tx
  commits successfully"); `commitOverShown` reports "stale" for what it has
  written; a put of the pull puts the old clock back under a decision made in
  between, after which a clock may name two contents. The echo of a pull is
  recorded up to the sequence read after its transaction (`pull-writer.ts:563`),
  so a `fileToDb` of the same file that commits in between is taken for an echo
  and not pushed before the next edit; `PushPipeline` has both in one step.
- Config sync. A local transaction of a Pull that fails after a file was written
  (`config-sync.ts:1222, 1241, 1257, 1261`) leaves `runOperation` before it sets
  `reload` (607, 629-632), and so does a deleted file whose empty folders cannot
  be removed (1247-1256): the app keeps its old settings and saves them over the
  file one day, against `config-sync.ts:975`, "the app must re-read the files,
  or it writes its in-memory settings back over them". Share again releases a
  declaration unless its path failed or was not available (`op.left`), where
  `config-sync.ts:996-999` says it stays when the content is missing. An edit
  between a Pull's plan and its write is overwritten, and the backup holds the
  planned bytes (`config-sync.ts:1190`). After a crash between a Pull's write
  and the settling of its base, the pulled value looks like this device's change
  (`docs/SETTINGS.md:219` speaks of it). A crash between the two saves of the
  disk-write id drops the device's own bases. A path without a base is sent
  whole, declared keys included.
- Chunks. After a silent merge the local clock stays ahead of the server's
  without being pushed, which keeps the convergence gate of the repair closed
  until `pullAll`. A push that has sent a chunk takes it for durable although a
  repair of another device may remove it; `chunk-repair.ts:207` calls that
  self-healing, as "the owning device re-pushes the content-addressed chunk on
  its next sync", but its next sync has nothing to push: only a repair sends it
  again. A sweep between a pull's commit and the vault write leaves a file whose
  chunk the local database lacks until a repair.
- Client. A signal that is aborted while the body is being compressed is not
  heard by that request, which is sent. The fallback to an uncompressed body
  also follows a lost answer, so a write may be sent again after an unknown
  outcome, and a blip of the network during it switches compression off. With
  two compressed requests in flight, the second one that is refused fails; and a
  probe that fails restores the latch (343), though the other has met a refusal
  since. An abort or a timeout while the text of an error answer is read is
  swallowed (257, 541, 704): the call ends with the server's error. A
  cancellation during the probe surfaces as a network error, one during the
  re-send as a timeout.

## 9. Not modelled

Codecs (the protocol does not depend on the bytes), history, user interface,
settings and logging (presentation and wiring). Of the modelled parts: renames
and folder deletes, case collisions (case F), filters and size limits, the
presentation queue of the conflicts with its debounce and batch dialog, the meta
store's own handle, the schema version and the migrations of the local database,
every duration, hard remote deletions as events, the sweep of the config
database, several servers, the outcome ledger of the vault binding, the split of
a body over the size limit.

# Verification of btrfs-nfs-csi

TLA+ models of btrfs-nfs-csi: an agent that keeps Kubernetes volumes as btrfs
subvolumes and serves them over NFS, and the CSI driver that uses it. The
modules are translated from the Go sources; `PROJECT.json` maps each
definition to the lines it stands for.

To run a check, `tlc -config MCPathLock.cfg MCPathLock` (any pair of the table
in "Runs"); to check the proofs, `tlapm PathLockProofs.tla`.

## 1. Inventory

### Components

| Component | Sources | State | Operations |
|---|---|---|---|
| Entry lock pool | `agent/storage/meta/store.go` 189-260 | `locksMap`: path -> refMutex (count, one-token channel) | `Store.Lock`, `pathLock`, `pathLockCtx`, `makeRelease`, `releaseRef` |
| Metadata store | `agent/storage/meta/store.go` | cache (`sync.Map`), one JSON file per entry | `Get`, `Exists`, `Store`, `Update`, `Delete`, `Range` |
| Volumes, snapshots, clones | `agent/storage/volume.go`, `snapshot.go`, `clone.go`, `storage.go` | directory, subvolume `data/`, metadata, quota | create, clone, snapshot, update, delete, get, list; `loadCache` at start |
| NFS exports | `agent/storage/export.go`, `model.go`, `nfs/kernel.go` | reference list in the metadata; the kernel's table | `CreateVolumeExport`, `DeleteVolumeExport`, `ListVolumeExports` |
| Reconciler | `agent/storage/reconciler.go` | one round's listing | every tick: remove orphans, restore missing exports |
| Background tasks | `agent/storage/task/`, `scrub.go`, `testtask.go` | task map, worker slots, a goroutine and a poller per task, a JSON file per task | `Create`, `Cancel`, `Cleanup`, `SetProgress`, `SetResult`, `loadFromDisk`, `StartScrub` |
| Usage updater | `agent/storage/usage.go` | used bytes, owner and mode in the metadata | every tick: read quotas and `stat`, write drift with `Update` |
| Device statistics | `agent/storage/stats.go`, `btrfs/utils.go` | cached devices (an atomic pointer) | two pollers load, merge and store the list; `IsDegraded` reads it |
| Agent HTTP API | `agent/api/v1/handler*.go`, `middleware.go` | page snapshots with timers and a counter | one handler per endpoint; `paginatedList` |
| Agent client | `agent/api/v1/client/client.go` | none between calls; producer, consumer and byte budget within `paginate` | one method per endpoint, `paginate`, `do` |
| CSI controller | `integrations/kubernetes/controller/` | agent tracker: URL -> client, StorageClass -> URL | create, clone, delete, expand, publish, unpublish, snapshots, listing; discovery and health checks every minute |
| Labels and parameters | `controller/pvc.go`, `agent/storage/utils.go`, `config/config.go`, `cmd/` | the label map and the parameters of an entry | from claims and annotations at creation and publish, from commands, clone origin by the agent |
| CSI node driver | `integrations/kubernetes/driver/` | a mutex per volume; mounts of the machine | stage, unstage, publish, unpublish, statistics |
| Command line client | `cmd/btrfs-nfs-csi/` | none | create, clone, label, set, delete; tables and watch loops |
| btrfs wrapper | `agent/storage/btrfs/` | none | builds commands, parses output |
| Configuration, metrics, packaging | `config/`, `deploy/` ... | none that matters here | constants, counters |

### Interaction

Kubernetes' side-cars and kubelets call the CSI controller and the node driver
over gRPC and retry what fails. The controller calls the agent over HTTP with a
timeout. The agent's handlers run concurrently with each other, with the
reconciler, the usage updater and task goroutines; they share the metadata
store (its cache, its files and the per-entry locks), and the kernel's export
table, which no lock protects. The node driver mounts what the agent exports.
The controller finds its agents through StorageClasses and secrets, which
administrators change under it; the command line is a second client of the agent
that edits and deletes what the controller has made.

### What is hard here

* **Interleavings.** Creating and updating take the entry's lock; deleting,
  reading and the kernel calls after a metadata update do not. The lock pool
  collects its mutexes while others look them up. A progress poller races with
  the end of its task. A timer fires while a request resets it.
* **Partial failure and crashes.** A creation has up to eight steps that fail one
  by one and are undone; the agent can die between any two. Kernel exports
  survive the agent and not the machine, directories survive a reboot and
  mounts do not.
* **Timeouts and retries.** No handler, in the agent or in the node driver, stops
  because its caller has given up: an abandoned call takes effect later, after
  the caller has turned to something else.
* **Stale views.** The tracker's clients, a listing of the reconciler, the labels a
  command has read, the devices a poller has loaded: each is used after it may have
  become wrong.
* **Waiting.** Worker slots, lock tokens, a channel and a byte budget must all be
  given back on every path.

`PROJECT.json` lists the hazards, each at its line, with the properties that
would notice.

### What makes each part correct

* Lock pool: exclusion, no leaked entry, no lost token, every waiter served.
* Store: a committed entry survives whatever else happens to its name; the cache
  serves what is on disk; no update is lost; no lock is left behind.
* Exports: the table holds the referenced IPs, and after failures the reconciler
  brings it back there.
* Tasks: no more running than slots, an outcome stays, a cancel is honoured,
  everything ends.
* Listing: a walk yields a listing that existed; snapshots and goroutines do not
  stay behind; the counter is exact.
* CSI: a pod sees its volume and not the directory below; a mounted volume cannot
  be deleted; the capacity Kubernetes was told is there; attach, expansion and
  reclaim complete whatever failed on the way.
* Controller and agents: what was deleted is gone, the listings, the tracker and the
  reported health come to agree with what really is.
* Labels: protected labels survive every race, the command line deletes only its
  own, annotations come into effect, and a claim is provisioned whatever labels are
  annotated.

## 2. Modules

| Module | Models | Uses |
|---|---|---|
| `EntryLock` | the abstract lock: at most one holder per entry | |
| `PathLock` | `locksMap`, `refMutex`, with cancellable and plain waits | implements `EntryLock` |
| `VolumeStore` | entries on disk and in the cache; all create operations, delete, get, update, crash | `EntryLock` by INSTANCE |
| `VolumeUpdate` | `UpdateVolume`, export references and the usage updater against the file system | `EntryLock` by INSTANCE |
| `NfsExports` | reference lists, kernel table, the parsing of its listing, reconciler | |
| `TaskManager` | tasks, slots, pollers, files, restarts, scrub's duplicate check | |
| `Pagination` | `paginatedList` and `paginate` | |
| `NodeServer` | the node driver's handlers, step by step | |
| `CsiAttach` | one volume, possibly a clone, through controller, agent, nodes and Kubernetes | extends `NodeServer` |
| `DeviceStats` | the cached devices and their two pollers | |
| `AgentTracker` | discovery, the calls that use tracked clients, listings, health checks | extends `DeviceStats` |
| `VolumeLabels` | the labels and parameters of an entry and everybody who writes them | |
| `*Proofs` | theorems about the module of that name (section 4) | extend it |
| `MC*` | instances for TLC | extend the module of that name |

### PathLock

A goroutine goes idle -> waiting (`pathLockShared`, one step under the pool's
mutex: `ShareNew` or `ShareExisting`) -> holding (`Acquire` receives the token) ->
leaving (`Refill`, or `GiveUp` when the context ends) -> idle (`ReleaseRef`). The
heap of refMutexes is a constant set; `Fresh` is one no goroutine and no map
entry refers to, which is what Go's allocation gives. `EntryLock` has one
variable, the holders of each path; `VolumeStore` takes its locks from it.

### VolumeStore

Every file system or cache access is a step. Metadata carries the number of the
create request that made it, the export references (each updater adds and drops
its own) and a snapshot's source volume, which is what the properties tell
apart; sizes, labels, owner and mode are left out (the first and the last two are
in `VolumeUpdate`). `Configure` stands for NOCOW,
compression, quota, owner and mode: each can fail, and the cleanup is the same.
The metadata file is written through a temporary file and renamed, so it is one
step. `Crash` ends all goroutines and runs `loadCache`. Two history variables: `committed`
is the creation of an entry that has reached the disk while no delete of the name was in
progress, and that nobody has since asked to delete; `stale` are the entries for which a
`Get` has cached a file that was replaced or deleted since that `Get` had read it.

### VolumeUpdate

One volume and one snapshot that exist, and whatever changes their metadata:
`UpdateVolume` (validation against the cached metadata, then quota, attributes and
`Store.Update`, each of which may fail), the export references, and the usage
updater, which queries all quotas first, compares each entry of the cache with
what it finds, and writes the difference through `Store.Update`. The truth is kept
beside the metadata: `quota`, `owner` (user, group and mode) and `used`; pods change
the last two (`PodChanges`). The updater takes what it will write from a `stat` before it
waits for the entry's lock, as the code does. Only goroutines in `Sizers` ask for a size.

### NfsExports

`Store.Update` is one step (its races are `VolumeStore`'s subject); the kernel call
is a second one, outside the lock. The list is a sequence because
`DeleteVolumeExport` filters in place, in the array the cache still shares: if
the metadata write then fails, the cache sees a shifted list (`Overwrite`). The
reconciler lists, visits orphans and volumes one by one, and works from its
listing, however old. What it knows of the table comes out of `exportfs -v`: a line
is a path and an address, or, for a path that is too long (`LongPaths`), two lines
that `ParseLine` puts together again; addresses of IPv6 (`V6`) come in brackets. `TableLost` and
`AgentRestart` are the two restarts. `clean` is a history variable: nothing has
failed or been lost, and no two requests overlapped.

### TaskManager

The goroutine of a task persists, waits for a slot, runs, concludes, persists
and stores; the poller makes a copy, stores it by compare and swap and persists
it. Both use the same temporary file, so writing and renaming are two steps.
`ctx` is the task's context. Progress is below 100 or 100, a result absent,
partial or final.

### Pagination

The server's part is the map of snapshots, the counter and the running timers.
Loading a snapshot and resetting its timer are two steps, between which the timer
may fire. Clients without a callback collect; clients with one run a producer and
a consumer with a channel of capacity `Prefetch` and a budget of `MaxBytes`, a
byte per item. A client that gives a request up gets an error while the handler goes on to
reset the timer or store the snapshot (`Answer`); it learns of it when the handler is done.
`listings` is a history variable: the listings that were current
during the walk.

### NodeServer and CsiAttach

The handlers of one volume on a node form a queue, because they hold the volume's
mutex from start to end. The queue is not strict: while the longest waiter is being woken,
a new call may take the mutex (`Enter` with an `Overtake`), once, because the waiter then
finds that it has waited more than a millisecond and `sync.Mutex` hands itself over in
order. `overtaken` is a history variable: the nodes where that has happened since they
booted. A path is absent, a plain directory, mounted, or stale;
the pod's target is mounted rw or ro. `Cleaned` is `cleanupMountPoint`: it may fail
before or after the unmount. `CsiAttach` adds the agent (one step per request, in
the order of the entry lock's queue; the detail is in `VolumeStore` and
`NfsExports`), the controller's mapping of answers (not found is success for
delete and unpublish, exports make a volume busy, a clone is expanded after it was
made and a failed expansion is only logged) and Kubernetes, external: it
calls one stage after the other, retries failures, and on the way down undoes
what may have been reached, not only what was confirmed. Faults of any kind
(failing commands and requests, timeouts, crashes of agent and driver, reboots,
stale mounts, a lost table) draw on one budget. Of sizes, `short` says that the
volume is smaller than its claim, `warned` that the failed expansion of a clone was
logged, `resize` how far the expansion the user asked for has come.

### DeviceStats and AgentTracker

A poller asks the kernel (`IOFetch`, `StatsFetch`), loads the cached list and stores
the merged one: three steps, so that either one's store can be lost. Errors are kept
by device ID by the one and set by path by the other; a missing device keeps its last path
in the listing or has none any more (`Unnamed`, "<missing disk>"), and has no
counters. An agent's health is what `IsDegraded` makes of the cached list.

The tracker's state is `scToURL` and `agents`, a token for each URL. A round is
`ListClasses` (Kubernetes may fail as a whole or for one secret),
`DiscoverFromStorageClasses` (under the lock), `CheckAgent` for every class that had
a client, `RoundEnds`. Calls take the tracked client of the class (`ClientFor`), except
`CreateVolume`, which makes one from the request's secrets and tracks it. An agent
accepts the current token of one of its tenants and works in that tenant's directory
(`store`). Administrators delete and create classes, move agents, to an address that was
another agent's too, and change tokens; the controller restarts; calls fail and answers are
lost. `hosts` is a history variable: which agent has been at which address.

### VolumeLabels

A label map is a set of pairs. `VolumeLabelsOf`, `SnapshotLabelsOf` and `FlagLabels` compute
what the controller and the command line send; the agent validates (`ValidLabels`,
`Required`), and an update is checked against the labels read at that time
(`CheckUpdate`, which puts protected labels back) and replaces the map later
(`WriteUpdate`). A publish, a label command and a delete are a read and a request that
the agent serves later. One key stands for those that always go together. Of the parameters
the two that exclude each other are modelled: a creation that asks for NoCOW and a compression is
refused (`volume.go:27`), so is an update that asks for a compression of a NoCOW volume,
labels included (`:227`), and an update cannot turn NoCOW off (`:263`). User, group and mode,
which are validated one by one, are left out.

## 3. Runs

| Run | Checks | Instance | Result |
|---|---|---|---|
| `path_lock` | MutualExclusion, CountsUsers, IInv, ImplementsEntryLock, WaiterServed | 3 goroutines, 2 paths, 3 refMutexes | holds |
| `volume_races` | CommittedSurvives, ServedIsReal, LockedByWorker | all four create operations: 2 creators, a deleter, an updater, a reader; a volume and a snapshot; 2 creations, 1 crash | holds |
| `volume_update` | QuotaCoversSize, NoLostUpdate, DriftRepaired | 2 request goroutines (one may expand) and the usage updater, 2 requests, 2 faults, 1 change by pods; 2 sizes, owners and usages | holds |
| `delete_vs_export` | ExportedNotDeleted | a creator, a deleter, an updater | **violated** |
| `exports` | QuietInSync, MissingExportRestored, OrphanRemoved | 2 clients, 1 volume with a long path, 2 IPs (one IPv6, one with 2 overlapping label sets), every failure, 1 restart | holds |
| `tasks` | WorkerLimit, ActiveIsAlive, OutcomeStays, CancelHonoured, EveryTaskFinishes | a polling scrub and another task, 1 slot, 1 restart | holds |
| `pagination` | CountExact, MemoryBounded, WalkIsListing, WalkEnds, SnapshotsExpire | a collecting and a streaming client, 2 volumes, pages of 1, a cap of 1 snapshot, 3 walks, 1 early expiry | holds |
| `csi_attach` | PodSeesVolume, InUseIsReferenced, CapacityTold, PodGetsVolume, ReclaimCompletes, ExpansionCompletes | 2 nodes (one read-only), a clone or not, 4 pod moves or an expansion and 3, 2 faults | holds |
| `controller` | SoleDeletedIsGone, ReclaimReached, TrackerConverges, HealthConverges, ListingConverges | 2 classes, tenants and agents, 3 URLs, 2 volumes and a snapshot; or 2 devices, 3 paths and the pollers; 2 events | holds |
| `tenant_binding` | DeletedIsGone | 2 classes with 2 tenants of one agent, 2 volumes | **violated** |
| `labels` | StoredLabelsValid, ProtectedKept, CliDeletesOwn, AnnotationsApplied, ClaimProvisioned | one entry of a claim, of the command line or of an old release; 2 publishes and a command at a time, 3 edits, 4 user keys, NoCOW and a compression, 6 labels at most | holds |
| `label_limit` | LabelLimit | as `labels` | **violated** |

Every property of a run that holds has a mutant in `PROJECT.json`, a plausible
slip in one definition, under which TLC finds it violated. `TypeOK` of each module
documents its variables and holds in the same instances; the configurations do not name
it, to keep the runs to what could really go wrong. Nor do they name the inductive invariants of
section 4 (but `path_lock` does), which hold there too.

### Why the bounds are enough

* *path_lock*: the hazard needs one goroutine that leaves, one that waits and one
  that looks up; the third refMutex makes re-creation of an entry possible while the
  old one is still referenced. The theorems remove the bound.
* *volume_races*: with two creations a name is created, deleted and created again
  while an earlier request still has its cleanup to do, a clone is made beside its source,
  and a snapshot outlives its volume; what needs more is covered by the theorems, which
  have no such bound. In *volume_update* two
  requests and the scan are three writers, one more than a lost update needs; two
  faults let a scan fail after a request has failed or the agent has died.
* *exports*: references of one IP with the labels {a} and {a, b} are the smallest
  overlap for which exact match and subset match differ; two IPs show that one does
  not disturb the other; two clients and one reconciler give every order of the
  kernel calls.
* *tasks*: one slot and two tasks make one wait; one restart at any step.
* *pagination*: two volumes on pages of one need a cursor; a cap of one is reached
  by the first walk; a budget of one byte and a channel of one page make producer
  and consumer wait for each other; four identifiers are more than can be in use.
* *csi_attach*: every single fault and every pair of faults, at every step; a node is
  used, left and used again with four moves. For the safety properties the theorems
  remove the bounds. An expansion is asked for before the first pod and the
  claim is deleted when the resizer is idle: the calls of the two meet the same entry,
  whose serialization is `VolumeUpdate`'s subject.
* *controller*: two events are every pair of changes, failures and lost updates. Claims
  and pollers meet only in the tracker, so that a behaviour has either the one or the
  other (`polling`).
* *labels*: six labels are what a cloned claim with one default and one user label
  needs, so that one more is over the limit; two publishes and a command give every
  order of two stale writes; the three edits are of annotations, of labels and of the
  agent's settings. Names are not used again.

### Fairness

Only where the code or its platform provides it:

* goroutines that can run do run; mounts, requests and callbacks return, with an
  error if need be;
* receivers of a Go channel are served first come, first served, so waiting for
  the lock token is strongly fair; a `sync.Mutex` goes to the longest waiter once that has
  been overtaken and has waited for a millisecond. A task that waits for a worker slot gets no such promise: it ends
  because its timeout does;
* tickers (reconciler, usage updater) and timers (task timeouts, page snapshots) fire;
* `exportfs` may fail any number of times, but not for ever for one export;
* a device poller is not caught between load and store of the other one every time it
  wakes up (the two are microseconds apart, the polls seconds): loads are strongly fair;
* Kubernetes retries ("On failure, Kubernetes retries the operation",
  `docs/integrations/kubernetes/operations.md`): creation, deletion, snapshots, attach
  and expansion. Nothing makes it publish a volume again: `AnnotationsApplied` is about
  the volumes that are published again and again.

Requests, cancels, pod moves, crashes and other faults are never forced.
`CHECK_DEADLOCK FALSE` is set for `tasks`, `pagination` and `labels`, whose behaviours end
when all tasks are gone, all walks are done or the entry is deleted.

### Findings

1. `delete_vs_export`: `DeleteVolume` checks the exports without the entry's lock. An
   export that is added between the check and `SubvolumeDelete` loses its volume,
   although the API says that deletion "fails if the volume has active exports".
2. `tenant_binding`: the tracker has one client for each agent URL. With two classes
   that name two tenants of one agent, the deletion of one class is done in the tenant
   of the other, finds nothing there, and is answered with success, although "each
   StorageClass binds one agent and one tenant" (`docs/integrations/kubernetes/architecture.md`).
3. `label_limit`: an update is checked for at most 32 labels before the immutable labels it
   left out are put back (`volume.go:213`, `utils.go:72`), so an entry can have more, although
   `docs/integrations/kubernetes/configuration.md` says "max 32 total".

### Limits of the results

* `CommittedSurvives` is about creations that commit while no delete of their name is in
  progress: `DeleteVolume` works without the lock, and with metadata that `Get` may have put
  into the cache after the volume was gone. `ServedIsReal` has deletes and updates beside the
  reads, and ends for an entry when `Get`'s unlocked fill has put an outdated file into the cache
  (`stale`): without that exception TLC finds the metadata from before an update served for
  good (20 states), the hazard at `meta/store.go:106`. After a restart `loadCache` skips an entry whose
  `data/` is gone, but a `Get` still serves it from the metadata file.
* `NoLostUpdate` is about what a write carries along and did not ask for, in entries that are in
  the cache. What it asks for can itself be old: the usage updater stats the owner before it waits for
  the lock and writes it under the lock (`usage.go:61`, `:115`), so that an owner `UpdateVolume`
  has set meanwhile is lost from the metadata until the next scan, which is what `DriftRepaired` shows.
* `PodSeesVolume` and `InUseIsReferenced` except the nodes where a call was overtaken at the
  volume's mutex. There they are false: an unpublish that the kubelet has given up and that is
  overtaken by the publish of the next pod unmounts under that pod (TLC finds it in 26 states),
  and a stage or publish that was given up mounts after the detach has removed the reference (24
  states; `ReclaimCompletes` excepts what such a mount leaves behind, too), because no handler looks at its context after `Lock` (hazard at `driver.go:68`).
* `QuotaCoversSize` holds for one expansion at a time. With both goroutines in `Sizers`
  TLC finds the metadata promising more than the quota: `UpdateVolume` sets the quota
  outside the entry's lock (hazard at `volume.go:220`). CSI's expansion is one call
  at a time for a volume; the agent's API is not.
* `DriftRepaired` shows that the usage of a volume becomes right again, not that it is
  never wrong: with a changed owner and a failed quota query the updater writes zero
  used bytes until its next scan (`usage.go:119`).
* Two scrub requests can pass the duplicate check together (`scrub.go:15`): `TaskManager`
  has both steps, but `tasks` has a single scrub, so that overlap is in no run, and no
  property says that there is one scrub.
* `CloneVolume` reads the source's size and owner before it waits for the target's lock
  (`volume.go:352`). A source deleted and created again meanwhile gives the clone the data
  of the new volume and the quota of the old one; no property is about that.
* A failed `Unexport` of a volume that lives is never repaired: the reconciler removes only
  exports of paths that no longer exist (`export.go:78` says it "will clean up").
* `OutcomeStays` is about the running agent. The poller's late write can put a running state
  over the final one in the task's file, and after a restart the task is shown as failed.
* `CapacityTold` excludes the clone whose expansion failed: it is logged, answered with
  success, and nothing expands it later (`volumes.go:182`).
* `ReclaimReached` excludes a class that is gone and a token that was changed: the tracked
  client keeps the old one until a `CreateVolume` of that URL or a restart.
* `SoleDeletedIsGone` is about tenants whose agent serves no other tenant and whose addresses
  were never another agent's. Without these conditions `DeletedIsGone` fails: with two tenants of
  one agent (`tenant_binding`), and in the instance of `controller` after an agent has taken over an
  address the tracker still has for another one (in nine states).
* `ListingConverges` is about listings without a limit. A limited one is cut between agents and no
  answer carries a token to go on with (`volumes.go:81`), so that what is left out cannot be
  listed; no property says otherwise. It excepts classes whose token was changed.
* `HealthConverges` excepts the error counters of a device that is missing without a path: they
  are set by path, and such devices share one.
* `ProtectedKept` and `CliDeletesOwn` exclude the created-by of a volume from before 0.10.0,
  which two updates that both found it empty can set one after the other. `StoredLabelsValid` is
  the bound that holds instead of `LabelLimit`: immutable labels, and that created-by, are put back
  after the validation.
* `ClaimProvisioned` excludes claims whose name is no valid label value, and claims other than clones
  that ask for NoCOW together with a compression, as the annotations in
  `docs/integrations/kubernetes/operations.md:75` do: they stay pending. It assumes that the
  default labels leave room for the others (`LabelsFit`).
* `AnnotationsApplied` excepts a volume whose annotations the agent refuses as they are: a
  compression annotated for a NoCOW volume refuses the labels, too. That NoCOW is turned off by an
  annotation it does not ask for, since the agent ignores that.
* Seen while reading and not in a model: `CloneVolume` reads its source before it locks the
  target (`volume.go:352`), so a source that is deleted and created again meanwhile gives its
  old settings to a copy of its new data; a relative expansion of the command line is a read and a write
  (`cmd/btrfs-nfs-csi/volume.go:183`).
* `PodGetsVolume` excludes a staging mount that has gone stale after staging or that an overtaken
  unstage has removed.
* A read-only pod can get a writable mount when the driver dies between bind mount
  and remount (hazard at `node.go:127`).
* `WalkIsListing` excludes cancelled walks, whose listing may be cut short without an
  error; after an expired cursor the listing follows the pages already delivered.
* The cap of page snapshots can be exceeded by the requests that pass the check
  together, and the byte budget by one page; `MemoryBounded` is the bound that holds. It counts
  one request per client: a client that gives up a request and sends the next one before the
  handler of the first has stored its snapshot is not modelled.
* In `csi_attach` an expansion is asked for when no earlier one is still queued, and in `VolumeStore`
  a metadata file that exists can be read; both are bounds of the model.

## 4. Proofs

Eight modules hold theorems, each about the module it extends; all hold for every value of
the constants that satisfies the assumptions named there. `PROJECT.json` lists the theorems.

| Module | Theorems (property) | Assumptions and hypotheses |
|---|---|---|
| `PathLockProofs` | `PoolInvariant`, `PoolMutualExclusion` (MutualExclusion), `PoolDoesNotLeak` (CountsUsers), `PoolImplementsEntryLock` (ImplementsEntryLock) | `ThreadsFinite`, `NoMutexIsNil` |
| `VolumeStoreProofs` | `StoreInvariant`, `CommittedSurvive` (CommittedSurvives), `ServedAreReal` (ServedIsReal), `LocksReleased` (LockedByWorker) | `NamesDisjoint`, `KindsDisjoint`, `Bounds`, `NoneIsNoMetadata` |
| `VolumeUpdateProofs` | `UpdateInvariant`, `UpdatesKept` (NoLostUpdate), `QuotaCovers` (QuotaCoversSize) | `SizersUpdate`, `Magnitudes`; `QuotaCovers`: at most one goroutine asks for sizes (`OneSizer`) |
| `TaskManagerProofs` | `TaskInvariant`, `TasksWithinLimit` (WorkerLimit), `ShownTasksAreAlive` (ActiveIsAlive), `OutcomesStay` (OutcomeStays), `CancelsHonoured` (CancelHonoured) | `TaskKinds`, `Slots`, `NoneIsNoState` |
| `AgentTrackerProofs` | `DeletedAreGone` (SoleDeletedIsGone) | `TrackerAssumption` |
| `PaginationProofs` | `ListingIsSorted`, `ListingInvariant`, `SnapshotsCounted` (CountExact), `MemoryIsBounded` (MemoryBounded), `WalksAreListings` (WalkIsListing) | `Sizes`, `ClientsFinite`; `MemoryIsBounded`: the client has a budget (MaxBytes > 0) |
| `VolumeLabelsProofs` | `LabelInvariant`, `StoredLabelsAreValid` (StoredLabelsValid), `ProtectedLabelsKept` (ProtectedKept), `CommandsDeleteOwn` (CliDeletesOwn) | `FiniteLabels`, `ListsOfPairs`, `KeysSorted`, `LabelsFit` |
| `CsiAttachProofs` | `AttachInvariant`, `PodsSeeVolume` (PodSeesVolume), `InUseAreReferenced` (InUseIsReferenced), `CapacityIsTold` (CapacityTold) | `FaultsAssumption`, `AttachAssumption` |

The assumptions say what kind of thing a constant is (finite sets, natural numbers, disjoint
names), except `LabelsFit` (the default labels leave room for the driver's own) and the cap in
`Sizes`, which is not zero because the code replaces zero by its default (`handler.go:71`). Two
theorems have a hypothesis: behind `OneSizer` the property is false, as described under "Limits of the
results", and without a byte budget (`MaxBytes` = 0) there is none to keep.

Each proof has the same shape: an inductive invariant `IInv` in the module itself (TLC checks
it, as it has checked `WInv` below, on the run's instance before anything is proved), one lemma for the initial states, one for
each action or group of actions, and a last step that combines them. Why the properties are
not inductive by themselves, and what `IInv` adds:

* *PathLock.* A second goroutine could hold the token of another refMutex for the same path.
  Everybody works on the refMutex the map has for the path (`SharedIsMapped`), the count is the
  number of users (otherwise `releaseRef` could delete an entry in use), two paths share no
  refMutex (`NoAliasing`), and the token is in the channel exactly while nobody holds
  (`TokenIsFree`). The refinement maps the holders of a path to the goroutines between
  `Acquire` and `Refill`.
* *VolumeStore.* A creator that fails removes what it finds under the name, a delete destroys
  what it no longer looks at. From lock to unlock a goroutine holds its entry (`LockHeld`), and
  while an entry is committed no creator of the name is making or cleaning up, and no delete
  is before its final `rmdir`, which a non-empty directory refuses (`CommittedAlone`). For
  `ServedIsReal`, the metadata of a committed entry without an outdated fill describes its
  subvolume (`DescribesData`), an updater of it works with the file as it is, and who is about to
  store in the cache has what the file says (`WorksWithFile`).
* *VolumeUpdate.* Who is inside `Store.Update` holds the lock with the cached metadata in hand
  (`InsideUpdate`), and cache and file differ only between write and publication
  (`CacheIsFile`). For the quota, an expansion that has still to set it will not lower it below
  what file or cache say, and one that has set it is covered (`SizesCovered`): this is where a
  second expansion would break in.
* *TaskManager.* State, copy in the goroutine's hands, slot and place of goroutine and poller
  follow one life (`StateFollowsLife`, `LocalFollowsLife`); a running task keeps its slot until
  another state is stored (`RunsOnSlot`), so that the number of slots bounds the tasks.
* *AgentTracker.* A deletion must not be answered by another agent: a URL that the tracker has, or
  that a round has found and not yet stored, was once that of the class's agent (`URLsAreOwn`), so
  that the history `hosts` tells whether anybody else can be there. What the theorem adds to the
  run: tokens, rounds and calls in any number.
* *Pagination.* A request that has passed the check of the cap counts as if it had stored, and one
  on its way was sent when there was budget (`CapKept`, `BudgetKept`). The counter is exact
  because both `Expire` and `StoreSnapshot` change it together with the map. For
  `WalkIsListing` the proof module has a second invariant, `WInv`, about the pages that were
  delivered and those on the way (in the channel or in the producer's hands): joined, they end
  with what a listing of this walk has before the cursor, and the rest is in the snapshot the
  cursor names, if it is still there (`Fetched`, `Reached`); if it has expired, the answer is a
  new listing from its start. That the pages join to a given sequence is stated by the partial
  sums (`Joins`), a function that each step extends or shortens by one, so that no induction
  over the channel is needed.
* *VolumeLabels.* Between check and write of an update others write. What was checked has exactly
  the protected labels the entry has now, because nobody can change those in between; what is
  sent does not exceed the limit together with what will be put back; what a command found to be
  its own stays its own (`CallsSound`). A restart of the agent, which may change what is
  protected, ends the calls that were checked.
* *CsiAttach.* A request that its sender has given up is still served, later than its repetition
  or its opposite was sent. What saves the protocol is the order of the queues and that answers are
  about the last request: an attached node has nothing queued any more that takes its reference away
  (`AttachFits`), a success means that the node's queue is empty and the mounts are as asked for
  (`CallsFit`), and a node has mounts and handlers only of stages it may have reached
  (`MountsFit`), while Kubernetes undoes what may have been reached (`StagesFit`). For the
  capacity, when the claim gets bound no creation is queued, and the expansion of a clone is the
  only request about a claim that is still new (`SizeFits`). On a node where a call was
  overtaken the order is gone, and what of the invariant rests on it is claimed for the other nodes
  only.

What attempts at proofs changed:

* `CommittedSurvives` was false beyond the run's bound: with four creations `CreateSnapshot`'s
  unlocked `Get` refills the cache with the metadata of a deleted volume, a later delete believes
  it and destroys what was committed meanwhile. It is now about creations that commit while no
  delete of the name is in progress.
* `StoredLabelsValid` had a bound too small by one: the created-by of a volume from before 0.10.0,
  filled in by one update, is put back by another one that was validated without it.
* `TaskManager`'s `Outcome` chose among overlapping CASE guards; it now follows the order of the
  code's conditions. `Pagination`'s listing is defined by rank, which the prover can expand.

Model-checked only:

* all liveness, which is out of the prover's reach: `WaiterServed`,
  `DriftRepaired`, `MissingExportRestored`, `OrphanRemoved`, `EveryTaskFinishes`, `WalkEnds`,
  `SnapshotsExpire`, `PodGetsVolume`, `ReclaimCompletes`, `ExpansionCompletes`, `ReclaimReached`,
  `TrackerConverges`, `HealthConverges`, `ListingConverges`, `AnnotationsApplied`, `ClaimProvisioned`;
* `NfsExports`' `QuietInSync`: it is about what filtering a list and joining lines of a listing
  leave, which are inductions over sequences;
* the lower bound of `Pagination`'s counters.

Every other safety property that a run finds to hold is a theorem.

## 5. Plan

1. An abstract volume service that `CsiAttach` assumes of the agent in one step per
   request, and the detailed modules shown to implement it.
2. The parsing of quota listings and scrub status as operators checked against reference
   definitions.

## 6. Not modelled

* btrfs, exportfs and mount utilities: external commands, modelled by their effects and
  failures; of the parsing of their output, devices, error counters and export listings are
  modelled, quotas, scrub status and file system usage are not.
* TLS, validation of names, label filters of listings and the mapping of entries to JSON:
  refusals and conversions that change no state.
* `NodeGetVolumeStats`, capability and identity calls: they read and change nothing.
* The command line's tables, sorting, watch and wait loops, and its commands that pass one
  request on.
* Metrics, logging, the generated API documentation and deployment files.
* File system errors below the level of an operation that fails as a whole, and a loss
  of power that loses writes the operating system had accepted.

---------------------------- MODULE VolumeStore ----------------------------
(***************************************************************************)
(* The life of volumes and snapshots in agent/storage: a directory, a      *)
(* btrfs subvolume (data/) and a metadata file per entry on disk, and the  *)
(* write-through cache of agent/storage/meta in front of the file.         *)
(*                                                                         *)
(* Requests run as goroutines and interleave at every file system or cache *)
(* access.  Creating and updating take the per-entry lock (EntryLock, which*)
(* PathLock implements); deleting and reading do not.  The agent may die   *)
(* between any two steps; it then restarts and runs loadCache.             *)
(***************************************************************************)
EXTENDS Naturals, FiniteSets

CONSTANTS Volumes, Snapshots,   \* names of the two stores
          Creators,             \* goroutines in CreateVolume, CreateSnapshot, ...
          Deleters,             \* goroutines in DeleteVolume, DeleteSnapshot
          Updaters,             \* goroutines in Store.Update
          Readers,              \* goroutines in GetVolume, GetSnapshot
          CreateOps,            \* the create operations that are requested
          MaxCreates,           \* bound: create requests in a behaviour
          MaxCrashes,           \* bound: agent restarts in a behaviour
          None

Entries == Volumes \cup Snapshots
Procs == Creators \cup Deleters \cup Updaters \cup Readers

ASSUME NamesDisjoint == Volumes \cap Snapshots = {} /\ None \notin Entries

(* A goroutine serves one request.                                         *)
ASSUME KindsDisjoint ==
    /\ Creators \cap (Deleters \cup Updaters \cup Readers) = {}
    /\ Deleters \cap (Updaters \cup Readers) = {} /\ Updaters \cap Readers = {}

ASSUME Bounds == MaxCreates \in Nat /\ MaxCrashes \in Nat /\ None \notin Nat

VARIABLES pc,           \* the next step of each goroutine
          req,          \* its request and locals
          holders,      \* the per-entry locks (EntryLock)
          cache,        \* Store.cache: entry -> metadata or None
          meta,         \* the metadata file: entry -> metadata or None
          data,         \* the subvolume data/: entry -> number of the request that made it
          dir,          \* does the entry's directory exist
          creates,      \* create requests so far
          crashes,      \* restarts so far
          committed,    \* history: creation that must survive, see CommittedSurvives
          stale         \* history: entries for which Get cached an outdated file

vars == <<pc, req, holders, cache, meta, data, dir, creates, crashes, committed, stale>>
disk == <<meta, data, dir>>
ghosts == <<creates, crashes, committed, stale>>

Lock == INSTANCE EntryLock WITH Threads <- Procs, Paths <- Entries

(* Metadata: the request that created the entry, the export references in  *)
(* it (each updater adds and drops its own), a snapshot's source volume.   *)
Metadata == [id : 1..MaxCreates, exports : SUBSET Updaters, volume : Volumes \cup {None}]

ASSUME NoneIsNoMetadata == None \notin Metadata

Ops == {"none", "CreateVolume", "CloneVolume", "CreateSnapshot", "CreateClone",
        "DeleteVolume", "DeleteSnapshot", "AddExport", "DropExport", "Get"}

(* A request's locals: what it works on, which Get it is in (of its source,*)
(* of the volume a source snapshot was taken of, of the entry itself), the *)
(* metadata it holds, and the number of a create request.                  *)
Requests == [op : Ops, e : Entries \cup {None}, src : Entries \cup {None},
             get : {"src", "vol", "self"}, vol : Volumes \cup {None},
             val : Metadata \cup {None}, id : 0..MaxCreates]

PCs == {"idle", "lock", "load", "read", "fill", "mkdir", "subvol", "configure",
        "write", "cacheStore", "cleanSubvol", "unlock",
        "delSubvol", "delCache", "removeEntries", "rmdir"}

TypeOK ==
    /\ pc \in [Procs -> PCs]
    /\ req \in [Procs -> Requests]
    /\ holders \in [Entries -> {{}} \cup {{p} : p \in Procs}]
    /\ cache \in [Entries -> Metadata \cup {None}]
    /\ meta \in [Entries -> Metadata \cup {None}]
    /\ data \in [Entries -> (1..MaxCreates) \cup {None}]
    /\ dir \in [Entries -> BOOLEAN]
    /\ creates \in 0..MaxCreates
    /\ crashes \in 0..MaxCrashes
    /\ committed \in [Entries -> (1..MaxCreates) \cup {None}]
    /\ stale \in SUBSET Entries

Idle == [op |-> "none", e |-> None, src |-> None, get |-> "self", vol |-> None,
         val |-> None, id |-> 0]
Empty == [e \in Entries |-> None]

Init ==
    /\ pc = [p \in Procs |-> "idle"]
    /\ req = [p \in Procs |-> Idle]
    /\ Lock!Init
    /\ cache = Empty
    /\ meta = Empty
    /\ data = Empty
    /\ dir = [e \in Entries |-> FALSE]
    /\ creates = 0
    /\ crashes = 0
    /\ committed = Empty
    /\ stale = {}

Goto(p, l) == pc' = [pc EXCEPT ![p] = l]
Return(p) == Goto(p, "idle") /\ req' = [req EXCEPT ![p] = Idle]
Op(p) == req[p].op
Entry(p) == req[p].e
-----------------------------------------------------------------------------
(* Requests arrive.                                                        *)
Call(p, op, src, e, first) ==
    /\ pc[p] = "idle"
    /\ Goto(p, first)
    /\ req' = [req EXCEPT ![p] = [op |-> op, e |-> e, src |-> src,
                                  get |-> IF src = None THEN "self" ELSE "src",
                                  vol |-> None, val |-> None,
                                  id |-> IF p \in Creators THEN creates + 1 ELSE 0]]
    /\ UNCHANGED <<holders, cache, disk, crashes, stale>>

CallCreate(p, op, src, e, first) ==
    /\ op \in CreateOps
    /\ creates < MaxCreates
    /\ Call(p, op, src, e, first)
    /\ creates' = creates + 1
    /\ UNCHANGED committed

CreateVolume(p, e) == CallCreate(p, "CreateVolume", None, e, "lock")
CloneVolume(p, src, e) == CallCreate(p, "CloneVolume", src, e, "load")
CreateSnapshot(p, src, e) == CallCreate(p, "CreateSnapshot", src, e, "load")
CreateClone(p, src, e) == CallCreate(p, "CreateClone", src, e, "load")

(* A delete request ends the obligation to keep the entry.                 *)
CallDelete(p, op, e, first) ==
    /\ Call(p, op, None, e, first)
    /\ committed' = [committed EXCEPT ![e] = None]
    /\ UNCHANGED creates

DeleteVolume(p, e) == CallDelete(p, "DeleteVolume", e, "load")

(* DeleteSnapshot asks Exists, which looks at the cache only.              *)
DeleteSnapshot(p, e) == CallDelete(p, "DeleteSnapshot", e, "load")

(* Store.Update, as CreateVolumeExport and DeleteVolumeExport call it.      *)
Update(p, op, e) ==
    /\ Call(p, op, None, e, "lock")
    /\ UNCHANGED <<creates, committed>>

(* GetVolume, GetSnapshot.                                                 *)
GetEntry(p, e) == Call(p, "Get", None, e, "load") /\ UNCHANGED <<creates, committed>>
-----------------------------------------------------------------------------
(* Store.Lock and Store.Update's pathLock.                                 *)
TakeLock(p) ==
    /\ pc[p] = "lock"
    /\ Lock!Acquire(p, Entry(p))
    /\ Goto(p, "load")
    /\ req' = [req EXCEPT ![p].get = "self"]
    /\ UNCHANGED <<cache, disk, ghosts>>

(* A creator's context ends while it waits: ErrBusy.                       *)
LockTimeout(p) ==
    /\ pc[p] = "lock"
    /\ p \in Creators
    /\ Return(p)
    /\ UNCHANGED <<holders, cache, disk, ghosts>>

(* The deferred unlock.                                                    *)
Unlock(p) ==
    /\ pc[p] = "unlock"
    /\ holders' = [holders EXCEPT ![Entry(p)] = @ \ {p}]
    /\ Return(p)
    /\ UNCHANGED <<cache, disk, ghosts>>

WantedBy(r) == CASE r.get = "src" -> r.src
                 [] r.get = "vol" -> r.vol
                 [] r.get = "self" -> r.e

Wanted(p) == WantedBy(req[p])

(* Get returned metadata m.  An existing entry ends a create; exports in   *)
(* the metadata end a DeleteVolume; CreateClone goes on to the volume its  *)
(* source snapshot was taken of.                                           *)
Found(p, m) ==
    LET get == req[p].get IN
    \/ /\ get = "src" /\ Op(p) = "CreateClone"
       /\ Goto(p, "load")
       /\ req' = [req EXCEPT ![p].get = "vol", ![p].vol = m.volume, ![p].val = None]
    \/ /\ get = "vol" \/ (get = "src" /\ Op(p) # "CreateClone")
       /\ Goto(p, "lock")
       /\ req' = [req EXCEPT ![p].val = None]
    \/ /\ get = "self" /\ p \in Creators
       /\ Goto(p, "unlock")
       /\ req' = [req EXCEPT ![p].val = None]
    \/ /\ get = "self" /\ p \in Updaters
       /\ Goto(p, "write")
       /\ req' = [req EXCEPT ![p].val = m]
    \/ /\ get = "self" /\ p \in Deleters /\ m.exports = {}
       /\ Goto(p, "delSubvol")
       /\ req' = [req EXCEPT ![p].val = None]
    \/ /\ get = "self" /\ (p \in Readers \/ (p \in Deleters /\ m.exports # {}))
       /\ Return(p)

(* Get returned an error.  CreateClone does without the volume; a missing  *)
(* source, or a missing entry to read or delete, ends the request.         *)
NotFound(p) ==
    LET get == req[p].get IN
    \/ get = "vol" /\ Goto(p, "lock") /\ UNCHANGED req
    \/ get = "self" /\ p \in Creators /\ Goto(p, "mkdir") /\ UNCHANGED req
    \/ get = "self" /\ p \in Updaters /\ Goto(p, "unlock") /\ UNCHANGED req
    \/ get = "src" /\ Return(p)
    \/ get = "self" /\ p \in Deleters \cup Readers /\ Return(p)

(* cache.Load, in Get and in Exists.  Only Get goes on to the disk.        *)
CacheLoad(p) ==
    /\ pc[p] = "load"
    /\ LET m == cache[Wanted(p)] IN
         \/ m # None /\ Found(p, m)
         \/ m = None /\ Op(p) = "DeleteSnapshot" /\ Return(p)
         \/ m = None /\ Op(p) # "DeleteSnapshot" /\ Goto(p, "read") /\ UNCHANGED req
    /\ UNCHANGED <<holders, cache, disk, ghosts>>

(* readJSON in Get.                                                        *)
DiskRead(p) ==
    /\ pc[p] = "read"
    /\ LET m == meta[Wanted(p)] IN
         \/ m = None /\ NotFound(p)
         \/ m # None /\ Goto(p, "fill") /\ req' = [req EXCEPT ![p].val = m]
    /\ UNCHANGED <<holders, cache, disk, ghosts>>

(* cache.Store in Get: what was read from the disk then is cached now,     *)
(* outdated or not.                                                        *)
CacheFill(p) ==
    LET e == Wanted(p) IN
    /\ pc[p] = "fill"
    /\ cache' = [cache EXCEPT ![e] = req[p].val]
    /\ stale' = IF req[p].val = meta[e] THEN stale ELSE stale \cup {e}
    /\ Found(p, req[p].val)
    /\ UNCHANGED <<holders, disk, creates, crashes, committed>>
-----------------------------------------------------------------------------
(* The create operations, under the entry's lock.                          *)

(* Mutant: a failed MkdirAll returns before the deferred unlock.           *)
MkdirKeepsLock(p) ==
    /\ pc[p] = "mkdir"
    /\ \/ /\ dir' = [dir EXCEPT ![Entry(p)] = TRUE]
          /\ Goto(p, "subvol")
          /\ UNCHANGED req
       \/ /\ Return(p)
          /\ UNCHANGED dir
    /\ UNCHANGED <<holders, cache, meta, data, ghosts>>

(* os.MkdirAll; its failure ends the request.                              *)
Mkdir(p) ==
    /\ pc[p] = "mkdir"
    /\ \/ /\ dir' = [dir EXCEPT ![Entry(p)] = TRUE]
          /\ Goto(p, "subvol")
       \/ /\ Goto(p, "unlock")
          /\ UNCHANGED dir
    /\ UNCHANGED <<req, holders, cache, meta, data, ghosts>>

(* SubvolumeCreate or SubvolumeSnapshot.  An existing target is left alone *)
(* and reported, except that a snapshot may succeed inside it; any other   *)
(* failure removes the directory, after CloneVolume has also tried to      *)
(* delete the subvolume.                                                   *)
MakeSubvol(p) ==
    LET e == Entry(p)
        possible == dir[e] /\ (req[p].src # None => data[req[p].src] # None)
        next == IF Op(p) = "CreateSnapshot" THEN "write" ELSE "configure"
    IN
    /\ pc[p] = "subvol"
    /\ \/ /\ possible /\ data[e] = None
          /\ data' = [data EXCEPT ![e] = req[p].id]
          /\ Goto(p, next)
       \/ /\ possible /\ data[e] # None /\ req[p].src # None
          /\ Goto(p, next)
          /\ UNCHANGED data
       \/ /\ possible /\ data[e] # None
          /\ Goto(p, "unlock")
          /\ UNCHANGED data
       \/ /\ Goto(p, IF Op(p) = "CloneVolume" THEN "cleanSubvol" ELSE "removeEntries")
          /\ UNCHANGED data
    /\ UNCHANGED <<req, holders, cache, meta, dir, ghosts>>

(* SetNoCOW, SetCompression, QgroupLimit: one that fails starts the        *)
(* cleanup.  A failing chmod or chown is only logged.                      *)
Configure(p) ==
    /\ pc[p] = "configure"
    /\ Goto(p, "write") \/ Goto(p, "cleanSubvol")
    /\ UNCHANGED <<req, holders, cache, disk, ghosts>>

(* cleanup, first half: a failing SubvolumeDelete is only logged.          *)
CleanSubvol(p) ==
    /\ pc[p] = "cleanSubvol"
    /\ data' = [data EXCEPT ![Entry(p)] = None] \/ UNCHANGED data
    /\ Goto(p, "removeEntries")
    /\ UNCHANGED <<req, holders, cache, meta, dir, ghosts>>
-----------------------------------------------------------------------------
(* The metadata a create or an update writes.                              *)
WrittenBy(p, r) ==
    CASE p \in Creators ->
            [id |-> r.id, exports |-> {},
             volume |-> IF r.op = "CreateSnapshot" THEN r.src ELSE None]
      [] r.op = "AddExport" -> [r.val EXCEPT !.exports = @ \cup {p}]
      [] r.op = "DropExport" -> [r.val EXCEPT !.exports = @ \ {p}]

Written(p) == WrittenBy(p, req[p])

(* Has delete request d still to remove what e consists of: all but its    *)
(* directory, which goes only if it is empty.                              *)
AboutToDelete(d, e) ==
    Entry(d) = e /\ pc[d] \in {"load", "read", "fill", "delSubvol", "delCache", "removeEntries"}

(* Mutant: the cache is updated although the file could not be written.    *)
WriteMetaCachesAnyway(p) ==
    LET e == Entry(p) IN
    /\ pc[p] = "write"
    /\ \/ /\ dir[e]
          /\ meta' = [meta EXCEPT ![e] = Written(p)]
          /\ Goto(p, "cacheStore")
          /\ committed' = IF /\ p \in Creators
                             /\ data[e] = req[p].id
                             /\ \A d \in Deleters : ~AboutToDelete(d, e)
                            THEN [committed EXCEPT ![e] = req[p].id]
                            ELSE committed
          /\ UNCHANGED cache
       \/ /\ cache' = [cache EXCEPT ![e] = Written(p)]
          /\ Goto(p, IF p \in Creators THEN "cleanSubvol" ELSE "unlock")
          /\ UNCHANGED <<meta, committed>>
    /\ UNCHANGED <<req, holders, data, dir, creates, crashes, stale>>

(* writeJSONAtomic: the rename is the commit point; without a directory,   *)
(* or when the disk refuses, nothing changes.                              *)
WriteMeta(p) ==
    LET e == Entry(p) IN
    /\ pc[p] = "write"
    /\ \/ /\ dir[e]
          /\ meta' = [meta EXCEPT ![e] = Written(p)]
          /\ committed' = IF /\ p \in Creators
                             /\ data[e] = req[p].id
                             /\ \A d \in Deleters : ~AboutToDelete(d, e)
                            THEN [committed EXCEPT ![e] = req[p].id]
                            ELSE committed
          /\ Goto(p, "cacheStore")
       \/ /\ Goto(p, IF p \in Creators THEN "cleanSubvol" ELSE "unlock")
          /\ UNCHANGED <<meta, committed>>
    /\ UNCHANGED <<req, holders, cache, data, dir, creates, crashes, stale>>

(* cache.Store at the end of Store and of Update.  After an outdated fill  *)
(* the file of an update may descend from it, that of a creation does not. *)
CacheStore(p) ==
    /\ pc[p] = "cacheStore"
    /\ cache' = [cache EXCEPT ![Entry(p)] = Written(p)]
    /\ stale' = IF p \in Creators THEN stale \ {Entry(p)} ELSE stale
    /\ Goto(p, "unlock")
    /\ UNCHANGED <<req, holders, disk, creates, crashes, committed>>
-----------------------------------------------------------------------------
(* Deleting: no lock is taken.                                             *)

(* SubvolumeDelete; its failure ends the request.                          *)
DelSubvol(p) ==
    /\ pc[p] = "delSubvol"
    /\ \/ /\ data[Entry(p)] # None
          /\ data' = [data EXCEPT ![Entry(p)] = None]
          /\ Goto(p, "delCache")
          /\ UNCHANGED req
       \/ /\ Return(p)
          /\ UNCHANGED data
    /\ UNCHANGED <<holders, cache, meta, dir, ghosts>>

(* Store.Delete.                                                           *)
DelCache(p) ==
    /\ pc[p] = "delCache"
    /\ cache' = [cache EXCEPT ![Entry(p)] = None]
    /\ Goto(p, "removeEntries")
    /\ UNCHANGED <<req, holders, disk, ghosts>>

(* os.RemoveAll of the entry's directory unlinks what is in it and then    *)
(* removes it, which fails when something new has appeared inside.  Both   *)
(* a delete and the cleanup of a failed create end here.                   *)
Finish(p) == IF p \in Creators THEN Goto(p, "unlock") /\ UNCHANGED req ELSE Return(p)

RemoveEntries(p) ==
    /\ pc[p] = "removeEntries"
    /\ \/ /\ meta' = [meta EXCEPT ![Entry(p)] = None]
          /\ data' = [data EXCEPT ![Entry(p)] = None]
          /\ Goto(p, "rmdir")
          /\ UNCHANGED req
       \/ /\ Finish(p)
          /\ UNCHANGED <<meta, data>>
    /\ UNCHANGED <<holders, cache, dir, ghosts>>

(* Mutant: the removal goes on until the directory is gone.                *)
RmdirInsists(p) ==
    LET e == Entry(p) IN
    /\ pc[p] = "rmdir"
    /\ dir' = [dir EXCEPT ![e] = FALSE]
    /\ meta' = [meta EXCEPT ![e] = None] /\ data' = [data EXCEPT ![e] = None]
    /\ Finish(p)
    /\ UNCHANGED <<holders, cache, ghosts>>

Rmdir(p) ==
    LET e == Entry(p) IN
    /\ pc[p] = "rmdir"
    /\ dir' = [dir EXCEPT ![e] = @ /\ ~(meta[e] = None /\ data[e] = None)]
    /\ Finish(p)
    /\ UNCHANGED <<holders, cache, meta, data, ghosts>>
-----------------------------------------------------------------------------
(* loadCache: an entry is served when it has both data/ and metadata.      *)
LoadCache == [e \in Entries |-> IF dir[e] /\ data[e] # None THEN meta[e] ELSE None]

(* The agent dies and starts again: goroutines, locks and the cache go.    *)
Crash ==
    /\ crashes < MaxCrashes
    /\ crashes' = crashes + 1
    /\ pc' = [p \in Procs |-> "idle"]
    /\ req' = [p \in Procs |-> Idle]
    /\ holders' = [e \in Entries |-> {}]
    /\ cache' = LoadCache
    /\ UNCHANGED <<disk, creates, committed, stale>>

Requested(p) ==
    \/ /\ p \in Creators
       /\ \E v \in Volumes : \/ CreateVolume(p, v)
                             \/ \E s \in Volumes : CloneVolume(p, s, v)
                             \/ \E s \in Snapshots : CreateSnapshot(p, v, s)
                             \/ \E s \in Snapshots : CreateClone(p, s, v)
    \/ /\ p \in Deleters
       /\ \/ \E v \in Volumes : DeleteVolume(p, v)
          \/ \E s \in Snapshots : DeleteSnapshot(p, s)
    \/ /\ p \in Updaters
       /\ \E v \in Volumes, op \in {"AddExport", "DropExport"} : Update(p, op, v)
    \/ /\ p \in Readers
       /\ \E e \in Entries : GetEntry(p, e)

Step(p) ==
    \/ Unlock(p) \/ CacheLoad(p) \/ DiskRead(p) \/ CacheFill(p)
    \/ Mkdir(p) \/ MakeSubvol(p) \/ Configure(p) \/ CleanSubvol(p)
    \/ WriteMeta(p) \/ CacheStore(p)
    \/ DelSubvol(p) \/ DelCache(p) \/ RemoveEntries(p) \/ Rmdir(p)

Next == \/ \E p \in Procs : Requested(p) \/ TakeLock(p) \/ LockTimeout(p) \/ Step(p)
        \/ Crash

Spec == Init /\ [][Next]_vars
-----------------------------------------------------------------------------
(* A creation whose metadata reached the disk while no delete request for  *)
(* the name was in progress keeps its subvolume, its metadata and its      *)
(* directory until somebody asks to delete it: neither the cleanup of      *)
(* another creator of the name, nor an update, nor the final rmdir of a    *)
(* delete, nor a crash in any of them destroys it; nor, for a snapshot,    *)
(* the deletion and re-creation of its source volume.                      *)
CommittedSurvives ==
    \A e \in Entries :
        committed[e] # None => dir[e] /\ data[e] = committed[e] /\ meta[e] # None

(* A committed creation is served, and what is served is what the disk     *)
(* holds: the metadata of its file, which describes the subvolume next to  *)
(* it, whatever requests overlap, wherever a write fails and the agent     *)
(* dies; but not after Get has cached a file that was replaced since Get   *)
(* read it, and not between the two stores of Store and Update.            *)
ServedIsReal ==
    \A e \in Entries :
        /\ committed[e] # None /\ e \notin stale
        /\ \A p \in Procs : ~(pc[p] = "cacheStore" /\ Entry(p) = e)
        => cache[e] = meta[e] /\ meta[e].id = data[e]

(* "Fails if the volume has active exports": a delete request never        *)
(* destroys the subvolume of a volume whose metadata lists an export.      *)
ExportedNotDeleted ==
    [][\A d \in Deleters, v \in Volumes :
          /\ pc[d] = "delSubvol" /\ Entry(d) = v
          /\ data[v] # None /\ data'[v] = None
          => meta[v] = None \/ meta[v].exports = {}]_vars

-----------------------------------------------------------------------------
(* The invariant behind CommittedSurvives.  What a goroutine of each kind  *)
(* works on and where it can be, for goroutine p at l with request r.      *)
CreateFits(l, r) ==
    /\ l \notin {"delSubvol", "delCache"} /\ r.id \in 1..MaxCreates
    /\ \/ r.op = "CreateVolume" /\ r.e \in Volumes /\ r.src = None /\ r.get = "self"
       \/ r.op = "CloneVolume" /\ r.e \in Volumes /\ r.src \in Volumes /\ r.get # "vol"
       \/ r.op = "CreateSnapshot" /\ r.e \in Snapshots /\ r.src \in Volumes /\ r.get # "vol"
       \/ /\ r.op = "CreateClone" /\ r.e \in Volumes /\ r.src \in Snapshots
          /\ r.get = "vol" => r.vol \in Volumes

DeleteFits(l, r) ==
    /\ r.get = "self" /\ r.e \in Entries
    /\ l \in {"load", "read", "fill", "delSubvol", "delCache", "removeEntries", "rmdir"}

UpdateFits(l, r) ==
    /\ r.get = "self" /\ r.e \in Volumes /\ r.op \in {"AddExport", "DropExport"}
    /\ l \in {"lock", "load", "read", "fill", "write", "cacheStore", "unlock"}
    /\ l \in {"write", "cacheStore"} => r.val # None

ReadFits(l, r) ==
    r.get = "self" /\ r.e \in Entries /\ l \in {"load", "read", "fill"}

(* A snapshot's metadata names its volume, wherever it is.                 *)
HasVolume(e, m) == e \in Snapshots /\ m # None => m.volume \in Volumes

Fits(p, l, r) ==
    l # "idle" =>
        /\ p \in Creators => CreateFits(l, r)
        /\ p \in Deleters => DeleteFits(l, r)
        /\ p \in Updaters => UpdateFits(l, r)
        /\ p \in Readers => ReadFits(l, r)
        /\ l = "fill" => r.val # None /\ HasVolume(WantedBy(r), r.val)

RequestsFit == \A p \in Procs : Fits(p, pc[p], req[p])

SnapshotsHaveVolume == \A e \in Entries : HasVolume(e, meta[e]) /\ HasVolume(e, cache[e])

(* From TakeLock to Unlock a goroutine holds the lock of its entry.        *)
Inside(p, l, r) ==
    \/ l \in {"mkdir", "subvol", "configure", "write", "cacheStore", "cleanSubvol", "unlock"}
    \/ p \in Creators \cup Updaters /\ r.get = "self" /\ l \in {"load", "read", "fill"}
    \/ p \in Creators /\ l \in {"removeEntries", "rmdir"}

LockHeld == \A p \in Procs : Inside(p, pc[p], req[p]) => holders[req[p].e] = {p}

(* No path through an operation keeps the entry's lock: whoever holds a    *)
(* lock is still on its way to the unlock, and waits for nothing, so       *)
(* nobody waits for a lock for ever.                                       *)
LockedByWorker ==
    \A e \in Entries : \A p \in holders[e] : Inside(p, pc[p], req[p]) /\ Entry(p) = e

(* Nobody is in the middle of making or removing a committed entry.        *)
Harmless(p, l) ==
    /\ p \in Deleters => l = "rmdir"
    /\ p \in Creators => l \in {"lock", "load", "read", "fill", "cacheStore", "unlock"}

CommittedAlone ==
    \A p \in Procs : pc[p] # "idle" /\ committed[req[p].e] # None => Harmless(p, pc[p])

IInv ==
    /\ TypeOK /\ RequestsFit /\ SnapshotsHaveVolume /\ LockHeld
    /\ CommittedAlone /\ CommittedSurvives

(* The invariant behind ServedIsReal.  A committed entry without outdated  *)
(* fill has the metadata of its subvolume; an updater of it works with the *)
(* metadata on the disk; and who is about to store in the cache has that   *)
(* metadata, a creator of a committed entry even after outdated fills.     *)
Genuine(e) == committed[e] # None /\ e \notin stale

DescribesData == \A e \in Entries : Genuine(e) => meta[e].id = data[e]

CreateCurrent(p, l, r) ==
    l = "cacheStore" /\ committed[r.e] # None =>
        meta[r.e] = WrittenBy(p, r) /\ meta[r.e].id = data[r.e]

UpdateCurrent(p, l, r) ==
    l # "idle" /\ Genuine(r.e) =>
        /\ l \in {"fill", "write"} => r.val = meta[r.e]
        /\ l = "cacheStore" => meta[r.e] = WrittenBy(p, r)

WorksWithFile ==
    /\ \A p \in Creators : CreateCurrent(p, pc[p], req[p])
    /\ \A p \in Updaters : UpdateCurrent(p, pc[p], req[p])

Served == DescribesData /\ WorksWithFile /\ ServedIsReal
=============================================================================

---------------------------- MODULE VolumeUpdate ----------------------------
(***************************************************************************)
(* Changes of an existing volume and its snapshot: UpdateVolume (size,     *)
(* owner and mode), the export references and the usage updater, all of    *)
(* which end in Store.Update.  The truth is on the file system: the quota, *)
(* the owner, which pods change over NFS too, and the bytes in use.        *)
(*                                                                         *)
(* Store.Update is a read-modify-write under the entry's lock.  What is    *)
(* done to the file system comes before it and is not under the lock; the  *)
(* entry is in the cache, so Get never falls back to the file.  Quotas are *)
(* enabled, the default.  An owner stands for user, group and mode (a      *)
(* request for one of user and group resets the other to the cached one:   *)
(* that is not told apart).  A size stands for size and quota.  NOCOW,     *)
(* compression and labels are fields like the owner that nobody but the    *)
(* request changes, and are left out.                                      *)
(***************************************************************************)
EXTENDS Naturals

CONSTANTS Updaters,     \* goroutines that serve requests
          Sizers,       \* the ones among them that may ask for a size
          Owners,
          MaxSize, MaxUsed,
          MaxRequests,  \* bound: requests
          MaxDrift,     \* bound: changes by pods
          MaxFaults,    \* bound: failures and crashes
          None

ASSUME SizersUpdate == Sizers \subseteq Updaters
ASSUME Magnitudes == MaxSize \in Nat \ {0} /\ MaxUsed \in Nat \ {0}

Usage == "usage"        \* the goroutine of startUsageUpdater
Procs == Updaters \cup {Usage}
Volume == "volume"
Snapshot == "snapshot"
Entries == {Volume, Snapshot}

VARIABLES file, cache,  \* entry -> metadata
          quota,        \* the volume's qgroup limit
          owner,        \* the owner of its data directory
          used,         \* entry -> bytes its qgroup refers to
          holders,      \* the per-entry locks (EntryLock)
          pc, req, val, \* goroutine -> where it is, its request, the metadata read
          bulk,         \* what the scan's bulk query returned, or None
          left,         \* the entries it has still to visit
          requests, drift, faults

truth == <<quota, owner, used>>
scan == <<bulk, left>>
bounds == <<requests, drift, faults>>
vars == <<file, cache, truth, holders, pc, req, val, scan, bounds>>

Lock == INSTANCE EntryLock WITH Threads <- Procs, Paths <- Entries

Metadata == [size : 1..MaxSize, owner : Owners, used : 0..MaxUsed, refs : SUBSET Updaters]
Requests == [op : {"none", "UpdateVolume", "AddExport", "DropExport", "usage"},
             e : Entries, size : 0..MaxSize, owner : Owners \cup {None}, used : 0..MaxUsed]
NoRequest == [op |-> "none", e |-> Volume, size |-> 0, owner |-> None, used |-> 0]

TypeOK ==
    /\ file \in [Entries -> Metadata] /\ cache \in [Entries -> Metadata]
    /\ quota \in 1..MaxSize /\ owner \in Owners /\ used \in [Entries -> 1..MaxUsed]
    /\ holders \in [Entries -> {{}} \cup {{p} : p \in Procs}]
    /\ pc \in [Procs -> {"idle", "quota", "attributes", "lock", "write", "publish", "scan"}]
    /\ req \in [Procs -> Requests]
    /\ val \in [Procs -> Metadata \cup {None}]
    /\ bulk \in [Entries -> 1..MaxUsed] \cup {None}
    /\ left \subseteq Entries

Init ==
    \E o \in Owners :
        /\ file = [e \in Entries |-> [size |-> 1, owner |-> o, used |-> 1, refs |-> {}]]
        /\ cache = file /\ owner = o
        /\ quota = 1 /\ used = [e \in Entries |-> 1]
        /\ Lock!Init
        /\ pc = [p \in Procs |-> "idle"]
        /\ req = [p \in Procs |-> NoRequest] /\ val = [p \in Procs |-> None]
        /\ bulk = None /\ left = {}
        /\ requests = 0 /\ drift = 0 /\ faults = 0

Goto(p, l) == pc' = [pc EXCEPT ![p] = l]
Fault == faults < MaxFaults /\ faults' = faults + 1 /\ UNCHANGED <<requests, drift>>
Fine == UNCHANGED bounds

(* A request returns; the scan goes on, whether its update failed or not.  *)
Return(p) ==
    /\ Goto(p, IF p = Usage THEN "scan" ELSE "idle")
    /\ req' = [req EXCEPT ![p] = NoRequest] /\ val' = [val EXCEPT ![p] = None]

-----------------------------------------------------------------------------
Call(p, r, first) ==
    /\ pc[p] = "idle" /\ requests < MaxRequests /\ requests' = requests + 1
    /\ req' = [req EXCEPT ![p] = r] /\ Goto(p, first)
    /\ UNCHANGED <<file, cache, truth, holders, val, scan, drift, faults>>

(* UpdateVolume validates against the metadata it reads first: a size must *)
(* not be smaller.  Zero and None are fields the request leaves out.       *)
UpdateVolume(p, size, o) ==
    /\ size > 0 => p \in Sizers /\ size >= cache[Volume].size
    /\ Call(p, [op |-> "UpdateVolume", e |-> Volume, size |-> size, owner |-> o, used |-> 0],
            "quota")

(* CreateVolumeExport and DeleteVolumeExport of a goroutine's own client.  *)
ExportRequest(p, op) == Call(p, [NoRequest EXCEPT !.op = op], "lock")

(* Mutant: a failure of btrfs qgroup limit is logged and forgotten.        *)
SetQuotaLogsError(p) ==
    /\ pc[p] = "quota" /\ Goto(p, "attributes")
    /\ \/ quota' = (IF req[p].size > 0 THEN req[p].size ELSE quota) /\ Fine
       \/ req[p].size > 0 /\ Fault /\ UNCHANGED quota
    /\ UNCHANGED <<file, cache, owner, used, holders, req, val, scan>>

(* btrfs qgroup limit.                                                     *)
SetQuota(p) ==
    /\ pc[p] = "quota"
    /\ \/ /\ quota' = IF req[p].size > 0 THEN req[p].size ELSE quota
          /\ Goto(p, "attributes") /\ Fine /\ UNCHANGED <<req, val>>
       \/ req[p].size > 0 /\ Fault /\ Return(p) /\ UNCHANGED quota
    /\ UNCHANGED <<file, cache, owner, used, holders, scan>>

(* NOCOW, compression, chown and chmod; what was done before one of them   *)
(* fails stays done.                                                       *)
SetAttributes(p) ==
    LET wanted == IF req[p].owner = None THEN owner ELSE req[p].owner
    IN  /\ pc[p] = "attributes"
        /\ \/ owner' = wanted /\ Goto(p, "lock") /\ Fine /\ UNCHANGED <<req, val>>
           \/ owner' \in {owner, wanted} /\ Fault /\ Return(p)
        /\ UNCHANGED <<file, cache, quota, used, holders, scan>>

-----------------------------------------------------------------------------
(* The function that Update is given for request r of p, on metadata m.    *)
Change(p, r, m) ==
    CASE r.op = "AddExport" -> [m EXCEPT !.refs = @ \cup {p}]
      [] r.op = "DropExport" -> [m EXCEPT !.refs = @ \ {p}]
      [] r.op = "UpdateVolume" ->
             [m EXCEPT !.size = IF r.size > 0 THEN r.size ELSE @,
                       !.owner = IF r.owner # None THEN r.owner ELSE @]
      [] r.op = "usage" ->
             [m EXCEPT !.owner = IF r.owner # None THEN r.owner ELSE @, !.used = r.used]

Applied(p, m) == Change(p, req[p], m)

(* Mutant: the lock lets in whoever asks.                                  *)
TakeSharedLock(p) ==
    /\ pc[p] = "lock"
    /\ holders' = [holders EXCEPT ![req[p].e] = @ \cup {p}]
    /\ val' = [val EXCEPT ![p] = cache[req[p].e]] /\ Goto(p, "write")
    /\ UNCHANGED <<file, cache, truth, req, scan, bounds>>

(* Update takes the lock and the metadata from the cache.                  *)
TakeLock(p) ==
    /\ pc[p] = "lock" /\ Lock!Acquire(p, req[p].e)
    /\ val' = [val EXCEPT ![p] = cache[req[p].e]] /\ Goto(p, "write")
    /\ UNCHANGED <<file, cache, truth, req, scan, bounds>>

Unlock(p) == holders' = [holders EXCEPT ![req[p].e] = @ \ {p}]

(* writeJSONAtomic; when it fails nothing has changed.                     *)
WriteMeta(p) ==
    /\ pc[p] = "write"
    /\ \/ /\ file' = [file EXCEPT ![req[p].e] = Applied(p, val[p])]
          /\ Goto(p, "publish") /\ Fine /\ UNCHANGED <<holders, req, val>>
       \/ Fault /\ Unlock(p) /\ Return(p) /\ UNCHANGED file
    /\ UNCHANGED <<cache, truth, scan>>

(* The cache is updated and the lock released.                             *)
Publish(p) ==
    /\ pc[p] = "publish"
    /\ cache' = [cache EXCEPT ![req[p].e] = Applied(p, val[p])]
    /\ Unlock(p) /\ Return(p)
    /\ UNCHANGED <<file, truth, scan, bounds>>

-----------------------------------------------------------------------------
(* updateAll: the bulk query, whose failure leaves no usage map.           *)
StartScan ==
    /\ pc[Usage] = "idle" /\ Goto(Usage, "scan") /\ left' = Entries
    /\ \/ bulk' = used /\ Fine
       \/ bulk' = None /\ Fault
    /\ UNCHANGED <<file, cache, truth, holders, req, val>>

Visit(e, changed, o, bytes) ==
    /\ pc[Usage] = "scan" /\ e \in left /\ left' = left \ {e}
    /\ \/ /\ changed /\ Fine /\ Goto(Usage, "lock")
          /\ req' = [req EXCEPT ![Usage] = [op |-> "usage", e |-> e, size |-> 0,
                                              owner |-> o, used |-> bytes]]
       \/ ~changed /\ Fine /\ UNCHANGED <<pc, req>>
       \/ Fault /\ UNCHANGED <<pc, req>>       \* stat fails, or not in the usage map
    /\ UNCHANGED <<file, cache, truth, holders, val, bulk>>

(* Mutant: a changed owner is written only if the usage has changed too.   *)
VisitVolumeUsage ==
    Visit(Volume, bulk # None /\ bulk[Volume] # cache[Volume].used, owner,
          IF bulk # None THEN bulk[Volume] ELSE 0)

(* A volume of the scan: stat, and the comparison with the cache.  Without *)
(* a usage map a change of the owner is still written, with no bytes used. *)
VisitVolume ==
    Visit(Volume,
          \/ owner # cache[Volume].owner
          \/ bulk # None /\ bulk[Volume] # cache[Volume].used,
          owner, IF bulk # None THEN bulk[Volume] ELSE 0)

(* Then the snapshots, if there is a usage map.                            *)
VisitSnapshot ==
    /\ Volume \notin left
    /\ Visit(Snapshot, bulk # None /\ bulk[Snapshot] # cache[Snapshot].used, None,
             IF bulk # None THEN bulk[Snapshot] ELSE 0)

EndScan ==
    /\ pc[Usage] = "scan" /\ left = {} /\ Goto(Usage, "idle") /\ bulk' = None
    /\ UNCHANGED <<file, cache, truth, holders, req, val, left, bounds>>

-----------------------------------------------------------------------------
(* Pods write, and change the owner over NFS.                              *)
PodChanges ==
    /\ drift < MaxDrift /\ drift' = drift + 1
    /\ \/ \E e \in Entries, b \in 1..MaxUsed :
              /\ b # used[e] /\ used' = [used EXCEPT ![e] = b] /\ UNCHANGED owner
       \/ \E o \in Owners \ {owner} : owner' = o /\ UNCHANGED used
    /\ UNCHANGED <<file, cache, quota, holders, pc, req, val, scan, requests, faults>>

(* The agent dies and starts again with the cache loaded from the files.   *)
Crash ==
    /\ Fault
    /\ cache' = file
    /\ holders' = [e \in Entries |-> {}]
    /\ pc' = [p \in Procs |-> "idle"]
    /\ req' = [p \in Procs |-> NoRequest] /\ val' = [p \in Procs |-> None]
    /\ bulk' = None /\ left' = {}
    /\ UNCHANGED <<file, truth>>

Requested(p) ==
    \/ \E size \in 0..MaxSize, o \in Owners \cup {None} : UpdateVolume(p, size, o)
    \/ \E op \in {"AddExport", "DropExport"} : ExportRequest(p, op)

Step(p) == SetQuota(p) \/ SetAttributes(p) \/ WriteMeta(p) \/ Publish(p)
Scan == StartScan \/ VisitVolume \/ VisitSnapshot \/ EndScan

Next ==
    \/ \E p \in Updaters : Requested(p)
    \/ \E p \in Procs : TakeLock(p) \/ Step(p)
    \/ Scan \/ PodChanges \/ Crash

Spec == Init /\ [][Next]_vars

(* Goroutines run, the lock's waiters are served in order, the ticker of   *)
(* the usage updater ticks.                                                *)
FairSpec ==
    /\ Spec /\ WF_vars(Scan)
    /\ \A p \in Procs : WF_vars(Step(p)) /\ SF_vars(TakeLock(p))

-----------------------------------------------------------------------------
(* No write of the metadata puts back what was read before another one: a  *)
(* client's export reference comes and goes by a request of that client    *)
(* only, and size, owner and usage change only to what the request that    *)
(* writes asks for, never to an older value that came along with it.  What *)
(* the usage updater asks for can itself be old: it stats the owner before *)
(* it waits for the lock, and then writes it over one that UpdateVolume    *)
(* has set meanwhile; that DriftRepaired is about.                         *)
Writing(p, e) == pc[p] = "write" /\ req[p].e = e

NoLostUpdate ==
    [][\A e \in Entries :
          /\ \A p \in Updaters :
                (p \in file'[e].refs) # (p \in file[e].refs) =>
                    Writing(p, e) /\ req[p].op \in {"AddExport", "DropExport"}
          /\ file'[e].size # file[e].size =>
                \E p \in Procs : Writing(p, e) /\ file'[e].size = req[p].size
          /\ file'[e].owner # file[e].owner =>
                \E p \in Procs : Writing(p, e) /\ file'[e].owner = req[p].owner
          /\ file'[e].used # file[e].used =>
                \E p \in Procs : Writing(p, e) /\ file'[e].used = req[p].used]_vars

(* A size that the metadata promises is enforced: the quota is never below *)
(* it, although quota, attributes and metadata are changed one after the   *)
(* other, each may fail, and the agent may die in between.  This needs one *)
(* expansion at a time.                                                    *)
QuotaCoversSize == quota >= file[Volume].size

(* The metadata follows the file system: once pods and requests leave it   *)
(* alone, owner and usage are again what they are on disk, after failed    *)
(* scans and after scans that raced with UpdateVolume's chown.             *)
DriftRepaired ==
    []<>(/\ file[Volume].owner = owner
         /\ \A e \in Entries : file[e].used = used[e])

-----------------------------------------------------------------------------
(* The invariant behind NoLostUpdate.  A goroutine past the start of a     *)
(* request has one; only the sizers ask for a size, with UpdateVolume.     *)
RequestsFit ==
    \A p \in Procs :
        /\ pc[p] \in {"quota", "attributes", "lock", "write", "publish"} => req[p].op # "none"
        /\ req[p].op \in {"AddExport", "DropExport"} => p \in Updaters
        /\ req[p].size > 0 => p \in Sizers /\ req[p].op = "UpdateVolume"

(* Whoever is inside Update is alone on the entry, with the cached         *)
(* metadata, and what it has written is its change of that.                *)
InsideUpdate ==
    \A p \in Procs :
        /\ pc[p] \in {"write", "publish"} =>
               holders[req[p].e] = {p} /\ val[p] = cache[req[p].e]
        /\ pc[p] = "publish" => file[req[p].e] = Applied(p, val[p])

(* Cache and file differ only between the write and the publication.       *)
CacheIsFile ==
    \A e \in Entries :
        file[e] = cache[e] \/ \E p \in Procs : pc[p] = "publish" /\ req[p].e = e

IInv == TypeOK /\ RequestsFit /\ InsideUpdate /\ CacheIsFile

(* The invariant behind QuotaCoversSize, for one expansion at a time: the  *)
(* one that is to set the quota will not lower it below what file or cache *)
(* say, and the one that has set it is covered already.                    *)
OneSizer == \A p, q \in Sizers : p = q

SizesCovered ==
    /\ quota >= file[Volume].size /\ quota >= cache[Volume].size
    /\ \A p \in Procs : req[p].size > 0 =>
           IF pc[p] = "quota"
           THEN req[p].size >= file[Volume].size /\ req[p].size >= cache[Volume].size
           ELSE quota >= req[p].size
=============================================================================

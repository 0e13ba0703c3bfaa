----------------------------- MODULE NodeServer -----------------------------
(***************************************************************************)
(* The CSI node driver (integrations/kubernetes/driver/node.go, mount.go)  *)
(* for one volume on several nodes: staging mounts the volume over NFS,    *)
(* publishing bind mounts its data directory into a pod.                   *)
(*                                                                         *)
(* Every handler holds the volume's mutex of driver.go from its first to   *)
(* its last step, so a node's calls form a queue whose head is the handler *)
(* that runs or is the next to run.  A new call may take the mutex before  *)
(* the one that waits longest is awake; that one then finds that it has    *)
(* waited for mount commands, longer than the millisecond after which a    *)
(* sync.Mutex hands itself over in order, so it is overtaken once.  No     *)
(* handler looks at its context: a call that the kubelet has given up      *)
(* stays in the queue and takes effect.                                    *)
(*                                                                         *)
(* Whatever goes wrong (a command, a process, a machine, the network)      *)
(* takes one unit of the budget MaxFaults.                                 *)
(***************************************************************************)
EXTENDS Naturals, Sequences

CONSTANTS Nodes,
          ReadOnly,   \* the nodes whose pod asks for a read-only volume
          MaxFaults   \* bound: faults of any kind

ASSUME FaultsAssumption == MaxFaults \in Nat

Paths == {"none", "dir", "stale"}       \* stale: stat gives ESTALE, EIO, EACCES
Mounted == {"rw", "ro", "stale"}        \* a bind mount is in place

VARIABLES staging,  \* node -> what is at the staging path
          target,   \* node -> what is at the pod's target path
          calls,    \* node -> handlers waiting for the lock, the running one first
          reply,    \* node -> what the kubelet knows of its last call
          overtaken,  \* the nodes where a call was overtaken since they booted
          kernel,   \* the nodes the NFS server exports the volume to
          faults

node == <<staging, target, calls, reply, overtaken>>

Ops == {"stage", "unstage", "publish", "unpublish"}
Begin == {"start", "wait", "late"}     \* wait: for the lock, late: overtaken
Steps == Begin \cup {"cleanup", "mount", "remount", "undo"}

NodeTypeOK ==
    /\ staging \in [Nodes -> Paths \cup {"nfs"}]
    /\ target \in [Nodes -> Paths \cup {"rw", "ro"}]
    /\ calls \in [Nodes -> Seq([op : Ops, pc : Steps])]
    /\ reply \in [Nodes -> {"none", "awaited", "ok", "error"}]
    /\ overtaken \subseteq Nodes /\ kernel \subseteq Nodes
    /\ faults \in 0..MaxFaults

NodeInit ==
    /\ staging = [n \in Nodes |-> "none"]
    /\ target = [n \in Nodes |-> "none"]
    /\ calls = [n \in Nodes |-> <<>>]
    /\ reply = [n \in Nodes |-> "none"]
    /\ overtaken = {}

Fault == faults < MaxFaults /\ faults' = faults + 1
Fine == faults' = faults

(* A call arrives: it takes the lock, or waits for it behind the others.   *)
Enter(n, op) ==
    /\ calls' = [calls EXCEPT ![n] =
                    Append(@, [op |-> op, pc |-> IF @ = <<>> THEN "start" ELSE "wait"])]
    /\ reply' = [reply EXCEPT ![n] = "awaited"]
    /\ UNCHANGED overtaken

(* It arrives when the lock is free and the call to take it not yet awake, *)
(* and is faster.                                                          *)
Overtake(n, op) ==
    /\ calls[n] # <<>> /\ Head(calls[n]).pc = "wait"
    /\ calls' = [calls EXCEPT ![n] = <<[op |-> op, pc |-> "start"]>>
                    \o [i \in DOMAIN calls[n] |-> [op |-> calls[n][i].op, pc |-> "late"]]]
    /\ reply' = [reply EXCEPT ![n] = "awaited"]
    /\ overtaken' = overtaken \cup {n}

(* The handler that has the lock, and the one that takes it now.           *)
Running(n, op, pc) == calls[n] # <<>> /\ Head(calls[n]) = [op |-> op, pc |-> pc]
Starting(n, op) == \E pc \in Begin : Running(n, op, pc)

Goto(n, pc) ==
    /\ calls' = [calls EXCEPT ![n][1].pc = pc]
    /\ UNCHANGED <<reply, overtaken>>

(* Return and unlock: the kubelet hears of it if it still waits for this   *)
(* call, the last it made.  The others in the queue are overtaken then.    *)
Return(n, result) ==
    /\ calls' = [calls EXCEPT ![n] = Tail(@)]
    /\ reply' = IF /\ reply[n] = "awaited"
                   /\ \A i \in 2..Len(calls[n]) : calls[n][i].pc = "late"
                THEN [reply EXCEPT ![n] = result] ELSE reply
    /\ UNCHANGED overtaken

(* cleanupMountPoint: mount-utils unmounts, by force if it must, and       *)
(* removes the directory; either may fail.                                 *)
Cleaned(before, after, ok) ==
    \/ after = "none" /\ ok /\ Fine
    \/ before # "none" /\ after \in {before, "dir"} /\ ~ok /\ Fault

-----------------------------------------------------------------------------
(* NodeStageVolume's check by stat: any directory counts as mounted.       *)
StageCheckByStat(n) ==
    /\ Starting(n, "stage")
    /\ UNCHANGED <<target, kernel>>
    /\ \/ /\ staging[n] \in {"nfs", "dir"} /\ Return(n, "ok")
          /\ Fine /\ UNCHANGED staging
       \/ /\ staging[n] = "none" /\ Goto(n, "mount")
          /\ Fine /\ staging' = [staging EXCEPT ![n] = "dir"]
       \/ /\ staging[n] = "stale" /\ Goto(n, "cleanup")
          /\ Fine /\ UNCHANGED staging
       \/ /\ Return(n, "error") /\ Fault /\ UNCHANGED staging

(* NodeStageVolume: IsMountPoint and the switch on its answer, MkdirAll.   *)
StageCheck(n) ==
    /\ Starting(n, "stage")
    /\ UNCHANGED <<target, kernel>>
    /\ \/ /\ staging[n] = "nfs" /\ Return(n, "ok")
          /\ Fine /\ UNCHANGED staging
       \/ /\ staging[n] \in {"none", "dir"} /\ Goto(n, "mount")
          /\ Fine /\ staging' = [staging EXCEPT ![n] = "dir"]
       \/ /\ staging[n] = "stale" /\ Goto(n, "cleanup")
          /\ Fine /\ UNCHANGED staging
       \/ /\ Return(n, "error") /\ Fault /\ UNCHANGED staging

StageCleanup(n) ==
    /\ Running(n, "stage", "cleanup")
    /\ \E after \in Paths, ok \in BOOLEAN :
           /\ Cleaned(staging[n], after, ok)
           /\ staging' = [staging EXCEPT ![n] = IF ok THEN "dir" ELSE after]
           /\ IF ok THEN Goto(n, "mount") ELSE Return(n, "error")
    /\ UNCHANGED <<target, kernel>>

(* The NFS mount; the server refuses a client it does not export to.       *)
StageMount(n) ==
    /\ Running(n, "stage", "mount")
    /\ UNCHANGED <<target, kernel>>
    /\ \/ /\ n \in kernel /\ Return(n, "ok")
          /\ Fine /\ staging' = [staging EXCEPT ![n] = "nfs"]
       \/ n \notin kernel /\ Return(n, "error") /\ Fine /\ UNCHANGED staging
       \/ Return(n, "error") /\ Fault /\ UNCHANGED staging

(* NodeUnstageVolume when it forgets the error of the cleanup.             *)
NodeUnstageVolumeIgnoresError(n) ==
    /\ Starting(n, "unstage")
    /\ \E after \in Paths \cup {"nfs"}, ok \in BOOLEAN :
           /\ Cleaned(staging[n], after, ok)
           /\ staging' = [staging EXCEPT ![n] = after]
           /\ Return(n, "ok")
    /\ UNCHANGED <<target, kernel>>

NodeUnstageVolume(n) ==
    /\ Starting(n, "unstage")
    /\ \E after \in Paths \cup {"nfs"}, ok \in BOOLEAN :
           /\ Cleaned(staging[n], after, ok)
           /\ staging' = [staging EXCEPT ![n] = after]
           /\ Return(n, IF ok THEN "ok" ELSE "error")
    /\ UNCHANGED <<target, kernel>>

(* NodePublishVolume's check by stat, which its comment warns of: a        *)
(* directory left over from before a reboot counts as mounted.             *)
PublishCheckByStat(n) ==
    /\ Starting(n, "publish")
    /\ UNCHANGED <<staging, kernel>>
    /\ \/ /\ target[n] \in {"rw", "ro", "dir"} /\ Return(n, "ok")
          /\ Fine /\ UNCHANGED target
       \/ /\ target[n] = "none" /\ Goto(n, "mount")
          /\ Fine /\ target' = [target EXCEPT ![n] = "dir"]
       \/ /\ target[n] = "stale" /\ Goto(n, "cleanup")
          /\ Fine /\ UNCHANGED target
       \/ /\ Return(n, "error") /\ Fault /\ UNCHANGED target

-----------------------------------------------------------------------------
(* NodePublishVolume: the check of the target path and MkdirAll.           *)
PublishCheck(n) ==
    /\ Starting(n, "publish")
    /\ UNCHANGED <<staging, kernel>>
    /\ \/ /\ target[n] \in {"rw", "ro"} /\ Return(n, "ok")
          /\ Fine /\ UNCHANGED target
       \/ /\ target[n] \in {"none", "dir"} /\ Goto(n, "mount")
          /\ Fine /\ target' = [target EXCEPT ![n] = "dir"]
       \/ /\ target[n] = "stale" /\ Goto(n, "cleanup")
          /\ Fine /\ UNCHANGED target
       \/ /\ Return(n, "error") /\ Fault /\ UNCHANGED target

PublishCleanup(n) ==
    /\ Running(n, "publish", "cleanup")
    /\ \E after \in Paths, ok \in BOOLEAN :
           /\ Cleaned(target[n], after, ok)
           /\ target' = [target EXCEPT ![n] = IF ok THEN "dir" ELSE after]
           /\ IF ok THEN Goto(n, "mount") ELSE Return(n, "error")
    /\ UNCHANGED <<staging, kernel>>

(* The bind mount of the data directory, which is there only while the     *)
(* volume is mounted at the staging path.                                  *)
PublishMount(n) ==
    /\ Running(n, "publish", "mount")
    /\ UNCHANGED <<staging, kernel>>
    /\ \/ /\ staging[n] = "nfs" /\ target' = [target EXCEPT ![n] = "rw"] /\ Fine
          /\ IF n \in ReadOnly THEN Goto(n, "remount") ELSE Return(n, "ok")
       \/ staging[n] # "nfs" /\ Return(n, "error") /\ Fine /\ UNCHANGED target
       \/ Return(n, "error") /\ Fault /\ UNCHANGED target

(* The remount, read-only.                                                 *)
PublishRemount(n) ==
    /\ Running(n, "publish", "remount")
    /\ UNCHANGED <<staging, kernel>>
    /\ \/ /\ target' = [target EXCEPT ![n] = IF @ = "rw" THEN "ro" ELSE @]
          /\ Fine /\ Return(n, "ok")
       \/ Goto(n, "undo") /\ Fault /\ UNCHANGED target

(* Its failure is undone, as far as the cleanup goes, and reported.        *)
PublishUndo(n) ==
    /\ Running(n, "publish", "undo")
    /\ \E after \in Paths \cup {"rw"}, ok \in BOOLEAN :
           /\ Cleaned(target[n], after, ok)
           /\ target' = [target EXCEPT ![n] = after]
    /\ Return(n, "error")
    /\ UNCHANGED <<staging, kernel>>

NodeUnpublishVolume(n) ==
    /\ Starting(n, "unpublish")
    /\ \E after \in Paths \cup {"rw", "ro"}, ok \in BOOLEAN :
           /\ Cleaned(target[n], after, ok)
           /\ target' = [target EXCEPT ![n] = after]
           /\ Return(n, IF ok THEN "ok" ELSE "error")
    /\ UNCHANGED <<staging, kernel>>

Handler(n) ==
    \/ StageCheck(n) \/ StageCleanup(n) \/ StageMount(n) \/ NodeUnstageVolume(n)
    \/ PublishCheck(n) \/ PublishCleanup(n) \/ PublishMount(n)
    \/ PublishRemount(n) \/ PublishUndo(n) \/ NodeUnpublishVolume(n)

-----------------------------------------------------------------------------
Lost(n) == IF reply[n] = "awaited" THEN "error" ELSE reply[n]

(* The driver's process dies, with the handlers and the locks in it.  The  *)
(* mounts belong to the machine.                                           *)
DriverCrash(n) ==
    /\ calls[n] # <<>> /\ Fault
    /\ calls' = [calls EXCEPT ![n] = <<>>]
    /\ reply' = [reply EXCEPT ![n] = Lost(n)]
    /\ UNCHANGED <<staging, target, overtaken, kernel>>

(* The server restarts or the session is lost: file handles become stale.  *)
MountsGoStale(n) ==
    /\ staging[n] = "nfs" /\ Fault
    /\ staging' = [staging EXCEPT ![n] = "stale"]
    /\ target' = [target EXCEPT ![n] = IF @ \in Mounted THEN "stale" ELSE @]
    /\ UNCHANGED <<calls, reply, overtaken, kernel>>

(* The kubelet's deadline passes; it treats the call as failed.            *)
GiveUp(n) ==
    /\ reply[n] = "awaited" /\ Fault
    /\ reply' = [reply EXCEPT ![n] = "error"]
    /\ UNCHANGED <<staging, target, calls, overtaken, kernel>>
=============================================================================
